-------------------------------- MODULE Crack --------------------------------
(***************************************************************************)
(* What becomes of the video of one input: the recovery of a key that is in *)
(* no list (src/stages/crack.py, crack_key), which the pipeline asks for    *)
(* (src/pipeline.py, find_keys), and USM.demux with the key that it gives.  *)
(*                                                                          *)
(* What the solver makes of a pool's statistics is not computed.  It ends   *)
(* at the key of the video, or at the key that one payload of the pool      *)
(* happens to speak for: chance, which the two halves are there to expose.  *)
(***************************************************************************)
EXTENDS Usm

CONSTANTS
    Key,            \* the key of the video, as its bytes
    Misleads,       \* Misleads[p]: the key that the payload with plaintext p speaks for
    Files,          \* inputs, as records of their chunks and whether they have a nonce
    Pad,            \* Pad[t]: the key stream for the time t, from the video's AES key
    SampleBlocks,   \* SAMPLE_BYTES, in blocks
    MinSampleBlocks,
    CheckEvery      \* chunks from one checkpoint to the next

\* A stub is the end of a file that was cut within the header of a chunk.
Chunks == [kind : {"video", "audio", "bad", "stub"}, plain : Payloads, time : Nat]

\* Chance has its limits: no two payloads of a file speak for one wrong key.
ASSUME CrackAssumption ==
    /\ Key \in KeyBytes
    /\ Files \subseteq [chunks : Seq(Chunks), nonce : BOOLEAN]
    /\ \A f \in Files : \A i \in DOMAIN f.chunks :
           LET c == f.chunks[i]
           IN /\ c.kind = "stub" => i = Len(f.chunks)
              /\ Masks(c.plain) => c.plain \in DOMAIN Misleads /\ Misleads[c.plain] \in KeyBytes
              /\ c.kind = "video" /\ f.nonce => Pad[c.time] \in Bits
    /\ \A f \in Files : \A i, j \in DOMAIN f.chunks :
           LET p == f.chunks[i].plain
               q == f.chunks[j].plain
           IN Masks(p) /\ Masks(q) /\ Misleads[p] = Misleads[q] => p = q \/ Misleads[p] = Key
    /\ SampleBlocks \in Nat /\ MinSampleBlocks \in Nat
    /\ CheckEvery \in Nat \ {0}

VARIABLES
    file,
    cracking,       \* --crack, and not a conversion
    cancelled,
    pc,
    at,             \* chunks read
    \* collect
    seen, pools, turn, used, ivf,
    \* solve
    side, stage, aim, mask, scored, solved,
    key,            \* as the mask that it gives, <<>> for none
    video           \* the .ivf, payload by payload

walkVars == <<seen, pools, turn, used, ivf>>
solveVars == <<side, stage, aim, mask, scored, solved>>
vars == <<file, cracking, cancelled, pc, at, walkVars, solveVars, key, video>>

Sides == 1 .. 2
Over == {"done", "no_key", "error", "cancelled"}

Chunk == file.chunks[at + 1]

\* read_chunks takes a stub for the end.
More == at < Len(file.chunks) /\ Chunk.kind # "stub"
IsVideo(c) == c.kind = "video"

VideoMask == BuildMask(Key)

\* A payload as the file has it.
Cipher(c) ==
    IF file.nonce THEN DecryptStream(c.plain, Pad[c.time]) ELSE Encrypt(c.plain, VideoMask)

Init ==
    /\ file \in Files /\ cracking \in BOOLEAN /\ cancelled = FALSE
    /\ pc = "nonce" /\ at = 0
    /\ seen = {} /\ pools = [s \in Sides |-> {}] /\ turn = 1 /\ used = 0 /\ ivf = "unknown"
    /\ side = 1 /\ stage = 0 /\ aim = Blank /\ mask = Blank /\ scored = {}
    /\ solved = [s \in Sides |-> Blank]
    /\ key = <<>> /\ video = <<>>

Stay == UNCHANGED <<file, cracking, cancelled>>

\* The GUI cancels.
Cancel ==
    /\ ~cancelled /\ pc \notin Over
    /\ cancelled' = TRUE
    /\ UNCHANGED <<file, cracking, pc, at, walkVars, solveVars, key, video>>

-----------------------------------------------------------------------------
\* video_nonce raises for a header that is corrupt, or a chunk before it ...
NonceFails ==
    /\ pc = "nonce"
    /\ pc' = "error"
    /\ Stay
    /\ UNCHANGED <<at, walkVars, solveVars, key, video>>

\* ... or find_keys or crack_key goes on: --crack declines the newer cipher; a
\* conversion has the keys of such a video listed, or else ends without them.
Nonce ==
    /\ pc = "nonce"
    /\ \/ ~file.nonce /\ pc' = "collect" /\ UNCHANGED key
       \/ file.nonce /\ pc' = "no_key" /\ UNCHANGED key
       \/ file.nonce /\ ~cracking /\ pc' = "demux" /\ key' = Blank
    /\ Stay
    /\ UNCHANGED <<at, walkVars, solveVars, video>>

\* read_chunks raises for a chunk that is corrupt, or cut short after its header.
ReadFails ==
    /\ pc \in {"collect", "demux"} /\ More
    /\ Chunk.kind = "bad"
    /\ pc' = "error"
    /\ Stay
    /\ UNCHANGED <<at, walkVars, solveVars, key, video>>

Heeds(count) == cancelled /\ count % CheckEvery = 0

\* collect: the checkpoint, before the chunk is looked at.
CollectCancelled ==
    /\ pc = "collect" /\ More /\ Chunk.kind # "bad"
    /\ Heeds(at + 1)
    /\ pc' = "cancelled"
    /\ Stay
    /\ UNCHANGED <<at, walkVars, solveVars, key, video>>

Reads ==
    /\ pc = "collect" /\ More /\ Chunk.kind # "bad"
    /\ ~Heeds(at + 1)
    /\ at' = at + 1
    /\ ivf' = IF IsVideo(Chunk) /\ ivf = "unknown" THEN Chunk.plain.format ELSE ivf
    /\ Stay

\* Repeats are dealt again.
MutantSampled(c) == IsVideo(c) /\ IsMasked(Cipher(c))

Sampled(c) == IsVideo(c) /\ IsMasked(Cipher(c)) /\ Cipher(c) \notin seen

PassOver ==
    /\ Reads
    /\ ~Sampled(Chunk)
    /\ UNCHANGED <<pc, seen, pools, turn, used, solveVars, key, video>>

\* Stats.add: a pool is what the statistics are counted over, so it keeps the
\* running XOR of each payload's whole blocks, and whose payload that was.
Deal ==
    /\ Reads
    /\ Sampled(Chunk)
    /\ seen' = seen \cup {Cipher(Chunk)}
    /\ pools' = [pools EXCEPT ![turn] =
                     @ \cup {[running |-> Running(Cipher(Chunk).body), plain |-> Chunk.plain]}]
    /\ used' = used + Len(Chunk.plain.body)
    /\ turn' = 3 - turn
    /\ pc' = IF used' >= SampleBlocks THEN "judge" ELSE "collect"
    /\ UNCHANGED <<solveVars, key, video>>

Collected ==
    /\ pc = "collect" /\ ~More
    /\ pc' = "judge"
    /\ Stay
    /\ UNCHANGED <<at, walkVars, solveVars, key, video>>

\* crack_key and evaluate, before anything is solved: no video, too little of
\* it, or one payload alone.
Decline ==
    /\ pc = "judge"
    /\ ivf # "DKIF" \/ used < MinSampleBlocks \/ pools[2] = {}
    /\ pc' = "no_key"
    /\ Stay
    /\ UNCHANGED <<at, walkVars, solveVars, key, video>>

-----------------------------------------------------------------------------
\* solve, for one pool: the beam is seen through the one candidate that is kept
\* to the end, whose values aim at one mask.
StartSolve ==
    /\ \/ pc = "judge" /\ ivf = "DKIF" /\ used >= MinSampleBlocks /\ pools[2] # {} /\ side' = 1
       \/ pc = "solved" /\ side = 1 /\ side' = 2
    /\ aim' \in {BuildMask(k) : k \in {Key} \cup {Misleads[p.plain] : p \in pools[side']}}
    /\ stage' = 0 /\ mask' = Blank /\ scored' = {}
    /\ pc' = "solve"
    /\ Stay
    /\ UNCHANGED <<at, walkVars, solved, key, video>>

\* One stage: the candidate is expanded, and its new entries and pairs scored.
SolveStage ==
    /\ pc = "solve" /\ stage < Len(Stages)
    /\ stage' = stage + 1
    /\ mask' = Expand(mask, Stages[stage'].expand, aim)
    /\ scored' = scored \cup {<<e, mask'[e]>> : e \in Stages[stage'].entries}
                        \cup {<<e, mask'[e], mask'[e + 1]>> : e \in Pairs(stage')}
    /\ Stay
    /\ UNCHANGED <<pc, at, walkVars, side, aim, solved, key, video>>

EndSolve ==
    /\ pc = "solve" /\ stage = Len(Stages)
    /\ solved' = [solved EXCEPT ![side] = mask]
    /\ pc' = "solved"
    /\ Stay
    /\ UNCHANGED <<at, walkVars, side, stage, aim, mask, scored, key, video>>

\* evaluate: the halves agree or not.  USM.__init__ builds the mask of the key
\* again, and demux reads the file from its start.
Evaluate ==
    /\ pc = "solved" /\ side = 2
    /\ \/ /\ solved[1] = solved[2]
          /\ key' = BuildMask(KeyFromMask(solved[1]))
          /\ pc' = IF cracking THEN "done" ELSE "demux"
       \/ /\ solved[1] # solved[2]
          /\ pc' = "no_key" /\ UNCHANGED key
    /\ at' = 0
    /\ Stay
    /\ UNCHANGED <<walkVars, solveVars, video>>

-----------------------------------------------------------------------------
\* demux: a chunk, and the checkpoint after it.
DemuxChunk ==
    /\ pc = "demux" /\ More /\ Chunk.kind # "bad"
    /\ at' = at + 1
    /\ video' = IF ~IsVideo(Chunk) THEN video
                ELSE Append(video, IF file.nonce
                                   THEN DecryptStream(Cipher(Chunk), Pad[Chunk.time])
                                   ELSE DecryptVideo(Cipher(Chunk), key))
    /\ pc' = IF Heeds(at + 1) THEN "cancelled" ELSE "demux"
    /\ Stay
    /\ UNCHANGED <<walkVars, solveVars, key>>

DemuxDone ==
    /\ pc = "demux" /\ ~More
    /\ pc' = "done"
    /\ Stay
    /\ UNCHANGED <<at, walkVars, solveVars, key, video>>

Next ==
    \/ Cancel
    \/ NonceFails \/ Nonce \/ ReadFails
    \/ CollectCancelled \/ PassOver \/ Deal \/ Collected
    \/ Decline \/ StartSolve \/ SolveStage \/ EndSolve \/ Evaluate
    \/ DemuxChunk \/ DemuxDone

Spec == Init /\ [][Next]_vars

-----------------------------------------------------------------------------
\* What a pool counts is what the solver takes it for: the odd blocks of the
\* running XOR are plaintext, the even ones plaintext XOR video_mask2, whatever
\* the key (src/stages/usm.py:193-199).  A payload that is not masked, or a
\* partial block, would poison the counts (src/tests/test_crack.py:189).
StatsAreSound ==
    \A s \in Sides : \A p \in pools[s] : \A i \in 1 .. Len(p.running) :
        p.running[i] = IF i % 2 = 1
                       THEN Flip(p.plain.body[i], 1 - MaskBit(VideoMask))
                       ELSE p.plain.body[i]

\* The stages and build_mask do not drift apart: whatever values a candidate is
\* made of, the mask that solve returns is that of a key, the one that
\* key_from_mask gives, and every entry and every pair of it was scored,
\* as what it is in the end (src/stages/crack.py:40-42, 101-103).
SolvesAKeysMask ==
    pc = "solved" =>
        /\ mask = BuildMask(KeyFromMask(mask))
        /\ scored = {<<e, mask[e]>> : e \in Entries}
                        \cup {<<e, mask[e], mask[e + 1]>> : e \in 0 .. 30}

\* A key is accepted only if two halves of distinct payloads solve to it, so
\* that no payload alone can speak for a wrong one
\* (src/stages/crack.py:8-10, 233).
AcceptedIsRight == key # <<>> /\ ~file.nonce => key = VideoMask

\* The payloads of the video among the first n chunks.
Videos(n) == Cardinality({i \in 1 .. n : IsVideo(file.chunks[i])})

\* A file that demux reads to its end, be it in a stub, gives all of its video in
\* the clear: every payload once, in order, whatever its length and parity of blocks
\* (src/stages/usm.py:192-199, 214-218).
VideoIsPlain ==
    pc = "done" /\ ~cracking =>
        /\ Len(video) = Videos(Len(file.chunks))
        /\ \A i \in 1 .. Len(file.chunks) :
               IsVideo(file.chunks[i]) => video[Videos(i)] = file.chunks[i].plain
=============================================================================
