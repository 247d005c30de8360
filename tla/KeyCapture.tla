----------------------------- MODULE KeyCapture -----------------------------
(***************************************************************************)
(* A key capture (src/capture/run.py, KeyCapture): PktMon's thread queues   *)
(* the packets and may fail, the main thread feeds them to the Sniffer,     *)
(* reports each key once, and looks for the files that a new key opens      *)
(* (src/capture/match.py) when no other key has come for two seconds.       *)
(***************************************************************************)
EXTENDS Sniffer

CONSTANTS
    Streams,        \* what each side of each connection sends, as sequences
    AtOnce,         \* keys that keys.json lists, and those without an AES key
    NumberOf,       \* the number of each key
    NFiles,         \* unlisted files are 1 .. NFiles, in the order of their names
    Opens,          \* the keys that each file passes the test of
    Fragile,        \* files that cannot be read at times
    MayLinger,      \* packets of an earlier connection may come after the next login
    MayInterrupt,   \* Ctrl+C may come, at any time
    MaxQueue        \* bound: packets in the queue

Files == 1 .. NFiles

ASSUME KeyCaptureAssumption ==
    /\ Streams \in [Conns -> [Sides -> Seq(Message)]]
    /\ AtOnce \subseteq VideoKeys
    /\ DOMAIN NumberOf = VideoKeys
    /\ NFiles \in Nat
    /\ Opens \in [Files -> SUBSET VideoKeys]
    /\ Fragile \subseteq Files
    /\ {MayLinger, MayInterrupt} \subseteq BOOLEAN
    /\ MaxQueue \in Nat

VARIABLES
    \* the game and the GUI
    online,         \* the connection it is at
    at,             \* how far each side of each connection is
    stop,           \* a cancel is in the pipe, or the GUI closed it
    \* PktMon
    queue,
    failed,
    \* the main thread
    pc,
    last,           \* it is past its loop
    raising,        \* match_keys was left by an exception
    adding,         \* the key that add_key is at, as a set
    found, pending,
    burst,          \* less than two seconds since last_key
    due,            \* it was longer when loop read the clock
    candidates,
    batch,          \* the keys that match_pending took
    ahead,          \* the candidates that match_keys has not got to
    videos,         \* what each key was matched with
    outcome,
    \* kept for the properties
    times,          \* how often each key was reported
    searched,       \* keys that were tried on every candidate
    unread,         \* files that could not be read
    interrupted

gameVars == <<online, at, stop>>
pktmonVars == <<queue, failed>>
matchVars == <<raising, candidates, batch, ahead, videos, searched, unread>>
keyVars == <<adding, found, pending, burst, due, times>>
vars == <<snifferVars, gameVars, pktmonVars, matchVars, keyVars, pc, last, outcome, interrupted>>

Alive == pc # "done"

Init ==
    /\ SnifferInit
    /\ online = 0
    /\ at = [c \in Conns |-> [s \in Sides |-> 0]]
    /\ stop = FALSE
    /\ queue = <<>> /\ failed = FALSE
    /\ pc = "start" /\ last = FALSE /\ raising = FALSE
    /\ adding = {} /\ found = {} /\ pending = {}
    /\ burst = FALSE /\ due = FALSE
    /\ candidates = {} /\ batch = {} /\ ahead = {}
    /\ videos = [k \in VideoKeys |-> {}]
    /\ outcome = "none"
    /\ times = [k \in VideoKeys |-> 0]
    /\ searched = {} /\ unread = {} /\ interrupted = FALSE

-----------------------------------------------------------------------------
\* PktMon's thread: Capture.data queues a packet, or it was missed.
Arrives(p) ==
    /\ \/ Len(queue) < MaxQueue /\ queue' = Append(queue, p)
       \/ UNCHANGED queue
    /\ UNCHANGED <<snifferVars, stop, failed, matchVars, keyVars, pc, last, outcome, interrupted>>

\* Packets that come after the loop saw its last one make no difference.
Listening == pc # "start" /\ ~(last \/ failed \/ stop)

Opening(c) ==
    [conn |-> c, side |-> "client", under |-> "hello", reply |-> FALSE, keys |-> {}]

LogIn ==
    /\ Listening /\ online < NConns
    /\ online' = online + 1
    /\ Arrives(Opening(online'))
    /\ UNCHANGED at

\* A client is gone with its connection, and the server does not know at once.
Talk(c, side) ==
    /\ Listening
    /\ c = online \/ (MayLinger /\ c + 1 = online /\ side = "server")
    /\ at[c][side] < Len(Streams[c][side])
    /\ at' = [at EXCEPT ![c][side] = @ + 1]
    /\ Arrives(Streams[c][side][at[c][side] + 1])
    /\ UNCHANGED online

\* Capture.event, for a stream that ends without being closed.
PktMonFails ==
    /\ pc \notin {"start", "done"} /\ ~failed
    /\ failed' = TRUE
    /\ UNCHANGED <<snifferVars, gameVars, queue, matchVars, keyVars, pc, last, outcome, interrupted>>

GuiStops ==
    /\ Alive /\ ~stop /\ pc # "start"
    /\ stop' = TRUE
    /\ UNCHANGED <<snifferVars, online, at, pktmonVars, matchVars, keyVars, pc, last, outcome,
                   interrupted>>

TwoSeconds ==
    /\ burst
    /\ burst' = FALSE
    /\ UNCHANGED <<snifferVars, gameVars, pktmonVars, matchVars, adding, found, pending, due, times,
                   pc, last, outcome, interrupted>>

Outside == UNCHANGED <<gameVars, pktmonVars, interrupted>>

-----------------------------------------------------------------------------
\* scan_game_folder, and the start of PktMon.  There may be no game folder.
Open ==
    /\ pc = "start"
    /\ candidates' \in {Files, {}}
    /\ \/ pc' = "loop" /\ UNCHANGED outcome
       \/ pc' = "done" /\ outcome' = "error"
    /\ UNCHANGED <<snifferVars, keyVars, last, raising, batch, ahead, videos, searched, unread>>
    /\ Outside

\* loop ends by the failure of PktMon or by the checkpoint.
LeaveLoop ==
    /\ pc = "loop"
    /\ failed \/ stop
    /\ pc' = "match" /\ last' = TRUE
    /\ UNCHANGED <<snifferVars, matchVars, keyVars, outcome>>
    /\ Outside

\* Nothing else is done when no packet comes.
MutantNextFrame ==
    /\ pc = "loop" /\ ~failed /\ ~stop
    /\ \/ queue # <<>> /\ Feed(Head(queue)) /\ queue' = Tail(queue) /\ pc' = "feed"
       \/ queue = <<>> /\ UNCHANGED <<snifferVars, queue, pc>>
    /\ due' = ~burst
    /\ UNCHANGED <<failed, gameVars, matchVars, adding, found, pending, burst, times, last, outcome,
                   interrupted>>

\* A packet, or none within half a second.
NextFrame ==
    /\ pc = "loop" /\ ~failed /\ ~stop
    /\ \/ queue # <<>> /\ Feed(Head(queue)) /\ queue' = Tail(queue)
       \/ queue = <<>> /\ UNCHANGED <<snifferVars, queue>>
    /\ due' = ~burst
    /\ pc' = "feed"
    /\ UNCHANGED <<failed, gameVars, matchVars, adding, found, pending, burst, times, last, outcome,
                   interrupted>>

\* The keys in the commands that the server sent.
Received == UNION {m.keys : m \in {c \in commands : c.side = "server"}}

\* add_key, for one that is new to the capture.
FindKey ==
    /\ pc = "feed"
    /\ \E k \in Received \ found :
           /\ found' = found \cup {k}
           /\ adding' = {k}
    /\ pc' = "add"
    /\ UNCHANGED <<snifferVars, matchVars, pending, burst, due, times, last, outcome>>
    /\ Outside

Reported(k) == times' = [times EXCEPT ![k] = @ + 1]

\* A key that keys.json lists, one of the old scheme, or one without files to
\* look for it in is reported at once; any other waits for its files.
PlaceKey ==
    /\ pc = "add"
    /\ \E k \in adding :
           \/ /\ k \in AtOnce \/ candidates = {}
              /\ Reported(k)
              /\ UNCHANGED <<pending, burst, due>>
           \/ /\ k \notin AtOnce /\ candidates # {}
              /\ pending' = {j \in pending : NumberOf[j] # NumberOf[k]} \cup {k}
              /\ burst' = TRUE /\ due' = FALSE
              /\ UNCHANGED times
    /\ adding' = {}
    /\ pc' = "feed"
    /\ UNCHANGED <<snifferVars, matchVars, found, last, outcome>>
    /\ Outside

\* All keys of the packet are added: is it time to look for files?
AfterFeed ==
    /\ pc = "feed"
    /\ Received \subseteq found
    /\ pc' = IF pending # {} /\ due THEN "match" ELSE "loop"
    /\ commands' = {} /\ due' = FALSE
    /\ UNCHANGED <<logged_in, conv, key, dead, seeds, waiting, tried, broken, decrypted, login,
                   told, heard>>
    /\ UNCHANGED <<matchVars, adding, found, pending, burst, times, last, outcome>>
    /\ Outside

-----------------------------------------------------------------------------
\* Where match_pending returns to, or where its exception is suppressed.
Return(raised) ==
    /\ pc' = IF last THEN "summary" ELSE IF raised THEN "match" ELSE "loop"
    /\ last' = (last \/ raised)

NothingPending ==
    /\ pc = "match" /\ pending = {}
    /\ Return(FALSE)
    /\ UNCHANGED <<snifferVars, matchVars, keyVars, outcome>>
    /\ Outside

\* The keys that wait are not taken out.
MutantTakePending ==
    /\ pc = "match" /\ pending # {}
    /\ batch' = pending
    /\ pc' = "taken"
    /\ UNCHANGED <<snifferVars, keyVars, raising, candidates, ahead, videos, searched, unread,
                   last, outcome>>
    /\ Outside

\* match_pending takes the keys that wait ...
TakePending ==
    /\ pc = "match" /\ pending # {}
    /\ batch' = pending /\ pending' = {}
    /\ pc' = "taken"
    /\ UNCHANGED <<snifferVars, adding, found, burst, due, times, raising, candidates, ahead,
                   videos, searched, unread, last, outcome>>
    /\ Outside

\* ... logs that, and enters its try block.
EnterTry ==
    /\ pc = "taken"
    /\ ahead' = candidates /\ raising' = FALSE
    /\ pc' = "try"
    /\ UNCHANGED <<snifferVars, keyVars, candidates, batch, videos, searched, unread, last, outcome>>
    /\ Outside

\* match_keys, for the next candidate, which may fail to be read: one of the keys
\* that open it gets it.
MatchFile ==
    /\ pc = "try" /\ ahead # {} /\ ~stop
    /\ \E f \in ahead :
           /\ \A g \in ahead : f <= g
           /\ ahead' = ahead \ {f}
           /\ \/ f \in Fragile /\ unread' = unread \cup {f} /\ UNCHANGED videos
              \/ /\ UNCHANGED unread
                 /\ \/ \E k \in batch \cap Opens[f] :
                           videos' = [videos EXCEPT ![k] = @ \cup {f}]
                    \/ batch \cap Opens[f] = {} /\ UNCHANGED videos
    /\ UNCHANGED <<snifferVars, keyVars, pc, last, raising, candidates, batch, searched, outcome>>
    /\ Outside

Matched == UNION {videos[k] : k \in batch}

\* The matched files stay candidates.
MutantLeaveTry ==
    /\ pc = "try"
    /\ \/ ahead = {} /\ UNCHANGED raising /\ searched' = searched \cup batch
       \/ ahead # {} /\ stop /\ raising' = TRUE /\ UNCHANGED searched
    /\ pc' = "report"
    /\ UNCHANGED <<snifferVars, keyVars, last, candidates, batch, ahead, videos, unread, outcome>>
    /\ Outside

\* The end of match_keys, or the checkpoint before the next candidate, and the
\* finally clause.
LeaveTry ==
    /\ pc = "try"
    /\ \/ ahead = {} /\ UNCHANGED raising /\ searched' = searched \cup batch
       \/ ahead # {} /\ stop /\ raising' = TRUE /\ UNCHANGED searched
    /\ candidates' = candidates \ Matched
    /\ pc' = "report"
    /\ UNCHANGED <<snifferVars, keyVars, last, batch, ahead, videos, unread, outcome>>
    /\ Outside

ReportKey ==
    /\ pc = "report" /\ batch # {}
    /\ \E k \in batch :
           /\ Reported(k)
           /\ batch' = batch \ {k}
    /\ UNCHANGED <<snifferVars, adding, found, pending, burst, due, pc, last, raising, candidates,
                   ahead, videos, searched, unread, outcome>>
    /\ Outside

AllReported ==
    /\ pc = "report" /\ batch = {}
    /\ Return(raising)
    /\ UNCHANGED <<snifferVars, matchVars, keyVars, outcome>>
    /\ Outside

\* summarize, the end of PktMon's session, and the exit status.
Summarize ==
    /\ pc = "summary"
    /\ Finish
    /\ pc' = "done"
    /\ outcome' = IF failed THEN "error" ELSE "ok"
    /\ UNCHANGED <<matchVars, keyVars, last>>
    /\ Outside

\* Ctrl+C, as far as run suppresses it.  Within the try block the finally
\* clause comes first.
Interrupt ==
    /\ MayInterrupt /\ ~interrupted
    /\ pc \notin {"start", "summary", "done"}
    /\ interrupted' = TRUE
    /\ \/ /\ pc = "try"
          /\ candidates' = candidates \ Matched
          /\ raising' = TRUE
          /\ pc' = "report"
          /\ UNCHANGED <<last, adding, batch>>
       \/ /\ pc # "try"
          /\ adding' = {} /\ batch' = {}
          /\ Return(TRUE)
          /\ UNCHANGED <<candidates, raising>>
    /\ UNCHANGED <<snifferVars, gameVars, pktmonVars, found, pending, burst, due, times, ahead,
                   videos, searched, unread, outcome>>

Idle == ~Alive /\ UNCHANGED vars

Main ==
    \/ Open \/ LeaveLoop \/ NextFrame \/ FindKey \/ PlaceKey \/ AfterFeed
    \/ NothingPending \/ TakePending \/ EnterTry \/ MatchFile \/ LeaveTry
    \/ ReportKey \/ AllReported \/ Summarize

Game == LogIn \/ \E c \in Conns, side \in Sides : Talk(c, side)

Next == Main \/ Game \/ PktMonFails \/ GuiStops \/ TwoSeconds \/ Interrupt \/ Idle

Spec == Init /\ [][Next]_vars

\* The main thread runs, and time passes.
FairSpec == Spec /\ WF_vars(Main) /\ WF_vars(TwoSeconds)

-----------------------------------------------------------------------------
Labels ==
    {"start", "loop", "feed", "add", "match", "taken", "try", "report", "summary", "done"}

\* Every variable has its type, and a key is being added only in add_key.
TypeOK ==
    /\ SnifferTypeOK
    /\ online \in 0 .. NConns
    /\ at \in [Conns -> [Sides -> Nat]]
    /\ stop \in BOOLEAN /\ failed \in BOOLEAN
    /\ queue \in Seq(Message)
    /\ pc \in Labels
    /\ last \in BOOLEAN /\ raising \in BOOLEAN
    /\ burst \in BOOLEAN /\ due \in BOOLEAN
    /\ adding \subseteq found
    /\ found \subseteq VideoKeys /\ pending \subseteq VideoKeys /\ batch \subseteq VideoKeys
    /\ candidates \subseteq Files /\ ahead \subseteq Files /\ unread \subseteq Files
    /\ videos \in [VideoKeys -> SUBSET Files]
    /\ outcome \in {"none", "ok", "error"}
    /\ times \in [VideoKeys -> Nat]
    /\ searched \subseteq VideoKeys
    /\ interrupted \in BOOLEAN

\* No key is reported twice, however often the server sends the list, and a
\* capture that a stop ended, in the middle of a match or not, or that PktMon
\* ended, has reported each key it found (src/capture/run.py:56, 148).
EveryKeyReported ==
    /\ \A k \in VideoKeys : times[k] <= 1
    /\ pc = "done" /\ ~interrupted => \A k \in found : times[k] = 1

\* A message with keys that came out whole is not lost without a word: at the
\* end its keys are found, or its login was reported as lost, or the summary
\* warns of messages that did not parse.
NothingUnsaid ==
    pc = "done" /\ ~interrupted =>
        \A h \in heard : h.keys \subseteq found \/ h.login \in told \/ broken

\* A file is given to one key at most, over all the matches of a capture, and
\* one that is left was unreadable or opened by no key that was tried on it.
FilesMatched ==
    /\ \A k, l \in VideoKeys : k # l => videos[k] \cap videos[l] = {}
    /\ \A f \in candidates \ unread, k \in searched : k \notin Opens[f]

\* A key that was found is reported, without waiting for the capture to end,
\* which nobody has to do.  It is match_pending in loop that does it.
FoundIsReported == \A k \in VideoKeys : k \in found ~> times[k] = 1 \/ interrupted
=============================================================================
