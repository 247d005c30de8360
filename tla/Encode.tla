------------------------------- MODULE Encode -------------------------------
(***************************************************************************)
(* One re-encode (src/stages/encode.py, src/utils/reporter/worker.py): the  *)
(* main process relays what a worker process says, the worker pipes the     *)
(* filtered frames into ffmpeg, one of its threads reads ffmpeg's stderr,   *)
(* and another kills ffmpeg when the main process says stop.                *)
(*                                                                          *)
(* A message on the worker's queue is "note" (a log line, a task, progress) *)
(* or the result, "true" or "false".  multiprocessing.Queue is `buf`, the   *)
(* worker's own buffer, and `chan`, the pipe its feeder thread writes to.   *)
(***************************************************************************)
EXTENDS Naturals, Sequences

CONSTANTS
    Frames,         \* frames of the clip
    StdinRoom,      \* frames that ffmpeg's stdin pipe holds
    StderrRoom,     \* lines that its stderr pipe holds
    ChanRoom,       \* messages that the queue's pipe holds
    MayCrash        \* the worker process may die anywhere

ASSUME EncodeAssumption ==
    /\ Frames \in Nat
    /\ {StdinRoom, StderrRoom, ChanRoom} \subseteq Nat \ {0}
    /\ MayCrash \in BOOLEAN

VARIABLES
    \* the main process
    at,             \* where encode and relay_worker are
    wanted,         \* a cancel or a skip is in the command channel
    stop,           \* the event
    got,            \* what relay_worker returns, "none" for None
    answer,         \* what encode returns
    \* the worker process
    worker,         \* where its main thread is
    exitcode,       \* "ok" for 0, and what else ended it
    reader,         \* the thread of parse_ffmpeg_stderr
    killer,         \* the thread of kill_on_stop
    fed,            \* frames written to ffmpeg's stdin
    buf, chan,      \* its queue
    verdict,        \* the result it put, kept for the properties
    \* ffmpeg
    ffmpeg,
    frames,         \* frames in its stdin pipe
    eof,            \* that pipe is closed
    used,           \* frames it read
    errors,         \* lines in its stderr pipe
    part            \* the .mkv.part

mainVars == <<at, wanted, stop, got, answer>>
workerVars == <<worker, exitcode, reader, killer, fed, verdict>>
queueVars == <<buf, chan>>
ffmpegVars == <<ffmpeg, frames, eof, used, errors, part>>
vars == <<mainVars, workerVars, queueVars, ffmpegVars>>

Results == {"true", "false"}

Init ==
    /\ at = "check" /\ wanted = FALSE /\ stop = FALSE /\ got = "none" /\ answer = "none"
    /\ worker = "build" /\ exitcode = "ok" /\ reader = "off" /\ killer = "off"
    /\ fed = 0 /\ verdict = "none"
    /\ buf = <<>> /\ chan = <<>>
    /\ ffmpeg = "off" /\ frames = 0 /\ eof = FALSE /\ used = 0 /\ errors = 0
    /\ part = "missing"

Put(messages) == buf' = buf \o messages /\ UNCHANGED chan

-----------------------------------------------------------------------------
\* relay_worker, at the top of its loop.
Check ==
    /\ at = "check"
    /\ \/ worker = "dead" /\ at' = "drain" /\ UNCHANGED stop
       \/ worker # "dead" /\ ~wanted /\ at' = "get" /\ UNCHANGED stop
       \/ worker # "dead" /\ wanted /\ at' = "grace" /\ stop' = TRUE
    /\ UNCHANGED <<wanted, got, answer, workerVars, queueVars, ffmpegVars>>

\* queue.get(timeout=0.2)
Get ==
    /\ at = "get"
    /\ IF chan # <<>> /\ Head(chan) \in Results
       THEN got' = Head(chan) /\ at' = "join"
       ELSE at' = "check" /\ UNCHANGED got
    /\ chan' = IF chan = <<>> THEN chan ELSE Tail(chan)
    /\ UNCHANGED <<wanted, stop, answer, buf, workerVars, ffmpegVars>>

\* The worker's death takes its threads, its unwritten messages and its end of
\* ffmpeg's pipes with it, but not ffmpeg.
WorkerDies(code) ==
    /\ worker' = "dead"
    /\ exitcode' = code
    /\ reader' = "off" /\ killer' = "off"
    /\ buf' = <<>>
    /\ eof' = (eof \/ ffmpeg # "off")
    /\ UNCHANGED <<fed, verdict, chan, ffmpeg, frames, used, errors, part>>

\* The 5 s are over and the worker is left as it is.
MutantGraceJoined ==
    /\ at = "grace"
    /\ at' = "raised"
    /\ UNCHANGED <<wanted, stop, got, answer, workerVars, queueVars, ffmpegVars>>

\* process.join(5.0) finds the worker dead.
GraceJoined ==
    /\ at = "grace"
    /\ worker = "dead"
    /\ at' = "raised"
    /\ UNCHANGED <<wanted, stop, got, answer, workerVars, queueVars, ffmpegVars>>

\* The 5 s are over, and terminate() ends the worker wherever it is by then.
Terminate ==
    /\ at = "grace"
    /\ worker # "dead"
    /\ at' = "raised"
    /\ WorkerDies("terminated")
    /\ UNCHANGED <<wanted, stop, got, answer>>

\* A loop that takes the worker's death for the end of its messages.
MutantDrain ==
    /\ at = "drain"
    /\ at' = "join"
    /\ UNCHANGED <<wanted, stop, answer, got, buf, chan, workerVars, ffmpegVars>>

\* The worker is dead: what it left in the pipe is read to the end or to a result.
Drain ==
    /\ at = "drain"
    /\ IF chan = <<>> \/ Head(chan) \in Results THEN at' = "join" ELSE UNCHANGED at
    /\ got' = IF chan # <<>> /\ Head(chan) \in Results THEN Head(chan) ELSE got
    /\ chan' = IF chan = <<>> THEN chan ELSE Tail(chan)
    /\ UNCHANGED <<wanted, stop, answer, buf, workerVars, ffmpegVars>>

\* encode: process.join(), which has no time limit, and the exit status.
Join ==
    /\ at = "join"
    /\ worker = "dead"
    /\ at' = "returned"
    /\ answer' = IF exitcode = "ok" /\ got = "true" THEN "true" ELSE "false"
    /\ UNCHANGED <<wanted, stop, got, workerVars, queueVars, ffmpegVars>>

Over == at \in {"returned", "raised"}

\* The GUI, external: a cancel or a skip.
StopArrives ==
    /\ ~Over /\ ~wanted
    /\ wanted' = TRUE
    /\ UNCHANGED <<at, stop, got, answer, workerVars, queueVars, ffmpegVars>>

-----------------------------------------------------------------------------
\* worker: build_clip, which may raise.
Build ==
    /\ worker = "build"
    /\ \/ worker' = "spawn" /\ UNCHANGED <<queueVars, verdict>>
       \/ worker' = "exit" /\ verdict' = "false" /\ Put(<<"note", "false">>)
    /\ UNCHANGED <<mainVars, exitcode, reader, killer, fed, ffmpegVars>>

\* Popen; an OSError of it is not caught in the worker.
Spawn ==
    /\ worker = "spawn"
    /\ \/ worker' = "start" /\ ffmpeg' = "running" /\ UNCHANGED exitcode
       \/ worker' = "exit" /\ exitcode' = "error" /\ UNCHANGED ffmpeg
    /\ UNCHANGED <<mainVars, reader, killer, fed, verdict, queueVars,
                   frames, eof, used, errors, part>>

StartThreads ==
    /\ worker = "start"
    /\ worker' = "feed"
    /\ killer' = "waiting"
    /\ reader' = "reading"
    /\ Put(<<"note">>)
    /\ UNCHANGED <<mainVars, exitcode, fed, verdict, ffmpegVars>>

\* clip.output writes the frames in order, and blocks on a full pipe.
FeedFrame ==
    /\ worker = "feed"
    /\ fed < Frames
    /\ ffmpeg = "running" /\ frames < StdinRoom
    /\ fed' = fed + 1
    /\ frames' = frames + 1
    /\ UNCHANGED <<mainVars, worker, exitcode, reader, killer, verdict, queueVars,
                   ffmpeg, eof, used, errors, part>>

\* ffmpeg's stdin is left open.
MutantFeedEnd ==
    /\ worker = "feed"
    /\ fed = Frames
    /\ worker' = "fed"
    /\ UNCHANGED <<mainVars, exitcode, reader, killer, fed, verdict, queueVars, ffmpegVars>>

FeedEnd ==
    /\ worker = "feed"
    /\ fed = Frames
    /\ worker' = "fed"
    /\ eof' = TRUE
    /\ UNCHANGED <<mainVars, exitcode, reader, killer, fed, verdict, queueVars,
                   ffmpeg, frames, used, errors, part>>

\* The filter fails, or ffmpeg is gone: stdin is closed on the way out.
FeedFails ==
    /\ worker = "feed"
    /\ worker' = "broken"
    /\ eof' = TRUE
    /\ Put(<<"note">>)
    /\ UNCHANGED <<mainVars, exitcode, reader, killer, fed, verdict,
                   ffmpeg, frames, used, errors, part>>

\* ... and then ffmpeg is killed, and the executor waits for its thread.
Break ==
    /\ worker = "broken"
    /\ worker' = "closing"
    /\ ffmpeg' = IF ffmpeg = "running" THEN "killed" ELSE ffmpeg
    /\ verdict' = "false"
    /\ Put(<<"false">>)
    /\ UNCHANGED <<mainVars, exitcode, reader, killer, fed, frames, eof, used, errors, part>>

AwaitReader ==
    /\ worker \in {"fed", "closing"}
    /\ reader = "done"
    /\ worker' = IF worker = "fed" THEN "wait" ELSE "exit"
    /\ UNCHANGED <<mainVars, exitcode, reader, killer, fed, verdict, queueVars, ffmpegVars>>

\* All the frames went in, so the file is taken for whole.
MutantWait ==
    /\ worker = "wait"
    /\ ffmpeg # "running"
    /\ worker' = "exit"
    /\ verdict' = "true" /\ Put(<<"true">>)
    /\ UNCHANGED <<mainVars, exitcode, reader, killer, fed, ffmpegVars>>

\* process.wait() and the return code.
Wait ==
    /\ worker = "wait"
    /\ ffmpeg # "running"
    /\ worker' = "exit"
    /\ IF ffmpeg = "ok"
       THEN verdict' = "true" /\ Put(<<"true">>)
       ELSE verdict' = "false" /\ Put(<<"note", "false">>)
    /\ UNCHANGED <<mainVars, exitcode, reader, killer, fed, ffmpegVars>>

\* A process exits once the queue's feeder has written everything.
Exit ==
    /\ worker = "exit"
    /\ buf = <<>>
    /\ WorkerDies(exitcode)
    /\ UNCHANGED mainVars

Crash ==
    /\ MayCrash
    /\ worker # "dead"
    /\ WorkerDies("crashed")
    /\ UNCHANGED mainVars

\* multiprocessing.Queue's feeder thread, external.
Flush ==
    /\ worker # "dead"
    /\ buf # <<>>
    /\ Len(chan) < ChanRoom
    /\ chan' = Append(chan, Head(buf))
    /\ buf' = Tail(buf)
    /\ UNCHANGED <<mainVars, workerVars, ffmpegVars>>

\* The stream is read once the frames are all written.
MutantReadLine ==
    /\ reader = "reading"
    /\ worker \in {"fed", "closing"}
    /\ \/ errors > 0 /\ errors' = errors - 1 /\ Put(<<"note">>) /\ UNCHANGED reader
       \/ errors = 0 /\ ffmpeg # "running" /\ reader' = "done" /\ UNCHANGED <<errors, queueVars>>
    /\ UNCHANGED <<mainVars, worker, exitcode, killer, fed, verdict,
                   ffmpeg, frames, eof, used, part>>

\* parse_ffmpeg_stderr: lines up to the end of the stream.
ReadLine ==
    /\ reader = "reading"
    /\ \/ errors > 0 /\ errors' = errors - 1 /\ Put(<<"note">>) /\ UNCHANGED reader
       \/ errors = 0 /\ ffmpeg # "running" /\ reader' = "done" /\ UNCHANGED <<errors, queueVars>>
    /\ UNCHANGED <<mainVars, worker, exitcode, killer, fed, verdict,
                   ffmpeg, frames, eof, used, part>>

KillOnStop ==
    /\ killer = "waiting"
    /\ stop
    /\ killer' = "done"
    /\ ffmpeg' = IF ffmpeg = "running" THEN "killed" ELSE ffmpeg
    /\ UNCHANGED <<mainVars, worker, exitcode, reader, fed, verdict, queueVars,
                   frames, eof, used, errors, part>>

-----------------------------------------------------------------------------
\* ffmpeg, external: it writes a line for each frame and one as it ends, and
\* waits for room in the pipe, unless no one is left at its other end.
SaysOneLine ==
    IF worker = "dead" THEN UNCHANGED errors
    ELSE errors < StderrRoom /\ errors' = errors + 1

FfmpegReads ==
    /\ ffmpeg = "running"
    /\ frames > 0
    /\ SaysOneLine
    /\ frames' = frames - 1
    /\ used' = used + 1
    /\ part' = "torn"
    /\ UNCHANGED <<mainVars, workerVars, queueVars, ffmpeg, eof>>

\* The end of its input: a file that plays, of the frames it was given.
FfmpegEnds ==
    /\ ffmpeg = "running"
    /\ eof /\ frames = 0
    /\ SaysOneLine
    /\ ffmpeg' = "ok"
    /\ part' = IF used = Frames THEN "whole" ELSE "short"
    /\ UNCHANGED <<mainVars, workerVars, queueVars, frames, eof, used>>

FfmpegFails ==
    /\ ffmpeg = "running"
    /\ SaysOneLine
    /\ ffmpeg' = "failed"
    /\ UNCHANGED <<mainVars, workerVars, queueVars, frames, eof, used, part>>

-----------------------------------------------------------------------------
Main == Check \/ Get \/ GraceJoined \/ Terminate \/ Drain \/ Join

\* What the worker's main thread does when nothing but a dead ffmpeg is wrong.
WorkerMain ==
    \/ Build \/ Spawn \/ StartThreads
    \/ FeedFrame \/ FeedEnd \/ (FeedFails /\ ffmpeg # "running") \/ Break
    \/ AwaitReader \/ Wait \/ Exit

\* An ffmpeg that does not fail reads all of its input.
Ffmpeg == FfmpegReads \/ FfmpegEnds

\* encode has returned or raised, and what it left behind has come to rest.
Rest == Over /\ ffmpeg # "running" /\ UNCHANGED vars

Next ==
    \/ Main \/ StopArrives
    \/ WorkerMain \/ FeedFails \/ Crash
    \/ Flush \/ ReadLine \/ KillOnStop
    \/ Ffmpeg \/ FfmpegFails
    \/ Rest

Spec == Init /\ [][Next]_vars

\* Every process and every thread runs.  That a filter or an encode fails is
\* never relied on, and neither is a stop or a crash.
FairSpec ==
    /\ Spec
    /\ WF_vars(Main)
    /\ WF_vars(WorkerMain)
    /\ WF_vars(Flush)
    /\ WF_vars(ReadLine)
    /\ WF_vars(KillOnStop)
    /\ WF_vars(Ffmpeg)

-----------------------------------------------------------------------------
Message == {"note"} \cup Results

\* Every variable has its type, and no pipe holds more than it has room for.
TypeOK ==
    /\ at \in {"check", "get", "grace", "drain", "join", "returned", "raised"}
    /\ wanted \in BOOLEAN /\ stop \in BOOLEAN
    /\ got \in Results \cup {"none"}
    /\ answer \in Results \cup {"none"}
    /\ worker \in {"build", "spawn", "start", "feed", "fed", "broken", "closing", "wait",
                   "exit", "dead"}
    /\ exitcode \in {"ok", "error", "terminated", "crashed"}
    /\ reader \in {"off", "reading", "done"}
    /\ killer \in {"off", "waiting", "done"}
    /\ fed \in 0 .. Frames
    /\ buf \in Seq(Message)
    /\ chan \in Seq(Message) /\ Len(chan) <= ChanRoom
    /\ verdict \in Results \cup {"none"}
    /\ ffmpeg \in {"off", "running", "ok", "failed", "killed"}
    /\ frames \in 0 .. StdinRoom
    /\ eof \in BOOLEAN
    /\ used \in 0 .. Frames
    /\ errors \in 0 .. StderrRoom
    /\ part \in {"missing", "torn", "short", "whole"}

\* encode returns True only for a file with every frame in it, made by an
\* ffmpeg that ended well: no stop, crash, broken filter or dead ffmpeg passes
\* for a success.  process_usm renames the .part into place on the strength of
\* this (src/pipeline.py:208).
TrueMeansWhole ==
    answer = "true" => ffmpeg = "ok" /\ part = "whole" /\ used = Frames

\* What a worker that ends in order said of its encode is what encode returns,
\* even if the main process finds it dead before it has read the result
\* (src/utils/reporter/worker.py:66).
ResultArrives ==
    at = "returned" /\ exitcode = "ok" => answer = verdict

\* An ffmpeg that still writes to the .part when encode is over, while the
\* fallback mux or the cleanup is at the same file, is the orphan of a worker that
\* crashed, or that was terminated on a stop (src/utils/reporter/worker.py:54), which
\* the comment at worker.py:49 leaves out: the clip was built within the grace period.
\* A worker that ends by itself leaves none, an orphan never comes with a success,
\* and its input is closed, so it ends too.
QuietWhenOver ==
    Over /\ ffmpeg = "running" =>
        /\ exitcode = "crashed" \/ (at = "raised" /\ exitcode = "terminated")
        /\ eof
        /\ answer # "true"

\* The worker's main thread is held up, and no one is about to let it go: a
\* full stdin pipe, a reader that is not through, an ffmpeg that has not ended,
\* or messages that no one reads once the main process joins the worker.
HeldUp ==
    \/ worker = "feed" /\ ffmpeg = "running" /\ fed < Frames /\ frames = StdinRoom
    \/ worker \in {"fed", "closing"} /\ reader # "done"
    \/ worker = "wait" /\ ffmpeg = "running"
    \/ worker = "exit" /\ buf # <<>> /\ Len(chan) = ChanRoom /\ at = "join"

FfmpegHeldUp == ffmpeg = "running" => errors = StderrRoom \/ (frames = 0 /\ ~eof)

ReaderHeldUp == reader = "reading" => errors = 0 /\ ffmpeg = "running"

\* The worker, ffmpeg, the reader of its stderr and the main process never wait
\* in a circle, over two bounded pipes, a queue and a join without a time limit
\* (src/stages/encode.py:194, src/stages/encode.py:204).
NoCircle == ~(HeldUp /\ FfmpegHeldUp /\ ReaderHeldUp)

\* encode ends: the two pipes of ffmpeg, the queue and the joins never leave
\* everyone waiting for everyone (src/stages/encode.py:194).
Ends == <>Over

\* A worker that is done exits, because its feeder flushes what is left
\* (src/utils/reporter/worker.py:66).
WorkerExits == worker = "exit" ~> worker = "dead"
=============================================================================
