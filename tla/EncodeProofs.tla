---------------------------- MODULE EncodeProofs ----------------------------
(***************************************************************************)
(* Encode, for a clip of any length and pipes of any size: a success is a   *)
(* whole file, the result of a worker that ends in order arrives, only the  *)
(* ffmpeg of a worker ended from outside is left, and no one waits in a     *)
(* circle.                                                                  *)
(***************************************************************************)
EXTENDS Encode, TLAPS

Holds(queue, message) == \E i \in 1 .. Len(queue) : queue[i] = message

WorkerPlaces ==
    {"build", "spawn", "start", "feed", "fed", "broken", "closing", "wait", "exit", "dead"}

Types ==
    /\ at \in {"check", "get", "grace", "drain", "join", "returned", "raised"}
    /\ got \in Results \cup {"none"}
    /\ answer \in Results \cup {"none"}
    /\ worker \in WorkerPlaces
    /\ exitcode \in {"ok", "error", "terminated", "crashed"}
    /\ reader \in {"off", "reading", "done"}
    /\ killer \in {"off", "waiting", "done"}
    /\ buf \in Seq(Message)
    /\ chan \in Seq(Message)
    /\ verdict \in Results \cup {"none"}
    /\ ffmpeg \in {"off", "running", "ok", "failed", "killed"}

Counts ==
    /\ fed \in Nat /\ frames \in Nat /\ used \in Nat
    /\ fed <= Frames
    /\ used + frames = fed

\* Where the worker is tells what has become of ffmpeg.
Progress ==
    /\ worker \in {"build", "spawn"} => ffmpeg = "off"
    /\ worker \in {"build", "spawn", "start"} => killer = "off" /\ reader = "off"
    /\ worker \in {"closing", "exit"} => ffmpeg # "running"
    /\ worker \in {"fed", "wait"} => fed = Frames
    /\ reader = "done" => ffmpeg # "running"
    /\ killer = "done" => ffmpeg # "running"
    /\ worker = "dead" => killer = "off" /\ reader = "off"
    /\ worker = "dead" /\ exitcode \in {"ok", "error"} => ffmpeg # "running"
    /\ exitcode \in {"terminated", "crashed"} => worker = "dead"
    /\ ffmpeg = "ok" => part = IF used = Frames THEN "whole" ELSE "short"
    /\ ffmpeg = "ok" => frames = 0

\* What the worker has said is settled, and true.
Settled ==
    /\ verdict # "none" => worker \in {"closing", "exit", "dead"}
    /\ verdict = "none" => worker # "closing"
    /\ verdict = "none" /\ worker \in {"exit", "dead"} => exitcode # "ok"
    /\ exitcode = "error" => verdict = "none" /\ worker \in {"exit", "dead"}
    /\ verdict = "true" => ffmpeg = "ok" /\ part = "whole" /\ used = Frames

\* It is where the worker put it until the main process takes it.
Whereabouts ==
    /\ \A r \in Results : Holds(buf, r) \/ Holds(chan, r) \/ got = r => verdict = r
    /\ verdict # "none" => got # "none" \/ Holds(chan, verdict) \/ Holds(buf, verdict)
                              \/ exitcode # "ok"

\* What the main process has concluded.
Conclusion ==
    /\ at \in {"drain", "returned", "raised"} => worker = "dead"
    /\ got # "none" => at \in {"join", "returned"}
    /\ at \in {"join", "returned"} /\ got = "none" => worker = "dead" /\ chan = <<>>
    /\ at = "returned" =>
           answer = IF exitcode = "ok" /\ got = "true" THEN "true" ELSE "false"
    /\ at # "returned" => answer = "none"
    /\ worker = "dead" => buf = <<>>

EncodeInv == Types /\ Counts /\ Progress /\ Settled /\ Whereabouts /\ Conclusion

\* What a queue holds after the queue operations of the model.
LEMMA QueueLaws ==
    ASSUME NEW s \in Seq(Message), NEW t \in Seq(Message), NEW m \in Message
    PROVE  /\ s \o t \in Seq(Message)
           /\ Holds(s \o t, m) <=> Holds(s, m) \/ Holds(t, m)
  <1>1. s \o t \in Seq(Message) /\ Len(s \o t) = Len(s) + Len(t)
    OBVIOUS
  <1>2. \A i \in 1 .. Len(s) : (s \o t)[i] = s[i]
    OBVIOUS
  <1>3. \A i \in 1 .. Len(t) : (s \o t)[Len(s) + i] = t[i]
    OBVIOUS
  <1>4. \A i \in 1 .. Len(s) + Len(t) :
            i \in 1 .. Len(s) \/ \E j \in 1 .. Len(t) : i = Len(s) + j
    <2> SUFFICES ASSUME NEW i \in 1 .. Len(s) + Len(t), i \notin 1 .. Len(s)
                 PROVE  \E j \in 1 .. Len(t) : i = Len(s) + j
      OBVIOUS
    <2>1. i - Len(s) \in 1 .. Len(t) /\ i = Len(s) + (i - Len(s))
      OBVIOUS
    <2> QED BY <2>1
  <1>5. Holds(s \o t, m) => Holds(s, m) \/ Holds(t, m)
    BY <1>1, <1>2, <1>3, <1>4 DEF Holds
  <1>6. Holds(s, m) => Holds(s \o t, m)
    BY <1>1, <1>2 DEF Holds
  <1>7. Holds(t, m) => Holds(s \o t, m)
    <2> SUFFICES ASSUME NEW i \in 1 .. Len(t), t[i] = m
                 PROVE  Holds(s \o t, m)
      BY DEF Holds
    <2>1. Len(s) + i \in 1 .. Len(s \o t) /\ (s \o t)[Len(s) + i] = m
      BY <1>1, <1>3
    <2> QED BY <2>1 DEF Holds
  <1> QED BY <1>1, <1>5, <1>6, <1>7

LEMMA TakeLaws ==
    ASSUME NEW s \in Seq(Message), s # <<>>, NEW m \in Message
    PROVE  /\ Head(s) \in Message /\ Tail(s) \in Seq(Message)
           /\ Holds(s, m) <=> Head(s) = m \/ Holds(Tail(s), m)
  <1>1. Head(s) \in Message /\ Tail(s) \in Seq(Message)
    OBVIOUS
  <1>2. Head(s) = s[1] /\ Len(s) \in Nat /\ Len(s) >= 1 /\ Len(Tail(s)) = Len(s) - 1
    OBVIOUS
  <1>3. \A i \in 1 .. Len(s) - 1 : Tail(s)[i] = s[i + 1]
    OBVIOUS
  <1>4. \A i \in 1 .. Len(s) : i = 1 \/ (i - 1 \in 1 .. Len(s) - 1 /\ s[i] = Tail(s)[i - 1])
    BY <1>2, <1>3
  <1>5. Holds(s, m) => Head(s) = m \/ Holds(Tail(s), m)
    BY <1>2, <1>4 DEF Holds
  <1>6. Head(s) = m => Holds(s, m)
    BY <1>2 DEF Holds
  <1>7. Holds(Tail(s), m) => Holds(s, m)
    <2> SUFFICES ASSUME NEW i \in 1 .. Len(s) - 1, Tail(s)[i] = m
                 PROVE  Holds(s, m)
      BY <1>2 DEF Holds
    <2>1. i + 1 \in 1 .. Len(s) /\ s[i + 1] = m
      BY <1>2, <1>3
    <2> QED BY <2>1 DEF Holds
  <1> QED BY <1>1, <1>5, <1>6, <1>7

LEMMA AppendLaws ==
    ASSUME NEW s \in Seq(Message), NEW a \in Message, NEW m \in Message
    PROVE  /\ Append(s, a) \in Seq(Message)
           /\ Holds(Append(s, a), m) <=> Holds(s, m) \/ a = m
  <1>1. Append(s, a) \in Seq(Message) /\ Len(Append(s, a)) = Len(s) + 1 /\ Len(s) \in Nat
    OBVIOUS
  <1>2. \A i \in 1 .. Len(s) : Append(s, a)[i] = s[i]
    OBVIOUS
  <1>3. Append(s, a)[Len(s) + 1] = a
    OBVIOUS
  <1>4. \A i \in 1 .. Len(s) + 1 : i \in 1 .. Len(s) \/ i = Len(s) + 1
    BY <1>1
  <1>5. Holds(Append(s, a), m) => Holds(s, m) \/ a = m
    BY <1>1, <1>2, <1>3, <1>4 DEF Holds
  <1>6. Holds(s, m) => Holds(Append(s, a), m)
    BY <1>1, <1>2 DEF Holds
  <1>7. a = m => Holds(Append(s, a), m)
    BY <1>1, <1>3 DEF Holds
  <1> QED BY <1>1, <1>5, <1>6, <1>7

\* The three things the worker ever puts.
LEMMA PutLaws ==
    ASSUME NEW m \in Message
    PROVE  /\ <<"note">> \in Seq(Message)
           /\ Holds(<<"note">>, m) <=> m = "note"
           /\ \A r \in Results :
                  /\ <<r>> \in Seq(Message)
                  /\ Holds(<<r>>, m) <=> m = r
                  /\ <<"note", r>> \in Seq(Message)
                  /\ Holds(<<"note", r>>, m) <=> m \in {"note", r}
           /\ ~Holds(<<>>, m)
  <1>1. \A a \in Message : <<a>> \in Seq(Message) /\ Len(<<a>>) = 1 /\ <<a>>[1] = a
    OBVIOUS
  <1>2. \A a, b \in Message :
            /\ <<a, b>> \in Seq(Message) /\ Len(<<a, b>>) = 2
            /\ <<a, b>>[1] = a /\ <<a, b>>[2] = b
    OBVIOUS
  <1>3. 1 .. 1 = {1} /\ 1 .. 2 = {1, 2} /\ 1 .. 0 = {}
    OBVIOUS
  <1>4. "note" \in Message /\ Results \subseteq Message
    BY DEF Message
  <1>5. \A a \in Message : Holds(<<a>>, m) <=> m = a
    BY <1>1, <1>3 DEF Holds
  <1>6. \A a, b \in Message : Holds(<<a, b>>, m) <=> m \in {a, b}
    BY <1>2, <1>3 DEF Holds
  <1>7. ~Holds(<<>>, m)
    BY <1>3 DEF Holds
  <1> QED BY <1>1, <1>2, <1>4, <1>5, <1>6, <1>7

-----------------------------------------------------------------------------
\* What each step does to a queue, in the terms of the lemmas above.
QueueStep ==
    /\ buf' \in Seq(Message) /\ chan' \in Seq(Message)
    /\ \A r \in Results :
           /\ Holds(buf', r) => Holds(buf, r) \/ verdict' = r
           /\ Holds(chan', r) => Holds(chan, r) \/ Holds(buf, r)
           /\ Holds(buf, r) => Holds(buf', r) \/ Holds(chan', r) \/ worker' = "dead"
           /\ Holds(chan, r) => Holds(chan', r) \/ got' = r

LEMMA QueueStepHolds ==
    ASSUME EncodeInv, [Next]_vars
    PROVE  QueueStep
  <1> USE DEF EncodeInv, Types
  <1>1. CASE Check \/ GraceJoined \/ Join \/ StopArrives \/ Spawn \/ FeedFrame \/ FeedEnd
             \/ AwaitReader \/ KillOnStop \/ FfmpegReads \/ FfmpegEnds \/ FfmpegFails \/ Rest
             \/ UNCHANGED vars
    BY <1>1 DEF QueueStep, Check, GraceJoined, Join, StopArrives, Spawn, FeedFrame, FeedEnd,
        AwaitReader, KillOnStop, FfmpegReads, FfmpegEnds, FfmpegFails, Rest, vars, queueVars,
        workerVars, mainVars
  <1>2. CASE Get \/ Drain
    <2>1. /\ chan = <<>> => chan' = chan
          /\ chan # <<>> => chan' = Tail(chan) /\ (Head(chan) \in Results => got' = Head(chan))
          /\ UNCHANGED <<buf, worker, verdict>>
      BY <1>2 DEF Get, Drain, workerVars
    <2>2. CASE chan = <<>>
      BY <2>1, <2>2 DEF QueueStep
    <2>3. CASE chan # <<>>
      <3>1. Tail(chan) \in Seq(Message)
        BY <2>3, TakeLaws, PutLaws DEF Message
      <3>2. \A r \in Results : Holds(chan, r) <=> Head(chan) = r \/ Holds(Tail(chan), r)
        BY <2>3, TakeLaws DEF Message
      <3> QED BY <2>1, <2>3, <3>1, <3>2 DEF QueueStep
    <2> QED BY <2>2, <2>3
  <1>3. CASE Terminate \/ Exit \/ Crash
    <2>1. buf' = <<>> /\ chan' = chan /\ worker' = "dead" /\ UNCHANGED verdict
      BY <1>3 DEF Terminate, Exit, Crash, WorkerDies
    <2>2. <<>> \in Seq(Message)
      OBVIOUS
    <2>3. \A r \in Results : ~Holds(<<>>, r)
      BY PutLaws DEF Message
    <2> QED BY <2>1, <2>2, <2>3 DEF QueueStep
  <1>4. CASE Build \/ StartThreads \/ FeedFails \/ Break \/ Wait \/ ReadLine
    <2>1. /\ chan' = chan
          /\ \/ buf' = buf
             \/ buf' = buf \o <<"note">>
             \/ \E r \in Results : verdict' = r /\ buf' = buf \o <<r>>
             \/ \E r \in Results : verdict' = r /\ buf' = buf \o <<"note", r>>
      BY <1>4 DEF Build, StartThreads, FeedFails, Break, Wait, ReadLine, Put, queueVars, Results
    <2>2. CASE buf' = buf
      BY <2>1, <2>2 DEF QueueStep
    <2>3. CASE buf' = buf \o <<"note">>
      <3>1. <<"note">> \in Seq(Message) /\ \A r \in Results : ~Holds(<<"note">>, r)
        BY PutLaws DEF Message, Results
      <3>2. buf' \in Seq(Message)
            /\ \A r \in Results : Holds(buf', r) <=> Holds(buf, r) \/ Holds(<<"note">>, r)
        BY <2>3, <3>1, QueueLaws DEF Message
      <3> QED BY <2>1, <3>1, <3>2 DEF QueueStep
    <2>4. ASSUME NEW q \in Results, verdict' = q,
                 buf' = buf \o <<q>> \/ buf' = buf \o <<"note", q>>
          PROVE  QueueStep
      <3>1. /\ <<q>> \in Seq(Message) /\ <<"note", q>> \in Seq(Message)
            /\ \A r \in Results : /\ Holds(<<q>>, r) => r = q
                                 /\ Holds(<<"note", q>>, r) => r = q
        BY PutLaws DEF Message, Results
      <3>2. ASSUME NEW t \in Seq(Message), buf' = buf \o t,
                   \A r \in Results : Holds(t, r) => r = q
            PROVE  QueueStep
        <4>1. /\ buf' \in Seq(Message)
              /\ \A r \in Results : Holds(buf', r) <=> Holds(buf, r) \/ Holds(t, r)
          BY <3>2, QueueLaws DEF Message
        <4> QED BY <2>1, <2>4, <3>2, <4>1 DEF QueueStep
      <3>3. CASE buf' = buf \o <<q>>
        <4> DEFINE t == <<q>>
        <4>1. t \in Seq(Message)
          BY <3>1
        <4>2. buf' = buf \o t
          BY <3>3
        <4>3. \A r \in Results : Holds(t, r) => r = q
          BY PutLaws DEF Message, Results
        <4> HIDE DEF t
        <4> QED BY <3>2, <4>1, <4>2, <4>3
      <3>4. CASE buf' = buf \o <<"note", q>>
        <4> DEFINE t == <<"note", q>>
        <4>1. t \in Seq(Message)
          BY <3>1
        <4>2. buf' = buf \o t
          BY <3>4
        <4>3. \A r \in Results : Holds(t, r) => r = q
          BY PutLaws DEF Message, Results
        <4> HIDE DEF t
        <4> QED BY <3>2, <4>1, <4>2, <4>3
      <3> QED BY <2>4, <3>3, <3>4
    <2> QED BY <2>1, <2>2, <2>3, <2>4
  <1>5. CASE Flush
    <2>1. /\ buf # <<>> /\ chan' = Append(chan, Head(buf)) /\ buf' = Tail(buf)
          /\ UNCHANGED <<worker, verdict, got>>
      BY <1>5 DEF Flush, workerVars, mainVars
    <2>2. /\ Head(buf) \in Message /\ Tail(buf) \in Seq(Message)
          /\ \A r \in Results : Holds(buf, r) <=> Head(buf) = r \/ Holds(Tail(buf), r)
      BY <2>1, TakeLaws, PutLaws DEF Message
    <2>3. /\ chan' \in Seq(Message)
          /\ \A r \in Results : Holds(chan', r) <=> Holds(chan, r) \/ Head(buf) = r
      BY <2>1, <2>2, AppendLaws DEF Message
    <2> QED BY <2>1, <2>2, <2>3 DEF QueueStep
  <1> QED BY <1>1, <1>2, <1>3, <1>4, <1>5 DEF Next, Main, WorkerMain, Ffmpeg

LEMMA TypesKept ==
    ASSUME EncodeInv, [Next]_vars
    PROVE  Types'
  <1> USE DEF QueueStep
  <1>1. CASE Check \/ Get \/ GraceJoined \/ Terminate \/ Drain \/ Join \/ StopArrives
    BY <1>1, QueueStepHolds DEF Check, Get, GraceJoined, Terminate, Drain, Join, StopArrives, Put, WorkerDies,
        SaysOneLine, mainVars, workerVars, queueVars, ffmpegVars, vars, EncodeInv, Types,
        Results, WorkerPlaces
  <1>2. CASE Build \/ Spawn \/ StartThreads \/ FeedFrame \/ FeedEnd \/ FeedFails
    BY <1>2, QueueStepHolds DEF Build, Spawn, StartThreads, FeedFrame, FeedEnd, FeedFails, Put, WorkerDies,
        SaysOneLine, mainVars, workerVars, queueVars, ffmpegVars, vars, EncodeInv, Types,
        Results, WorkerPlaces
  <1>3. CASE Break \/ AwaitReader \/ Wait \/ Exit \/ Crash
    BY <1>3, QueueStepHolds DEF Break, AwaitReader, Wait, Exit, Crash, Put, WorkerDies, SaysOneLine, mainVars,
        workerVars, queueVars, ffmpegVars, vars, EncodeInv, Types, Results, WorkerPlaces
  <1>4. CASE Flush \/ ReadLine \/ KillOnStop \/ FfmpegReads \/ FfmpegEnds \/ FfmpegFails \/
             Rest \/ UNCHANGED vars
    BY <1>4, QueueStepHolds DEF Flush, ReadLine, KillOnStop, FfmpegReads, FfmpegEnds, FfmpegFails, Rest, Put,
        WorkerDies, SaysOneLine, mainVars, workerVars, queueVars, ffmpegVars, vars,
        EncodeInv, Types, Results, WorkerPlaces
  <1> QED BY <1>1, <1>2, <1>3, <1>4 DEF Next, Main, WorkerMain, Ffmpeg

LEMMA CountsKept ==
    ASSUME EncodeInv, [Next]_vars
    PROVE  Counts'
  <1>1. CASE Check \/ Get \/ GraceJoined \/ Terminate \/ Drain \/ Join \/ StopArrives
    BY <1>1, EncodeAssumption DEF Check, Get, GraceJoined, Terminate, Drain, Join, StopArrives, Put, WorkerDies,
        SaysOneLine, mainVars, workerVars, queueVars, ffmpegVars, vars, EncodeInv, Counts
  <1>2. CASE Build \/ Spawn \/ StartThreads \/ FeedEnd \/ FeedFails
    BY <1>2 DEF Build, Spawn, StartThreads, FeedEnd, FeedFails, mainVars, workerVars, queueVars,
        ffmpegVars, EncodeInv, Counts
  <1>8. CASE FeedFrame
    BY <1>8, EncodeAssumption DEF FeedFrame, EncodeInv, Counts
  <1>3. CASE Break \/ AwaitReader \/ Wait \/ Exit \/ Crash
    BY <1>3, EncodeAssumption DEF Break, AwaitReader, Wait, Exit, Crash, Put, WorkerDies, SaysOneLine, mainVars,
        workerVars, queueVars, ffmpegVars, vars, EncodeInv, Counts
  <1>4. CASE Flush \/ ReadLine \/ KillOnStop \/ Rest \/ UNCHANGED vars
    BY <1>4, EncodeAssumption DEF Flush, ReadLine, KillOnStop, Rest, Put, mainVars, workerVars, queueVars, ffmpegVars, vars,
        EncodeInv, Counts
  <1>5. CASE FfmpegReads
    BY <1>5, EncodeAssumption DEF FfmpegReads, SaysOneLine, mainVars, workerVars, queueVars, ffmpegVars, vars,
        EncodeInv, Counts
  <1>6. CASE FfmpegEnds
    BY <1>6, EncodeAssumption DEF FfmpegEnds, SaysOneLine, mainVars, workerVars, queueVars, ffmpegVars, vars,
        EncodeInv, Counts
  <1>7. CASE FfmpegFails
    BY <1>7, EncodeAssumption DEF FfmpegFails, SaysOneLine, mainVars, workerVars, queueVars, ffmpegVars, vars,
        EncodeInv, Counts
  <1> QED BY <1>1, <1>2, <1>3, <1>4, <1>5, <1>6, <1>7, <1>8 DEF Next, Main, WorkerMain, Ffmpeg

LEMMA ProgressKept ==
    ASSUME EncodeInv, [Next]_vars
    PROVE  Progress'
  <1>1. CASE Check \/ Get \/ GraceJoined \/ Terminate \/ Drain \/ Join \/ StopArrives
    BY <1>1 DEF Check, Get, GraceJoined, Terminate, Drain, Join, StopArrives, Put, WorkerDies,
        SaysOneLine, mainVars, workerVars, queueVars, ffmpegVars, vars, EncodeInv, Types,
        Progress, WorkerPlaces, Counts, Conclusion
  <1>2. CASE Build \/ Spawn \/ StartThreads \/ FeedFrame \/ FeedEnd \/ FeedFails
    BY <1>2 DEF Build, Spawn, StartThreads, FeedFrame, FeedEnd, FeedFails, Put, WorkerDies,
        SaysOneLine, mainVars, workerVars, queueVars, ffmpegVars, vars, EncodeInv, Types,
        Progress, WorkerPlaces, Counts, Conclusion
  <1>3. CASE Break \/ AwaitReader \/ Wait \/ Exit \/ Crash
    BY <1>3 DEF Break, AwaitReader, Wait, Exit, Crash, Put, WorkerDies, SaysOneLine, mainVars,
        workerVars, queueVars, ffmpegVars, vars, EncodeInv, Types, Progress, WorkerPlaces,
        Counts, Conclusion
  <1>4. CASE Flush \/ ReadLine \/ KillOnStop \/ Rest \/ UNCHANGED vars
    BY <1>4 DEF Flush, ReadLine, KillOnStop, Rest, Put, mainVars, workerVars, queueVars, ffmpegVars, vars,
        EncodeInv, Types, Progress, WorkerPlaces, Counts, Conclusion
  <1>5. CASE FfmpegReads
    BY <1>5 DEF FfmpegReads, SaysOneLine, mainVars, workerVars, queueVars, ffmpegVars, vars,
        EncodeInv, Types, Progress, WorkerPlaces, Counts, Conclusion
  <1>6. CASE FfmpegEnds
    BY <1>6 DEF FfmpegEnds, SaysOneLine, mainVars, workerVars, queueVars, ffmpegVars, vars,
        EncodeInv, Types, Progress, WorkerPlaces, Counts, Conclusion
  <1>7. CASE FfmpegFails
    BY <1>7 DEF FfmpegFails, SaysOneLine, mainVars, workerVars, queueVars, ffmpegVars, vars,
        EncodeInv, Types, Progress, WorkerPlaces, Counts, Conclusion
  <1> QED BY <1>1, <1>2, <1>3, <1>4, <1>5, <1>6, <1>7 DEF Next, Main, WorkerMain, Ffmpeg

LEMMA ConclusionKept ==
    ASSUME EncodeInv, [Next]_vars
    PROVE  Conclusion'
  <1>1. CASE Check \/ Get \/ GraceJoined \/ Terminate \/ Drain \/ Join \/ StopArrives
    BY <1>1 DEF Check, Get, GraceJoined, Terminate, Drain, Join, StopArrives, Put, WorkerDies,
        SaysOneLine, mainVars, workerVars, queueVars, ffmpegVars, vars, EncodeInv, Types,
        Conclusion, Results, Over, Settled
  <1>2. CASE Build \/ Spawn \/ StartThreads \/ FeedFrame \/ FeedEnd \/ FeedFails
    BY <1>2 DEF Build, Spawn, StartThreads, FeedFrame, FeedEnd, FeedFails, Put, WorkerDies,
        SaysOneLine, mainVars, workerVars, queueVars, ffmpegVars, vars, EncodeInv, Types,
        Conclusion, Results, Over, Settled
  <1>3. CASE Break \/ AwaitReader \/ Wait \/ Exit \/ Crash
    BY <1>3 DEF Break, AwaitReader, Wait, Exit, Crash, Put, WorkerDies, SaysOneLine, mainVars,
        workerVars, queueVars, ffmpegVars, vars, EncodeInv, Types, Conclusion, Results,
        Over, Settled
  <1>4. CASE Flush \/ ReadLine \/ KillOnStop
    BY <1>4 DEF Flush, ReadLine, KillOnStop, Put, mainVars, workerVars, queueVars, ffmpegVars, vars,
        EncodeInv, Types, Conclusion, Progress, Results, Over
  <1>5. CASE Ffmpeg \/ FfmpegFails \/ Rest \/ UNCHANGED vars
    BY <1>5 DEF Ffmpeg, FfmpegReads, FfmpegEnds, FfmpegFails, Rest, mainVars, workerVars, queueVars, ffmpegVars, vars,
        EncodeInv, Types, Conclusion, Progress, Results, Over
  <1> QED BY <1>1, <1>2, <1>3, <1>4, <1>5 DEF Next, Main, WorkerMain

\* The result is put once, and what got holds came from the queue.
VerdictStep ==
    /\ verdict # "none" => verdict' = verdict
    /\ got' # got => got' \in Results /\ Holds(chan, got')
    /\ got # "none" => got' = got
    /\ verdict' # verdict => Holds(buf', verdict')
    /\ worker' = "dead" /\ worker # "dead" => exitcode' # "ok" \/ buf = <<>>
    /\ worker = "dead" => worker' = "dead" /\ buf' = buf
    /\ exitcode # "ok" => exitcode' # "ok"

LEMMA VerdictStepHolds ==
    ASSUME EncodeInv, [Next]_vars
    PROVE  VerdictStep
  <1> USE DEF EncodeInv, Types, VerdictStep
  <1>1. CASE Check \/ GraceJoined \/ Terminate \/ Join \/ StopArrives \/ Exit \/ Crash
    BY <1>1 DEF Check, GraceJoined, Terminate, Join, StopArrives, Exit, Crash, WorkerDies,
        mainVars, workerVars, queueVars, ffmpegVars, vars, Conclusion, Progress
  <1>2. CASE Get \/ Drain
    <2>1. chan # <<>> => \A r \in Results : Head(chan) = r => Holds(chan, r)
      BY TakeLaws DEF Message
    <2> QED BY <1>2, <2>1 DEF Get, Drain, mainVars, workerVars, queueVars, ffmpegVars, vars,
        Conclusion
  <1>3. CASE Spawn \/ StartThreads \/ FeedFrame \/ FeedEnd \/ FeedFails \/ AwaitReader
             \/ Flush \/ ReadLine \/ KillOnStop
    BY <1>3 DEF Spawn, StartThreads, FeedFrame, FeedEnd, FeedFails, AwaitReader,
        Flush, ReadLine, KillOnStop, Put, mainVars, workerVars, queueVars, ffmpegVars, vars,
        Conclusion, Progress
  <1>4. CASE Ffmpeg \/ FfmpegFails \/ Rest \/ UNCHANGED vars
    BY <1>4 DEF Ffmpeg, FfmpegReads, FfmpegEnds, FfmpegFails, Rest, mainVars, workerVars,
        queueVars, ffmpegVars, vars, Conclusion
  <1>5. CASE Build \/ Break \/ Wait
    <2>1. /\ verdict = "none" /\ worker # "dead" /\ worker' # "dead"
          /\ UNCHANGED <<got, exitcode>>
      BY <1>5 DEF Build, Break, Wait, mainVars, workerVars, Settled
    <2>2. verdict' # verdict =>
              /\ verdict' \in Results
              /\ buf' = buf \o <<verdict'>> \/ buf' = buf \o <<"note", verdict'>>
      BY <1>5 DEF Build, Break, Wait, Put, Results
    <2>3. \A r \in Results : Holds(buf \o <<r>>, r) /\ Holds(buf \o <<"note", r>>, r)
      <3> SUFFICES ASSUME NEW r \in Results
                   PROVE  Holds(buf \o <<r>>, r) /\ Holds(buf \o <<"note", r>>, r)
        OBVIOUS
      <3>1. r \in Message
        BY DEF Message
      <3>2. <<r>> \in Seq(Message) /\ Holds(<<r>>, r)
        BY <3>1, PutLaws
      <3>3. <<"note", r>> \in Seq(Message) /\ Holds(<<"note", r>>, r)
        BY <3>1, PutLaws
      <3> QED BY <3>1, <3>2, <3>3, QueueLaws
    <2> QED BY <2>1, <2>2, <2>3
  <1> QED BY <1>1, <1>2, <1>3, <1>4, <1>5 DEF Next, Main, WorkerMain

LEMMA WhereaboutsKept ==
    ASSUME EncodeInv, [Next]_vars
    PROVE  Whereabouts'
  <1>1. QueueStep /\ VerdictStep /\ Types'
    BY QueueStepHolds, VerdictStepHolds, TypesKept
  <1>2. \A r \in Results : Holds(buf', r) \/ Holds(chan', r) \/ got' = r => verdict' = r
    BY <1>1 DEF QueueStep, VerdictStep, EncodeInv, Types, Whereabouts, Results
  <1>3. verdict' # "none" => got' # "none" \/ Holds(chan', verdict') \/ Holds(buf', verdict')
                                \/ exitcode' # "ok"
    <2> SUFFICES ASSUME verdict' # "none", got' = "none", exitcode' = "ok"
                 PROVE  Holds(chan', verdict') \/ Holds(buf', verdict')
      OBVIOUS
    <2>1. CASE verdict' # verdict
      BY <1>1, <2>1 DEF VerdictStep
    <2>2. CASE verdict' = verdict
      <3>1. Holds(chan, verdict) \/ Holds(buf, verdict)
        BY <1>1, <2>2 DEF VerdictStep, EncodeInv, Types, Whereabouts
      <3>2. verdict \in Results
        BY <2>2 DEF EncodeInv, Types
      <3>3. worker' = "dead" => buf' = buf \/ buf = <<>>
        BY <1>1 DEF VerdictStep
      <3>4. ~Holds(<<>>, verdict)
        BY <3>2, PutLaws DEF Message
      <3>5. got' # verdict
        BY <3>2 DEF Results
      <3> QED BY <1>1, <2>2, <3>1, <3>2, <3>3, <3>4, <3>5 DEF QueueStep
    <2> QED BY <2>1, <2>2
  <1> QED BY <1>2, <1>3 DEF Whereabouts

LEMMA SettledKept ==
    ASSUME EncodeInv, [Next]_vars
    PROVE  Settled'
  <1> USE DEF Settled
  <1>0. Types /\ Counts /\ Progress /\ Settled /\ Conclusion
    BY DEF EncodeInv
  <1>1. CASE Main \/ StopArrives \/ Exit \/ Crash
    BY <1>0, <1>1 DEF Types, Main, Check, Get, GraceJoined, Terminate, Drain, Join, StopArrives, Exit, Crash,
        WorkerDies, mainVars, workerVars, queueVars, ffmpegVars, vars, Conclusion, Progress
  <1>2. CASE Build \/ Spawn \/ StartThreads \/ FeedFrame \/ FeedEnd \/ FeedFails
    BY <1>0, <1>2 DEF Types, Build, Spawn, StartThreads, FeedFrame, FeedEnd, FeedFails, Put,
        mainVars, workerVars, queueVars, ffmpegVars, vars, Progress
  <1>3. CASE Break \/ AwaitReader
    BY <1>0, <1>3 DEF Types, Break, AwaitReader, Put, mainVars, workerVars, queueVars, ffmpegVars, vars,
        Progress
  <1>4. CASE Wait
    <2>1. ffmpeg = "ok" => used = Frames
      BY <1>0, <1>4 DEF Wait, Progress, Counts
    <2> QED BY <1>0, <1>4, <2>1 DEF Wait, Types, Put, mainVars, ffmpegVars, Progress
  <1>5. CASE Flush \/ ReadLine \/ KillOnStop
    BY <1>0, <1>5 DEF Types, Flush, ReadLine, KillOnStop, Put, mainVars, workerVars, queueVars, ffmpegVars,
        vars
  <1>6. CASE Ffmpeg \/ FfmpegFails \/ Rest \/ UNCHANGED vars
    BY <1>0, <1>6 DEF Types, Ffmpeg, FfmpegReads, FfmpegEnds, FfmpegFails, Rest, mainVars, workerVars,
        queueVars, ffmpegVars, vars
  <1> QED BY <1>1, <1>2, <1>3, <1>4, <1>5, <1>6 DEF Next, WorkerMain

-----------------------------------------------------------------------------
LEMMA EncodeInit == Init => EncodeInv
  <1> SUFFICES ASSUME Init PROVE EncodeInv
    OBVIOUS
  <1>1. <<>> \in Seq(Message)
    OBVIOUS
  <1>2. \A r \in Results : ~Holds(<<>>, r)
    BY PutLaws DEF Message
  <1>3. 0 \in Nat /\ 0 <= Frames /\ 0 + 0 = 0
    BY EncodeAssumption
  <1>4. Types
    BY <1>1 DEF Init, Types, WorkerPlaces
  <1>5. Counts
    BY <1>3 DEF Init, Counts
  <1>6. Whereabouts
    BY <1>2 DEF Init, Whereabouts, Results
  <1>7. Progress /\ Settled /\ Conclusion
    BY DEF Init, Progress, Settled, Conclusion
  <1> QED BY <1>4, <1>5, <1>6, <1>7 DEF EncodeInv

\* The worker's place tells what has become of ffmpeg, and the result is in one
\* place of the queue or with the main process: what the theorems rest on.
THEOREM EncodeInvariant == Spec => []EncodeInv
  <1>1. EncodeInv /\ [Next]_vars => EncodeInv'
    BY TypesKept, CountsKept, ProgressKept, SettledKept, WhereaboutsKept, ConclusionKept DEF EncodeInv
  <1> QED BY EncodeInit, <1>1, PTL DEF Spec

\* encode returns True for a whole file only (src/stages/encode.py:210), for a
\* clip of any length and pipes of any size.
THEOREM WholeTheorem == Spec => []TrueMeansWhole
  <1>1. EncodeInv => TrueMeansWhole
    BY DEF EncodeInv, Types, Settled, Whereabouts, Conclusion, TrueMeansWhole, Results
  <1> QED BY <1>1, EncodeInvariant, PTL

\* The result of a worker that ends in order is never lost on its way
\* (src/utils/reporter/worker.py:66).
THEOREM ResultTheorem == Spec => []ResultArrives
  <1>1. EncodeInv => ResultArrives
    <2> SUFFICES ASSUME EncodeInv, at = "returned", exitcode = "ok"
                 PROVE  answer = verdict
      BY DEF ResultArrives
    <2> USE DEF EncodeInv, Types, Settled, Whereabouts, Conclusion
    <2>1. worker = "dead" /\ verdict # "none" /\ verdict \in Results
      OBVIOUS
    <2>2. \A r \in Results : ~Holds(<<>>, r)
      BY PutLaws DEF Message
    <2>3. got = verdict
      <3>1. CASE got = "none"
        BY <2>1, <2>2, <3>1
      <3>2. CASE got # "none"
        BY <3>2
      <3> QED BY <3>1, <3>2
    <2> QED BY <2>1, <2>3 DEF Results
  <1> QED BY <1>1, EncodeInvariant, PTL

\* Whoever is left writing when encode is over was orphaned by a crash or by a
\* terminate() (src/utils/reporter/worker.py:54), wherever it caught the worker, has
\* no more input, and does not pass for a success: for a clip of any length.
THEOREM QuietTheorem == Spec => []QuietWhenOver
  <1> DEFINE Inv == /\ exitcode = "terminated" => at = "raised"
                    /\ worker = "dead" /\ ffmpeg = "running" => eof
  <1>1. Init => Inv
    BY DEF Init
  <1>2. EncodeInv /\ Inv /\ [Next]_vars => Inv'
    <2> SUFFICES ASSUME EncodeInv, Inv, [Next]_vars PROVE Inv'
      OBVIOUS
    <2>1. CASE Main \/ StopArrives
      BY <2>1 DEF Main, Check, Get, GraceJoined, Terminate, Drain, Join, StopArrives, WorkerDies,
          workerVars, queueVars, ffmpegVars, EncodeInv, Types, Conclusion, Progress
    <2>2. CASE WorkerMain \/ FeedFails \/ Crash
      BY <2>2 DEF WorkerMain, Build, Spawn, StartThreads, FeedFrame, FeedEnd, FeedFails, Break,
          AwaitReader, Wait, Exit, Crash, WorkerDies, mainVars, queueVars, ffmpegVars,
          EncodeInv, Types, Progress
    <2>3. CASE Flush \/ ReadLine \/ KillOnStop \/ Ffmpeg \/ FfmpegFails \/ Rest \/ UNCHANGED vars
      BY <2>3 DEF Flush, ReadLine, KillOnStop, Ffmpeg, FfmpegReads, FfmpegEnds, FfmpegFails, Rest,
          mainVars, workerVars, queueVars, ffmpegVars, vars
    <2> QED BY <2>1, <2>2, <2>3 DEF Next
  <1>3. EncodeInv /\ Inv => QuietWhenOver
    <2> SUFFICES ASSUME EncodeInv, Inv, Over, ffmpeg = "running"
                 PROVE  /\ exitcode = "crashed" \/ (at = "raised" /\ exitcode = "terminated")
                        /\ eof
                        /\ answer # "true"
      BY DEF QuietWhenOver
    <2>1. worker = "dead"
      BY DEF EncodeInv, Conclusion, Types, Over
    <2>2. exitcode \in {"terminated", "crashed"}
      BY <2>1 DEF EncodeInv, Types, Progress
    <2>3. answer # "true"
      BY <2>2 DEF EncodeInv, Conclusion
    <2> QED BY <2>1, <2>2, <2>3
  <1> QED BY <1>1, <1>2, <1>3, EncodeInvariant, PTL DEF Spec

-----------------------------------------------------------------------------
\* What the other invariants do not need: the flags and the file, and that whoever
\* writes to a pipe first looks for room in it.
Flags ==
    /\ wanted \in BOOLEAN /\ stop \in BOOLEAN /\ eof \in BOOLEAN
    /\ part \in {"missing", "torn", "short", "whole"}

Room ==
    /\ Flags
    /\ Len(chan) <= ChanRoom
    /\ frames \in 0 .. StdinRoom
    /\ errors \in 0 .. StderrRoom

LEMMA FlagsKept ==
    ASSUME Flags, [Next]_vars
    PROVE  Flags'
  <1> USE DEF Flags
  <1>1. CASE Main \/ StopArrives \/ Exit \/ Crash
    BY <1>1 DEF Main, Check, Get, GraceJoined, Terminate, Drain, Join, StopArrives, Exit, Crash,
        WorkerDies, mainVars, workerVars, queueVars, ffmpegVars
  <1>2. CASE Build \/ Spawn \/ StartThreads \/ FeedFrame \/ FeedEnd \/ FeedFails
    BY <1>2 DEF Build, Spawn, StartThreads, FeedFrame, FeedEnd, FeedFails,
        mainVars, workerVars, queueVars, ffmpegVars
  <1>3. CASE Break \/ AwaitReader \/ Wait \/ Flush \/ ReadLine \/ KillOnStop
    BY <1>3 DEF Break, AwaitReader, Wait, Flush, ReadLine, KillOnStop,
        mainVars, workerVars, queueVars, ffmpegVars
  <1>4. CASE Ffmpeg \/ FfmpegFails \/ Rest \/ UNCHANGED vars
    BY <1>4 DEF Ffmpeg, FfmpegReads, FfmpegEnds, FfmpegFails, Rest,
        mainVars, workerVars, queueVars, ffmpegVars, vars
  <1> QED BY <1>1, <1>2, <1>3, <1>4 DEF Next, WorkerMain

LEMMA RoomKept ==
    ASSUME EncodeInv, Room, [Next]_vars
    PROVE  Room'
  <1>1. Flags'
    BY FlagsKept DEF Room
  <1>2. (Len(chan) <= ChanRoom)'
    <2>1. CASE UNCHANGED chan
      BY <2>1 DEF Room
    <2>2. CASE Get \/ Drain
      <3>1. chan' = chan \/ (chan # <<>> /\ chan' = Tail(chan))
        BY <2>2 DEF Get, Drain
      <3>2. chan # <<>> => Len(Tail(chan)) <= Len(chan) /\ Len(Tail(chan)) \in Nat
        BY DEF EncodeInv, Types
      <3> QED BY <3>1, <3>2, EncodeAssumption DEF Room, EncodeInv, Types
    <2>3. CASE Flush
      <3>1. Len(chan) < ChanRoom /\ chan' = Append(chan, Head(buf))
        BY <2>3 DEF Flush
      <3>2. Len(Append(chan, Head(buf))) = Len(chan) + 1
        BY DEF EncodeInv, Types
      <3> QED BY <3>1, <3>2, EncodeAssumption DEF EncodeInv, Types
    <2>4. CASE ~Get /\ ~Drain /\ ~Flush
      <3>1. UNCHANGED chan
        BY <2>4 DEF Next, Main, WorkerMain, Check, GraceJoined, Terminate, Join, StopArrives, Build,
            Spawn, StartThreads, FeedFrame, FeedEnd, FeedFails, Break, AwaitReader, Wait, Exit, Crash,
            WorkerDies, ReadLine, KillOnStop, Ffmpeg, FfmpegReads, FfmpegEnds, FfmpegFails, Put,
            Rest, mainVars, workerVars, queueVars, ffmpegVars, vars
      <3> QED BY <2>1, <3>1
    <2> QED BY <2>2, <2>3, <2>4
  <1>3. (frames \in 0 .. StdinRoom)'
    <2>1. CASE FeedFrame
      BY <2>1, EncodeAssumption DEF FeedFrame, Room
    <2>2. CASE FfmpegReads
      BY <2>2, EncodeAssumption DEF FfmpegReads, Room
    <2>3. CASE ~FeedFrame /\ ~FfmpegReads
      BY <2>3 DEF Next, Main, WorkerMain, Check, Get, GraceJoined, Terminate, Drain, Join, StopArrives,
          Build, Spawn, StartThreads, FeedEnd, FeedFails, Break, AwaitReader, Wait, Exit, Crash,
          WorkerDies, Flush, ReadLine, KillOnStop, Ffmpeg, FfmpegEnds, FfmpegFails,
          Rest, mainVars, workerVars, queueVars, ffmpegVars, vars, Room
    <2> QED BY <2>1, <2>2, <2>3
  <1>4. (errors \in 0 .. StderrRoom)'
    <2>1. CASE ReadLine
      BY <2>1, EncodeAssumption DEF ReadLine, Room
    <2>2. CASE FfmpegReads \/ FfmpegEnds \/ FfmpegFails
      BY <2>2, EncodeAssumption DEF FfmpegReads, FfmpegEnds, FfmpegFails, SaysOneLine, Room
    <2>3. CASE ~ReadLine /\ ~FfmpegReads /\ ~FfmpegEnds /\ ~FfmpegFails
      BY <2>3 DEF Next, Main, WorkerMain, Check, Get, GraceJoined, Terminate, Drain, Join, StopArrives,
          Build, Spawn, StartThreads, FeedFrame, FeedEnd, FeedFails, Break, AwaitReader, Wait, Exit,
          Crash, WorkerDies, Flush, KillOnStop, Ffmpeg,
          Rest, mainVars, workerVars, queueVars, ffmpegVars, vars, Room
    <2> QED BY <2>1, <2>2, <2>3
  <1> QED BY <1>1, <1>2, <1>3, <1>4 DEF Room

LEMMA RoomInit == Init => Room
  <1> SUFFICES ASSUME Init PROVE Room
    OBVIOUS
  <1>1. 0 \in 0 .. StdinRoom /\ 0 \in 0 .. StderrRoom /\ 0 <= ChanRoom
    BY EncodeAssumption
  <1>2. Len(<<>>) = 0
    OBVIOUS
  <1>3. Flags
    BY DEF Init, Flags
  <1>4. Len(chan) <= ChanRoom
    BY <1>1, <1>2 DEF Init
  <1>5. frames \in 0 .. StdinRoom /\ errors \in 0 .. StderrRoom
    BY <1>1 DEF Init
  <1> QED BY <1>3, <1>4, <1>5 DEF Room

\* No pipe holds more than it has room for and no more frames are read than there
\* are, whatever blocks on what (src/stages/encode.py:194): a blocked writer is
\* one that waits, not one that drops or overruns.
THEOREM TypeTheorem == Spec => []TypeOK
  <1>1. EncodeInv /\ Room /\ [Next]_vars => Room'
    BY RoomKept
  <1>2. EncodeInv /\ Room => TypeOK
    BY EncodeAssumption DEF EncodeInv, Types, Counts, Room, Flags, TypeOK, WorkerPlaces
  <1> QED BY RoomInit, <1>1, <1>2, EncodeInvariant, PTL DEF Spec

-----------------------------------------------------------------------------
\* The reader runs for as long as the worker feeds ffmpeg, and the worker goes on
\* only when the reader is through.
Readers ==
    /\ worker \in {"feed", "fed", "broken", "closing"} => reader # "off"
    /\ worker = "wait" => reader = "done"
    /\ worker = "fed" => eof

\* What is still to be said once the result has been: no more than what ffmpeg's
\* stderr pipe held when ffmpeg ended.
Behind ==
    /\ \A i \in 1 .. Len(buf) : buf[i] \in Results => Len(buf) - i + errors <= StderrRoom
    /\ \A i \in 1 .. Len(chan) :
           chan[i] \in Results => Len(chan) - i + Len(buf) + errors <= StderrRoom
    /\ got # "none" => Len(chan) + Len(buf) + errors <= StderrRoom

LEMMA ReadersKept ==
    ASSUME Readers, EncodeInv, [Next]_vars
    PROVE  Readers'
  <1> USE DEF Readers
  <1>1. CASE Main \/ StopArrives \/ Exit \/ Crash
    BY <1>1 DEF Main, Check, Get, GraceJoined, Terminate, Drain, Join, StopArrives, Exit, Crash,
        WorkerDies, mainVars, workerVars, queueVars, ffmpegVars
  <1>2. CASE Build \/ Spawn \/ StartThreads \/ FeedFrame \/ FeedEnd \/ FeedFails
    BY <1>2 DEF Build, Spawn, StartThreads, FeedFrame, FeedEnd, FeedFails,
        mainVars, workerVars, queueVars, ffmpegVars
  <1>3. CASE Break \/ AwaitReader \/ Wait \/ Flush \/ ReadLine \/ KillOnStop
    BY <1>3 DEF Break, AwaitReader, Wait, Flush, ReadLine, KillOnStop,
        mainVars, workerVars, queueVars, ffmpegVars
  <1>4. CASE Ffmpeg \/ FfmpegFails \/ Rest \/ UNCHANGED vars
    BY <1>4 DEF Ffmpeg, FfmpegReads, FfmpegEnds, FfmpegFails, Rest,
        mainVars, workerVars, queueVars, ffmpegVars, vars
  <1> QED BY <1>1, <1>2, <1>3, <1>4 DEF Next, WorkerMain

\* Before the verdict there is no result anywhere.
LEMMA Unsaid ==
    ASSUME EncodeInv, verdict = "none"
    PROVE  /\ \A i \in 1 .. Len(buf) : buf[i] \notin Results
           /\ \A i \in 1 .. Len(chan) : chan[i] \notin Results
           /\ got = "none"
  BY DEF EncodeInv, Types, Whereabouts, Holds, Results

\* What is put before the verdict, or with it, leaves nothing behind a result.
LEMMA PutKeepsBehind ==
    ASSUME Behind, Room, EncodeInv, verdict = "none", UNCHANGED <<chan, got, errors>>,
           NEW t \in Seq(Message), buf' = buf \o t,
           \A i \in 1 .. Len(t) : t[i] \in Results => i = Len(t)
    PROVE  Behind'
  <1> USE EncodeAssumption DEF EncodeInv, Types
  <1>1. Len(buf') = Len(buf) + Len(t) /\ Len(buf) \in Nat /\ Len(t) \in Nat
    OBVIOUS
  <1>2. /\ \A i \in 1 .. Len(buf) : buf'[i] = buf[i]
        /\ \A i \in 1 .. Len(t) : buf'[Len(buf) + i] = t[i]
    OBVIOUS
  <1>3. \A i \in 1 .. Len(buf') : i \in 1 .. Len(buf) \/ i - Len(buf) \in 1 .. Len(t)
    BY <1>1
  <1>4. ASSUME NEW i \in 1 .. Len(buf'), buf'[i] \in Results
        PROVE  Len(buf') - i + errors' <= StderrRoom
    <2>1. i \notin 1 .. Len(buf)
      BY <1>2, <1>4, Unsaid
    <2>2. i - Len(buf) \in 1 .. Len(t) /\ Len(buf) + (i - Len(buf)) = i
      BY <1>1, <1>3, <2>1
    <2>3. t[i - Len(buf)] = buf'[i]
      BY <1>2, <2>2
    <2>4. i - Len(buf) = Len(t)
      BY <1>4, <2>2, <2>3
    <2>5. errors' \in 0 .. StderrRoom
      BY DEF Room
    <2> QED BY <1>1, <2>2, <2>4, <2>5
  <1> QED BY <1>4, Unsaid DEF Behind

LEMMA FlushKeepsBehind ==
    ASSUME Behind, EncodeInv, Flush
    PROVE  Behind'
  <1> USE EncodeAssumption DEF Behind, EncodeInv, Types
  <1>1. /\ buf # <<>> /\ UNCHANGED <<got, errors>>
        /\ chan' = Append(chan, Head(buf)) /\ buf' = Tail(buf)
    BY DEF Flush, mainVars, ffmpegVars
  <1>2. Len(chan') = Len(chan) + 1 /\ Len(buf) \in Nat /\ Len(chan) \in Nat /\ Len(buf) >= 1
    BY <1>1
  <1>3. Len(buf') = Len(buf) - 1 /\ \A i \in 1 .. Len(buf') : buf'[i] = buf[i + 1]
    BY <1>1
  <1>4. /\ \A i \in 1 .. Len(chan) : chan'[i] = chan[i]
        /\ chan'[Len(chan')] = buf[1]
    BY <1>1
  <1>5. \A i \in 1 .. Len(buf') : i + 1 \in 1 .. Len(buf) /\ Len(buf) - (i + 1) = Len(buf') - i
    BY <1>2, <1>3
  <1>6. \A i \in 1 .. Len(chan') : i \in 1 .. Len(chan) \/ i = Len(chan')
    BY <1>2
  <1>7. \A i \in 1 .. Len(buf') : buf'[i] \in Results => Len(buf') - i + errors' <= StderrRoom
    BY <1>1, <1>3, <1>5
  <1>8. \A i \in 1 .. Len(chan) :
            chan'[i] \in Results => Len(chan') - i + Len(buf') + errors' <= StderrRoom
    <2> SUFFICES ASSUME NEW i \in 1 .. Len(chan), chan'[i] \in Results
                 PROVE  Len(chan') - i + Len(buf') + errors' <= StderrRoom
      OBVIOUS
    <2>1. Len(chan) - i + Len(buf) + errors <= StderrRoom
      BY <1>4
    <2>2. Len(chan') - i + Len(buf') = Len(chan) - i + Len(buf)
      BY <1>2, <1>3
    <2> QED BY <1>1, <2>1, <2>2
  <1>9. chan'[Len(chan')] \in Results =>
            Len(chan') - Len(chan') + Len(buf') + errors' <= StderrRoom
    <2> SUFFICES ASSUME buf[1] \in Results
                 PROVE  Len(chan') - Len(chan') + Len(buf') + errors' <= StderrRoom
      BY <1>4
    <2>1. Len(buf) - 1 + errors <= StderrRoom
      BY <1>2
    <2>2. Len(chan') - Len(chan') + Len(buf') = Len(buf) - 1
      BY <1>2, <1>3
    <2> QED BY <1>1, <2>1, <2>2
  <1>10. Len(chan') + Len(buf') = Len(chan) + Len(buf)
    BY <1>2, <1>3
  <1> QED BY <1>1, <1>6, <1>7, <1>8, <1>9, <1>10

LEMMA TakeKeepsBehind ==
    ASSUME Behind, Room, EncodeInv, Get \/ Drain
    PROVE  Behind'
  <1> USE EncodeAssumption DEF Behind, Room, EncodeInv, Types
  <1>1. CASE chan = <<>>
    BY <1>1 DEF Get, Drain, workerVars, ffmpegVars
  <1>2. CASE chan # <<>>
    <2>1. /\ chan' = Tail(chan) /\ UNCHANGED <<buf, errors>>
          /\ got' = IF Head(chan) \in Results THEN Head(chan) ELSE got
      BY <1>2 DEF Get, Drain, workerVars, ffmpegVars
    <2>2. got = "none"
      BY DEF Get, Drain, Conclusion
    <2>3. Head(chan) = chan[1] /\ Len(chan) \in Nat /\ Len(chan) >= 1 /\ Len(buf) \in Nat
      BY <1>2
    <2>4. Len(chan') = Len(chan) - 1 /\ \A i \in 1 .. Len(chan') : chan'[i] = chan[i + 1]
      BY <1>2, <2>1
    <2>5. \A i \in 1 .. Len(chan') :
              /\ i + 1 \in 1 .. Len(chan)
              /\ Len(chan) - (i + 1) + Len(buf) = Len(chan') - i + Len(buf)
      BY <2>3, <2>4
    <2>6. \A i \in 1 .. Len(chan') :
              chan'[i] \in Results => Len(chan') - i + Len(buf') + errors' <= StderrRoom
      BY <2>1, <2>4, <2>5
    <2>7. got' # "none" => Len(chan') + Len(buf') + errors' <= StderrRoom
      <3> SUFFICES ASSUME chan[1] \in Results
                   PROVE  Len(chan') + Len(buf') + errors' <= StderrRoom
        BY <2>1, <2>2, <2>3
      <3>1. Len(chan) - 1 + Len(buf) + errors <= StderrRoom
        BY <2>3
      <3> QED BY <3>1, <2>1, <2>3, <2>4
    <2> QED BY <2>1, <2>6, <2>7
  <1> QED BY <1>1, <1>2

\* A line that the reader turns into a message leaves the pipe for the queue.
LEMMA ReadLineKeepsBehind ==
    ASSUME Behind, Room, EncodeInv, ReadLine
    PROVE  Behind'
  <1> USE EncodeAssumption DEF Behind, Room, EncodeInv, Types
  <1>1. UNCHANGED <<chan, got>>
    BY DEF ReadLine, Put, mainVars, queueVars
  <1>2. CASE UNCHANGED <<buf, errors>>
    BY <1>1, <1>2
  <1>3. CASE ~UNCHANGED <<buf, errors>>
    <2>1. errors > 0 /\ errors' = errors - 1 /\ buf' = buf \o <<"note">>
      BY <1>3 DEF ReadLine, Put, queueVars
    <2>2. <<"note">> \in Seq(Message) /\ Len(<<"note">>) = 1 /\ <<"note">>[1] = "note"
      BY DEF Message
    <2>3. /\ Len(buf') = Len(buf) + 1 /\ buf'[Len(buf')] = "note"
          /\ \A i \in 1 .. Len(buf) : buf'[i] = buf[i]
      BY <2>1, <2>2
    <2>4. \A i \in 1 .. Len(buf') : buf'[i] \in Results => i \in 1 .. Len(buf)
      BY <2>3 DEF Results
    <2> QED BY <1>1, <2>1, <2>3, <2>4
  <1> QED BY <1>2, <1>3

LEMMA DeathKeepsBehind ==
    ASSUME Behind, Room, EncodeInv, NEW code, WorkerDies(code), UNCHANGED got
    PROVE  Behind'
  <1>1. buf' = <<>> /\ Len(buf') = 0 /\ UNCHANGED <<chan, errors>>
    BY DEF WorkerDies
  <1>2. Len(buf) \in Nat /\ Len(chan) \in Nat
    BY DEF EncodeInv, Types
  <1>3. \A i \in 1 .. Len(buf') : FALSE
    BY <1>1
  <1> QED BY <1>1, <1>2, <1>3, EncodeAssumption DEF Behind, Room

LEMMA BehindKept ==
    ASSUME Behind, Room, EncodeInv, [Next]_vars
    PROVE  Behind'
  <1> DEFINE Lines == {<<"note">>} \cup {<<r>> : r \in Results} \cup {<<"note", r>> : r \in Results}
  <1>1. \A t \in Lines : /\ t \in Seq(Message)
                         /\ \A i \in 1 .. Len(t) : t[i] \in Results => i = Len(t)
    <2>1. \A m \in Message : <<m>> \in Seq(Message) /\ Len(<<m>>) = 1
      OBVIOUS
    <2>2. ASSUME NEW r \in Results
          PROVE  /\ <<"note", r>> \in Seq(Message) /\ Len(<<"note", r>>) = 2
                 /\ <<"note", r>>[1] \notin Results
      BY DEF Message, Results
    <2>3. 1 .. 1 = {1} /\ 1 .. 2 = {1, 2}
      OBVIOUS
    <2>4. ASSUME NEW t \in Lines
          PROVE  (\E m \in Message : t = <<m>>) \/ \E r \in Results : t = <<"note", r>>
      BY DEF Message
    <2> QED BY <2>1, <2>2, <2>3, <2>4
  <1> HIDE DEF Lines
  <1>2. CASE UNCHANGED <<chan, buf, got>> /\ errors' \in Nat /\ errors' <= errors
    BY <1>2, EncodeAssumption DEF Behind, Room, EncodeInv, Types
  <1>3. CASE UNCHANGED <<chan, got, errors>> /\ verdict = "none" /\ \E t \in Lines : buf' = buf \o t
    BY <1>1, <1>3, PutKeepsBehind
  <1>4. CASE Main \/ StopArrives
    <2>1. CASE Get \/ Drain
      BY <2>1, TakeKeepsBehind
    <2>2. CASE Terminate
      BY <2>2, DeathKeepsBehind DEF Terminate
    <2>3. CASE Check \/ GraceJoined \/ Join \/ StopArrives
      BY <1>2, <2>3 DEF Check, GraceJoined, Join, StopArrives, workerVars, queueVars, ffmpegVars,
          Room
    <2> QED BY <1>4, <2>1, <2>2, <2>3 DEF Main
  <1>5. CASE Exit \/ Crash
    BY <1>5, DeathKeepsBehind DEF Exit, Crash, mainVars
  <1>6. CASE Build \/ StartThreads \/ FeedFails \/ Break \/ Wait
    <2>1. verdict = "none"
      BY <1>6 DEF Build, StartThreads, FeedFails, Break, Wait, EncodeInv, Settled
    <2>2. UNCHANGED <<chan, got, errors>>
      BY <1>6 DEF Build, StartThreads, FeedFails, Break, Wait, Put, mainVars, queueVars, ffmpegVars
    <2>3. buf' = buf \/ \E t \in Lines : buf' = buf \o t
      BY <1>6 DEF Build, StartThreads, FeedFails, Break, Wait, Put, queueVars, Lines, Results
    <2> QED BY <1>2, <1>3, <2>1, <2>2, <2>3 DEF Room
  <1>7. CASE Spawn \/ FeedFrame \/ FeedEnd \/ AwaitReader \/ KillOnStop
    BY <1>2, <1>7 DEF Spawn, FeedFrame, FeedEnd, AwaitReader, KillOnStop, mainVars, queueVars,
        ffmpegVars, Room
  <1>8. CASE Flush
    BY <1>8, FlushKeepsBehind
  <1>9. CASE ReadLine
    BY <1>9, ReadLineKeepsBehind
  <1>10. CASE FfmpegReads \/ FfmpegEnds \/ FfmpegFails
    <2>1. UNCHANGED <<chan, buf, got>> /\ ffmpeg = "running"
      BY <1>10 DEF FfmpegReads, FfmpegEnds, FfmpegFails, mainVars, queueVars
    <2>2. CASE worker = "dead"
      BY <1>2, <1>10, <2>1, <2>2 DEF FfmpegReads, FfmpegEnds, FfmpegFails, SaysOneLine, Room
    <2>3. CASE worker # "dead"
      <3>1. verdict = "none"
        BY <2>1, <2>3 DEF EncodeInv, Progress, Settled
      <3> QED BY <2>1, <3>1, Unsaid DEF Behind
    <2> QED BY <2>2, <2>3
  <1>11. CASE Rest \/ UNCHANGED vars
    BY <1>2, <1>11 DEF Rest, vars, mainVars, queueVars, ffmpegVars, Room
  <1> QED BY <1>4, <1>5, <1>6, <1>7, <1>8, <1>9, <1>10, <1>11 DEF Next, WorkerMain, Ffmpeg

\* The encode cannot lock up (src/stages/encode.py:194, src/stages/encode.py:204):
\* for a clip of any length and pipes of any size, as long as the queue's pipe has
\* room for what ffmpeg's stderr pipe holds when the result is put.
THEOREM CircleTheorem ==
    ASSUME StderrRoom <= ChanRoom
    PROVE  Spec => []NoCircle
  <1> DEFINE Inv == Room /\ Readers /\ Behind
  <1>1. Init => Inv
    <2> SUFFICES ASSUME Init PROVE Readers /\ Behind
      BY RoomInit
    <2>1. Readers
      BY DEF Init, Readers
    <2>2. 1 .. Len(<<>>) = {}
      OBVIOUS
    <2>3. Behind
      BY <2>2 DEF Init, Behind
    <2> QED BY <2>1, <2>3
  <1>2. EncodeInv /\ Inv /\ [Next]_vars => Inv'
    BY RoomKept, ReadersKept, BehindKept
  <1>3. EncodeInv /\ Inv => NoCircle
    <2> SUFFICES ASSUME EncodeInv, Inv, HeldUp, FfmpegHeldUp, ReaderHeldUp
                 PROVE  FALSE
      BY DEF NoCircle
    <2> USE EncodeAssumption DEF FfmpegHeldUp, ReaderHeldUp, EncodeInv, Types, Progress, Room, Readers
    <2>1. CASE worker = "feed" /\ ffmpeg = "running" /\ frames = StdinRoom
      BY <2>1
    <2>2. CASE worker \in {"fed", "closing"} /\ reader # "done"
      BY <2>2
    <2>3. CASE worker = "wait" /\ ffmpeg = "running"
      BY <2>3
    <2>4. CASE worker = "exit" /\ buf # <<>> /\ Len(chan) = ChanRoom /\ at = "join"
      <3>1. got # "none"
        BY <2>4 DEF Conclusion
      <3>2. Len(buf) \in Nat /\ Len(buf) >= 1
        BY <2>4
      <3> QED BY <2>4, <3>1, <3>2 DEF Behind
    <2> QED BY <2>1, <2>2, <2>3, <2>4 DEF HeldUp
  <1> QED BY <1>1, <1>2, <1>3, EncodeInvariant, PTL DEF Spec
=============================================================================
