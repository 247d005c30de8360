---------------------------- MODULE BatchProofs ----------------------------
(***************************************************************************)
(* Type correctness of the batch, that it implements Jobs, what it leaves   *)
(* behind, and below what the commands of the GUI do to it, for every       *)
(* number of inputs, every command line and every bound.  `Control` is what *)
(* the types need to be inductive: where the main thread is tells what has  *)
(* been settled before.                                                     *)
(***************************************************************************)
EXTENDS Batch, FiniteSetTheorems, TLAPS

FileLabels ==
    {"checkCancel", "checkSkip", "exists", "keys", "ask", "crack", "open", "demux", "audio",
     "convert", "subs", "video", "encode", "mux", "muxing", "replace", "unlink", "rmdir",
     "report"}
SaveLabels == {"save", "saving", "saved"}
CheckLabels == {"checkCancel", "checkSkip"}

\* process_usm has not settled how the input ends.
Open == pc \notin {"off", "done", "next", "unlink", "rmdir", "report"}

\* Nothing of the batch has begun.
Starting == pc \in {"bootstrap", "sync"} \/ (pc \in SaveLabels /\ ret = "sync")

\* process_usm is at an input.
InFile == pc \notin {"off", "done", "next"} /\ ~Starting

\* The last checkpoint is passed or being passed.
BeforeReplace == pc = "replace" \/ (pc \in CheckLabels /\ ret = "replace")

Control ==
    /\ pc \in FileLabels => cur \in Files
    /\ pc \in CheckLabels => ret \notin {"off", "sync"}
    /\ pc \in SaveLabels => ret \in {"sync", "open"} /\ (ret = "open" => cur \in Files)
    /\ pc \in SaveLabels \cup {"ask"} => fetched \in {"broken", "local", "new"}
    /\ pc \in {"unlink", "rmdir", "report"} => outcome \in Outcomes
    /\ BeforeReplace => part[Stem] = cur

BatchInv == TypeOK /\ Control

-----------------------------------------------------------------------------
\* The steps of the batch, seen from its channel and from its key store.
ChannelStep ==
    \/ UNCHANGED reporterVars
    \/ ReporterStart
    \/ CancelRequested \/ SkipRequested
    \/ \E s \in Stems : JobStartEvent(s)
    \/ AskEmit \/ AskTake
    \/ \E c \in Command : Send(c)
    \/ HangUp

KeyStep ==
    \/ UNCHANGED keyVars
    \/ KeysStart
    \/ BootstrapLoad
    \/ \E u \in Downloads : BootstrapFetch(u)
    \/ \E s \in Stems, u \in Downloads : UpstreamUseless(s, u) \/ UpstreamLacks(s, u)
    \/ \E s \in Stems, u \in Downloads : UpstreamHas(s, u) /\ declined' \in BOOLEAN
    \/ Decline /\ UNCHANGED fetched
    \/ pc = "save" /\ SaveOpens
    \/ pc = "saving" /\ \E complete \in BOOLEAN : SaveWrites(complete)
    \/ pc = "saved" /\ Adopt

LEMMA ChannelSteps == BatchInv /\ [Next]_vars => ChannelStep
<1> SUFFICES ASSUME BatchInv, [Next]_vars PROVE ChannelStep
  OBVIOUS
<1> USE DEF ChannelStep, OnlyProcess
<1>1. CASE \E o \in OptionSets : StartProcess(o)
  BY <1>1 DEF StartProcess
<1>2. CASE Bootstrap \/ SyncSubtitles \/ AllDone
  BY <1>2 DEF Bootstrap, SyncSubtitles, AllDone
<1>3. CASE NextFile
  <2>1. StemOf[cur + 1] \in Stems
    BY <1>3, BatchAssumption DEF NextFile, BatchInv, TypeOK, ProcessTypeOK, Files
  <2> QED
    BY <1>3, <2>1 DEF NextFile
<1>4. CASE CheckCancel \/ CheckSkip
  BY <1>4 DEF CheckCancel, CheckSkip
<1>5. CASE SkipExisting \/ ReadNonce
  BY <1>5 DEF SkipExisting, ReadNonce
<1>6. CASE FindKey \/ AskOn \/ AskYes \/ AskNo \/ SaveKeys \/ CrackKey
  BY <1>6 DEF FindKey, AskOn, AskYes, AskNo, AskEnd, SaveKeys, CrackKey
<1>7. CASE OpenWorkDir \/ OpenFails \/ (\E kind \in Streams : OpenStream(kind))
  BY <1>7 DEF OpenWorkDir, OpenFails, OpenStream
<1>8. CASE Demux \/ ListAudio \/ ConvertAudio \/ MakeSubtitles \/ PickEncoder \/ Encode \/ Mux
  BY <1>8 DEF Demux, ListAudio, ConvertAudio, MakeSubtitles, PickEncoder, Encode, Mux
<1>9. CASE Replace \/ ReplaceFails \/ Unlink \/ RemoveSubs \/ RemoveDir \/ Report
  BY <1>9 DEF Replace, ReplaceFails, Unlink, RemoveSubs, RemoveDir, Report
<1>10. CASE Gui
  <2>1. ASSUME GuiSkips PROVE Skip(StemOf[seen]) \in Command
    <3>1. StemOf[seen] \in Stems
      BY <2>1, BatchAssumption DEF GuiSkips, BatchInv, TypeOK, GuiTypeOK, Files
    <3> QED
      BY <3>1 DEF Command, Skip
  <2>2. Cancel \in Command
    BY DEF Command, Cancel
  <2>3. ASSUME GuiAnswers, NEW v \in BOOLEAN PROVE Answer(asked - 1, v) \in Command
    BY <2>3 DEF GuiAnswers, BatchInv, TypeOK, GuiTypeOK, ReporterTypeOK, Command, Answer
  <2> QED
    BY <1>10, <2>1, <2>2, <2>3 DEF Gui, GuiReads, GuiSkips, GuiCancels, GuiAnswers, GuiHangsUp
<1>11. CASE Kill \/ Idle \/ UNCHANGED vars
  BY <1>11 DEF Kill, Idle, vars
<1> QED
  BY <1>1, <1>2, <1>3, <1>4, <1>5, <1>6, <1>7, <1>8, <1>9, <1>10, <1>11 DEF Next, Engine

LEMMA KeySteps == BatchInv /\ [Next]_vars => KeyStep
<1> SUFFICES ASSUME BatchInv, [Next]_vars PROVE KeyStep
  OBVIOUS
<1> USE DEF KeyStep, OnlyProcess
<1>1. CASE \E o \in OptionSets : StartProcess(o)
  BY <1>1 DEF StartProcess
<1>2. CASE Bootstrap
  <2>1. ASSUME NEW u, BootstrapFetch(u) PROVE u \in Downloads
    BY <2>1 DEF BootstrapFetch, Fetch, BatchInv, TypeOK, KeysTypeOK
  <2> QED
    BY <1>2, <2>1 DEF Bootstrap
<1>3. CASE SyncSubtitles \/ AllDone \/ NextFile \/ CheckCancel \/ CheckSkip
  BY <1>3 DEF SyncSubtitles, AllDone, NextFile, CheckCancel, CheckSkip
<1>5. CASE SkipExisting \/ ReadNonce \/ CrackKey \/ AskOn \/ AskYes
  BY <1>5 DEF SkipExisting, ReadNonce, CrackKey, AskOn, AskYes
<1>6. CASE FindKey
  <2>1. Stem \in Stems
    BY <1>6, BatchAssumption DEF FindKey, BatchInv, Control, FileLabels, Stem
  <2>2. declined' = declined \/ Decline => declined' \in BOOLEAN
    BY DEF Decline, BatchInv, TypeOK, KeysTypeOK
  <2> QED
    BY <1>6, <2>1, <2>2 DEF FindKey
<1>7. CASE AskNo \/ SaveKeys
  BY <1>7 DEF AskNo, SaveKeys, SaveRefused, SaveLabels
<1>8. CASE OpenWorkDir \/ OpenFails \/ (\E kind \in Streams : OpenStream(kind))
  BY <1>8 DEF OpenWorkDir, OpenFails, OpenStream
<1>9. CASE Demux \/ ListAudio \/ ConvertAudio \/ MakeSubtitles \/ PickEncoder \/ Encode \/ Mux
  BY <1>9 DEF Demux, ListAudio, ConvertAudio, MakeSubtitles, PickEncoder, Encode, Mux
<1>10. CASE Replace \/ ReplaceFails \/ Unlink \/ RemoveSubs \/ RemoveDir \/ Report
  BY <1>10 DEF Replace, ReplaceFails, Unlink, RemoveSubs, RemoveDir, Report
<1>11. CASE Gui \/ Kill \/ Idle \/ UNCHANGED vars
  BY <1>11 DEF Gui, OnlyGui, Kill, Idle, vars
<1> QED
  BY <1>1, <1>2, <1>3, <1>5, <1>6, <1>7, <1>8, <1>9, <1>10, <1>11 DEF Next, Engine


-----------------------------------------------------------------------------
LEMMA ChannelTyped ==
    ASSUME BatchInv, [Next]_vars
    PROVE  ReporterTypeOK'
<1> USE DEF ReporterTypeOK
<1>1. ReporterTypeOK
  BY DEF BatchInv, TypeOK
<1> <<>> \in Seq(Command)
  OBVIOUS
<1>2. CASE UNCHANGED reporterVars
  BY <1>1, <1>2 DEF reporterVars
<1>3. CASE ReporterStart
  BY <1>3 DEF ReporterStart
<1>4. ASSUME NEW i \in LastSkip PROVE lines[i].file \in Stems
  <2>1. lines[i] \in Command /\ lines[i].type = "skip"
    BY <1>1, <1>4 DEF LastSkip, IsSkip
  <2> QED
    BY <2>1 DEF Command
<1>5. DrainedSkip \in Stems \cup {None} /\ DrainedCancel \in BOOLEAN
  BY <1>1, <1>4, HangupAssumption DEF DrainedSkip, DrainedCancel, Drains
<1>6. CASE CancelRequested \/ SkipRequested
  BY <1>1, <1>5, <1>6 DEF CancelRequested, SkipRequested, DrainQueue
<1>7. CASE \E s \in Stems : JobStartEvent(s)
  BY <1>1, <1>7 DEF JobStartEvent
<1>8. CASE AskEmit
  BY <1>1, <1>8 DEF AskEmit
<1>9. CASE AskTake
  <2>1. Head(lines) \in Command /\ Tail(lines) \in Seq(Command)
    BY <1>1, <1>9 DEF AskTake
  <2>2. IsSkip(Head(lines)) => Head(lines).file \in Stems
    BY <2>1 DEF Command, IsSkip
  <2> QED
    BY <1>1, <1>9, <2>1, <2>2 DEF AskTake
<1>10. CASE \E c \in Command : Send(c)
  BY <1>1, <1>10 DEF Send
<1>11. CASE HangUp
  BY <1>1, <1>11 DEF HangUp
<1> QED
  BY <1>2, <1>3, <1>6, <1>7, <1>8, <1>9, <1>10, <1>11, ChannelSteps DEF ChannelStep

LEMMA KeysTyped ==
    ASSUME BatchInv, [Next]_vars
    PROVE  KeysTypeOK'
<1> USE DEF KeysTypeOK, Contents
<1>1. KeysTypeOK
  BY DEF BatchInv, TypeOK
<1>2. CASE UNCHANGED keyVars
  BY <1>1, <1>2 DEF keyVars
<1>3. CASE KeysStart
  BY <1>1, <1>3 DEF KeysStart
<1>4. CASE BootstrapLoad
  BY <1>1, <1>4 DEF BootstrapLoad
<1>5. CASE \E u \in Downloads : BootstrapFetch(u)
  BY <1>1, <1>5, KeysAssumption DEF BootstrapFetch, Fetch
<1>6. CASE \E s \in Stems, u \in Downloads : UpstreamUseless(s, u) \/ UpstreamLacks(s, u)
  BY <1>1, <1>6 DEF UpstreamUseless, UpstreamLacks, Fetch
<1>7. CASE \E s \in Stems, u \in Downloads : UpstreamHas(s, u) /\ declined' \in BOOLEAN
  BY <1>1, <1>7 DEF UpstreamHas, Fetch
<1>8. CASE Decline /\ UNCHANGED fetched
  BY <1>1, <1>8 DEF Decline
<1>9. CASE pc \in SaveLabels /\ (SaveOpens \/ (\E b \in BOOLEAN : SaveWrites(b)) \/ Adopt)
  BY <1>1, <1>9 DEF BatchInv, Control, SaveOpens, SaveWrites, Adopt
<1> QED
  BY <1>2, <1>3, <1>4, <1>5, <1>6, <1>7, <1>8, <1>9, KeySteps DEF KeyStep, SaveLabels

LEMMA ProcessTyped ==
    ASSUME BatchInv, [Next]_vars
    PROVE  ProcessTypeOK'
<1> USE DEF ProcessTypeOK, Labels, Returns, Outcomes, Goto, CheckThen, PollIn, StageDone,
            RaiseFrom, EndWith
<1>1. ProcessTypeOK
  BY DEF BatchInv, TypeOK
<1> DEFINE Listable == {"part", "ivf", "hca", "audio"}
<1> <<"part">> \in Seq(Listable) /\ Append(created, "audio") \in Seq(Listable)
  BY <1>1
<1>2. CASE \E o \in OptionSets : StartProcess(o)
  BY <1>1, <1>2, BatchAssumption DEF StartProcess
<1>3. CASE Bootstrap \/ SyncSubtitles \/ AllDone
  BY <1>1, <1>3 DEF Bootstrap, SyncSubtitles, AllDone, processVars
<1>4. CASE NextFile
  BY <1>1, <1>4, BatchAssumption DEF NextFile
<1>5. CASE CheckCancel
  BY <1>1, <1>5 DEF CheckCancel
<1>6. CASE CheckSkip
  BY <1>1, <1>6 DEF CheckSkip, BatchInv, Control, CheckLabels
<1>7. CASE SkipExisting \/ ReadNonce
  BY <1>1, <1>7 DEF SkipExisting, ReadNonce
<1>8. CASE FindKey
  BY <1>1, <1>8 DEF FindKey, NoStoredKey
<1>9. CASE AskOn \/ AskYes \/ AskNo
  <2>1. CASE AskOn \/ AskYes
    BY <1>1, <2>1 DEF AskOn, AskYes, processVars
  <2>2. CASE AskNo
    BY <1>1, <2>2 DEF AskNo, NoStoredKey
  <2> QED
    BY <1>9, <2>1, <2>2
<1>10. CASE SaveKeys \/ CrackKey
  BY <1>1, <1>10 DEF SaveKeys, CrackKey
<1>11. CASE OpenWorkDir \/ OpenFails
  <2>1. CASE OpenWorkDir
    BY <1>1, <2>1 DEF OpenWorkDir
  <2>2. CASE OpenFails
    BY <1>1, <2>2 DEF OpenFails
  <2> QED
    BY <1>11, <2>1, <2>2
<1>12. CASE \E kind \in Streams : OpenStream(kind)
  BY <1>1, <1>12, BatchAssumption DEF OpenStream
<1>13. CASE Demux \/ ListAudio \/ PickEncoder
  BY <1>1, <1>13 DEF Demux, ListAudio, PickEncoder
<1>14. CASE ConvertAudio \/ MakeSubtitles
  BY <1>1, <1>14 DEF ConvertAudio, MakeSubtitles
<1>15. CASE Encode \/ Mux
  BY <1>1, <1>15 DEF Encode, Mux, LastCheck
<1>16. CASE Replace \/ ReplaceFails
  BY <1>1, <1>16 DEF Replace, ReplaceFails
<1>17. CASE Unlink \/ RemoveSubs \/ RemoveDir
  BY <1>1, <1>17 DEF Unlink, RemoveSubs, RemoveDir
<1>18. CASE Report
  <2>1. outcome \in Outcomes
    BY <1>18 DEF Report, BatchInv, Control
  <2>2. out' \in [Files -> Outcomes \cup {"none"}]
    <3> HIDE DEF Outcomes
    <3> QED
      BY <1>1, <1>18, <2>1 DEF Report
  <2> QED
    BY <1>1, <1>18, <2>2 DEF Report
<1>19. CASE Gui \/ Kill \/ Idle \/ UNCHANGED vars
  BY <1>1, <1>19 DEF Gui, OnlyGui, Kill, Idle, vars, processVars
<1> QED
  BY <1>2, <1>3, <1>4, <1>5, <1>6, <1>7, <1>8, <1>9, <1>10, <1>11, <1>12, <1>13, <1>14, <1>15,
     <1>16, <1>17, <1>18, <1>19 DEF Next, Engine

LEMMA DiskTyped ==
    ASSUME BatchInv, [Next]_vars
    PROVE  DiskTypeOK'
<1> USE DEF DiskTypeOK, OnlyProcess, diskVars
<1>1. DiskTypeOK /\ cur \in 0 .. NFiles
  BY DEF BatchInv, TypeOK, ProcessTypeOK
<1> NFiles \in Nat /\ Streams \subseteq Kinds
  BY BatchAssumption DEF Kinds
<1>a. ASSUME NEW x \in 0 .. NFiles + 2, part' = [part EXCEPT ![Stem] = x]
      PROVE  part' \in [Stems -> 0 .. NFiles + 2]
  BY <1>1, <1>a
<1>b. ASSUME NEW kind \in Kinds, Leaves(kind)
      PROVE  left' \in [Stems -> SUBSET Kinds]
  BY <1>1, <1>b DEF Leaves
<1>2. CASE \/ \E o \in OptionSets : StartProcess(o)
           \/ Bootstrap \/ SyncSubtitles \/ NextFile \/ AllDone \/ CheckCancel \/ CheckSkip
           \/ SkipExisting \/ ReadNonce \/ FindKey \/ AskOn \/ AskYes \/ AskNo \/ SaveKeys
           \/ CrackKey \/ OpenFails \/ Demux \/ ListAudio \/ PickEncoder \/ ReplaceFails \/ Report
  BY <1>1, <1>2 DEF StartProcess, Bootstrap, SyncSubtitles, NextFile, AllDone, CheckCancel,
     CheckSkip, SkipExisting, ReadNonce, FindKey, AskOn, AskYes, AskNo, SaveKeys, CrackKey,
     OpenFails, Demux, ListAudio, PickEncoder, ReplaceFails, Report
<1>3. CASE OpenWorkDir
  BY <1>1, <1>3 DEF OpenWorkDir
<1>4. CASE \E kind \in Streams : OpenStream(kind)
  BY <1>1, <1>b, <1>4 DEF OpenStream
<1>5. CASE ConvertAudio \/ MakeSubtitles
  BY <1>1, <1>b, <1>5 DEF ConvertAudio, MakeSubtitles, Kinds
<1>6. CASE Encode \/ Mux
  <2>1. /\ UNCHANGED part \/ \E x \in {cur, NFiles + 2} : part' = [part EXCEPT ![Stem] = x]
        /\ UNCHANGED <<shelf, left, dir>>
    BY <1>6 DEF Encode, Mux, MayTearPart, PartIs, Torn
  <2> QED
    BY <1>1, <1>a, <2>1
<1>7. CASE Replace
  <2>1. Stem \in Stems /\ part[Stem] = cur
    BY <1>7, BatchAssumption
       DEF Replace, BatchInv, Control, FileLabels, BeforeReplace, Stem
  <2>2. /\ shelf' = [shelf EXCEPT ![Place] = cur]
        /\ part' = [part EXCEPT ![Stem] = 0]
        /\ UNCHANGED <<left, dir>>
    BY <1>7, <2>1 DEF Replace, Missing
  <2>3. cur \in 0 .. NFiles + 1
    BY <1>1
  <2>4. shelf' \in [Places -> 0 .. NFiles + 1]
    BY <1>1, <2>2, <2>3
  <2>5. 0 \in 0 .. NFiles + 2
    OBVIOUS
  <2>6. part' \in [Stems -> 0 .. NFiles + 2]
    BY <1>1, <2>2, <2>5
  <2> QED
    BY <1>1, <2>2, <2>4, <2>6
<1>8. CASE Unlink
  <2>1. left' \in [Stems -> SUBSET Kinds]
    BY <1>1, <1>8 DEF Unlink
  <2> QED
    BY <1>1, <1>a, <1>8, <2>1 DEF Unlink, Missing
<1>9. CASE RemoveSubs \/ RemoveDir
  BY <1>1, <1>9 DEF RemoveSubs, RemoveDir, WorkDirEmpty
<1>10. CASE Gui \/ Kill \/ Idle \/ UNCHANGED vars
  BY <1>1, <1>10 DEF Gui, OnlyGui, Kill, Idle, vars
<1> QED
  BY <1>2, <1>3, <1>4, <1>5, <1>6, <1>7, <1>8, <1>9, <1>10 DEF Next, Engine

LEMMA GuiTyped ==
    ASSUME BatchInv, [Next]_vars
    PROVE  GuiTypeOK' /\ NotesTypeOK'
<1> USE DEF GuiTypeOK, NotesTypeOK, OnlyProcess, guiVars, boundVars, attemptVars
<1>1. GuiTypeOK /\ NotesTypeOK /\ cur \in 0 .. NFiles /\ asked \in Nat
  BY DEF BatchInv, TypeOK, ReporterTypeOK, ProcessTypeOK
<1> NFiles \in Nat /\ Streams \subseteq Kinds
  BY BatchAssumption DEF Kinds
<1>2. CASE \E o \in OptionSets : StartProcess(o)
  <2>1. /\ seen' = 0 /\ meant' = {} /\ cancelSent' = FALSE /\ replies' = 0 /\ consent' = {}
        /\ doomed' = {} /\ due' = {} /\ wrote' = {} /\ spoiled' = FALSE
        /\ runs' = runs + 1 /\ UNCHANGED <<sent, kills>>
    BY <1>2 DEF StartProcess
  <2>2. 0 \in 0 .. NFiles /\ runs + 1 \in Nat
    BY <1>1
  <2>3. GuiTypeOK'
    BY <2>1, <2>2
  <2>4. NotesTypeOK'
    BY <1>1, <2>1, <2>2
  <2> QED
    BY <2>3, <2>4
<1>3. CASE \/ Bootstrap \/ SyncSubtitles \/ AllDone \/ CheckCancel \/ CheckSkip
           \/ SkipExisting \/ ReadNonce \/ FindKey \/ AskOn \/ AskYes \/ AskNo \/ SaveKeys
           \/ CrackKey \/ OpenWorkDir \/ OpenFails \/ Demux \/ ListAudio \/ PickEncoder
           \/ Replace \/ ReplaceFails \/ Report
  BY <1>1, <1>3 DEF Bootstrap, SyncSubtitles, AllDone, CheckCancel, CheckSkip, SkipExisting,
     ReadNonce, FindKey, AskOn, AskYes, AskNo, SaveKeys, CrackKey, OpenWorkDir, OpenFails,
     Demux, ListAudio, PickEncoder, Replace, ReplaceFails, Report
<1>4. CASE NextFile
  <2>1. cur + 1 \in Files
    BY <1>1, <1>4 DEF NextFile, Files
  <2> QED
    BY <1>1, <1>4, <2>1 DEF NextFile
<1>5. CASE \E kind \in Streams : OpenStream(kind)
  BY <1>1, <1>5 DEF OpenStream, Leaves
<1>6. CASE ConvertAudio \/ MakeSubtitles
  BY <1>1, <1>6 DEF ConvertAudio, MakeSubtitles, Leaves, Kinds
<1>7. CASE Encode \/ Mux
  <2>1. cur \in Files
    BY <1>7 DEF Encode, Mux, BatchInv, Control, FileLabels
  <2> QED
    BY <1>1, <1>7, <2>1 DEF Encode, Mux, MayTearPart, PartIs, LastCheck
<1>8. CASE Unlink \/ RemoveSubs \/ RemoveDir
  BY <1>1, <1>8 DEF Unlink, RemoveSubs, RemoveDir
<1>9. CASE Gui
  <2>1. CASE GuiReads
    BY <1>1, <1>9, <2>1 DEF GuiReads, Gui, OnlyGui
  <2>2. CASE GuiSkips
    <3>1. seen \in Files
      BY <1>1, <2>2 DEF GuiSkips, Files
    <3> QED
      BY <1>1, <1>9, <2>2, <3>1 DEF GuiSkips, Gui, OnlyGui
  <2>3. CASE GuiCancels
    BY <1>1, <1>9, <2>3 DEF GuiCancels, Gui, OnlyGui
  <2>4. CASE GuiAnswers
    BY <1>1, <1>9, <2>4 DEF GuiAnswers, Send, Gui, OnlyGui
  <2>5. CASE GuiHangsUp
    BY <1>1, <1>9, <2>5 DEF GuiHangsUp, Gui, OnlyGui
  <2> QED
    BY <1>9, <2>1, <2>2, <2>3, <2>4, <2>5 DEF Gui
<1>10. CASE Kill \/ Idle \/ UNCHANGED vars
  <2>1. CASE Kill
    BY <1>1, <2>1 DEF Kill
  <2>2. CASE Idle \/ UNCHANGED vars
    BY <1>1, <2>2 DEF Idle, vars
  <2> QED
    BY <1>10, <2>1, <2>2
<1> QED
  BY <1>2, <1>3, <1>4, <1>5, <1>6, <1>7, <1>8, <1>9, <1>10 DEF Next, Engine

\* Where the main thread is tells what has been settled.
LEMMA ControlKept ==
    ASSUME BatchInv, [Next]_vars
    PROVE  Control'
<1> USE DEF Control, FileLabels, CheckLabels, SaveLabels, BeforeReplace, Goto, CheckThen, PollIn,
            StageDone, RaiseFrom, EndWith, OnlyProcess, keyVars, diskVars, Stem
<1>1. Control /\ cur \in 0 .. NFiles
  BY DEF BatchInv, TypeOK, ProcessTypeOK
<1>2. CASE \E o \in OptionSets : StartProcess(o)
  BY <1>1, <1>2 DEF StartProcess
<1>3. CASE Bootstrap \/ SyncSubtitles \/ AllDone
  BY <1>1, <1>3, KeysAssumption
     DEF Bootstrap, BootstrapFetch, Fetch, SyncSubtitles, AllDone, processVars
<1>4. CASE NextFile
  <2>1. cur + 1 \in Files
    BY <1>1, <1>4, BatchAssumption DEF NextFile, Files
  <2> QED
    BY <2>1, <1>4 DEF NextFile
<1>5. CASE CheckCancel \/ CheckSkip
  <2>1. CASE CheckCancel
    BY <1>1, <2>1 DEF CheckCancel, Outcomes
  <2>2. CASE CheckSkip
    <3>1. UNCHANGED <<ret, cur, fetched, part>>
      BY <2>2 DEF CheckSkip
    <3>2. \/ pc' = ret /\ ret \notin SaveLabels \cup {"ask", "unlink", "rmdir", "report"}
          \/ pc' \in {"unlink", "report"} /\ outcome' = "requested"
      BY <1>1, <2>2 DEF CheckSkip, BatchInv, TypeOK, ProcessTypeOK, Returns
    <3> QED
      BY <1>1, <2>2, <3>1, <3>2 DEF CheckSkip, Outcomes
  <2> QED
    BY <1>5, <2>1, <2>2
<1>6. CASE SkipExisting \/ ReadNonce \/ CrackKey \/ OpenFails
  BY <1>1, <1>6 DEF SkipExisting, ReadNonce, CrackKey, OpenFails, Outcomes
<1>7. CASE FindKey
  BY <1>1, <1>7, KeysAssumption
     DEF FindKey, NoStoredKey, UpstreamHas, UpstreamLacks, UpstreamUseless, Fetch, Outcomes
<1>8. CASE AskOn \/ AskYes \/ AskNo
  BY <1>1, <1>8 DEF AskOn, AskYes, AskNo, NoStoredKey, Outcomes, processVars
<1>9. CASE SaveKeys
  BY <1>1, <1>9 DEF SaveKeys, SaveOpens, SaveRefused, SaveWrites, Adopt
<1>10. CASE OpenWorkDir \/ (\E kind \in Streams : OpenStream(kind))
  BY <1>1, <1>10 DEF OpenWorkDir, OpenStream
<1>11. CASE Demux \/ ListAudio \/ PickEncoder \/ ConvertAudio \/ MakeSubtitles
  BY <1>1, <1>11 DEF Demux, ListAudio, PickEncoder, ConvertAudio, MakeSubtitles, Outcomes
<1>12. CASE Encode \/ Mux
  <2>1. Stem \in DOMAIN part /\ UNCHANGED Stem
    BY <1>1, <1>12, BatchAssumption DEF Encode, Mux, LastCheck, BatchInv, TypeOK, DiskTypeOK
  <2>2. CASE Encode
    BY <1>1, <2>1, <2>2 DEF Encode, MayTearPart, PartIs, LastCheck, Outcomes
  <2>3. CASE Mux
    BY <1>1, <2>1, <2>3 DEF Mux, PartIs, LastCheck, Outcomes
  <2> QED
    BY <1>12, <2>2, <2>3
<1>13. CASE Replace \/ ReplaceFails
  BY <1>1, <1>13 DEF Replace, ReplaceFails, Outcomes
<1>14. CASE Unlink \/ RemoveSubs \/ RemoveDir \/ Report
  BY <1>1, <1>14 DEF Unlink, RemoveSubs, RemoveDir, Report
<1>15. CASE Gui \/ Kill \/ Idle \/ UNCHANGED vars
  BY <1>1, <1>15 DEF Gui, OnlyGui, Kill, Idle, vars, processVars
<1> QED
  BY <1>2, <1>3, <1>4, <1>5, <1>6, <1>7, <1>8, <1>9, <1>10, <1>11, <1>12, <1>13, <1>14, <1>15
     DEF Next, Engine

-----------------------------------------------------------------------------
\* The batch starts with every variable in its type.
LEMMA InitTyped == Init => BatchInv
<1> SUFFICES ASSUME Init PROVE BatchInv
  OBVIOUS
<1> NFiles \in Nat
  BY BatchAssumption
<1>1. ReporterTypeOK
  <2>1. <<>> \in Seq(Command)
    OBVIOUS
  <2> QED
    BY <2>1 DEF Init, ReporterInit, ReporterTypeOK
<1>2. KeysTypeOK
  BY KeysAssumption DEF Init, KeysInit, KeysTypeOK, Contents
<1>3. ProcessTypeOK
  BY BatchAssumption DEF Init, ProcessTypeOK, Labels, Returns
<1>4. DiskTypeOK
  <2>1. shelf \in [Places -> 0 .. NFiles + 1]
    BY DEF Init, Missing, Earlier
  <2>2. part \in [Stems -> 0 .. NFiles + 2]
    BY DEF Init, Missing
  <2> QED
    BY <2>1, <2>2 DEF Init, DiskTypeOK
<1>5. GuiTypeOK
  <2>1. 0 \in 0 .. NFiles
    OBVIOUS
  <2> QED
    BY <2>1 DEF Init, GuiTypeOK
<1>6. NotesTypeOK
  BY DEF Init, NotesTypeOK
<1>7. Control
  BY DEF Init, Control, FileLabels, SaveLabels, CheckLabels, BeforeReplace
<1> QED
  BY <1>1, <1>2, <1>3, <1>4, <1>5, <1>6, <1>7 DEF BatchInv, TypeOK

\* Every reachable state is typed, and the control point tells what is settled.
THEOREM BatchInvariant == Spec => []BatchInv
<1>1. BatchInv /\ [Next]_vars => BatchInv'
  BY ChannelTyped, KeysTyped, ProcessTyped, DiskTyped, GuiTyped, ControlKept
     DEF BatchInv, TypeOK
<1> QED
  BY InitTyped, <1>1, PTL DEF Spec

\* Whatever the inputs, the options and the order of commands and crashes, every
\* variable keeps its type, and no output in its place was ever cut short.
THEOREM TypeCorrect == Spec => []TypeOK
<1>1. BatchInv => TypeOK
  BY DEF BatchInv
<1> QED
  BY BatchInvariant, <1>1, PTL


-----------------------------------------------------------------------------
\* The batch implements Jobs.  `History` is the invariant of the loop of
\* process_all: inputs behind `cur` have an outcome, those ahead have none,
\* and the outcome of the current one is settled only at its end.
History ==
    /\ Starting => cur = 0
    /\ Open => outcome = "none"
    /\ \A f \in Files : f < cur => out[f] \notin {"none", "cancelled"}
    /\ \A f \in Files : f > cur => out[f] = "none"
    /\ InFile => out[cur] = "none"
    /\ pc = "next" /\ cur # 0 => out[cur] = outcome /\ outcome # "none"
    /\ pc = "next" /\ cur = 0 => outcome = "none"
    /\ failures > 0 <=> \E f \in Files : out[f] = "error"
    /\ InFile /\ outcome = "exists" => shelf[Place] # Missing

-----------------------------------------------------------------------------
\* The steps that are none of the promise's: the outcome stays open, or stays
\* what it is.
Quiet ==
    /\ UNCHANGED <<cur, out, shelf, failures, opts>>
    /\ InFile /\ InFile'
    /\ \/ Open /\ Open' /\ UNCHANGED outcome
       \/ Open /\ ~Open' /\ outcome' \in Outcomes \ {"ok", "exists"}
       \/ ~Open /\ ~Open' /\ UNCHANGED outcome

QuietAction ==
    \/ CheckCancel \/ CheckSkip \/ ReadNonce \/ FindKey
    \/ AskOn \/ AskYes \/ AskNo \/ CrackKey \/ OpenWorkDir \/ OpenFails
    \/ (\E kind \in Streams : OpenStream(kind))
    \/ Demux \/ ListAudio \/ ConvertAudio \/ MakeSubtitles
    \/ PickEncoder \/ Encode \/ Mux \/ ReplaceFails
    \/ Unlink \/ RemoveSubs \/ RemoveDir

LEMMA QuietSteps == ASSUME BatchInv, QuietAction PROVE Quiet
<1> USE DEF Quiet, Open, InFile, Starting, Outcomes, Goto, CheckThen, PollIn, StageDone, RaiseFrom,
            EndWith, SaveLabels, OnlyProcess, diskVars
<1>0. pc \in Labels /\ ret \in Returns
  BY DEF BatchInv, TypeOK, ProcessTypeOK
<1>1. CASE CheckCancel
  BY <1>1 DEF CheckCancel
<1>2. CASE CheckSkip
  <2>1. ret \in {"exists", "open", "crack", "demux", "audio", "video", "encode", "replace"}
    BY <1>0, <1>2 DEF CheckSkip, BatchInv, Control, CheckLabels, Returns
  <2> QED
    BY <1>2, <2>1 DEF CheckSkip
<1>3. CASE ReadNonce
  BY <1>3 DEF ReadNonce
<1>4. CASE FindKey
  BY <1>4 DEF FindKey, NoStoredKey
<1>5. CASE AskOn \/ AskYes
  BY <1>5 DEF AskOn, AskYes, processVars
<1>6. CASE AskNo
  BY <1>6 DEF AskNo, NoStoredKey
<1>7. CASE CrackKey \/ OpenWorkDir \/ OpenFails
  BY <1>7 DEF CrackKey, OpenWorkDir, OpenFails
<1>8. CASE \E kind \in Streams : OpenStream(kind)
  BY <1>8 DEF OpenStream
<1>9. CASE Demux \/ ListAudio
  BY <1>9 DEF Demux, ListAudio
<1>10. CASE ConvertAudio \/ MakeSubtitles
  BY <1>10 DEF ConvertAudio, MakeSubtitles
<1>11. CASE PickEncoder \/ ReplaceFails
  BY <1>11 DEF PickEncoder, ReplaceFails
<1>12. CASE Encode \/ Mux
  BY <1>12 DEF Encode, Mux, LastCheck
<1>13. CASE Unlink
  BY <1>13 DEF Unlink
<1>14. CASE RemoveSubs \/ RemoveDir
  BY <1>14 DEF RemoveSubs, RemoveDir
<1> QED
  BY <1>1, <1>2, <1>3, <1>4, <1>5, <1>6, <1>7, <1>8, <1>9, <1>10, <1>11, <1>12, <1>13, <1>14
     DEF QuietAction

\* A step of the start of a process, before its first input.
Prelude ==
    /\ UNCHANGED <<cur, outcome, out, shelf, failures, opts>>
    /\ Starting
    /\ Starting' \/ pc' = "next"

LEMMA SaveSteps == ASSUME BatchInv, SaveKeys PROVE Quiet \/ Prelude
<1>1. ret \in {"sync", "open"} /\ pc \in SaveLabels
  BY DEF SaveKeys, BatchInv, Control, SaveLabels
<1> QED
  BY <1>1 DEF SaveKeys, Quiet, Prelude, Open, InFile, Starting, Goto, CheckThen, StageDone, SaveLabels,
     diskVars

LEMMA PreludeSteps == ASSUME BatchInv, Bootstrap \/ SyncSubtitles PROVE Prelude
BY DEF Bootstrap, SyncSubtitles, Prelude, Starting, SaveLabels, Goto, processVars, diskVars

LEMMA HistoryInit == Init => History
<1> SUFFICES ASSUME Init PROVE History
  OBVIOUS
<1> QED
  BY DEF Init, History, Starting, Open, InFile, SaveLabels, Files

LEMMA HistoryKept ==
    ASSUME BatchInv, History, [Next]_vars
    PROVE  History'
<1> USE DEF History
<1>0. cur \in 0 .. NFiles /\ NFiles \in Nat /\ failures \in Nat /\ pc \in Labels
  BY BatchAssumption DEF BatchInv, TypeOK, ProcessTypeOK
<1>1. CASE Quiet
  BY <1>0, <1>1 DEF Quiet, Open, InFile, Starting, Place, Stem, Outcomes
<1>2. CASE Prelude
  BY <1>0, <1>2 DEF Prelude, Open, InFile, Starting, SaveLabels
<1>3. CASE \E o \in OptionSets : StartProcess(o)
  BY <1>0, <1>3 DEF StartProcess, Open, InFile, Starting, SaveLabels, Files
<1>4. CASE NextFile
  BY <1>0, <1>4 DEF NextFile, Open, InFile, Starting, SaveLabels, Files, diskVars
<1>5. CASE AllDone
  BY <1>0, <1>5 DEF AllDone, Goto, OnlyProcess, diskVars, Open, InFile, Starting, SaveLabels
<1>6. CASE SkipExisting
  BY <1>0, <1>6 DEF SkipExisting, EndWith, RaiseFrom, OnlyProcess, diskVars, Open, InFile, Starting,
     SaveLabels, Place, Stem
<1>7. CASE Replace
  BY <1>0, <1>7 DEF Replace, Open, InFile, Starting, SaveLabels
<1>8. CASE Report
  <2>1. /\ pc = "report" /\ pc' = "next"
        /\ cur \in Files /\ outcome \in Outcomes
        /\ out \in [Files -> Outcomes \cup {"none"}]
    BY <1>8 DEF Report, BatchInv, Control, FileLabels, TypeOK, ProcessTypeOK
  <2>2. /\ out' = [out EXCEPT ![cur] = outcome]
        /\ failures' = IF outcome = "error" THEN failures + 1 ELSE failures
        /\ UNCHANGED <<cur, outcome>>
    BY <1>8 DEF Report
  <2>3. out[cur] = "none" /\ out'[cur] = outcome
    BY <2>1, <2>2 DEF InFile, Starting, SaveLabels
  <2>4. failures' > 0 <=> \E f \in Files : out'[f] = "error"
    BY <1>0, <2>1, <2>2, <2>3
  <2>5. outcome # "none"
    BY <2>1 DEF Outcomes
  <2>6. \A f \in Files : f < cur' => out'[f] \notin {"none", "cancelled"}
    BY <1>0, <2>1, <2>2
  <2>7. \A f \in Files : f > cur' => out'[f] = "none"
    BY <1>0, <2>1, <2>2
  <2> QED
    BY <1>0, <2>1, <2>2, <2>3, <2>4, <2>5, <2>6, <2>7 DEF Open, InFile, Starting, SaveLabels, Files
<1>9. CASE Gui \/ Idle \/ UNCHANGED vars
  BY <1>0, <1>9 DEF Gui, OnlyGui, Idle, vars, processVars, diskVars, Open, InFile, Starting, Place, Stem
<1>10. CASE Kill
  BY <1>0, <1>10 DEF Kill, Open, InFile, Starting, SaveLabels, diskVars
<1> QED
  BY <1>1, <1>2, <1>3, <1>4, <1>5, <1>6, <1>7, <1>8, <1>9, <1>10, QuietSteps, SaveSteps, PreludeSteps
     DEF Next, Engine, QuietAction

-----------------------------------------------------------------------------
\* What is published changes with nothing else, as long as no outcome does.
LEMMA QuietStutters ==
    ASSUME History, Quiet
    PROVE  UNCHANGED Promise!jobsVars
BY DEF Quiet, History, Open, InFile, Starting, Phase, Running, Promise!jobsVars

LEMMA PreludeStutters ==
    ASSUME History, Prelude
    PROVE  UNCHANGED Promise!jobsVars
BY DEF Prelude, History, Open, InFile, Starting, SaveLabels, Phase, Running, Promise!jobsVars

LEMMA PromiseInit == Init => Promise!Init
BY DEF Init, Promise!Init, Promise!Fresh, Promise!Files, Files, Promise!Places, Places,
   Promise!Missing, Missing, Promise!Earlier, Earlier, Phase, Running

LEMMA PromiseStep ==
    ASSUME BatchInv, History, [Next]_vars
    PROVE  [Promise!Next]_(Promise!jobsVars)
<1> USE DEF Phase, Running, Promise!Files, Promise!Missing, Files, Missing
<1>0. cur \in 0 .. NFiles /\ NFiles \in Nat /\ failures \in Nat /\ pc \in Labels
  BY BatchAssumption DEF BatchInv, TypeOK, ProcessTypeOK
<1>1. CASE Quiet
  BY <1>1, QuietStutters
<1>2. CASE Prelude
  BY <1>2, PreludeStutters
<1>3. CASE \E o \in OptionSets : StartProcess(o)
  <2>1. Promise!Begin
    BY <1>3 DEF StartProcess, Alive, diskVars, Promise!Begin, Promise!Fresh
  <2> QED
    BY <2>1 DEF Promise!Next
<1>4. CASE NextFile
  <2>1. cur + 1 \in Files
    BY <1>0, <1>4 DEF NextFile
  <2>2. \A g \in 1 .. (cur + 1) - 1 : out[g] \notin {"none", "cancelled"}
    BY <1>0, <1>4, <2>1 DEF NextFile, History
  <2>3. Promise!Start(cur + 1)
    BY <1>0, <1>4, <2>1, <2>2 DEF NextFile, History, Promise!Start, diskVars
  <2> QED
    BY <2>1, <2>3 DEF Promise!Next
<1>5. CASE AllDone
  <2>1. \/ \A f \in Files : out[f] # "none"
        \/ \E f \in Files : out[f] = "cancelled"
    BY <1>0, <1>5 DEF AllDone, History
  <2>2. UNCHANGED <<cur, outcome, out, shelf, failures>> /\ pc = "next" /\ pc' = "done"
    BY <1>5 DEF AllDone, Goto, OnlyProcess, diskVars
  <2>3. Promise!Exit
    BY <2>1, <2>2 DEF History, Promise!Exit
  <2> QED
    BY <2>3 DEF Promise!Next
<1>6. CASE SkipExisting
  <2>1. UNCHANGED Promise!jobsVars
    BY <1>6 DEF SkipExisting, EndWith, RaiseFrom, OnlyProcess, diskVars, History, Open,
       Promise!jobsVars
  <2> QED
    BY <2>1
<1>7. CASE Replace
  <2>1. cur \in Files /\ Place \in Places /\ Place[2] = StemOf[cur] /\ part[Stem] = cur
    BY <1>7, BatchAssumption
       DEF Replace, BatchInv, Control, FileLabels, BeforeReplace, TypeOK, ProcessTypeOK, Options,
           Place, Places, Stem
  <2>2. Promise!Publish(Place)
    BY <1>0, <1>7, <2>1 DEF Replace, History, Open, Promise!Publish
  <2> QED
    BY <2>1, <2>2 DEF Promise!Next, Promise!Places, Places
<1>8. CASE Report
  <2>1. /\ pc = "report" /\ pc' = "next"
        /\ cur \in Files /\ outcome \in Outcomes
        /\ out' = [out EXCEPT ![cur] = outcome]
        /\ UNCHANGED <<cur, outcome, shelf>>
    BY <1>8 DEF Report, BatchInv, Control, FileLabels, OnlyProcess, diskVars
  <2>2. outcome = "exists" => \E flat \in BOOLEAN : shelf[<<flat, StemOf[cur]>>] # 0
    <3>1. opts.flat \in BOOLEAN
      BY DEF BatchInv, TypeOK, ProcessTypeOK, Options
    <3> QED
      BY <2>1, <3>1 DEF History, InFile, Starting, SaveLabels, Place, Stem
  <2>3. Promise!Finish(outcome)
    BY <1>0, <2>1, <2>2 DEF Promise!Finish
  <2> QED
    BY <2>1, <2>3 DEF Promise!Next, Promise!Outcomes, Outcomes
<1>9. CASE Gui \/ Idle \/ UNCHANGED vars
  BY <1>9 DEF Gui, OnlyGui, Idle, vars, processVars, diskVars, Promise!jobsVars
<1>10. CASE Kill
  <2>1. Promise!Kill
    BY <1>10 DEF Kill, Alive, diskVars, Promise!Kill
  <2> QED
    BY <2>1 DEF Promise!Next
<1> QED
  BY <1>1, <1>2, <1>3, <1>4, <1>5, <1>6, <1>7, <1>8, <1>9, <1>10, QuietSteps, SaveSteps, PreludeSteps
     DEF Next, Engine, QuietAction

\* What the loop has behind it and ahead of it, in every reachable state.
THEOREM HistoryInvariant == Spec => []History
<1>1. BatchInv /\ History /\ [Next]_vars => History'
  BY HistoryKept
<1> QED
  BY <1>1, BatchInvariant, HistoryInit, PTL DEF Spec

\* process_all keeps the promise of Jobs, whatever the inputs, the options, the
\* commands, the failures and the crashes.
THEOREM PromiseKept == Spec => KeepsPromise
<1>1. BatchInv /\ History /\ [Next]_vars => [Promise!Next]_(Promise!jobsVars)
  BY PromiseStep
<1> QED
  BY <1>1, BatchInvariant, HistoryInvariant, PromiseInit, PTL
     DEF Spec, KeepsPromise, Promise!Spec

-----------------------------------------------------------------------------
\* What an attempt leaves behind.  The list of files to delete runs ahead of the
\* files: a file is listed no later than it appears, until it is deleted.
Names(list) == {list[i] : i \in DOMAIN list}

\* The work directory is not touched yet.
BeforeOpen ==
    \/ pc \in {"exists", "keys", "ask", "crack", "open"}
    \/ pc \in SaveLabels /\ ret = "open"
    \/ pc \in CheckLabels /\ ~InTry

\* The steps within the try block.
Trying ==
    \/ pc \in {"demux", "audio", "convert", "subs", "video", "encode", "mux", "muxing", "replace"}
    \/ pc \in CheckLabels /\ InTry

\* What is written is listed, or is the subtitles, until the cleanup is past it.
Tidy ==
    /\ BeforeOpen => wrote = {}
    /\ Trying => "part" \in Names(created) /\ wrote \subseteq Names(created) \cup {"subs"}
    /\ pc = "convert" /\ "hca" \in wrote => "audio" \in Names(created)
    /\ pc = "unlink" /\ ~spoiled =>
           /\ part[Stem] # Missing => "part" \in Names(created)
           /\ wrote \cap left[Stem] \subseteq Names(created) \cup {"subs"}
    /\ pc = "rmdir" /\ ~spoiled => part[Stem] = Missing /\ wrote \cap left[Stem] = {}
    /\ ClearsIntermediates

Listable == {"part", "ivf", "hca", "audio"}

LEMMA NamesLaws ==
    ASSUME NEW list \in Seq(Listable)
    PROVE  /\ \A x \in Listable : Names(Append(list, x)) = Names(list) \cup {x}
           /\ list # <<>> => Names(list) = {Head(list)} \cup Names(Tail(list))
           /\ list = <<>> => Names(list) = {}
<1>1. ASSUME NEW x \in Listable
      PROVE  Names(Append(list, x)) = Names(list) \cup {x}
  <2>1. /\ DOMAIN Append(list, x) = 1 .. Len(list) + 1 /\ DOMAIN list = 1 .. Len(list)
        /\ Append(list, x)[Len(list) + 1] = x
        /\ \A i \in 1 .. Len(list) : Append(list, x)[i] = list[i]
        /\ Len(list) \in Nat
    OBVIOUS
  <2> QED
    BY <2>1 DEF Names
<1>2. ASSUME list # <<>>
      PROVE  Names(list) = {Head(list)} \cup Names(Tail(list))
  <2>1. /\ DOMAIN list = 1 .. Len(list) /\ Len(list) \in Nat \ {0} /\ Head(list) = list[1]
        /\ DOMAIN Tail(list) = 1 .. Len(list) - 1
        /\ \A i \in 1 .. Len(list) - 1 : Tail(list)[i] = list[i + 1]
    BY <1>2
  <2>2. \A i \in 1 .. Len(list) : i = 1 \/ (i - 1 \in 1 .. Len(list) - 1 /\ list[i] = Tail(list)[i - 1])
    BY <2>1
  <2>3. ASSUME NEW i \in DOMAIN list PROVE list[i] \in {Head(list)} \cup Names(Tail(list))
    <3>1. CASE i = 1
      BY <2>1, <3>1
    <3>2. CASE i # 1
      <4>1. i - 1 \in DOMAIN Tail(list) /\ list[i] = Tail(list)[i - 1]
        BY <2>1, <2>2, <3>2
      <4> QED
        BY <4>1 DEF Names
    <3> QED
      BY <3>1, <3>2
  <2>4. Head(list) \in Names(list)
    BY <2>1 DEF Names
  <2>5. ASSUME NEW i \in DOMAIN Tail(list) PROVE Tail(list)[i] \in Names(list)
    <3>1. i + 1 \in DOMAIN list /\ Tail(list)[i] = list[i + 1]
      BY <2>1
    <3> QED
      BY <3>1 DEF Names
  <2> QED
    BY <2>3, <2>4, <2>5 DEF Names
<1>3. ASSUME list = <<>> PROVE Names(list) = {}
  BY <1>3 DEF Names
<1> QED
  BY <1>1, <1>2, <1>3

LEMMA NamesOfOne == Names(<<"part">>) = {"part"}
BY DEF Names

LEMMA TidyInit == Init => Tidy
BY DEF Init, Tidy, BeforeOpen, Trying, ClearsIntermediates, SaveLabels, CheckLabels

\* The steps that write, list and delete nothing.
IdleFor ==
    /\ UNCHANGED <<created, wrote, spoiled, part, left, shelf, dir, cur, opts>>
    /\ \/ BeforeOpen /\ BeforeOpen'
       \/ BeforeOpen /\ pc' = "report"
       \/ Trying /\ Trying' /\ (pc' = "convert" => pc = "convert")
       \/ Trying /\ pc' = IF opts.noCleanup THEN "report" ELSE "unlink"
       \/ UNCHANGED <<pc, ret, outcome>>
       \/ pc' \notin {"convert", "unlink", "rmdir", "report"} /\ ~BeforeOpen' /\ ~Trying'

LEMMA IdleKeepsTidy ==
    ASSUME BatchInv, Tidy, IdleFor
    PROVE  Tidy'
<1> USE DEF Tidy
<1>0. left \in [Stems -> SUBSET Kinds] /\ wrote \subseteq Kinds \cup {"part"} /\ "part" \notin Kinds
  BY DEF BatchInv, TypeOK, DiskTypeOK, NotesTypeOK, Kinds
<1> QED
  BY <1>0 DEF IdleFor, Stem, ClearsIntermediates, WorkDirEmpty, BeforeOpen, Trying, InTry, SaveLabels, CheckLabels

IdleAttempt ==
    \/ Bootstrap \/ SyncSubtitles \/ AllDone \/ CheckCancel \/ CheckSkip
    \/ SkipExisting \/ ReadNonce \/ FindKey \/ AskOn \/ AskYes \/ AskNo \/ SaveKeys \/ CrackKey
    \/ OpenFails \/ Demux \/ PickEncoder \/ Report
    \/ Gui \/ Kill \/ Idle \/ UNCHANGED vars

LEMMA IdleForSteps == ASSUME BatchInv, IdleAttempt PROVE IdleFor
<1> USE DEF IdleFor, BeforeOpen, Trying, InTry, SaveLabels, CheckLabels, Goto, CheckThen, PollIn,
            StageDone, RaiseFrom, EndWith, OnlyProcess, diskVars, attemptVars, processVars
<1>0. pc \in Labels /\ ret \in Returns
  BY DEF BatchInv, TypeOK, ProcessTypeOK
<1>1. CASE Bootstrap \/ SyncSubtitles \/ AllDone \/ Report
  BY <1>1 DEF Bootstrap, SyncSubtitles, AllDone, Report
<1>2. CASE CheckCancel
  BY <1>2 DEF CheckCancel
<1>3. CASE CheckSkip
  <2>1. ret \in {"exists", "open", "crack", "demux", "audio", "video", "encode", "replace"}
    BY <1>0, <1>3 DEF CheckSkip, BatchInv, Control, CheckLabels, Returns
  <2> QED
    BY <1>3, <2>1 DEF CheckSkip
<1>4. CASE SkipExisting \/ ReadNonce \/ CrackKey \/ OpenFails
  BY <1>4 DEF SkipExisting, ReadNonce, CrackKey, OpenFails
<1>5. CASE FindKey
  BY <1>5 DEF FindKey, NoStoredKey
<1>6. CASE AskOn \/ AskYes \/ AskNo
  BY <1>6 DEF AskOn, AskYes, AskNo, NoStoredKey
<1>7. CASE SaveKeys
  BY <1>7 DEF SaveKeys, BatchInv, Control
<1>8. CASE Demux \/ PickEncoder
  BY <1>8 DEF Demux, PickEncoder
<1>9. CASE Gui \/ Kill \/ Idle \/ UNCHANGED vars
  BY <1>9 DEF Gui, OnlyGui, Kill, Idle, vars
<1> QED
  BY <1>1, <1>2, <1>3, <1>4, <1>5, <1>6, <1>7, <1>8, <1>9 DEF IdleAttempt

LEMMA TidyKept ==
    ASSUME BatchInv, Tidy, [Next]_vars
    PROVE  Tidy'
<1> USE DEF Tidy
<1>0. /\ pc \in Labels /\ created \in Seq(Listable) /\ cur \in 0 .. NFiles
      /\ part \in [Stems -> 0 .. NFiles + 2]
      /\ left \in [Stems -> SUBSET Kinds] /\ wrote \subseteq Kinds \cup {"part"}
      /\ dir \in [Stems -> BOOLEAN]
      /\ Streams \subseteq {"ivf", "hca"}
  BY BatchAssumption DEF BatchInv, TypeOK, ProcessTypeOK, DiskTypeOK, NotesTypeOK, Listable
<1>s. pc \in FileLabels => Stem \in Stems
  BY BatchAssumption DEF BatchInv, Control, Stem
<1>1. CASE IdleAttempt
  BY <1>1, IdleForSteps, IdleKeepsTidy
<1>2. CASE \E o \in OptionSets : StartProcess(o)
  BY <1>2 DEF StartProcess, BeforeOpen, Trying, SaveLabels, CheckLabels, ClearsIntermediates
<1>3. CASE NextFile
  BY <1>3 DEF NextFile, BeforeOpen, Trying, InTry, SaveLabels, CheckLabels, ClearsIntermediates
<1>4. CASE OpenWorkDir
  BY <1>4, NamesOfOne DEF OpenWorkDir, attemptVars, BeforeOpen, Trying, SaveLabels, CheckLabels,
     ClearsIntermediates
<1>5. ASSUME NEW kind \in Streams, OpenStream(kind) PROVE Tidy'
  <2>1. Names(created') = Names(created) \cup {kind}
    BY <1>0, <1>5, NamesLaws DEF OpenStream, Listable
  <2> QED
    BY <1>5, <2>1 DEF OpenStream, Leaves, BeforeOpen, Trying, SaveLabels, CheckLabels,
       ClearsIntermediates
<1>6. CASE ListAudio
  <2>1. /\ Names(created) \subseteq Names(created')
        /\ "hca" \in wrote => "audio" \in Names(created')
    BY <1>0, <1>6, NamesLaws DEF ListAudio, Listable
  <2> QED
    BY <1>6, <2>1 DEF ListAudio, OnlyProcess, attemptVars, BeforeOpen, Trying, SaveLabels,
       CheckLabels, ClearsIntermediates
<1>7. CASE ConvertAudio \/ MakeSubtitles
  BY <1>7 DEF ConvertAudio, MakeSubtitles, Leaves, Goto, CheckThen, StageDone, RaiseFrom,
     BeforeOpen, Trying, InTry, SaveLabels, CheckLabels, ClearsIntermediates
<1>8. CASE Encode \/ Mux
  BY <1>8 DEF Encode, Mux, MayTearPart, PartIs, LastCheck, Goto, CheckThen, PollIn, StageDone,
     RaiseFrom, BeforeOpen, Trying, InTry, SaveLabels, CheckLabels, ClearsIntermediates
<1>9. CASE Replace
  <2>1. part'[Stem] = Missing /\ UNCHANGED <<cur, created, wrote, left, opts>> /\ pc = "replace"
    BY <1>0, <1>s, <1>9 DEF Replace, diskVars, attemptVars, FileLabels
  <2> QED
    BY <1>9, <2>1 DEF Replace, BeforeOpen, Trying, SaveLabels, CheckLabels, ClearsIntermediates, Stem
<1>10. CASE ReplaceFails
  BY <1>10 DEF ReplaceFails, EndWith, RaiseFrom, OnlyProcess, diskVars, attemptVars, BatchInv, Control,
     BeforeReplace, BeforeOpen, Trying, SaveLabels, CheckLabels, ClearsIntermediates, Stem
<1>11. CASE Unlink
  <2>1. Names(created) = {Head(created)} \cup Names(created')
    BY <1>0, <1>11, NamesLaws DEF Unlink
  <2>2. /\ pc = "unlink" /\ UNCHANGED <<pc, cur, wrote>>
        /\ ~spoiled' => /\ ~spoiled
                        /\ Head(created) = "part" => part'[Stem] = Missing
                        /\ Head(created) # "part" => part' = part
                        /\ left'[Stem] = left[Stem] \ {Head(created)}
    BY <1>0, <1>s, <1>11 DEF Unlink, FileLabels
  <2> QED
    BY <1>0, <2>1, <2>2 DEF BeforeOpen, Trying, SaveLabels, CheckLabels, ClearsIntermediates, Stem
<1>12. CASE RemoveSubs
  <2>1. Names(created) = {}
    BY <1>0, <1>12, NamesLaws DEF RemoveSubs
  <2>2. /\ pc = "unlink" /\ pc' = "rmdir" /\ UNCHANGED <<cur, part, wrote>>
        /\ ~spoiled' => ~spoiled /\ left'[Stem] = left[Stem] \ {"subs"}
    BY <1>0, <1>s, <1>12 DEF RemoveSubs, Goto, FileLabels
  <2> QED
    BY <2>1, <2>2 DEF BeforeOpen, Trying, SaveLabels, CheckLabels, ClearsIntermediates, Stem
<1>13. CASE RemoveDir
  <2>1. /\ pc = "rmdir" /\ pc' = "report" /\ UNCHANGED <<cur, part, left, shelf, wrote>>
        /\ ~spoiled' => ~spoiled /\ dir'[Stem] = ~WorkDirEmpty
    BY <1>0, <1>s, <1>13 DEF RemoveDir, Goto, FileLabels
  <2> QED
    BY <2>1 DEF BeforeOpen, Trying, SaveLabels, CheckLabels, ClearsIntermediates, Stem, WorkDirEmpty
<1> QED
  BY <1>1, <1>2, <1>3, <1>4, <1>5, <1>6, <1>7, <1>8, <1>9, <1>10, <1>11, <1>12, <1>13
     DEF Next, Engine, IdleAttempt

\* Nothing an attempt wrote is left when its fate is reported, unless the user keeps
\* the intermediates, a deletion failed or the rename did: for any inputs, any
\* streams and any failure on the way.
THEOREM ClearsTheorem == Spec => []ClearsIntermediates
<1>1. BatchInv /\ Tidy /\ [Next]_vars => Tidy'
  BY TidyKept
<1>2. Tidy => ClearsIntermediates
  BY DEF Tidy
<1> QED
  BY <1>1, <1>2, BatchInvariant, TidyInit, PTL DEF Spec
-----------------------------------------------------------------------------
(***************************************************************************)
(* What the commands of the GUI do to a batch, for every interleaving of    *)
(* the GUI with the main thread: a skip reaches no input but its own, and   *)
(* the one that it reaches; a cancel is obeyed by the next input; the user  *)
(* is asked once in a process at most, and keys.json is overwritten only    *)
(* after a yes to that question.                                            *)
(***************************************************************************)

\* The GUI sent a skip for an input of this name.
Wanted(name) == \E f \in meant : name = StemOf[f]

SkipInv ==
    /\ \A i \in DOMAIN lines : IsSkip(lines[i]) => Wanted(lines[i].file)
    /\ skip_file # None => Wanted(skip_file)
    /\ InFile => cur \in Files /\ current_file = StemOf[cur]
    /\ InFile /\ outcome = "requested" => cur \in meant
    /\ \A f \in Files : out[f] = "requested" => f \in meant

\* No two inputs of the batch have one name.
DistinctNames == \A f, g \in Files : StemOf[f] = StemOf[g] => f = g

LEMMA SkipInit == Init => SkipInv
BY DEF Init, ReporterInit, SkipInv, InFile

\* A skip that takes effect names the current input.
LEMMA WantedSkip ==
    ASSUME BatchInv, SkipInv, DistinctNames, InFile, SkipWanted
    PROVE  cur \in meant
<1>1. cur \in Files /\ current_file = StemOf[cur] /\ meant \subseteq Files
  BY DEF SkipInv, BatchInv, TypeOK, GuiTypeOK
<1>2. Wanted(DrainedSkip)
  BY DEF SkipWanted, DrainedSkip, LastSkip, SkipInv
<1> QED
  BY <1>1, <1>2 DEF SkipWanted, Wanted, DistinctNames

\* The steps in which the main thread neither reads nor moves to another input.
SilentStep ==
    /\ UNCHANGED <<reporterVars, seen, meant, cur>>
    /\ \/ out' = out
       \/ pc = "report" /\ out' = [out EXCEPT ![cur] = outcome]
    /\ InFile' => InFile
    /\ Open' => Open
    /\ pc' = "checkSkip" => pc = "checkSkip"
    /\ InFile' => outcome' = outcome \/ outcome' # "requested"

SilentAction ==
    \/ Bootstrap \/ AllDone \/ SkipExisting \/ ReadNonce \/ SaveKeys \/ CrackKey
    \/ OpenWorkDir \/ OpenFails
    \/ (\E kind \in Streams : OpenStream(kind))
    \/ Demux \/ ListAudio \/ ConvertAudio \/ MakeSubtitles
    \/ PickEncoder \/ Encode \/ Mux \/ Replace \/ ReplaceFails
    \/ Unlink \/ RemoveSubs \/ RemoveDir \/ Report
    \/ Kill \/ Idle \/ UNCHANGED vars

LEMMA SilentSteps == ASSUME BatchInv, SilentAction PROVE SilentStep
<1> USE DEF SilentStep, InFile, Open, Starting, SaveLabels, Goto, CheckThen, PollIn, StageDone, RaiseFrom,
            EndWith, OnlyProcess, guiVars
<1>1. CASE Bootstrap \/ AllDone \/ SkipExisting \/ ReadNonce
  BY <1>1 DEF Bootstrap, AllDone, SkipExisting, ReadNonce
<1>2. CASE SaveKeys
  BY <1>2 DEF SaveKeys, BatchInv, Control
<1>3. CASE CrackKey \/ OpenWorkDir \/ OpenFails
  BY <1>3 DEF CrackKey, OpenWorkDir, OpenFails
<1>4. CASE \E kind \in Streams : OpenStream(kind)
  BY <1>4 DEF OpenStream
<1>5. CASE Demux \/ ListAudio \/ ConvertAudio \/ MakeSubtitles
  BY <1>5 DEF Demux, ListAudio, ConvertAudio, MakeSubtitles
<1>6. CASE PickEncoder \/ Encode \/ Mux
  BY <1>6 DEF PickEncoder, Encode, Mux, LastCheck
<1>7. CASE Replace \/ ReplaceFails
  BY <1>7 DEF Replace, ReplaceFails
<1>8. CASE Unlink \/ RemoveSubs \/ RemoveDir
  BY <1>8 DEF Unlink, RemoveSubs, RemoveDir
<1>9. CASE Report
  BY <1>9 DEF Report
<1>10. CASE Kill \/ Idle \/ UNCHANGED vars
  BY <1>10 DEF Kill, Idle, vars, processVars
<1> QED
  BY <1>1, <1>2, <1>3, <1>4, <1>5, <1>6, <1>7, <1>8, <1>9, <1>10 DEF SilentAction

LEMMA SkipKept ==
    ASSUME DistinctNames, BatchInv, SkipInv, [Next]_vars
    PROVE  SkipInv'
<1> USE DEF SkipInv
<1>0. /\ lines \in Seq(Command) /\ cur \in 0 .. NFiles /\ NFiles \in Nat
      /\ out \in [Files -> Outcomes \cup {"none"}] /\ pc \in Labels
  BY BatchAssumption DEF BatchInv, TypeOK, ReporterTypeOK, ProcessTypeOK
<1>1. CASE SilentAction
  <2>1. SilentStep
    BY <1>1, SilentSteps
  <2>2. pc = "report" => cur \in Files /\ InFile
    BY DEF BatchInv, Control, FileLabels, InFile, Starting, SaveLabels
  <2>3. \A f \in Files : out'[f] = "requested" => f \in meant
    BY <1>0, <2>1, <2>2 DEF SilentStep
  <2> QED
    BY <2>1, <2>3 DEF SilentStep, Wanted, reporterVars
<1>2. CASE \E o \in OptionSets : StartProcess(o)
  BY <1>2 DEF StartProcess, ReporterStart, InFile, Starting
<1>3. CASE NextFile
  <2>1. cur + 1 \in Files
    BY <1>0, <1>3 DEF NextFile, Files
  <2> QED
    BY <1>3, <2>1 DEF NextFile, JobStartEvent, Wanted, InFile, Starting, guiVars
<1>4. CASE SyncSubtitles \/ CheckCancel \/ CheckSkip
  <2>1. DrainedSkip # None => Wanted(DrainedSkip)
    BY DEF DrainedSkip, LastSkip
  <2>2. /\ lines' = <<>> \/ lines' = lines
        /\ skip_file' = DrainedSkip \/ skip_file' = None \/ skip_file' = skip_file
        /\ UNCHANGED <<current_file, meant, cur, out>>
        /\ InFile' => InFile
    BY <1>4 DEF SyncSubtitles, CheckCancel, CheckSkip, CancelRequested, SkipRequested, DrainQueue,
       reporterVars, guiVars, processVars, Goto, RaiseFrom, InFile, Starting, SaveLabels
  <2>3. InFile' /\ outcome' = "requested" => outcome = "requested" \/ SkipWanted
    BY <1>4 DEF SyncSubtitles, CheckCancel, CheckSkip, processVars, Goto, RaiseFrom
  <2>4. InFile' /\ outcome' = "requested" => cur \in meant
    BY <2>2, <2>3, WantedSkip
  <2> QED
    BY <2>1, <2>2, <2>4 DEF Wanted
<1>5. CASE FindKey
  <2>1. /\ UNCHANGED <<lines, skip_file, current_file, meant, cur, out>>
        /\ InFile' => InFile
        /\ outcome' = outcome \/ outcome' = "no_key"
    BY <1>5 DEF FindKey, AskEmit, NoStoredKey, EndWith, RaiseFrom, Goto, StageDone, CheckThen,
       reporterVars, guiVars, InFile, Starting, SaveLabels
  <2> QED
    BY <2>1 DEF Wanted
<1>6. CASE AskOn \/ AskYes \/ AskNo
  <2>1. /\ UNCHANGED <<current_file, meant, cur, out>>
        /\ InFile' => InFile
        /\ outcome' = outcome \/ outcome' = "no_key"
        /\ AskTake \/ UNCHANGED <<lines, skip_file>>
    BY <1>6 DEF AskOn, AskYes, AskNo, AskTake, AskEnd, NoStoredKey, EndWith, RaiseFrom, Goto,
       reporterVars, processVars, guiVars, InFile, Starting, SaveLabels
  <2>2. CASE AskTake
    <3>1. lines # <<>> /\ 1 \in DOMAIN lines /\ Head(lines) = lines[1]
      BY <1>0, <2>2 DEF AskTake
    <3>2. \A i \in DOMAIN lines' : i + 1 \in DOMAIN lines /\ lines'[i] = lines[i + 1]
      BY <1>0, <2>2, <3>1 DEF AskTake
    <3>3. skip_file' # None => Wanted(skip_file')
      BY <2>2, <3>1 DEF AskTake
    <3> QED
      BY <2>1, <3>2, <3>3 DEF Wanted
  <2> QED
    BY <2>1, <2>2 DEF Wanted
<1>7. CASE Gui
  <2>1. UNCHANGED <<skip_file, current_file, cur, out, pc, ret, outcome>>
    BY <1>7 DEF Gui, OnlyGui, GuiReads, GuiSkips, GuiCancels, GuiAnswers, GuiHangsUp, Send, HangUp,
       reporterVars, processVars
  <2>2. meant \subseteq meant'
    BY <1>7 DEF Gui, GuiReads, GuiSkips, GuiCancels, GuiAnswers, GuiHangsUp, guiVars
  <2>3. CASE UNCHANGED lines
    BY <2>1, <2>2, <2>3 DEF Wanted, InFile, Starting
  <2>4. ASSUME NEW c, lines' = Append(lines, c), IsSkip(c) => c.file = StemOf[seen] /\ seen \in meant'
        PROVE  SkipInv'
    <3>1. \A i \in DOMAIN lines' : (i \in DOMAIN lines /\ lines'[i] = lines[i]) \/ lines'[i] = c
      BY <1>0, <2>4
    <3> QED
      BY <2>1, <2>2, <2>4, <3>1 DEF Wanted, InFile, Starting
  <2> QED
    BY <1>7, <2>3, <2>4 DEF Gui, GuiReads, GuiSkips, GuiCancels, GuiAnswers, GuiHangsUp, Send, HangUp,
       reporterVars, Skip, Cancel, Answer, IsSkip
<1> QED
  BY <1>1, <1>2, <1>3, <1>4, <1>5, <1>6, <1>7 DEF Next, Engine, SilentAction

\* With inputs of distinct names, a skip never takes down an input other than the
\* one it was sent for, however late the main thread reads it.
THEOREM SkipTheorem ==
    ASSUME DistinctNames
    PROVE  Spec => []SkipHitsItsTarget
<1>1. BatchInv /\ SkipInv /\ [Next]_vars => SkipInv'
  BY SkipKept
<1>2. SkipInv => SkipHitsItsTarget
  BY DEF SkipInv, SkipHitsItsTarget
<1> QED
  BY <1>1, <1>2, BatchInvariant, SkipInit, PTL DEF Spec

-----------------------------------------------------------------------------
CancelWaits == \E i \in DOMAIN lines : lines[i] = Cancel

\* A cancel is never lost: until it is heeded it waits in the channel, which is
\* given up only once it is empty and closed.
CancelKnown ==
    /\ ~piped => lines = <<>> /\ gone
    /\ cancelSent => cancelled \/ CancelWaits

\* The input that starts after a cancel goes straight to its report.
DoomedEnds ==
    doomed # {} =>
        /\ doomed = {cur} /\ cancelSent /\ wrote = {}
        /\ out[cur] \in {"none", "cancelled"}
        /\ \/ pc = "checkCancel" /\ ret = "exists"
           \/ pc \in {"report", "next"} /\ outcome = "cancelled"
           \/ pc \in {"off", "done"}

LEMMA CancelKnownInit == Init => CancelKnown
BY DEF Init, ReporterInit, CancelKnown

LEMMA CancelKnownKept ==
    ASSUME BatchInv, CancelKnown, [Next]_vars
    PROVE  CancelKnown'
<1> USE DEF CancelKnown, CancelWaits
<1>0. lines \in Seq(Command) /\ piped \in BOOLEAN /\ gone \in BOOLEAN
  BY DEF BatchInv, TypeOK, ReporterTypeOK
<1>1. CASE SilentAction
  <2>1. UNCHANGED <<reporterVars, cancelSent>>
    BY <1>1 DEF SilentAction, Bootstrap, AllDone, SkipExisting, ReadNonce, SaveKeys, CrackKey,
       OpenWorkDir, OpenFails, OpenStream, Demux, ListAudio, ConvertAudio, MakeSubtitles,
       PickEncoder, Encode, Mux, Replace, ReplaceFails, Unlink, RemoveSubs, RemoveDir, Report,
       Kill, Idle, vars, OnlyProcess, guiVars
  <2> QED
    BY <2>1 DEF reporterVars
<1>2. CASE \E o \in OptionSets : StartProcess(o)
  BY <1>2 DEF StartProcess, ReporterStart
<1>3. CASE NextFile
  BY <1>3 DEF NextFile, JobStartEvent, guiVars
<1>4. CASE SyncSubtitles \/ CheckCancel \/ CheckSkip
  <2>1. UNCHANGED <<gone, cancelSent>> /\ (DrainQueue \/ UNCHANGED <<lines, piped, cancelled>>)
    BY <1>4 DEF SyncSubtitles, CheckCancel, CheckSkip, CancelRequested, SkipRequested, reporterVars,
       guiVars
  <2> QED
    BY <1>0, <2>1 DEF DrainQueue, DrainedCancel, Drains
<1>5. CASE FindKey
  BY <1>5 DEF FindKey, AskEmit, reporterVars, guiVars
<1>6. CASE AskOn \/ AskYes \/ AskNo
  <2>1. UNCHANGED <<gone, piped, cancelSent>> /\ (AskTake \/ UNCHANGED <<lines, cancelled>>)
    BY <1>6 DEF AskOn, AskYes, AskNo, AskTake, AskEnd, reporterVars, guiVars
  <2>2. CASE AskTake
    <3>1. lines # <<>> /\ Head(lines) = lines[1]
      BY <1>0, <2>2 DEF AskTake
    <3>2. \A i \in DOMAIN lines : i = 1 \/ (i - 1 \in DOMAIN lines' /\ lines'[i - 1] = lines[i])
      BY <1>0, <2>2, <3>1 DEF AskTake
    <3>3. CancelWaits => lines[1] = Cancel \/ CancelWaits'
      BY <3>2
    <3>4. cancelled' = (cancelled \/ lines[1] = Cancel)
      BY <2>2, <3>1 DEF AskTake
    <3> HIDE DEF CancelWaits
    <3> QED
      BY <2>1, <3>1, <3>3, <3>4
  <2> QED
    BY <2>1, <2>2
<1>7. CASE Gui
  <2>1. CASE UNCHANGED <<lines, cancelSent>> /\ (GuiReads \/ GuiHangsUp)
    BY <2>1 DEF GuiReads, GuiHangsUp, HangUp, reporterVars
  <2>2. ASSUME NEW c, Send(c), cancelSent' = cancelSent \/ c = Cancel
        PROVE  CancelKnown'
    <3>1. lines' = Append(lines, c) /\ ~gone /\ UNCHANGED <<gone, piped, cancelled>>
      BY <2>2 DEF Send
    <3>2. /\ DOMAIN lines' = 1 .. Len(lines) + 1 /\ lines'[Len(lines) + 1] = c
          /\ \A i \in DOMAIN lines : lines'[i] = lines[i] /\ i \in DOMAIN lines'
          /\ Len(lines) + 1 \in DOMAIN lines'
      BY <1>0, <3>1
    <3> QED
      BY <2>2, <3>1, <3>2
  <2> QED
    BY <1>7, <2>1, <2>2 DEF Gui, GuiReads, GuiSkips, GuiCancels, GuiAnswers, GuiHangsUp, HangUp,
       reporterVars, guiVars
<1> QED
  BY <1>1, <1>2, <1>3, <1>4, <1>5, <1>6, <1>7 DEF Next, Engine, SilentAction

LEMMA DoomedInit == Init => DoomedEnds
BY DEF Init, DoomedEnds

LEMMA DoomedKept ==
    ASSUME BatchInv, History, CancelKnown, DoomedEnds, [Next]_vars
    PROVE  DoomedEnds'
<1> USE DEF DoomedEnds
<1>0. /\ cur \in 0 .. NFiles /\ NFiles \in Nat
      /\ out \in [Files -> Outcomes \cup {"none"}]
  BY BatchAssumption DEF BatchInv, TypeOK, ProcessTypeOK
<1>1. CASE \E o \in OptionSets : StartProcess(o)
  BY <1>1 DEF StartProcess
<1>2. CASE NextFile
  <2>1. doomed = {} /\ cur + 1 \in Files /\ out[cur + 1] = "none"
    BY <1>0, <1>2 DEF NextFile, History, Files
  <2>2. /\ cur' = cur + 1 /\ wrote' = {} /\ UNCHANGED <<out, cancelSent>>
        /\ pc' = "checkCancel" /\ ret' = "exists"
        /\ doomed' = IF cancelSent THEN doomed \cup {cur + 1} ELSE doomed
    BY <1>2 DEF NextFile, guiVars
  <2> QED
    BY <2>1, <2>2
<1>3. CASE AllDone
  BY <1>3 DEF AllDone, Goto, OnlyProcess, guiVars, attemptVars
<1>4. CASE CheckCancel
  <2>1. cancelSent => DrainedCancel
    BY <1>0 DEF CancelKnown, CancelWaits, DrainedCancel, Drains
  <2>2. UNCHANGED <<doomed, cur, out, wrote, cancelSent>>
    BY <1>4 DEF CheckCancel, Goto, RaiseFrom, guiVars, attemptVars
  <2> QED
    BY <1>4, <2>1, <2>2 DEF CheckCancel, RaiseFrom, InTry
<1>5. CASE Report
  <2>1. cur \in Files
    BY <1>5 DEF Report, BatchInv, Control, FileLabels
  <2> QED
    BY <1>0, <1>5, <2>1 DEF Report, OnlyProcess, guiVars, attemptVars
<1>6. CASE Kill
  BY <1>6 DEF Kill, guiVars, attemptVars
<1>7. CASE Idle \/ UNCHANGED vars
  BY <1>7 DEF Idle, vars, processVars, guiVars, attemptVars
<1>8. CASE Gui
  <2>1. cancelSent => cancelSent'
    BY <1>8 DEF Gui, GuiReads, GuiSkips, GuiCancels, GuiAnswers, GuiHangsUp, guiVars
  <2> QED
    BY <1>8, <2>1 DEF Gui, OnlyGui, processVars, attemptVars
\* No other step is taken once an input is doomed.
<1>9. CASE /\ pc \in Labels \ {"checkCancel", "report", "next", "off", "done"}
           /\ UNCHANGED doomed
  BY <1>9
<1>10. CASE Bootstrap \/ SyncSubtitles \/ CheckSkip \/ SkipExisting \/ ReadNonce \/ FindKey
  BY <1>10, <1>9 DEF Bootstrap, SyncSubtitles, CheckSkip, SkipExisting, ReadNonce, FindKey,
     OnlyProcess, Labels
<1>11. CASE AskOn \/ AskYes \/ AskNo \/ SaveKeys \/ CrackKey \/ OpenWorkDir \/ OpenFails
  BY <1>11, <1>9 DEF AskOn, AskYes, AskNo, SaveKeys, CrackKey, OpenWorkDir, OpenFails, OnlyProcess,
     Labels
<1>12. CASE Demux \/ ListAudio \/ ConvertAudio \/ MakeSubtitles \/ PickEncoder \/ Encode \/ Mux
            \/ (\E kind \in Streams : OpenStream(kind))
  BY <1>12, <1>9 DEF OpenStream, Demux, ListAudio, ConvertAudio, MakeSubtitles, PickEncoder, Encode,
     Mux, OnlyProcess, Labels
<1>13. CASE Replace \/ ReplaceFails \/ Unlink \/ RemoveSubs \/ RemoveDir
  BY <1>13, <1>9 DEF Replace, ReplaceFails, Unlink, RemoveSubs, RemoveDir, OnlyProcess, Labels
<1> QED
  BY <1>1, <1>2, <1>3, <1>4, <1>5, <1>6, <1>7, <1>8, <1>10, <1>11, <1>12, <1>13 DEF Next, Engine

\* One input at most starts after a cancel was sent, and it ends as cancelled with
\* nothing written.
THEOREM CancelTheorem == Spec => []CancelIsHeeded
<1>1. BatchInv /\ CancelKnown /\ [Next]_vars => CancelKnown'
  BY CancelKnownKept
<1>2. BatchInv /\ History /\ CancelKnown /\ DoomedEnds /\ [Next]_vars => DoomedEnds'
  BY DoomedKept
<1>3. DoomedEnds => CancelIsHeeded
  <2>1. Cardinality({}) = 0 /\ Cardinality({cur}) = 1
    BY FS_EmptySet, FS_Singleton
  <2> QED
    BY <2>1 DEF DoomedEnds, CancelIsHeeded
<1> QED
  BY <1>1, <1>2, <1>3, BatchInvariant, HistoryInvariant, CancelKnownInit, DoomedInit, PTL DEF Spec


-----------------------------------------------------------------------------
\* What the key store does to keys.json and to the user, for every answer of the
\* network and every behaviour of the GUI.
Useful == {"broken", "local", "new"}

\* The download is being saved after a yes.
SavingAnswer == pc \in SaveLabels /\ ret = "open"

\* After the one question the store never looks upstream again: it was refused,
\* or it holds the download itself.
AskInv ==
    /\ asked \in {0, 1}
    /\ Starting => asked = 0
    /\ pc = "ask" \/ SavingAnswer => asked = 1
    /\ asked = 1 =>
           /\ fetched \in Useful
           /\ declined \/ raw = fetched \/ pc \in {"ask", "off"} \/ SavingAnswer

\* A yes in the channel is a yes the user gave, and a save follows one, or
\* makes a file where there was none.
ConsentInv ==
    /\ \A i \in DOMAIN lines :
           lines[i].type = "answer" /\ lines[i].value = TRUE => lines[i].id \in consent
    /\ SavingAnswer => asked - 1 \in consent
    /\ pc = "save" /\ ret = "sync" => keysDisk = "absent"

\* The steps after which the store, the channel and the question are as before.
IdleStep ==
    /\ UNCHANGED <<keyVars, lines, asked, consent>>
    /\ pc' \notin SaveLabels \cup {"ask"}
    /\ Starting' => Starting
    /\ pc \notin SaveLabels \cup {"ask", "off"}

IdleAction ==
    \/ NextFile \/ AllDone \/ SkipExisting \/ ReadNonce \/ CrackKey
    \/ OpenWorkDir \/ OpenFails
    \/ (\E kind \in Streams : OpenStream(kind))
    \/ Demux \/ ListAudio \/ ConvertAudio \/ MakeSubtitles
    \/ PickEncoder \/ Encode \/ Mux \/ Replace \/ ReplaceFails
    \/ Unlink \/ RemoveSubs \/ RemoveDir \/ Report

LEMMA IdleSteps == ASSUME IdleAction PROVE IdleStep
<1> USE DEF IdleStep, Starting, SaveLabels, Goto, CheckThen, PollIn, StageDone, RaiseFrom,
            EndWith, OnlyProcess, reporterVars, guiVars
<1>1. CASE NextFile \/ AllDone \/ SkipExisting \/ ReadNonce
  BY <1>1 DEF NextFile, JobStartEvent, AllDone, SkipExisting, ReadNonce
<1>2. CASE CrackKey \/ OpenWorkDir \/ OpenFails
  BY <1>2 DEF CrackKey, OpenWorkDir, OpenFails
<1>3. CASE \E kind \in Streams : OpenStream(kind)
  BY <1>3 DEF OpenStream
<1>4. CASE Demux \/ ListAudio \/ ConvertAudio \/ MakeSubtitles
  BY <1>4 DEF Demux, ListAudio, ConvertAudio, MakeSubtitles
<1>5. CASE PickEncoder \/ Encode \/ Mux
  BY <1>5 DEF PickEncoder, Encode, Mux, LastCheck
<1>6. CASE Replace \/ ReplaceFails
  BY <1>6 DEF Replace, ReplaceFails
<1>7. CASE Unlink \/ RemoveSubs \/ RemoveDir
  BY <1>7 DEF Unlink, RemoveSubs, RemoveDir
<1>8. CASE Report
  BY <1>8 DEF Report
<1> QED
  BY <1>1, <1>2, <1>3, <1>4, <1>5, <1>6, <1>7, <1>8 DEF IdleAction

\* The steps that read the channel, and the end of a process.
ReadingAction == SyncSubtitles \/ CheckCancel \/ CheckSkip \/ Kill \/ Idle \/ UNCHANGED vars

ReadingStep ==
    /\ UNCHANGED <<keyVars, asked, consent>>
    /\ lines' = lines \/ lines' = <<>>
    /\ \/ UNCHANGED <<pc, ret>>
       \/ pc \notin SaveLabels \cup {"ask", "off"} /\ pc' \notin SaveLabels \cup {"ask"}
       \/ pc' = "off"
    /\ Starting' => Starting

LEMMA ReadingSteps == ASSUME BatchInv, ReadingAction, asked \in {0, 1} PROVE ReadingStep
<1> USE DEF ReadingStep, Starting, SaveLabels, Goto, RaiseFrom, OnlyProcess, reporterVars, processVars,
            guiVars
<1>1. CASE SyncSubtitles
  BY <1>1 DEF SyncSubtitles, CancelRequested, DrainQueue
<1>2. CASE CheckCancel
  BY <1>2 DEF CheckCancel, CancelRequested, DrainQueue
<1>3. CASE CheckSkip
  <2>1. ret \in Returns \ {"off", "sync"}
    BY <1>3 DEF CheckSkip, BatchInv, Control, CheckLabels, TypeOK, ProcessTypeOK
  <2> QED
    BY <1>3, <2>1 DEF CheckSkip, SkipRequested, DrainQueue, Returns
<1>4. CASE Kill \/ Idle \/ UNCHANGED vars
  BY <1>4 DEF Kill, Idle, vars
<1> QED
  BY <1>1, <1>2, <1>3, <1>4 DEF ReadingAction

LEMMA AskInit == Init => AskInv /\ ConsentInv
BY DEF Init, ReporterInit, AskInv, ConsentInv, Starting, SavingAnswer, SaveLabels

LEMMA AskKept ==
    ASSUME BatchInv, AskInv, [Next]_vars
    PROVE  AskInv'
<1> USE DEF AskInv, SavingAnswer
<1>0. Control /\ KeysTypeOK
  BY DEF BatchInv, TypeOK
<1>1. CASE IdleAction
  <2>1. UNCHANGED <<fetched, declined, raw, asked>>
    BY <1>1, IdleSteps DEF IdleStep, keyVars
  <2>2. pc' \notin SaveLabels \cup {"ask"} /\ pc \notin SaveLabels \cup {"ask", "off"}
    BY <1>1, IdleSteps DEF IdleStep
  <2>3. Starting' => Starting
    BY <1>1, IdleSteps DEF IdleStep
  <2> QED
    BY <2>1, <2>2, <2>3
<1>2. CASE ReadingAction
  <2>1. ReadingStep
    BY <1>2, ReadingSteps
  <2>2. UNCHANGED <<fetched, declined, raw, asked>> /\ (Starting' => Starting)
    BY <2>1 DEF ReadingStep, keyVars
  <2>3. CASE UNCHANGED <<pc, ret>>
    BY <2>2, <2>3
  <2>4. CASE pc' \notin SaveLabels \cup {"ask"} /\ pc \notin SaveLabels \cup {"ask", "off"}
    BY <2>2, <2>4
  <2>5. CASE pc' = "off"
    BY <2>2, <2>5 DEF SaveLabels
  <2> QED
    BY <2>1, <2>3, <2>4, <2>5 DEF ReadingStep
<1>3. CASE \E o \in OptionSets : StartProcess(o)
  BY <1>3 DEF StartProcess, ReporterStart, SaveLabels, Starting
<1>4. CASE Bootstrap
  BY <1>4 DEF Bootstrap, Goto, reporterVars, SaveLabels, Starting
<1>5. CASE FindKey
  <2> USE DEF NoStoredKey, EndWith, RaiseFrom, Goto, StageDone, CheckThen, SaveLabels, Starting
  <2>1. pc = "keys" /\ pc' # "sync" /\ ~Starting' /\ ~SavingAnswer'
    BY <1>5 DEF FindKey
  <2>2. CASE UNCHANGED <<reporterVars, keyVars>> /\ pc' # "ask"
    BY <2>1, <2>2 DEF reporterVars, keyVars
  <2>3. CASE \E u \in Downloads : /\ UpstreamUseless(Stem, u) \/ UpstreamLacks(Stem, u)
                                 /\ UNCHANGED reporterVars /\ pc' # "ask"
    BY <1>0, <2>1, <2>3 DEF UpstreamUseless, UpstreamLacks, Fetch, reporterVars, Useful
  <2>4. CASE \E u \in Downloads : UpstreamHas(Stem, u)
    <3>1. PICK u \in Downloads : UpstreamHas(Stem, u)
      BY <2>4
    <3>2. asked = 0 /\ fetched' \in Useful
      BY <1>0, <2>1, <3>1, KeysAssumption
         DEF UpstreamHas, LooksUpstream, Fetch, KeysTypeOK, Useful
    <3>3. \/ AskEmit /\ pc' = "ask"
          \/ UNCHANGED reporterVars /\ pc' # "ask"
          \/ \E v \in Downloads : /\ UpstreamUseless(Stem, v) \/ UpstreamLacks(Stem, v)
                                  /\ UNCHANGED reporterVars /\ pc' # "ask"
      BY <1>5 DEF FindKey
    <3> QED
      BY <2>1, <3>2, <3>3 DEF AskEmit, reporterVars
  <2> QED
    BY <1>5, <2>2, <2>3, <2>4 DEF FindKey
<1>6. CASE AskOn
  BY <1>6 DEF AskOn, AskTake, keyVars, processVars, SaveLabels, Starting
<1>7. CASE AskYes
  BY <1>7 DEF AskYes, AskTake, keyVars, SaveLabels, Starting
<1>8. CASE AskNo
  BY <1>8 DEF AskNo, AskTake, AskEnd, Decline, NoStoredKey, EndWith, RaiseFrom, Goto, reporterVars,
     SaveLabels, Starting
<1>9. CASE SaveKeys
  BY <1>9 DEF SaveKeys, SaveOpens, SaveRefused, SaveWrites, Adopt, Goto, StageDone, CheckThen,
     reporterVars, keyVars, SaveLabels, Starting
<1>10. CASE Gui
  BY <1>10 DEF Gui, OnlyGui, GuiReads, GuiSkips, GuiCancels, GuiAnswers, GuiHangsUp, Send, HangUp,
     reporterVars, keyVars, processVars, SaveLabels, Starting
<1> QED
  BY <1>1, <1>2, <1>3, <1>4, <1>5, <1>6, <1>7, <1>8, <1>9, <1>10
     DEF Next, Engine, IdleAction, ReadingAction

LEMMA ConsentKept ==
    ASSUME BatchInv, AskInv, ConsentInv, [Next]_vars
    PROVE  ConsentInv'
<1> USE DEF ConsentInv, SavingAnswer
<1>0. lines \in Seq(Command) /\ asked \in Nat
  BY DEF BatchInv, TypeOK, ReporterTypeOK
<1>1. CASE IdleAction
  BY <1>1, IdleSteps DEF IdleStep, keyVars, SaveLabels
<1>2. CASE ReadingAction
  BY <1>2, ReadingSteps DEF AskInv, ReadingStep, keyVars, SaveLabels
<1>3. CASE \E o \in OptionSets : StartProcess(o)
  BY <1>3 DEF StartProcess, ReporterStart, SaveLabels
<1>4. CASE Bootstrap
  BY <1>4 DEF Bootstrap, BootstrapFetch, Goto, reporterVars, guiVars, SaveLabels
<1>5. CASE FindKey
  BY <1>5 DEF FindKey, AskEmit, NoStoredKey, EndWith, RaiseFrom, Goto, StageDone, CheckThen, reporterVars,
     guiVars, SaveLabels
<1>6. CASE AskOn \/ AskYes \/ AskNo
  <2>1. UNCHANGED <<asked, consent>> /\ (AskTake \/ lines' = lines)
    BY <1>6 DEF AskOn, AskYes, AskNo, AskTake, AskEnd, reporterVars, guiVars
  <2>2. \A i \in DOMAIN lines' :
            lines'[i].type = "answer" /\ lines'[i].value = TRUE => lines'[i].id \in consent
    <3>1. CASE AskTake
      <4>1. lines # <<>> /\ lines' = Tail(lines)
        BY <3>1 DEF AskTake
      <4>2. \A i \in DOMAIN lines' : i + 1 \in DOMAIN lines /\ lines'[i] = lines[i + 1]
        BY <1>0, <4>1
      <4> QED
        BY <4>2
    <3> QED
      BY <2>1, <3>1
  <2>3. ASSUME AskYes PROVE asked - 1 \in consent
    <3>1. lines # <<>> /\ Head(lines) = Answer(asked - 1, TRUE)
      BY <2>3 DEF AskYes, AskTake, AskReturns
    <3>2. 1 \in DOMAIN lines /\ lines[1] = Head(lines)
      BY <1>0, <3>1
    <3>3. Head(lines).type = "answer" /\ Head(lines).value = TRUE /\ Head(lines).id = asked - 1
      BY <3>1 DEF Answer
    <3> QED
      BY <3>2, <3>3
  <2> QED
    BY <1>6, <2>1, <2>2, <2>3
       DEF AskOn, AskYes, AskNo, NoStoredKey, EndWith, RaiseFrom, Goto, processVars, SaveLabels
<1>7. CASE SaveKeys
  BY <1>7 DEF SaveKeys, SaveOpens, SaveRefused, SaveWrites, Adopt, Goto, StageDone, CheckThen,
     reporterVars, guiVars, SaveLabels
<1>8. CASE Gui
  <2>1. UNCHANGED <<pc, ret, keysDisk, asked>> /\ consent \subseteq consent'
    BY <1>8 DEF Gui, OnlyGui, GuiReads, GuiSkips, GuiCancels, GuiAnswers, GuiHangsUp, Send, HangUp,
       keyVars, processVars, reporterVars, guiVars
  <2>2. CASE lines' = lines
    BY <2>1, <2>2
  <2>3. ASSUME NEW c, lines' = Append(lines, c),
               c.type = "answer" /\ c.value = TRUE => c.id \in consent'
        PROVE  ConsentInv'
    <3>1. \A i \in DOMAIN lines' : (i \in DOMAIN lines /\ lines'[i] = lines[i]) \/ lines'[i] = c
      BY <1>0, <2>3
    <3> QED
      BY <2>1, <2>3, <3>1
  <2> QED
    BY <1>8, <2>2, <2>3 DEF Gui, GuiReads, GuiSkips, GuiCancels, GuiAnswers, GuiHangsUp, Send, HangUp,
       reporterVars, Skip, Cancel, Answer
<1> QED
  BY <1>1, <1>2, <1>3, <1>4, <1>5, <1>6, <1>7, <1>8 DEF Next, Engine, IdleAction, ReadingAction

\* The user is asked about new keys once in a process at most.
THEOREM AskTheorem == Spec => []AsksOnce
<1>1. BatchInv /\ AskInv /\ [Next]_vars => AskInv'
  BY AskKept
<1>2. AskInv => AsksOnce
  BY DEF AskInv, AsksOnce
<1> QED
  BY <1>1, <1>2, BatchInvariant, AskInit, PTL DEF Spec

\* keys.json is opened for writing in one place.
LEMMA SavingBegins ==
    ASSUME BatchInv, AskInv, [Next]_vars, pc' = "saving", pc # "saving"
    PROVE  pc = "save"
<1>1. CASE IdleAction
  BY <1>1, IdleSteps DEF IdleStep, SaveLabels
<1>2. CASE ReadingAction
  BY <1>2, ReadingSteps DEF AskInv, ReadingStep, SaveLabels
<1>3. CASE \E o \in OptionSets : StartProcess(o)
  BY <1>3 DEF StartProcess
<1>4. CASE Bootstrap
  BY <1>4 DEF Bootstrap, Goto
<1>5. CASE FindKey
  BY <1>5 DEF FindKey, NoStoredKey, EndWith, RaiseFrom, Goto, StageDone, CheckThen
<1>6. CASE AskOn \/ AskYes \/ AskNo
  BY <1>6 DEF AskOn, AskYes, AskNo, NoStoredKey, EndWith, RaiseFrom, Goto, processVars
<1>7. CASE SaveKeys
  BY <1>7 DEF SaveKeys, Goto, StageDone, CheckThen
<1>8. CASE Gui
  BY <1>8 DEF Gui, OnlyGui, processVars
<1> QED
  BY <1>1, <1>2, <1>3, <1>4, <1>5, <1>6, <1>7, <1>8 DEF Next, Engine, IdleAction, ReadingAction

\* A keys.json is overwritten only after the user said yes to the question.
THEOREM OverwriteTheorem == Spec => OverwriteNeedsYes
<1>1. BatchInv /\ AskInv /\ [Next]_vars => AskInv'
  BY AskKept
<1>2. BatchInv /\ AskInv /\ ConsentInv /\ [Next]_vars => ConsentInv'
  BY ConsentKept
<1>3. ASSUME BatchInv, AskInv, ConsentInv, [Next]_vars, pc # "saving",
             pc' = "saving" \/ keysDisk' # keysDisk
      PROVE  keysDisk = "absent" \/ asked - 1 \in consent
  <2>1. ASSUME keysDisk' # keysDisk PROVE pc = "save"
    <3>1. KeyStep
      BY <1>3, <2>1, KeySteps
    <3> QED
      BY <1>3, <2>1, <3>1 DEF KeyStep, keyVars, KeysStart, BootstrapLoad, BootstrapFetch,
         UpstreamUseless, UpstreamLacks, UpstreamHas, Decline, Adopt
  <2>2. pc = "save"
    BY <1>3, <2>1, SavingBegins
  <2> QED
    BY <1>3, <2>2 DEF ConsentInv, SavingAnswer, BatchInv, Control, SaveLabels
<1> QED
  BY <1>1, <1>2, <1>3, BatchInvariant, AskInit, PTL DEF Spec, OverwriteNeedsYes

-----------------------------------------------------------------------------
\* The last skip of a queue, and that draining the queue and the one-use
\* skip_file would find the name in it.
LastIn(queue) ==
    {i \in DOMAIN queue : IsSkip(queue[i]) /\ \A j \in i + 1 .. Len(queue) : ~IsSkip(queue[j])}

NoSkip(queue) == \A i \in DOMAIN queue : ~IsSkip(queue[i])

Waits(queue, file, name) ==
    \/ \E i \in LastIn(queue) : queue[i] = Skip(name)
    \/ file = name /\ NoSkip(queue)

LEMMA WaitsSent ==
    ASSUME NEW q \in Seq(Command), NEW c \in Command, NEW file, NEW name
    PROVE  /\ Waits(q, file, name) /\ ~IsSkip(c) => Waits(Append(q, c), file, name)
           /\ c = Skip(name) => Waits(Append(q, c), file, name)
<1>1. /\ DOMAIN q = 1 .. Len(q) /\ Len(q) \in Nat
      /\ DOMAIN Append(q, c) = 1 .. Len(q) + 1 /\ Len(Append(q, c)) = Len(q) + 1
      /\ \A i \in 1 .. Len(q) : Append(q, c)[i] = q[i]
      /\ Append(q, c)[Len(q) + 1] = c
  OBVIOUS
<1>2. ASSUME c = Skip(name) PROVE Waits(Append(q, c), file, name)
  <2>1. IsSkip(c)
    BY <1>2 DEF IsSkip, Skip
  <2>2. Len(q) + 1 \in LastIn(Append(q, c))
    BY <1>1, <2>1 DEF LastIn
  <2> QED
    BY <1>1, <1>2, <2>2 DEF Waits
<1>3. ASSUME ~IsSkip(c), NEW i \in LastIn(q)
      PROVE  i \in LastIn(Append(q, c)) /\ Append(q, c)[i] = q[i]
  BY <1>1, <1>3 DEF LastIn
<1>4. ASSUME ~IsSkip(c), NoSkip(q) PROVE NoSkip(Append(q, c))
  BY <1>1, <1>4 DEF NoSkip
<1> QED
  BY <1>2, <1>3, <1>4 DEF Waits

LEMMA WaitsTaken ==
    ASSUME NEW q \in Seq(Command), q # <<>>, NEW file, NEW name, Waits(q, file, name)
    PROVE  Waits(Tail(q), IF IsSkip(Head(q)) THEN Head(q).file ELSE file, name)
<1> DEFINE t == Tail(q)
<1>1. /\ DOMAIN q = 1 .. Len(q) /\ Len(q) \in Nat \ {0} /\ Head(q) = q[1]
      /\ DOMAIN t = 1 .. Len(q) - 1 /\ Len(t) = Len(q) - 1
      /\ \A i \in 1 .. Len(q) - 1 : t[i] = q[i + 1]
  OBVIOUS
<1> HIDE DEF t
<1>2. CASE file = name /\ NoSkip(q)
  <2>1. ~IsSkip(Head(q))
    BY <1>1, <1>2 DEF NoSkip
  <2>2. NoSkip(t)
    <3> SUFFICES ASSUME NEW i \in DOMAIN t PROVE ~IsSkip(t[i])
      BY DEF NoSkip
    <3>1. i + 1 \in DOMAIN q /\ t[i] = q[i + 1]
      BY <1>1
    <3> QED
      BY <1>2, <3>1 DEF NoSkip
  <2> QED
    BY <1>2, <2>1, <2>2 DEF Waits, t
<1>3. ASSUME NEW i \in LastIn(q), q[i] = Skip(name)
      PROVE  Waits(Tail(q), IF IsSkip(Head(q)) THEN Head(q).file ELSE file, name)
  <2>1. i \in 1 .. Len(q) /\ \A j \in i + 1 .. Len(q) : ~IsSkip(q[j])
    BY <1>1 DEF LastIn
  <2>2. CASE i = 1
    <3>1. IsSkip(Head(q)) /\ Head(q).file = name
      BY <1>1, <1>3, <2>2 DEF IsSkip, Skip
    <3>2. NoSkip(t)
      <4> SUFFICES ASSUME NEW j \in DOMAIN t PROVE ~IsSkip(t[j])
        BY DEF NoSkip
      <4>1. j + 1 \in 1 + 1 .. Len(q) /\ t[j] = q[j + 1]
        BY <1>1
      <4> QED
        BY <2>1, <2>2, <4>1
    <3> QED
      BY <3>1, <3>2 DEF Waits, t
  <2>3. CASE i # 1
    <3>1. i - 1 \in DOMAIN t /\ t[i - 1] = Skip(name)
      BY <1>1, <1>3, <2>1, <2>3
    <3>2. ASSUME NEW j \in i - 1 + 1 .. Len(t) PROVE ~IsSkip(t[j])
      <4>1. j + 1 \in i + 1 .. Len(q) /\ t[j] = q[j + 1]
        BY <1>1, <2>1
      <4> QED
        BY <2>1, <4>1
    <3>3. i - 1 \in LastIn(t)
      BY <3>1, <3>2 DEF LastIn, IsSkip, Skip
    <3> QED
      BY <3>1, <3>3 DEF Waits, t
  <2> QED
    BY <2>2, <2>3
<1> QED
  BY <1>2, <1>3 DEF Waits

\* What drain_commands leaves in skip_file is the name that waited.
LEMMA WaitsDrained ==
    ASSUME lines \in Seq(Command), NEW name, Waits(lines, skip_file, name), Drains \/ lines = <<>>
    PROVE  DrainedSkip = name
<1>1. LastSkip = LastIn(lines)
  BY DEF LastSkip, LastIn
<1>2. CASE skip_file = name /\ NoSkip(lines)
  BY <1>1, <1>2 DEF DrainedSkip, LastIn, NoSkip
<1>3. ASSUME NEW i \in LastIn(lines), lines[i] = Skip(name)
      PROVE  DrainedSkip = name
  <2>1. \A k \in LastIn(lines) : k = i
    <3> SUFFICES ASSUME NEW k \in LastIn(lines), k # i PROVE FALSE
      OBVIOUS
    <3>1. k \in 1 .. Len(lines) /\ i \in 1 .. Len(lines) /\ IsSkip(lines[k]) /\ IsSkip(lines[i])
      BY DEF LastIn
    <3>2. k \in i + 1 .. Len(lines) \/ i \in k + 1 .. Len(lines)
      BY <3>1
    <3> QED
      BY <3>1, <3>2 DEF LastIn
  <2>2. (CHOOSE k \in LastSkip : TRUE) = i
    BY <1>1, <2>1
  <2>3. lines # <<>>
    <3>1. i \in 1 .. Len(lines)
      BY DEF LastIn
    <3> QED
      BY <3>1
  <2>4. lines[i].file = name
    BY <1>3 DEF Skip
  <2> QED
    BY <1>1, <2>2, <2>3, <2>4 DEF DrainedSkip
<1> QED
  BY <1>2, <1>3 DEF Waits

LEMMA WaitsInFile == ASSUME NEW name PROVE Waits(<<>>, name, name)
BY DEF Waits, NoSkip

\* A skip that was sent for the input the main thread is at waits for the next
\* checkpoint, in the channel or in skip_file, with none behind it; the GUI never
\* skips an input that has not started.
SkipKnown ==
    /\ seen <= cur
    /\ \A f \in meant : f <= seen
    /\ pc = "checkSkip" => ~cancelled
    /\ ~piped => lines = <<>>
    /\ InFile => current_file = Stem
    /\ InFile /\ Open /\ cur \in meant => cancelled \/ Waits(lines, skip_file, Stem)

LEMMA SkipKnownInit == Init => SkipKnown
BY DEF Init, ReporterInit, SkipKnown, InFile

LEMMA SkipIsFound ==
    ASSUME BatchInv, SkipKnown, pc = "checkSkip", cur \in meant
    PROVE  SkipWanted
<1>0. /\ lines \in Seq(Command) /\ piped \in BOOLEAN /\ cancelled \in BOOLEAN /\ cur \in Files
  BY DEF BatchInv, TypeOK, ReporterTypeOK, Control, FileLabels
<1>1. InFile /\ Open /\ ~cancelled /\ (~piped => lines = <<>>)
  BY DEF InFile, Open, Starting, SaveLabels, SkipKnown
<1>2. Waits(lines, skip_file, Stem) /\ current_file = Stem
  BY <1>1 DEF SkipKnown
<1>3. Drains \/ lines = <<>>
  BY <1>1 DEF Drains
<1>4. DrainedSkip = Stem
  BY <1>0, <1>2, <1>3, WaitsDrained
<1>5. Stem \in Stems
  BY <1>0, BatchAssumption DEF Stem
<1> QED
  BY <1>2, <1>4, <1>5, NoneAssumption DEF SkipWanted

LEMMA SkipKnownKept ==
    ASSUME BatchInv, CancelKnown, SkipKnown, [Next]_vars
    PROVE  SkipKnown'
<1> USE DEF SkipKnown
<1>0. /\ lines \in Seq(Command) /\ cur \in 0 .. NFiles /\ NFiles \in Nat
      /\ seen \in 0 .. NFiles /\ meant \subseteq Files /\ pc \in Labels
      /\ piped \in BOOLEAN /\ cancelled \in BOOLEAN /\ gone \in BOOLEAN
  BY BatchAssumption DEF BatchInv, TypeOK, ReporterTypeOK, ProcessTypeOK, GuiTypeOK
<1>1. CASE SilentAction
  <2>1. SilentStep
    BY <1>1, SilentSteps
  <2> QED
    BY <2>1 DEF SilentStep, reporterVars, Stem
<1>2. CASE \E o \in OptionSets : StartProcess(o)
  BY <1>2 DEF StartProcess, ReporterStart, InFile, Starting
<1>3. CASE NextFile
  <2>1. cur' = cur + 1 /\ cur + 1 \notin meant /\ UNCHANGED <<meant, seen, piped, lines>>
    BY <1>0, <1>3 DEF NextFile, JobStartEvent, guiVars
  <2> QED
    BY <1>0, <1>3, <2>1 DEF NextFile, JobStartEvent, Stem
<1>4. CASE SyncSubtitles
  BY <1>0, <1>4 DEF SyncSubtitles, CancelRequested, DrainQueue, Drains, reporterVars, processVars, Goto,
     guiVars, InFile, Starting
<1>5. CASE CheckCancel
  <2>1. /\ UNCHANGED <<cur, seen, meant, current_file, gone>> /\ DrainQueue /\ skip_file' = DrainedSkip
        /\ cancelled' = DrainedCancel
        /\ ~DrainedCancel => pc' = "checkSkip"
        /\ DrainedCancel => pc' \in {"unlink", "report"}
    BY <1>5 DEF CheckCancel, CancelRequested, DrainQueue, Goto, RaiseFrom, guiVars
  <2>2. (~piped => lines = <<>>)'
    BY <1>0, <2>1 DEF DrainQueue, Drains
  <2>3. CASE ~DrainedCancel
    <3>1. ~cancelled /\ (Drains \/ lines = <<>>) /\ lines' = <<>>
      BY <1>0, <2>1, <2>3 DEF DrainedCancel, Drains, DrainQueue
    <3>2. InFile /\ Open
      BY <1>5 DEF CheckCancel, InFile, Open, Starting, SaveLabels
    <3>3. cur \in meant => Waits(lines', skip_file', Stem)
      <4> SUFFICES ASSUME cur \in meant PROVE Waits(<<>>, DrainedSkip, Stem)
        BY <2>1, <3>1
      <4>1. DrainedSkip = Stem
        BY <1>0, <3>1, <3>2, WaitsDrained
      <4> QED
        BY <4>1, WaitsInFile
    <3> QED
      BY <2>1, <2>2, <2>3, <3>2, <3>3 DEF Stem
  <2>4. CASE DrainedCancel
    BY <2>1, <2>2, <2>4, <1>5 DEF Open, CheckCancel, InFile, Starting, SaveLabels, Stem
  <2> QED
    BY <2>3, <2>4
<1>6. CASE CheckSkip
  <2>1. /\ UNCHANGED <<cur, seen, meant, current_file, gone, ret>> /\ DrainQueue
        /\ SkipWanted => pc' \in {"unlink", "report"}
        /\ ~SkipWanted => pc' = ret
    BY <1>6 DEF CheckSkip, SkipRequested, Goto, RaiseFrom, guiVars
  <2>2. (~piped => lines = <<>>)'
    BY <1>0, <2>1 DEF DrainQueue, Drains
  <2>3. pc' # "checkSkip"
    BY <2>1 DEF BatchInv, TypeOK, ProcessTypeOK, Returns
  <2>4. InFile /\ Open
    BY <1>6 DEF CheckSkip, InFile, Open, Starting, SaveLabels
  <2>5. cur \in meant => SkipWanted
    BY <1>6, SkipIsFound DEF CheckSkip
  <2> QED
    BY <2>1, <2>2, <2>3, <2>4, <2>5 DEF Open, Stem
<1>7. CASE FindKey
  <2>1. /\ UNCHANGED <<lines, piped, cancelled, skip_file, current_file, cur, seen, meant>>
        /\ pc' # "checkSkip" /\ InFile /\ Open
    BY <1>7 DEF FindKey, AskEmit, NoStoredKey, EndWith, RaiseFrom, Goto, StageDone, CheckThen,
       reporterVars, guiVars, InFile, Open, Starting, SaveLabels
  <2> QED
    BY <2>1 DEF Stem
<1>8. CASE AskOn \/ AskYes \/ AskNo
  <2>1. /\ UNCHANGED <<piped, current_file, cur, seen, meant>>
        /\ pc' # "checkSkip" /\ InFile /\ Open
        /\ AskTake \/ UNCHANGED <<lines, cancelled, skip_file>>
    BY <1>8 DEF AskOn, AskYes, AskNo, AskTake, AskEnd, NoStoredKey, EndWith, RaiseFrom, Goto,
       reporterVars, processVars, guiVars, InFile, Open, Starting, SaveLabels
  <2>2. CASE AskTake
    <3>1. /\ lines # <<>> /\ lines' = Tail(lines)
          /\ cancelled => cancelled'
          /\ skip_file' = IF IsSkip(Head(lines)) THEN Head(lines).file ELSE skip_file
      BY <2>2 DEF AskTake
    <3>2. ASSUME Waits(lines, skip_file, Stem) PROVE Waits(lines', skip_file', Stem)
      <4>1. Waits(Tail(lines), IF IsSkip(Head(lines)) THEN Head(lines).file ELSE skip_file, Stem)
        BY <1>0, <3>1, <3>2, WaitsTaken
      <4> QED
        BY <3>1, <4>1
    <3>3. piped /\ piped' = piped
      BY <2>1, <3>1
    <3>4. cur \in meant => cancelled' \/ Waits(lines', skip_file', Stem)
      BY <2>1, <3>1, <3>2
    <3> QED
      BY <2>1, <3>3, <3>4 DEF Stem
  <2> QED
    BY <2>1, <2>2 DEF Stem
<1>9. CASE Gui
  <2>1. UNCHANGED <<piped, cancelled, skip_file, current_file, cur, pc, ret>>
    BY <1>9 DEF Gui, OnlyGui, GuiReads, GuiSkips, GuiCancels, GuiAnswers, GuiHangsUp, Send, HangUp,
       reporterVars, processVars
  <2>2. CASE GuiReads
    <3>1. seen' <= cur /\ (\A f \in meant : f <= seen') /\ UNCHANGED <<meant, lines>>
      BY <1>0, <2>2 DEF GuiReads, reporterVars, Files
    <3> QED
      BY <2>1, <3>1 DEF InFile, Open, Starting, Stem
  <2>3. CASE GuiHangsUp
    BY <2>1, <2>3 DEF GuiHangsUp, HangUp, guiVars, InFile, Open, Starting, Stem
  <2>4. CASE GuiSkips
    <3>1. /\ seen \in Files /\ Skip(StemOf[seen]) \in Command /\ ~gone
          /\ lines' = Append(lines, Skip(StemOf[seen])) /\ meant' = meant \cup {seen} /\ UNCHANGED seen
      <4>1. seen \in Files
        BY <1>0, <2>4 DEF GuiSkips, Files
      <4> QED
        BY <2>4, <4>1, BatchAssumption DEF GuiSkips, Send, Skip, Command
    <3>2. cur \in meant' => seen = cur
      BY <1>0, <3>1
    <3>3. cur \in meant' => Waits(lines', skip_file', Stem)
      BY <1>0, <2>1, <3>1, <3>2, WaitsSent DEF Stem
    <3>4. piped
      BY <1>0, <3>1 DEF CancelKnown
    <3> QED
      BY <1>0, <2>1, <3>1, <3>3, <3>4 DEF InFile, Open, Starting, Stem
  <2>5. CASE GuiCancels \/ GuiAnswers
    <3>1. PICK c \in Command : Send(c) /\ ~IsSkip(c)
      <4>1. CASE GuiCancels
        BY <4>1 DEF GuiCancels, Cancel, IsSkip, Command
      <4>2. CASE GuiAnswers
        <5>1. asked - 1 \in Nat
          BY <2>1, <4>2 DEF GuiAnswers, BatchInv, TypeOK, ReporterTypeOK, GuiTypeOK
        <5> QED
          BY <4>2, <5>1 DEF GuiAnswers, Answer, IsSkip, Command
      <4> QED
        BY <2>5, <4>1, <4>2
    <3>2. /\ lines' = Append(lines, c) /\ ~gone /\ UNCHANGED <<seen, meant>>
      BY <2>5, <3>1 DEF GuiCancels, GuiAnswers, Send
    <3>3. Waits(lines, skip_file, Stem) => Waits(lines', skip_file', Stem)
      BY <1>0, <2>1, <3>1, <3>2, WaitsSent
    <3>4. piped
      BY <1>0, <3>2 DEF CancelKnown
    <3> QED
      BY <2>1, <3>2, <3>3, <3>4 DEF InFile, Open, Starting, Stem
  <2> QED
    BY <1>9, <2>2, <2>3, <2>4, <2>5 DEF Gui
<1> QED
  BY <1>1, <1>2, <1>3, <1>4, <1>5, <1>6, <1>7, <1>8, <1>9 DEF Next, Engine, SilentAction

\* An input whose skip was due at its last checkpoint goes from there to its report.
DueEnds ==
    /\ \A f \in due : f <= cur /\ f \in meant /\ out[f] # "ok"
    /\ cur \in due =>
           \/ pc \in CheckLabels /\ ret = "replace"
           \/ pc \in {"off", "done"}
           \/ pc \in {"unlink", "rmdir", "report", "next"} /\ outcome # "ok"

LEMMA DueInit == Init => DueEnds
BY DEF Init, DueEnds

LEMMA DueKept ==
    ASSUME BatchInv, History, SkipKnown, DueEnds, [Next]_vars
    PROVE  DueEnds'
<1> USE DEF DueEnds
<1>0. /\ cur \in 0 .. NFiles /\ NFiles \in Nat /\ due \subseteq Files /\ pc \in Labels
      /\ out \in [Files -> Outcomes \cup {"none"}]
  BY BatchAssumption DEF BatchInv, TypeOK, ProcessTypeOK, NotesTypeOK
<1>1. CASE \E o \in OptionSets : StartProcess(o)
  BY <1>1 DEF StartProcess
<1>2. CASE NextFile
  <2>1. cur' = cur + 1 /\ cur + 1 \notin due /\ UNCHANGED <<out, due, meant>>
    BY <1>0, <1>2 DEF NextFile, guiVars
  <2>2. \A f \in due : f <= cur'
    BY <1>0, <2>1 DEF Files
  <2> QED
    BY <2>1, <2>2
<1>3. CASE Encode \/ Mux
  <2>1. /\ UNCHANGED <<cur, out, meant>> /\ out[cur] = "none" /\ cur \notin due
        /\ due' = due \/ (due' = due \cup {cur} /\ cur \in meant /\ pc' = "checkCancel" /\ ret' = "replace")
    BY <1>3 DEF Encode, Mux, LastCheck, Goto, CheckThen, PollIn, StageDone, RaiseFrom, guiVars, History,
       InFile, Starting, SaveLabels, CheckLabels
  <2> QED
    BY <1>0, <2>1 DEF CheckLabels
<1>4. CASE CheckCancel
  BY <1>4 DEF CheckCancel, Goto, RaiseFrom, guiVars, CheckLabels
<1>5. CASE CheckSkip
  <2>1. cur \in due => SkipWanted
    BY <1>5, SkipIsFound DEF CheckSkip
  <2> QED
    BY <1>5, <2>1 DEF CheckSkip, Goto, RaiseFrom, guiVars, CheckLabels
<1>6. CASE Report
  <2>1. cur \in Files /\ out' = [out EXCEPT ![cur] = outcome] /\ UNCHANGED <<cur, due, meant, outcome>>
        /\ pc = "report" /\ pc' = "next"
    BY <1>6 DEF Report, OnlyProcess, guiVars, BatchInv, Control, FileLabels
  <2> QED
    BY <1>0, <2>1 DEF CheckLabels
<1>7. CASE AllDone \/ Kill
  BY <1>7 DEF AllDone, Kill, Goto, OnlyProcess, guiVars
<1>8. CASE Unlink \/ RemoveSubs \/ RemoveDir
  BY <1>8 DEF Unlink, RemoveSubs, RemoveDir, Goto, guiVars, CheckLabels
<1>9. CASE Idle \/ UNCHANGED vars
  BY <1>9 DEF Idle, vars, processVars, guiVars
<1>10. CASE Gui
  <2>1. meant \subseteq meant'
    BY <1>10 DEF Gui, GuiReads, GuiSkips, GuiCancels, GuiAnswers, GuiHangsUp, guiVars
  <2> QED
    BY <1>10, <2>1 DEF Gui, OnlyGui, processVars
\* No other step is taken for an input that is due.
<1>11. CASE /\ pc \notin CheckLabels \cup {"off", "done", "unlink", "rmdir", "report", "next"}
            /\ UNCHANGED <<cur, out, meant, due>>
  BY <1>11
<1>12. CASE Bootstrap \/ SyncSubtitles \/ SkipExisting \/ ReadNonce \/ FindKey \/ AskOn \/ AskYes \/ AskNo
  BY <1>12, <1>11 DEF Bootstrap, SyncSubtitles, SkipExisting, ReadNonce, FindKey, AskOn, AskYes, AskNo,
     NoStoredKey, Goto, CheckThen, StageDone, RaiseFrom, EndWith, OnlyProcess, processVars, guiVars,
     CheckLabels
<1>13. CASE SaveKeys \/ CrackKey \/ OpenWorkDir \/ OpenFails
  BY <1>13, <1>11 DEF SaveKeys, CrackKey, OpenWorkDir, OpenFails, Goto, CheckThen, PollIn, StageDone,
     RaiseFrom, EndWith, OnlyProcess, guiVars, CheckLabels
<1>14. CASE Demux \/ ListAudio \/ ConvertAudio \/ MakeSubtitles \/ PickEncoder
            \/ (\E kind \in Streams : OpenStream(kind))
  BY <1>14, <1>11 DEF OpenStream, Demux, ListAudio, ConvertAudio, MakeSubtitles, PickEncoder, Goto,
     CheckThen, PollIn, StageDone, RaiseFrom, OnlyProcess, guiVars, CheckLabels
<1>15. CASE Replace \/ ReplaceFails
  BY <1>15, <1>11 DEF Replace, ReplaceFails, RaiseFrom, OnlyProcess, guiVars, CheckLabels
<1> QED
  BY <1>1, <1>2, <1>3, <1>4, <1>5, <1>6, <1>7, <1>8, <1>9, <1>10, <1>12, <1>13, <1>14, <1>15
     DEF Next, Engine

\* A skip that is written before the last checkpoint of its input begins keeps that
\* input from being converted, whatever else the GUI writes and whoever reads it
\* first; the names need not be distinct for this one.
THEOREM HeedTheorem == Spec => []SkipIsHeeded
<1>1. BatchInv /\ CancelKnown /\ [Next]_vars => CancelKnown'
  BY CancelKnownKept
<1>2. BatchInv /\ CancelKnown /\ SkipKnown /\ [Next]_vars => SkipKnown'
  BY SkipKnownKept
<1>3. BatchInv /\ History /\ SkipKnown /\ DueEnds /\ [Next]_vars => DueEnds'
  BY DueKept
<1>4. DueEnds => SkipIsHeeded
  BY DEF DueEnds, SkipIsHeeded
<1> QED
  BY <1>1, <1>2, <1>3, <1>4, BatchInvariant, HistoryInvariant, CancelKnownInit, SkipKnownInit, DueInit, PTL
     DEF Spec
=============================================================================
