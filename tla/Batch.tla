------------------------------- MODULE Batch --------------------------------
(***************************************************************************)
(* A conversion batch (src/pipeline.py): process_all and, for each input,   *)
(* process_usm with the calls it makes, step by step, with the GUI on the   *)
(* other end of the command channel, the files on disk, and the process     *)
(* being killed and started again.                                          *)
(*                                                                          *)
(* `pc` is the next thing the main thread does.  Reporter.checkpoint is two *)
(* steps, "checkCancel" and "checkSkip", with the GUI free to write between *)
(* them, and `ret` is where it returns to.                                  *)
(***************************************************************************)
EXTENDS Reporter, Keys, FiniteSets

CONSTANTS
    NFiles,         \* inputs are 1 .. NFiles, in the order of the batch
    StemOf,         \* the name of each input
    StreamFiles,    \* inputs of the newer cipher, whose key cannot be cracked
    OptionSets,     \* the command lines a process may be started with
    EarlierPlaces,  \* places that may hold an output from before
    Streams,        \* kinds of streams an input may hold: "ivf", "hca"
    ReplaceMayFail, \* the final rename may raise
    DeleteMayFail,  \* a deletion may fail
    MayHangUp,      \* the GUI may close its end
    MaxRuns,        \* bound: processes started one after the other
    MaxKills,       \* bound: how many of them are killed
    MaxCommands,    \* bound: cancels and skips the GUI sends in all
    MaxPolls        \* bound: checkpoints inside one long stage

Files == 1 .. NFiles
Places == BOOLEAN \X Stems
Missing == 0
Earlier == NFiles + 1

\* A file that was cut short while being written.
Torn == NFiles + 2

Options == [noCleanup : BOOLEAN, skipExisting : BOOLEAN, flat : BOOLEAN, encode : BOOLEAN]

Kinds == {"ivf", "hca", "audio", "subs"}

Outcomes == {"ok", "exists", "no_key", "requested", "error", "cancelled"}

ASSUME BatchAssumption ==
    /\ NFiles \in Nat
    /\ StemOf \in [Files -> Stems]
    /\ StreamFiles \subseteq Files
    /\ OptionSets \subseteq Options
    /\ EarlierPlaces \subseteq Places
    /\ Streams \subseteq {"ivf", "hca"}
    /\ {ReplaceMayFail, DeleteMayFail, MayHangUp} \subseteq BOOLEAN
    /\ {MaxRuns, MaxKills, MaxCommands, MaxPolls} \subseteq Nat

VARIABLES
    \* the process
    opts,           \* its options
    pc, ret,
    cur,            \* the input process_all is at, 0 before the first
    outcome,        \* how the current input ends, once that is settled
    out,            \* the outcome event sent for each input
    failures,
    created,        \* the list of files to delete, a sequence
    polls,          \* checkpoints taken inside the current stage
    \* the disk, by place or by stem
    shelf,          \* the final .mkv
    part,           \* the .mkv.part
    left,           \* the intermediates
    dir,            \* the work directory exists
    \* the GUI
    seen,           \* job_start events it has read
    meant,          \* inputs it sent a skip for
    cancelSent,
    replies,        \* questions it has answered
    consent,        \* questions it said yes to
    \* kept for the properties and the bounds
    doomed,         \* inputs started after a cancel was sent
    due,            \* inputs a skip was sent for before their last checkpoint
    wrote,          \* what the current attempt put in the work directory
    spoiled,        \* a deletion failed for the current input
    sent, runs, kills

processVars == <<opts, pc, ret, cur, outcome, out, failures, created, polls>>
diskVars == <<shelf, part, left, dir>>
guiVars == <<seen, meant, cancelSent, replies, consent>>
boundVars == <<sent, runs, kills>>
attemptVars == <<wrote, spoiled>>

vars == <<reporterVars, keyVars, processVars, diskVars, guiVars, boundVars, attemptVars,
          doomed, due>>

Stem == StemOf[cur]
Place == <<opts.flat, Stem>>
Alive == pc \notin {"off", "done"}

-----------------------------------------------------------------------------
Init ==
    /\ ReporterInit
    /\ KeysInit
    /\ opts \in OptionSets
    /\ pc = "off" /\ ret = "off"
    /\ cur = 0 /\ outcome = "none"
    /\ out = [f \in Files |-> "none"]
    /\ failures = 0 /\ created = <<>> /\ polls = 0
    /\ shelf \in [Places -> {Missing, Earlier}]
    /\ \A p \in Places \ EarlierPlaces : shelf[p] = Missing
    /\ part = [s \in Stems |-> Missing]
    /\ left = [s \in Stems |-> {}]
    /\ dir = [s \in Stems |-> shelf[<<FALSE, s>>] # Missing]
    /\ seen = 0 /\ meant = {} /\ cancelSent = FALSE /\ replies = 0 /\ consent = {}
    /\ doomed = {} /\ due = {} /\ wrote = {} /\ spoiled = FALSE
    /\ sent = 0 /\ runs = 0 /\ kills = 0

\* Steps that stay within one part of the state.
Goto(label) == pc' = label /\ UNCHANGED <<opts, ret, cur, outcome, out, failures, created, polls>>

CheckThen(label) ==
    /\ pc' = "checkCancel"
    /\ ret' = label
    /\ UNCHANGED <<opts, cur, outcome, out, failures, created>>

\* One of the checkpoints inside a stage, and the one after it.
PollIn(label) == polls < MaxPolls /\ CheckThen(label) /\ polls' = polls + 1
StageDone(label) == CheckThen(label) /\ polls' = 0

\* An exception leaves process_usm, from its try block or from outside it.
RaiseFrom(inTry, o) ==
    /\ pc' = IF inTry /\ ~opts.noCleanup THEN "unlink" ELSE "report"
    /\ outcome' = o
    /\ polls' = 0
    /\ UNCHANGED <<opts, ret, cur, out, failures, created>>

\* process_usm sends its outcome and returns.
EndWith(o) == RaiseFrom(FALSE, o)

OnlyProcess ==
    UNCHANGED <<reporterVars, keyVars, diskVars, guiVars, boundVars, attemptVars, doomed, due>>

-----------------------------------------------------------------------------
\* main.run: a process starts on whatever the disk holds.
StartProcess(o) ==
    /\ ~Alive
    /\ runs < MaxRuns
    /\ runs' = runs + 1
    /\ ReporterStart
    /\ KeysStart
    /\ opts' = o
    /\ pc' = "bootstrap" /\ ret' = "off"
    /\ cur' = 0 /\ outcome' = "none"
    /\ out' = [f \in Files |-> "none"]
    /\ failures' = 0 /\ created' = <<>> /\ polls' = 0
    /\ seen' = 0 /\ meant' = {} /\ cancelSent' = FALSE /\ replies' = 0 /\ consent' = {}
    /\ doomed' = {} /\ due' = {} /\ wrote' = {} /\ spoiled' = FALSE
    /\ UNCHANGED <<diskVars, sent, kills>>

\* Keys.__init__
Bootstrap ==
    /\ pc = "bootstrap"
    /\ \/ BootstrapLoad /\ Goto("sync")
       \/ BootstrapFetch("none") /\ Goto("sync")
       \/ \E u \in Downloads \ {"none"} :
              /\ BootstrapFetch(u)
              /\ pc' = "save" /\ ret' = "sync"
              /\ UNCHANGED <<opts, cur, outcome, out, failures, created, polls>>
    /\ UNCHANGED <<reporterVars, diskVars, guiVars, boundVars, attemptVars, doomed, due>>

\* sync_subtitles: write_subtitles reads the commands before each file.
SyncSubtitles ==
    /\ pc = "sync"
    /\ \/ lines # <<>> /\ CancelRequested /\ UNCHANGED processVars
       \/ UNCHANGED reporterVars /\ Goto("next")
    /\ UNCHANGED <<keyVars, diskVars, guiVars, boundVars, attemptVars, doomed, due>>

\* An input that starts without passing a checkpoint.
MutantNextFile ==
    /\ pc = "next"
    /\ cur < NFiles /\ outcome # "cancelled"
    /\ cur' = cur + 1
    /\ JobStartEvent(StemOf[cur + 1])
    /\ pc' = "exists" /\ ret' = "exists"
    /\ outcome' = "none" /\ created' = <<>> /\ polls' = 0
    /\ wrote' = {} /\ spoiled' = FALSE
    /\ doomed' = IF cancelSent THEN doomed \cup {cur + 1} ELSE doomed
    /\ UNCHANGED <<opts, out, failures, keyVars, diskVars, guiVars, boundVars, due>>

\* The loop of process_all, with process_usm's job_start and first checkpoint.
NextFile ==
    /\ pc = "next"
    /\ cur < NFiles /\ outcome # "cancelled"
    /\ cur' = cur + 1
    /\ JobStartEvent(StemOf[cur + 1])
    /\ pc' = "checkCancel" /\ ret' = "exists"
    /\ outcome' = "none" /\ created' = <<>> /\ polls' = 0
    /\ wrote' = {} /\ spoiled' = FALSE
    /\ doomed' = IF cancelSent THEN doomed \cup {cur + 1} ELSE doomed
    /\ UNCHANGED <<opts, out, failures, keyVars, diskVars, guiVars, boundVars, due>>

AllDone ==
    /\ pc = "next"
    /\ cur = NFiles \/ outcome = "cancelled"
    /\ Goto("done")
    /\ OnlyProcess

\* Reporter.checkpoint
InTry == ret \in {"demux", "audio", "video", "encode", "replace"}

CheckCancel ==
    /\ pc = "checkCancel"
    /\ CancelRequested
    /\ IF DrainedCancel THEN RaiseFrom(InTry, "cancelled") ELSE Goto("checkSkip")
    /\ UNCHANGED <<keyVars, diskVars, guiVars, boundVars, attemptVars, doomed, due>>

CheckSkip ==
    /\ pc = "checkSkip"
    /\ SkipRequested
    /\ IF SkipWanted THEN RaiseFrom(InTry, "requested") ELSE Goto(ret)
    /\ UNCHANGED <<keyVars, diskVars, guiVars, boundVars, attemptVars, doomed, due>>

-----------------------------------------------------------------------------
\* --skip-existing, and video_nonce, which reads the input.
SkipExisting ==
    /\ pc = "exists"
    /\ opts.skipExisting /\ shelf[Place] # Missing
    /\ EndWith("exists")
    /\ OnlyProcess

ReadNonce ==
    /\ pc = "exists"
    /\ ~(opts.skipExisting /\ shelf[Place] # Missing)
    /\ Goto("keys") \/ EndWith("error")
    /\ OnlyProcess

\* find_keys: no key in the store.
NoStoredKey == IF cur \in StreamFiles THEN EndWith("no_key") ELSE Goto("crack")

FindKey ==
    /\ pc = "keys"
    /\ \/ FindsLocally(Stem) /\ StageDone("open") /\ UNCHANGED <<reporterVars, keyVars>>
       \/ GivesUp(Stem) /\ NoStoredKey /\ UNCHANGED <<reporterVars, keyVars>>
       \/ \E u \in Downloads :
              \/ UpstreamUseless(Stem, u) /\ NoStoredKey /\ UNCHANGED reporterVars
              \/ UpstreamLacks(Stem, u) /\ NoStoredKey /\ UNCHANGED reporterVars
              \/ UpstreamHas(Stem, u) /\ UNCHANGED declined /\ AskEmit /\ Goto("ask")
              \* ask of a session that skip_requested found cancelled
              \/ UpstreamHas(Stem, u) /\ cancelled /\ Decline /\ NoStoredKey
                     /\ UNCHANGED reporterVars
    /\ UNCHANGED <<diskVars, guiVars, boundVars, attemptVars, doomed, due>>

\* ask: a line that does not end it.
AskOn ==
    /\ pc = "ask"
    /\ AskTake
    /\ \A v \in BOOLEAN : ~AskReturns(v)
    /\ UNCHANGED <<keyVars, processVars, diskVars, guiVars, boundVars, attemptVars, doomed, due>>

\* The end of the stream is taken for a yes.
MutantAskYes ==
    /\ pc = "ask"
    /\ (AskTake /\ AskReturns(TRUE)) \/ AskEnd
    /\ pc' = "save" /\ ret' = "open"
    /\ UNCHANGED <<opts, cur, outcome, out, failures, created, polls>>
    /\ UNCHANGED <<keyVars, diskVars, guiVars, boundVars, attemptVars, doomed, due>>

AskYes ==
    /\ pc = "ask"
    /\ AskTake /\ AskReturns(TRUE)
    /\ pc' = "save" /\ ret' = "open"
    /\ UNCHANGED <<opts, cur, outcome, out, failures, created, polls>>
    /\ UNCHANGED <<keyVars, diskVars, guiVars, boundVars, attemptVars, doomed, due>>

AskNo ==
    /\ pc = "ask"
    /\ (AskTake /\ AskReturns(FALSE)) \/ AskEnd
    /\ Decline /\ UNCHANGED fetched
    /\ NoStoredKey
    /\ UNCHANGED <<diskVars, guiVars, boundVars, attemptVars, doomed, due>>

\* keys.json is written, during bootstrap or after a yes.
SaveKeys ==
    /\ \/ pc = "save" /\ SaveOpens /\ Goto("saving")
       \/ pc = "save" /\ SaveRefused /\ Goto("saved")
       \/ pc = "saving" /\ \E complete \in BOOLEAN : SaveWrites(complete) /\ Goto("saved")
       \/ pc = "saved" /\ ret = "sync" /\ Adopt /\ Goto("sync")
       \/ pc = "saved" /\ ret = "open" /\ Adopt /\ StageDone("open")
    /\ UNCHANGED <<reporterVars, diskVars, guiVars, boundVars, attemptVars, doomed, due>>

\* crack_usm: a walk over the chunks, and then a key or none.
CrackKey ==
    /\ pc = "crack"
    /\ PollIn("crack") \/ StageDone("open") \/ EndWith("no_key") \/ EndWith("error")
    /\ OnlyProcess

-----------------------------------------------------------------------------
\* USM() and mkdir, which are not in the try block.
OpenWorkDir ==
    /\ pc = "open"
    /\ pc' = "demux"
    /\ created' = <<"part">>
    /\ polls' = 0
    /\ dir' = [dir EXCEPT ![Stem] = TRUE]
    /\ UNCHANGED <<opts, ret, cur, outcome, out, failures>>
    /\ UNCHANGED <<shelf, part, left, reporterVars, keyVars, guiVars, boundVars, attemptVars,
                   doomed, due>>

OpenFails ==
    /\ pc = "open"
    /\ EndWith("error")
    /\ OnlyProcess

\* The intermediate is on disk from here on.
Leaves(kind) ==
    /\ left' = [left EXCEPT ![Stem] = @ \cup {kind}]
    /\ wrote' = wrote \cup {kind}

\* USM.demux: write_to opens a stream at its first chunk and lists it.
OpenStream(kind) ==
    /\ pc = "demux"
    /\ kind \notin wrote
    /\ Leaves(kind)
    /\ created' = Append(created, kind)
    /\ UNCHANGED <<opts, pc, ret, cur, outcome, out, failures, polls>>
    /\ UNCHANGED <<shelf, part, dir, spoiled, reporterVars, keyVars, guiVars, boundVars,
                   doomed, due>>

Demux ==
    /\ pc = "demux"
    /\ PollIn("demux") \/ StageDone("audio") \/ RaiseFrom(TRUE, "error")
    /\ OnlyProcess

\* The audio files are listed once they are all converted.
MutantListAudio ==
    /\ pc = "audio"
    /\ Goto("convert")
    /\ OnlyProcess

\* The audio files are listed before process_audio writes the first of them,
\* and some may be there when a conversion fails.
ListAudio ==
    /\ pc = "audio"
    /\ pc' = "convert"
    /\ created' = IF "hca" \in wrote THEN Append(created, "audio") ELSE created
    /\ UNCHANGED <<opts, ret, cur, outcome, out, failures, polls>>
    /\ OnlyProcess

ConvertAudio ==
    /\ pc = "convert"
    /\ \/ "hca" \in wrote /\ Leaves("audio") /\ Goto("subs")
       \/ "hca" \in wrote /\ Leaves("audio") /\ RaiseFrom(TRUE, "error")
       \/ "hca" \in wrote /\ UNCHANGED <<left, wrote>> /\ RaiseFrom(TRUE, "error")
       \/ "hca" \notin wrote /\ UNCHANGED <<left, wrote>> /\ Goto("subs")
    /\ UNCHANGED <<shelf, part, dir, spoiled, reporterVars, keyVars, guiVars, boundVars,
                   doomed, due>>

\* process_subtitles and subset_fonts: both write to the subs folder.
MakeSubtitles ==
    /\ pc = "subs"
    /\ Leaves("subs") \/ UNCHANGED <<left, wrote>>
    /\ StageDone("video") \/ RaiseFrom(TRUE, "error")
    /\ UNCHANGED <<shelf, part, dir, spoiled, reporterVars, keyVars, guiVars, boundVars,
                   doomed, due>>

\* encode_video: without a filter and without a subtitle to burn there is
\* nothing to encode, and the streams are muxed as they are.
PickEncoder ==
    /\ pc = "video"
    /\ IF opts.encode THEN Goto("encode") ELSE Goto("mux")
    /\ OnlyProcess

\* What ffmpeg has made of the .mkv.part.
PartIs(content) ==
    /\ part' = [part EXCEPT ![Stem] = content]
    /\ wrote' = wrote \cup {"part"}

MayTearPart == PartIs(Torn) \/ UNCHANGED <<part, wrote>>

\* The last checkpoint before the rename.
LastCheck ==
    /\ StageDone("replace")
    /\ due' = IF cur \in meant THEN due \cup {cur} ELSE due

\* encode: checkpoints while the worker lives, and a mux if it fails.
Encode ==
    /\ pc = "encode"
    /\ \/ PollIn("encode") /\ MayTearPart /\ UNCHANGED due
       \/ "ivf" \in wrote /\ PartIs(cur) /\ LastCheck
       \/ Goto("mux") /\ MayTearPart /\ UNCHANGED due
       \/ RaiseFrom(TRUE, "error") /\ MayTearPart /\ UNCHANGED due
    /\ UNCHANGED <<shelf, left, dir, spoiled, reporterVars, keyVars, guiVars, boundVars, doomed>>

\* The exit status of ffmpeg is not looked at.
MutantMux ==
    /\ \/ pc = "mux" /\ PartIs(Torn) /\ Goto("muxing") /\ UNCHANGED due
       \/ pc = "muxing" /\ "ivf" \in wrote /\ PartIs(cur) /\ LastCheck
       \/ pc = "muxing" /\ UNCHANGED <<part, wrote>> /\ LastCheck
    /\ UNCHANGED <<shelf, left, dir, spoiled, reporterVars, keyVars, guiVars, boundVars, doomed>>

\* mux: ffmpeg opens the .part, and ends well or not.
Mux ==
    /\ \/ pc = "mux" /\ PartIs(Torn) /\ Goto("muxing") /\ UNCHANGED due
       \/ pc = "muxing" /\ "ivf" \in wrote /\ PartIs(cur) /\ LastCheck
       \/ pc = "muxing" /\ UNCHANGED <<part, wrote, due>> /\ RaiseFrom(TRUE, "error")
    /\ UNCHANGED <<shelf, left, dir, spoiled, reporterVars, keyVars, guiVars, boundVars, doomed>>

\* A rename that fails is taken for one that did not.
MutantReplace ==
    /\ pc = "replace"
    /\ pc' = "unlink" /\ outcome' = "ok"
    /\ UNCHANGED <<opts, ret, cur, out, failures, created, polls>>
    /\ UNCHANGED <<shelf, part, left, dir, reporterVars, keyVars, guiVars, boundVars, attemptVars,
                   doomed, due>>

\* partial_mkv.replace(final_mkv), outside the try block.
Replace ==
    /\ pc = "replace"
    /\ shelf' = [shelf EXCEPT ![Place] = part[Stem]]
    /\ part' = [part EXCEPT ![Stem] = Missing]
    /\ pc' = IF opts.noCleanup THEN "report" ELSE "unlink"
    /\ outcome' = "ok"
    /\ UNCHANGED <<opts, ret, cur, out, failures, created, polls>>
    /\ UNCHANGED <<left, dir, reporterVars, keyVars, guiVars, boundVars, attemptVars, doomed, due>>

ReplaceFails ==
    /\ pc = "replace"
    /\ ReplaceMayFail
    /\ RaiseFrom(FALSE, "error")
    /\ OnlyProcess

-----------------------------------------------------------------------------
\* cleanup_files: each listed file, the subs folder, and the work directory
\* if that leaves it empty.  What cannot be deleted is logged and stays.
Unlink ==
    /\ pc = "unlink"
    /\ created # <<>>
    /\ created' = Tail(created)
    /\ \/ /\ part' = IF Head(created) = "part" THEN [part EXCEPT ![Stem] = Missing] ELSE part
          /\ left' = [left EXCEPT ![Stem] = @ \ {Head(created)}]
          /\ UNCHANGED spoiled
       \/ DeleteMayFail /\ spoiled' = TRUE /\ UNCHANGED <<part, left>>
    /\ UNCHANGED <<opts, pc, ret, cur, outcome, out, failures, polls>>
    /\ UNCHANGED <<shelf, dir, wrote, reporterVars, keyVars, guiVars, boundVars, doomed, due>>

RemoveSubs ==
    /\ pc = "unlink"
    /\ created = <<>>
    /\ Goto("rmdir")
    /\ \/ left' = [left EXCEPT ![Stem] = @ \ {"subs"}] /\ UNCHANGED spoiled
       \/ DeleteMayFail /\ "subs" \in left[Stem] /\ spoiled' = TRUE /\ UNCHANGED left
    /\ UNCHANGED <<shelf, part, dir, wrote, reporterVars, keyVars, guiVars, boundVars, doomed, due>>

WorkDirEmpty ==
    left[Stem] = {} /\ part[Stem] = Missing /\ shelf[<<FALSE, Stem>>] = Missing

\* The whole directory goes, with the output in it.
MutantRemoveDir ==
    /\ pc = "rmdir"
    /\ Goto("report")
    /\ dir' = [dir EXCEPT ![Stem] = FALSE]
    /\ shelf' = [shelf EXCEPT ![<<FALSE, Stem>>] = Missing]
    /\ UNCHANGED <<part, left, attemptVars, reporterVars, keyVars, guiVars, boundVars,
                   doomed, due>>

RemoveDir ==
    /\ pc = "rmdir"
    /\ Goto("report")
    /\ \/ dir' = [dir EXCEPT ![Stem] = ~WorkDirEmpty] /\ UNCHANGED spoiled
       \/ DeleteMayFail /\ spoiled' = TRUE /\ UNCHANGED dir
    /\ UNCHANGED <<shelf, part, left, wrote, reporterVars, keyVars, guiVars, boundVars, doomed, due>>

\* The outcome event, sent by process_usm or by process_all.
Report ==
    /\ pc = "report"
    /\ out' = [out EXCEPT ![cur] = outcome]
    /\ failures' = IF outcome = "error" THEN failures + 1 ELSE failures
    /\ pc' = "next"
    /\ UNCHANGED <<opts, ret, cur, outcome, created, polls>>
    /\ OnlyProcess

-----------------------------------------------------------------------------
\* The GUI, external: it learns of an input from its job_start, and a skip is
\* for the input it believes to be running.
GuiReads ==
    /\ Alive /\ seen < cur
    /\ seen' = seen + 1
    /\ UNCHANGED <<meant, cancelSent, replies, consent, reporterVars, boundVars>>

GuiSkips ==
    /\ Alive /\ seen > 0 /\ sent < MaxCommands
    /\ Send(Skip(StemOf[seen]))
    /\ meant' = meant \cup {seen}
    /\ sent' = sent + 1
    /\ UNCHANGED <<seen, cancelSent, replies, consent, runs, kills>>

GuiCancels ==
    /\ Alive /\ ~cancelSent /\ sent < MaxCommands
    /\ Send(Cancel)
    /\ cancelSent' = TRUE
    /\ sent' = sent + 1
    /\ UNCHANGED <<seen, meant, replies, consent, runs, kills>>

GuiAnswers ==
    /\ Alive /\ replies < asked
    /\ \E v \in BOOLEAN :
           /\ Send(Answer(asked - 1, v))
           /\ consent' = IF v THEN consent \cup {asked - 1} ELSE consent
    /\ replies' = asked
    /\ UNCHANGED <<seen, meant, cancelSent, boundVars>>

GuiHangsUp ==
    /\ Alive /\ MayHangUp
    /\ HangUp
    /\ UNCHANGED <<guiVars, boundVars>>

OnlyGui == UNCHANGED <<keyVars, processVars, diskVars, attemptVars, doomed, due>>

Gui == (GuiReads \/ GuiSkips \/ GuiCancels \/ GuiAnswers \/ GuiHangsUp) /\ OnlyGui

\* What a user faced with a question comes round to.
GuiReacts == replies < asked /\ (GuiAnswers \/ GuiHangsUp) /\ OnlyGui

\* The process dies where it stands: memory is lost, and the disk is not.
Kill ==
    /\ Alive
    /\ kills < MaxKills
    /\ kills' = kills + 1
    /\ pc' = "off"
    /\ UNCHANGED <<opts, ret, cur, outcome, out, failures, created, polls>>
    /\ UNCHANGED <<reporterVars, keyVars, diskVars, guiVars, attemptVars, doomed, due, sent, runs>>

\* No process is left to start.
Idle ==
    /\ ~Alive
    /\ runs = MaxRuns
    /\ UNCHANGED vars

Engine ==
    \/ Bootstrap \/ SyncSubtitles
    \/ NextFile \/ AllDone
    \/ CheckCancel \/ CheckSkip
    \/ SkipExisting \/ ReadNonce
    \/ FindKey \/ AskOn \/ AskYes \/ AskNo \/ SaveKeys \/ CrackKey
    \/ OpenWorkDir \/ OpenFails
    \/ \E kind \in Streams : OpenStream(kind)
    \/ Demux \/ ListAudio \/ ConvertAudio \/ MakeSubtitles
    \/ PickEncoder \/ Encode \/ Mux
    \/ Replace \/ ReplaceFails
    \/ Unlink \/ RemoveSubs \/ RemoveDir
    \/ Report

Next ==
    \/ \E o \in OptionSets : StartProcess(o)
    \/ Engine
    \/ Gui
    \/ Kill
    \/ Idle

Spec == Init /\ [][Next]_vars

\* The main thread keeps running, because a stage ends (the input is finite and
\* the worker is watched), and a user faced with a question answers it or
\* closes the GUI.
FairSpec == Spec /\ WF_vars(Engine) /\ WF_vars(GuiReacts)

-----------------------------------------------------------------------------
Labels ==
    {"off", "done", "bootstrap", "sync", "next", "checkCancel", "checkSkip", "exists",
     "keys", "ask", "save", "saving", "saved", "crack", "open", "demux", "audio", "convert",
     "subs", "video", "encode", "mux", "muxing", "replace", "unlink", "rmdir", "report"}

Returns == {"off", "sync", "exists", "open", "crack", "demux", "audio", "video", "encode", "replace"}

ProcessTypeOK ==
    /\ opts \in Options
    /\ pc \in Labels
    /\ ret \in Returns
    /\ cur \in 0 .. NFiles
    /\ outcome \in Outcomes \cup {"none"}
    /\ out \in [Files -> Outcomes \cup {"none"}]
    /\ failures \in Nat
    /\ created \in Seq({"part", "ivf", "hca", "audio"})
    /\ polls \in Nat

DiskTypeOK ==
    /\ shelf \in [Places -> 0 .. NFiles + 1]
    /\ part \in [Stems -> 0 .. NFiles + 2]
    /\ left \in [Stems -> SUBSET Kinds]
    /\ dir \in [Stems -> BOOLEAN]

GuiTypeOK ==
    /\ seen \in 0 .. NFiles
    /\ meant \subseteq Files
    /\ cancelSent \in BOOLEAN
    /\ replies \in Nat
    /\ consent \subseteq Nat

NotesTypeOK ==
    /\ doomed \subseteq Files
    /\ due \subseteq Files
    /\ wrote \subseteq Kinds \cup {"part"}
    /\ spoiled \in BOOLEAN
    /\ sent \in Nat /\ runs \in Nat /\ kills \in Nat

\* Every variable of the batch, its channel and its key store has its type, and
\* an output in its place is never one that was cut short: the rename is what
\* puts it there, of a .part that ffmpeg finished.
TypeOK ==
    /\ ReporterTypeOK
    /\ KeysTypeOK
    /\ ProcessTypeOK
    /\ DiskTypeOK
    /\ GuiTypeOK
    /\ NotesTypeOK

\* A skip sent late, for an input that is over, takes down no other: an input
\* ends as "requested" only if the GUI sent a skip for that very input.  The
\* comment at src/pipeline.py:159 states the danger, and skip_requested,
\* the order of job_start and the first checkpoint, and the one-use skip_file
\* avert it together.
SkipHitsItsTarget ==
    \A f \in Files : out[f] = "requested" => f \in meant

\* A skip is not lost either: an input whose skip was written before its last
\* checkpoint began is not converted, whatever question, late skip or encoder
\* was in the way.
SkipIsHeeded ==
    \A f \in due : out[f] # "ok"

\* A cancel is obeyed at the next input: an input started after the cancel was
\* written ends as "cancelled" with its disk untouched, and no second one starts.
CancelIsHeeded ==
    /\ Cardinality(doomed) <= 1
    /\ \A f \in doomed :
           /\ out[f] \in {"none", "cancelled"}
           /\ cur = f => wrote = {}

\* Once the fate of an input is reported, nothing that the attempt wrote is
\* left beside the output, and no work directory without a reason, unless the
\* user asked to keep the intermediates or a deletion failed.  One failure is
\* not cleaned up after: that of the rename (src/pipeline.py:224), which leaves
\* the .part whole and every intermediate beside it.
ClearsIntermediates ==
    pc = "report" /\ ~opts.noCleanup /\ ~spoiled /\ wrote # {} =>
        \/ outcome = "error" /\ part[Stem] = cur
        \/ /\ wrote \cap left[Stem] = {}
           /\ part[Stem] = Missing
           /\ WorkDirEmpty => ~dir[Stem]

\* The user is asked about new keys once in a process at most, however many
\* inputs lack a key: after a no the store stops asking, and after a yes it
\* has all that upstream has.
AsksOnce == asked <= 1

\* A keys.json that exists, be it one that does not parse, is overwritten only
\* after a yes to the question asked about it: a no, a cancel and a hang-up leave
\* it alone, and so does the bootstrap (src/resources/keys.py:146).
OverwriteNeedsYes ==
    [][pc # "saving" /\ (pc' = "saving" \/ keysDisk' # keysDisk) =>
           keysDisk = "absent" \/ asked - 1 \in consent]_vars

\* A process that is not killed ends: no checkpoint, question, cleanup or
\* hang-up of the GUI leaves it waiting for ever.
Ends == Alive ~> ~Alive

-----------------------------------------------------------------------------
Phase ==
    IF pc = "off" THEN "off"
    ELSE IF pc # "done" THEN "on"
    ELSE IF failures > 0 THEN "failed" ELSE "succeeded"

Running == IF pc \in {"off", "done", "next"} THEN 0 ELSE cur

Promise == INSTANCE Jobs WITH
    phase <- Phase, running <- Running,
    published <- Running # 0 /\ outcome = "ok"

\* The batch keeps the promise of Jobs.
KeepsPromise == Promise!Spec
=============================================================================
