------------------------------ MODULE Reporter ------------------------------
(***************************************************************************)
(* The command channel of `JsonReporter` (src/utils/reporter/json.py) on a  *)
(* pipe: the GUI writes one JSON command per line, and the engine reads     *)
(* them only when it asks a question or passes a checkpoint.                *)
(*                                                                          *)
(* Bytes are abstracted to whole commands.  The pipe and `stdin_buf` are    *)
(* one queue here, `lines`, because every reader takes from `stdin_buf`     *)
(* first and refills it from the pipe: a line is read in the order it was   *)
(* written wherever it waits.                                               *)
(***************************************************************************)
EXTENDS Naturals, Sequences

CONSTANTS
    Stems,          \* names of the inputs; the commands and the events carry them
    None,           \* Python's None
    HangupCancels   \* hangup_cancels: TRUE only on the pipe of a key capture

ASSUME NoneAssumption == None \notin Stems
ASSUME HangupAssumption == HangupCancels \in BOOLEAN

VARIABLES
    lines,          \* commands written by the GUI and not parsed yet
    gone,           \* the GUI closed its end of the pipe
    piped,          \* pipe_fd is not None
    cancelled,      \* self.cancelled
    skip_file,      \* self.skip_file
    current_file,   \* self.current_file
    asked           \* question_counter: questions emitted so far

reporterVars == <<lines, gone, piped, cancelled, skip_file, current_file, asked>>

Cancel == [type |-> "cancel"]
Skip(s) == [type |-> "skip", file |-> s]
Answer(q, v) == [type |-> "answer", id |-> q, value |-> v]

Command ==
    [type : {"cancel"}]
        \cup [type : {"skip"}, file : Stems]
        \cup [type : {"answer"}, id : Nat, value : BOOLEAN]

IsSkip(c) == c.type = "skip"

ReporterTypeOK ==
    /\ lines \in Seq(Command)
    /\ gone \in BOOLEAN
    /\ piped \in BOOLEAN
    /\ cancelled \in BOOLEAN
    /\ skip_file \in Stems \cup {None}
    /\ current_file \in Stems \cup {None}
    /\ asked \in Nat

-----------------------------------------------------------------------------
\* drain_commands: nothing is read after a cancel or on a closed pipe, and
\* otherwise every waiting line is parsed, the ones behind a cancel too.
Drains == piped /\ ~cancelled

DrainedCancel ==
    \/ cancelled
    \/ Drains /\ \E i \in DOMAIN lines : lines[i] = Cancel
    \/ Drains /\ gone /\ HangupCancels

\* A later skip takes the place of an earlier one.
LastSkip ==
    {i \in DOMAIN lines :
        IsSkip(lines[i]) /\ \A j \in i + 1 .. Len(lines) : ~IsSkip(lines[j])}

DrainedSkip ==
    IF Drains /\ LastSkip # {}
    THEN lines[CHOOSE i \in LastSkip : TRUE].file
    ELSE skip_file

DrainQueue ==
    /\ lines' = IF Drains THEN <<>> ELSE lines
    /\ piped' = (piped /\ (cancelled \/ ~gone))
    /\ cancelled' = DrainedCancel

\* cancel_requested: the answer to the caller is cancelled'.
CancelRequested ==
    /\ DrainQueue
    /\ skip_file' = DrainedSkip
    /\ UNCHANGED <<gone, current_file, asked>>

\* skip_requested: a skip is used up by this call, whether or not it names
\* the current file.  The answer to the caller is SkipWanted.
MutantSkipWanted == DrainedSkip # None  \* whatever input it names
SkipWanted == DrainedSkip # None /\ DrainedSkip = current_file

SkipRequested ==
    /\ DrainQueue
    /\ skip_file' = None
    /\ UNCHANGED <<gone, current_file, asked>>

-----------------------------------------------------------------------------
\* event("job_start", file=s)
JobStartEvent(s) ==
    /\ current_file' = s
    /\ UNCHANGED <<lines, gone, piped, cancelled, skip_file, asked>>

\* ask: a cancelled session asks nothing and takes the default.
AskEmit ==
    /\ ~cancelled
    /\ asked' = asked + 1
    /\ UNCHANGED <<lines, gone, piped, cancelled, skip_file, current_file>>

\* A loop that looks for the answer only, and loses a skip.
MutantAskTake ==
    /\ lines # <<>>
    /\ lines' = Tail(lines)
    /\ cancelled' = (cancelled \/ Head(lines) = Cancel)
    /\ UNCHANGED <<skip_file, gone, piped, current_file, asked>>

\* One turn of ask's loop: the next line is parsed and given to take_command.
AskTake ==
    /\ lines # <<>>
    /\ lines' = Tail(lines)
    /\ cancelled' = (cancelled \/ Head(lines) = Cancel)
    /\ skip_file' = IF IsSkip(Head(lines)) THEN Head(lines).file ELSE skip_file
    /\ UNCHANGED <<gone, piped, current_file, asked>>

\* The line ends the loop with `value`: a cancel with the default, which is
\* False at its only caller on this channel, or the answer to this question.
AskReturns(value) ==
    \/ Head(lines) = Cancel /\ value = FALSE
    \/ Head(lines) = Answer(asked - 1, value)

\* A loop that reads on at the end of the stream.
MutantAskEnd ==
    /\ lines = <<>>
    /\ cancelled
    /\ UNCHANGED reporterVars

\* next_line found the end of the stream, and ask takes the default.
AskEnd ==
    /\ lines = <<>>
    /\ gone
    /\ UNCHANGED reporterVars

-----------------------------------------------------------------------------
\* The GUI, external: it writes a command or closes its end.
Send(c) ==
    /\ ~gone
    /\ lines' = Append(lines, c)
    /\ UNCHANGED <<gone, piped, cancelled, skip_file, current_file, asked>>

HangUp ==
    /\ ~gone
    /\ gone' = TRUE
    /\ UNCHANGED <<lines, piped, cancelled, skip_file, current_file, asked>>

\* __init__: a new process opens a new pipe.
ReporterStart ==
    /\ lines' = <<>> /\ gone' = FALSE /\ piped' = TRUE
    /\ cancelled' = FALSE /\ skip_file' = None /\ current_file' = None
    /\ asked' = 0

ReporterInit ==
    /\ lines = <<>> /\ gone = FALSE /\ piped = TRUE
    /\ cancelled = FALSE /\ skip_file = None /\ current_file = None
    /\ asked = 0
=============================================================================
