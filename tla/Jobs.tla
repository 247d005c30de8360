-------------------------------- MODULE Jobs --------------------------------
(***************************************************************************)
(* What a batch promises to whoever started it, free of its steps: every    *)
(* input gets one outcome, in order; an output appears in one piece, only   *)
(* while its own input is being worked on, and exactly when that input is   *)
(* about to be reported as done; a cancel is the last outcome; the exit     *)
(* status tells whether an input failed.  A killed process keeps all this   *)
(* for the outcomes it got to report, and the outputs stay.                 *)
(***************************************************************************)
EXTENDS Naturals

CONSTANTS
    NFiles,         \* inputs are 1 .. NFiles, in the order of the batch
    Stems,
    StemOf          \* the name of each input, and of its output

Files == 1 .. NFiles

\* A place is where an output goes: in the work directory or (flat) above it.
Places == BOOLEAN \X Stems

\* What a place holds: nothing, the output of an input, or an output that was
\* there before.
Missing == 0
Earlier == NFiles + 1
Whole == 0 .. NFiles + 1

VARIABLES
    phase,          \* the process: "off", "on", "succeeded" or "failed"
    running,        \* the input being worked on, 0 between two
    published,      \* the running input's output is in its place
    out,            \* the outcome of each input in this process
    shelf           \* what each place holds

jobsVars == <<phase, running, published, out, shelf>>

Outcomes == {"ok", "exists", "no_key", "requested", "error", "cancelled"}

Fresh == [f \in Files |-> "none"]

Init ==
    /\ phase = "off"
    /\ running = 0
    /\ published = FALSE
    /\ out = Fresh
    /\ shelf \in [Places -> {Missing, Earlier}]

Begin ==
    /\ phase # "on"
    /\ phase' = "on"
    /\ running' = 0
    /\ published' = FALSE
    /\ out' = Fresh
    /\ UNCHANGED shelf

Start(f) ==
    /\ phase = "on" /\ running = 0
    /\ out[f] = "none"
    /\ \A g \in 1 .. f - 1 : out[g] \notin {"none", "cancelled"}
    /\ running' = f
    /\ published' = FALSE
    /\ UNCHANGED <<phase, out, shelf>>

Publish(place) ==
    /\ phase = "on" /\ running # 0
    /\ ~published
    /\ place[2] = StemOf[running]
    /\ published' = TRUE
    /\ shelf' = [shelf EXCEPT ![place] = running]
    /\ UNCHANGED <<phase, running, out>>

Finish(outcome) ==
    /\ phase = "on" /\ running # 0
    /\ published <=> outcome = "ok"
    /\ outcome = "exists" =>
           \E flat \in BOOLEAN : shelf[<<flat, StemOf[running]>>] # Missing
    /\ out' = [out EXCEPT ![running] = outcome]
    /\ running' = 0
    /\ published' = FALSE
    /\ UNCHANGED <<phase, shelf>>

Exit ==
    /\ phase = "on" /\ running = 0
    /\ \/ \A f \in Files : out[f] # "none"
       \/ \E f \in Files : out[f] = "cancelled"
    /\ phase' = IF \E f \in Files : out[f] = "error" THEN "failed" ELSE "succeeded"
    /\ UNCHANGED <<running, published, out, shelf>>

\* The process is killed.
Kill ==
    /\ phase = "on"
    /\ phase' = "off"
    /\ running' = 0
    /\ published' = FALSE
    /\ UNCHANGED <<out, shelf>>

Next ==
    \/ Begin
    \/ \E f \in Files : Start(f)
    \/ \E place \in Places : Publish(place)
    \/ \E outcome \in Outcomes : Finish(outcome)
    \/ Exit
    \/ Kill

Spec == Init /\ [][Next]_jobsVars
=============================================================================
