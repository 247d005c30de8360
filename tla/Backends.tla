------------------------------ MODULE Backends -------------------------------
(***************************************************************************)
(* The two capture back ends behind KeyCapture.open_capture                 *)
(* (src/capture/run.py): LegacyCapture, in processes that share the driver  *)
(* of Windows 10, and Capture, whose session is one capture's own.          *)
(***************************************************************************)
EXTENDS LegacyCapture

VARIABLES
    backend,        \* the one that open_capture chooses on this Windows
    step, held, active, stream, truncation, shut, alarm, event, lost

R == INSTANCE Capture

realtimeVars == <<step, held, active, stream, truncation, shut, alarm, event, lost>>

vars == <<legacyVars, realtimeVars, backend>>

Init ==
    /\ LegacyInit /\ R!RealtimeInit
    /\ backend \in {"legacy", "realtime"}

Legacy(A) == backend = "legacy" /\ A /\ UNCHANGED <<realtimeVars, backend>>
Realtime(A) == backend = "realtime" /\ A /\ UNCHANGED <<legacyVars, backend>>

Next == Legacy(LegacyNext) \/ Realtime(R!RealtimeNext)

Spec == Init /\ [][Next]_vars

\* Windows answers every call, ETW ends a ProcessTrace whose session is gone,
\* and consume goes on then.
FairSpec ==
    /\ Spec
    /\ \A p \in Procs : WF_vars(Legacy(Call(p))) /\ WF_vars(Legacy(Consume(p)))

-----------------------------------------------------------------------------
\* failed of the Windows 11 back end is no false alarm, as it is set only for a
\* stream that ended on its own and never for one that close ended; a capture
\* that is closed, after a start that failed anywhere too, holds nothing; and
\* one that is open has all it needs, with packets that are not cut short
\* (src/capture/pktmon.py:156-167, 197, 200-212).
RealtimeSound ==
    /\ alarm => lost
    /\ step = "closed" => held = {} /\ ~active
    /\ step = "open" =>
           held = {"handle", "session", "stream"} /\ active /\ truncation = "full"
=============================================================================
