------------------------------- MODULE Capture -------------------------------
(***************************************************************************)
(* The capture back end for Windows 11 (src/capture/pktmon.py): the calls   *)
(* of Capture's __init__ and close, and the events that PktMonApi.dll       *)
(* delivers on a thread of its own meanwhile.                               *)
(***************************************************************************)
EXTENDS Sequences

VARIABLES
    step,           \* the call that the main thread makes next
    held,           \* what PktMon holds for this capture: handle, session, stream
    active,         \* its session captures
    stream,         \* of the stream: "idle", "started", "stopped"
    truncation,     \* as STREAM_STARTED gave it: "none", "full", "short"
    shut,           \* closing
    alarm,          \* failed
    event,          \* the event that the callback is at
    lost            \* the stream ended without close, kept for the properties

RealtimeInit ==
    /\ step = "initialize"
    /\ held = {} /\ active = FALSE /\ stream = "idle"
    /\ truncation = "none" /\ shut = FALSE /\ alarm = FALSE
    /\ event = "none" /\ lost = FALSE

\* The calls of __init__, and the one that follows each.
AfterCall ==
    [initialize |-> "create_session", create_session |-> "create_stream",
     create_stream |-> "attach", attach |-> "constrain", constrain |-> "activate",
     activate |-> "wait"]

\* What a call that succeeds gets.
Gets(call) ==
    CASE call = "initialize" -> {"handle"}
      [] call = "create_session" -> {"session"}
      [] call = "create_stream" -> {"stream"}
      [] OTHER -> {}

Call ==
    /\ step \in DOMAIN AfterCall
    /\ held' = held \cup Gets(step)
    /\ active' = (active \/ step = "activate")
    /\ step' = AfterCall[step]
    /\ UNCHANGED <<stream, truncation, shut, alarm, event, lost>>

MutantBeginClose ==
    /\ step' = "deactivate"
    /\ UNCHANGED shut

BeginClose ==
    /\ step' = "deactivate"
    /\ shut' = TRUE

\* A call raises the OSError of its HRESULT.
CallRaises ==
    /\ step \in DOMAIN AfterCall
    /\ BeginClose
    /\ UNCHANGED <<held, active, stream, truncation, alarm, event, lost>>

\* started.wait(2) is over, by the event or by the time, and the packets are
\* whole or the capture is refused.
Wait ==
    /\ step = "wait"
    /\ \/ truncation = "full" /\ step' = "open" /\ UNCHANGED shut
       \/ truncation # "full" /\ BeginClose
    /\ UNCHANGED <<held, active, stream, truncation, alarm, event, lost>>

\* run leaves its with block.
Leaves ==
    /\ step = "open"
    /\ BeginClose
    /\ UNCHANGED <<held, active, stream, truncation, alarm, event, lost>>

-----------------------------------------------------------------------------
\* close, for the handles that exist: PacketMonitorSetSessionActive, whose
\* failure is suppressed ...
Deactivate ==
    /\ step = "deactivate"
    /\ active' \in {active, FALSE}
    /\ "session" \notin held => UNCHANGED active
    /\ step' = "close_stream"
    /\ UNCHANGED <<held, stream, truncation, shut, alarm, event, lost>>

\* ... PacketMonitorCloseRealtimeStream, after which no event comes ...
CloseStream ==
    /\ step = "close_stream" /\ event = "none"
    /\ held' = held \ {"stream"}
    /\ step' = "close_session"
    /\ UNCHANGED <<active, stream, truncation, shut, alarm, event, lost>>

\* ... PacketMonitorCloseSessionHandle ...
CloseSessionHandle ==
    /\ step = "close_session"
    /\ held' = held \ {"session"} /\ active' = FALSE
    /\ step' = "uninitialize"
    /\ UNCHANGED <<stream, truncation, shut, alarm, event, lost>>

\* ... and PacketMonitorUninitialize.
Uninitialize ==
    /\ step = "uninitialize"
    /\ held' = held \ {"handle"}
    /\ step' = "closed"
    /\ UNCHANGED <<active, stream, truncation, shut, alarm, event, lost>>

-----------------------------------------------------------------------------
\* PktMonApi.dll calls event: the stream of an active session starts, with the
\* truncation size it takes, and stops with the session ...
Delivers(kind) ==
    /\ "stream" \in held /\ event = "none"
    /\ event' = kind
    /\ UNCHANGED <<step, held, active, truncation, shut, alarm>>

StreamStarts ==
    /\ active /\ stream = "idle"
    /\ stream' = "started"
    /\ Delivers("started")
    /\ UNCHANGED lost

StreamStops ==
    /\ stream = "started" /\ ~active
    /\ stream' = "stopped"
    /\ Delivers("stopped")
    /\ UNCHANGED lost

\* ... or on its own.
StreamBreaks ==
    /\ stream = "started"
    /\ stream' = "stopped" /\ lost' = TRUE
    /\ \/ Delivers("stopped")
       \/ Delivers("fatal")

\* The body of event.
OnStarted ==
    /\ event = "started"
    /\ truncation' \in {"full", "short"}
    /\ event' = "none"
    /\ UNCHANGED <<step, held, active, stream, shut, alarm, lost>>

OnEnded ==
    /\ event \in {"stopped", "fatal"}
    /\ alarm' = (alarm \/ event = "fatal" \/ ~shut)
    /\ event' = "none"
    /\ UNCHANGED <<step, held, active, stream, truncation, shut, lost>>

RealtimeNext ==
    \/ Call \/ CallRaises \/ Wait \/ Leaves
    \/ Deactivate \/ CloseStream \/ CloseSessionHandle \/ Uninitialize
    \/ StreamStarts \/ StreamStops \/ StreamBreaks
    \/ OnStarted \/ OnEnded
=============================================================================
