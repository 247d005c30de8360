---------------------------- MODULE LegacyCapture ----------------------------
(***************************************************************************)
(* The capture back end for Windows 10 (src/capture/pktmon_legacy.py): one  *)
(* action per call that LegacyCapture makes into Windows.  The driver, its  *)
(* filters and the ETW session are Windows' own: there is one of each, they *)
(* outlive a process that dies, and every process that captures reaches     *)
(* them by name.  Ctrl+C within __init__ or close leaves what Kill leaves.  *)
(***************************************************************************)
EXTENDS FiniteSets, Integers

CONSTANTS
    Procs,          \* processes that may capture
    Ports,          \* of the game, in the order of their numbers
    MaxStarts,      \* bound: captures that each process starts
    MaxFaults       \* bound: kills and failed calls in all

\* Who a capture or a session is of: a process's capture, nobody, or an
\* earlier capture or another tool that left it running.
Nobody == "nobody"
Left == "left"
OtherPort == 0

ASSUME LegacyAssumption ==
    /\ Procs \cap {Nobody, Left} = {}
    /\ Ports \subseteq Nat \ {OtherPort}
    /\ MaxStarts \in Nat /\ MaxFaults \in Nat

VARIABLES
    \* of Windows
    driver,         \* whose capture the driver runs
    filters,        \* the ports that the driver has filters for
    session,        \* who started the session by the name of SESSION_NAME
    provider,       \* the driver's events go to that session
    attached,       \* whose trace is of the session that has the name now
    \* of each LegacyCapture
    pc,             \* the call it makes next
    toFilter,       \* ports that start_driver has not got to
    capturing, handle, trace, closing, failed,
    thread,         \* the one that runs consume
    \* bounds, and notes for the properties
    starts, faults,
    note,           \* what happened to a capture since its process began it
    cut             \* a process stopped the driver and then not the session

osVars == <<driver, filters, session, provider, attached>>
captureVars == <<toFilter, capturing, handle, trace, closing>>
threadVars == <<failed, thread>>
boundVars == <<starts, faults, cut>>
legacyVars == <<osVars, captureVars, threadVars, boundVars, pc, note>>

Starting == {"status", "stop", "unfilter", "unsession", "start_trace", "enable", "open_trace",
             "filter", "start"}
Closing == {"c_stop", "c_unfilter", "c_provider", "c_trace", "c_join", "c_session"}
Gone == {"off", "closed", "killed"}

\* It may have stopped the driver, and has the session still to stop.
TakingOver(p) ==
    pc[p] \in {"unfilter", "unsession"} \/ (handle[p] /\ pc[p] \in Closing \ {"c_stop"})

LegacyInit ==
    /\ driver \in {Nobody, Left} /\ filters \in {{}, {OtherPort}}
    /\ session = Nobody /\ provider = FALSE /\ attached = {}
    /\ pc = [p \in Procs |-> "off"]
    /\ toFilter = [p \in Procs |-> Ports]
    /\ capturing = [p \in Procs |-> FALSE]
    /\ handle = [p \in Procs |-> FALSE]
    /\ trace = [p \in Procs |-> FALSE]
    /\ closing = [p \in Procs |-> FALSE]
    /\ failed = [p \in Procs |-> FALSE]
    /\ thread = [p \in Procs |-> "none"]
    /\ starts = [p \in Procs |-> 0] /\ faults = 0
    /\ note = [p \in Procs |-> {}]
    /\ cut = FALSE

\* Process p makes the call it is at: one that every other capture may feel ...
Shared(p, label) ==
    /\ pc[p] = label
    /\ note' = [q \in Procs |-> IF q = p THEN note[q] ELSE note[q] \cup {"disturbed"}]
    /\ UNCHANGED starts

\* ... or one that is by its own handle, or only reads.
Own(p, label) ==
    /\ pc[p] = label
    /\ UNCHANGED <<starts, note>>

Goto(p, label) == pc' = [pc EXCEPT ![p] = label]
Fine == UNCHANGED <<faults, cut>>
Fault == faults < MaxFaults /\ faults' = faults + 1

-----------------------------------------------------------------------------
\* __init__ begins; what an earlier capture of the process left is not this one's.
Begin(p) ==
    /\ pc[p] \in Gone
    /\ starts[p] < MaxStarts
    /\ starts' = [starts EXCEPT ![p] = @ + 1]
    /\ toFilter' = [toFilter EXCEPT ![p] = Ports]
    /\ capturing' = [capturing EXCEPT ![p] = FALSE]
    /\ handle' = [handle EXCEPT ![p] = FALSE]
    /\ trace' = [trace EXCEPT ![p] = FALSE]
    /\ closing' = [closing EXCEPT ![p] = FALSE]
    /\ failed' = [failed EXCEPT ![p] = FALSE]
    /\ thread' = [thread EXCEPT ![p] = "none"]
    /\ note' = [note EXCEPT ![p] = {}]
    /\ driver' = IF driver = p THEN Left ELSE driver
    /\ session' = IF session = p THEN Left ELSE session
    /\ Goto(p, "status") /\ Fine
    /\ UNCHANGED <<filters, provider, attached>>

\* reset: PktmonGetStatus ...
Status(p) ==
    /\ Own(p, "status")
    /\ Goto(p, IF driver # Nobody THEN "stop" ELSE "unfilter") /\ Fine
    /\ UNCHANGED <<osVars, captureVars, threadVars>>

\* ... PktmonStop, if a capture was running then ...
StopDriver(p) ==
    /\ Shared(p, "stop")
    /\ driver' = Nobody
    /\ Goto(p, "unfilter") /\ Fine
    /\ UNCHANGED <<filters, session, provider, attached, captureVars, threadVars>>

\* ... PktmonRemoveAllFilters ...
Unfilter(p) ==
    /\ Shared(p, "unfilter")
    /\ filters' = {}
    /\ Goto(p, "unsession") /\ Fine
    /\ UNCHANGED <<driver, session, provider, attached, captureVars, threadVars>>

\* The session that a crash left is not stopped.
MutantUnsession(p) ==
    /\ Shared(p, "unsession")
    /\ Goto(p, "start_trace") /\ Fine
    /\ UNCHANGED <<osVars, captureVars, threadVars>>

\* ... and stop_session, which ends the traces of whoever is attached to it.
Unsession(p) ==
    /\ Shared(p, "unsession")
    /\ session' = Nobody /\ provider' = FALSE /\ attached' = {}
    /\ Goto(p, "start_trace") /\ Fine
    /\ UNCHANGED <<driver, filters, captureVars, threadVars>>

\* start_trace: StartTraceW ...
StartTrace(p) ==
    /\ Shared(p, "start_trace")
    /\ session = Nobody
    /\ session' = p /\ handle' = [handle EXCEPT ![p] = TRUE]
    /\ Goto(p, "enable") /\ Fine
    /\ UNCHANGED <<driver, filters, provider, attached, toFilter, capturing, trace, closing,
                   threadVars>>

\* ... EnableTraceEx2 ...
Enable(p) ==
    /\ Own(p, "enable")
    /\ session = p
    /\ provider' = TRUE
    /\ Goto(p, "open_trace") /\ Fine
    /\ UNCHANGED <<driver, filters, session, attached, captureVars, threadVars>>

\* ... OpenTraceW, by the name, of whoever's session that is by now, and the
\* start of the thread.  Without a session it may succeed too, with nothing to read.
OpenTrace(p) ==
    /\ Own(p, "open_trace")
    /\ attached' = IF session = Nobody THEN attached ELSE attached \cup {p}
    /\ trace' = [trace EXCEPT ![p] = TRUE]
    /\ thread' = [thread EXCEPT ![p] = "consume"]
    /\ Goto(p, "filter") /\ Fine
    /\ UNCHANGED <<driver, filters, session, provider, toFilter, capturing, handle, closing, failed>>

\* start_driver: PktmonAddFilter for each port ...
AddFilter(p) ==
    /\ Shared(p, "filter")
    /\ \E port \in toFilter[p] :
           /\ \A other \in toFilter[p] : port <= other
           /\ filters' = filters \cup {port}
           /\ toFilter' = [toFilter EXCEPT ![p] = @ \ {port}]
    /\ Goto(p, IF toFilter'[p] = {} THEN "start" ELSE "filter") /\ Fine
    /\ UNCHANGED <<driver, session, provider, attached, capturing, handle, trace, closing,
                   threadVars>>

\* ... and PktmonStart.
StartDriver(p) ==
    /\ Shared(p, "start")
    /\ driver = Nobody
    /\ driver' = p /\ capturing' = [capturing EXCEPT ![p] = TRUE]
    /\ Goto(p, "open") /\ Fine
    /\ UNCHANGED <<filters, session, provider, attached, toFilter, handle, trace, closing,
                   threadVars>>

\* A failed start raises without closing.
MutantLeave(p) ==
    /\ Goto(p, IF pc[p] = "open" THEN "c_stop" ELSE "closed")
    /\ closing' = [closing EXCEPT ![p] = TRUE]

Leave(p) ==
    /\ Goto(p, "c_stop")
    /\ closing' = [closing EXCEPT ![p] = TRUE]

\* A call of __init__ fails where Windows refuses it for what another process
\* did, and close follows.
Refused(p) ==
    /\ \/ pc[p] = "stop" /\ driver = Nobody
       \/ pc[p] = "start_trace" /\ session # Nobody
       \/ pc[p] = "enable" /\ session # p
       \/ pc[p] = "open_trace" /\ session = Nobody
       \/ pc[p] = "start" /\ driver # Nobody
    /\ note' = [note EXCEPT ![p] = @ \cup {"refused"}]
    /\ Leave(p) /\ Fine
    /\ UNCHANGED <<osVars, toFilter, capturing, handle, trace, threadVars, starts>>

\* It fails for a reason of Windows' own.
CallFails(p) ==
    /\ pc[p] \in Starting
    /\ note' = [note EXCEPT ![p] = @ \cup {"start_failed"}]
    /\ cut' = (cut \/ TakingOver(p))
    /\ Leave(p) /\ Fault
    /\ UNCHANGED <<osVars, toFilter, capturing, handle, trace, threadVars, starts>>

\* The capture of run ends, by a cancel or by failed.
Close(p) ==
    /\ Own(p, "open")
    /\ Leave(p) /\ Fine
    /\ UNCHANGED <<osVars, toFilter, capturing, handle, trace, threadVars>>

-----------------------------------------------------------------------------
\* A call of close fails, which is suppressed or not looked at.
Ignored(p) ==
    /\ Fault
    /\ note' = [note EXCEPT ![p] = @ \cup {"close_failed"}]
    /\ UNCHANGED starts

\* close: PktmonStop, when __init__ had started the driver ...
CloseDriver(p) ==
    /\ \/ /\ Shared(p, "c_stop")
          /\ driver' = IF capturing[p] THEN Nobody ELSE driver
          /\ Fine
       \/ /\ pc[p] = "c_stop" /\ capturing[p]
          /\ Ignored(p)
          /\ UNCHANGED <<driver, cut>>
    /\ capturing' = [capturing EXCEPT ![p] = FALSE]
    /\ Goto(p, "c_unfilter")
    /\ UNCHANGED <<filters, session, provider, attached, toFilter, handle, trace, closing,
                   threadVars>>

\* ... PktmonRemoveAllFilters in any case ...
CloseFilters(p) ==
    /\ \/ Shared(p, "c_unfilter") /\ filters' = {} /\ Fine
       \/ pc[p] = "c_unfilter" /\ Ignored(p) /\ UNCHANGED <<filters, cut>>
    /\ Goto(p, IF handle[p] THEN "c_provider" ELSE "closed")
    /\ UNCHANGED <<driver, session, provider, attached, captureVars, threadVars>>

\* ... EnableTraceEx2 again, by the handle ...
CloseProvider(p) ==
    /\ \/ Own(p, "c_provider") /\ provider' = (provider /\ session # p) /\ Fine
       \/ pc[p] = "c_provider" /\ Ignored(p) /\ UNCHANGED <<provider, cut>>
    /\ Goto(p, IF trace[p] THEN "c_trace" ELSE "c_session")
    /\ UNCHANGED <<driver, filters, session, attached, captureVars, threadVars>>

\* ... CloseTrace ...
CloseTrace(p) ==
    /\ Own(p, "c_trace")
    /\ trace' = [trace EXCEPT ![p] = FALSE]
    /\ attached' = attached \ {p}
    /\ Goto(p, "c_join") /\ Fine
    /\ UNCHANGED <<driver, filters, session, provider, toFilter, capturing, handle, closing,
                   threadVars>>

\* ... the wait for the thread, which is over after five seconds ...
Join(p) ==
    /\ Own(p, "c_join")
    /\ Goto(p, "c_session") /\ Fine
    /\ UNCHANGED <<osVars, captureVars, threadVars>>

\* The session is stopped only if it is this capture's own.
MutantCloseSession(p) ==
    /\ \/ /\ Shared(p, "c_session")
          /\ session' = (IF session = p THEN Nobody ELSE session)
          /\ provider' = (provider /\ session # p)
          /\ attached' = (IF session = p THEN {} ELSE attached)
          /\ Fine
       \/ /\ pc[p] = "c_session" /\ Ignored(p) /\ cut' = TRUE
          /\ UNCHANGED <<session, provider, attached>>
    /\ handle' = [handle EXCEPT ![p] = FALSE]
    /\ Goto(p, "closed")
    /\ UNCHANGED <<driver, filters, toFilter, capturing, trace, closing, threadVars>>

\* ... and stop_session, by the name.
CloseSession(p) ==
    /\ \/ /\ Shared(p, "c_session")
          /\ session' = Nobody /\ provider' = FALSE /\ attached' = {}
          /\ Fine
       \/ /\ pc[p] = "c_session" /\ Ignored(p) /\ cut' = TRUE
          /\ UNCHANGED <<session, provider, attached>>
    /\ handle' = [handle EXCEPT ![p] = FALSE]
    /\ Goto(p, "closed")
    /\ UNCHANGED <<driver, filters, toFilter, capturing, trace, closing, threadVars>>

-----------------------------------------------------------------------------
\* ProcessTrace returns once its trace is closed, the session it is attached to is
\* gone, be it another process's, or buffer has seen closing; consume looks at it ...
ProcessTraceReturns(p) ==
    /\ thread[p] = "consume"
    /\ p \notin attached \/ closing[p]
    /\ thread' = [thread EXCEPT ![p] = IF closing[p] THEN "done" ELSE "returned"]
    /\ UNCHANGED <<osVars, captureVars, boundVars, failed, pc, note>>

\* ... and sets failed.
ConsumeFails(p) ==
    /\ thread[p] = "returned"
    /\ thread' = [thread EXCEPT ![p] = "done"]
    /\ failed' = [failed EXCEPT ![p] = TRUE]
    /\ UNCHANGED <<osVars, captureVars, boundVars, pc, note>>

\* The process dies, or leaves __init__ or close by Ctrl+C.
Kill(p) ==
    /\ pc[p] \notin Gone
    /\ Fault
    /\ Goto(p, "killed")
    /\ thread' = [thread EXCEPT ![p] = "none"]
    /\ attached' = attached \ {p}
    /\ cut' = (cut \/ TakingOver(p))
    /\ UNCHANGED <<driver, filters, session, provider, captureVars, failed, starts, note>>

-----------------------------------------------------------------------------
Call(p) ==
    \/ Status(p) \/ StopDriver(p) \/ Unfilter(p) \/ Unsession(p)
    \/ StartTrace(p) \/ Enable(p) \/ OpenTrace(p)
    \/ AddFilter(p) \/ StartDriver(p)
    \/ Refused(p)
    \/ CloseDriver(p) \/ CloseFilters(p) \/ CloseProvider(p) \/ CloseTrace(p) \/ Join(p)
    \/ CloseSession(p)

Consume(p) == ProcessTraceReturns(p) \/ ConsumeFails(p)

LegacyNext ==
    \E p \in Procs : Begin(p) \/ Call(p) \/ CallFails(p) \/ Close(p) \/ Consume(p) \/ Kill(p)

LegacySpec == LegacyInit /\ [][LegacyNext]_legacyVars

-----------------------------------------------------------------------------
Labels == Starting \cup Closing \cup Gone \cup {"open"}

\* Every variable has its type, and the object knows what it has: a capture that
\* is open has got everything, and one that is closed has let go of everything.
TypeOK ==
    /\ driver \in Procs \cup {Nobody, Left}
    /\ filters \subseteq Ports \cup {OtherPort}
    /\ session \in Procs \cup {Nobody, Left}
    /\ provider \in BOOLEAN /\ attached \subseteq Procs
    /\ pc \in [Procs -> Labels]
    /\ toFilter \in [Procs -> SUBSET Ports]
    /\ capturing \in [Procs -> BOOLEAN] /\ handle \in [Procs -> BOOLEAN]
    /\ trace \in [Procs -> BOOLEAN] /\ closing \in [Procs -> BOOLEAN]
    /\ failed \in [Procs -> BOOLEAN]
    /\ thread \in [Procs -> {"none", "consume", "returned", "done"}]
    /\ starts \in [Procs -> 0 .. MaxStarts] /\ faults \in 0 .. MaxFaults
    /\ note \in [Procs -> SUBSET {"disturbed", "refused", "start_failed", "close_failed"}]
    /\ cut \in BOOLEAN
    /\ \A p \in Procs :
           /\ pc[p] = "open" =>
                  capturing[p] /\ handle[p] /\ trace[p] /\ toFilter[p] = {} /\ ~closing[p]
           /\ pc[p] = "closed" => ~(capturing[p] \/ handle[p] \/ trace[p]) /\ closing[p]
           /\ thread[p] # "none" => pc[p] \notin {"off", "killed"}

Hears(p) ==
    /\ driver = p /\ filters = Ports
    /\ session = p /\ provider /\ p \in attached
    /\ thread[p] = "consume"

\* Whatever a crash or another tool left, a start that no other process
\* interferes with gets the driver, with the game's ports and no others, and
\* the session; it is refused only by a failure of Windows' own (reset).
StartsClean ==
    \A p \in Procs :
        "disturbed" \notin note[p] =>
            /\ "refused" \notin note[p]
            /\ pc[p] = "open" => Hears(p) /\ ~failed[p]

\* A capture that is closed, or whose start failed, leaves neither a capture nor
\* a session of its own running, whatever other processes did meanwhile, and
\* no filters if they did nothing: unless Windows failed its close.
LeavesNothing ==
    \A p \in Procs :
        pc[p] = "closed" /\ "close_failed" \notin note[p] =>
            /\ driver # p /\ session # p
            /\ note[p] = {} => filters = {}

\* A capture that another process took the driver from has lost the session that
\* its trace is of, its own or another's, or is about to: it will be told (close and
\* reset stop the session last).  The one exception is a process that was cut short
\* in between.
DeafIsTemporary ==
    \A p \in Procs :
        pc[p] = "open" /\ driver # p /\ p \in attached =>
            cut \/ \E q \in Procs \ {p} : TakingOver(q)

\* The trace of p is of another's session, and that process is gone: nobody will
\* enable the provider for it, and nobody will stop it.
Stranded(p) ==
    p \in attached /\ (session = Left \/ \E q \in Procs \ {p} : session = q /\ pc[q] \in Gone)

\* No capture stays open and deaf without failed being set, but for two cases: a
\* takeover that was cut short, and a trace that OpenTraceW gave of the session of
\* a process that was killed.
DeafIsLoud ==
    \A p \in Procs :
        pc[p] = "open" /\ ~(driver = p /\ provider /\ p \in attached) ~>
            failed[p] \/ pc[p] # "open" \/ cut \/ Stranded(p)
=============================================================================
