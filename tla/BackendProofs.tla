--------------------------- MODULE BackendProofs ----------------------------
(***************************************************************************)
(* The capture back ends, for any number of processes, ports, captures and  *)
(* failures: a start clears what was left, a close leaves nothing, and a    *)
(* capture is deaf to a takeover only until the session goes.               *)
(***************************************************************************)
EXTENDS Backends, TLAPS

Step(p) == Begin(p) \/ Call(p) \/ CallFails(p) \/ Close(p) \/ Consume(p) \/ Kill(p)

\* Who a variable of Windows may name.
Owners == Procs \cup {Nobody, Left}

OsTypes ==
    /\ driver \in Owners /\ session \in Owners
    /\ filters \subseteq Ports \cup {OtherPort} /\ provider \in BOOLEAN
    /\ attached \subseteq Procs

CaptureTypes ==
    /\ pc \in [Procs -> Labels]
    /\ toFilter \in [Procs -> SUBSET Ports]
    /\ capturing \in [Procs -> BOOLEAN] /\ handle \in [Procs -> BOOLEAN]
    /\ trace \in [Procs -> BOOLEAN] /\ closing \in [Procs -> BOOLEAN]

ThreadTypes ==
    /\ failed \in [Procs -> BOOLEAN]
    /\ thread \in [Procs -> {"none", "consume", "returned", "done"}]

BoundTypes ==
    starts \in [Procs -> 0 .. MaxStarts] /\ faults \in 0 .. MaxFaults

CutType == cut \in BOOLEAN

NoteTypes == note \in [Procs -> SUBSET {"disturbed", "refused", "start_failed", "close_failed"}]

Types == OsTypes /\ CaptureTypes /\ ThreadTypes /\ BoundTypes /\ CutType /\ NoteTypes

\* The calls before the session is this capture's.
Early == {"status", "stop", "unfilter", "unsession", "start_trace"}

\* What the object has got, by the call that it makes next.
Place(p) ==
    /\ pc[p] \in Starting => ~capturing[p] /\ ~closing[p]
    /\ pc[p] = "open" => capturing[p] /\ ~closing[p]
    /\ pc[p] \in Closing \cup {"closed"} => closing[p]
    /\ pc[p] \in (Closing \ {"c_stop"}) \cup {"closed"} => ~capturing[p]
    /\ pc[p] \in Early \cup {"closed"} => ~handle[p]
    /\ pc[p] \in {"enable", "open_trace", "filter", "start", "open", "c_provider", "c_trace",
                  "c_join", "c_session"} => handle[p]
    /\ pc[p] \in Early \cup {"enable", "open_trace", "c_join", "c_session", "closed"} => ~trace[p]
    /\ pc[p] \in {"filter", "start", "open", "c_trace"} => trace[p]
    /\ trace[p] \/ capturing[p] => handle[p]

\* The ports still to add, and the thread.
Progress(p) ==
    /\ pc[p] \in Early \cup {"enable", "open_trace"} => toFilter[p] = Ports
    /\ pc[p] \in {"start", "open"} => toFilter[p] = {}
    /\ pc[p] \in Early \cup {"enable", "open_trace", "off", "killed"} => thread[p] = "none"
    /\ pc[p] \in Starting \cup {"open"} /\ thread[p] # "done" => ~failed[p]

Places == \A p \in Procs : Place(p) /\ Progress(p)

LEMMA TypeParts == ASSUME Types, Places PROVE TypeOK
BY DEF Types, OsTypes, CaptureTypes, ThreadTypes, BoundTypes, CutType, NoteTypes, Places, Place, Progress,
   TypeOK, Owners, Early, Starting, Closing
-----------------------------------------------------------------------------
\* What a step of p may change for another process q: it can take the driver or
\* the session from q, which is noted, and not give them to it.
Frame(q) ==
    /\ pc'[q] = pc[q] /\ toFilter'[q] = toFilter[q]
    /\ capturing'[q] = capturing[q] /\ handle'[q] = handle[q] /\ trace'[q] = trace[q]
    /\ closing'[q] = closing[q] /\ failed'[q] = failed[q] /\ thread'[q] = thread[q]

NotesGrow(q) == note'[q] = note[q] \/ note'[q] = note[q] \cup {"disturbed"}

NothingGiven(q) ==
    /\ driver' = q => driver = q
    /\ session' = q => session = q
    /\ q \in attached' => q \in attached

Undisturbed(q) ==
    "disturbed" \notin note'[q] =>
        /\ driver = q => driver' = q
        /\ driver = Nobody <=> driver' = Nobody
        /\ session = q => session' = q /\ (provider => provider')
        /\ session = Nobody <=> session' = Nobody
        /\ q \in attached => q \in attached'
        /\ filters' = filters

LEMMA FrameHolds ==
    ASSUME Types, NEW p \in Procs, Step(p), NEW q \in Procs \ {p}
    PROVE  Frame(q)
<1> USE DEF Types, CaptureTypes, ThreadTypes, Frame, Goto, Own, Shared, Leave, captureVars, threadVars
<1>1. CASE Begin(p) \/ Close(p) \/ Kill(p) \/ CallFails(p) \/ Refused(p)
  BY <1>1 DEF Begin, Close, Kill, CallFails, Refused
<1>2. CASE Consume(p)
  BY <1>2 DEF Consume, ProcessTraceReturns, ConsumeFails
<1>3. CASE Status(p) \/ StopDriver(p) \/ Unfilter(p) \/ Unsession(p)
  BY <1>3 DEF Status, StopDriver, Unfilter, Unsession
<1>4. CASE StartTrace(p) \/ Enable(p) \/ OpenTrace(p)
  BY <1>4 DEF StartTrace, Enable, OpenTrace
<1>5. CASE AddFilter(p) \/ StartDriver(p)
  BY <1>5 DEF AddFilter, StartDriver
<1>6. CASE CloseDriver(p) \/ CloseFilters(p) \/ CloseProvider(p)
  BY <1>6 DEF CloseDriver, CloseFilters, CloseProvider
<1>7. CASE CloseTrace(p) \/ Join(p) \/ CloseSession(p)
  BY <1>7 DEF CloseTrace, Join, CloseSession
<1> QED BY <1>1, <1>2, <1>3, <1>4, <1>5, <1>6, <1>7 DEF Step, Call

LEMMA NotesHold ==
    ASSUME Types, NEW p \in Procs, Step(p), NEW q \in Procs \ {p}
    PROVE  NotesGrow(q) /\ NothingGiven(q) /\ Undisturbed(q)
<1> USE LegacyAssumption
    DEF Types, NoteTypes, OsTypes, Owners, NotesGrow, NothingGiven, Undisturbed, Own, Shared, Ignored,
        osVars, boundVars
<1>1. CASE Close(p) \/ Kill(p)
  BY <1>1 DEF Close, Kill
<1>8. CASE CallFails(p) \/ Refused(p)
  BY <1>8 DEF CallFails, Refused
<1>9. CASE Begin(p)
  <2>1. note'[q] = note[q] /\ UNCHANGED <<filters, provider, attached>>
    BY <1>9 DEF Begin
  <2>2. /\ driver' = IF driver = p THEN Left ELSE driver
        /\ session' = IF session = p THEN Left ELSE session
    BY <1>9 DEF Begin
  <2>3. q # Left /\ p # Nobody /\ Left # Nobody
    BY LegacyAssumption DEF Left, Nobody
  <2> QED BY <2>1, <2>2, <2>3
<1>2. CASE Consume(p)
  BY <1>2 DEF Consume, ProcessTraceReturns, ConsumeFails
<1>3. CASE Status(p) \/ StopDriver(p) \/ Unfilter(p) \/ Unsession(p)
  BY <1>3 DEF Status, StopDriver, Unfilter, Unsession
<1>4. CASE StartTrace(p) \/ Enable(p) \/ OpenTrace(p)
  BY <1>4 DEF StartTrace, Enable, OpenTrace
<1>5. CASE AddFilter(p) \/ StartDriver(p)
  BY <1>5 DEF AddFilter, StartDriver
<1>6. CASE CloseDriver(p) \/ CloseFilters(p) \/ CloseProvider(p)
  BY <1>6 DEF CloseDriver, CloseFilters, CloseProvider
<1>7. CASE CloseTrace(p) \/ Join(p) \/ CloseSession(p)
  BY <1>7 DEF CloseTrace, Join, CloseSession
<1> QED BY <1>1, <1>2, <1>3, <1>4, <1>5, <1>6, <1>7, <1>8, <1>9 DEF Step, Call
-----------------------------------------------------------------------------
\* One step of one process keeps the types.
LEMMA OsTypesKept == ASSUME Types, NEW p \in Procs, Step(p) PROVE OsTypes'
<1> USE DEF Types, OsTypes, Owners, osVars, Own, Shared
<1>1. CASE Begin(p)
  BY <1>1 DEF Begin
<1>2. CASE Close(p) \/ Kill(p)
  BY <1>2 DEF Close, Kill
<1>3. CASE CallFails(p) \/ Refused(p)
  BY <1>3 DEF CallFails, Refused
<1>4. CASE Consume(p)
  BY <1>4 DEF Consume, ProcessTraceReturns, ConsumeFails
<1>5. CASE Status(p) \/ StopDriver(p)
  BY <1>5 DEF Status, StopDriver
<1>6. CASE Unfilter(p) \/ Unsession(p)
  BY <1>6 DEF Unfilter, Unsession
<1>7. CASE StartTrace(p) \/ Enable(p) \/ OpenTrace(p)
  BY <1>7 DEF StartTrace, Enable, OpenTrace
<1>8. CASE AddFilter(p)
  <2>1. toFilter[p] \subseteq Ports
    BY DEF CaptureTypes
  <2> QED BY <1>8, <2>1 DEF AddFilter
<1>9. CASE StartDriver(p)
  BY <1>9 DEF StartDriver
<1>10. CASE CloseDriver(p)
  BY <1>10 DEF CloseDriver
<1>11. CASE CloseFilters(p)
  BY <1>11 DEF CloseFilters
<1>12. CASE CloseProvider(p)
  BY <1>12 DEF CloseProvider
<1>13. CASE CloseTrace(p) \/ Join(p)
  BY <1>13 DEF CloseTrace, Join
<1>14. CASE CloseSession(p)
  BY <1>14 DEF CloseSession
<1> QED
  BY <1>1, <1>2, <1>3, <1>4, <1>5, <1>6, <1>7, <1>8, <1>9, <1>10, <1>11, <1>12, <1>13, <1>14
     DEF Step, Call

LEMMA CaptureTypesKept == ASSUME Types, NEW p \in Procs, Step(p) PROVE CaptureTypes'
<1> USE DEF Types, CaptureTypes, captureVars, Own, Shared, Goto, Leave, Labels, Starting, Closing, Gone
<1>1. CASE Begin(p)
  BY <1>1 DEF Begin
<1>2. CASE Close(p) \/ Kill(p)
  BY <1>2 DEF Close, Kill
<1>3. CASE CallFails(p) \/ Refused(p)
  BY <1>3 DEF CallFails, Refused
<1>4. CASE Consume(p)
  BY <1>4 DEF Consume, ProcessTraceReturns, ConsumeFails
<1>5. CASE Status(p) \/ StopDriver(p)
  BY <1>5 DEF Status, StopDriver
<1>6. CASE Unfilter(p) \/ Unsession(p)
  BY <1>6 DEF Unfilter, Unsession
<1>7. CASE StartTrace(p) \/ Enable(p) \/ OpenTrace(p)
  BY <1>7 DEF StartTrace, Enable, OpenTrace
<1>8. CASE AddFilter(p)
  BY <1>8 DEF AddFilter
<1>9. CASE StartDriver(p)
  BY <1>9 DEF StartDriver
<1>10. CASE CloseDriver(p)
  BY <1>10 DEF CloseDriver
<1>11. CASE CloseFilters(p)
  BY <1>11 DEF CloseFilters
<1>12. CASE CloseProvider(p)
  BY <1>12 DEF CloseProvider
<1>13. CASE CloseTrace(p) \/ Join(p)
  BY <1>13 DEF CloseTrace, Join
<1>14. CASE CloseSession(p)
  BY <1>14 DEF CloseSession
<1> QED
  BY <1>1, <1>2, <1>3, <1>4, <1>5, <1>6, <1>7, <1>8, <1>9, <1>10, <1>11, <1>12, <1>13, <1>14
     DEF Step, Call

LEMMA ThreadTypesKept == ASSUME Types, NEW p \in Procs, Step(p) PROVE ThreadTypes'
<1> USE DEF Types, ThreadTypes, threadVars
<1>1. CASE Begin(p)
  BY <1>1 DEF Begin
<1>2. CASE Close(p) \/ Kill(p)
  BY <1>2 DEF Close, Kill
<1>3. CASE CallFails(p) \/ Refused(p)
  BY <1>3 DEF CallFails, Refused
<1>4. CASE Consume(p)
  BY <1>4 DEF Consume, ProcessTraceReturns, ConsumeFails
<1>5. CASE Status(p) \/ StopDriver(p)
  BY <1>5 DEF Status, StopDriver
<1>6. CASE Unfilter(p) \/ Unsession(p)
  BY <1>6 DEF Unfilter, Unsession
<1>7. CASE StartTrace(p) \/ Enable(p) \/ OpenTrace(p)
  BY <1>7 DEF StartTrace, Enable, OpenTrace
<1>8. CASE AddFilter(p)
  BY <1>8 DEF AddFilter
<1>9. CASE StartDriver(p)
  BY <1>9 DEF StartDriver
<1>10. CASE CloseDriver(p)
  BY <1>10 DEF CloseDriver
<1>11. CASE CloseFilters(p)
  BY <1>11 DEF CloseFilters
<1>12. CASE CloseProvider(p)
  BY <1>12 DEF CloseProvider
<1>13. CASE CloseTrace(p) \/ Join(p)
  BY <1>13 DEF CloseTrace, Join
<1>14. CASE CloseSession(p)
  BY <1>14 DEF CloseSession
<1> QED
  BY <1>1, <1>2, <1>3, <1>4, <1>5, <1>6, <1>7, <1>8, <1>9, <1>10, <1>11, <1>12, <1>13, <1>14
     DEF Step, Call

LEMMA BoundTypesKept == ASSUME Types, NEW p \in Procs, Step(p) PROVE BoundTypes'
<1> USE LegacyAssumption DEF Types, BoundTypes, boundVars, Fine, Fault, Own, Shared, Ignored
<1>1. CASE Begin(p)
  <2>1. starts[p] + 1 \in 0 .. MaxStarts
    BY <1>1 DEF Begin
  <2> QED BY <1>1, <2>1 DEF Begin
<1>2. CASE Close(p) \/ Kill(p)
  BY <1>2 DEF Close, Kill
<1>3. CASE CallFails(p) \/ Refused(p)
  BY <1>3 DEF CallFails, Refused
<1>4. CASE Consume(p)
  BY <1>4 DEF Consume, ProcessTraceReturns, ConsumeFails
<1>5. CASE Status(p) \/ StopDriver(p)
  BY <1>5 DEF Status, StopDriver
<1>6. CASE Unfilter(p) \/ Unsession(p)
  BY <1>6 DEF Unfilter, Unsession
<1>7. CASE StartTrace(p) \/ Enable(p) \/ OpenTrace(p)
  BY <1>7 DEF StartTrace, Enable, OpenTrace
<1>8. CASE AddFilter(p)
  BY <1>8 DEF AddFilter
<1>9. CASE StartDriver(p)
  BY <1>9 DEF StartDriver
<1>10. CASE CloseDriver(p)
  BY <1>10 DEF CloseDriver
<1>11. CASE CloseFilters(p)
  BY <1>11 DEF CloseFilters
<1>12. CASE CloseProvider(p)
  BY <1>12 DEF CloseProvider
<1>13. CASE CloseTrace(p) \/ Join(p)
  BY <1>13 DEF CloseTrace, Join
<1>14. CASE CloseSession(p)
  BY <1>14 DEF CloseSession
<1> QED
  BY <1>1, <1>2, <1>3, <1>4, <1>5, <1>6, <1>7, <1>8, <1>9, <1>10, <1>11, <1>12, <1>13, <1>14
     DEF Step, Call

LEMMA CutTypeKept == ASSUME Types, NEW p \in Procs, Step(p) PROVE CutType'
<1> USE DEF Types, CutType, boundVars, Fine
<1>1. CASE Begin(p)
  BY <1>1 DEF Begin
<1>2. CASE Close(p) \/ Kill(p)
  BY <1>2 DEF Close, Kill
<1>3. CASE CallFails(p) \/ Refused(p)
  BY <1>3 DEF CallFails, Refused
<1>4. CASE Consume(p)
  BY <1>4 DEF Consume, ProcessTraceReturns, ConsumeFails
<1>5. CASE Status(p) \/ StopDriver(p)
  BY <1>5 DEF Status, StopDriver
<1>6. CASE Unfilter(p) \/ Unsession(p)
  BY <1>6 DEF Unfilter, Unsession
<1>7. CASE StartTrace(p) \/ Enable(p) \/ OpenTrace(p)
  BY <1>7 DEF StartTrace, Enable, OpenTrace
<1>8. CASE AddFilter(p)
  BY <1>8 DEF AddFilter
<1>9. CASE StartDriver(p)
  BY <1>9 DEF StartDriver
<1>10. CASE CloseDriver(p)
  BY <1>10 DEF CloseDriver
<1>11. CASE CloseFilters(p)
  BY <1>11 DEF CloseFilters
<1>12. CASE CloseProvider(p)
  BY <1>12 DEF CloseProvider
<1>13. CASE CloseTrace(p) \/ Join(p)
  BY <1>13 DEF CloseTrace, Join
<1>14. CASE CloseSession(p)
  BY <1>14 DEF CloseSession
<1> QED
  BY <1>1, <1>2, <1>3, <1>4, <1>5, <1>6, <1>7, <1>8, <1>9, <1>10, <1>11, <1>12, <1>13, <1>14
     DEF Step, Call

LEMMA NoteTypesKept == ASSUME Types, NEW p \in Procs, Step(p) PROVE NoteTypes'
<1> USE DEF Types, NoteTypes, Own, Shared, Ignored
<1>1. CASE Begin(p)
  BY <1>1 DEF Begin
<1>2. CASE Close(p) \/ Kill(p)
  BY <1>2 DEF Close, Kill
<1>3. CASE CallFails(p) \/ Refused(p)
  BY <1>3 DEF CallFails, Refused
<1>4. CASE Consume(p)
  BY <1>4 DEF Consume, ProcessTraceReturns, ConsumeFails
<1>5. CASE Status(p) \/ StopDriver(p)
  BY <1>5 DEF Status, StopDriver
<1>6. CASE Unfilter(p) \/ Unsession(p)
  BY <1>6 DEF Unfilter, Unsession
<1>7. CASE StartTrace(p) \/ Enable(p) \/ OpenTrace(p)
  BY <1>7 DEF StartTrace, Enable, OpenTrace
<1>8. CASE AddFilter(p)
  BY <1>8 DEF AddFilter
<1>9. CASE StartDriver(p)
  BY <1>9 DEF StartDriver
<1>10. CASE CloseDriver(p)
  BY <1>10 DEF CloseDriver
<1>11. CASE CloseFilters(p)
  BY <1>11 DEF CloseFilters
<1>12. CASE CloseProvider(p)
  BY <1>12 DEF CloseProvider
<1>13. CASE CloseTrace(p) \/ Join(p)
  BY <1>13 DEF CloseTrace, Join
<1>14. CASE CloseSession(p)
  BY <1>14 DEF CloseSession
<1> QED
  BY <1>1, <1>2, <1>3, <1>4, <1>5, <1>6, <1>7, <1>8, <1>9, <1>10, <1>11, <1>12, <1>13, <1>14
     DEF Step, Call

-----------------------------------------------------------------------------
\* ... what the object has got ...
LEMMA PlaceKept == ASSUME Types, Places, NEW p \in Procs, Step(p) PROVE Place(p)'
<1> USE DEF Types, CaptureTypes, Places, Place, Goto, Own, Shared, Leave, captureVars,
            Early, Starting, Closing, Gone, Labels
<1>1. CASE Begin(p)
  BY <1>1 DEF Begin
<1>2. CASE Close(p)
  BY <1>2 DEF Close
<1>15. CASE Kill(p)
  BY <1>15 DEF Kill
<1>3. CASE CallFails(p) \/ Refused(p)
  BY <1>3 DEF CallFails, Refused
<1>4. CASE Consume(p)
  BY <1>4 DEF Consume, ProcessTraceReturns, ConsumeFails
<1>5. CASE Status(p) \/ StopDriver(p)
  BY <1>5 DEF Status, StopDriver
<1>6. CASE Unfilter(p) \/ Unsession(p)
  BY <1>6 DEF Unfilter, Unsession
<1>7. CASE StartTrace(p) \/ Enable(p) \/ OpenTrace(p)
  BY <1>7 DEF StartTrace, Enable, OpenTrace
<1>8. CASE AddFilter(p)
  BY <1>8 DEF AddFilter
<1>9. CASE StartDriver(p)
  BY <1>9 DEF StartDriver
<1>10. CASE CloseDriver(p)
  BY <1>10 DEF CloseDriver
<1>11. CASE CloseFilters(p)
  BY <1>11 DEF CloseFilters
<1>12. CASE CloseProvider(p)
  BY <1>12 DEF CloseProvider
<1>13. CASE CloseTrace(p)
  BY <1>13 DEF CloseTrace
<1>16. CASE Join(p)
  BY <1>16 DEF Join
<1>14. CASE CloseSession(p)
  BY <1>14 DEF CloseSession
<1> QED
  BY <1>1, <1>2, <1>3, <1>4, <1>5, <1>6, <1>7, <1>8, <1>9, <1>10, <1>11, <1>12, <1>13, <1>14,
     <1>15, <1>16
     DEF Step, Call

\* ... and how far its thread and its filters are.
LEMMA ProgressKept == ASSUME Types, Places, NEW p \in Procs, Step(p) PROVE Progress(p)'
<1> USE DEF Types, CaptureTypes, ThreadTypes, Places, Place, Progress, Goto, Own, Shared, Leave,
            captureVars, threadVars, Early, Starting, Closing, Gone, Labels
<1>1. CASE Begin(p)
  BY <1>1 DEF Begin
<1>2. CASE Close(p)
  BY <1>2 DEF Close
<1>15. CASE Kill(p)
  BY <1>15 DEF Kill
<1>3. CASE CallFails(p) \/ Refused(p)
  BY <1>3 DEF CallFails, Refused
<1>4. CASE Consume(p)
  BY <1>4 DEF Consume, ProcessTraceReturns, ConsumeFails
<1>5. CASE Status(p) \/ StopDriver(p)
  BY <1>5 DEF Status, StopDriver
<1>6. CASE Unfilter(p) \/ Unsession(p)
  BY <1>6 DEF Unfilter, Unsession
<1>7. CASE StartTrace(p) \/ Enable(p) \/ OpenTrace(p)
  BY <1>7 DEF StartTrace, Enable, OpenTrace
<1>8. CASE AddFilter(p)
  BY <1>8 DEF AddFilter
<1>9. CASE StartDriver(p)
  BY <1>9 DEF StartDriver
<1>10. CASE CloseDriver(p)
  BY <1>10 DEF CloseDriver
<1>11. CASE CloseFilters(p)
  BY <1>11 DEF CloseFilters
<1>12. CASE CloseProvider(p)
  BY <1>12 DEF CloseProvider
<1>13. CASE CloseTrace(p)
  BY <1>13 DEF CloseTrace
<1>16. CASE Join(p)
  BY <1>16 DEF Join
<1>14. CASE CloseSession(p)
  BY <1>14 DEF CloseSession
<1> QED
  BY <1>1, <1>2, <1>3, <1>4, <1>5, <1>6, <1>7, <1>8, <1>9, <1>10, <1>11, <1>12, <1>13, <1>14,
     <1>15, <1>16
     DEF Step, Call
-----------------------------------------------------------------------------
\* The driver and the session are a capture's own only while it knows of them,
\* unless Windows failed its close, and its close has removed the filters.
Owned(p) ==
    /\ driver = p => capturing[p] \/ "close_failed" \in note[p]
    /\ session = p => handle[p] \/ "close_failed" \in note[p]
    /\ pc[p] \in (Closing \ {"c_stop", "c_unfilter"}) \cup {"closed"} /\ note[p] = {} => filters = {}

LEMMA OwnedKept == ASSUME Types, Places, NEW p \in Procs, Owned(p), Step(p) PROVE Owned(p)'
<1> USE LegacyAssumption
    DEF Types, CaptureTypes, NoteTypes, Places, Place, Owned, Goto, Own, Shared, Ignored, Leave,
        captureVars, osVars, Starting, Closing, Gone
<1>1. CASE Begin(p)
  BY <1>1 DEF Begin
<1>2. CASE Close(p) \/ Kill(p)
  BY <1>2 DEF Close, Kill
<1>3. CASE CallFails(p) \/ Refused(p)
  BY <1>3 DEF CallFails, Refused
<1>4. CASE Consume(p)
  BY <1>4 DEF Consume, ProcessTraceReturns, ConsumeFails
<1>5. CASE Status(p) \/ StopDriver(p)
  BY <1>5 DEF Status, StopDriver
<1>6. CASE Unfilter(p) \/ Unsession(p)
  BY <1>6 DEF Unfilter, Unsession
<1>7. CASE StartTrace(p) \/ Enable(p) \/ OpenTrace(p)
  BY <1>7 DEF StartTrace, Enable, OpenTrace
<1>8. CASE AddFilter(p)
  BY <1>8 DEF AddFilter
<1>9. CASE StartDriver(p)
  BY <1>9 DEF StartDriver
<1>10. CASE CloseDriver(p)
  BY <1>10 DEF CloseDriver
<1>11. CASE CloseFilters(p)
  BY <1>11 DEF CloseFilters
<1>12. CASE CloseProvider(p)
  BY <1>12 DEF CloseProvider
<1>13. CASE CloseTrace(p) \/ Join(p)
  BY <1>13 DEF CloseTrace, Join
<1>14. CASE CloseSession(p)
  BY <1>14 DEF CloseSession
<1> QED
  BY <1>1, <1>2, <1>3, <1>4, <1>5, <1>6, <1>7, <1>8, <1>9, <1>10, <1>11, <1>12, <1>13, <1>14
     DEF Step, Call

LEMMA OwnedFrame ==
    ASSUME Types, NEW p \in Procs, Step(p), NEW q \in Procs \ {p}, Owned(q)
    PROVE  Owned(q)'
BY FrameHolds, NotesHold DEF Owned, Frame, NotesGrow, NothingGiven, Undisturbed

-----------------------------------------------------------------------------
\* What a start that no other process disturbs has found and made.
Clean(p) ==
    "disturbed" \notin note[p] =>
        /\ "refused" \notin note[p]
        /\ pc[p] = "stop" => driver # Nobody
        /\ pc[p] \in {"unfilter", "unsession", "start_trace", "enable", "open_trace", "filter", "start"} =>
               driver = Nobody
        /\ pc[p] \in {"unsession", "start_trace", "enable", "open_trace"} => filters = {}
        /\ pc[p] \in {"filter", "start", "open"} =>
               filters = Ports \ toFilter[p] /\ p \in attached /\ thread[p] = "consume"
        /\ pc[p] = "start_trace" => session = Nobody
        /\ pc[p] \in {"enable", "open_trace", "filter", "start", "open"} => session = p
        /\ pc[p] \in {"open_trace", "filter", "start", "open"} => provider
        /\ pc[p] = "open" => driver = p

LEMMA CleanKept == ASSUME Types, Places, NEW p \in Procs, Clean(p), Step(p) PROVE Clean(p)'
<1> USE LegacyAssumption
    DEF Types, CaptureTypes, ThreadTypes, NoteTypes, Places, Place, Progress, Clean, Goto, Own, Shared,
        Ignored, Leave, captureVars, osVars, threadVars, Starting, Closing, Gone, Early
<1>1. CASE Begin(p)
  BY <1>1 DEF Begin
<1>2. CASE Close(p) \/ Kill(p)
  BY <1>2 DEF Close, Kill
<1>3. CASE CallFails(p) \/ Refused(p)
  BY <1>3 DEF CallFails, Refused
<1>4. CASE Consume(p)
  BY <1>4 DEF Consume, ProcessTraceReturns, ConsumeFails
<1>5. CASE Status(p) \/ StopDriver(p)
  BY <1>5 DEF Status, StopDriver
<1>6. CASE Unfilter(p) \/ Unsession(p)
  BY <1>6 DEF Unfilter, Unsession
<1>7. CASE StartTrace(p) \/ Enable(p) \/ OpenTrace(p)
  BY <1>7 DEF StartTrace, Enable, OpenTrace
<1>8. CASE AddFilter(p)
  BY <1>8 DEF AddFilter
<1>9. CASE StartDriver(p)
  BY <1>9 DEF StartDriver
<1>10. CASE CloseDriver(p)
  BY <1>10 DEF CloseDriver
<1>11. CASE CloseFilters(p)
  BY <1>11 DEF CloseFilters
<1>12. CASE CloseProvider(p)
  BY <1>12 DEF CloseProvider
<1>13. CASE CloseTrace(p) \/ Join(p)
  BY <1>13 DEF CloseTrace, Join
<1>14. CASE CloseSession(p)
  BY <1>14 DEF CloseSession
<1> QED
  BY <1>1, <1>2, <1>3, <1>4, <1>5, <1>6, <1>7, <1>8, <1>9, <1>10, <1>11, <1>12, <1>13, <1>14
     DEF Step, Call

LEMMA CleanFrame ==
    ASSUME Types, NEW p \in Procs, Step(p), NEW q \in Procs \ {p}, Clean(q)
    PROVE  Clean(q)'
BY FrameHolds, NotesHold, LegacyAssumption
   DEF Clean, Frame, NotesGrow, NothingGiven, Undisturbed
-----------------------------------------------------------------------------
\* A process that has stopped the driver ends every trace next, or is cut.
LEMMA TakeoverGoesOn ==
    ASSUME Types, Places, NEW p \in Procs, TakingOver(p), Step(p)
    PROVE  TakingOver(p)' \/ cut' \/ attached' = {}
<1> USE DEF Types, CaptureTypes, Places, Place, TakingOver, Goto, Own, Shared, Leave, captureVars,
            Starting, Closing, Gone
<1>1. CASE Begin(p)
  BY <1>1 DEF Begin
<1>2. CASE Close(p) \/ Kill(p)
  BY <1>2 DEF Close, Kill
<1>3. CASE CallFails(p) \/ Refused(p)
  BY <1>3 DEF CallFails, Refused
<1>4. CASE Consume(p)
  BY <1>4 DEF Consume, ProcessTraceReturns, ConsumeFails
<1>5. CASE Status(p) \/ StopDriver(p)
  BY <1>5 DEF Status, StopDriver
<1>6. CASE Unfilter(p) \/ Unsession(p)
  BY <1>6 DEF Unfilter, Unsession
<1>7. CASE StartTrace(p) \/ Enable(p) \/ OpenTrace(p)
  BY <1>7 DEF StartTrace, Enable, OpenTrace
<1>8. CASE AddFilter(p)
  BY <1>8 DEF AddFilter
<1>9. CASE StartDriver(p)
  BY <1>9 DEF StartDriver
<1>10. CASE CloseDriver(p)
  BY <1>10 DEF CloseDriver
<1>11. CASE CloseFilters(p)
  BY <1>11 DEF CloseFilters
<1>12. CASE CloseProvider(p)
  BY <1>12 DEF CloseProvider
<1>13. CASE CloseTrace(p) \/ Join(p)
  BY <1>13 DEF CloseTrace, Join
<1>14. CASE CloseSession(p)
  BY <1>14 DEF CloseSession
<1> QED
  BY <1>1, <1>2, <1>3, <1>4, <1>5, <1>6, <1>7, <1>8, <1>9, <1>10, <1>11, <1>12, <1>13, <1>14
     DEF Step, Call

LEMMA TakeoverBegins ==
    ASSUME Types, Places, NEW p \in Procs, NEW q \in Procs \ {p}, Step(p), driver = q, driver' # q
    PROVE  TakingOver(p)'
<1> USE DEF Types, CaptureTypes, Places, Place, TakingOver, Goto, captureVars, osVars, Closing
<1>1. CASE Begin(p)
  BY <1>1 DEF Begin
<1>2. CASE Close(p) \/ Kill(p)
  BY <1>2 DEF Close, Kill
<1>3. CASE CallFails(p) \/ Refused(p)
  BY <1>3 DEF CallFails, Refused
<1>4. CASE Consume(p)
  BY <1>4 DEF Consume, ProcessTraceReturns, ConsumeFails
<1>5. CASE Status(p) \/ StopDriver(p)
  BY <1>5 DEF Status, StopDriver
<1>6. CASE Unfilter(p) \/ Unsession(p)
  BY <1>6 DEF Unfilter, Unsession
<1>7. CASE StartTrace(p) \/ Enable(p) \/ OpenTrace(p)
  BY <1>7 DEF StartTrace, Enable, OpenTrace
<1>8. CASE AddFilter(p)
  BY <1>8 DEF AddFilter
<1>9. CASE StartDriver(p)
  BY <1>9, LegacyAssumption DEF StartDriver
<1>10. CASE CloseDriver(p)
  BY <1>10 DEF CloseDriver
<1>11. CASE CloseFilters(p)
  BY <1>11 DEF CloseFilters
<1>12. CASE CloseProvider(p)
  BY <1>12 DEF CloseProvider
<1>13. CASE CloseTrace(p) \/ Join(p)
  BY <1>13 DEF CloseTrace, Join
<1>14. CASE CloseSession(p)
  BY <1>14 DEF CloseSession
<1> QED
  BY <1>1, <1>2, <1>3, <1>4, <1>5, <1>6, <1>7, <1>8, <1>9, <1>10, <1>11, <1>12, <1>13, <1>14
     DEF Step, Call

\* A capture that is open without the driver is so by a takeover under way.
Deaf(p) ==
    pc[p] = "open" /\ driver # p /\ p \in attached =>
        cut \/ \E q \in Procs \ {p} : TakingOver(q)

LEMMA CutStays == ASSUME Types, NEW p \in Procs, Step(p), cut PROVE cut'
<1> USE DEF Types, CutType, boundVars, Fine
<1>1. CASE Begin(p)
  BY <1>1 DEF Begin
<1>2. CASE Close(p) \/ Kill(p)
  BY <1>2 DEF Close, Kill
<1>3. CASE CallFails(p) \/ Refused(p)
  BY <1>3 DEF CallFails, Refused
<1>4. CASE Consume(p)
  BY <1>4 DEF Consume, ProcessTraceReturns, ConsumeFails
<1>5. CASE Status(p) \/ StopDriver(p) \/ Unfilter(p) \/ Unsession(p)
  BY <1>5 DEF Status, StopDriver, Unfilter, Unsession
<1>6. CASE StartTrace(p) \/ Enable(p) \/ OpenTrace(p)
  BY <1>6 DEF StartTrace, Enable, OpenTrace
<1>7. CASE AddFilter(p) \/ StartDriver(p)
  BY <1>7 DEF AddFilter, StartDriver
<1>8. CASE CloseDriver(p) \/ CloseFilters(p) \/ CloseProvider(p)
  BY <1>8 DEF CloseDriver, CloseFilters, CloseProvider
<1>9. CASE CloseTrace(p) \/ Join(p) \/ CloseSession(p)
  BY <1>9 DEF CloseTrace, Join, CloseSession
<1> QED
  BY <1>1, <1>2, <1>3, <1>4, <1>5, <1>6, <1>7, <1>8, <1>9 DEF Step, Call

\* An open capture that makes a step of its own has the driver, or is as before.
LEMMA DeafKept == ASSUME Types, Places, NEW p \in Procs, Deaf(p), Step(p) PROVE Deaf(p)'
<1>1. ASSUME pc'[p] = "open" PROVE StartDriver(p) \/ Consume(p)
  <2> USE <1>1 DEF Types, CaptureTypes, Goto, Own, Shared, Leave
  <2>1. ~Begin(p) /\ ~Close(p) /\ ~Kill(p) /\ ~CallFails(p) /\ ~Refused(p)
    BY DEF Begin, Close, Kill, CallFails, Refused
  <2>2. ~Status(p) /\ ~StopDriver(p) /\ ~Unfilter(p) /\ ~Unsession(p)
    BY DEF Status, StopDriver, Unfilter, Unsession
  <2>3. ~StartTrace(p) /\ ~Enable(p) /\ ~OpenTrace(p) /\ ~AddFilter(p)
    BY DEF StartTrace, Enable, OpenTrace, AddFilter
  <2>4. ~CloseDriver(p) /\ ~CloseFilters(p) /\ ~CloseProvider(p)
    BY DEF CloseDriver, CloseFilters, CloseProvider
  <2>5. ~CloseTrace(p) /\ ~Join(p) /\ ~CloseSession(p)
    BY DEF CloseTrace, Join, CloseSession
  <2> QED BY <2>1, <2>2, <2>3, <2>4, <2>5 DEF Step, Call
<1>2. CASE StartDriver(p)
  BY <1>2 DEF StartDriver, Deaf
<1>3. CASE Consume(p)
  BY <1>3 DEF Consume, ProcessTraceReturns, ConsumeFails, Deaf, TakingOver, osVars, captureVars, boundVars
<1> QED BY <1>1, <1>2, <1>3 DEF Deaf

LEMMA DeafFrame ==
    ASSUME Types, Places, NEW p \in Procs, Step(p), NEW q \in Procs \ {p}, Deaf(q)
    PROVE  Deaf(q)'
<1> SUFFICES ASSUME pc'[q] = "open", driver' # q, q \in attached', ~cut'
             PROVE  \E r \in Procs \ {q} : TakingOver(r)'
  BY DEF Deaf
<1>1. pc[q] = "open" /\ q \in attached /\ ~cut
  BY FrameHolds, NotesHold, CutStays DEF Frame, NothingGiven
<1>2. CASE driver = q
  BY <1>2, TakeoverBegins
<1>3. CASE driver # q
  <2>1. PICK r \in Procs \ {q} : TakingOver(r)
    BY <1>1, <1>3 DEF Deaf
  <2>2. CASE r = p
    BY <2>1, <2>2, TakeoverGoesOn, LegacyAssumption
  <2>3. CASE r # p
    BY <2>1, <2>3, FrameHolds DEF Frame, TakingOver
  <2> QED BY <2>2, <2>3
<1> QED BY <1>2, <1>3

-----------------------------------------------------------------------------
LegacyInv ==
    /\ Types /\ Places
    /\ \A p \in Procs : Owned(p) /\ Clean(p) /\ Deaf(p)

LEMMA LegacyStart == LegacyInit => LegacyInv
<1> SUFFICES ASSUME LegacyInit PROVE LegacyInv
  OBVIOUS
<1>1. Types
  <2>1. OsTypes /\ CutType /\ NoteTypes
    BY DEF LegacyInit, OsTypes, Owners, CutType, NoteTypes
  <2>2. CaptureTypes /\ ThreadTypes
    BY DEF LegacyInit, CaptureTypes, ThreadTypes, Labels, Gone
  <2>3. BoundTypes
    BY LegacyAssumption DEF LegacyInit, BoundTypes
  <2> QED BY <2>1, <2>2, <2>3 DEF Types
<1>2. Places
  BY DEF LegacyInit, Places, Place, Progress, Early, Starting, Closing
<1>3. \A p \in Procs : Owned(p) /\ Clean(p) /\ Deaf(p)
  BY LegacyAssumption DEF LegacyInit, Owned, Clean, Deaf, Closing
<1> QED BY <1>1, <1>2, <1>3 DEF LegacyInv

LEMMA LegacyStep == ASSUME LegacyInv, NEW p \in Procs, Step(p) PROVE LegacyInv'
<1>1. Types /\ Places
  BY DEF LegacyInv
<1>2. Types'
  BY <1>1, OsTypesKept, CaptureTypesKept, ThreadTypesKept, BoundTypesKept, CutTypeKept, NoteTypesKept
     DEF Types
<1>3. ASSUME NEW q \in Procs \ {p} PROVE Place(q)' /\ Progress(q)'
  BY <1>1, FrameHolds DEF Places, Place, Progress, Frame
<1>4. Places'
  BY <1>1, <1>3, PlaceKept, ProgressKept DEF Places
<1>5. \A q \in Procs : Owned(q)' /\ Clean(q)' /\ Deaf(q)'
  BY <1>1, OwnedKept, OwnedFrame, CleanKept, CleanFrame, DeafKept, DeafFrame DEF LegacyInv
<1> QED BY <1>2, <1>4, <1>5 DEF LegacyInv

LEMMA LegacyStutter == LegacyInv /\ UNCHANGED legacyVars => LegacyInv'
BY DEF LegacyInv, legacyVars, osVars, captureVars, threadVars, boundVars, Types, OsTypes,
       CaptureTypes, ThreadTypes, BoundTypes, CutType, NoteTypes, Places, Place, Progress, Owned,
       Clean, Deaf, TakingOver

\* The legacy back end keeps it, whatever the other back end does.
THEOREM LegacyInvariant == Spec => []LegacyInv
<1>1. Init => LegacyInv
  BY LegacyStart DEF Init
<1>2. LegacyInv /\ [Next]_vars => LegacyInv'
  <2> SUFFICES ASSUME LegacyInv, [Next]_vars PROVE LegacyInv'
    OBVIOUS
  <2>1. (\E p \in Procs : Step(p)) \/ UNCHANGED legacyVars
    BY DEF Next, Legacy, Realtime, LegacyNext, Step, vars
  <2> QED BY <2>1, LegacyStep, LegacyStutter
<1> QED BY <1>1, <1>2, PTL DEF Spec

\* Every variable of LegacyCapture has its type, and a capture that is open has
\* got everything, and one that is closed has let go of everything.
THEOREM TypeTheorem == Spec => []TypeOK
<1>1. LegacyInv => TypeOK
  BY TypeParts DEF LegacyInv
<1> QED BY <1>1, LegacyInvariant, PTL

\* A start that no other process disturbs has the driver, the game's ports and
\* the session, whatever was left (src/capture/pktmon_legacy.py:346-354).
THEOREM CleanTheorem == Spec => []StartsClean
<1>1. LegacyInv => StartsClean
  <2> SUFFICES ASSUME LegacyInv, NEW p \in Procs, "disturbed" \notin note[p]
               PROVE  /\ "refused" \notin note[p]
                      /\ pc[p] = "open" => Hears(p) /\ ~failed[p]
    BY DEF StartsClean
  <2>1. Clean(p) /\ Progress(p)
    BY DEF LegacyInv, Places
  <2>2. pc[p] = "open" => filters = Ports /\ p \in attached /\ thread[p] = "consume" /\ ~failed[p]
    BY <2>1 DEF Clean, Progress
  <2> QED BY <2>1, <2>2 DEF Clean, Hears
<1> QED BY <1>1, LegacyInvariant, PTL

\* A capture that is closed leaves nothing of its own running
\* (src/capture/pktmon_legacy.py:439-459).
THEOREM LeaveTheorem == Spec => []LeavesNothing
<1>1. LegacyInv => LeavesNothing
  BY DEF LegacyInv, Owned, Places, Place, LeavesNothing
<1> QED BY <1>1, LegacyInvariant, PTL

\* Whoever takes the driver from a capture stops the session that its trace is of
\* next, or was cut short (src/capture/pktmon_legacy.py:346-354, 439-459).
THEOREM DeafTheorem == Spec => []DeafIsTemporary
<1>1. LegacyInv => DeafIsTemporary
  BY DEF LegacyInv, Deaf, DeafIsTemporary
<1> QED BY <1>1, LegacyInvariant, PTL

-----------------------------------------------------------------------------
\* The steps of Capture's main thread.
Opening == {"initialize", "create_session", "create_stream", "attach", "constrain", "activate"}

\* What PktMon holds for the capture, by the call that it makes next.
HeldInv ==
    /\ held \subseteq {"handle", "session", "stream"}
    /\ step \in {"create_session", "create_stream", "attach", "constrain", "activate", "wait", "open"} =>
           "handle" \in held
    /\ step \in {"create_stream", "attach", "constrain", "activate", "wait", "open"} => "session" \in held
    /\ step \in {"attach", "constrain", "activate", "wait", "open"} => "stream" \in held
    /\ step \in {"close_session", "uninitialize", "closed"} => "stream" \notin held
    /\ step \in {"uninitialize", "closed"} => "session" \notin held
    /\ step = "closed" => "handle" \notin held

ActiveInv ==
    /\ step \in {"wait", "open"} => active
    /\ step \in {"uninitialize", "closed"} => ~active

\* The stream ends only after close began, or it is lost.
EventInv ==
    /\ step \in Opening \cup {"wait", "open"} <=> ~shut
    /\ stream # "idle" => active \/ shut
    /\ event = "stopped" => shut \/ lost
    /\ event = "fatal" => lost
    /\ alarm => lost

\* STREAM_STARTED comes once, so an open capture keeps the size it was told.
StartedInv ==
    /\ stream = "idle" => truncation = "none" /\ event # "started"
    /\ event = "started" => truncation = "none"
    /\ step = "open" => truncation = "full"

RealtimeTypes == active \in BOOLEAN /\ shut \in BOOLEAN /\ alarm \in BOOLEAN /\ lost \in BOOLEAN

RealtimeInv == RealtimeTypes /\ HeldInv /\ ActiveInv /\ EventInv /\ StartedInv

LEMMA RealtimeStart == R!RealtimeInit => RealtimeInv
BY DEF R!RealtimeInit, RealtimeInv, RealtimeTypes, HeldInv, ActiveInv, EventInv, StartedInv, Opening

\* The calls of __init__, one by one.
LEMMA CallSteps ==
    ASSUME R!Call
    PROVE  /\ \/ step = "initialize" /\ step' = "create_session" /\ held' = held \cup {"handle"}
              \/ step = "create_session" /\ step' = "create_stream" /\ held' = held \cup {"session"}
              \/ step = "create_stream" /\ step' = "attach" /\ held' = held \cup {"stream"}
              \/ step = "attach" /\ step' = "constrain" /\ held' = held
              \/ step = "constrain" /\ step' = "activate" /\ held' = held
              \/ step = "activate" /\ step' = "wait" /\ held' = held
           /\ step = "activate" => active'
           /\ active => active'
           /\ active' \in BOOLEAN
           /\ UNCHANGED <<stream, truncation, shut, alarm, event, lost>>
<1>1. step \in {"initialize", "create_session", "create_stream", "attach", "constrain", "activate"}
  BY DEF R!Call, R!AfterCall
<1>2. held' = held \cup R!Gets(step) /\ step' = R!AfterCall[step]
  BY DEF R!Call
<1>3. /\ active' = (active \/ step = "activate")
      /\ UNCHANGED <<stream, truncation, shut, alarm, event, lost>>
  BY DEF R!Call
<1>4. \/ step = "initialize" /\ step' = "create_session" /\ held' = held \cup {"handle"}
      \/ step = "create_session" /\ step' = "create_stream" /\ held' = held \cup {"session"}
      \/ step = "create_stream" /\ step' = "attach" /\ held' = held \cup {"stream"}
      \/ step = "attach" /\ step' = "constrain" /\ held' = held
      \/ step = "constrain" /\ step' = "activate" /\ held' = held
      \/ step = "activate" /\ step' = "wait" /\ held' = held
  BY <1>1, <1>2 DEF R!AfterCall, R!Gets
<1> QED BY <1>3, <1>4

LEMMA RealtimeTypesKept == RealtimeInv /\ R!RealtimeNext => RealtimeTypes'
<1> SUFFICES ASSUME RealtimeInv, R!RealtimeNext PROVE RealtimeTypes'
  OBVIOUS
<1> USE DEF RealtimeInv, RealtimeTypes
<1>1. CASE R!Call \/ R!CallRaises
  BY <1>1, CallSteps DEF R!CallRaises, R!BeginClose
<1>2. CASE R!Wait \/ R!Leaves
  BY <1>2 DEF R!Wait, R!Leaves, R!BeginClose
<1>3. CASE R!Deactivate
  BY <1>3 DEF R!Deactivate
<1>4. CASE R!CloseStream
  BY <1>4 DEF R!CloseStream
<1>5. CASE R!CloseSessionHandle \/ R!Uninitialize
  BY <1>5 DEF R!CloseSessionHandle, R!Uninitialize
<1>6. CASE R!StreamStarts \/ R!StreamStops \/ R!StreamBreaks
  BY <1>6 DEF R!StreamStarts, R!StreamStops, R!StreamBreaks, R!Delivers
<1>7. CASE R!OnStarted \/ R!OnEnded
  BY <1>7 DEF R!OnStarted, R!OnEnded
<1> QED BY <1>1, <1>2, <1>3, <1>4, <1>5, <1>6, <1>7 DEF R!RealtimeNext

LEMMA HeldInvKept == RealtimeInv /\ R!RealtimeNext => HeldInv'
<1> SUFFICES ASSUME RealtimeInv, R!RealtimeNext PROVE HeldInv'
  OBVIOUS
<1> USE DEF RealtimeInv, HeldInv
<1>1. CASE R!Call \/ R!CallRaises
  BY <1>1, CallSteps DEF R!CallRaises, R!BeginClose, R!AfterCall
<1>2. CASE R!Wait \/ R!Leaves
  BY <1>2 DEF R!Wait, R!Leaves, R!BeginClose
<1>3. CASE R!Deactivate
  BY <1>3 DEF R!Deactivate
<1>4. CASE R!CloseStream
  BY <1>4 DEF R!CloseStream
<1>5. CASE R!CloseSessionHandle \/ R!Uninitialize
  BY <1>5 DEF R!CloseSessionHandle, R!Uninitialize
<1>6. CASE R!StreamStarts \/ R!StreamStops \/ R!StreamBreaks
  BY <1>6 DEF R!StreamStarts, R!StreamStops, R!StreamBreaks, R!Delivers
<1>7. CASE R!OnStarted \/ R!OnEnded
  BY <1>7 DEF R!OnStarted, R!OnEnded
<1> QED BY <1>1, <1>2, <1>3, <1>4, <1>5, <1>6, <1>7 DEF R!RealtimeNext

LEMMA ActiveInvKept == RealtimeInv /\ R!RealtimeNext => ActiveInv'
<1> SUFFICES ASSUME RealtimeInv, R!RealtimeNext PROVE ActiveInv'
  OBVIOUS
<1> USE DEF RealtimeInv, RealtimeTypes, ActiveInv
<1>1. CASE R!Call \/ R!CallRaises
  BY <1>1, CallSteps DEF R!CallRaises, R!BeginClose, R!AfterCall
<1>2. CASE R!Wait \/ R!Leaves
  BY <1>2 DEF R!Wait, R!Leaves, R!BeginClose
<1>3. CASE R!Deactivate
  BY <1>3 DEF R!Deactivate
<1>4. CASE R!CloseStream
  BY <1>4 DEF R!CloseStream
<1>5. CASE R!CloseSessionHandle \/ R!Uninitialize
  BY <1>5 DEF R!CloseSessionHandle, R!Uninitialize
<1>6. CASE R!StreamStarts \/ R!StreamStops \/ R!StreamBreaks
  BY <1>6 DEF R!StreamStarts, R!StreamStops, R!StreamBreaks, R!Delivers
<1>7. CASE R!OnStarted \/ R!OnEnded
  BY <1>7 DEF R!OnStarted, R!OnEnded
<1> QED BY <1>1, <1>2, <1>3, <1>4, <1>5, <1>6, <1>7 DEF R!RealtimeNext

LEMMA EventInvKept == RealtimeInv /\ R!RealtimeNext => EventInv'
<1> SUFFICES ASSUME RealtimeInv, R!RealtimeNext PROVE EventInv'
  OBVIOUS
<1> USE DEF RealtimeInv, RealtimeTypes, HeldInv, ActiveInv, EventInv, Opening
<1>1. CASE R!Call \/ R!CallRaises
  BY <1>1, CallSteps DEF R!CallRaises, R!BeginClose, R!AfterCall
<1>2. CASE R!Wait \/ R!Leaves
  BY <1>2 DEF R!Wait, R!Leaves, R!BeginClose
<1>3. CASE R!Deactivate
  BY <1>3 DEF R!Deactivate
<1>4. CASE R!CloseStream
  BY <1>4 DEF R!CloseStream
<1>5. CASE R!CloseSessionHandle \/ R!Uninitialize
  BY <1>5 DEF R!CloseSessionHandle, R!Uninitialize
<1>6. CASE R!StreamStarts \/ R!StreamStops \/ R!StreamBreaks
  BY <1>6 DEF R!StreamStarts, R!StreamStops, R!StreamBreaks, R!Delivers
<1>7. CASE R!OnStarted \/ R!OnEnded
  BY <1>7 DEF R!OnStarted, R!OnEnded
<1> QED BY <1>1, <1>2, <1>3, <1>4, <1>5, <1>6, <1>7 DEF R!RealtimeNext

LEMMA StartedInvKept == RealtimeInv /\ R!RealtimeNext => StartedInv'
<1> SUFFICES ASSUME RealtimeInv, R!RealtimeNext PROVE StartedInv'
  OBVIOUS
<1> USE DEF RealtimeInv, HeldInv, ActiveInv, EventInv, StartedInv, Opening
<1>1. CASE R!Call \/ R!CallRaises
  BY <1>1, CallSteps DEF R!CallRaises, R!BeginClose, R!AfterCall
<1>2. CASE R!Wait \/ R!Leaves
  BY <1>2 DEF R!Wait, R!Leaves, R!BeginClose
<1>3. CASE R!Deactivate
  BY <1>3 DEF R!Deactivate
<1>4. CASE R!CloseStream
  BY <1>4 DEF R!CloseStream
<1>5. CASE R!CloseSessionHandle \/ R!Uninitialize
  BY <1>5 DEF R!CloseSessionHandle, R!Uninitialize
<1>6. CASE R!StreamStarts \/ R!StreamStops \/ R!StreamBreaks
  BY <1>6 DEF R!StreamStarts, R!StreamStops, R!StreamBreaks, R!Delivers
<1>7. CASE R!OnStarted \/ R!OnEnded
  BY <1>7 DEF R!OnStarted, R!OnEnded
<1> QED BY <1>1, <1>2, <1>3, <1>4, <1>5, <1>6, <1>7 DEF R!RealtimeNext

\* The Windows 11 back end raises no false alarm, holds nothing once closed, and
\* is open only with all that it needs (src/capture/pktmon.py:109-212).
THEOREM RealtimeTheorem == Spec => []RealtimeSound
<1>1. Init => RealtimeInv
  BY RealtimeStart DEF Init
<1>2. RealtimeInv /\ [Next]_vars => RealtimeInv'
  <2> SUFFICES ASSUME RealtimeInv, [Next]_vars PROVE RealtimeInv'
    OBVIOUS
  <2>1. R!RealtimeNext \/ UNCHANGED realtimeVars
    BY DEF Next, Legacy, Realtime, vars
  <2>2. CASE UNCHANGED realtimeVars
    BY <2>2 DEF realtimeVars, RealtimeInv, RealtimeTypes, HeldInv, ActiveInv, EventInv, StartedInv
  <2> QED
    BY <2>1, <2>2, RealtimeTypesKept, HeldInvKept, ActiveInvKept, EventInvKept, StartedInvKept
       DEF RealtimeInv
<1>3. RealtimeInv => RealtimeSound
  BY DEF RealtimeInv, HeldInv, ActiveInv, EventInv, StartedInv, RealtimeSound, Opening
<1> QED BY <1>1, <1>2, <1>3, PTL DEF Spec
=============================================================================
