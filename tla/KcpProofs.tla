------------------------------ MODULE KcpProofs ------------------------------
(***************************************************************************)
(* Proofs about Kcp.  What feed has in hand is a run of segments from the   *)
(* last place it started at, `b`, up to `next`, and both b and whatever it  *)
(* returned end where the sender ended a message.                           *)
(***************************************************************************)
EXTENDS Kcp, WellFoundedInduction, TLAPS

\* b is the first segment of a message.
Starts(b) == b = 0 \/ b - 1 \in Last

\* The parts are what is unfinished of a run that began with a message.
PartsInv ==
    \E b \in 0 .. next : Starts(b) /\ parts = Unfinished(b .. next - 1)

ReturnedInv == \A a \in Returned : \E e \in Last : a = MessageAt(e)

\* Nothing that was returned is in hand or to come.
PastInv == \A a \in Returned : \A s \in a : s < next /\ \A p \in parts : s < p

KcpInv == TypeOK /\ PartsInv /\ ReturnedInv /\ PastInv /\ InOrder /\ NoSilentLoss

-----------------------------------------------------------------------------
\* A set of numbers that is not empty has a least one.
LEMMA LeastOne ==
    ASSUME NEW T, T \subseteq Nat, T # {}
    PROVE  \E x \in T : \A y \in T : x <= y
<1>1. IsWellFoundedOn(OpToRel(<, Nat), Nat)
  BY NatLessThanWellFounded
<1>2. PICK x \in T : \A y \in T : ~ (<<y, x>> \in OpToRel(<, Nat))
  BY <1>1, WFMin
<1>3. ASSUME NEW y \in T PROVE x <= y
  <2>1. x \in Nat /\ y \in Nat
    OBVIOUS
  <2>2. ~ (y < x)
    BY <1>2, <2>1 DEF OpToRel
  <2> QED BY <2>1, <2>2
<1> QED BY <1>3

\* What drain has in hand after it took the segments from n to m - 1: a run from
\* b, of which the unfinished part and the messages are those of the run.
LEMMA HeldRun ==
    ASSUME NEW b \in Nat, NEW n \in Nat, NEW m \in Nat, b <= n, n <= m, m <= Segs, Starts(b)
    PROVE  LET held == Unfinished(b .. n - 1) \cup n .. m - 1
           IN  /\ Unfinished(held) = Unfinished(b .. m - 1)
               /\ \A e \in Last \cap held : MessageIn(held, e) = MessageAt(e) /\ n <= e
<1> DEFINE held == Unfinished(b .. n - 1) \cup n .. m - 1
<1>0. Last \subseteq Nat /\ Segs \in Nat
  BY KcpAssumption
<1>1. \A s : s \in held <=>
          s \in b .. m - 1 /\ (s < n => \A e \in Last : b <= e /\ e < n => e < s)
  BY <1>0 DEF Unfinished
<1>2. Last \cap held = Last \cap n .. m - 1
  BY <1>0, <1>1
<1> HIDE DEF held
<1>3. Unfinished(held) = Unfinished(b .. m - 1)
  <2>1. \A s : s \in Unfinished(held) <=> s \in held /\ \A e \in Last : n <= e /\ e < m => e < s
    BY <1>0, <1>2 DEF Unfinished
  <2>2. \A s : s \in Unfinished(b .. m - 1) <=>
            s \in b .. m - 1 /\ \A e \in Last : b <= e /\ e < m => e < s
    BY <1>0 DEF Unfinished
  <2>3. ASSUME NEW s, s \in Unfinished(held) PROVE s \in Unfinished(b .. m - 1)
    <3>1. s \in b .. m - 1
      BY <1>1, <2>1, <2>3
    <3>2. ASSUME NEW e \in Last, b <= e, e < m PROVE e < s
      <4>1. CASE n <= e
        BY <2>1, <2>3, <3>2, <4>1
      <4>2. CASE e < n /\ s < n
        BY <1>1, <2>1, <2>3, <3>2, <4>2
      <4>3. CASE e < n /\ n <= s
        BY <1>0, <3>1, <4>3
      <4> QED BY <1>0, <3>1, <4>1, <4>2, <4>3
    <3> QED BY <2>2, <3>1, <3>2
  <2>4. ASSUME NEW s, s \in Unfinished(b .. m - 1) PROVE s \in Unfinished(held)
    <3>1. s \in b .. m - 1 /\ \A e \in Last : b <= e /\ e < m => e < s
      BY <2>2, <2>4
    <3>2. s \in held
      BY <1>0, <1>1, <3>1
    <3> QED BY <1>0, <2>1, <3>1, <3>2
  <2> QED BY <2>3, <2>4
<1>4. ASSUME NEW e \in Last \cap held PROVE MessageIn(held, e) = MessageAt(e) /\ n <= e
  <2>1. e \in n .. m - 1
    BY <1>2
  <2>2. \A s : s \in MessageIn(held, e) <=>
            s \in held /\ s <= e /\ \A d \in Last : n <= d /\ d < e => d < s
    BY <1>0, <1>2, <2>1 DEF MessageIn
  <2>3. \A s : s \in MessageAt(e) <=> s \in 0 .. e /\ \A d \in Last : d < e => d < s
    BY DEF MessageAt
  <2>4. ASSUME NEW s, s \in MessageAt(e) PROVE s \in MessageIn(held, e)
    <3>1. s \in 0 .. e /\ \A d \in Last : d < e => d < s
      BY <2>3, <2>4
    <3>2. b <= s
      BY <1>0, <2>1, <3>1 DEF Starts
    <3>3. s \in held
      BY <1>0, <1>1, <2>1, <3>1, <3>2
    <3> QED BY <2>2, <3>1, <3>3
  <2>5. ASSUME NEW s, s \in MessageIn(held, e) PROVE s \in MessageAt(e)
    <3>1. s \in b .. m - 1 /\ s <= e /\ \A d \in Last : n <= d /\ d < e => d < s
      BY <1>1, <2>2, <2>5
    <3>2. ASSUME NEW d \in Last, d < e PROVE d < s
      <4>1. CASE d < b
        BY <1>0, <3>1, <4>1
      <4>2. CASE b <= d /\ d < n
        BY <1>0, <1>1, <2>2, <2>5, <3>1, <4>2
      <4>3. CASE n <= d
        BY <1>0, <3>1, <3>2, <4>3
      <4> QED BY <1>0, <4>1, <4>2, <4>3
    <3> QED BY <1>0, <2>1, <2>3, <3>1, <3>2
  <2>6. MessageIn(held, e) \subseteq MessageAt(e)
    BY <2>5
  <2>7. MessageAt(e) \subseteq MessageIn(held, e)
    BY <2>4
  <2>8. MessageIn(held, e) = MessageAt(e)
    BY <2>6, <2>7, Zenon
  <2> QED BY <2>1, <2>8
<1> QED BY <1>3, <1>4 DEF held

\* Each segment in hand is in a message that is complete, or unfinished.
LEMMA HeldSplit ==
    ASSUME NEW held, held \subseteq Nat, NEW s \in held
    PROVE  s \in Unfinished(held) \/ \E a \in MessagesIn(held) : s \in a
<1> DEFINE T == {e \in Last \cap held : s <= e}
<1>1. CASE T = {}
  <2>1. ASSUME NEW e \in Last \cap held PROVE e < s
    <3>1. e \notin T /\ e \in Nat /\ s \in Nat
      BY <1>1
    <3> QED BY <3>1
  <2> QED BY <2>1 DEF Unfinished
<1>2. CASE T # {}
  <2>1. PICK e \in T : \A d \in T : e <= d
    <3>1. T \subseteq Nat
      BY held \subseteq Nat
    <3> HIDE DEF T
    <3> QED BY <1>2, <3>1, LeastOne
  <2>2. s \in MessageIn(held, e)
    <3>1. ASSUME NEW d \in Last \cap held, d < e PROVE d < s
      <4>1. d \in Nat /\ e \in Nat /\ s \in Nat
        OBVIOUS
      <4>2. d \notin T
        BY <2>1, <3>1, <4>1
      <4> QED BY <4>1, <4>2
    <3> QED BY <2>1, <3>1 DEF MessageIn
  <2> QED BY <2>1, <2>2 DEF MessagesIn
<1> QED BY <1>1, <1>2

-----------------------------------------------------------------------------
\* drain joins the segments from n to m - 1 to a run that began with a message,
\* all of them after whatever was returned.
LEMMA DrainKeeps ==
    ASSUME TypeOK, ReturnedInv, PastInv, InOrder,
           NEW b \in Nat, NEW n \in Nat, NEW m \in Nat, NEW held, NEW rest,
           b <= n, n <= m, m <= Segs, next <= n, Starts(b),
           held = Unfinished(b .. n - 1) \cup n .. m - 1,
           \A a \in Returned : \A s \in a : \A t \in held : s < t,
           Drained(held, m, rest), messages' = MessagesIn(held),
           earlier' = earlier \cup messages
    PROVE  /\ PartsInv' /\ ReturnedInv' /\ PastInv' /\ InOrder'
           /\ parts' \subseteq 0 .. next' - 1 /\ parts' \cap Last = {}
<1>0. Last \subseteq Nat /\ held \subseteq 0 .. m - 1 /\ next \in Nat
  BY KcpAssumption DEF Unfinished, TypeOK
<1>1. parts' = Unfinished(b .. m - 1)
  BY HeldRun DEF Drained
<1>2. \A a \in messages' : \E e \in Last \cap held : a = MessageIn(held, e) /\ a = MessageAt(e)
  BY HeldRun DEF MessagesIn
<1>3. \A a \in messages' : \A s \in a : s \in held /\ \A p \in parts' : s < p
  BY <1>0, <1>2 DEF Drained, MessageIn, Unfinished
<1>4. PartsInv'
  BY <1>1 DEF PartsInv, Drained, Starts, Unfinished
<1>5. ReturnedInv'
  BY <1>2 DEF ReturnedInv, Returned, MessageAt
<1>6. parts' \subseteq held /\ next' = m
  BY DEF Drained, Unfinished
<1>7. PastInv'
  <2>1. ASSUME NEW a \in messages', NEW s \in a PROVE s < next' /\ \A p \in parts' : s < p
    <3>1. s \in 0 .. m - 1
      BY <1>0, <1>3
    <3>2. s < next'
      BY <1>6, <3>1
    <3> QED BY <1>3, <3>2
  <2>2. \A a \in Returned : \A s \in a : s < next' /\ \A p \in parts' : s < p
    <3>1. ASSUME NEW a \in Returned, NEW s \in a PROVE s < next'
      <4>1. s < next /\ s \in Nat
        BY <1>0 DEF PastInv, ReturnedInv, MessageAt
      <4> QED BY <1>0, <1>6, <4>1
    <3> QED BY <1>6, <3>1
  <2> QED BY <2>1, <2>2 DEF PastInv, Returned
<1>8. InOrder'
  BY <1>3 DEF InOrder, Returned
<1>9. parts' \subseteq 0 .. next' - 1
  BY <1>0, <1>6
<1>10. parts' \cap Last = {}
  BY <1>0 DEF Drained, Unfinished
<1> QED BY <1>4, <1>5, <1>7, <1>8, <1>9, <1>10

\* The count of skipped gaps speaks for every segment that drain took.
LEMMA DrainAccounts ==
    ASSUME NEW m \in Nat, NEW held, held \subseteq Nat, next \in Nat, skipped' = skipped,
           held = parts \cup next .. m - 1, next <= m, NoSilentLoss,
           next' = m, parts' = Unfinished(held), messages' = MessagesIn(held),
           earlier' = earlier \cup messages
    PROVE  NoSilentLoss'
<1> SUFFICES ASSUME skipped = 0, NEW s \in 0 .. m - 1
             PROVE  s \in parts' \/ \E a \in Returned' : s \in a
  BY DEF NoSilentLoss
<1>1. CASE s \in held
  BY <1>1, HeldSplit DEF Returned
<1>2. CASE s \notin held
  <2>1. s \in 0 .. next - 1 /\ s \notin parts
    BY <1>2
  <2> QED
    BY <2>1 DEF NoSilentLoss, Returned
<1> QED BY <1>1, <1>2

LEMMA FeedKeeps ==
    ASSUME KcpInv, NEW segments \in SUBSET Segments, Feed(segments)
    PROVE  KcpInv'
<1> DEFINE received == pending \cup Accepted(segments)
<1>0. /\ Last \subseteq 0 .. Segs - 1 /\ Segs \in Nat /\ GapTicks \in Nat \ {0}
      /\ next \in Nat /\ next <= Segs /\ age \in 0 .. GapTicks /\ skipped \in Nat
  BY KcpAssumption DEF KcpInv, TypeOK
<1>1. received \subseteq next .. Segs - 1
  <2>1. pending \subseteq next + 1 .. Segs - 1
    BY DEF KcpInv, TypeOK
  <2>2. \A s \in Accepted(segments) : s \in 0 .. Segs - 1 /\ s >= next
    BY DEF Accepted, Segments
  <2>3. ASSUME NEW s \in received PROVE s \in next .. Segs - 1
    <3>1. CASE s \in pending
      BY <1>0, <2>1, <3>1
    <3>2. CASE s \in Accepted(segments)
      BY <1>0, <2>2, <3>2
    <3> QED BY <2>3, <3>1, <3>2
  <2> QED BY <2>3
<1> HIDE DEF received
<1>2. PICK m \in RunEnds(next, received) :
          LET held == parts \cup next .. m - 1
              rest == received \ (next .. m - 1)
              overdue == open /\ age = GapTicks /\ MessagesIn(held) = {}
          IN  /\ \/ /\ overdue /\ rest \cap Last # {}
                    /\ Skip(held, rest)
                 \/ /\ ~(overdue /\ rest \cap Last # {})
                    /\ Drained(held, m, rest)
                    /\ messages' = MessagesIn(held)
                    /\ \/ rest = {} /\ NoGap
                       \/ rest # {} /\ (~open \/ MessagesIn(held) # {}) /\ NewGap
                       \/ rest # {} /\ open /\ MessagesIn(held) = {} /\ SameGap
                    /\ UNCHANGED skipped
              /\ earlier' = earlier \cup messages
  BY DEF Feed, received
<1> DEFINE held == parts \cup next .. m - 1
           rest == received \ (next .. m - 1)
<1>3. m \in next .. Segs /\ m \in Nat /\ m \notin received
  BY <1>0 DEF RunEnds
<1>4. rest \subseteq m + 1 .. Segs - 1
  BY <1>0, <1>1, <1>3
<1>5. earlier' = earlier \cup messages
  BY <1>2
<1>6. CASE Skip(held, rest)
  <2>1. PICK end \in Last \cap rest :
            \E k \in RunEnds(end + 1, {s \in rest : s > end}) :
                /\ Drained(end + 1 .. k - 1, k, {s \in rest : s > end} \ (end + 1 .. k - 1))
                /\ messages' = MessagesIn(end + 1 .. k - 1)
    BY <1>6 DEF Skip
  <2>2. PICK k \in RunEnds(end + 1, {s \in rest : s > end}) :
            /\ Drained(end + 1 .. k - 1, k, {s \in rest : s > end} \ (end + 1 .. k - 1))
            /\ messages' = MessagesIn(end + 1 .. k - 1)
    BY <2>1
  <2>3. NoGap /\ skipped' = skipped + 1
    BY <1>6 DEF Skip
  <2> HIDE DEF held, rest
  <2>4. /\ end \in Nat /\ next <= end /\ end + 1 \in Nat
        /\ k \in Nat /\ end + 1 <= k /\ k <= Segs /\ Starts(end + 1)
        /\ {s \in rest : s > end} \ (end + 1 .. k - 1) \subseteq k + 1 .. Segs - 1
    <3>1. end \in m + 1 .. Segs - 1
      BY <1>4
    <3>2. k \in end + 1 .. Segs /\ k \notin {s \in rest : s > end}
      BY <2>2 DEF RunEnds
    <3>3. end \in Nat /\ next <= end /\ end + 1 \in Nat /\ k \in Nat /\ end + 1 <= k /\ k <= Segs
      BY <1>0, <1>3, <3>1, <3>2
    <3>4. Starts(end + 1)
      BY <3>3 DEF Starts
    <3>5. ASSUME NEW s \in rest, s > end, s \notin end + 1 .. k - 1 PROVE s \in k + 1 .. Segs - 1
      <4>1. s \in m + 1 .. Segs - 1 /\ s # k
        BY <1>4, <3>2, <3>5
      <4> QED BY <1>0, <1>3, <3>3, <3>5, <4>1
    <3> QED BY <3>3, <3>4, <3>5
  <2>5. end + 1 .. k - 1 = Unfinished(end + 1 .. end + 1 - 1) \cup end + 1 .. k - 1
    BY <2>4 DEF Unfinished
  <2>6. \A a \in Returned : \A s \in a : \A t \in end + 1 .. k - 1 : s < t
    <3>1. \A a \in Returned : \A s \in a : s < next /\ s \in Nat
      BY <1>0 DEF KcpInv, PastInv, ReturnedInv, MessageAt
    <3> QED BY <1>0, <2>4, <3>1
  <2>7. /\ PartsInv' /\ ReturnedInv' /\ PastInv' /\ InOrder'
        /\ parts' \subseteq 0 .. next' - 1 /\ parts' \cap Last = {}
    BY <1>0, <1>5, <2>2, <2>4, <2>5, <2>6, DrainKeeps DEF KcpInv
  <2>8. TypeOK'
    <3>1. next' = k /\ pending' \subseteq k + 1 .. Segs - 1 /\ k \in 0 .. Segs
      BY <1>0, <2>2, <2>4 DEF Drained
    <3>2. open' = FALSE /\ age' \in 0 .. GapTicks /\ skipped' \in Nat
      BY <1>0, <2>3 DEF NoGap
    <3> QED BY <2>7, <3>1, <3>2 DEF TypeOK
  <2>9. NoSilentLoss'
    BY <1>0, <2>3 DEF NoSilentLoss
  <2> QED BY <2>7, <2>8, <2>9 DEF KcpInv
<1>7. CASE /\ Drained(held, m, rest) /\ messages' = MessagesIn(held) /\ UNCHANGED skipped
           /\ ((rest = {} /\ NoGap) \/ (rest # {} /\ (NewGap \/ SameGap)))
  <2>1. PICK b \in 0 .. next : Starts(b) /\ parts = Unfinished(b .. next - 1)
    BY DEF KcpInv, PartsInv
  <2>2. held = Unfinished(b .. next - 1) \cup next .. m - 1 /\ held \subseteq Nat
    BY <1>0, <1>3, <2>1 DEF Unfinished
  <2> HIDE DEF rest
  <2>3. \A a \in Returned : \A s \in a : \A t \in held : s < t
    <3>1. \A a \in Returned : \A s \in a : s < next /\ s \in Nat /\ \A p \in parts : s < p
      BY <1>0 DEF KcpInv, PastInv, ReturnedInv, MessageAt
    <3> QED BY <1>0, <1>3, <3>1
  <2>4. held = parts \cup next .. m - 1
    OBVIOUS
  <2> HIDE DEF held
  <2>5. /\ PartsInv' /\ ReturnedInv' /\ PastInv' /\ InOrder'
        /\ parts' \subseteq 0 .. next' - 1 /\ parts' \cap Last = {}
    <3>1. TypeOK /\ ReturnedInv /\ PastInv /\ InOrder
      BY DEF KcpInv
    <3>2. Drained(held, m, rest) /\ messages' = MessagesIn(held)
      BY <1>7
    <3>3. b \in Nat /\ b <= next /\ next <= m /\ m <= Segs /\ next <= next
      BY <1>0, <1>3, <2>1
    <3> QED BY <1>0, <1>3, <1>5, <2>1, <2>2, <2>3, <3>1, <3>2, <3>3, DrainKeeps
  <2>6. TypeOK'
    <3>1. next' = m /\ pending' = rest /\ m \in 0 .. Segs
      BY <1>0, <1>3, <1>7 DEF Drained
    <3>2. age' \in 0 .. GapTicks /\ skipped' \in Nat
      BY <1>0, <1>7 DEF NoGap, NewGap, SameGap
    <3>3. open' \in BOOLEAN /\ (open' => rest # {})
      BY <1>7 DEF NoGap, NewGap, SameGap, KcpInv, TypeOK
    <3> QED BY <1>4, <2>5, <3>1, <3>2, <3>3 DEF TypeOK
  <2>7. NoSilentLoss'
    BY <1>0, <1>3, <1>5, <1>7, <2>2, <2>4, DrainAccounts DEF KcpInv, Drained
  <2> QED BY <2>5, <2>6, <2>7 DEF KcpInv
<1>8. \/ Skip(held, rest)
      \/ /\ Drained(held, m, rest) /\ messages' = MessagesIn(held) /\ UNCHANGED skipped
         /\ ((rest = {} /\ NoGap) \/ (rest # {} /\ (NewGap \/ SameGap)))
  BY <1>2
<1> QED BY <1>6, <1>7, <1>8

-----------------------------------------------------------------------------
\* What is in hand is a run from the start of a message, and what was returned
\* are messages before it.
THEOREM KcpInvariant == Spec => []KcpInv
<1>1. Init => KcpInv
  <2> SUFFICES ASSUME Init PROVE KcpInv
    OBVIOUS
  <2>1. TypeOK
    <3>1. next \in 0 .. Segs /\ age \in 0 .. GapTicks /\ skipped \in Nat
      BY KcpAssumption DEF Init
    <3>2. pending = {} /\ parts = {} /\ open = FALSE
      BY DEF Init
    <3> QED BY <3>1, <3>2 DEF TypeOK
  <2>2. PartsInv
    BY DEF Init, PartsInv, Starts, Unfinished
  <2>3. ReturnedInv /\ PastInv /\ InOrder /\ NoSilentLoss
    BY DEF Init, ReturnedInv, PastInv, InOrder, NoSilentLoss, Returned
  <2> QED BY <2>1, <2>2, <2>3 DEF KcpInv
<1>2. KcpInv /\ [Next]_vars => KcpInv'
  <2> SUFFICES ASSUME KcpInv, [Next]_vars PROVE KcpInv'
    OBVIOUS
  <2>1. ASSUME NEW segments \in SUBSET Segments, Feed(segments) PROVE KcpInv'
    BY <2>1, FeedKeeps
  <2>2. CASE Tick \/ UNCHANGED vars
    <3>1. UNCHANGED <<next, pending, parts, open, skipped, messages, earlier>>
      BY <2>2 DEF Tick, vars
    <3>2. TypeOK'
      BY <2>2, <3>1, KcpAssumption DEF KcpInv, TypeOK, Tick, vars
    <3> QED
      BY <3>1, <3>2 DEF KcpInv, PartsInv, ReturnedInv, PastInv, InOrder, NoSilentLoss, Returned
  <2> QED BY <2>1, <2>2 DEF Next
<1> QED BY <1>1, <1>2, PTL DEF Spec

\* Every variable has its type, and drain leaves nothing that it could take.
THEOREM TypeTheorem == Spec => []TypeOK
BY KcpInvariant, PTL DEF KcpInv

\* feed returns messages exactly as the sender cut them.
THEOREM WholeTheorem == Spec => []WholeMessages
<1>1. KcpInv => WholeMessages
  BY DEF KcpInv, ReturnedInv, WholeMessages
<1> QED BY <1>1, KcpInvariant, PTL

\* Each message is returned once, in the order they were sent.
THEOREM OrderTheorem == Spec => []InOrder
BY KcpInvariant, PTL DEF KcpInv

\* While no gap was skipped nothing is lost.
THEOREM LossTheorem == Spec => []NoSilentLoss
BY KcpInvariant, PTL DEF KcpInv
=============================================================================
