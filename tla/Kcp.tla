-------------------------------- MODULE Kcp ---------------------------------
(***************************************************************************)
(* One direction of a game connection put together from the packets a       *)
(* capture saw (src/capture/sniffer.py, Kcp).  The capture may see a        *)
(* segment late, twice, in any company or never, and the game resends only  *)
(* what the game itself missed, so a gap that stays open is skipped.        *)
(*                                                                          *)
(* A segment is its sequence number, and a message the set of its           *)
(* segments: the sender cuts its messages after the segments of Last, the   *)
(* ones with `frg` 0.                                                       *)
(***************************************************************************)
EXTENDS Naturals, FiniteSets

CONSTANTS
    Segs,       \* the sender's segments are 0 .. Segs - 1
    Last,       \* the ones that end a message
    GapTicks    \* GAP_SECONDS

ASSUME KcpAssumption ==
    /\ Segs \in Nat
    /\ Last \subseteq 0 .. Segs - 1
    /\ GapTicks \in Nat \ {0}

Segments == 0 .. Segs - 1

VARIABLES
    next,
    pending,
    parts,
    open,       \* gap_since is set
    age,        \* how long it has been, up to GapTicks
    skipped,
    messages,   \* what the last call of feed returned
    earlier     \* what the calls before it returned

vars == <<next, pending, parts, open, age, skipped, messages, earlier>>

Init ==
    /\ next = 0
    /\ pending = {}
    /\ parts = {}
    /\ open = FALSE
    /\ age = 0
    /\ skipped = 0
    /\ messages = {}
    /\ earlier = {}

-----------------------------------------------------------------------------
\* drain takes the segments from n up to the first one that is missing.
RunEnds(n, segments) ==
    {m \in n .. Segs : n .. m - 1 \subseteq segments /\ m \notin segments}

\* The segments in hand since the last one that ends a message.
Unfinished(held) == {s \in held : \A e \in Last \cap held : e < s}

\* The message that e ends, of the segments in hand.
MessageIn(held, e) == {s \in held : s <= e /\ \A d \in Last \cap held : d < e => d < s}

MessagesIn(held) == {MessageIn(held, e) : e \in Last \cap held}

\* The segments of a message that is not complete yet are forgotten between two
\* calls.
MutantDrained(held, m, rest) ==
    /\ next' = m
    /\ parts' = {}
    /\ pending' = rest

\* drain ended at m, with these segments joined and the rest waiting.
Drained(held, m, rest) ==
    /\ next' = m
    /\ parts' = Unfinished(held)
    /\ pending' = rest

NoGap == open' = FALSE /\ age' = 0
NewGap == open' = TRUE /\ age' = 0

\* Every packet starts the wait anew.
MutantSameGap == NewGap

SameGap == UNCHANGED <<open, age>>

\* skip_gap leaves the parts of the broken message for the next one.
MutantSkip(held, rest) ==
    \E end \in Last \cap rest :
        /\ \A e \in Last \cap rest : end <= e
        /\ LET kept == {s \in rest : s > end}
           IN \E m \in RunEnds(end + 1, kept) :
                  LET joined == Unfinished(held) \cup end + 1 .. m - 1
                  IN  /\ Drained(joined, m, kept \ (end + 1 .. m - 1))
                      /\ messages' = MessagesIn(joined)
        /\ NoGap
        /\ skipped' = skipped + 1

\* skip_gap, and the drain that follows it.  The parts held so far are lost.
Skip(held, rest) ==
    \E end \in Last \cap rest :
        /\ \A e \in Last \cap rest : end <= e
        /\ LET kept == {s \in rest : s > end}
           IN \E m \in RunEnds(end + 1, kept) :
                  /\ Drained(end + 1 .. m - 1, m, kept \ (end + 1 .. m - 1))
                  /\ messages' = MessagesIn(end + 1 .. m - 1)
        /\ NoGap
        /\ skipped' = skipped + 1

\* The segments that a packet brings: old ones are kept too.
MutantAccepted(segments) == segments

\* The segments of a packet that are still wanted.
Accepted(segments) == {s \in segments : s >= next}

\* A packet with these segments of the connection that came through whole.
\* Acknowledgements, segments that were cut short and those of another
\* connection leave a packet without any.
Feed(segments) ==
    LET received == pending \cup Accepted(segments)
    IN \E m \in RunEnds(next, received) :
           LET held == parts \cup next .. m - 1
               rest == received \ (next .. m - 1)
               overdue == open /\ age = GapTicks /\ MessagesIn(held) = {}
           IN  /\ \/ /\ overdue /\ rest \cap Last # {}
                     /\ Skip(held, rest)
                  \/ /\ ~(overdue /\ rest \cap Last # {})
                     /\ Drained(held, m, rest)
                     /\ messages' = MessagesIn(held)
                     /\ \/ rest = {} /\ NoGap
                        \/ rest # {} /\ (~open \/ MessagesIn(held) # {}) /\ NewGap
                        \/ rest # {} /\ open /\ MessagesIn(held) = {} /\ SameGap
                     /\ UNCHANGED skipped
               /\ earlier' = earlier \cup messages

\* A moment passes.
Tick ==
    /\ open /\ age < GapTicks
    /\ age' = age + 1
    /\ UNCHANGED <<next, pending, parts, open, skipped, messages, earlier>>

Next ==
    \/ \E segments \in SUBSET Segments : Feed(segments)
    \/ Tick

Spec == Init /\ [][Next]_vars

\* Time passes, and a connection keeps talking: its acknowledgements alone are
\* packets, and each of them is a call of feed.
FairSpec == Spec /\ WF_vars(Tick) /\ WF_vars(Feed({}))

-----------------------------------------------------------------------------
\* The message that the sender ended with segment e.
MessageAt(e) == {s \in 0 .. e : \A d \in Last : d < e => d < s}

Returned == earlier \cup messages

\* Every variable has its type, and between two calls drain has nothing left to
\* take and no end of a message is held back.
TypeOK ==
    /\ next \in 0 .. Segs
    /\ pending \subseteq next + 1 .. Segs - 1
    /\ parts \subseteq 0 .. next - 1
    /\ parts \cap Last = {}
    /\ open \in BOOLEAN
    /\ age \in 0 .. GapTicks
    /\ skipped \in Nat
    /\ open => pending # {}

\* Whatever the capture missed, repeated or reordered, feed returns messages
\* exactly as the sender cut them: never one that lost a part and never two in
\* one.  The session key search and the decryption start from this.
WholeMessages == Returned \subseteq {MessageAt(e) : e \in Last}

\* Each message is returned once, and after all that the sender sent before it.
InOrder ==
    \A a \in earlier, b \in messages : \A s \in a, t \in b : s < t

\* A message is lost only with a gap that the count of the summary tells of:
\* while none was skipped, every segment up to `next` is in a message returned
\* or in the parts of the one that is coming in.
NoSilentLoss ==
    skipped = 0 => \A s \in 0 .. next - 1 : s \in parts \/ \E a \in Returned : s \in a

\* A gap does not hold back for ever what came in after it: an end of a message
\* that waits goes out, or is dropped with the gap.
NoStall == \A e \in Last : e \in pending ~> e \notin pending

\* A segment that the capture missed costs only its own message
\* (src/tests/test_capture.py:370): a message whose segments are all waiting is
\* not dropped.
CostsOnlyItsOwn ==
    [][\A e \in Last :
           MessageAt(e) \subseteq pending =>
               MessageAt(e) \subseteq pending' \/ MessageAt(e) \in messages']_vars
=============================================================================
