--------------------------- MODULE CaptureProofs ----------------------------
(***************************************************************************)
(* Proofs about KeyCapture, for any traffic, keys and files: its types, that *)
(* a capture without Ctrl+C reports each key it found once, and that a file  *)
(* goes to one key at most.                                                 *)
(***************************************************************************)
EXTENDS KeyCapture, TLAPS

-----------------------------------------------------------------------------
(* The types of the Sniffer.                                               *)

\* What a message that parses, that waits or that is lost may do to the Sniffer.
DecryptedType ==
    /\ key' \in Key
    /\ dead' \in BOOLEAN
    /\ waiting' \in Seq(Message)
    /\ tried' \in 0 .. RecoveryTries
    /\ broken' \in BOOLEAN /\ decrypted' \in BOOLEAN
    /\ commands' \subseteq Message
    /\ told' \subseteq 0 .. NConns

\* A recovery keeps the types of what it changes.
LEMMA RecoverType ==
    ASSUME SnifferTypeOK, NEW w \in Seq(Message), NEW c \in Conns, NEW k \in Key,
           NEW first \in SUBSET Message, Recover(w, c, k, first)
    PROVE  DecryptedType
<1> USE SnifferAssumption
<1> DEFINE end == IF Len(w) < RecoveryTries THEN Len(w) ELSE RecoveryTries
           hits == {i \in tried + 1 .. end : KeyOf(w[i]) = SessionKey(c)}
           readable == {i \in DOMAIN w : KeyOf(w[i]) = SessionKey(c)}
<1>1. Len(w) \in Nat /\ DOMAIN w = 1 .. Len(w) /\ \A i \in DOMAIN w : w[i] \in Message
  OBVIOUS
<1>2. SessionKey(c) \in Key
  BY DEF SessionKey, Key, Conns
<1>3. {w[i] : i \in readable} \subseteq Message
  BY <1>1
<1>4. tried \in 0 .. RecoveryTries /\ end \in 0 .. RecoveryTries
  BY <1>1 DEF SnifferTypeOK
<1>5. CASE \E i \in hits :
             /\ \A j \in hits : i <= j
             /\ tried' = i
             /\ StartSession(w, c, first)
  <2>1. PICK i \in hits : tried' = i /\ StartSession(w, c, first)
    BY <1>5
  <2>2. i \in 0 .. RecoveryTries
    BY <1>4
  <2>3. commands' \subseteq Message
    BY <2>1, <1>3 DEF StartSession
  <2> QED
    BY <2>1, <2>2, <2>3, <1>2 DEF StartSession, SnifferTypeOK, DecryptedType
<1>6. CASE /\ tried' = IF tried < end THEN end ELSE tried
           /\ key' = k
           /\ commands' = first
           /\ dead' = (tried' = RecoveryTries)
           /\ waiting' = IF dead' THEN <<>> ELSE w
           /\ told' = IF dead' THEN told \cup {login} ELSE told
           /\ UNCHANGED <<broken, decrypted>>
  <2>1. tried' \in 0 .. RecoveryTries
    BY <1>4, <1>6
  <2>2. told' \subseteq 0 .. NConns
    BY <1>6 DEF SnifferTypeOK
  <2> HIDE DEF end
  <2> QED
    BY <2>1, <2>2, <1>6 DEF SnifferTypeOK, DecryptedType
<1> QED
  BY <1>5, <1>6 DEF Recover

\* So does a message that is tried under a key, whatever comes of it.
LEMMA DecryptUnderType ==
    ASSUME SnifferTypeOK, NEW m \in Message, NEW k \in Key, DecryptUnder(m, k)
    PROVE  DecryptedType /\ seeds' \in 0 .. NConns
<1>1. CASE Parsed(m, k)
  <2>1. PICK c \in {seeds, m.conn} :
             /\ seeds' = c
             /\ \/ /\ waiting # <<>> /\ c # 0
                   /\ Recover(waiting, c, k, {m})
                \/ /\ waiting = <<>> \/ c = 0
                   /\ key' = k /\ commands' = {m}
                   /\ UNCHANGED <<dead, waiting, tried, broken, decrypted, told>>
    BY <1>1 DEF Parsed
  <2>2. c \in 0 .. NConns
    BY SnifferAssumption DEF SnifferTypeOK, Message, Conns
  <2>3. CASE c # 0 /\ Recover(waiting, c, k, {m})
    <3>1. c \in Conns
      BY <2>2, <2>3, SnifferAssumption DEF Conns
    <3> QED
      BY <2>1, <2>2, <2>3, <3>1, RecoverType DEF SnifferTypeOK
  <2>4. CASE /\ key' = k /\ commands' = {m}
             /\ UNCHANGED <<dead, waiting, tried, broken, decrypted, told>>
    BY <2>1, <2>2, <2>4 DEF SnifferTypeOK, DecryptedType
  <2> QED
    BY <2>1, <2>3, <2>4
<1>2. CASE Broken(k)
  BY <1>2 DEF Broken, SnifferTypeOK, DecryptedType
<1>3. CASE Early(m, k)
  <2> DEFINE w == IF Len(waiting) < WaitRoom THEN Append(waiting, m) ELSE waiting
  <2>1. w \in Seq(Message)
    BY DEF SnifferTypeOK
  <2>2. CASE seeds # 0 /\ Recover(w, seeds, k, {})
    <3>1. seeds \in Conns
      BY <2>2, SnifferAssumption DEF SnifferTypeOK, Conns
    <3> HIDE DEF w
    <3>2. DecryptedType
      BY <2>1, <2>2, <3>1, RecoverType
    <3> QED
      BY <1>3, <3>2 DEF Early, SnifferTypeOK
  <2>3. CASE /\ key' = k /\ commands' = {} /\ waiting' = w
             /\ UNCHANGED <<dead, tried, broken, decrypted, told>>
    <3>1. UNCHANGED seeds
      BY <1>3 DEF Early
    <3> HIDE DEF w
    <3> QED
      BY <2>1, <2>3, <3>1 DEF SnifferTypeOK, DecryptedType
  <2> QED
    BY <1>3, <2>2, <2>3 DEF Early
<1> QED
  BY <1>1, <1>2, <1>3 DEF DecryptUnder

\* And so does feed.
LEMMA FeedType ==
    ASSUME SnifferTypeOK, NEW p \in Message, Feed(p)
    PROVE  SnifferTypeOK'
<1> USE SnifferAssumption
<1>1. p.conn \in Conns /\ p.side \in Sides /\ p.keys \in SUBSET VideoKeys
  BY DEF Message
<1>2. p.conn \in 0 .. NConns
  BY <1>1 DEF Conns
<1>3. CASE Hello(p.conn)
  <2>1. told' \subseteq 0 .. NConns
    BY <1>3 DEF Hello, SnifferTypeOK
  <2>2. key' \in Key /\ conv' \in [Sides -> 0 .. NConns] /\ waiting' \in Seq(Message)
    BY <1>3 DEF Hello, Key, NoKey
  <2>3. /\ logged_in' = TRUE /\ dead' = FALSE /\ commands' = {} /\ seeds' = 0
        /\ login' = p.conn /\ tried' = 0
    BY <1>3 DEF Hello
  <2>4. 0 \in 0 .. NConns /\ 0 \in 0 .. RecoveryTries
    OBVIOUS
  <2>5. /\ broken' \in BOOLEAN /\ decrypted' \in BOOLEAN
        /\ heard' \subseteq [login : 0 .. NConns, keys : SUBSET VideoKeys]
    BY <1>3 DEF Hello, SnifferTypeOK
  <2> QED
    BY <1>2, <2>1, <2>2, <2>3, <2>4, <2>5 DEF SnifferTypeOK
<1>4. CASE /\ commands' = {}
           /\ UNCHANGED <<logged_in, conv, key, dead, seeds, waiting, tried, broken, decrypted,
                          login, told, heard>>
  BY <1>4 DEF SnifferTypeOK
<1>5. CASE /\ conv' = [conv EXCEPT ![p.side] = p.conn]
           /\ \/ /\ Decrypt(p)
                 /\ heard' = heard \cup Brought(p)
              \/ /\ p.conn # login /\ commands' = {}
                 /\ UNCHANGED <<key, dead, seeds, waiting, tried, broken, decrypted,
                                told, heard>>
           /\ UNCHANGED <<logged_in, login>>
  <2>1. conv' \in [Sides -> 0 .. NConns]
    BY <1>1, <1>2, <1>5 DEF SnifferTypeOK
  <2>2. CASE Decrypt(p) /\ heard' = heard \cup Brought(p)
    <3>1. heard' \subseteq [login : 0 .. NConns, keys : SUBSET VideoKeys]
      BY <1>1, <2>2 DEF SnifferTypeOK, Brought
    <3>2. DecryptedType /\ seeds' \in 0 .. NConns
      <4>1. DispatchKey \in Key /\ WrongKey \in Key
        BY DEF DispatchKey, WrongKey, Key
      <4>2. CASE Lookup(p)
        <5>1. CASE DecryptUnder(p, IF p.under = "dispatch" THEN DispatchKey ELSE WrongKey)
          BY <4>1, <5>1, DecryptUnderType
        <5>2. CASE /\ dead' = TRUE /\ told' = told \cup {login} /\ commands' = {}
                   /\ UNCHANGED <<key, seeds, waiting, tried, broken, decrypted>>
          BY <5>2 DEF SnifferTypeOK, DecryptedType
        <5> QED
          BY <4>2, <5>1, <5>2 DEF Lookup
      <4>3. CASE DecryptUnder(p, key)
        BY <4>3, DecryptUnderType DEF SnifferTypeOK
      <4> QED
        BY <2>2, <4>2, <4>3 DEF Decrypt
    <3> QED
      BY <1>5, <2>1, <3>1, <3>2 DEF SnifferTypeOK, DecryptedType
  <2>3. CASE /\ commands' = {}
             /\ UNCHANGED <<key, dead, seeds, waiting, tried, broken, decrypted, told, heard>>
    BY <1>5, <2>1, <2>3 DEF SnifferTypeOK
  <2> QED
    BY <1>5, <2>2, <2>3
<1> QED
  BY <1>3, <1>4, <1>5 DEF Feed

-----------------------------------------------------------------------------
(* The types of the capture.                                               *)

\* What the game and PktMon change, the main thread's part of the types, and the
\* part of its keys.
GameTypes ==
    /\ online \in 0 .. NConns
    /\ at \in [Conns -> [Sides -> Nat]]
    /\ stop \in BOOLEAN /\ failed \in BOOLEAN
    /\ queue \in Seq(Message)
    /\ interrupted \in BOOLEAN

ControlTypes ==
    /\ pc \in Labels
    /\ last \in BOOLEAN /\ raising \in BOOLEAN
    /\ outcome \in {"none", "ok", "error"}

KeyTypes ==
    /\ burst \in BOOLEAN /\ due \in BOOLEAN
    /\ adding \subseteq found
    /\ found \subseteq VideoKeys /\ pending \subseteq VideoKeys
    /\ times \in [VideoKeys -> Nat]

MatchTypes ==
    /\ batch \subseteq VideoKeys
    /\ candidates \subseteq Files /\ ahead \subseteq Files /\ unread \subseteq Files
    /\ videos \in [VideoKeys -> SUBSET Files]
    /\ searched \subseteq VideoKeys

\* TypeOK is the Sniffer's and these four.
LEMMA TypeParts == TypeOK <=> SnifferTypeOK /\ GameTypes /\ ControlTypes /\ KeyTypes /\ MatchTypes
BY DEF TypeOK, GameTypes, ControlTypes, KeyTypes, MatchTypes

\* A packet that arrives or is missed leaves the queue one of packets.
LEMMA ArrivesType ==
    ASSUME queue \in Seq(Message), NEW p \in Message, Arrives(p)
    PROVE  queue' \in Seq(Message)
BY DEF Arrives

\* The types of the game, of PktMon and of the queue.
LEMMA GameStep == TypeOK /\ [Next]_vars => GameTypes'
<1> SUFFICES ASSUME TypeOK, [Next]_vars PROVE GameTypes'
  OBVIOUS
<1> USE SnifferAssumption, KeyCaptureAssumption
<1>0. GameTypes
  BY TypeParts
<1>1. CASE LogIn
  <2>1. online' \in Conns
    BY <1>0, <1>1 DEF LogIn, GameTypes, Conns
  <2>2. Opening(online') \in Message
    BY <2>1 DEF Opening, Message, Sides
  <2>3. queue' \in Seq(Message)
    BY <1>0, <1>1, <2>2, ArrivesType DEF LogIn, GameTypes
  <2>4. /\ at' = at /\ stop' = stop /\ failed' = failed /\ interrupted' = interrupted
    BY <1>1 DEF LogIn, Arrives
  <2> QED
    BY <1>0, <2>1, <2>3, <2>4 DEF GameTypes, Conns
<1>2. ASSUME NEW c \in Conns, NEW side \in Sides, Talk(c, side) PROVE GameTypes'
  <2>1. at[c][side] \in Nat /\ Streams[c][side] \in Seq(Message)
    BY <1>0 DEF GameTypes
  <2>2. Streams[c][side][at[c][side] + 1] \in Message
    BY <1>2, <2>1 DEF Talk
  <2>3. queue' \in Seq(Message)
    BY <1>0, <1>2, <2>2, ArrivesType DEF Talk, GameTypes
  <2>4. at' \in [Conns -> [Sides -> Nat]]
    BY <1>0, <1>2, <2>1 DEF Talk, GameTypes
  <2>5. online' = online /\ stop' = stop /\ failed' = failed /\ interrupted' = interrupted
    BY <1>2 DEF Talk, Arrives
  <2> QED
    BY <1>0, <2>3, <2>4, <2>5 DEF GameTypes
<1>3. CASE PktMonFails \/ GuiStops \/ TwoSeconds \/ Interrupt
  BY <1>0, <1>3 DEF PktMonFails, GuiStops, TwoSeconds, Interrupt, GameTypes, gameVars, pktmonVars
<1>4. CASE NextFrame
  <2>1. queue' \in Seq(Message)
    <3>1. CASE queue # <<>> /\ queue' = Tail(queue)
      BY <1>0, <3>1 DEF GameTypes
    <3>2. CASE UNCHANGED queue
      BY <1>0, <3>2 DEF GameTypes
    <3> QED
      BY <1>4, <3>1, <3>2 DEF NextFrame
  <2> QED
    BY <1>0, <1>4, <2>1 DEF NextFrame, GameTypes, gameVars
<1>5. CASE Outside \/ UNCHANGED vars
  BY <1>0, <1>5 DEF Outside, GameTypes, gameVars, pktmonVars, vars
<1> QED
  BY <1>1, <1>2, <1>3, <1>4, <1>5 DEF Next, Main, Game, Open, LeaveLoop, FindKey, PlaceKey,
     AfterFeed, NothingPending, TakePending, EnterTry, MatchFile, LeaveTry, ReportKey, AllReported,
     Summarize, Idle

\* Those of the Sniffer.
LEMMA SnifferStep == TypeOK /\ [Next]_vars => SnifferTypeOK'
<1> SUFFICES ASSUME TypeOK, [Next]_vars PROVE SnifferTypeOK'
  OBVIOUS
<1>0. SnifferTypeOK /\ GameTypes
  BY TypeParts
<1>1. CASE NextFrame
  <2>1. CASE queue # <<>> /\ Feed(Head(queue))
    <3>1. Head(queue) \in Message
      BY <1>0, <2>1 DEF GameTypes
    <3> QED
      BY <1>0, <2>1, <3>1, FeedType
  <2>2. CASE UNCHANGED snifferVars
    BY <1>0, <2>2 DEF SnifferTypeOK, snifferVars
  <2> QED
    BY <1>1, <2>1, <2>2 DEF NextFrame
<1>2. CASE AfterFeed
  <2>1. commands' \subseteq Message
    BY <1>2 DEF AfterFeed
  <2> QED
    BY <1>0, <1>2, <2>1 DEF AfterFeed, SnifferTypeOK
<1>3. CASE Summarize
  <2>1. told' \subseteq 0 .. NConns /\ waiting' \in Seq(Message)
    BY <1>0, <1>3 DEF Summarize, Finish, SnifferTypeOK
  <2> QED
    BY <1>0, <1>3, <2>1 DEF Summarize, Finish, SnifferTypeOK
<1>4. CASE UNCHANGED snifferVars
  BY <1>0, <1>4 DEF SnifferTypeOK, snifferVars
<1> QED
  BY <1>1, <1>2, <1>3, <1>4 DEF Next, Main, Game, Open, LeaveLoop, FindKey, PlaceKey,
     NothingPending, TakePending, EnterTry, MatchFile, LeaveTry, ReportKey, AllReported,
     LogIn, Talk, Arrives, PktMonFails, GuiStops, TwoSeconds, Interrupt, Idle, vars

\* Those of the main thread's control.
LEMMA ControlStep == TypeOK /\ [Next]_vars => ControlTypes'
<1> SUFFICES ASSUME TypeOK, [Next]_vars PROVE ControlTypes'
  OBVIOUS
<1>0. ControlTypes
  BY TypeParts
<1>1. CASE Open \/ LeaveLoop \/ NextFrame \/ FindKey \/ PlaceKey \/ AfterFeed
  BY <1>0, <1>1 DEF Open, LeaveLoop, NextFrame, FindKey, PlaceKey, AfterFeed, ControlTypes, Labels,
     matchVars
<1>2. CASE NothingPending \/ TakePending \/ EnterTry \/ MatchFile \/ LeaveTry \/ ReportKey
  BY <1>0, <1>2 DEF NothingPending, TakePending, EnterTry, MatchFile, LeaveTry, ReportKey, Return,
     ControlTypes, Labels, matchVars
<1>3. CASE AllReported \/ Summarize \/ Interrupt
  BY <1>0, <1>3 DEF AllReported, Summarize, Interrupt, Return, ControlTypes, Labels, matchVars
<1>4. CASE UNCHANGED <<pc, last, raising, outcome>>
  BY <1>0, <1>4 DEF ControlTypes
<1> QED
  BY <1>1, <1>2, <1>3, <1>4 DEF Next, Main, Game, LogIn, Talk, Arrives, PktMonFails, GuiStops,
     TwoSeconds, Idle, vars, matchVars

\* What came from the server are keys.
LEMMA ReceivedKeys == SnifferTypeOK => Received \subseteq VideoKeys
BY DEF SnifferTypeOK, Received, Message

\* The types of the keys.
LEMMA KeyStep == TypeOK /\ [Next]_vars => KeyTypes'
<1> SUFFICES ASSUME TypeOK, [Next]_vars PROVE KeyTypes'
  OBVIOUS
<1>0. KeyTypes /\ MatchTypes /\ SnifferTypeOK
  BY TypeParts
<1>1. CASE FindKey
  BY <1>0, <1>1, ReceivedKeys DEF FindKey, KeyTypes
<1>2. CASE PlaceKey
  <2>1. PICK k \in adding :
           \/ /\ Reported(k)
              /\ UNCHANGED <<pending, burst, due>>
           \/ /\ pending' = {j \in pending : NumberOf[j] # NumberOf[k]} \cup {k}
              /\ burst' = TRUE /\ due' = FALSE
              /\ UNCHANGED times
    BY <1>2 DEF PlaceKey
  <2>2. adding' = {} /\ found' = found
    BY <1>2 DEF PlaceKey
  <2>3. k \in VideoKeys
    BY <1>0 DEF KeyTypes
  <2>4. CASE Reported(k) /\ UNCHANGED <<pending, burst, due>>
    BY <1>0, <2>2, <2>3, <2>4 DEF KeyTypes, Reported
  <2>5. CASE /\ pending' = {j \in pending : NumberOf[j] # NumberOf[k]} \cup {k}
             /\ burst' = TRUE /\ due' = FALSE
             /\ UNCHANGED times
    BY <1>0, <2>2, <2>3, <2>5 DEF KeyTypes
  <2> QED
    BY <2>1, <2>4, <2>5
<1>3. CASE ReportKey
  <2>1. PICK k \in batch : Reported(k)
    BY <1>3 DEF ReportKey
  <2>2. UNCHANGED <<adding, found, pending, burst, due>>
    BY <1>3 DEF ReportKey
  <2> QED
    BY <1>0, <2>1, <2>2 DEF KeyTypes, MatchTypes, Reported
<1>4. CASE NextFrame \/ AfterFeed \/ TakePending \/ TwoSeconds \/ Interrupt
  BY <1>0, <1>4 DEF NextFrame, AfterFeed, TakePending, TwoSeconds, Interrupt, KeyTypes
<1>5. CASE UNCHANGED keyVars
  BY <1>0, <1>5 DEF KeyTypes, keyVars
<1> QED
  BY <1>1, <1>2, <1>3, <1>4, <1>5 DEF Next, Main, Game, Open, LeaveLoop, NothingPending, EnterTry,
     MatchFile, LeaveTry, AllReported, Summarize, LogIn, Talk, Arrives, PktMonFails, GuiStops, Idle,
     vars

\* The types of the files.
LEMMA MatchStep == TypeOK /\ [Next]_vars => MatchTypes'
<1> SUFFICES ASSUME TypeOK, [Next]_vars PROVE MatchTypes'
  OBVIOUS
<1>0. KeyTypes /\ MatchTypes
  BY TypeParts
<1>1. CASE MatchFile
  <2>1. PICK f \in ahead :
           /\ ahead' = ahead \ {f}
           /\ \/ f \in Fragile /\ unread' = unread \cup {f} /\ UNCHANGED videos
              \/ /\ UNCHANGED unread
                 /\ \/ \E k \in batch \cap Opens[f] :
                           videos' = [videos EXCEPT ![k] = @ \cup {f}]
                    \/ batch \cap Opens[f] = {} /\ UNCHANGED videos
    BY <1>1 DEF MatchFile
  <2>2. unread' \subseteq Files /\ ahead' \subseteq Files
    BY <1>0, <2>1 DEF MatchTypes
  <2>3. videos' \in [VideoKeys -> SUBSET Files]
    BY <1>0, <2>1 DEF MatchTypes
  <2> QED
    BY <1>0, <1>1, <2>2, <2>3 DEF MatchFile, MatchTypes
<1>2. CASE Open \/ TakePending \/ EnterTry \/ LeaveTry \/ ReportKey \/ Interrupt
  BY <1>0, <1>2 DEF Open, TakePending, EnterTry, LeaveTry, ReportKey, Interrupt, MatchTypes, KeyTypes
<1>3. CASE UNCHANGED matchVars
  BY <1>0, <1>3 DEF MatchTypes, matchVars
<1> QED
  BY <1>1, <1>2, <1>3 DEF Next, Main, Game, LeaveLoop, NextFrame, FindKey, PlaceKey, AfterFeed,
     NothingPending, AllReported, Summarize, LogIn, Talk, Arrives, PktMonFails, GuiStops, TwoSeconds,
     Idle, vars

\* TypeOK, for any traffic, keys, files and room for what waits.
THEOREM TypeCorrect == Spec => []TypeOK
<1>1. Init => TypeOK
  <2> SUFFICES ASSUME Init PROVE TypeOK
    OBVIOUS
  <2>1. SnifferTypeOK
    <3>1. 0 \in 0 .. NConns /\ 0 \in 0 .. RecoveryTries /\ NoKey \in Key
      BY SnifferAssumption DEF NoKey, Key
    <3>2. conv \in [Sides -> 0 .. NConns] /\ waiting \in Seq(Message)
      BY <3>1 DEF Init, SnifferInit
    <3> QED
      BY <3>1, <3>2 DEF Init, SnifferInit, SnifferTypeOK
  <2>2. GameTypes
    <3>1. 0 \in 0 .. NConns
      BY SnifferAssumption
    <3>2. queue \in Seq(Message) /\ at \in [Conns -> [Sides -> Nat]]
      BY DEF Init
    <3> QED
      BY <3>1, <3>2 DEF Init, GameTypes
  <2>3. ControlTypes /\ KeyTypes
    BY DEF Init, ControlTypes, Labels, KeyTypes
  <2>4. MatchTypes
    BY DEF Init, MatchTypes
  <2> QED
    BY <2>1, <2>2, <2>3, <2>4, TypeParts
<1>2. TypeOK /\ [Next]_vars => TypeOK'
  <2>1. TypeOK' <=> SnifferTypeOK' /\ GameTypes' /\ ControlTypes' /\ KeyTypes' /\ MatchTypes'
    BY DEF TypeOK, GameTypes, ControlTypes, KeyTypes, MatchTypes
  <2> QED
    BY <2>1, SnifferStep, GameStep, ControlStep, KeyStep, MatchStep
<1> QED
  BY <1>1, <1>2, PTL DEF Spec

-----------------------------------------------------------------------------
(* Each key that was found is being added, waits, is in the batch or was    *)
(* reported, and only one of these.  Ctrl+C may leave it in none.           *)

Underway == pending \cup batch \cup adding

\* Where a key is: one that is underway is so in one place, and not reported.
Placed ==
    /\ batch \subseteq found /\ pending \subseteq found
    /\ \A k \in VideoKeys : times[k] <= 1
    /\ \A k \in VideoKeys : k \notin found => times[k] = 0
    /\ \A k \in Underway : times[k] = 0
    /\ \A k \in pending : k \notin batch /\ k \notin adding
    /\ \A k \in batch : k \notin adding

\* When a key can be in which of these.
Phases ==
    /\ pc = "start" => found = {}
    /\ adding # {} => pc = "add"
    /\ \A j, k \in adding : j = k
    /\ batch # {} => pc \in {"taken", "try", "report"}

\* Until Ctrl+C comes, none is lost on the way or left where it waits.
Kept ==
    ~interrupted =>
        /\ \A k \in found : times[k] = 0 => k \in Underway
        /\ pc \in {"taken", "try", "report", "summary", "done"} => pending = {}

KeysInv == Placed /\ Phases /\ Kept

\* Two keys have not the same number (pending is a dict by the number).
DistinctNumbers == \A j, k \in VideoKeys : NumberOf[j] = NumberOf[k] => j = k

\* Ctrl+C is not forgotten.
LEMMA InterruptedStays == [Next]_vars => (interrupted => interrupted')
BY DEF Next, Main, Game, Open, LeaveLoop, NextFrame, FindKey, PlaceKey, AfterFeed, NothingPending,
   TakePending, EnterTry, MatchFile, LeaveTry, ReportKey, AllReported, Summarize, LogIn, Talk, Arrives,
   PktMonFails, GuiStops, TwoSeconds, Interrupt, Idle, vars, Outside

\* When keys are found, placed or reported, each stays in one place.
LEMMA PlacedStep ==
    ASSUME DistinctNumbers, KeyTypes, MatchTypes, SnifferTypeOK, KeysInv, [Next]_vars
    PROVE  Placed' /\ (~interrupted' => \A k \in found' : times'[k] = 0 => k \in Underway')
<1>0. ~interrupted' => ~interrupted
  BY InterruptedStays
<1> USE <1>0 DEF KeysInv, Kept
<1>1. CASE FindKey
  <2>1. PICK k \in Received \ found : found' = found \cup {k} /\ adding' = {k}
    BY <1>1 DEF FindKey
  <2>2. k \in VideoKeys
    BY <2>1, ReceivedKeys
  <2>3. pc = "feed" /\ UNCHANGED <<pending, batch, times>>
    BY <1>1 DEF FindKey, matchVars
  <2>4. adding = {}
    BY <2>3 DEF Phases
  <2> QED
    BY <2>1, <2>2, <2>3, <2>4 DEF Placed, Underway, KeyTypes
<1>2. CASE PlaceKey
  <2>1. PICK k \in adding :
           \/ /\ Reported(k)
              /\ UNCHANGED <<pending, burst, due>>
           \/ /\ pending' = {j \in pending : NumberOf[j] # NumberOf[k]} \cup {k}
              /\ burst' = TRUE /\ due' = FALSE
              /\ UNCHANGED times
    BY <1>2 DEF PlaceKey
  <2>2. adding' = {} /\ found' = found /\ batch' = batch
    BY <1>2 DEF PlaceKey, matchVars
  <2>3. k \in VideoKeys /\ k \in found /\ times[k] = 0 /\ adding = {k} /\ k \notin pending
    BY DEF KeyTypes, Placed, Phases, Underway
  <2>4. CASE Reported(k) /\ UNCHANGED <<pending, burst, due>>
    BY <2>2, <2>3, <2>4 DEF KeyTypes, Reported, Placed, Underway
  <2>5. CASE /\ pending' = {j \in pending : NumberOf[j] # NumberOf[k]} \cup {k}
             /\ UNCHANGED times
    <3>1. pending' = pending \cup {k}
      BY <2>3, <2>5 DEF DistinctNumbers, KeyTypes
    <3> QED
      BY <2>2, <2>3, <2>5, <3>1 DEF KeyTypes, Placed, Underway
  <2> QED
    BY <2>1, <2>4, <2>5
<1>3. CASE TakePending
  <2>1. /\ batch' = pending /\ pending' = {} /\ pc = "match"
        /\ UNCHANGED <<adding, found, times>>
    BY <1>3 DEF TakePending
  <2>2. batch = {}
    BY <2>1 DEF Phases
  <2> QED
    BY <2>1, <2>2 DEF Placed, Underway
<1>4. CASE ReportKey
  <2>1. PICK k \in batch : Reported(k) /\ batch' = batch \ {k}
    BY <1>4 DEF ReportKey
  <2>2. UNCHANGED <<adding, found, pending>>
    BY <1>4 DEF ReportKey
  <2>3. k \in VideoKeys /\ k \in found /\ times[k] = 0 /\ k \notin pending /\ k \notin adding
    BY DEF MatchTypes, Placed, Underway
  <2> QED
    BY <2>1, <2>2, <2>3 DEF KeyTypes, Reported, Placed, Underway
<1>5. CASE UNCHANGED <<adding, found, pending, batch, times>>
  BY <1>5 DEF Placed, Underway
<1>6. CASE Interrupt
  BY <1>6 DEF Interrupt, Placed, Underway
<1> QED
  BY <1>1, <1>2, <1>3, <1>4, <1>5, <1>6 DEF Next, Main, Game, Open, LeaveLoop, NextFrame, AfterFeed,
     NothingPending, EnterTry, MatchFile, LeaveTry, AllReported, Summarize, LogIn, Talk, Arrives,
     PktMonFails, GuiStops, TwoSeconds, Idle, vars, keyVars, matchVars

\* And none is underway where the code does not look for it any more.
LEMMA PhasesStep ==
    ASSUME KeysInv, [Next]_vars
    PROVE  /\ Phases'
           /\ ~interrupted' /\ pc' \in {"taken", "try", "report", "summary", "done"} => pending' = {}
<1>0. ~interrupted' => ~interrupted
  BY InterruptedStays
<1> USE <1>0 DEF KeysInv, Kept
<1>1. CASE Open \/ LeaveLoop \/ NextFrame \/ FindKey \/ PlaceKey \/ AfterFeed
  BY <1>1 DEF Open, LeaveLoop, NextFrame, FindKey, PlaceKey, AfterFeed, keyVars, matchVars, Phases,
     Placed
<1>2. CASE NothingPending \/ TakePending \/ EnterTry \/ MatchFile \/ LeaveTry
  BY <1>2 DEF NothingPending, TakePending, EnterTry, MatchFile, LeaveTry, Return, keyVars, matchVars,
     Phases
<1>3. CASE ReportKey \/ AllReported \/ Summarize
  BY <1>3 DEF ReportKey, AllReported, Summarize, Return, keyVars, matchVars, Phases
<1>4. CASE UNCHANGED <<adding, found, pending, batch, pc>>
  BY <1>4 DEF Phases
<1>5. CASE Interrupt
  BY <1>5 DEF Interrupt, Return, Phases
<1> QED
  BY <1>1, <1>2, <1>3, <1>4, <1>5 DEF Next, Main, Game, LogIn, Talk, Arrives, PktMonFails, GuiStops,
     TwoSeconds, Idle, vars, keyVars, matchVars

\* EveryKeyReported, for any traffic, if no two keys have one number: no key is
\* reported twice, and without Ctrl+C none that was found is forgotten.
THEOREM ReportedTheorem ==
    ASSUME DistinctNumbers
    PROVE  Spec => []EveryKeyReported
<1>1. Init => KeysInv
  BY DEF Init, KeysInv, Kept, Placed, Phases, Underway
<1>2. TypeOK /\ KeysInv /\ [Next]_vars => KeysInv'
  BY TypeParts, PlacedStep, PhasesStep DEF KeysInv, Kept
<1>3. TypeOK /\ KeysInv => EveryKeyReported
  <2> SUFFICES ASSUME TypeOK, KeysInv PROVE EveryKeyReported
    OBVIOUS
  <2>1. (\A k \in VideoKeys : times[k] \in Nat) /\ found \subseteq VideoKeys
    BY DEF TypeOK
  <2>2. pc = "done" /\ ~interrupted => Underway = {}
    BY DEF KeysInv, Phases, Kept, Underway
  <2> QED
    BY <2>1, <2>2 DEF KeysInv, Placed, Kept, EveryKeyReported
<1> QED
  BY <1>1, <1>2, <1>3, TypeCorrect, PTL DEF Spec

-----------------------------------------------------------------------------
(* What match_keys and the finally clause do to the files.                 *)

\* No file was given to two keys; a candidate was given to none, or to one of the
\* batch that match_keys is at, and then it is behind.
Given ==
    /\ \A k, l \in VideoKeys : k # l => videos[k] \cap videos[l] = {}
    /\ \A f \in candidates, k \in VideoKeys : f \in videos[k] => pc = "try" /\ k \in batch
    /\ pc = "try" =>
           /\ ahead \subseteq candidates
           /\ \A f \in ahead, k \in VideoKeys : f \notin videos[k]

\* A candidate that could be read and that no key got was opened by none.
Tested ==
    /\ \A f \in candidates \ unread, k \in searched : k \notin Opens[f]
    /\ pc = "try" =>
           \A f \in candidates \ (ahead \cup unread) :
               (\E k \in batch : f \in videos[k]) \/ batch \cap Opens[f] = {}

\* Nothing is matched before the candidates are listed.
Fresh == pc = "start" => searched = {} /\ \A k \in VideoKeys : videos[k] = {}

FilesInv == Given /\ Tested /\ Fresh

\* match_keys, for one file.
LEMMA MatchFileStep ==
    ASSUME MatchTypes, FilesInv, MatchFile
    PROVE  FilesInv'
<1>1. /\ pc = "try" /\ pc' = "try"
      /\ UNCHANGED <<candidates, batch, searched>>
  BY DEF MatchFile
<1>2. PICK f \in ahead :
         /\ ahead' = ahead \ {f}
         /\ \/ f \in Fragile /\ unread' = unread \cup {f} /\ UNCHANGED videos
            \/ /\ UNCHANGED unread
               /\ \/ \E k \in batch \cap Opens[f] :
                         videos' = [videos EXCEPT ![k] = @ \cup {f}]
                  \/ batch \cap Opens[f] = {} /\ UNCHANGED videos
  BY DEF MatchFile
<1>3. CASE /\ UNCHANGED videos
           /\ \/ unread' = unread \cup {f}
              \/ batch \cap Opens[f] = {} /\ UNCHANGED unread
  <2>1. Given'
    BY <1>1, <1>2, <1>3 DEF FilesInv, Given
  <2>2. Tested'
    <3>1. \A g \in candidates' \ unread' : g \in candidates \ unread
      BY <1>1, <1>3
    <3>2. \A g \in candidates' \ (ahead' \cup unread') :
             g \in candidates \ (ahead \cup unread) \/ (g = f /\ batch \cap Opens[f] = {})
      BY <1>1, <1>2, <1>3
    <3> QED
      BY <1>1, <1>3, <3>1, <3>2 DEF FilesInv, Tested
  <2> QED
    BY <1>1, <2>1, <2>2 DEF FilesInv, Fresh
<1>4. ASSUME NEW k \in batch \cap Opens[f], UNCHANGED unread,
             videos' = [videos EXCEPT ![k] = @ \cup {f}]
      PROVE  FilesInv'
  <2>1. k \in VideoKeys /\ \A l \in VideoKeys : f \notin videos[l]
    BY <1>1 DEF MatchTypes, FilesInv, Given
  <2>2. \A l \in VideoKeys : videos'[l] = IF l = k THEN videos[l] \cup {f} ELSE videos[l]
    BY <1>4, <2>1 DEF MatchTypes
  <2>3. Given'
    <3>1. \A j, l \in VideoKeys : j # l => videos'[j] \cap videos'[l] = {}
      <4> SUFFICES ASSUME NEW j \in VideoKeys, NEW l \in VideoKeys, j # l,
                          NEW g, g \in videos'[j], g \in videos'[l]
                   PROVE  FALSE
        OBVIOUS
      <4>1. \A h \in VideoKeys : g \in videos'[h] => g \in videos[h] \/ (h = k /\ g = f)
        BY <2>2
      <4>2. ~(g \in videos[j] /\ g \in videos[l])
        BY DEF FilesInv, Given
      <4> QED
        BY <2>1, <4>1, <4>2
    <3>2. \A g \in candidates', l \in VideoKeys : g \in videos'[l] => l \in batch'
      BY <1>1, <2>1, <2>2 DEF FilesInv, Given
    <3>3. \A g \in ahead', l \in VideoKeys : g \notin videos'[l]
      BY <1>1, <1>2, <2>1, <2>2 DEF FilesInv, Given
    <3>4. ahead' \subseteq candidates'
      BY <1>1, <1>2 DEF FilesInv, Given
    <3> QED
      BY <1>1, <3>1, <3>2, <3>3, <3>4 DEF Given
  <2>4. Tested'
    BY <1>1, <1>2, <1>4, <2>1, <2>2 DEF FilesInv, Tested, MatchTypes
  <2> QED
    BY <1>1, <2>3, <2>4 DEF FilesInv, Fresh
<1> QED
  BY <1>2, <1>3, <1>4

\* The matched files leave, and the others were tried under the whole batch.
LEMMA LeaveTryStep ==
    ASSUME MatchTypes, FilesInv, LeaveTry \/ (Interrupt /\ pc = "try")
    PROVE  FilesInv'
<1>1. /\ pc = "try" /\ pc' = "report"
      /\ candidates' = candidates \ Matched
      /\ UNCHANGED <<videos, unread>>
      /\ \/ ahead = {} /\ searched' = searched \cup batch
         \/ UNCHANGED searched
  BY DEF LeaveTry, Interrupt
<1>2. \A f \in candidates', k \in batch : f \notin videos[k]
  BY <1>1 DEF Matched
<1>3. Given'
  BY <1>1, <1>2 DEF FilesInv, Given
<1>4. Tested'
  BY <1>1, <1>2 DEF FilesInv, Tested
<1> QED
  BY <1>1, <1>3, <1>4 DEF FilesInv, Fresh

\* FilesMatched, for any files and keys, whatever stops the capture: no file goes
\* to two keys, and none that a searched key opens is passed over.
THEOREM FilesTheorem == Spec => []FilesMatched
<1>1. Init => FilesInv
  BY DEF Init, FilesInv, Given, Tested, Fresh
<1>2. TypeOK /\ FilesInv /\ [Next]_vars => FilesInv'
  <2> SUFFICES ASSUME TypeOK, FilesInv, [Next]_vars PROVE FilesInv'
    OBVIOUS
  <2>0. MatchTypes
    BY TypeParts
  <2>1. CASE MatchFile
    BY <2>0, <2>1, MatchFileStep
  <2>2. CASE LeaveTry \/ (Interrupt /\ pc = "try")
    BY <2>0, <2>2, LeaveTryStep
  <2>3. CASE EnterTry
    BY <2>3 DEF EnterTry, FilesInv, Given, Tested, Fresh
  <2>4. CASE Open
    <3>1. pc = "start" /\ pc' \in {"loop", "done"} /\ UNCHANGED <<videos, unread, searched>>
      BY <2>4 DEF Open
    <3> QED
      BY <3>1 DEF FilesInv, Given, Tested, Fresh
  <2>5. CASE /\ pc # "try" /\ pc' # "try"
             /\ pc' # "start"
             /\ UNCHANGED <<candidates, videos, unread, searched>>
    BY <2>5 DEF FilesInv, Given, Tested, Fresh
  <2>6. CASE UNCHANGED <<matchVars, pc>>
    BY <2>6 DEF FilesInv, Given, Tested, Fresh, matchVars
  <2> QED
    BY <2>1, <2>2, <2>3, <2>4, <2>5, <2>6 DEF Next, Main, Game, LeaveLoop, NextFrame, FindKey,
       PlaceKey, AfterFeed, NothingPending, TakePending, ReportKey, AllReported, Summarize, Return,
       LogIn, Talk, Arrives, PktMonFails, GuiStops, TwoSeconds, Interrupt, Idle, vars, matchVars
<1>3. FilesInv => FilesMatched
  BY DEF FilesInv, Given, Tested, FilesMatched
<1> QED
  BY <1>1, <1>2, <1>3, TypeCorrect, PTL DEF Spec

-----------------------------------------------------------------------------
(* Where a message with keys is from the time it is whole.                 *)

\* The Sniffer has read x, has said that it is lost, or lets it wait.
Settles(x) ==
    \/ x \in commands'
    \/ login \in told'
    \/ broken'
    \/ \E j \in DOMAIN waiting' : waiting'[j] = x

\* What the Sniffer has said stays said.
StaysSaid == told \subseteq told' /\ (broken => broken')

\* Messages wait only until the session key is found or given up.
WaitsForKey == waiting # <<>> => key.kind # "session" /\ key # NoKey /\ ~dead

LEMMA RecoverSettles ==
    ASSUME NEW w \in Seq(Message), NEW c \in Conns, NEW k \in Key, k # NoKey, k.kind # "session",
           NEW first \in SUBSET Message, ~dead, Recover(w, c, k, first)
    PROVE  /\ \A i \in DOMAIN w : Settles(w[i])
           /\ \A x \in first : Settles(x)
           /\ StaysSaid /\ WaitsForKey'
<1> DEFINE end == IF Len(w) < RecoveryTries THEN Len(w) ELSE RecoveryTries
           hits == {i \in tried + 1 .. end : KeyOf(w[i]) = SessionKey(c)}
           readable == {i \in DOMAIN w : KeyOf(w[i]) = SessionKey(c)}
<1>1. CASE StartSession(w, c, first)
  <2>1. /\ first \subseteq commands' /\ waiting' = <<>> /\ UNCHANGED told
        /\ \A i \in readable : w[i] \in commands'
        /\ broken' = (broken \/ readable # DOMAIN w)
    BY <1>1 DEF StartSession
  <2>2. broken => broken'
    BY <2>1
  <2>3. ASSUME NEW i \in DOMAIN w PROVE Settles(w[i])
    <3>1. CASE i \in readable
      BY <2>1, <3>1 DEF Settles
    <3>2. CASE i \notin readable
      <4>1. broken'
        BY <2>1, <3>2
      <4> QED
        BY <4>1 DEF Settles
    <3> QED
      BY <3>1, <3>2
  <2> QED
    BY <2>1, <2>2, <2>3 DEF Settles, StaysSaid, WaitsForKey
<1>2. CASE /\ key' = k
           /\ commands' = first
           /\ dead' = (tried' = RecoveryTries)
           /\ waiting' = IF dead' THEN <<>> ELSE w
           /\ told' = IF dead' THEN told \cup {login} ELSE told
           /\ UNCHANGED <<broken, decrypted>>
  <2>1. CASE dead'
    BY <1>2, <2>1 DEF Settles, StaysSaid, WaitsForKey
  <2>2. CASE ~dead'
    BY <1>2, <2>2 DEF Settles, StaysSaid, WaitsForKey
  <2> QED
    BY <2>1, <2>2
<1> QED
  BY <1>1, <1>2 DEF Recover

LEMMA DecryptUnderSettles ==
    ASSUME SnifferTypeOK, WaitsForKey, ~dead, Len(waiting) < WaitRoom,
           NEW m \in Message, NEW k \in Key, k # NoKey, waiting # <<>> => k = key,
           DecryptUnder(m, k)
    PROVE  /\ Settles(m)
           /\ \A i \in DOMAIN waiting : Settles(waiting[i])
           /\ StaysSaid /\ WaitsForKey'
<1>0. waiting # <<>> => k.kind # "session"
  BY DEF WaitsForKey
<1>1. CASE Parsed(m, k)
  <2>1. PICK c \in {seeds, m.conn} :
             \/ /\ waiting # <<>> /\ c # 0
                /\ Recover(waiting, c, k, {m})
             \/ /\ waiting = <<>> \/ c = 0
                /\ key' = k /\ commands' = {m}
                /\ UNCHANGED <<dead, waiting, tried, broken, decrypted, told>>
    BY <1>1 DEF Parsed
  <2>2. CASE waiting # <<>> /\ c # 0 /\ Recover(waiting, c, k, {m})
    <3>1. c \in Conns
      BY <2>2, SnifferAssumption DEF SnifferTypeOK, Message, Conns
    <3> QED
      BY <1>0, <2>2, <3>1, RecoverSettles DEF SnifferTypeOK
  <2>3. CASE /\ key' = k /\ commands' = {m}
             /\ UNCHANGED <<dead, waiting, tried, broken, decrypted, told>>
    BY <1>0, <2>3 DEF Settles, StaysSaid, WaitsForKey
  <2> QED
    BY <2>1, <2>2, <2>3
<1>2. CASE k.kind = "session" /\ Broken(k)
  BY <1>0, <1>2 DEF Broken, Settles, StaysSaid, WaitsForKey
<1>3. CASE k.kind # "session" /\ Early(m, k)
  <2> DEFINE w == Append(waiting, m)
  <2>0. waiting \in Seq(Message)
    BY DEF SnifferTypeOK
  <2>1. /\ w \in Seq(Message)
        /\ DOMAIN w = 1 .. Len(waiting) + 1 /\ Len(waiting) + 1 \in DOMAIN w
        /\ w[Len(waiting) + 1] = m
        /\ \A i \in DOMAIN waiting : i \in DOMAIN w /\ w[i] = waiting[i]
    BY <2>0
  <2>2. \/ seeds # 0 /\ Recover(w, seeds, k, {})
        \/ /\ key' = k /\ commands' = {} /\ waiting' = w
           /\ UNCHANGED <<dead, tried, broken, decrypted, told>>
    BY <1>3 DEF Early
  <2> HIDE DEF w
  <2>3. (\A i \in DOMAIN w : Settles(w[i])) /\ StaysSaid /\ WaitsForKey'
    <3>1. CASE seeds # 0 /\ Recover(w, seeds, k, {})
      <4>1. seeds \in Conns
        BY <3>1, SnifferAssumption DEF SnifferTypeOK, Conns
      <4> QED
        BY <1>3, <2>1, <3>1, <4>1, RecoverSettles
    <3>2. CASE /\ key' = k /\ commands' = {} /\ waiting' = w
               /\ UNCHANGED <<dead, tried, broken, decrypted, told>>
      BY <1>3, <3>2 DEF Settles, StaysSaid, WaitsForKey
    <3> QED
      BY <2>2, <3>1, <3>2
  <2> QED
    BY <2>1, <2>3
<1> QED
  BY <1>1, <1>2, <1>3 DEF DecryptUnder

LEMMA DecryptSettles ==
    ASSUME SnifferTypeOK, WaitsForKey, Len(waiting) < WaitRoom, NEW m \in Message, Decrypt(m)
    PROVE  /\ Settles(m)
           /\ \A i \in DOMAIN waiting : Settles(waiting[i])
           /\ StaysSaid /\ WaitsForKey'
<1>1. CASE key = NoKey /\ Lookup(m)
  <2>1. waiting = <<>> /\ ~dead
    BY <1>1 DEF WaitsForKey, Decrypt
  <2>2. CASE DecryptUnder(m, IF m.under = "dispatch" THEN DispatchKey ELSE WrongKey)
    <3>1. /\ DispatchKey \in Key /\ DispatchKey # NoKey
          /\ WrongKey \in Key /\ WrongKey # NoKey
      BY SnifferAssumption DEF DispatchKey, WrongKey, NoKey, Key
    <3> QED
      BY <2>1, <2>2, <3>1, DecryptUnderSettles
  <2>3. CASE /\ dead' = TRUE /\ told' = told \cup {login} /\ commands' = {}
             /\ UNCHANGED <<key, seeds, waiting, tried, broken, decrypted>>
    BY <2>1, <2>3 DEF Settles, StaysSaid, WaitsForKey
  <2> QED
    BY <1>1, <2>2, <2>3 DEF Lookup
<1>2. CASE ~dead /\ key # NoKey /\ DecryptUnder(m, key)
  BY <1>2, DecryptUnderSettles DEF SnifferTypeOK
<1> QED
  BY <1>1, <1>2 DEF Decrypt

\* A key list that came out whole is read, said to be lost, or waits.
Accounted(h) ==
    \/ h.keys \subseteq found \cup Received
    \/ h.login \in told
    \/ broken
    \/ h.login = login /\ \E i \in DOMAIN waiting : waiting[i].keys = h.keys

LEMMA SettledIsAccounted ==
    ASSUME NEW x \in Message, x.keys # {}, NEW h, h.keys = x.keys, h.login = login,
           Settles(x), UNCHANGED login
    PROVE  Accounted(h)'
<1>1. x.side = "server"
  BY DEF Message, Sides
<1>2. CASE x \in commands'
  <2>1. x.keys \subseteq Received'
    BY <1>1, <1>2 DEF Received
  <2> QED
    BY <2>1 DEF Accounted
<1>3. CASE login \in told' \/ broken'
  BY <1>3 DEF Accounted
<1>4. CASE \E j \in DOMAIN waiting' : waiting'[j] = x
  BY <1>4 DEF Accounted
<1> QED
  BY <1>2, <1>3, <1>4 DEF Settles

LEMMA FeedAccounts ==
    ASSUME SnifferTypeOK, WaitsForKey, Len(waiting) < WaitRoom, commands = {},
           \A h \in heard : h.keys # {} /\ Accounted(h),
           NEW p \in Message, Feed(p), UNCHANGED found
    PROVE  WaitsForKey' /\ \A h \in heard' : h.keys # {} /\ Accounted(h)'
<1>0. Received = {}
  BY DEF Received
<1>1. CASE p.under = "hello" /\ Hello(p.conn)
  <2>1. /\ told' = IF Unrecovered THEN told \cup {login} ELSE told
        /\ waiting' = <<>> /\ UNCHANGED <<broken, heard>>
    BY <1>1 DEF Hello
  <2>2. waiting # <<>> => Unrecovered
    BY DEF Unrecovered, WaitsForKey
  <2>3. ASSUME NEW h \in heard PROVE Accounted(h)'
    <3>1. CASE h.keys \subseteq found \/ h.login \in told \/ broken
      BY <2>1, <3>1 DEF Accounted
    <3>2. CASE h.login = login /\ \E i \in DOMAIN waiting : waiting[i].keys = h.keys
      <4>1. waiting # <<>>
        BY <3>2
      <4> QED
        BY <2>1, <2>2, <3>2, <4>1 DEF Accounted
    <3> QED
      BY <1>0, <3>1, <3>2 DEF Accounted
  <2> QED
    BY <2>1, <2>3 DEF WaitsForKey
<1>2. CASE /\ commands' = {}
           /\ UNCHANGED <<key, dead, waiting, broken, login, told, heard>>
  BY <1>0, <1>2 DEF Accounted, WaitsForKey
<1>3. CASE Decrypt(p) /\ heard' = heard \cup Brought(p) /\ UNCHANGED login
  <2>1. /\ Settles(p)
        /\ \A i \in DOMAIN waiting : Settles(waiting[i])
        /\ StaysSaid /\ WaitsForKey'
    BY <1>3, DecryptSettles
  <2>2. ASSUME NEW h \in heard PROVE Accounted(h)'
    <3>1. CASE h.keys \subseteq found
      BY <3>1 DEF Accounted
    <3>2. CASE h.login \in told \/ broken
      BY <2>1, <3>2 DEF Accounted, StaysSaid
    <3>3. CASE h.login = login /\ \E i \in DOMAIN waiting : waiting[i].keys = h.keys
      <4>1. PICK i \in DOMAIN waiting : waiting[i].keys = h.keys
        BY <3>3
      <4>2. waiting[i] \in Message
        BY DEF SnifferTypeOK
      <4> QED
        BY <1>3, <2>1, <3>3, <4>1, <4>2, SettledIsAccounted
    <3> QED
      BY <1>0, <3>1, <3>2, <3>3 DEF Accounted
  <2>3. ASSUME NEW h \in Brought(p) PROVE h.keys # {} /\ Accounted(h)'
    <3>1. p.keys # {} /\ h.keys = p.keys /\ h.login = login
      BY DEF Brought
    <3> QED
      BY <1>3, <2>1, <3>1, SettledIsAccounted
  <2> QED
    BY <1>3, <2>1, <2>2, <2>3
<1> QED
  BY <1>1, <1>2, <1>3 DEF Feed

\* After a Ctrl+C only this much is left.
LEMMA FeedKeepsWaits ==
    ASSUME SnifferTypeOK, WaitsForKey, Len(waiting) < WaitRoom, \A h \in heard : h.keys # {},
           NEW p \in Message, Feed(p)
    PROVE  WaitsForKey' /\ \A h \in heard' : h.keys # {}
<1>1. CASE p.under = "hello" /\ Hello(p.conn)
  BY <1>1 DEF Hello, WaitsForKey
<1>2. CASE UNCHANGED <<key, dead, waiting, heard>>
  BY <1>2 DEF WaitsForKey
<1>3. CASE Decrypt(p) /\ heard' = heard \cup Brought(p)
  BY <1>3, DecryptSettles DEF Brought
<1> QED
  BY <1>1, <1>2, <1>3 DEF Feed

\* Between two packets nothing is left of the last one, and nothing waits before
\* the capture begins and once it is over.
Unsaid ==
    /\ WaitsForKey
    /\ \A h \in heard : h.keys # {}
    /\ ~interrupted /\ pc \notin {"feed", "add"} => commands = {}
    /\ ~interrupted => \A h \in heard : Accounted(h)
    /\ ~interrupted /\ pc \in {"start", "done"} => waiting = <<>>

LEMMA UnsaidInit == Init => Unsaid
BY DEF Init, SnifferInit, Unsaid, WaitsForKey

LEMMA UnsaidStep ==
    ASSUME TypeOK, Unsaid, Len(waiting) < WaitRoom, [Next]_vars
    PROVE  Unsaid'
<1> USE DEF Unsaid
<1>0. SnifferTypeOK /\ GameTypes /\ (interrupted => interrupted')
  BY TypeParts, InterruptedStays
<1>1. CASE Interrupt
  <2>1. interrupted' /\ UNCHANGED <<waiting, key, dead, heard>>
    BY <1>1 DEF Interrupt, snifferVars
  <2> QED
    BY <2>1 DEF WaitsForKey
<1>2. CASE NextFrame
  <2>1. /\ pc = "loop" /\ pc' = "feed" /\ UNCHANGED <<found, interrupted>>
        /\ \/ queue # <<>> /\ Feed(Head(queue))
           \/ UNCHANGED snifferVars
    BY <1>2 DEF NextFrame
  <2>2. CASE queue # <<>> /\ Feed(Head(queue)) /\ ~interrupted
    <3>1. Head(queue) \in Message
      BY <1>0, <2>2 DEF GameTypes
    <3> QED
      BY <1>0, <2>1, <2>2, <3>1, FeedAccounts
  <2>3. CASE UNCHANGED snifferVars
    BY <2>1, <2>3 DEF snifferVars, WaitsForKey, Accounted, Received
  <2>4. CASE queue # <<>> /\ Feed(Head(queue)) /\ interrupted
    <3>1. Head(queue) \in Message
      BY <1>0, <2>4 DEF GameTypes
    <3> QED
      BY <1>0, <2>1, <2>4, <3>1, FeedKeepsWaits
  <2> QED
    BY <2>1, <2>2, <2>3, <2>4
<1>3. CASE FindKey \/ PlaceKey
  <2>1. /\ UNCHANGED <<snifferVars, interrupted>> /\ found \subseteq found'
        /\ pc' \in {"feed", "add"}
    BY <1>3 DEF FindKey, PlaceKey, Outside
  <2> QED
    BY <2>1 DEF snifferVars, WaitsForKey, Accounted, Received
<1>4. CASE AfterFeed
  <2>1. /\ Received \subseteq found /\ commands' = {} /\ pc' \in {"match", "loop"}
        /\ UNCHANGED <<key, dead, waiting, broken, login, told, heard, found, interrupted>>
    BY <1>4 DEF AfterFeed, Outside
  <2> QED
    BY <2>1 DEF WaitsForKey, Accounted
<1>5. CASE Summarize
  <2>1. /\ pc = "summary" /\ told' = IF Unrecovered THEN told \cup {login} ELSE told
        /\ waiting' = IF Unrecovered THEN <<>> ELSE waiting
        /\ UNCHANGED <<key, dead, broken, login, heard, found, commands, interrupted>>
    BY <1>5 DEF Summarize, Finish, keyVars, Outside
  <2>2. waiting # <<>> => Unrecovered
    BY DEF Unrecovered, WaitsForKey
  <2>3. waiting' = <<>>
    BY <2>1, <2>2
  <2>4. ASSUME NEW h \in heard, Accounted(h) PROVE Accounted(h)'
    <3>1. CASE h.login = login /\ \E i \in DOMAIN waiting : waiting[i].keys = h.keys
      <4>1. waiting # <<>>
        BY <3>1
      <4> QED
        BY <2>1, <2>2, <3>1, <4>1 DEF Accounted
    <3>2. CASE h.keys \subseteq found \cup Received \/ h.login \in told \/ broken
      BY <2>1, <3>2 DEF Accounted, Received
    <3> QED
      BY <2>4, <3>1, <3>2 DEF Accounted
  <2> QED
    BY <2>1, <2>3, <2>4 DEF WaitsForKey
<1>6. CASE Open
  BY <1>6 DEF Open, Outside, snifferVars, keyVars, WaitsForKey, Accounted, Received
<1>7. CASE \/ LeaveLoop \/ NothingPending \/ TakePending \/ EnterTry \/ MatchFile \/ LeaveTry
           \/ ReportKey \/ AllReported
  <2>1. UNCHANGED <<snifferVars, found, interrupted>> /\ pc \notin {"feed", "add"} /\ pc' \notin {"start", "done"}
    BY <1>7 DEF LeaveLoop, NothingPending, TakePending, EnterTry, MatchFile, LeaveTry, ReportKey,
       AllReported, Return, Outside, keyVars
  <2> QED
    BY <2>1 DEF snifferVars, WaitsForKey, Accounted, Received
<1>8. CASE Game \/ PktMonFails \/ GuiStops \/ TwoSeconds \/ Idle \/ UNCHANGED vars
  <2>1. UNCHANGED <<snifferVars, found, interrupted, pc>>
    BY <1>8 DEF Game, LogIn, Talk, Arrives, PktMonFails, GuiStops, TwoSeconds, Idle, vars, keyVars
  <2> QED
    BY <2>1 DEF snifferVars, WaitsForKey, Accounted, Received
<1> QED
  BY <1>1, <1>2, <1>3, <1>4, <1>5, <1>6, <1>7, <1>8 DEF Next, Main

\* As long as what waits for a session key fits into the 32 MB, beyond which the
\* Sniffer drops a message without a word (src/capture/sniffer.py:190), no key list
\* that came out whole is lost unsaid: for any traffic, any number of logins, and
\* packets of an earlier connection among those of the next.
THEOREM UnsaidTheorem == Spec /\ [](Len(waiting) < WaitRoom) => []NothingUnsaid
<1>1. TypeOK /\ Unsaid /\ Len(waiting) < WaitRoom /\ [Next]_vars => Unsaid'
  BY UnsaidStep
<1>2. Unsaid => NothingUnsaid
  <2> SUFFICES ASSUME Unsaid, pc = "done", ~interrupted, NEW h \in heard
               PROVE  h.keys \subseteq found \/ h.login \in told \/ broken
    BY DEF NothingUnsaid
  <2>1. Accounted(h) /\ commands = {} /\ waiting = <<>>
    BY DEF Unsaid
  <2> QED
    BY <2>1 DEF Accounted, Received
<1> QED
  BY <1>1, <1>2, TypeCorrect, UnsaidInit, PTL DEF Spec
=============================================================================
