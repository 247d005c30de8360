------------------------------ MODULE Sniffer -------------------------------
(***************************************************************************)
(* Finding the key of a captured connection (src/capture/sniffer.py,        *)
(* Sniffer): the messages that Kcp puts together are decrypted under a      *)
(* dispatch key until the login reply gives the seeds of the session key;   *)
(* those that came too early wait for it.                                   *)
(*                                                                          *)
(* A message that is not decrypted under its own key does not parse.        *)
(***************************************************************************)
EXTENDS Naturals, Sequences

CONSTANTS
    NConns,         \* connections are 1 .. NConns, one for each login
    VideoKeys,      \* the keys the server may send
    RecoveryTries,  \* RECOVERY_TRIES
    WaitRoom        \* messages that may wait, for the 32 MB

Conns == 1 .. NConns
Sides == {"client", "server"}

\* "hello" is the client's opening handshake.  `reply` is the login reply.  Only
\* the server sends keys.
Message ==
    {m \in [conn : Conns, side : Sides, under : {"hello", "dispatch", "session"},
            reply : BOOLEAN, keys : SUBSET VideoKeys] : m.side = "client" => m.keys = {}}

ASSUME SnifferAssumption ==
    /\ NConns \in Nat
    /\ RecoveryTries \in Nat \ {0}
    /\ WaitRoom \in Nat

VARIABLES
    logged_in,
    conv,           \* the connection that each side's Kcp was made for, or 0
    key,            \* self.key; self.session is its kind
    dead,
    seeds,          \* the connection whose reply the seeds are from, or 0
    waiting, tried,
    broken,         \* self.broken is not 0
    decrypted,
    commands,       \* the messages that the last packet was decrypted into
    \* kept for the properties
    login,          \* the connection whose handshake was read last
    told,           \* logins whose loss was reported
    heard           \* keys that a complete message brought, with their login

snifferVars == <<logged_in, conv, key, dead, seeds, waiting, tried, broken, decrypted, commands,
                 login, told, heard>>

Key == [kind : {"none", "dispatch", "wrong", "session"}, conn : 0 .. NConns]
NoKey == [kind |-> "none", conn |-> 0]
DispatchKey == [kind |-> "dispatch", conn |-> 0]
WrongKey == [kind |-> "wrong", conn |-> 0]
SessionKey(c) == [kind |-> "session", conn |-> c]

KeyOf(m) == IF m.under = "dispatch" THEN DispatchKey ELSE SessionKey(m.conn)

Brought(m) == IF m.keys = {} THEN {} ELSE {[login |-> login, keys |-> m.keys]}

SnifferInit ==
    /\ logged_in = FALSE
    /\ conv = [s \in Sides |-> 0]
    /\ key = NoKey /\ dead = FALSE /\ seeds = 0
    /\ waiting = <<>> /\ tried = 0
    /\ broken = FALSE /\ decrypted = FALSE
    /\ commands = {}
    /\ login = 0 /\ told = {} /\ heard = {}

-----------------------------------------------------------------------------
\* report_unrecovered, for the login that ends.
Unrecovered == waiting # <<>> /\ key.kind # "session" /\ ~dead

\* The connection that ends is forgotten without a word.
MutantHello(c) ==
    /\ UNCHANGED told
    /\ logged_in' = TRUE
    /\ conv' = [s \in Sides |-> 0]
    /\ key' = NoKey /\ dead' = FALSE /\ seeds' = 0
    /\ waiting' = <<>> /\ tried' = 0
    /\ commands' = {}
    /\ login' = c
    /\ UNCHANGED <<broken, decrypted, heard>>

\* A client's opening handshake.
Hello(c) ==
    /\ told' = IF Unrecovered THEN told \cup {login} ELSE told
    /\ logged_in' = TRUE
    /\ conv' = [s \in Sides |-> 0]
    /\ key' = NoKey /\ dead' = FALSE /\ seeds' = 0
    /\ waiting' = <<>> /\ tried' = 0
    /\ commands' = {}
    /\ login' = c
    /\ UNCHANGED <<broken, decrypted, heard>>

\* start_session: what waits is decrypted, and what does not parse is broken.
StartSession(w, c, first) ==
    LET readable == {i \in DOMAIN w : KeyOf(w[i]) = SessionKey(c)}
    IN  /\ key' = SessionKey(c)
        /\ decrypted' = TRUE
        /\ commands' = first \cup {w[i] : i \in readable}
        /\ broken' = (broken \/ readable # DOMAIN w)
        /\ waiting' = <<>>
        /\ UNCHANGED <<dead, told>>

\* recover: up to RECOVERY_TRIES messages are tried with the seeds of c, the ones
\* tried before included.  find_session_key succeeds for a message of c, if the
\* client's clock is in its window; k is the key until then.
Recover(w, c, k, first) ==
    LET end == IF Len(w) < RecoveryTries THEN Len(w) ELSE RecoveryTries
        hits == {i \in tried + 1 .. end : KeyOf(w[i]) = SessionKey(c)}
    IN  \/ \E i \in hits :
               /\ \A j \in hits : i <= j
               /\ tried' = i
               /\ StartSession(w, c, first)
        \/ /\ tried' = IF tried < end THEN end ELSE tried
           /\ key' = k
           /\ commands' = first
           /\ dead' = (tried' = RecoveryTries)
           /\ waiting' = IF dead' THEN <<>> ELSE w
           /\ told' = IF dead' THEN told \cup {login} ELSE told
           /\ UNCHANGED <<broken, decrypted>>

\* A message that parses.  One of the server may be the reply, if an RSA key
\* fits it.
Parsed(m, k) ==
    \E c \in IF m.reply /\ m.side = "server" /\ k.kind # "session" THEN {seeds, m.conn} ELSE {seeds} :
        /\ seeds' = c
        /\ \/ /\ waiting # <<>> /\ c # 0
              /\ Recover(waiting, c, k, {m})
           \/ /\ waiting = <<>> \/ c = 0
              /\ key' = k /\ commands' = {m}
              /\ UNCHANGED <<dead, waiting, tried, broken, decrypted, told>>

\* A message that does not, under the session key.
Broken(k) ==
    /\ key' = k /\ commands' = {} /\ broken' = TRUE
    /\ UNCHANGED <<dead, seeds, waiting, tried, decrypted, told>>

\* A message that does not yet: it waits, if there is room.
Early(m, k) ==
    LET fits == Len(waiting) < WaitRoom
        w == IF fits THEN Append(waiting, m) ELSE waiting
    IN  /\ \/ seeds # 0 /\ Recover(w, seeds, k, {})
           \/ /\ seeds = 0
              /\ key' = k /\ commands' = {} /\ waiting' = w
              /\ UNCHANGED <<dead, tried, broken, decrypted, told>>
        /\ UNCHANGED seeds

DecryptUnder(m, k) ==
    \/ KeyOf(m) = k /\ Parsed(m, k)
    \/ KeyOf(m) # k /\ k.kind = "session" /\ Broken(k)
    \/ KeyOf(m) # k /\ k.kind # "session" /\ Early(m, k)

\* The first message tells the dispatch key, or one that gi.json does not list,
\* or, being no message of that kind, any.
Lookup(m) ==
    \/ DecryptUnder(m, IF m.under = "dispatch" THEN DispatchKey ELSE WrongKey)
    \/ /\ dead' = TRUE /\ told' = told \cup {login} /\ commands' = {}
       /\ UNCHANGED <<key, seeds, waiting, tried, broken, decrypted>>

\* decrypt
Decrypt(m) ==
    \/ ~dead /\ key = NoKey /\ Lookup(m)
    \/ ~dead /\ key # NoKey /\ DecryptUnder(m, key)

\* feed, for the packet p: a handshake, or one that completes a message.  A Kcp
\* belongs to the connection of the first packet after a handshake, and takes
\* nothing of another.  If that packet is one of an earlier connection, what
\* came before it is a gap to that Kcp, which may never end.
Feed(p) ==
    \/ p.under = "hello" /\ Hello(p.conn)
    \/ /\ p.under # "hello"
       /\ ~logged_in \/ dead \/ conv[p.side] \notin {0, p.conn}
       /\ commands' = {}
       /\ UNCHANGED <<logged_in, conv, key, dead, seeds, waiting, tried, broken, decrypted,
                      login, told, heard>>
    \/ /\ p.under # "hello"
       /\ logged_in /\ ~dead /\ conv[p.side] \in {0, p.conn}
       /\ conv' = [conv EXCEPT ![p.side] = p.conn]
       /\ \/ /\ Decrypt(p)
             /\ heard' = heard \cup Brought(p)
          \/ /\ p.conn # login /\ commands' = {}
             /\ UNCHANGED <<key, dead, seeds, waiting, tried, broken, decrypted,
                            told, heard>>
       /\ UNCHANGED <<logged_in, login>>

\* finish
Finish ==
    /\ told' = IF Unrecovered THEN told \cup {login} ELSE told
    /\ waiting' = IF Unrecovered THEN <<>> ELSE waiting
    /\ UNCHANGED <<logged_in, conv, key, dead, seeds, tried, broken, decrypted, commands,
                   login, heard>>

SnifferTypeOK ==
    /\ logged_in \in BOOLEAN
    /\ conv \in [Sides -> 0 .. NConns]
    /\ key \in Key
    /\ dead \in BOOLEAN
    /\ seeds \in 0 .. NConns
    /\ waiting \in Seq(Message)
    /\ tried \in 0 .. RecoveryTries
    /\ broken \in BOOLEAN /\ decrypted \in BOOLEAN
    /\ commands \subseteq Message
    /\ login \in 0 .. NConns
    /\ told \subseteq 0 .. NConns
    /\ heard \subseteq [login : 0 .. NConns, keys : SUBSET VideoKeys]
=============================================================================
