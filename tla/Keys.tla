-------------------------------- MODULE Keys --------------------------------
(***************************************************************************)
(* The key store `Keys` (src/resources/keys.py) of a run without --key:     *)
(* keys.json on disk, its copy in memory, one fetch of the upstream file    *)
(* per process, and the two flags that make it stop asking.                 *)
(*                                                                          *)
(* A key file is abstracted to which version it is: "absent" (or empty),    *)
(* "broken" (bytes that are not JSON), the "local" one the program came     *)
(* with, or a "new" one that upstream publishes.  `self.data` is what       *)
(* `self.raw` parses to, so only `raw` is kept.                             *)
(***************************************************************************)
EXTENDS Naturals

CONSTANTS
    LocalStems,     \* inputs whose key the local keys.json lists
    NewStems,       \* inputs whose key the new upstream keys.json lists
    KeysAtFirst,    \* what keys.json may be when the first process starts
    Downloads       \* what the fetch may return

VARIABLES
    keysDisk,       \* keys.json
    raw,            \* self.raw
    declined,       \* self.declined
    nothing,        \* self.nothing_upstream
    fetched         \* the cached result of fetch_upstream_keys

keyVars == <<keysDisk, raw, declined, nothing, fetched>>

Contents == {"absent", "broken", "local", "new"}

ASSUME KeysAssumption ==
    /\ KeysAtFirst \subseteq Contents
    /\ Downloads \subseteq {"none", "broken", "local", "new"}

KeysTypeOK ==
    /\ keysDisk \in Contents
    /\ raw \in Contents
    /\ declined \in BOOLEAN
    /\ nothing \in BOOLEAN
    /\ fetched \in Downloads \cup {"not_yet"}

\* find_video_key and find_stream_keys over a parsed file
Listed(content) ==
    CASE content = "local" -> LocalStems
      [] content = "new" -> NewStems
      [] OTHER -> {}

\* functools.cache: only the first call goes to the network.
Fetch(u) ==
    /\ u \in IF fetched = "not_yet" THEN Downloads ELSE {fetched}
    /\ fetched' = u

-----------------------------------------------------------------------------
\* bootstrap with a keys.json: one that does not parse is never updated.
BootstrapLoad ==
    /\ keysDisk # "absent"
    /\ raw' = keysDisk
    /\ nothing' = (nothing \/ keysDisk = "broken")
    /\ UNCHANGED <<keysDisk, declined, fetched>>

\* bootstrap without one: the download becomes the key store, and is saved
\* unless there is none.
BootstrapFetch(u) ==
    /\ keysDisk = "absent"
    /\ Fetch(u)
    /\ raw' = IF u = "none" THEN "absent" ELSE u
    /\ nothing' = (nothing \/ u = "broken")
    /\ UNCHANGED <<keysDisk, declined>>

\* find: the key is at hand.
FindsLocally(s) == s \in Listed(raw)

\* find: it is not, and an earlier call settled that upstream is no help.
GivesUp(s) == s \notin Listed(raw) /\ (declined \/ nothing)

LooksUpstream(s) == s \notin Listed(raw) /\ ~declined /\ ~nothing

\* find: no download, the file already here, or one that does not parse.
UpstreamUseless(s, u) ==
    /\ LooksUpstream(s)
    /\ Fetch(u)
    /\ u \in {"none", raw, "broken"}
    /\ nothing' = TRUE
    /\ UNCHANGED <<keysDisk, raw, declined>>

\* find: a new file without this key.  Another input may still be in it.
UpstreamLacks(s, u) ==
    /\ LooksUpstream(s)
    /\ Fetch(u)
    /\ u \notin {"none", raw, "broken"}
    /\ s \notin Listed(u)
    /\ UNCHANGED <<keysDisk, raw, declined, nothing>>

\* find: a new file with the key, and the user is asked for leave to take it.
UpstreamHas(s, u) ==
    /\ LooksUpstream(s)
    /\ Fetch(u)
    /\ u \notin {"none", raw, "broken"}
    /\ s \in Listed(u)
    /\ UNCHANGED <<keysDisk, raw, nothing>>

\* The no is forgotten.
MutantDecline == UNCHANGED <<declined, keysDisk, raw, nothing>>

\* find: a no, for this input and for the rest of the batch.
Decline ==
    /\ declined' = TRUE
    /\ UNCHANGED <<keysDisk, raw, nothing>>

\* path.write_bytes opens keys.json, which empties it, and then writes.
\* An OSError of either half is logged and passed over.
SaveRefused == UNCHANGED keyVars

SaveOpens ==
    /\ keysDisk' = "broken"
    /\ UNCHANGED <<raw, declined, nothing, fetched>>

SaveWrites(complete) ==
    /\ keysDisk' = IF complete THEN fetched ELSE "broken"
    /\ UNCHANGED <<raw, declined, nothing, fetched>>

\* find, after the save: the download is used whether or not it was saved.
Adopt ==
    /\ raw' = fetched
    /\ UNCHANGED <<keysDisk, declined, nothing, fetched>>

KeysStart ==
    /\ raw' = "absent" /\ declined' = FALSE /\ nothing' = FALSE
    /\ fetched' = "not_yet"
    /\ UNCHANGED keysDisk

KeysInit ==
    /\ keysDisk \in KeysAtFirst
    /\ raw = "absent" /\ declined = FALSE /\ nothing = FALSE
    /\ fetched = "not_yet"
=============================================================================
