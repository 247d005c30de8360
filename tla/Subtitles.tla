----------------------------- MODULE Subtitles ------------------------------
(***************************************************************************)
(* The subtitle store (src/resources/subtitles.py): sync_subtitles, which   *)
(* every batch calls first, file by file, with upstream moving on meanwhile *)
(* and the process cancelled, killed or refused the disk at any point.      *)
(*                                                                          *)
(* Upstream is a GitLab project and a GitHub mirror of it that may lag.  A  *)
(* version is what the last commit that touched Subtitle/ left there, and   *)
(* a file is abstracted to which of its contents it holds.                  *)
(***************************************************************************)
EXTENDS Integers

CONSTANTS
    Paths,          \* subtitle files that some version has (is_subtitle)
    NVersions,      \* bound: upstream's versions are 1 .. NVersions
    Tree,           \* Tree[v][p]: the contents of p in version v, Missing if it has none
    SharedIds,      \* whether a version may have one commit ID at both of them
    MaxFaults       \* bound: cancels, kills, failed requests and failed writes in all

Versions == 1 .. NVersions
Sources == {"gitlab", "github"}

\* Not there, and cut short while being written.
Missing == 0
Torn == -1

\* .sync.json is not there or does not parse; stored_commit gives "".
NoCommit == [src |-> "none", v |-> 0]

ASSUME SubtitlesAssumption ==
    /\ NVersions \in Nat \ {0}
    /\ Tree \in [Versions -> [Paths -> Nat]]
    /\ SharedIds \subseteq BOOLEAN
    /\ MaxFaults \in Nat

VARIABLES
    head, mirror,   \* the version at GitLab and in the mirror
    shared,         \* they give it the same commit ID
    store,          \* the files under Subtitle/
    marker,         \* .sync.json
    pc,
    commit,         \* the commit that the sync is for
    got,            \* the version that its files are from
    todo,           \* files still to write
    file,           \* the one being written
    cancelled,
    faults,
    \* kept for the properties
    touched,        \* files written since the marker was, by syncs that did not finish
    blame           \* the sources of those syncs

upstreamVars == <<head, mirror, shared>>
diskVars == <<store, marker>>
syncVars == <<commit, got, todo, file>>
noteVars == <<touched, blame>>
vars == <<upstreamVars, diskVars, syncVars, noteVars, pc, cancelled, faults>>

HeadOf(src) == IF src = "gitlab" THEN head ELSE mirror

InTree(v) == {p \in Paths : Tree[v][p] # Missing}

\* commit == stored_commit()
IsStored(c) == marker # NoCommit /\ c.v = marker.v /\ (shared \/ c.src = marker.src)

Init ==
    /\ head = 1 /\ mirror = 1 /\ shared \in SharedIds
    /\ store = [p \in Paths |-> Missing] /\ marker = NoCommit
    /\ pc = "off"
    /\ commit = NoCommit /\ got = 1 /\ todo = {} /\ file \in Paths
    /\ cancelled = FALSE /\ faults = 0
    /\ touched = {} /\ blame = {}

Goto(label) == pc' = label
Fault == faults < MaxFaults /\ faults' = faults + 1
Fine == UNCHANGED faults

-----------------------------------------------------------------------------
\* Upstream, external: a commit is made, and the mirror follows in its time.
Commit ==
    /\ head < NVersions
    /\ head' = head + 1
    /\ UNCHANGED <<mirror, shared, diskVars, syncVars, noteVars, pc, cancelled, faults>>

MirrorFollows ==
    /\ mirror < head
    /\ mirror' \in mirror + 1 .. head
    /\ UNCHANGED <<head, shared, diskVars, syncVars, noteVars, pc, cancelled, faults>>

\* main.run calls sync_subtitles.
StartSync ==
    /\ pc = "off"
    /\ Goto("gitlab") /\ Fine
    /\ cancelled' = FALSE
    /\ UNCHANGED <<upstreamVars, diskVars, syncVars, noteVars>>

\* The batch that follows ends; it reads the store as the sync left it.
EndBatch ==
    /\ pc = "batch"
    /\ Goto("off") /\ Fine
    /\ UNCHANGED <<upstreamVars, diskVars, syncVars, noteVars, cancelled>>

-----------------------------------------------------------------------------
\* gitlab_commit or github_commit answers, and the store is at that commit.
UpToDate(src) ==
    /\ pc = src
    /\ IsStored([src |-> src, v |-> HeadOf(src)])
    /\ Goto("batch") /\ Fine
    /\ UNCHANGED <<upstreamVars, diskVars, syncVars, noteVars, cancelled>>

\* The mirror is asked for the commit that GitLab gave.
MutantUpdateFound(src) ==
    /\ pc = src
    /\ commit' = [src |-> src, v |-> head]
    /\ Goto(IF src = "gitlab" THEN "archive" ELSE "tree") /\ Fine
    /\ UNCHANGED <<upstreamVars, diskVars, got, todo, file, noteVars, cancelled>>

UpdateFound(src) ==
    /\ pc = src
    /\ ~IsStored([src |-> src, v |-> HeadOf(src)])
    /\ commit' = [src |-> src, v |-> HeadOf(src)]
    /\ Goto(IF src = "gitlab" THEN "archive" ELSE "tree") /\ Fine
    /\ UNCHANGED <<upstreamVars, diskVars, got, todo, file, noteVars, cancelled>>

\* The commit is asked for after the archive instead of before it.
MutantFetchArchive ==
    /\ pc = "archive"
    /\ got' \in commit.v .. head
    /\ commit' = [commit EXCEPT !.v = head]
    /\ todo' = InTree(got')
    /\ Goto(IF todo' = {} THEN "batch" ELSE "write") /\ Fine
    /\ UNCHANGED <<upstreamVars, diskVars, file, noteVars, cancelled>>

\* gitlab_archive: the files of main, which may have moved on since.
FetchArchive ==
    /\ pc = "archive"
    /\ got' = head
    /\ todo' = InTree(head)
    /\ Goto(IF todo' = {} THEN "batch" ELSE "write") /\ Fine
    /\ UNCHANGED <<upstreamVars, diskVars, commit, file, noteVars, cancelled>>

\* The marker is written before the files are.
MutantFetchTree ==
    /\ pc = "tree"
    /\ got' = commit.v
    /\ todo' = {p \in InTree(commit.v) : store[p] # Tree[commit.v][p]}
    /\ marker' = commit
    /\ Goto("write") /\ Fine
    /\ UNCHANGED <<upstreamVars, store, commit, file, noteVars, cancelled>>

\* github_changes: the files of that very commit whose cached copy differs.
FetchTree ==
    /\ pc = "tree"
    /\ got' = commit.v
    /\ todo' = {p \in InTree(commit.v) : store[p] # Tree[commit.v][p]}
    /\ Goto("write") /\ Fine
    /\ UNCHANGED <<upstreamVars, diskVars, commit, file, noteVars, cancelled>>

\* A request fails: a CharlotteError, after which the mirror is tried, or
\* nothing more.  A member of the archive that does not unpack is another
\* exception, which ends the program.
RequestFails ==
    /\ \/ pc \in {"gitlab", "archive"} /\ Goto("github")
       \/ pc = "archive" /\ Goto("off")
       \/ pc \in {"github", "tree"} /\ Goto("batch")
       \/ pc = "write" /\ todo # {} /\ commit.src = "github" /\ Goto("batch")
    /\ Fault
    /\ UNCHANGED <<upstreamVars, diskVars, syncVars, noteVars, cancelled>>

-----------------------------------------------------------------------------
\* A cancel breaks the loop instead of leaving the function.
MutantHeedCancel ==
    /\ pc = "write"
    /\ todo # {} /\ cancelled
    /\ todo' = {}
    /\ Fine
    /\ UNCHANGED <<upstreamVars, diskVars, commit, got, file, noteVars, pc, cancelled>>

\* write_subtitles: the loop reads the commands before each file.
HeedCancel ==
    /\ pc = "write"
    /\ todo # {} /\ cancelled
    /\ Goto("batch") /\ Fine
    /\ UNCHANGED <<upstreamVars, diskVars, syncVars, noteVars, cancelled>>

\* target.write_bytes opens the file, which empties it, and then writes.
OpenFile ==
    /\ pc = "write" /\ ~cancelled
    /\ file' \in todo
    /\ store' = [store EXCEPT ![file'] = Torn]
    /\ touched' = touched \cup {file'}
    /\ blame' = blame \cup {commit.src}
    /\ Goto("writing") /\ Fine
    /\ UNCHANGED <<upstreamVars, marker, commit, got, todo, cancelled>>

WriteFile ==
    /\ pc = "writing"
    /\ store' = [store EXCEPT ![file] = Tree[got][file]]
    /\ todo' = todo \ {file}
    /\ Goto("write") /\ Fine
    /\ UNCHANGED <<upstreamVars, marker, commit, got, file, noteVars, cancelled>>

\* An OSError of the open or of the write is logged, and the sync is over.
WriteFails ==
    /\ \/ pc = "write" /\ todo # {} /\ ~cancelled
       \/ pc = "writing"
    /\ Goto("batch") /\ Fault
    /\ UNCHANGED <<upstreamVars, diskVars, syncVars, noteVars, cancelled>>

\* write_commit, after the last file.
OpenMarker ==
    /\ pc = "write" /\ todo = {}
    /\ \/ marker' = NoCommit /\ Goto("marking") /\ Fine
       \/ UNCHANGED marker /\ Goto("batch") /\ Fault
    /\ UNCHANGED <<upstreamVars, store, syncVars, noteVars, cancelled>>

WriteMarker ==
    /\ pc = "marking"
    /\ \/ marker' = commit /\ touched' = {} /\ blame' = {} /\ Fine
       \/ UNCHANGED <<marker, noteVars>> /\ Fault
    /\ Goto("batch")
    /\ UNCHANGED <<upstreamVars, store, syncVars, cancelled>>

-----------------------------------------------------------------------------
Syncing == pc \notin {"off", "batch"}

\* The GUI writes a cancel, or closes its end; the batch is not modelled here.
CancelSync ==
    /\ Syncing /\ ~cancelled
    /\ cancelled' = TRUE
    /\ Fault
    /\ UNCHANGED <<upstreamVars, diskVars, syncVars, noteVars, pc>>

\* The process dies where it stands.
Kill ==
    /\ Syncing
    /\ Goto("off") /\ Fault
    /\ UNCHANGED <<upstreamVars, diskVars, syncVars, noteVars, cancelled>>

Sync ==
    \/ \E src \in Sources : UpToDate(src) \/ UpdateFound(src)
    \/ FetchArchive \/ FetchTree
    \/ HeedCancel \/ OpenFile \/ WriteFile
    \/ OpenMarker \/ WriteMarker

Next ==
    \/ Commit \/ MirrorFollows
    \/ StartSync \/ EndBatch
    \/ Sync
    \/ RequestFails \/ WriteFails
    \/ CancelSync \/ Kill

Spec == Init /\ [][Next]_vars

\* The user converts again and again, and each sync goes on unless a fault
\* ends it: its requests have time limits, and its files are finite.
FairSpec == Spec /\ WF_vars(StartSync \/ EndBatch \/ Sync)

-----------------------------------------------------------------------------
Labels == {"off", "gitlab", "github", "archive", "tree", "write", "writing", "marking", "batch"}
Commits == [src : Sources, v : Versions]

\* Every variable has its type, the mirror is never ahead, and no commit is
\* known before upstream has it.
TypeOK ==
    /\ head \in Versions /\ mirror \in 1 .. head
    /\ store \in [Paths -> Nat \cup {Torn}]
    /\ marker \in Commits \cup {NoCommit}
    /\ marker # NoCommit => marker.v <= HeadOf(marker.src)
    /\ pc \in Labels
    /\ commit \in Commits \cup {NoCommit}
    /\ got \in Versions
    /\ todo \subseteq Paths /\ file \in Paths
    /\ cancelled \in BOOLEAN /\ shared \in BOOLEAN
    /\ faults \in Nat
    /\ touched \subseteq Paths
    /\ blame \subseteq Sources

\* What .sync.json says is true of the files: they are those of one version,
\* the commit's own or one that upstream had by the time of the archive, except
\* for the files that a later sync began to write and did not finish with.  A
\* marker that is newer than the files would keep them stale for good
\* (src/resources/subtitles.py:178-187, 173).
MarkerIsTrue ==
    marker # NoCommit =>
        \E v \in marker.v .. head :
            /\ marker.src = "github" => v = marker.v
            /\ \A p \in InTree(v) \ touched : store[p] = Tree[v][p]

\* "The next run retries" (src/tests/test_subtitles.py:160), as far as the code
\* keeps it: after a sync that was cut short, a run that reaches the source of it
\* and of the marker finds a commit that is not the stored one.
UnfinishedIsRetried ==
    \A src \in Sources :
        touched # {} /\ blame = {src} /\ marker.src = src =>
            ~IsStored([src |-> src, v |-> HeadOf(src)])

\* The store that two sources had a hand in, the second of which did not finish.
Mixed == touched # {} /\ blame \cup {marker.src} = Sources

\* Whatever went wrong before, the store comes to hold every file of GitLab's
\* last version, or it is mixed: the next runs repair what a cancel, a kill, a
\* full disk or a torn marker left.
Settles == <>[](Mixed \/ \A p \in InTree(head) : store[p] = Tree[head][p])
=============================================================================
