--------------------------- MODULE SubtitleProofs ---------------------------
(***************************************************************************)
(* The subtitle store, for any files, any history of them and any number of *)
(* faults: the marker tells the truth about the files, and a sync that was  *)
(* cut short is taken up again.                                             *)
(***************************************************************************)
EXTENDS Subtitles, TLAPS

Fetching == pc \in {"archive", "tree", "write", "writing", "marking"}
Writing == pc \in {"write", "writing", "marking"}

\* The commit of the sync was upstream's when it was asked for, and not the
\* stored one.
CommitInv ==
    Fetching =>
        /\ commit \in Commits /\ commit.v <= HeadOf(commit.src)
        /\ marker.src = commit.src => marker.v < commit.v
        /\ pc = "archive" => commit.src = "gitlab"
        /\ pc = "tree" => commit.src = "github"

\* The files are of that commit's version, or of one that came between the
\* commit query and the archive.
VersionInv ==
    Writing =>
        /\ commit.v <= got /\ got <= head
        /\ commit.src = "github" => got = commit.v

\* Those the sync is through with are in place.
FilesInv ==
    Writing => \A p \in InTree(got) \ todo : store[p] = Tree[got][p]

PlaceInv ==
    /\ pc = "writing" => file \in todo /\ file \in touched
    /\ pc = "marking" => todo = {} /\ marker = NoCommit

\* A later sync of one source saw a commit that came after the marker's.
RetryInv ==
    \A src \in Sources :
        touched # {} /\ blame = {src} /\ marker.src = src => marker.v < HeadOf(src)

StoreInv ==
    /\ TypeOK /\ CommitInv /\ VersionInv /\ FilesInv /\ PlaceInv
    /\ MarkerIsTrue /\ RetryInv

\* A step of upstream's: its versions only grow.
Upstream == Commit \/ MirrorFollows

\* The steps that change neither the disk nor what the sync has in hand, and
\* reach no label where that matters.
RestAction ==
    \/ StartSync \/ EndBatch \/ (\E src \in Sources : UpToDate(src))
    \/ RequestFails \/ HeedCancel \/ WriteFails \/ CancelSync \/ Kill \/ UNCHANGED vars

RestStep ==
    /\ UNCHANGED <<upstreamVars, diskVars, syncVars, noteVars>>
    /\ pc' = pc \/ pc' \in {"off", "gitlab", "github", "batch"}
    /\ cancelled' \in BOOLEAN /\ faults' \in Nat

LEMMA NextCases ==
    ASSUME [Next]_vars
    PROVE  \/ Upstream \/ RestAction
           \/ \E src \in Sources : UpdateFound(src)
           \/ FetchArchive \/ FetchTree \/ OpenFile \/ WriteFile \/ OpenMarker \/ WriteMarker
BY DEF Next, Sync, Upstream, RestAction

LEMMA RestSteps == ASSUME TypeOK, RestAction PROVE RestStep
<1> USE DEF RestStep, Goto, Fine, Fault, TypeOK, Sources
<1>1. CASE StartSync \/ EndBatch
  BY <1>1 DEF StartSync, EndBatch
<1>5. CASE CancelSync \/ Kill
  <2>1. UNCHANGED <<upstreamVars, diskVars, syncVars, noteVars>>
    BY <1>5 DEF CancelSync, Kill
  <2>2. (pc' = pc \/ pc' = "off") /\ cancelled' \in BOOLEAN
    BY <1>5 DEF CancelSync, Kill
  <2>3. faults' \in Nat
    BY <1>5 DEF CancelSync, Kill
  <2> QED BY <2>1, <2>2, <2>3
<1>2. CASE \E src \in Sources : UpToDate(src)
  BY <1>2 DEF UpToDate
<1>3. CASE RequestFails \/ HeedCancel \/ WriteFails
  BY <1>3 DEF RequestFails, HeedCancel, WriteFails
<1>4. CASE UNCHANGED vars
  BY <1>4 DEF vars
<1> QED BY <1>1, <1>2, <1>3, <1>4, <1>5 DEF RestAction

LEMMA HeadsGrow ==
    ASSUME TypeOK, Upstream
    PROVE  /\ head' \in Versions /\ mirror' \in 1 .. head' /\ head <= head'
           /\ \A src \in Sources : HeadOf(src) <= HeadOf(src)' /\ HeadOf(src)' \in Versions
BY SubtitlesAssumption DEF TypeOK, Upstream, Commit, MirrorFollows, HeadOf, Versions, Sources

LEMMA NoCommitIsNone == NoCommit.src \notin Sources /\ NoCommit \notin Commits
BY DEF NoCommit, Sources, Commits

-----------------------------------------------------------------------------
LEMMA StoreInit == Init => StoreInv
<1> SUFFICES ASSUME Init PROVE StoreInv
  OBVIOUS
<1>1. TypeOK
  <2>1. head \in Versions /\ mirror \in 1 .. head /\ got \in Versions /\ faults \in Nat
    BY SubtitlesAssumption DEF Init, Versions
  <2>2. store \in [Paths -> Nat \cup {Torn}] /\ todo \subseteq Paths /\ file \in Paths
    BY DEF Init, Missing
  <2>3. shared \in BOOLEAN /\ cancelled \in BOOLEAN
    BY SubtitlesAssumption DEF Init
  <2>4. /\ marker = NoCommit /\ commit = NoCommit /\ pc \in Labels
        /\ touched \subseteq Paths /\ blame \subseteq Sources
    BY DEF Init, Labels
  <2> QED BY <2>1, <2>2, <2>3, <2>4 DEF TypeOK
<1>2. CommitInv /\ VersionInv /\ FilesInv /\ PlaceInv /\ MarkerIsTrue /\ RetryInv
  BY DEF Init, CommitInv, VersionInv, FilesInv, PlaceInv, MarkerIsTrue, RetryInv, Fetching, Writing
<1> QED BY <1>1, <1>2 DEF StoreInv

\* Upstream moving on changes nothing here that the invariant forbids.
LEMMA UpstreamKeeps == StoreInv /\ Upstream => StoreInv'
<1> SUFFICES ASSUME StoreInv, Upstream PROVE StoreInv'
  OBVIOUS
<1>1. UNCHANGED <<shared, diskVars, syncVars, noteVars, pc, cancelled, faults>>
  BY DEF Upstream, Commit, MirrorFollows
<1> USE <1>1, HeadsGrow, SubtitlesAssumption DEF StoreInv, diskVars, syncVars, noteVars
<1>2. TypeOK'
  BY NoCommitIsNone DEF TypeOK, Versions, Commits, HeadOf, Sources
<1>3. CommitInv'
  BY DEF CommitInv, Fetching, Commits, HeadOf, Sources, Versions, TypeOK
<1>4. VersionInv' /\ FilesInv' /\ PlaceInv'
  BY DEF VersionInv, FilesInv, PlaceInv, Writing, InTree, TypeOK, Versions, CommitInv, Commits,
     Fetching
<1>5. MarkerIsTrue'
  <2>1. \A v \in Int : v <= head => v <= head'
    BY DEF TypeOK, Versions
  <2>2. \A v \in marker.v .. head : v \in marker.v .. head'
    BY <2>1 DEF TypeOK, Versions
  <2> QED BY <2>2 DEF MarkerIsTrue, InTree
<1>6. RetryInv'
  <2> SUFFICES ASSUME NEW src \in Sources, touched # {} /\ blame = {src} /\ marker.src = src
               PROVE  marker.v < HeadOf(src)'
    BY DEF RetryInv
  <2>1. marker \in Commits /\ marker.v < HeadOf(src)
    BY NoCommitIsNone DEF RetryInv, TypeOK
  <2>2. HeadOf(src) <= HeadOf(src)' /\ HeadOf(src)' \in Versions /\ HeadOf(src) \in Versions
    BY DEF HeadOf, TypeOK, Versions
  <2> QED BY <2>1, <2>2 DEF Commits, Versions
<1> QED BY <1>2, <1>3, <1>4, <1>5, <1>6

LEMMA RestKeeps == StoreInv /\ RestAction => StoreInv'
<1> SUFFICES ASSUME StoreInv, RestAction PROVE StoreInv'
  OBVIOUS
<1>1. RestStep
  BY RestSteps DEF StoreInv
<1> USE <1>1 DEF RestStep, StoreInv, upstreamVars, diskVars, syncVars, noteVars
<1>2. TypeOK'
  BY DEF TypeOK, HeadOf, Labels
<1>3. CommitInv' /\ VersionInv' /\ FilesInv' /\ PlaceInv'
  BY DEF CommitInv, VersionInv, FilesInv, PlaceInv, Fetching, Writing, HeadOf, InTree
<1>4. MarkerIsTrue' /\ RetryInv'
  BY DEF MarkerIsTrue, RetryInv, InTree, HeadOf
<1> QED BY <1>2, <1>3, <1>4

\* A commit that is not the stored one is later than it, if both are of one
\* source.
LEMMA FoundIsLater ==
    ASSUME TypeOK, NEW src \in Sources, marker.src = src,
           ~IsStored([src |-> src, v |-> HeadOf(src)])
    PROVE  marker.v < HeadOf(src)
<1>1. marker # NoCommit /\ marker \in Commits
  BY NoCommitIsNone DEF TypeOK
<1>2. marker.v <= HeadOf(src) /\ marker.v # HeadOf(src)
  BY <1>1 DEF TypeOK, IsStored
<1> QED
  BY <1>1, <1>2, SubtitlesAssumption DEF Commits, Versions, HeadOf, TypeOK

LEMMA FoundKeeps == StoreInv /\ (\E src \in Sources : UpdateFound(src)) => StoreInv'
<1> SUFFICES ASSUME StoreInv, NEW src \in Sources, UpdateFound(src) PROVE StoreInv'
  OBVIOUS
<1>1. /\ commit' = [src |-> src, v |-> HeadOf(src)]
      /\ pc' = IF src = "gitlab" THEN "archive" ELSE "tree"
      /\ UNCHANGED <<upstreamVars, diskVars, got, todo, file, noteVars, cancelled, faults>>
  BY DEF UpdateFound, Goto, Fine
<1>2. HeadOf(src) \in Versions
  BY SubtitlesAssumption DEF StoreInv, TypeOK, HeadOf, Versions
<1>3. commit' \in Commits /\ commit'.v = HeadOf(src) /\ commit'.src = src
  BY <1>1, <1>2 DEF Commits
<1>4. TypeOK'
  BY <1>1, <1>3 DEF StoreInv, TypeOK, HeadOf, Labels, upstreamVars, diskVars, noteVars
<1>5. CommitInv'
  <2>1. marker'.src = src => marker'.v < commit'.v
    BY <1>1, <1>3, FoundIsLater DEF StoreInv, UpdateFound, diskVars
  <2>2. (commit.v <= HeadOf(commit.src))'
    BY <1>1, <1>2, <1>3, SubtitlesAssumption DEF HeadOf, upstreamVars, Versions
  <2> QED BY <1>1, <1>3, <2>1, <2>2 DEF CommitInv, Sources
<1>6. VersionInv' /\ FilesInv' /\ PlaceInv'
  BY <1>1 DEF VersionInv, FilesInv, PlaceInv, Writing
<1>7. MarkerIsTrue' /\ RetryInv'
  BY <1>1 DEF StoreInv, MarkerIsTrue, RetryInv, InTree, HeadOf, upstreamVars, diskVars, noteVars
<1> QED BY <1>4, <1>5, <1>6, <1>7 DEF StoreInv

LEMMA FetchKeeps == StoreInv /\ (FetchArchive \/ FetchTree) => StoreInv'
<1> SUFFICES ASSUME StoreInv, FetchArchive \/ FetchTree PROVE StoreInv'
  OBVIOUS
<1>1. /\ UNCHANGED <<upstreamVars, diskVars, commit, file, noteVars, cancelled, faults>>
      /\ pc \in {"archive", "tree"} /\ pc' \in {"write", "batch"}
  BY DEF FetchArchive, FetchTree, Goto, Fine
<1>2. commit \in Commits /\ commit.v \in Versions /\ commit.v <= head
  BY <1>1, SubtitlesAssumption
     DEF StoreInv, CommitInv, Fetching, Commits, HeadOf, TypeOK, Versions, Sources
<1>3. /\ got' \in Versions /\ commit.v <= got' /\ got' <= head
      /\ commit.src = "github" => got' = commit.v
  BY <1>2, SubtitlesAssumption
     DEF FetchArchive, FetchTree, StoreInv, CommitInv, Fetching, TypeOK, Versions
<1>4. todo' \subseteq Paths
  BY DEF FetchArchive, FetchTree, InTree
<1>5. \A p \in InTree(got') \ todo' : store[p] = Tree[got'][p]
  BY DEF FetchArchive, FetchTree
<1>6. TypeOK'
  BY <1>1, <1>3, <1>4 DEF StoreInv, TypeOK, HeadOf, Labels, upstreamVars, diskVars, noteVars
<1>7. CommitInv'
  BY <1>1 DEF StoreInv, CommitInv, Fetching, HeadOf, upstreamVars, diskVars
<1>8. VersionInv' /\ FilesInv' /\ PlaceInv'
  BY <1>1, <1>3, <1>5
     DEF VersionInv, FilesInv, PlaceInv, Writing, InTree, upstreamVars, diskVars
<1>9. MarkerIsTrue' /\ RetryInv'
  BY <1>1 DEF StoreInv, MarkerIsTrue, RetryInv, InTree, HeadOf, upstreamVars, diskVars, noteVars
<1> QED BY <1>6, <1>7, <1>8, <1>9 DEF StoreInv

\* The file is among the touched from the moment that it is torn.
LEMMA OpenKeeps == StoreInv /\ OpenFile => StoreInv'
<1> SUFFICES ASSUME StoreInv, OpenFile PROVE StoreInv'
  OBVIOUS
<1>1. /\ UNCHANGED <<upstreamVars, marker, commit, got, todo, cancelled, faults>>
      /\ pc = "write" /\ pc' = "writing"
      /\ file' \in todo
      /\ store' = [store EXCEPT ![file'] = Torn]
      /\ touched' = touched \cup {file'}
      /\ blame' = blame \cup {commit.src}
  BY DEF OpenFile, Goto, Fine
<1>2. todo \subseteq Paths /\ commit.src \in Sources
  BY <1>1 DEF StoreInv, TypeOK, CommitInv, Fetching, Commits
<1>3. \A p \in Paths : p # file' => store'[p] = store[p]
  BY <1>1 DEF StoreInv, TypeOK
<1>4. TypeOK'
  BY <1>1, <1>2 DEF StoreInv, TypeOK, HeadOf, Labels, upstreamVars
<1>5. CommitInv' /\ VersionInv' /\ PlaceInv'
  BY <1>1 DEF StoreInv, CommitInv, VersionInv, PlaceInv, Fetching, Writing, HeadOf, upstreamVars
<1>6. FilesInv'
  BY <1>1, <1>3 DEF StoreInv, FilesInv, Writing, InTree
<1>7. MarkerIsTrue'
  BY <1>1, <1>3 DEF StoreInv, MarkerIsTrue, InTree, upstreamVars
<1>8. RetryInv'
  <2> SUFFICES ASSUME NEW src \in Sources, blame' = {src}, marker.src = src
               PROVE  marker.v < HeadOf(src)
    BY <1>1 DEF RetryInv, HeadOf, upstreamVars
  <2>1. commit.src = src
    BY <1>1
  <2>2. marker.v < commit.v /\ commit.v <= HeadOf(src) /\ commit.v \in Versions
    BY <1>1, <2>1 DEF StoreInv, CommitInv, Fetching, Commits
  <2>3. marker \in Commits /\ HeadOf(src) \in Versions
    BY NoCommitIsNone, SubtitlesAssumption DEF StoreInv, TypeOK, HeadOf, Versions
  <2> QED BY <2>2, <2>3, SubtitlesAssumption DEF Commits, Versions
<1> QED BY <1>4, <1>5, <1>6, <1>7, <1>8 DEF StoreInv

LEMMA WriteKeeps == StoreInv /\ WriteFile => StoreInv'
<1> SUFFICES ASSUME StoreInv, WriteFile PROVE StoreInv'
  OBVIOUS
<1>1. /\ UNCHANGED <<upstreamVars, marker, commit, got, file, noteVars, cancelled, faults>>
      /\ pc = "writing" /\ pc' = "write"
      /\ store' = [store EXCEPT ![file] = Tree[got][file]]
      /\ todo' = todo \ {file}
  BY DEF WriteFile, Goto, Fine
<1>2. file \in Paths /\ file \in touched /\ Tree[got][file] \in Nat
  BY <1>1, SubtitlesAssumption DEF StoreInv, TypeOK, PlaceInv
<1>3. store'[file] = Tree[got][file] /\ \A p \in Paths : p # file => store'[p] = store[p]
  BY <1>1, <1>2 DEF StoreInv, TypeOK
<1>4. TypeOK'
  BY <1>1, <1>2 DEF StoreInv, TypeOK, HeadOf, Labels, upstreamVars, noteVars
<1>5. CommitInv' /\ VersionInv' /\ PlaceInv'
  BY <1>1 DEF StoreInv, CommitInv, VersionInv, PlaceInv, Fetching, Writing, HeadOf, upstreamVars
<1>6. FilesInv'
  BY <1>1, <1>3 DEF StoreInv, FilesInv, Writing, InTree
<1>7. MarkerIsTrue' /\ RetryInv'
  BY <1>1, <1>2, <1>3
     DEF StoreInv, MarkerIsTrue, RetryInv, InTree, HeadOf, upstreamVars, noteVars
<1> QED BY <1>4, <1>5, <1>6, <1>7 DEF StoreInv

LEMMA OpenMarkerKeeps == StoreInv /\ OpenMarker => StoreInv'
<1> SUFFICES ASSUME StoreInv, OpenMarker PROVE StoreInv'
  OBVIOUS
<1>1. /\ UNCHANGED <<upstreamVars, store, syncVars, noteVars, cancelled>>
      /\ pc = "write" /\ todo = {}
      /\ \/ pc' = "marking" /\ marker' = NoCommit
         \/ pc' = "batch" /\ marker' = marker
      /\ faults' \in Nat
  BY DEF OpenMarker, Goto, Fine, Fault, StoreInv, TypeOK
<1>2. TypeOK'
  BY <1>1 DEF StoreInv, TypeOK, HeadOf, Labels, upstreamVars, syncVars, noteVars
<1>3. CommitInv'
  BY <1>1, NoCommitIsNone
     DEF StoreInv, CommitInv, Fetching, HeadOf, Commits, upstreamVars, syncVars
<1>4. VersionInv' /\ FilesInv' /\ PlaceInv'
  BY <1>1 DEF StoreInv, VersionInv, FilesInv, PlaceInv, Writing, InTree, upstreamVars, syncVars
<1>5. MarkerIsTrue' /\ RetryInv'
  BY <1>1, NoCommitIsNone
     DEF StoreInv, MarkerIsTrue, RetryInv, InTree, HeadOf, upstreamVars, noteVars
<1> QED BY <1>2, <1>3, <1>4, <1>5 DEF StoreInv

\* The marker is written over files that are all in place.
LEMMA WriteMarkerKeeps == StoreInv /\ WriteMarker => StoreInv'
<1> SUFFICES ASSUME StoreInv, WriteMarker PROVE StoreInv'
  OBVIOUS
<1>1. /\ UNCHANGED <<upstreamVars, store, syncVars, cancelled>>
      /\ pc = "marking" /\ pc' = "batch"
      /\ \/ marker' = commit /\ touched' = {} /\ blame' = {}
         \/ UNCHANGED <<marker, noteVars>>
      /\ faults' \in Nat
  BY DEF WriteMarker, Goto, Fine, Fault, StoreInv, TypeOK
<1>2. commit \in Commits /\ commit.v <= HeadOf(commit.src)
  BY <1>1 DEF StoreInv, CommitInv, Fetching
<1>3. TypeOK'
  BY <1>1, <1>2 DEF StoreInv, TypeOK, HeadOf, Labels, upstreamVars, syncVars, noteVars
<1>4. CommitInv' /\ VersionInv' /\ FilesInv' /\ PlaceInv'
  BY <1>1 DEF CommitInv, VersionInv, FilesInv, PlaceInv, Fetching, Writing
<1>5. RetryInv'
  BY <1>1 DEF StoreInv, RetryInv, HeadOf, upstreamVars, noteVars
<1>6. MarkerIsTrue'
  <2>1. CASE marker' = commit /\ touched' = {}
    <3>1. /\ got \in commit.v .. head
          /\ commit.src = "github" => got = commit.v
          /\ \A p \in InTree(got) : store[p] = Tree[got][p]
      BY <1>1, <1>2, SubtitlesAssumption
         DEF StoreInv, TypeOK, VersionInv, FilesInv, PlaceInv, Writing, Versions, Commits
    <3> QED
      BY <1>1, <2>1, <3>1 DEF MarkerIsTrue, InTree, upstreamVars
  <2>2. CASE UNCHANGED <<marker, noteVars>>
    BY <1>1, <2>2 DEF StoreInv, MarkerIsTrue, InTree, upstreamVars, noteVars
  <2> QED BY <1>1, <2>1, <2>2
<1> QED BY <1>3, <1>4, <1>5, <1>6 DEF StoreInv

-----------------------------------------------------------------------------
THEOREM StoreInvariant == Spec => []StoreInv
<1>1. StoreInv /\ [Next]_vars => StoreInv'
  BY NextCases, UpstreamKeeps, RestKeeps, FoundKeeps, FetchKeeps, OpenKeeps, WriteKeeps,
     OpenMarkerKeeps, WriteMarkerKeeps
<1> QED BY StoreInit, <1>1, PTL DEF Spec

\* Every variable of the store has its type.
THEOREM TypeTheorem == Spec => []TypeOK
<1>1. StoreInv => TypeOK
  BY DEF StoreInv
<1> QED BY <1>1, StoreInvariant, PTL

\* What .sync.json says is true of every file that no later sync tore
\* (src/resources/subtitles.py:178-187).
THEOREM MarkerTheorem == Spec => []MarkerIsTrue
<1>1. StoreInv => MarkerIsTrue
  BY DEF StoreInv
<1> QED BY <1>1, StoreInvariant, PTL

\* A sync that was cut short is taken up by the next one that reaches the source
\* of it and of the marker.
THEOREM RetryTheorem == Spec => []UnfinishedIsRetried
<1>1. StoreInv => UnfinishedIsRetried
  <2> SUFFICES ASSUME StoreInv, NEW src \in Sources,
                      touched # {} /\ blame = {src} /\ marker.src = src
               PROVE  ~IsStored([src |-> src, v |-> HeadOf(src)])
    BY DEF UnfinishedIsRetried
  <2>1. marker.v < HeadOf(src) /\ marker \in Commits
    BY NoCommitIsNone DEF StoreInv, RetryInv, TypeOK
  <2>2. HeadOf(src) \in Int
    BY SubtitlesAssumption DEF StoreInv, TypeOK, HeadOf, Versions
  <2> QED
    BY <2>1, <2>2, SubtitlesAssumption DEF IsStored, Commits, Versions
<1> QED BY <1>1, StoreInvariant, PTL
=============================================================================
