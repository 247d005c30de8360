------------------------------- MODULE Update -------------------------------
(***************************************************************************)
(* The self updater (src/utils/update.py): the files of the install folder, *)
(* their .old backups and the downloaded bundle, as one process after       *)
(* another clears the backups, updates, rolls back, fails or is killed.     *)
(***************************************************************************)
EXTENDS Naturals, Sequences

CONSTANTS
    NFiles,     \* the bundle holds the files 1 .. NFiles, in its order
    Exe,        \* the one that is the program
    Added,      \* the ones that the old version does not have
    MayOverlap, \* another process of the program may start at any time
    MaxRuns,    \* bound: processes started one after the other
    MaxKills    \* bound: how many of them are killed

Files == 1 .. NFiles

ASSUME UpdateAssumption ==
    /\ NFiles \in Nat
    /\ Added \subseteq Files
    /\ Exe \in Files \ Added
    /\ MayOverlap \in BOOLEAN
    /\ {MaxRuns, MaxKills} \subseteq Nat

Contents == {"none", "old", "new", "torn"}

VARIABLES
    \* the install folder
    disk,       \* each file
    stale,      \* its backup, with .old after its name
    bundle,     \* charlotte-update.zip: "none", "partial", "bad" or "good"
    \* the process
    pc,
    at,         \* the file that install_bundle or roll_back is at
    installed,  \* the files install_bundle got to, each with whether it has a backup
    \* what it says
    event,      \* the update_install event: "installed", "failed" or "none"
    unrestored, \* files that roll_back could not bring back
    byHand,     \* files the user was told, at any time, to restore from the backup
    \* kept for the properties and the bounds
    before,     \* the files when the process started
    cleared,    \* backups that another process cleared since
    runs, kills

folderVars == <<disk, stale, bundle>>
saidVars == <<event, unrestored, byHand>>
noteVars == <<before, cleared, runs, kills>>
vars == <<folderVars, pc, at, installed, saidVars, noteVars>>

Alive == pc # "off"

Init ==
    /\ disk = [f \in Files |-> IF f \in Added THEN "none" ELSE "old"]
    /\ stale = [f \in Files |-> "none"]
    /\ bundle = "none"
    /\ pc = "off" /\ at = 1 /\ installed = <<>>
    /\ event = "none" /\ unrestored = {} /\ byHand = {}
    /\ before = disk /\ cleared = {}
    /\ runs = 0 /\ kills = 0

-----------------------------------------------------------------------------
\* A process starts, of whatever program there is.
StartProcess ==
    /\ ~Alive
    /\ runs < MaxRuns
    /\ disk[Exe] \in {"old", "new"}
    /\ runs' = runs + 1
    /\ pc' = "clear"
    /\ at' = 1 /\ installed' = <<>> /\ event' = "none" /\ unrestored' = {}
    /\ before' = disk /\ cleared' = {}
    /\ UNCHANGED <<folderVars, byHand, kills>>

\* A backup that cannot be deleted stays.
Clear(kept) == stale' = [f \in Files |-> IF f \in kept THEN stale[f] ELSE "none"]

\* main.run calls clear_stale_files first, in every mode.
ClearStaleFiles ==
    /\ pc = "clear"
    /\ \E kept \in SUBSET Files : Clear(kept)
    /\ pc' = "ask"
    /\ UNCHANGED <<disk, bundle, at, installed, saidVars, noteVars>>

\* So does a process that the GUI or the user starts in the meantime.
OtherProcess ==
    /\ MayOverlap
    /\ Alive /\ disk[Exe] \in {"old", "new"}
    /\ \E kept \in SUBSET Files :
           /\ Clear(kept)
           /\ cleared' = cleared \cup (Files \ kept)
    /\ UNCHANGED <<disk, bundle, pc, at, installed, saidVars, before, runs, kills>>

\* The process has other things to do, or finds no newer version, or the user
\* says no.
NoUpdate ==
    /\ pc = "ask"
    /\ pc' = "off"
    /\ UNCHANGED <<folderVars, at, installed, saidVars, noteVars>>

\* apply_update: the download opens its file, which empties one that a killed
\* process left, or the release has no bundle or no digest.
Accept ==
    /\ pc = "ask"
    /\ disk[Exe] = "old"
    /\ \/ pc' = "download" /\ bundle' = "partial"
       \/ pc' = "failed" /\ UNCHANGED bundle
    /\ UNCHANGED <<disk, stale, at, installed, saidVars, noteVars>>

\* The digest is not compared.
MutantDownload ==
    /\ pc = "download"
    /\ \/ bundle' \in {"bad", "good"} /\ pc' = "install"
       \/ UNCHANGED bundle /\ pc' = "giveUp"
    /\ UNCHANGED <<disk, stale, at, installed, saidVars, noteVars>>

\* download_bundle ends with a bundle of the right digest or another, or the
\* user cancels, or the network or the disk fails.
Download ==
    /\ pc = "download"
    /\ \/ bundle' = "good" /\ pc' = "install"
       \/ bundle' = "bad" /\ pc' = "giveUp"
       \/ UNCHANGED bundle /\ pc' = "giveUp"
    /\ UNCHANGED <<disk, stale, at, installed, saidVars, noteVars>>

\* install_bundle, for the next file: the one in place becomes its backup.
MoveAside ==
    /\ pc = "install" /\ at <= NFiles
    /\ \/ /\ disk[at] = "none"
          /\ installed' = Append(installed, [file |-> at, backup |-> FALSE])
          /\ UNCHANGED <<disk, stale>>
       \/ /\ disk[at] # "none"
          /\ stale' = [stale EXCEPT ![at] = disk[at]]
          /\ disk' = [disk EXCEPT ![at] = "none"]
          /\ installed' = Append(installed, [file |-> at, backup |-> TRUE])
    /\ pc' = "open"
    /\ UNCHANGED <<bundle, at, saidVars, noteVars>>

\* write_bytes opens the new file, and then writes it.
OpenNew ==
    /\ pc = "open"
    /\ disk' = [disk EXCEPT ![at] = "torn"]
    /\ pc' = "write"
    /\ UNCHANGED <<stale, bundle, at, installed, saidVars, noteVars>>

WriteNew ==
    /\ pc = "write"
    /\ disk' = [disk EXCEPT ![at] = "new"]
    /\ at' = at + 1
    /\ pc' = "install"
    /\ UNCHANGED <<stale, bundle, installed, saidVars, noteVars>>

\* An OSError of the mkdir, the rename, the open or the write.
InstallFails ==
    /\ pc \in {"install", "open", "write"} /\ at <= NFiles
    /\ pc' = "roll" /\ at' = 1
    /\ UNCHANGED <<folderVars, installed, saidVars, noteVars>>

\* A bundle that is no zip, or one whose names lead out of the folder.
BadBundle ==
    /\ pc = "install" /\ at = 1
    /\ pc' = "giveUp"
    /\ UNCHANGED <<folderVars, at, installed, saidVars, noteVars>>

\* A file without a backup is left as it is.
MutantRestore ==
    /\ pc = "roll" /\ at <= Len(installed)
    /\ LET f == installed[at].file
       IN  IF installed[at].backup
           THEN /\ stale[f] # "none"
                /\ disk' = [disk EXCEPT ![f] = stale[f]]
                /\ stale' = [stale EXCEPT ![f] = "none"]
           ELSE UNCHANGED <<disk, stale>>
    /\ at' = at + 1
    /\ UNCHANGED <<bundle, pc, installed, saidVars, noteVars>>

\* roll_back, for the next file: the backup replaces what is there, or what is
\* there goes.
Restore ==
    /\ pc = "roll" /\ at <= Len(installed)
    /\ LET f == installed[at].file
       IN  IF installed[at].backup
           THEN /\ stale[f] # "none"
                /\ disk' = [disk EXCEPT ![f] = stale[f]]
                /\ stale' = [stale EXCEPT ![f] = "none"]
           ELSE disk' = [disk EXCEPT ![f] = "none"] /\ UNCHANGED stale
    /\ at' = at + 1
    /\ UNCHANGED <<bundle, pc, installed, saidVars, noteVars>>

\* An OSError of that is logged, and where there is a backup the user is told to
\* restore the file from it.
RestoreFails ==
    /\ pc = "roll" /\ at <= Len(installed)
    /\ unrestored' = unrestored \cup {installed[at].file}
    /\ byHand' = IF installed[at].backup THEN byHand \cup {installed[at].file} ELSE byHand
    /\ at' = at + 1
    /\ UNCHANGED <<folderVars, pc, installed, event, noteVars>>

\* The exception is not raised again after roll_back.
MutantSettle ==
    /\ \/ pc = "install" /\ at > NFiles
       \/ pc = "roll" /\ at > Len(installed)
    /\ pc' = "finish"
    /\ UNCHANGED <<folderVars, at, installed, saidVars, noteVars>>

\* The end of install_bundle, or of roll_back.
Settle ==
    /\ \/ pc = "install" /\ at > NFiles /\ pc' = "finish"
       \/ pc = "roll" /\ at > Len(installed) /\ pc' = "giveUp"
    /\ UNCHANGED <<folderVars, at, installed, saidVars, noteVars>>

\* The finally clause clears the backups too.
MutantDeleteBundle ==
    /\ pc \in {"finish", "giveUp"}
    /\ bundle' = "none"
    /\ Clear({})
    /\ pc' = IF pc = "finish" THEN "succeeded" ELSE "failed"
    /\ UNCHANGED <<disk, at, installed, saidVars, noteVars>>

\* The finally clause deletes the bundle.
DeleteBundle ==
    /\ pc \in {"finish", "giveUp"}
    /\ bundle' = "none"
    /\ pc' = IF pc = "finish" THEN "succeeded" ELSE "failed"
    /\ UNCHANGED <<disk, stale, at, installed, saidVars, noteVars>>

\* run_update sends what came of it.
Report ==
    /\ pc \in {"succeeded", "failed"}
    /\ event' = IF pc = "succeeded" THEN "installed" ELSE "failed"
    /\ pc' = "off"
    /\ UNCHANGED <<folderVars, at, installed, unrestored, byHand, noteVars>>

\* An exception that no except clause here names ends the process: Ctrl+C
\* anywhere, a damaged member of the zip, an OSError of the finally clause
\* itself, which is how the bundle may stay.
Escape ==
    /\ pc \in {"download", "install", "open", "write", "roll", "finish", "giveUp"}
    /\ bundle' \in {bundle, "none"}
    /\ pc' = "off"
    /\ UNCHANGED <<disk, stale, at, installed, saidVars, noteVars>>

\* The process is killed, or the machine goes down.
Kill ==
    /\ Alive
    /\ kills < MaxKills
    /\ kills' = kills + 1
    /\ pc' = "off"
    /\ UNCHANGED <<folderVars, at, installed, saidVars, before, cleared, runs>>

\* No process is left to start, or there is no program to start.
Idle ==
    /\ ~Alive
    /\ runs = MaxRuns \/ disk[Exe] \notin {"old", "new"}
    /\ UNCHANGED vars

Next ==
    \/ StartProcess \/ ClearStaleFiles \/ OtherProcess \/ NoUpdate \/ Accept \/ Download
    \/ MoveAside \/ OpenNew \/ WriteNew \/ InstallFails \/ BadBundle
    \/ Restore \/ RestoreFails \/ Settle \/ DeleteBundle \/ Report
    \/ Escape \/ Kill \/ Idle

Spec == Init /\ [][Next]_vars

-----------------------------------------------------------------------------
Labels ==
    {"off", "clear", "ask", "download", "install", "open", "write", "roll", "finish", "giveUp",
     "succeeded", "failed"}

\* Every variable has its type, and a file that is being written is on the list
\* that roll_back goes by.
TypeOK ==
    /\ disk \in [Files -> Contents]
    /\ stale \in [Files -> Contents]
    /\ bundle \in {"none", "partial", "bad", "good"}
    /\ pc \in Labels
    /\ at \in Nat \ {0}
    /\ installed \in Seq([file : Files, backup : BOOLEAN])
    /\ event \in {"none", "installed", "failed"}
    /\ unrestored \subseteq Files
    /\ byHand \subseteq Files
    /\ before \in [Files -> Contents]
    /\ cleared \subseteq Files
    /\ runs \in Nat /\ kills \in Nat
    /\ pc \in {"open", "write"} => at \in Files /\ Len(installed) = at

\* An update that is reported as installed is whole: every file of the bundle is
\* in its place, whatever an earlier, broken update left behind.
InstalledIsNew == event = "installed" => \A f \in Files : disk[f] = "new"

\* An update that is reported as failed left every file as it was, except those
\* the log names.
FailureRestores ==
    event = "failed" => \A f \in Files \ unrestored : disk[f] = before[f]

\* Wherever the update ends, whole, by an error, by a kill or by Ctrl+C, each
\* file that the process found is still there, in its place or as its backup,
\* until a process starts that clears the backups.
NothingLost ==
    \A f \in Files \ cleared : before[f] # "none" => before[f] \in {disk[f], stale[f]}

\* Nothing in the folder changes but by a bundle of the right digest, be there
\* another left from a process that was killed.
OnlyVerified == [][disk' # disk => bundle = "good"]_vars

\* "please restore it from {backup} manually" (src/locales/en-US.json:132): the
\* backup of a file that roll_back could not bring back is there for the user.
BackupsKept == \A f \in byHand : disk[f] = "old" \/ stale[f] = "old"
=============================================================================
