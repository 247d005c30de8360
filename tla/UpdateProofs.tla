---------------------------- MODULE UpdateProofs ----------------------------
(***************************************************************************)
(* Proofs about Update, for a bundle of any number of files.  The argument  *)
(* is the list `installed`: what is beyond it is as the process found it,   *)
(* and what is on it has its backup until roll_back has put it back.        *)
(***************************************************************************)
EXTENDS Update, TLAPS

Listed == 1 .. Len(installed)

\* The list holds the files in order, with a backup for each that was there.
ListInv ==
    /\ Len(installed) <= NFiles
    /\ \A k \in Listed :
           installed[k].file = k /\ (installed[k].backup <=> before[k] # "none")

PositionInv ==
    /\ pc \in {"clear", "ask", "download"} => Len(installed) = 0 /\ at = 1
    /\ pc = "install" => at = Len(installed) + 1
    /\ pc \in {"open", "write"} => at = Len(installed)
    /\ pc = "roll" => at <= Len(installed) + 1
    /\ pc \in {"finish", "succeeded"} => Len(installed) = NFiles
    /\ event # "none" => pc = "off"

BeyondInv == \A f \in Files : f > Len(installed) => disk[f] = before[f]

\* The backup of a file, unless another process cleared it.
HasBackup(k) == stale[k] = before[k] \/ (stale[k] = "none" /\ k \in cleared)

BackupInv ==
    \A k \in Listed :
        /\ before[k] # "none"
        /\ pc \in {"install", "open", "write", "finish", "succeeded"} \/ (pc = "roll" /\ k >= at)
        => HasBackup(k)

WrittenInv ==
    /\ pc \in {"install", "open", "write"} => \A f \in Files : f < at => disk[f] = "new"
    /\ pc \in {"finish", "succeeded"} => \A f \in Files : disk[f] = "new"

AsBefore(f) == f \in unrestored \/ disk[f] = before[f]

RolledInv ==
    /\ pc = "roll" => \A f \in Files : f < at => AsBefore(f)
    /\ pc \in {"giveUp", "failed"} => \A f \in Files : AsBefore(f)

VerifiedInv == pc \in {"install", "open", "write", "roll", "finish"} => bundle = "good"

UpdateInv ==
    /\ TypeOK
    /\ ListInv /\ PositionInv /\ BeyondInv /\ BackupInv /\ WrittenInv /\ RolledInv /\ VerifiedInv
    /\ InstalledIsNew /\ FailureRestores /\ NothingLost

-----------------------------------------------------------------------------
\* The steps that leave the folder's files and the list alone.
SameFiles == UNCHANGED <<disk, stale, installed, before, cleared, unrestored>>

QuietAction ==
    \/ NoUpdate \/ Accept \/ Download \/ InstallFails \/ BadBundle \/ Settle
    \/ DeleteBundle \/ Report \/ Escape \/ Kill \/ Idle \/ UNCHANGED vars

LEMMA QuietSteps == ASSUME QuietAction PROVE SameFiles
BY DEF QuietAction, SameFiles, NoUpdate, Accept, Download, InstallFails, BadBundle, Settle,
   DeleteBundle, Report, Escape, Kill, Idle, vars, folderVars, saidVars, noteVars

LEMMA NextCases ==
    ASSUME [Next]_vars
    PROVE  \/ QuietAction \/ StartProcess \/ ClearStaleFiles \/ OtherProcess
           \/ MoveAside \/ OpenNew \/ WriteNew \/ Restore \/ RestoreFails
BY DEF Next, QuietAction

LEMMA TypesKept ==
    ASSUME TypeOK, ListInv, PositionInv, [Next]_vars
    PROVE  TypeOK'
<1> USE DEF TypeOK, Labels, Contents
<1>0. Files = 1 .. NFiles /\ NFiles \in Nat /\ Exe \in Files
  BY UpdateAssumption DEF Files
<1>1. CASE QuietAction
  <2>1. SameFiles
    BY <1>1, QuietSteps
  <2>2. CASE NoUpdate \/ Accept \/ Download
    BY <2>1, <2>2 DEF NoUpdate, Accept, Download, SameFiles, saidVars, noteVars, folderVars
  <2>3. CASE InstallFails \/ BadBundle \/ Settle
    BY <2>1, <2>3 DEF InstallFails, BadBundle, Settle, SameFiles, saidVars, noteVars, folderVars
  <2>4. CASE DeleteBundle \/ Report \/ Escape
    BY <2>1, <2>4 DEF DeleteBundle, Report, Escape, SameFiles, saidVars, noteVars, folderVars
  <2>5. CASE Kill \/ Idle \/ UNCHANGED vars
    BY <2>1, <2>5 DEF Kill, Idle, vars, SameFiles, saidVars, noteVars, folderVars
  <2> QED BY <1>1, <2>2, <2>3, <2>4, <2>5 DEF QuietAction
<1>2. CASE StartProcess
  BY <1>2 DEF StartProcess, folderVars
<1>3. CASE ClearStaleFiles \/ OtherProcess
  BY <1>3 DEF ClearStaleFiles, OtherProcess, Clear, saidVars, noteVars
<1>4. CASE MoveAside
  <2>1. at \in Files /\ Len(installed) + 1 = at
    BY <1>0, <1>4 DEF MoveAside, PositionInv
  <2>2. /\ installed' \in Seq([file : Files, backup : BOOLEAN])
        /\ Len(installed') = at
    <3>1. PICK b \in BOOLEAN : installed' = Append(installed, [file |-> at, backup |-> b])
      BY <1>4 DEF MoveAside
    <3>2. [file |-> at, backup |-> b] \in [file : Files, backup : BOOLEAN]
      BY <2>1
    <3>3. installed \in Seq([file : Files, backup : BOOLEAN])
      OBVIOUS
    <3> QED BY <2>1, <3>1, <3>2, <3>3
  <2>3. disk' \in [Files -> Contents] /\ stale' \in [Files -> Contents]
    BY <1>4, <2>1 DEF MoveAside
  <2> QED BY <1>4, <2>1, <2>2, <2>3 DEF MoveAside, saidVars, noteVars
<1>5. CASE OpenNew \/ WriteNew
  <2>1. at \in Files /\ Len(installed) = at
    BY <1>5 DEF OpenNew, WriteNew
  <2>2. disk' \in [Files -> Contents]
    BY <1>5, <2>1 DEF OpenNew, WriteNew
  <2>3. CASE OpenNew
    BY <2>1, <2>2, <2>3 DEF OpenNew, saidVars, noteVars
  <2>4. CASE WriteNew
    BY <1>0, <2>1, <2>2, <2>4 DEF WriteNew, saidVars, noteVars
  <2> QED BY <1>5, <2>3, <2>4
<1>6. CASE Restore \/ RestoreFails
  <2>1. at \in Listed /\ installed[at].file = at /\ at \in Files
    BY <1>0, <1>6 DEF Restore, RestoreFails, ListInv, Listed
  <2>2. CASE Restore
    <3>1. disk' \in [Files -> Contents] /\ stale' \in [Files -> Contents]
      BY <2>1, <2>2 DEF Restore
    <3> QED BY <2>1, <2>2, <3>1 DEF Restore, saidVars, noteVars
  <2>3. CASE RestoreFails
    BY <2>1, <2>3 DEF RestoreFails, folderVars, noteVars
  <2> QED BY <1>6, <2>2, <2>3
<1> QED BY <1>1, <1>2, <1>3, <1>4, <1>5, <1>6, NextCases

\* What the steps that move files do, at the file they are at.
LEMMA MoveStep ==
    ASSUME TypeOK, ListInv, PositionInv, BeyondInv, MoveAside
    PROVE  /\ at \in Files /\ Len(installed) = at - 1 /\ Len(installed') = at /\ at \in Nat
           /\ \A k \in Listed : installed'[k] = installed[k]
           /\ installed'[at].file = at
           /\ installed'[at].backup <=> disk[at] # "none"
           /\ disk[at] = before[at]
           /\ \A f \in Files : f # at => disk'[f] = disk[f] /\ stale'[f] = stale[f]
           /\ disk[at] # "none" => stale'[at] = disk[at]
           /\ disk[at] = "none" => disk' = disk /\ stale' = stale
<1>0. Files = 1 .. NFiles /\ NFiles \in Nat
  BY UpdateAssumption DEF Files
<1>1. at \in Files /\ Len(installed) = at - 1 /\ at \in Nat
  BY <1>0 DEF MoveAside, PositionInv, TypeOK
<1>2. disk[at] = before[at]
  BY <1>0, <1>1 DEF BeyondInv
<1>3. installed \in Seq([file : Files, backup : BOOLEAN])
  BY DEF TypeOK
<1>4. PICK b \in BOOLEAN : /\ installed' = Append(installed, [file |-> at, backup |-> b])
                           /\ b <=> disk[at] # "none"
  BY DEF MoveAside
<1>5. /\ Len(installed') = at /\ installed'[at] = [file |-> at, backup |-> b]
      /\ \A k \in Listed : installed'[k] = installed[k]
  BY <1>1, <1>3, <1>4 DEF Listed
<1>6. \A f \in Files : f # at => disk'[f] = disk[f] /\ stale'[f] = stale[f]
  BY <1>1 DEF MoveAside, TypeOK
<1>7. disk[at] # "none" => stale'[at] = disk[at]
  BY <1>1 DEF MoveAside, TypeOK
<1>8. disk[at] = "none" => disk' = disk /\ stale' = stale
  BY DEF MoveAside
<1>9. installed'[at].file = at /\ (installed'[at].backup <=> disk[at] # "none")
  BY <1>4, <1>5
<1> QED BY <1>1, <1>2, <1>5, <1>6, <1>7, <1>8, <1>9

LEMMA RestoreStep ==
    ASSUME TypeOK, ListInv, pc = "roll", at <= Len(installed)
    PROVE  /\ at \in Listed /\ at \in Files /\ at \in Nat /\ installed[at].file = at
           /\ installed[at].backup <=> before[at] # "none"
BY UpdateAssumption DEF TypeOK, ListInv, Listed, Files

LEMMA ListKept ==
    ASSUME TypeOK, ListInv, PositionInv, BeyondInv, [Next]_vars
    PROVE  ListInv' /\ PositionInv'
<1>0. NFiles \in Nat /\ Len(installed) \in Nat /\ at \in Nat
  BY UpdateAssumption DEF TypeOK
<1>1. CASE QuietAction
  <2>1. SameFiles
    BY <1>1, QuietSteps
  <2>2. ListInv'
    BY <2>1 DEF SameFiles, ListInv, Listed
  <2>3. CASE NoUpdate \/ Accept \/ Download
    BY <2>1, <2>2, <2>3 DEF SameFiles, PositionInv, NoUpdate, Accept, Download, saidVars
  <2>4. CASE InstallFails
    BY <1>0, <2>1, <2>2, <2>4 DEF SameFiles, PositionInv, InstallFails, saidVars
  <2>5. CASE BadBundle
    BY <2>1, <2>2, <2>5 DEF SameFiles, PositionInv, BadBundle, saidVars
  <2>6. CASE Settle
    BY <1>0, <2>1, <2>2, <2>6 DEF SameFiles, PositionInv, Settle, saidVars, ListInv
  <2>7. CASE DeleteBundle \/ Report \/ Escape
    BY <2>1, <2>2, <2>7 DEF SameFiles, PositionInv, DeleteBundle, Report, Escape, saidVars
  <2>8. CASE Kill \/ Idle \/ UNCHANGED vars
    BY <2>1, <2>2, <2>8 DEF SameFiles, PositionInv, Kill, Idle, vars, saidVars
  <2> QED BY <1>1, <2>2, <2>3, <2>4, <2>5, <2>6, <2>7, <2>8 DEF QuietAction
<1>2. CASE StartProcess
  BY <1>0, <1>2 DEF StartProcess, ListInv, PositionInv, Listed
<1>3. CASE ClearStaleFiles \/ OtherProcess
  BY <1>3 DEF ClearStaleFiles, OtherProcess, saidVars, noteVars, ListInv, PositionInv, Listed, Alive
<1>4. CASE MoveAside
  <2>1. UNCHANGED <<at, before, event>> /\ pc' = "open" /\ pc = "install"
    BY <1>4 DEF MoveAside, saidVars, noteVars
  <2>2. Len(installed') = at /\ at \in Files /\ Len(installed) = at - 1
    BY <1>4, MoveStep
  <2>3. ASSUME NEW k \in Listed'
        PROVE  installed'[k].file = k /\ (installed'[k].backup <=> before[k] # "none")
    <3>1. CASE k = at
      BY <1>4, <3>1, MoveStep
    <3>2. CASE k # at
      <4>1. k \in Listed
        BY <1>0, <2>2, <2>3, <3>2 DEF Listed
      <4> QED BY <1>4, <4>1, MoveStep DEF ListInv
    <3> QED BY <3>1, <3>2
  <2>4. Len(installed') <= NFiles
    BY <2>2 DEF Files
  <2> QED BY <2>1, <2>2, <2>3, <2>4 DEF ListInv, PositionInv
<1>5. CASE OpenNew \/ WriteNew
  BY <1>0, <1>5 DEF OpenNew, WriteNew, ListInv, PositionInv, Listed, saidVars, noteVars
<1>6. CASE Restore \/ RestoreFails
  BY <1>0, <1>6 DEF Restore, RestoreFails, ListInv, PositionInv, Listed, saidVars, noteVars
<1> QED BY <1>1, <1>2, <1>3, <1>4, <1>5, <1>6, NextCases

LEMMA BeyondKept ==
    ASSUME TypeOK, ListInv, PositionInv, BeyondInv, [Next]_vars
    PROVE  BeyondInv'
<1>0. NFiles \in Nat /\ Len(installed) \in Nat /\ at \in Nat
  BY UpdateAssumption DEF TypeOK
<1>1. CASE QuietAction
  BY <1>1, QuietSteps DEF SameFiles, BeyondInv
<1>2. CASE StartProcess \/ ClearStaleFiles \/ OtherProcess
  BY <1>2 DEF StartProcess, ClearStaleFiles, OtherProcess, BeyondInv, folderVars, noteVars
<1>3. CASE MoveAside
  <2>1. before' = before
    BY <1>3 DEF MoveAside, noteVars
  <2>2. ASSUME NEW f \in Files, f > Len(installed') PROVE disk'[f] = before[f]
    <3>1. f # at /\ f > Len(installed)
      BY <1>0, <1>3, <2>2, MoveStep DEF Files
    <3> QED BY <1>3, <3>1, MoveStep DEF BeyondInv
  <2> QED BY <2>1, <2>2 DEF BeyondInv
<1>4. CASE OpenNew \/ WriteNew
  <2>1. UNCHANGED <<installed, before>> /\ at = Len(installed)
    BY <1>4 DEF OpenNew, WriteNew, PositionInv, noteVars
  <2>2. \A f \in Files : f # at => disk'[f] = disk[f]
    BY <1>4 DEF OpenNew, WriteNew, TypeOK
  <2> QED BY <1>0, <2>1, <2>2 DEF BeyondInv, Files
<1>5. CASE Restore
  <2>1. UNCHANGED <<installed, before>> /\ at <= Len(installed) /\ pc = "roll"
    BY <1>5 DEF Restore, noteVars
  <2>2. \A f \in Files : f # at => disk'[f] = disk[f]
    BY <1>5, <2>1, RestoreStep DEF Restore, TypeOK
  <2> QED BY <1>0, <2>1, <2>2 DEF BeyondInv, Files
<1>6. CASE RestoreFails
  BY <1>6 DEF RestoreFails, BeyondInv, folderVars, noteVars
<1> QED BY <1>1, <1>2, <1>3, <1>4, <1>5, <1>6, NextCases

\* Where the update moved files, and roll_back has not come to them yet.
LEMMA BackupKept ==
    ASSUME TypeOK, ListInv, PositionInv, BeyondInv, BackupInv, [Next]_vars
    PROVE  BackupInv'
<1>0. NFiles \in Nat /\ Len(installed) \in Nat /\ at \in Nat
  BY UpdateAssumption DEF TypeOK
<1>1. CASE QuietAction
  <2>1. SameFiles
    BY <1>1, QuietSteps
  <2>2. CASE NoUpdate \/ Accept \/ Download
    BY <2>1, <2>2 DEF SameFiles, BackupInv, HasBackup, Listed, PositionInv, NoUpdate, Accept, Download
  <2>3. CASE InstallFails
    BY <1>0, <2>1, <2>3 DEF SameFiles, BackupInv, HasBackup, Listed, InstallFails
  <2>4. CASE BadBundle \/ Settle
    BY <2>1, <2>4 DEF SameFiles, BackupInv, HasBackup, Listed, BadBundle, Settle
  <2>5. CASE DeleteBundle \/ Report \/ Escape
    BY <2>1, <2>5 DEF SameFiles, BackupInv, HasBackup, Listed, DeleteBundle, Report, Escape
  <2>6. CASE Kill \/ Idle \/ UNCHANGED vars
    BY <2>1, <2>6 DEF SameFiles, BackupInv, HasBackup, Listed, Kill, Idle, vars
  <2> QED BY <1>1, <2>2, <2>3, <2>4, <2>5, <2>6 DEF QuietAction
<1>2. CASE StartProcess \/ ClearStaleFiles
  BY <1>2 DEF StartProcess, ClearStaleFiles, BackupInv, PositionInv, Listed
<1>3. CASE OtherProcess
  <2>1. UNCHANGED <<installed, before, pc, at>>
    BY <1>3 DEF OtherProcess
  <2>2. ASSUME NEW k \in Listed, HasBackup(k) PROVE HasBackup(k)'
    <3>1. k \in Files
      BY <1>0 DEF ListInv, Listed, Files
    <3> QED BY <1>3, <2>2, <3>1 DEF OtherProcess, Clear, HasBackup
  <2> QED BY <2>1, <2>2 DEF BackupInv, Listed
<1>4. CASE MoveAside
  <2>1. UNCHANGED <<before, cleared>> /\ pc' = "open" /\ pc = "install"
    BY <1>4 DEF MoveAside, noteVars
  <2>2. ASSUME NEW k \in Listed', before[k] # "none" PROVE HasBackup(k)'
    <3>1. CASE k = at
      BY <1>4, <2>1, <2>2, <3>1, MoveStep DEF HasBackup
    <3>2. CASE k # at
      <4>1. k \in Listed /\ k \in Files
        BY <1>0, <1>4, <2>2, <3>2, MoveStep DEF Listed, Files
      <4>2. HasBackup(k)
        BY <2>1, <2>2, <4>1 DEF BackupInv
      <4> QED BY <1>4, <2>1, <3>2, <4>1, <4>2, MoveStep DEF HasBackup
    <3> QED BY <3>1, <3>2
  <2> QED BY <2>1, <2>2 DEF BackupInv
<1>5. CASE OpenNew \/ WriteNew
  BY <1>5 DEF OpenNew, WriteNew, BackupInv, HasBackup, Listed, noteVars
<1>6. CASE Restore
  <2>1. UNCHANGED <<installed, before, cleared, pc>> /\ at <= Len(installed) /\ pc = "roll" /\ at' = at + 1
    BY <1>6 DEF Restore, noteVars
  <2>2. \A k \in Files : k # at => stale'[k] = stale[k]
    BY <1>6, <2>1, RestoreStep DEF Restore, TypeOK
  <2>3. ASSUME NEW k \in Listed, before[k] # "none", k >= at + 1 PROVE HasBackup(k)'
    <3>1. k \in Files /\ k # at /\ k >= at
      BY <1>0, <2>3 DEF ListInv, Listed, Files
    <3> QED BY <2>1, <2>2, <2>3, <3>1 DEF BackupInv, HasBackup
  <2> QED BY <2>1, <2>3 DEF BackupInv, Listed
<1>7. CASE RestoreFails
  BY <1>0, <1>7 DEF RestoreFails, BackupInv, HasBackup, Listed, folderVars, noteVars
<1> QED BY <1>1, <1>2, <1>3, <1>4, <1>5, <1>6, <1>7, NextCases

LEMMA WrittenKept ==
    ASSUME TypeOK, ListInv, PositionInv, BeyondInv, WrittenInv, [Next]_vars
    PROVE  WrittenInv'
<1>0. NFiles \in Nat /\ Len(installed) \in Nat /\ at \in Nat
  BY UpdateAssumption DEF TypeOK
<1>1. CASE QuietAction
  <2>1. SameFiles
    BY <1>1, QuietSteps
  <2>2. CASE NoUpdate \/ Accept \/ InstallFails \/ BadBundle
    BY <2>1, <2>2 DEF SameFiles, WrittenInv, NoUpdate, Accept, InstallFails, BadBundle
  <2>3. CASE Download
    BY <1>0, <2>1, <2>3 DEF SameFiles, WrittenInv, Download, PositionInv, Files
  <2>4. CASE Settle
    BY <1>0, <2>1, <2>4 DEF SameFiles, WrittenInv, Settle, Files
  <2>5. CASE DeleteBundle \/ Report \/ Escape
    BY <2>1, <2>5 DEF SameFiles, WrittenInv, DeleteBundle, Report, Escape
  <2>6. CASE Kill \/ Idle \/ UNCHANGED vars
    BY <2>1, <2>6 DEF SameFiles, WrittenInv, Kill, Idle, vars
  <2> QED BY <1>1, <2>2, <2>3, <2>4, <2>5, <2>6 DEF QuietAction
<1>2. CASE StartProcess \/ ClearStaleFiles
  BY <1>2 DEF StartProcess, ClearStaleFiles, WrittenInv
<1>3. CASE OtherProcess
  BY <1>3 DEF OtherProcess, WrittenInv
<1>4. CASE MoveAside
  <2>1. at' = at /\ pc = "install" /\ pc' = "open"
    BY <1>4 DEF MoveAside
  <2>2. ASSUME NEW f \in Files, f < at PROVE disk'[f] = "new"
    <3>1. f # at
      BY <1>0, <2>2 DEF Files
    <3> QED BY <1>4, <2>1, <2>2, <3>1, MoveStep DEF WrittenInv
  <2> QED BY <2>1, <2>2 DEF WrittenInv
<1>5. CASE OpenNew \/ WriteNew
  <2>1. /\ pc \in {"open", "write"} /\ pc' \in {"write", "install"}
        /\ \A f \in Files : f # at => disk'[f] = disk[f]
    BY <1>5 DEF OpenNew, WriteNew, TypeOK
  <2>2. CASE OpenNew
    <3>1. at' = at
      BY <2>2 DEF OpenNew
    <3> QED BY <1>0, <2>1, <3>1 DEF WrittenInv, Files
  <2>3. CASE WriteNew
    <3>1. at' = at + 1 /\ disk'[at] = "new"
      BY <2>1, <2>3 DEF WriteNew, TypeOK
    <3> QED BY <1>0, <2>1, <3>1 DEF WrittenInv, Files
  <2> QED BY <1>5, <2>2, <2>3
<1>6. CASE Restore \/ RestoreFails
  BY <1>6 DEF Restore, RestoreFails, WrittenInv
<1> QED BY <1>1, <1>2, <1>3, <1>4, <1>5, <1>6, NextCases

LEMMA RolledKept ==
    ASSUME TypeOK, ListInv, PositionInv, BeyondInv, BackupInv, RolledInv, [Next]_vars
    PROVE  RolledInv'
<1>0. NFiles \in Nat /\ Len(installed) \in Nat /\ at \in Nat
  BY UpdateAssumption DEF TypeOK
<1>1. CASE QuietAction
  <2>1. SameFiles
    BY <1>1, QuietSteps
  <2>2. \A f \in Files : AsBefore(f) => AsBefore(f)'
    BY <2>1 DEF SameFiles, AsBefore
  <2>3. CASE NoUpdate \/ Accept \/ Download \/ BadBundle
    <3>1. pc' \notin {"giveUp", "failed"} \/ Len(installed) = 0
      BY <1>0, <2>3 DEF NoUpdate, Accept, Download, BadBundle, PositionInv
    <3>2. pc' # "roll"
      BY <2>3 DEF NoUpdate, Accept, Download, BadBundle
    <3>3. Len(installed) = 0 => \A f \in Files : disk[f] = before[f]
      BY <1>0 DEF BeyondInv, Files
    <3>4. Len(installed) = 0 => \A f \in Files : AsBefore(f)'
      BY <2>1, <3>3 DEF SameFiles, AsBefore
    <3> QED BY <3>1, <3>2, <3>4 DEF RolledInv
  <2>4. CASE InstallFails
    BY <1>0, <2>4 DEF InstallFails, RolledInv, Files
  <2>5. CASE Settle
    <3>1. pc = "roll" /\ at > Len(installed) => \A f \in Files : AsBefore(f)
      BY <1>0 DEF RolledInv, BeyondInv, AsBefore, Files
    <3> QED BY <2>2, <2>5, <3>1 DEF Settle, RolledInv
  <2>6. CASE DeleteBundle \/ Report \/ Escape
    BY <2>2, <2>6 DEF DeleteBundle, Report, Escape, RolledInv
  <2>7. CASE Kill \/ Idle \/ UNCHANGED vars
    BY <2>2, <2>7 DEF Kill, Idle, vars, RolledInv
  <2> QED BY <1>1, <2>3, <2>4, <2>5, <2>6, <2>7 DEF QuietAction
<1>2. CASE StartProcess \/ ClearStaleFiles \/ MoveAside \/ OpenNew \/ WriteNew
  BY <1>2 DEF StartProcess, ClearStaleFiles, MoveAside, OpenNew, WriteNew, RolledInv
<1>3. CASE OtherProcess
  BY <1>3 DEF OtherProcess, RolledInv, AsBefore, saidVars
<1>4. CASE Restore
  <2>1. /\ UNCHANGED <<before, unrestored, pc>> /\ at' = at + 1 /\ pc = "roll"
        /\ at <= Len(installed)
    BY <1>4 DEF Restore, saidVars, noteVars
  <2>2. /\ at \in Listed /\ at \in Files /\ installed[at].file = at
        /\ (installed[at].backup <=> before[at] # "none")
    BY <2>1, RestoreStep
  <2>3. \A f \in Files : f # at => disk'[f] = disk[f]
    BY <1>4, <2>2 DEF Restore, TypeOK
  <2>4. disk'[at] = before[at]
    <3>1. CASE before[at] # "none"
      <4>1. disk'[at] = stale[at] /\ stale[at] # "none"
        BY <1>4, <2>2, <3>1 DEF Restore, TypeOK
      <4>2. HasBackup(at)
        BY <1>0, <2>1, <2>2, <3>1 DEF BackupInv
      <4> QED BY <4>1, <4>2 DEF HasBackup
    <3>2. CASE before[at] = "none"
      BY <1>4, <2>2, <3>2 DEF Restore, TypeOK
    <3> QED BY <3>1, <3>2
  <2> QED BY <1>0, <2>1, <2>2, <2>3, <2>4 DEF RolledInv, AsBefore, Files
<1>5. CASE RestoreFails
  <2>1. /\ UNCHANGED <<disk, before, pc>> /\ at' = at + 1 /\ pc = "roll"
        /\ at <= Len(installed) /\ unrestored' = unrestored \cup {installed[at].file}
    BY <1>5 DEF RestoreFails, folderVars, noteVars
  <2>2. installed[at].file = at
    BY <2>1, RestoreStep
  <2> QED BY <1>0, <2>1, <2>2 DEF RolledInv, AsBefore, Files
<1> QED BY <1>1, <1>2, <1>3, <1>4, <1>5, NextCases

LEMMA VerifiedKept == ASSUME VerifiedInv, [Next]_vars PROVE VerifiedInv'
<1>1. CASE NoUpdate \/ Accept \/ Download \/ InstallFails \/ BadBundle \/ Settle
  BY <1>1 DEF NoUpdate, Accept, Download, InstallFails, BadBundle, Settle, VerifiedInv, folderVars
<1>2. CASE DeleteBundle \/ Report \/ Escape \/ Kill \/ Idle \/ UNCHANGED vars
  BY <1>2 DEF DeleteBundle, Report, Escape, Kill, Idle, vars, VerifiedInv, folderVars
<1>3. CASE StartProcess \/ ClearStaleFiles \/ OtherProcess
  BY <1>3 DEF StartProcess, ClearStaleFiles, OtherProcess, VerifiedInv
<1>4. CASE MoveAside \/ OpenNew \/ WriteNew \/ Restore \/ RestoreFails
  BY <1>4 DEF MoveAside, OpenNew, WriteNew, Restore, RestoreFails, VerifiedInv, folderVars
<1> QED BY <1>1, <1>2, <1>3, <1>4, NextCases DEF QuietAction

\* What is said of an update, and what is left of it.
LEMMA SaidKept ==
    ASSUME TypeOK, PositionInv, WrittenInv, RolledInv, InstalledIsNew, FailureRestores,
           [Next]_vars
    PROVE  InstalledIsNew' /\ FailureRestores'
<1>1. CASE QuietAction
  <2>1. SameFiles
    BY <1>1, QuietSteps
  <2>2. CASE Report
    BY <2>1, <2>2 DEF SameFiles, Report, WrittenInv, RolledInv, AsBefore, InstalledIsNew, FailureRestores
  <2>3. CASE ~Report
    <3>1. event' = event
      BY <1>1, <2>3 DEF QuietAction, NoUpdate, Accept, Download, InstallFails, BadBundle, Settle,
         DeleteBundle, Escape, Kill, Idle, vars, saidVars
    <3> QED BY <2>1, <3>1 DEF SameFiles, InstalledIsNew, FailureRestores
  <2> QED BY <2>2, <2>3
<1>2. CASE StartProcess
  BY <1>2 DEF StartProcess, InstalledIsNew, FailureRestores
<1>3. CASE ClearStaleFiles \/ OtherProcess
  BY <1>3 DEF ClearStaleFiles, OtherProcess, saidVars, noteVars, InstalledIsNew, FailureRestores
<1>4. CASE MoveAside \/ OpenNew \/ WriteNew \/ Restore \/ RestoreFails
  <2>1. pc # "off" /\ event' = event
    BY <1>4 DEF MoveAside, OpenNew, WriteNew, Restore, RestoreFails, saidVars
  <2>2. event' = "none"
    BY <2>1 DEF PositionInv, TypeOK
  <2> QED BY <2>2 DEF InstalledIsNew, FailureRestores
<1> QED BY <1>1, <1>2, <1>3, <1>4, NextCases

LEMMA LossKept ==
    ASSUME TypeOK, ListInv, PositionInv, BeyondInv, BackupInv, NothingLost, [Next]_vars
    PROVE  NothingLost'
<1>0. NFiles \in Nat /\ Len(installed) \in Nat /\ at \in Nat
  BY UpdateAssumption DEF TypeOK
<1>1. CASE QuietAction
  BY <1>1, QuietSteps DEF SameFiles, NothingLost
<1>2. CASE StartProcess
  BY <1>2 DEF StartProcess, NothingLost, folderVars
<1>3. CASE ClearStaleFiles
  BY <1>0, <1>3 DEF ClearStaleFiles, NothingLost, PositionInv, BeyondInv, Files, noteVars
<1>4. CASE OtherProcess
  BY <1>4 DEF OtherProcess, Clear, NothingLost
<1>5. CASE MoveAside
  <2>1. UNCHANGED <<before, cleared>>
    BY <1>5 DEF MoveAside, noteVars
  <2>2. ASSUME NEW f \in Files \ cleared, before[f] # "none" PROVE before[f] \in {disk'[f], stale'[f]}
    <3>1. CASE f = at
      BY <1>5, <2>2, <3>1, MoveStep
    <3>2. CASE f # at
      BY <1>5, <2>2, <3>2, MoveStep DEF NothingLost
    <3> QED BY <3>1, <3>2
  <2> QED BY <2>1, <2>2 DEF NothingLost
<1>6. CASE OpenNew \/ WriteNew
  <2>1. /\ pc \in {"open", "write"} /\ UNCHANGED <<before, cleared, stale>>
        /\ \A f \in Files : f # at => disk'[f] = disk[f]
    BY <1>6 DEF OpenNew, WriteNew, TypeOK, noteVars
  <2>2. at \in Listed
    BY <1>0, <2>1 DEF PositionInv, Listed, TypeOK
  <2>3. before[at] # "none" => HasBackup(at)
    BY <2>1, <2>2 DEF BackupInv
  <2>4. ASSUME NEW f \in Files \ cleared, before[f] # "none" PROVE before[f] \in {disk'[f], stale'[f]}
    <3>1. CASE f = at
      BY <2>1, <2>3, <2>4, <3>1 DEF HasBackup
    <3>2. CASE f # at
      BY <2>1, <2>4, <3>2 DEF NothingLost
    <3> QED BY <3>1, <3>2
  <2> QED BY <2>1, <2>4 DEF NothingLost
<1>7. CASE Restore
  <2>1. UNCHANGED <<before, cleared>> /\ pc = "roll" /\ at <= Len(installed)
    BY <1>7 DEF Restore, noteVars
  <2>2. /\ at \in Listed /\ at \in Files /\ installed[at].file = at
        /\ (installed[at].backup <=> before[at] # "none")
    BY <2>1, RestoreStep
  <2>3. \A f \in Files : f # at => disk'[f] = disk[f] /\ stale'[f] = stale[f]
    BY <1>7, <2>2 DEF Restore, TypeOK
  <2>4. before[at] # "none" => disk'[at] = before[at]
    <3>1. ASSUME before[at] # "none" PROVE disk'[at] = stale[at] /\ stale[at] # "none"
      BY <1>7, <2>2, <3>1 DEF Restore, TypeOK
    <3>2. ASSUME before[at] # "none" PROVE HasBackup(at)
      BY <1>0, <2>1, <2>2, <3>2 DEF BackupInv
    <3> QED BY <3>1, <3>2 DEF HasBackup
  <2>5. ASSUME NEW f \in Files \ cleared, before[f] # "none" PROVE before[f] \in {disk'[f], stale'[f]}
    <3>1. CASE f = at
      BY <2>4, <2>5, <3>1
    <3>2. CASE f # at
      BY <2>3, <2>5, <3>2 DEF NothingLost
    <3> QED BY <3>1, <3>2
  <2> QED BY <2>1, <2>5 DEF NothingLost
<1>8. CASE RestoreFails
  BY <1>8 DEF RestoreFails, NothingLost, folderVars, noteVars
<1> QED BY <1>1, <1>2, <1>3, <1>4, <1>5, <1>6, <1>7, <1>8, NextCases

-----------------------------------------------------------------------------
\* The list tells roll_back all that it has to undo, and each file on it has its
\* backup until it is back.
THEOREM UpdateInvariant == Spec => []UpdateInv
<1>1. Init => UpdateInv
  <2> SUFFICES ASSUME Init PROVE UpdateInv
    OBVIOUS
  <2>1. TypeOK
    BY UpdateAssumption DEF Init, TypeOK, Labels, Contents, Files
  <2>2. ListInv /\ PositionInv /\ BeyondInv /\ BackupInv
    BY UpdateAssumption DEF Init, ListInv, PositionInv, BeyondInv, BackupInv, Listed, Files
  <2>3. WrittenInv /\ RolledInv /\ VerifiedInv
    BY DEF Init, WrittenInv, RolledInv, VerifiedInv
  <2>4. InstalledIsNew /\ FailureRestores /\ NothingLost
    BY DEF Init, InstalledIsNew, FailureRestores, NothingLost
  <2> QED BY <2>1, <2>2, <2>3, <2>4 DEF UpdateInv
<1>2. UpdateInv /\ [Next]_vars => UpdateInv'
  BY TypesKept, ListKept, BeyondKept, BackupKept, WrittenKept, RolledKept, VerifiedKept, SaidKept,
     LossKept DEF UpdateInv
<1> QED BY <1>1, <1>2, PTL DEF Spec

\* An update reported as installed is whole.
THEOREM InstalledTheorem == Spec => []InstalledIsNew
BY UpdateInvariant, PTL DEF UpdateInv

\* An update reported as failed changed no file but those the log names.
THEOREM FailureTheorem == Spec => []FailureRestores
BY UpdateInvariant, PTL DEF UpdateInv

\* Until a process starts that clears the backups, no file is lost.
THEOREM LossTheorem == Spec => []NothingLost
BY UpdateInvariant, PTL DEF UpdateInv

\* Only a bundle of the right digest changes the folder.
THEOREM VerifiedTheorem == Spec => OnlyVerified
<1>1. ASSUME UpdateInv, [Next]_vars, disk' # disk PROVE bundle = "good"
  <2>1. CASE QuietAction \/ StartProcess \/ ClearStaleFiles \/ OtherProcess \/ RestoreFails
    BY <1>1, <2>1, QuietSteps DEF SameFiles, StartProcess, ClearStaleFiles, OtherProcess,
       RestoreFails, folderVars
  <2>2. CASE MoveAside \/ OpenNew \/ WriteNew \/ Restore
    BY <1>1, <2>2 DEF UpdateInv, VerifiedInv, MoveAside, OpenNew, WriteNew, Restore
  <2> QED BY <1>1, <2>1, <2>2, NextCases
<1> QED BY <1>1, UpdateInvariant, PTL DEF Spec, OnlyVerified
=============================================================================
