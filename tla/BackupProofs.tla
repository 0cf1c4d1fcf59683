---------------------------- MODULE BackupProofs ---------------------------
(***************************************************************************)
(* For any number of days, versions and files to keep: the types of        *)
(* Backup; that the file one restores from is never incomplete, and never  *)
(* goes back, as long as the two callers of PerformAutoBackup do not meet; *)
(* that their Rename brings it up to date; and what pruning leaves.        *)
(*                                                                         *)
(* RestorableAlone is not inductive: Rename moves the temporary file onto  *)
(* the latest one, so it must be known that a lone caller renames only what*)
(* it has copied whole, and copies only what it has vacuumed whole, from a *)
(* database no older than the latest file.  That chain is Alone; it says   *)
(* nothing once two calls have overlapped.                                 *)
(***************************************************************************)
EXTENDS Backup, FiniteSetTheorems, WellFoundedInduction, TLAPS

Lone ==
    /\ \A b \in Caller : at[b] # "idle" => at[Other(b)] = "idle"
    /\ \A b \in Caller :
        at[b] \in {"copy", "copying", "rename"} => daily[day[b]].is = "whole"
    /\ \A b \in Caller :
        at[b] \in {"vacuuming", "copy", "copying", "rename"} =>
            latest.ver <= daily[day[b]].ver
    /\ \A b \in Caller : at[b] = "copying" => source[b] = daily[day[b]]
    /\ \A b \in Caller : at[b] = "rename" => tmp = daily[day[b]]
    /\ latest.is # "part"

Alone == ~overlapped => Lone

IInv == TypeOK /\ Alone

----------------------------------------------------------------------------
(* There are two callers: the periodic goroutine and main.                 *)
LEMMA TwoCallers ==
    ASSUME NEW b \in Caller
    PROVE  /\ Other(b) \in Caller /\ Other(b) # b
           /\ \A c \in Caller : c = b \/ c = Other(b)
BY DEF Caller, Other

(* What is written to a file is the snapshot of a version already reached. *)
LEMMA FilesAreFiles ==
    ASSUME TypeOK
    PROVE  /\ \A f \in File : f.ver \in 0 .. version
           /\ \A f \in File : Part(f.ver) \in File /\ Whole(f.ver) \in File
           /\ Absent \in File /\ Part(version) \in File
<1>1. 0 \in 0 .. version /\ version \in 0 .. version
  BY BackupAssumption DEF TypeOK
<1>2. \A f \in File : f.ver \in 0 .. version
  BY <1>1 DEF File, Absent, Part, Whole
<1> QED BY <1>1, <1>2 DEF File

(* Every step keeps the types.                                             *)
LEMMA TypesKept == ASSUME TypeOK, Next PROVE TypeOK'
<1> USE BackupAssumption
<1>0. /\ \A f \in File : f.ver \in 0 .. version
      /\ \A f \in File : Part(f.ver) \in File /\ Whole(f.ver) \in File
      /\ Absent \in File /\ Part(version) \in File
  BY FilesAreFiles
<1>1. CASE Commit
  <2>1. version' = version + 1 /\ version' \in 0 .. MaxVersion
    BY <1>1 DEF Commit, TypeOK
  <2>2. File \subseteq File'
    BY <2>1 DEF TypeOK, File, Absent, Part, Whole
  <2> QED BY <1>1, <2>1, <2>2 DEF Commit, TypeOK
<1>2. CASE Midnight
  <2>1. today' \in Days /\ 0 .. today \subseteq 0 .. today'
    BY <1>2 DEF Midnight, TypeOK, Days
  <2>2. File' = File
    BY <1>2 DEF Midnight, File, Absent, Part, Whole
  <2> QED BY <1>2, <2>1, <2>2 DEF Midnight, TypeOK
<1>3. CASE Restart
  BY <1>3 DEF Restart, TypeOK, File, Steps, Absent, Part, Whole
<1>4. ASSUME NEW b \in Caller, PerformAutoBackup(b) PROVE TypeOK'
  <2>1. version' = version /\ today' = today
    BY <1>4 DEF PerformAutoBackup, Begin, Stat, Remove, VacuumBegins, VacuumEnds,
        CopyBegins, CopyEnds, CopyFails, Rename, Prune
  <2>2. File' = File
    BY <2>1 DEF File, Absent, Part, Whole
  <2>3. day[b] \in Days /\ daily[day[b]] \in File
    <3>1. day[b] \in 0 .. today /\ today \in 0 .. MaxDay BY DEF TypeOK, Days
    <3>2. day[b] \in Days BY <3>1 DEF Days
    <3> QED BY <3>2 DEF TypeOK
  <2>4. at' \in [Caller -> Steps] /\ day' \in [Caller -> 0 .. today]
    BY <1>4 DEF TypeOK, Go, Return, Steps, Days, PerformAutoBackup, Begin, Stat, Remove,
        VacuumBegins, VacuumEnds, CopyBegins, CopyEnds, CopyFails, Rename, Prune
  <2>5. daily' \in [Days -> File]
    BY <1>0, <1>4, <2>3 DEF TypeOK, PerformAutoBackup, Begin, Stat, Remove,
        VacuumBegins, VacuumEnds, CopyBegins, CopyEnds, CopyFails, Rename, Prune
  <2>6. source' \in [Caller -> File]
    BY <1>4, <2>3 DEF TypeOK, PerformAutoBackup, Begin, Stat, Remove,
        VacuumBegins, VacuumEnds, CopyBegins, CopyEnds, CopyFails, Rename, Prune
  <2>7. tmp' \in File /\ latest' \in File
    BY <1>0, <1>4, <2>3 DEF TypeOK, PerformAutoBackup, Begin, Stat, Remove,
        VacuumBegins, VacuumEnds, CopyBegins, CopyEnds, CopyFails, Rename, Prune
  <2>8. overlapped' \in BOOLEAN
    BY <1>4 DEF TypeOK, PerformAutoBackup, Begin, Stat, Remove,
        VacuumBegins, VacuumEnds, CopyBegins, CopyEnds, CopyFails, Rename, Prune
  <2> QED BY <2>1, <2>2, <2>4, <2>5, <2>6, <2>7, <2>8 DEF TypeOK
<1> QED BY <1>1, <1>2, <1>3, <1>4 DEF Next

(* A lone call never brings an incomplete file to where one restores from. *)
LEMMA AloneKept == ASSUME TypeOK, Alone, Next PROVE Alone'
<1> SUFFICES ASSUME ~overlapped' PROVE Lone'
  BY DEF Alone
<1>1. CASE Commit \/ Midnight
  BY <1>1 DEF Commit, Midnight, Alone, Lone
<1>2. CASE Restart
  <2>1. Lone BY <1>2 DEF Restart, Alone
  <2> QED BY <1>2, <2>1, TwoCallers DEF Restart, Lone
<1>3. ASSUME NEW b \in Caller, PerformAutoBackup(b) PROVE Lone'
  <2>1. ~overlapped
    BY <1>3 DEF TypeOK, PerformAutoBackup, Begin, Stat, Remove, VacuumBegins, VacuumEnds,
        CopyBegins, CopyEnds, CopyFails, Rename, Prune
  <2>2. Lone BY <2>1 DEF Alone
  <2> DEFINE o == Other(b)
  <2>3. o \in Caller /\ o # b /\ \A c \in Caller : c = b \/ c = o
    BY TwoCallers
  <2>4. at[o] = "idle"
    <3>1. CASE at[b] = "idle"
      BY <1>3, <3>1 DEF PerformAutoBackup, Begin, Stat, Remove, VacuumBegins, VacuumEnds,
          CopyBegins, CopyEnds, CopyFails, Rename, Prune
    <3>2. CASE at[b] # "idle"
      BY <2>2, <3>2 DEF Lone
    <3> QED BY <3>1, <3>2
  <2>5. at'[o] = "idle"
    BY <1>3, <2>3, <2>4 DEF TypeOK, Go, Return, PerformAutoBackup, Begin, Stat, Remove,
        VacuumBegins, VacuumEnds, CopyBegins, CopyEnds, CopyFails, Rename, Prune
  <2>6. \A c \in Caller : at'[c] # "idle" => at'[Other(c)] = "idle"
    BY <2>3, <2>5, TwoCallers
  <2>7. day[b] \in Days /\ day \in [Caller -> Days]
    BY BackupAssumption DEF TypeOK, Days
  <2>8. ~TmpOpen({o}) /\ \A d \in Days : ~DailyOpen(d, {o})
    BY <2>4 DEF TmpOpen, DailyOpen
  <2>9. /\ at'[b] \in {"copy", "copying", "rename"} => daily'[day'[b]].is = "whole"
        /\ at'[b] \in {"vacuuming", "copy", "copying", "rename"} =>
               latest'.ver <= daily'[day'[b]].ver
        /\ at'[b] = "copying" => source'[b] = daily'[day'[b]]
        /\ at'[b] = "rename" => tmp' = daily'[day'[b]]
        /\ latest'.is # "part"
    <3>0. latest.ver \in 0 .. version /\ daily[day[b]].ver \in 0 .. version
      BY <2>7, FilesAreFiles DEF TypeOK
    <3> USE <2>2, <2>7, <2>8 DEF TypeOK, Lone, Go, Return
    <3>1. CASE Begin(b) BY <3>1 DEF Begin
    <3>2. CASE Stat(b) BY <3>2 DEF Stat
    <3>3. CASE Remove(b) BY <3>3 DEF Remove
    <3>4. CASE VacuumBegins(b) BY <3>0, <3>4 DEF VacuumBegins, Part
    <3>5. ASSUME NEW ok \in BOOLEAN, VacuumEnds(b, ok)
          PROVE  /\ at'[b] \in {"copy", "copying", "rename"} => daily'[day'[b]].is = "whole"
                 /\ at'[b] \in {"vacuuming", "copy", "copying", "rename"} =>
                        latest'.ver <= daily'[day'[b]].ver
                 /\ at'[b] = "copying" => source'[b] = daily'[day'[b]]
                 /\ at'[b] = "rename" => tmp' = daily'[day'[b]]
                 /\ latest'.is # "part"
      BY <3>5 DEF VacuumEnds, Whole
    <3>6. CASE CopyBegins(b) BY <3>6 DEF CopyBegins, Absent
    <3>7. CASE CopyEnds(b) BY <3>7 DEF CopyEnds
    <3>8. CASE CopyFails(b) BY <3>8 DEF CopyFails
    <3>9. CASE Rename(b)
      <4>1. tmp = daily[day[b]] /\ daily[day[b]].is = "whole" BY <3>9 DEF Rename
      <4>2. latest' \in {latest, tmp} BY <3>9 DEF Rename
      <4>3. at'[b] = "prune" /\ b \in Caller BY <3>9 DEF Rename
      <4> QED BY <4>1, <4>2, <4>3
    <3>10. CASE Prune(b) BY <3>10 DEF Prune
    <3> QED BY <1>3, <3>1, <3>2, <3>3, <3>4, <3>5, <3>6, <3>7, <3>8, <3>9, <3>10
        DEF PerformAutoBackup
  <2> QED BY <2>3, <2>5, <2>6, <2>9 DEF Lone
<1> QED BY <1>1, <1>2, <1>3 DEF Next

----------------------------------------------------------------------------
(* The invariant of the proofs holds in every reachable state.             *)
THEOREM Invariance == Spec => []IInv
<1>1. Init => IInv
  <2> SUFFICES ASSUME Init PROVE IInv OBVIOUS
  <2>1. version \in 0 .. MaxVersion /\ today \in Days
    BY BackupAssumption DEF Init, Days
  <2>2. Absent \in File BY DEF File
  <2>3. TypeOK
    <3>1. at \in [Caller -> Steps] BY DEF Init, Steps
    <3>2. day \in [Caller -> 0 .. today] BY DEF Init
    <3>3. daily \in [Days -> File] /\ source \in [Caller -> File]
      BY <2>2 DEF Init
    <3> QED BY <2>1, <2>2, <3>1, <3>2, <3>3 DEF Init, TypeOK
  <2>4. Lone BY DEF Init, Lone, Absent
  <2> QED BY <2>3, <2>4 DEF IInv, Alone
<1>2. IInv /\ [Next]_vars => IInv'
  <2>1. CASE Next BY <2>1, TypesKept, AloneKept DEF IInv
  <2>2. CASE UNCHANGED vars
    BY <2>2 DEF vars, IInv, TypeOK, Alone, Lone, File, Absent, Part, Whole
  <2> QED BY <2>1, <2>2
<1> QED BY <1>1, <1>2, PTL DEF Spec

(* The variables keep their types; no backup claims a version or a day that*)
(* the database and the clock have not reached.                            *)
THEOREM TypeCorrect == Spec => []TypeOK
<1>1. IInv => TypeOK BY DEF IInv
<1> QED BY Invariance, <1>1, PTL

(* Unless two calls of PerformAutoBackup overlap, token_monitor.db in the  *)
(* backup directory is complete whenever it exists: whichever step a crash,*)
(* a failed VACUUM or a full disk interrupts.                              *)
THEOREM LoneBackupRestorable == Spec => []RestorableAlone
<1>1. IInv => RestorableAlone BY DEF IInv, Alone, Lone, RestorableAlone
<1> QED BY Invariance, <1>1, PTL

----------------------------------------------------------------------------
(* A step after which no two calls have overlapped starts in a state where *)
(* none had.                                                               *)
LEMMA OverlapStays == ASSUME TypeOK, [Next]_vars, ~overlapped' PROVE ~overlapped
BY DEF TypeOK, vars, Next, Commit, Midnight, Restart, PerformAutoBackup, Begin, Stat, Remove,
    VacuumBegins, VacuumEnds, CopyBegins, CopyEnds, CopyFails, Rename, Prune

(* Only Rename touches the file one restores from.                         *)
LEMMA OnlyRename ==
    ASSUME [Next]_vars
    PROVE  latest' = latest \/ \E b \in Caller : Rename(b)
BY DEF vars, Next, Commit, Midnight, Restart, PerformAutoBackup, Begin, Stat, Remove,
    VacuumBegins, VacuumEnds, CopyBegins, CopyEnds, CopyFails, Rename, Prune

(* A lone caller renames exactly what it vacuumed.                         *)
LEMMA LoneRename ==
    ASSUME IInv, ~overlapped, NEW b \in Caller, Rename(b)
    PROVE  /\ latest' = daily[day[b]] /\ latest'.is = "whole"
           /\ latest.ver <= latest'.ver
<1>1. Lone BY DEF IInv, Alone
<1>2. at[b] = "rename" BY DEF Rename
<1>3. tmp = daily[day[b]] /\ tmp.is = "whole" /\ latest.ver <= tmp.ver
  BY <1>1, <1>2 DEF Lone
<1>4. at[Other(b)] = "idle" BY <1>1, <1>2 DEF Lone
<1>5. ~TmpOpen({Other(b)}) BY <1>4 DEF TmpOpen
<1>6. tmp # Absent BY <1>3 DEF Absent
<1>7. latest' = tmp BY <1>5, <1>6 DEF Rename
<1> QED BY <1>3, <1>7

(* Unless two calls overlap, token_monitor.db in the backup directory never*)
(* disappears and never becomes an older state of the database, although   *)
(* it is replaced by what another file contained some steps earlier.       *)
THEOREM NeverBack == Spec => NeverGoesBack
<1>1. IInv /\ [Next]_vars =>
        [~overlapped' /\ latest # Absent => latest' # Absent /\ latest'.ver >= latest.ver]_vars
  <2> SUFFICES ASSUME IInv, [Next]_vars, ~overlapped', latest # Absent
               PROVE  latest' # Absent /\ latest'.ver >= latest.ver
    OBVIOUS
  <2>1. ~overlapped BY OverlapStays DEF IInv
  <2>2. latest.ver \in Nat
    <3>1. latest.ver \in 0 .. version BY FilesAreFiles DEF IInv, TypeOK
    <3> QED BY <3>1
  <2>3. CASE latest' = latest BY <2>2, <2>3
  <2>4. ASSUME NEW b \in Caller, Rename(b)
        PROVE  latest' # Absent /\ latest'.ver >= latest.ver
    <3>1. /\ latest' = daily[day[b]] /\ latest'.is = "whole"
          /\ latest.ver <= latest'.ver
      BY <2>1, <2>4, LoneRename
    <3>2. latest' # Absent BY <3>1 DEF Absent
    <3>3. latest'.ver \in Int
      <4>1. day[b] \in Days BY BackupAssumption DEF IInv, TypeOK, Days
      <4>2. daily[day[b]] \in File BY <4>1 DEF IInv, TypeOK
      <4>3. daily[day[b]].ver \in 0 .. version BY <4>2, FilesAreFiles DEF IInv
      <4> QED BY <3>1, <4>3
    <3> QED BY <2>2, <3>1, <3>2, <3>3
  <2> QED BY <2>3, <2>4, OnlyRename
<1> QED BY Invariance, <1>1, PTL DEF Spec, NeverGoesBack

(* The Rename of a call that met no other leaves in token_monitor.db the   *)
(* whole snapshot that very call vacuumed, not a leftover of an earlier    *)
(* call's temporary file.                                                  *)
THEOREM RenameBrings == Spec => RenameTakes
<1>1. IInv /\ [Next]_vars =>
        [\A b \in Caller : Rename(b) /\ ~overlapped =>
            latest' = daily[day[b]] /\ latest'.is = "whole"]_vars
  BY LoneRename
<1> QED BY Invariance, <1>1, PTL DEF Spec, RenameTakes

(* The days of which a file is left once the excess is removed: no more    *)
(* than MaxKeep, for the earliest of them has fewer than MaxKeep after it. *)
LEMMA FewAreKept ==
    ASSUME TypeOK, MaxKeep > 0
    PROVE  Cardinality({d \in Present : ~Excess(d)}) <= MaxKeep
<1> DEFINE K == {d \in Present : ~Excess(d)}
<1>0. IsFiniteSet(Present) /\ Present \subseteq Nat
  <2>1. IsFiniteSet(Days) BY BackupAssumption, FS_Interval DEF Days
  <2>2. Days \subseteq Nat BY BackupAssumption DEF Days
  <2>3. Present \subseteq Days BY DEF Present
  <2> QED BY <2>1, <2>2, <2>3, FS_Subset
<1>1. CASE K = {}
  BY <1>1, FS_EmptySet, BackupAssumption
<1>2. CASE K # {}
  <2>1. K \subseteq Present /\ K \subseteq Nat BY <1>0
  <2>2. PICK m \in K : \A d \in K : ~(<<d, m>> \in OpToRel(<, Nat))
    <3> HIDE DEF K
    <3> QED BY <1>2, <2>1, NatLessThanWellFounded, WFMin
  <2>3. \A g \in Nat, h \in Nat : g < h => <<g, h>> \in OpToRel(<, Nat)
    BY Zenon DEF OpToRel
  <2> DEFINE After == {e \in Present : e > m}
  <2>4. \A d \in K : d = m \/ d \in After
    <3> SUFFICES ASSUME NEW d \in K PROVE d = m \/ d > m
      BY <2>1
    <3>1. d \in Nat /\ m \in Nat BY <2>1
    <3>2. ~(d < m) BY <2>2, <2>3, <3>1
    <3> QED BY <3>1, <3>2
  <2>5. IsFiniteSet(After) /\ Cardinality(After) \in Nat
    BY <1>0, FS_Subset, FS_CardinalityType
  <2>6. Cardinality(After) < MaxKeep
    <3>1. ~Excess(m) BY <2>2
    <3>2. ~(Cardinality(After) >= MaxKeep) BY <3>1 DEF Excess
    <3> QED BY <2>5, <3>2, BackupAssumption
  <2>7. m \notin After BY <2>1
  <2>8. IsFiniteSet(After \cup {m}) /\ Cardinality(After \cup {m}) = Cardinality(After) + 1
    BY <2>5, <2>7, FS_AddElement
  <2>9. K \subseteq After \cup {m} BY <2>4
  <2>10. Cardinality(K) <= Cardinality(After \cup {m}) /\ Cardinality(K) \in Nat
    BY <2>8, <2>9, FS_Subset, FS_CardinalityType
  <2> QED BY <2>5, <2>6, <2>8, <2>10, BackupAssumption
<1> QED BY <1>1, <1>2

(* Pruning never removes the file of the most recent day, whoever else is  *)
(* running, and a call that met no other leaves at most MaxKeep files.     *)
THEOREM PruneKeeps == Spec => PruneKeepsNewest
<1>1. ASSUME IInv, NEW b \in Caller, Prune(b)
      PROVE  /\ \A d \in Present : (\A e \in Present : e <= d) => daily'[d] = daily[d]
             /\ ~overlapped /\ MaxKeep > 0 =>
                  Cardinality({d \in Days : daily'[d] # Absent}) <= MaxKeep
  <2>1. \A d \in Days : daily'[d] = IF Excess(d) /\ ~DailyOpen(d, {Other(b)}) THEN Absent
                                    ELSE daily[d]
    BY <1>1 DEF Prune
  <2>2. ASSUME NEW d \in Present, \A e \in Present : e <= d
        PROVE  daily'[d] = daily[d]
    <3>1. Present \subseteq Nat /\ d \in Days
      BY BackupAssumption DEF Present, Days
    <3>2. {e \in Present : e > d} = {}
      <4>1. \A e \in Present : ~(e > d) BY <2>2, <3>1
      <4> QED BY <4>1
    <3>3. ~Excess(d) BY <3>2, FS_EmptySet, BackupAssumption DEF Excess
    <3> QED BY <2>1, <3>1, <3>3
  <2>3. ASSUME ~overlapped, MaxKeep > 0
        PROVE  Cardinality({d \in Days : daily'[d] # Absent}) <= MaxKeep
    <3>1. at[Other(b)] = "idle"
      BY <1>1, <2>3 DEF IInv, Alone, Lone, Prune
    <3>2. \A d \in Days : ~DailyOpen(d, {Other(b)})
      BY <3>1 DEF DailyOpen
    <3>3. {d \in Days : daily'[d] # Absent} = {d \in Present : ~Excess(d)}
      BY <2>1, <3>2 DEF Present
    <3> QED BY <1>1, <2>3, <3>3, FewAreKept DEF IInv
  <2> QED BY <2>2, <2>3
<1>2. IInv /\ [Next]_vars =>
        [\A b \in Caller : Prune(b) =>
            /\ \A d \in Present : (\A e \in Present : e <= d) => daily'[d] = daily[d]
            /\ ~overlapped /\ MaxKeep > 0 =>
                  Cardinality({d \in Days : daily'[d] # Absent}) <= MaxKeep]_vars
  BY <1>1
<1> QED BY Invariance, <1>2, PTL DEF Spec, PruneKeepsNewest
============================================================================
