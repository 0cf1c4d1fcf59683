------------------------------- MODULE Backup ------------------------------
(***************************************************************************)
(* The backups of storage/backup.go: VACUUM INTO the file of the day, a    *)
(* copy of it through token_monitor.db.tmp to token_monitor.db, and the    *)
(* removal of the oldest days.  Two goroutines call PerformAutoBackup, the *)
(* periodic one and main at its shutdown, and nothing keeps them apart.    *)
(* The process may stop between any two steps and be started again.        *)
(*                                                                         *)
(* The file system is that of Windows, the only one this program builds    *)
(* for: a file that someone has open can be read, and truncated, but not   *)
(* removed or renamed.                                                     *)
(***************************************************************************)
EXTENDS Integers, FiniteSets, FiniteSetsExt

CONSTANTS
    MaxKeep,      (* config.Backup.MaxKeep; 0 keeps everything              *)
    MaxVersion,   (* bound: how often the database changes                  *)
    MaxDay        (* bound: how many midnights pass                         *)

ASSUME BackupAssumption == MaxKeep \in Nat /\ MaxVersion \in Nat /\ MaxDay \in Nat

Caller == {"periodic", "final"}
Days == 0 .. MaxDay

VARIABLES
    version,      (* the state of the live database                         *)
    today,
    daily,        (* token_monitor_backup_<day>.db, per day                 *)
    tmp,          (* token_monitor.db.tmp                                   *)
    latest,       (* token_monitor.db in the backup directory               *)
    at,           (* where each caller of PerformAutoBackup is              *)
    day,          (* the day it read from the clock                         *)
    source,       (* what it finds in the file of the day while it copies   *)
    overlapped    (* two calls have been in progress at once                *)

vars == <<version, today, daily, tmp, latest, at, day, source, overlapped>>

(* A file is absent, incomplete, or the snapshot of some version.          *)
Absent == [is |-> "absent", ver |-> 0]
Part(v) == [is |-> "part", ver |-> v]
Whole(v) == [is |-> "whole", ver |-> v]

Steps == {"idle", "stat", "remove", "vacuum", "vacuuming", "copy", "copying",
          "rename", "prune"}

Init ==
    /\ version = 0 /\ today = 0
    /\ daily = [d \in Days |-> Absent]
    /\ tmp = Absent /\ latest = Absent
    /\ at = [b \in Caller |-> "idle"]
    /\ day = [b \in Caller |-> 0]
    /\ source = [b \in Caller |-> Absent]
    /\ overlapped = FALSE

Go(b, step) == at' = [at EXCEPT ![b] = step]
Other(b) == CHOOSE c \in Caller : c # b

(* Who has the file of day d, or the temporary file, open: the one that    *)
(* vacuums into it, and the one that copies it until it returns.           *)
DailyOpen(d, others) ==
    \E c \in others : day[c] = d /\ at[c] \in {"vacuuming", "copying", "rename"}
TmpOpen(others) == \E c \in others : at[c] = "copying"

(* The call returns.  After main's call the process exits, whatever the    *)
(* periodic one is doing, and is started again.                            *)
Return(b) == IF b = "final" THEN at' = [c \in Caller |-> "idle"] ELSE Go(b, "idle")

----------------------------------------------------------------------------
Commit ==
    /\ version < MaxVersion
    /\ version' = version + 1
    /\ UNCHANGED <<today, daily, tmp, latest, at, day, source, overlapped>>
Midnight ==
    /\ today < MaxDay
    /\ today' = today + 1
    /\ UNCHANGED <<version, daily, tmp, latest, at, day, source, overlapped>>

(* PerformAutoBackup: the name of the file is that of the day now.         *)
Begin(b) ==
    /\ at[b] = "idle"
    /\ Go(b, "stat")
    /\ day' = [day EXCEPT ![b] = today]
    /\ overlapped' = (overlapped \/ at[Other(b)] # "idle")
    /\ UNCHANGED <<version, today, daily, tmp, latest, source>>

(* CreateBackup: os.Stat, then os.Remove of an existing file, which fails  *)
(* when the file is open or has gone in between.                           *)
Stat(b) ==
    /\ at[b] = "stat"
    /\ Go(b, IF daily[day[b]] = Absent THEN "vacuum" ELSE "remove")
    /\ UNCHANGED <<version, today, daily, tmp, latest, day, source, overlapped>>
Remove(b) ==
    /\ at[b] = "remove"
    /\ IF daily[day[b]] = Absent \/ DailyOpen(day[b], {Other(b)})
       THEN Return(b) /\ UNCHANGED daily
       ELSE Go(b, "vacuum") /\ daily' = [daily EXCEPT ![day[b]] = Absent]
    /\ UNCHANGED <<version, today, tmp, latest, day, source, overlapped>>

(* VACUUM INTO refuses a file that exists, and reads one snapshot.         *)
VacuumBegins(b) ==
    /\ at[b] = "vacuum"
    /\ IF daily[day[b]] # Absent
       THEN Return(b) /\ UNCHANGED daily
       ELSE Go(b, "vacuuming") /\ daily' = [daily EXCEPT ![day[b]] = Part(version)]
    /\ UNCHANGED <<version, today, tmp, latest, day, source, overlapped>>
(* It may fail (its context of 2 minutes expires, the disk is full) and    *)
(* leaves an incomplete file then.                                         *)
VacuumEnds_Mutant(b, ok) ==
    /\ at[b] = "vacuuming"
    /\ Go(b, "copy")
    /\ daily' = IF ok THEN [daily EXCEPT ![day[b]] = Whole(@.ver)] ELSE daily
    /\ UNCHANGED <<version, today, tmp, latest, day, source, overlapped>>
VacuumEnds(b, ok) ==
    /\ at[b] = "vacuuming"
    /\ IF ok
       THEN Go(b, "copy") /\ daily' = [daily EXCEPT ![day[b]] = Whole(@.ver)]
       ELSE Return(b) /\ UNCHANGED daily
    /\ UNCHANGED <<version, today, tmp, latest, day, source, overlapped>>

(* copyFileAtomic: the file of the day is opened, the temporary file       *)
(* created or truncated.  Its error is a warning: pruning follows.         *)
CopyBegins_Mutant(b) ==
    /\ at[b] = "copy"
    /\ source' = [source EXCEPT ![b] = daily[day[b]]]
    /\ Go(b, IF daily[day[b]] = Absent THEN "prune" ELSE "copying")
    /\ latest' = IF daily[day[b]] = Absent THEN latest ELSE Part(daily[day[b]].ver)
    /\ UNCHANGED <<version, today, daily, tmp, day, overlapped>>
CopyBegins(b) ==
    /\ at[b] = "copy"
    /\ source' = [source EXCEPT ![b] = daily[day[b]]]
    /\ IF daily[day[b]] = Absent
       THEN Go(b, "prune") /\ UNCHANGED tmp
       ELSE Go(b, "copying") /\ tmp' = Part(daily[day[b]].ver)
    /\ UNCHANGED <<version, today, daily, latest, day, overlapped>>

(* io.Copy and Close.  A file that was incomplete when it was opened is    *)
(* copied as it was then or as it has become, and when the other caller    *)
(* writes to the temporary file as well, the outcome may be a mixture.     *)
CopyEnds(b) ==
    /\ at[b] = "copying"
    /\ \/ tmp' \in {source[b], daily[day[b]]}
       \/ tmp' = Part(source[b].ver) /\ TmpOpen({Other(b)})
    /\ Go(b, "rename")
    /\ UNCHANGED <<version, today, daily, latest, day, source, overlapped>>
(* The copy may fail (the disk is full): the temporary file is removed,    *)
(* unless the other caller has it open.                                    *)
CopyFails_Mutant(b) ==
    /\ at[b] = "copying"
    /\ latest' = Absent
    /\ Go(b, "prune")
    /\ UNCHANGED <<version, today, daily, tmp, day, source, overlapped>>
CopyFails(b) ==
    /\ at[b] = "copying"
    /\ tmp' = IF TmpOpen({Other(b)}) THEN tmp ELSE Absent
    /\ Go(b, "prune")
    /\ UNCHANGED <<version, today, daily, latest, day, source, overlapped>>

Rename(b) ==
    /\ at[b] = "rename"
    /\ Go(b, "prune")
    /\ IF tmp = Absent \/ TmpOpen({Other(b)})
       THEN UNCHANGED <<tmp, latest>>
       ELSE latest' = tmp /\ tmp' = Absent
    /\ UNCHANGED <<version, today, daily, day, source, overlapped>>

(* PruneOldBackups: of the daily files, in the order of their names, all   *)
(* but the last MaxKeep are removed.  One that is open stays.              *)
Present == {d \in Days : daily[d] # Absent}
Excess_Mutant(d) == MaxKeep > 0 /\ Cardinality({e \in Present : e < d}) >= MaxKeep
Excess(d) == MaxKeep > 0 /\ Cardinality({e \in Present : e > d}) >= MaxKeep
Prune(b) ==
    /\ at[b] = "prune"
    /\ daily' = [d \in Days |-> IF Excess(d) /\ ~DailyOpen(d, {Other(b)}) THEN Absent
                                ELSE daily[d]]
    /\ Return(b)
    /\ UNCHANGED <<version, today, tmp, latest, day, source, overlapped>>

(* The process dies, and the next one starts: what was in progress stays in*)
(* the directory as it is.                                                 *)
Restart ==
    /\ at # [b \in Caller |-> "idle"]
    /\ at' = [b \in Caller |-> "idle"]
    /\ UNCHANGED <<version, today, daily, tmp, latest, day, source, overlapped>>

PerformAutoBackup(b) ==
    \/ Begin(b) \/ Stat(b) \/ Remove(b)
    \/ VacuumBegins(b) \/ \E ok \in BOOLEAN : VacuumEnds(b, ok)
    \/ CopyBegins(b) \/ CopyEnds(b) \/ CopyFails(b) \/ Rename(b) \/ Prune(b)

Next == Commit \/ Midnight \/ Restart \/ \E b \in Caller : PerformAutoBackup(b)

Spec == Init /\ [][Next]_vars

----------------------------------------------------------------------------
File == {Absent} \cup {Part(v) : v \in 0 .. version} \cup {Whole(v) : v \in 0 .. version}
TypeOK ==
    /\ version \in 0 .. MaxVersion /\ today \in Days
    /\ daily \in [Days -> File]
    /\ tmp \in File /\ latest \in File
    /\ at \in [Caller -> Steps]
    /\ day \in [Caller -> 0 .. today]
    /\ source \in [Caller -> File]
    /\ overlapped \in BOOLEAN

(* As long as the two callers do not meet, the file one restores from is   *)
(* complete whenever it exists: a crash, a failed VACUUM or a full disk at *)
(* any step leaves the previous one.                                       *)
RestorableAlone == ~overlapped => latest.is # "part"

(* And it never goes back to an older state of the database.               *)
NeverGoesBack ==
    [][~overlapped' /\ latest # Absent => latest' # Absent /\ latest'.ver >= latest.ver]_vars

(* A call that meets no other and no fault has, when it begins to prune,   *)
(* brought the file one restores from up to the version it vacuumed.       *)
RenameTakes ==
    [][\A b \in Caller : Rename(b) /\ ~overlapped =>
        latest' = daily[day[b]] /\ latest'.is = "whole"]_vars

(* Pruning leaves the most recent file alone, and, when the callers do not *)
(* meet, at most MaxKeep files.                                            *)
PruneKeepsNewest ==
    [][\A b \in Caller : Prune(b) =>
        /\ \A d \in Present : (\A e \in Present : e <= d) => daily'[d] = daily[d]
        /\ ~overlapped /\ MaxKeep > 0 =>
              Cardinality({d \in Days : daily'[d] # Absent}) <= MaxKeep]_vars

============================================================================
