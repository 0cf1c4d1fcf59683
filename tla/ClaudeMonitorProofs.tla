------------------------ MODULE ClaudeMonitorProofs ------------------------
(***************************************************************************)
(* For any number of files, refreshers and writes: the types of            *)
(* ClaudeMonitor; that an unchanged file may be skipped (Accurate); that a *)
(* refresh never takes back what is shown (NeverShrinks); and that what it *)
(* found is current when it returns (RefreshIsCurrent).                    *)
(*                                                                         *)
(* Accurate needs to know the same of a session while it is read (Reading),*)
(* and that no remembered time lies in the future (Past).  It does not need*)
(* refreshMu.  NeverShrinks does: a published session stays what it was    *)
(* while its successor is read (Alone), and the successor begins with it   *)
(* (Successor), unless the file was written anew - and then none of its    *)
(* lines is as old as those that are shown.  RefreshIsCurrent needs Current*)
(* besides: of the files a refresh is done with, those that have not been  *)
(* written since it began are remembered with their time.                  *)
(***************************************************************************)
EXTENDS ClaudeMonitor, FiniteSetTheorems, TLAPS

Refreshing(r) == pass[r].session

(* No time is later than the clock.                                        *)
Past ==
    /\ \A f \in Files : disk[f].mtime <= now /\ files[f].mtime <= now
    /\ \A f \in Files : \A i \in 1 .. Len(disk[f].lines) : disk[f].lines[i] <= now
    /\ \A f \in Files : \A i \in 1 .. Len(files[f].lines) : files[f].lines[i] <= now
    /\ \A r \in Refreshers : AtFile(pass[r]) =>
        /\ Refreshing(r).mtime \in 1 .. now
        /\ \A i \in 1 .. Len(Refreshing(r).lines) : Refreshing(r).lines[i] <= now

(* What has been read of a file that was not written since the stat.       *)
Begins(s, t) == Len(s) <= Len(t) /\ \A i \in 1 .. Len(s) : s[i] = t[i]
Reading ==
    \A r \in Refreshers : AtFile(pass[r]) /\ Refreshing(r).mtime = disk[pass[r].file].mtime =>
        /\ pass[r].at \in {"open", "read"} =>
              Begins(Refreshing(r).lines, disk[pass[r].file].lines)
        /\ pass[r].at = "parsed" /\ ~Refreshing(r).cut =>
              Same(Refreshing(r), disk[pass[r].file])

Skipping ==
    \A f \in Files : Exists(f) /\ ~files[f].cut /\ files[f].mtime = disk[f].mtime
        => Same(files[f], disk[f])

SkipInv == TypeOK /\ Past /\ Reading /\ Skipping

(* One refresh at a time.                                                  *)
Alone == \A q, r \in Refreshers : pass[q].at # "idle" /\ pass[r].at # "idle" => q = r

(* A session whose first line is still in its file is what the file begins *)
(* with.                                                                   *)
Roots(s, t) == s # <<>> /\ t # <<>> /\ s[1] = t[1] => Begins(s, t)
Rooted ==
    /\ \A f \in Files : Roots(files[f].lines, disk[f].lines)
    /\ \A r \in Refreshers : AtFile(pass[r]) => Roots(Refreshing(r).lines, disk[pass[r].file].lines)

Successor ==
    \A r \in Refreshers : AtFile(pass[r]) =>
        LET shown == files[pass[r].file].lines
            there == disk[pass[r].file].lines
            read == Refreshing(r).lines
        IN  /\ pass[r].at = "open" => read = <<>>
            /\ pass[r].at = "read" /\ shown # <<>> /\ there # <<>> /\ read # <<>>
               /\ shown[1] = there[1] => read[1] = there[1]
            /\ pass[r].at = "parsed" /\ ~Refreshing(r).cut /\ shown # <<>>
               /\ Begins(shown, there) => Begins(shown, read)

ShowInv == SkipInv /\ Alone /\ Rooted /\ Successor

(* How far a refresh has come, as long as the system refused it nothing.   *)
Current ==
    \A r \in Refreshers :
        /\ pass[r].at # "idle" => pass[r].began <= now
        /\ pass[r].at \in {"next", "open", "read", "parsed"} /\ ~pass[r].missed =>
            \A f \in pass[r].found : Exists(f) /\ disk[f].mtime <= pass[r].began =>
                /\ f \notin pass[r].todo => files[f].mtime = disk[f].mtime
                /\ AtFile(pass[r]) /\ pass[r].file = f => Refreshing(r).mtime = disk[f].mtime
----------------------------------------------------------------------------
(* The callback of WalkDir keeps at most MaxFiles files: their ranks in the*)
(* order of the walk differ, and are less than MaxFiles.                   *)
LEMMA FirstFilesBound ==
    ASSUME NEW S \in SUBSET Files
    PROVE  /\ FirstFiles(S) \subseteq Files
           /\ Cardinality(FirstFiles(S)) <= MaxFiles
<1> DEFINE Before(f) == {g \in S : g < f}
           rank == [f \in FirstFiles(S) |-> Cardinality(Before(f))]
<1>1. IsFiniteSet(S)
  <2>1. IsFiniteSet(Files) BY FS_Interval, ClaudeAssumption DEF Files
  <2> QED BY <2>1, FS_Subset
<1>2. FirstFiles(S) \subseteq S /\ S \subseteq Nat
  BY DEF FirstFiles, Files
<1>3. \A f \in S : IsFiniteSet(Before(f)) /\ Cardinality(Before(f)) \in Nat
  BY <1>1, FS_Subset, FS_CardinalityType
<1>4. ASSUME NEW f \in S, NEW h \in S, f < h
      PROVE  Cardinality(Before(f)) < Cardinality(Before(h))
  <2>0. f \in Nat /\ h \in Nat /\ \A g \in S : g \in Nat BY <1>2
  <2>1. Before(f) \subseteq Before(h) /\ f \in Before(h) /\ f \notin Before(f)
    <3>1. ~(f < f) /\ \A g \in S : g < f => g < h BY <2>0, <1>4
    <3> QED BY <3>1, <1>4
  <2>2. Before(f) # Before(h) BY <2>1
  <2> QED BY <2>1, <2>2, <1>3, FS_Subset
<1>5. rank \in Injection(FirstFiles(S), 0 .. MaxFiles - 1)
  <2>1. rank \in [FirstFiles(S) -> 0 .. MaxFiles - 1]
    <3>1. ASSUME NEW f \in FirstFiles(S) PROVE Cardinality(Before(f)) \in 0 .. MaxFiles - 1
      <4>1. f \in S /\ Cardinality(Before(f)) < MaxFiles BY DEF FirstFiles
      <4> QED BY <4>1, <1>3, ClaudeAssumption
    <3> QED BY <3>1
  <2>2. ASSUME NEW f \in FirstFiles(S), NEW h \in FirstFiles(S), f # h
        PROVE  rank[f] # rank[h]
    <3>0. f \in S /\ h \in S BY <1>2
    <3>1. f \in Nat /\ h \in Nat BY <3>0, <1>2
    <3>2. f < h \/ h < f BY <3>1, <2>2
    <3>3. Cardinality(Before(f)) # Cardinality(Before(h))
      <4>1. Cardinality(Before(f)) \in Nat /\ Cardinality(Before(h)) \in Nat BY <3>0, <1>3
      <4>2. Cardinality(Before(f)) < Cardinality(Before(h))
            \/ Cardinality(Before(h)) < Cardinality(Before(f))
        BY <3>0, <3>2, <1>4
      <4> HIDE DEF Before
      <4> QED BY <4>1, <4>2
    <3>4. rank[f] = Cardinality(Before(f)) /\ rank[h] = Cardinality(Before(h)) OBVIOUS
    <3> HIDE DEF rank, Before
    <3> QED BY <3>3, <3>4
  <2> QED BY <2>1, <2>2 DEF Injection, IsInjective
<1>6. IsFiniteSet(0 .. MaxFiles - 1) /\ Cardinality(0 .. MaxFiles - 1) = MaxFiles
  BY FS_Interval, ClaudeAssumption
<1>7. Cardinality(FirstFiles(S)) <= MaxFiles
  BY <1>5, <1>6, FS_Injection
<1> QED BY <1>2, <1>7
(* What Claude Code does to the directory.                                 *)
LEMMA ClaudeStep ==
    ASSUME TypeOK, Claude
    PROVE  /\ UNCHANGED <<published, pass, failures>>
           /\ now' \in {now, now + 1} /\ now' \in 0 .. MaxWrites /\ dir' \in BOOLEAN
           /\ disk' \in [Files -> FileType]
           /\ \A f \in Files :
                \/ disk'[f] = disk[f]
                \/ disk'[f] = NoFile /\ ~OpenNow(f)
                \/ /\ now' = now + 1 /\ disk'[f].mtime = now'
                   /\ disk'[f].lines \in {disk[f].lines, Append(disk[f].lines, now'),
                                          <<now'>>, <<>>}
<1> USE ClaudeAssumption
<1>0. NoFile \in FileType
  BY DEF NoFile, FileType
<1>1. ASSUME NEW f \in Files, NEW file, Write(f, file), file \in FileType,
             now + 1 \in Times =>
                file.lines \in {disk[f].lines, Append(disk[f].lines, now + 1), <<now + 1>>, <<>>},
             dir' \in BOOLEAN
      PROVE  /\ UNCHANGED <<published, pass, failures>>
             /\ now' \in {now, now + 1} /\ now' \in 0 .. MaxWrites /\ dir' \in BOOLEAN
             /\ disk' \in [Files -> FileType]
             /\ \A g \in Files :
                  \/ disk'[g] = disk[g]
                  \/ /\ now' = now + 1 /\ disk'[g].mtime = now'
                     /\ disk'[g].lines \in {disk[g].lines, Append(disk[g].lines, now'),
                                            <<now'>>, <<>>}
  <2>1. now + 1 \in Times /\ now' = now + 1 /\ now' \in 0 .. MaxWrites
    BY <1>1 DEF Write, TypeOK, Times
  <2>2. disk' = [disk EXCEPT ![f] = [file EXCEPT !.mtime = now']]
    BY <1>1 DEF Write
  <2>3. [file EXCEPT !.mtime = now'] \in FileType
    BY <1>1, <2>1 DEF FileType
  <2> QED BY <1>1, <2>1, <2>2, <2>3 DEF Write, TypeOK, FileType
<1>2. ASSUME NEW f \in Files, AppendLine(f) \/ HalfLine(f) \/ Begin(f)
      PROVE  \E file \in FileType :
                /\ Write(f, file) /\ dir' \in BOOLEAN
                /\ now + 1 \in Times =>
                     file.lines \in {disk[f].lines, Append(disk[f].lines, now + 1),
                                     <<now + 1>>, <<>>}
  <2>1. disk[f] \in FileType /\ now + 1 \in Times
    <3>1. AppendLine(f) \/ HalfLine(f) \/ Begin(f) => now < MaxWrites
      BY DEF AppendLine, HalfLine, Begin, Write
    <3> QED BY <1>2, <3>1 DEF TypeOK, Times
  <2>2. CASE AppendLine(f)
    <3> DEFINE file == [disk[f] EXCEPT !.lines = Append(@, now + 1), !.half = FALSE]
    <3>0. disk[f].lines \in Seq(Times) BY <2>1 DEF FileType
    <3>1. Append(disk[f].lines, now + 1) \in Seq(Times) BY <3>0, <2>1
    <3>2. file \in FileType /\ file.lines = Append(disk[f].lines, now + 1)
      BY <2>1, <3>1 DEF FileType
    <3> QED BY <2>2, <3>2 DEF AppendLine, TypeOK
  <2>3. CASE HalfLine(f)
    <3> DEFINE file == [disk[f] EXCEPT !.half = TRUE]
    <3>1. file \in FileType /\ file.lines = disk[f].lines
      BY <2>1 DEF FileType
    <3> QED BY <2>3, <3>1 DEF HalfLine, TypeOK
  <2>4. CASE Begin(f)
    <3>0. <<now + 1>> \in Seq(Times) BY <2>1
    <3>1. [NoFile EXCEPT !.lines = <<now + 1>>] \in FileType
          /\ [NoFile EXCEPT !.lines = <<now + 1>>].lines = <<now + 1>>
      BY <3>0, <1>0 DEF FileType, NoFile
    <3>2. [NoFile EXCEPT !.half = TRUE] \in FileType
          /\ [NoFile EXCEPT !.half = TRUE].lines = <<>>
      BY <1>0 DEF FileType, NoFile
    <3> QED BY <2>4, <3>1, <3>2 DEF Begin
  <2> QED BY <1>2, <2>2, <2>3, <2>4
<1>3. ASSUME NEW f \in Files, Delete(f)
      PROVE  /\ UNCHANGED <<now, dir, published, pass, failures>>
             /\ disk' \in [Files -> FileType]
             /\ \A g \in Files : disk'[g] = disk[g] \/ (disk'[g] = NoFile /\ ~OpenNow(g))
  BY <1>0, <1>3 DEF Delete, TypeOK
<1>4. CASE RemoveDir
  <2>1. /\ UNCHANGED <<published, pass, failures>>
        /\ now' \in {now, now + 1} /\ dir' \in BOOLEAN
        /\ disk' = [f \in Files |-> NoFile]
        /\ \A f \in Files : ~OpenNow(f)
    BY <1>4 DEF RemoveDir
  <2>2. now' \in 0 .. MaxWrites
    BY <1>4 DEF RemoveDir, TypeOK
  <2> QED BY <1>0, <2>1, <2>2
<1>5. CASE \E f \in Files : AppendLine(f) \/ HalfLine(f) \/ Begin(f)
  <2>1. PICK f \in Files : AppendLine(f) \/ HalfLine(f) \/ Begin(f)
    BY <1>5
  <2>2. PICK file \in FileType :
           /\ Write(f, file) /\ dir' \in BOOLEAN
           /\ now + 1 \in Times =>
                file.lines \in {disk[f].lines, Append(disk[f].lines, now + 1),
                                <<now + 1>>, <<>>}
    BY <2>1, <1>2
  <2> QED BY <1>1, <2>2
<1>6. CASE \E f \in Files : Delete(f)
  <2>1. PICK f \in Files : Delete(f) BY <1>6
  <2>2. /\ UNCHANGED <<now, dir, published, pass, failures>>
        /\ disk' \in [Files -> FileType]
        /\ \A g \in Files : disk'[g] = disk[g] \/ (disk'[g] = NoFile /\ ~OpenNow(g))
    BY <2>1, <1>3
  <2>3. now' \in {now, now + 1} /\ now' \in 0 .. MaxWrites /\ dir' \in BOOLEAN
    BY <2>2 DEF TypeOK
  <2> QED BY <2>2, <2>3
<1> QED BY <1>4, <1>5, <1>6 DEF Claude

LEMMA SessionsAreSessions ==
    ASSUME TypeOK
    PROVE  /\ NoSession \in SessionType /\ Idle \in PassType
           /\ \A f \in Files : Size(disk[f]) \in Nat
<1>1. NoSession \in SessionType /\ Idle \in PassType
  BY ClaudeAssumption DEF NoSession, SessionType, Idle, PassType
<1>2. ASSUME NEW f \in Files PROVE Size(disk[f]) \in Nat
  <2>1. disk[f] \in FileType BY DEF TypeOK
  <2>2. Len(disk[f].lines) \in Nat BY <2>1 DEF FileType
  <2>3. CASE disk[f].half BY <2>2, <2>3 DEF Size
  <2>4. CASE ~disk[f].half BY <2>2, <2>4 DEF Size
  <2> QED BY <2>3, <2>4
<1> QED BY <1>1, <1>2
(* A refresher that goes on leaves the others as they are.                 *)
PassesOK ==
    /\ pass \in [Refreshers -> PassType]
    /\ \A r \in Refreshers :
        /\ Cardinality(pass[r].found) <= MaxFiles
        /\ AtFile(pass[r]) => pass[r].file \in Files

LEMMA GoesOK ==
    ASSUME TypeOK, NEW r \in Refreshers, NEW next \in PassType,
           Cardinality(next.found) <= MaxFiles, AtFile(next) => next.file \in Files,
           Goes(r, next)
    PROVE  /\ PassesOK'
           /\ pass'[r] = next
           /\ \A q \in Refreshers : q # r => pass'[q] = pass[q]
<1>1. pass' = [pass EXCEPT ![r] = next] /\ pass \in [Refreshers -> PassType]
  BY DEF Goes, TypeOK
<1>2. \A q \in Refreshers : /\ Cardinality(pass[q].found) <= MaxFiles
                            /\ AtFile(pass[q]) => pass[q].file \in Files
  BY DEF TypeOK
<1>3. pass'[r] = next /\ \A q \in Refreshers : q # r => pass'[q] = pass[q]
  BY <1>1
<1>4. pass' \in [Refreshers -> PassType]
  BY <1>1
<1>5. ASSUME NEW q \in Refreshers
      PROVE  /\ Cardinality(pass'[q].found) <= MaxFiles
             /\ AtFile(pass'[q]) => pass'[q].file \in Files
  BY <1>2, <1>3
<1> QED BY <1>3, <1>4, <1>5 DEF PassesOK, AtFile

LEMMA SkipOK ==
    ASSUME TypeOK, NEW r \in Refreshers, NEW f, NEW missed \in BOOLEAN, Skip(r, f, missed)
    PROVE  /\ PassesOK'
           /\ pass'[r].at = "next"
           /\ \A q \in Refreshers : q # r => pass'[q] = pass[q]
<1> DEFINE next == [pass[r] EXCEPT !.at = "next", !.todo = @ \ {f}, !.file = 0,
                            !.session = NoSession, !.missed = @ \/ missed]
<1>1. pass[r] \in PassType /\ Cardinality(pass[r].found) <= MaxFiles
  BY DEF TypeOK
<1>2. NoSession \in SessionType /\ 0 \in 0 .. NumFiles
  BY SessionsAreSessions, ClaudeAssumption
<1>3. next \in PassType /\ next.found = pass[r].found /\ next.at = "next"
  BY <1>1, <1>2 DEF PassType
<1>4. Goes(r, next)
  BY DEF Skip
<1>5. ~AtFile(next)
  BY <1>3 DEF AtFile
<1> HIDE DEF next
<1> QED BY <1>1, <1>3, <1>4, <1>5, GoesOK

(* Every step keeps the types.                                             *)
LEMMA TypesKept == ASSUME TypeOK, Next PROVE TypeOK'
<1> USE ClaudeAssumption
<1>0. /\ NoSession \in SessionType /\ Idle \in PassType
      /\ \A f \in Files : Size(disk[f]) \in Nat /\ disk[f] \in FileType
  BY SessionsAreSessions DEF TypeOK
<1>1. CASE Claude
  BY <1>1, ClaudeStep DEF TypeOK, published
<1>2. ASSUME NEW r \in Refreshers, Lock(r) PROVE TypeOK'
  <2>1. CASE dir
    <3> DEFINE next == [Idle EXCEPT !.at = "walk", !.began = now]
    <3>1. next \in PassType /\ next.found = {} /\ ~AtFile(next)
      BY <1>0 DEF TypeOK, PassType, Idle, AtFile
    <3>2. Cardinality(next.found) <= MaxFiles
      BY <3>1, FS_EmptySet
    <3>3. Goes(r, next) /\ UNCHANGED <<world, files, lastError, failures>>
      BY <1>2, <2>1 DEF Lock
    <3> HIDE DEF next
    <3> QED BY <3>1, <3>2, <3>3, GoesOK DEF TypeOK, PassesOK, world
  <2>2. CASE ~dir
    BY <1>2, <2>2 DEF Lock, TypeOK, world
  <2> QED BY <2>1, <2>2 DEF TypeOK
<1>3. ASSUME NEW r \in Refreshers, Walk(r) PROVE TypeOK'
  <2>1. PICK hidden \in SUBSET {f \in Files : Exists(f)} :
          LET found == FirstFiles({f \in Files : Exists(f)} \ hidden)
          IN  /\ IF hidden = {} THEN UNCHANGED failures ELSE MayFail
              /\ files' = [f \in Files |-> IF f \in found THEN files[f] ELSE NoSession]
              /\ Goes(r, [pass[r] EXCEPT !.at = "next", !.todo = found, !.found = found,
                                         !.missed = hidden # {}])
    BY <1>3 DEF Walk
  <2> DEFINE found == FirstFiles({f \in Files : Exists(f)} \ hidden)
             next == [pass[r] EXCEPT !.at = "next", !.todo = found, !.found = found,
                                     !.missed = hidden # {}]
  <2>2. found \subseteq Files /\ Cardinality(found) <= MaxFiles
    BY FirstFilesBound
  <2>3. files' \in [Files -> SessionType]
    <3>1. files' = [f \in Files |-> IF f \in found THEN files[f] ELSE NoSession]
      BY <2>1
    <3> HIDE DEF found
    <3> QED BY <3>1, <1>0 DEF TypeOK
  <2>4. failures' \in 0 .. MaxFailures
    BY <2>1 DEF MayFail, TypeOK
  <2>5. PassesOK'
    <3>1. Goes(r, next) BY <2>1
    <3> HIDE DEF found
    <3>2. next \in PassType /\ next.found = found /\ ~AtFile(next)
      BY <2>2 DEF TypeOK, PassType, AtFile
    <3> HIDE DEF next
    <3> QED BY <3>1, <3>2, <2>2, GoesOK
  <2> QED BY <1>3, <2>3, <2>4, <2>5 DEF Walk, TypeOK, PassesOK, world
<1>4. ASSUME NEW r \in Refreshers, NEW f \in Files, StatSkips(r, f) PROVE TypeOK'
  <2>1. Skip(r, f, FALSE) BY <1>4 DEF StatSkips
  <2>2. PassesOK' BY <2>1, SkipOK
  <2> QED BY <1>4, <2>2 DEF StatSkips, TypeOK, PassesOK, world, published
<1>5. ASSUME NEW r \in Refreshers, NEW f \in Files, StatFinds(r, f) PROVE TypeOK'
  <2> DEFINE session == [NoSession EXCEPT !.mtime = disk[f].mtime, !.size = Size(disk[f])]
             next == [pass[r] EXCEPT !.at = "open", !.file = f, !.session = session]
  <2>1. session \in SessionType
    BY <1>0 DEF SessionType, FileType
  <2>2. Goes(r, next) BY <1>5 DEF StatFinds
  <2>3. next \in PassType /\ next.found = pass[r].found /\ next.file \in Files
    <3>1. pass[r] \in PassType /\ f \in 0 .. NumFiles
      BY DEF TypeOK, Files
    <3> HIDE DEF session
    <3> QED BY <2>1, <3>1 DEF PassType
  <2>4. PassesOK'
    <3> HIDE DEF next
    <3> QED BY <2>2, <2>3, GoesOK DEF TypeOK
  <2> QED BY <1>5, <2>4 DEF StatFinds, TypeOK, PassesOK, world, published
<1>6. ASSUME NEW r \in Refreshers, Open(r) PROVE TypeOK'
  <2> DEFINE next == [pass[r] EXCEPT !.at = "read"]
  <2>1. Goes(r, next) BY <1>6 DEF Open
  <2>2. next \in PassType /\ next.found = pass[r].found /\ next.file \in Files
    BY <1>6 DEF Open, TypeOK, PassType, AtFile
  <2>3. PassesOK'
    <3> HIDE DEF next
    <3> QED BY <2>1, <2>2, GoesOK DEF TypeOK
  <2> QED BY <1>6, <2>3 DEF Open, TypeOK, PassesOK, world, published
<1>7. ASSUME NEW r \in Refreshers, OpenMissing(r) PROVE TypeOK'
  <2>1. Skip(r, pass[r].file, FALSE) BY <1>7 DEF OpenMissing
  <2>2. PassesOK' BY <2>1, SkipOK
  <2> QED BY <1>7, <2>2 DEF OpenMissing, TypeOK, PassesOK, world, published
<1>8. ASSUME NEW r \in Refreshers, Refused(r) PROVE TypeOK'
  <2>1. \E f : Skip(r, f, TRUE) BY <1>8 DEF Refused
  <2>2. PassesOK' BY <2>1, SkipOK
  <2> QED BY <1>8, <2>2 DEF Refused, MayFail, TypeOK, PassesOK, world, published
<1>9. ASSUME NEW r \in Refreshers, ReadLine(r) PROVE TypeOK'
  <2> DEFINE n == Len(pass[r].session.lines) + 1
             line == disk[pass[r].file].lines[n]
             next == [pass[r] EXCEPT !.session.lines = Append(@, line)]
  <2>1. Goes(r, next) BY <1>9 DEF ReadLine
  <2>2. Append(pass[r].session.lines, line) \in Seq(Times)
    <3>1. pass[r].file \in Files
      BY <1>9 DEF ReadLine, TypeOK, AtFile
    <3>2. pass[r].session.lines \in Seq(Times) /\ disk[pass[r].file].lines \in Seq(Times)
      BY <3>1 DEF TypeOK, PassType, SessionType, FileType
    <3>3. Len(pass[r].session.lines) < Len(disk[pass[r].file].lines)
      BY <1>9 DEF ReadLine, LineThere
    <3>4. ASSUME NEW s \in Seq(Times), NEW u \in Seq(Times), Len(s) < Len(u)
          PROVE  Append(s, u[Len(s) + 1]) \in Seq(Times)
      <4>1. Len(s) \in Nat /\ Len(u) \in Nat OBVIOUS
      <4>2. Len(s) + 1 \in 1 .. Len(u) BY <3>4, <4>1
      <4>3. u[Len(s) + 1] \in Times BY <4>2
      <4> QED BY <4>3
    <3> QED BY <3>2, <3>3, <3>4
  <2>3. next \in PassType /\ next.found = pass[r].found /\ next.file \in Files
    <3>1. pass[r].file \in Files
      BY <1>9 DEF ReadLine, TypeOK, AtFile
    <3>2. pass[r] \in PassType /\ pass[r].session \in SessionType
      BY DEF TypeOK, PassType
    <3> HIDE DEF line
    <3>3. next = [pass[r] EXCEPT !.session = [pass[r].session EXCEPT !.lines = Append(@, line)]]
      BY <3>2 DEF PassType, SessionType
    <3>4. [pass[r].session EXCEPT !.lines = Append(@, line)] \in SessionType
      BY <2>2, <3>2 DEF SessionType
    <3> HIDE DEF next
    <3> QED BY <3>1, <3>2, <3>3, <3>4 DEF PassType
  <2>4. PassesOK'
    <3> HIDE DEF next
    <3> QED BY <2>1, <2>3, GoesOK DEF TypeOK
  <2> QED BY <1>9, <2>4 DEF ReadLine, TypeOK, PassesOK, world, published
<1>10. ASSUME NEW r \in Refreshers, NEW half \in BOOLEAN, NEW cut \in BOOLEAN,
              pass[r].at = "read",
              Goes(r, [pass[r] EXCEPT !.at = "parsed", !.session.half = half,
                                      !.session.cut = cut])
       PROVE  PassesOK'
  <2> DEFINE next == [pass[r] EXCEPT !.at = "parsed", !.session.half = half,
                                     !.session.cut = cut]
  <2>1. next \in PassType /\ next.found = pass[r].found /\ next.file \in Files
    <3>1. pass[r] \in PassType /\ pass[r].session \in SessionType /\ pass[r].file \in Files
      BY <1>10 DEF TypeOK, PassType, AtFile
    <3>2. [pass[r].session EXCEPT !.half = half, !.cut = cut] \in SessionType
      BY <3>1 DEF SessionType
    <3>3. next = [pass[r] EXCEPT !.at = "parsed",
                    !.session = [pass[r].session EXCEPT !.half = half, !.cut = cut]]
      BY <3>1 DEF PassType, SessionType
    <3> HIDE DEF next
    <3> QED BY <3>1, <3>2, <3>3 DEF PassType
  <2>2. Goes(r, next) BY <1>10
  <2> HIDE DEF next
  <2> QED BY <2>1, <2>2, GoesOK DEF TypeOK
<1>11. ASSUME NEW r \in Refreshers, ReadEnds(r) PROVE TypeOK'
  <2> DEFINE half == disk[pass[r].file].half
             next == [pass[r] EXCEPT !.at = "parsed", !.session.half = half]
  <2>1. pass[r].file \in Files /\ half \in BOOLEAN
    BY <1>0, <1>11 DEF ReadEnds, TypeOK, AtFile, FileType
  <2>2. Goes(r, next) BY <1>11 DEF ReadEnds
  <2>3. next \in PassType /\ next.found = pass[r].found /\ next.file \in Files
    <3>1. pass[r] \in PassType /\ pass[r].session \in SessionType
      BY DEF TypeOK, PassType
    <3> HIDE DEF half
    <3>2. [pass[r].session EXCEPT !.half = half] \in SessionType
      BY <2>1, <3>1 DEF SessionType
    <3>3. next = [pass[r] EXCEPT !.at = "parsed",
                    !.session = [pass[r].session EXCEPT !.half = half]]
      BY <3>1 DEF PassType, SessionType
    <3> HIDE DEF next
    <3> QED BY <2>1, <3>1, <3>2, <3>3 DEF PassType
  <2>4. PassesOK'
    <3> HIDE DEF next
    <3> QED BY <2>2, <2>3, GoesOK DEF TypeOK
  <2> QED BY <1>11, <2>4 DEF ReadEnds, TypeOK, PassesOK, world, published
<1>12. ASSUME NEW r \in Refreshers, ReadCut(r) PROVE TypeOK'
  <2>1. PassesOK'
    <3>1. PICK half \in BOOLEAN :
            Goes(r, [pass[r] EXCEPT !.at = "parsed", !.session.half = half,
                                    !.session.cut = TRUE])
      BY <1>12 DEF ReadCut
    <3> QED BY <3>1, <1>10, <1>12 DEF ReadCut
  <2> QED BY <1>12, <2>1 DEF ReadCut, MayFail, TypeOK, PassesOK, world, published
<1>13. ASSUME NEW r \in Refreshers, Publish(r) PROVE TypeOK'
  <2>1. Skip(r, pass[r].file, FALSE) BY <1>13 DEF Publish
  <2>2. PassesOK' BY <2>1, SkipOK
  <2>3. pass[r].session \in SessionType BY DEF TypeOK, PassType
  <2> QED BY <1>13, <2>2, <2>3 DEF Publish, TypeOK, PassesOK, world
<1>14. ASSUME NEW r \in Refreshers, Return(r) PROVE TypeOK'
  <2>1. Idle.found = {} /\ ~AtFile(Idle) BY DEF Idle, AtFile
  <2>2. Cardinality(Idle.found) <= MaxFiles BY <2>1, FS_EmptySet
  <2>3. PassesOK' BY <1>0, <1>14, <2>1, <2>2, GoesOK DEF Return
  <2> QED BY <1>14, <2>3 DEF Return, TypeOK, PassesOK, world
<1>15. CASE \E r \in Refreshers : Lock(r) \/ Refresh(r)
  BY <1>15, <1>2, <1>3, <1>4, <1>5, <1>6, <1>7, <1>8, <1>9, <1>11, <1>12, <1>13, <1>14
     DEF Refresh
<1> QED BY <1>1, <1>15 DEF Next
----------------------------------------------------------------------------
(* What a step of a refresher does to what is read and shown: it leaves the*)
(* file it was at, or goes from the stat of a file to its publication.     *)
Leaves(r) == UNCHANGED files /\ ~AtFile(pass'[r])
Forgets(r) ==
    /\ pass[r].at = "walk" /\ ~AtFile(pass'[r])
    /\ \A f \in Files : files'[f] \in {files[f], NoSession}
Finds(r) ==
    /\ UNCHANGED files
    /\ pass'[r].at = "open" /\ Exists(pass'[r].file)
    /\ pass'[r].session.mtime = disk[pass'[r].file].mtime
    /\ pass'[r].session.lines = <<>>
SameFile(r) ==
    /\ UNCHANGED files /\ AtFile(pass[r])
    /\ pass'[r].file = pass[r].file /\ pass'[r].session.mtime = pass[r].session.mtime
Opens(r) ==
    /\ SameFile(r)
    /\ pass[r].at = "open" /\ pass'[r].at = "read"
    /\ pass'[r].session = pass[r].session
Reads(r) ==
    LET n == Len(pass[r].session.lines) + 1
        there == disk[pass[r].file].lines
    IN  /\ SameFile(r)
        /\ pass[r].at = "read" /\ pass'[r].at = "read"
        /\ n <= Len(there)
        /\ pass'[r].session.lines = Append(pass[r].session.lines, there[n])
Ends(r) ==
    /\ SameFile(r)
    /\ pass[r].at = "read" /\ pass'[r].at = "parsed"
    /\ pass'[r].session.lines = pass[r].session.lines
    /\ \/ pass'[r].session.cut
       \/ ~LineThere(r) /\ pass'[r].session.half = disk[pass[r].file].half
Publishes(r) ==
    /\ pass[r].at = "parsed" /\ ~AtFile(pass'[r])
    /\ files' = [files EXCEPT ![pass[r].file] = pass[r].session]

LEMMA RefreshStep ==
    ASSUME TypeOK, NEW r \in Refreshers, Lock(r) \/ Refresh(r)
    PROVE  /\ UNCHANGED world
           /\ \A q \in Refreshers : q # r => pass'[q] = pass[q]
           /\ RefreshMuFree \/ pass[r].at # "idle"
           /\ \/ Leaves(r) \/ Forgets(r) \/ Finds(r) \/ Opens(r) \/ Reads(r) \/ Ends(r)
              \/ Publishes(r)
<1>0. /\ pass[r] \in PassType /\ pass[r].session \in SessionType
      /\ pass \in [Refreshers -> PassType] /\ files \in [Files -> SessionType]
  BY DEF TypeOK, PassType
<1>1. ASSUME NEW next, Goes(r, next)
      PROVE  pass'[r] = next /\ \A q \in Refreshers : q # r => pass'[q] = pass[q]
  BY <1>0, <1>1 DEF Goes
<1>2. ASSUME NEW f, NEW missed, Skip(r, f, missed)
      PROVE  ~AtFile(pass'[r]) /\ \A q \in Refreshers : q # r => pass'[q] = pass[q]
  <2> DEFINE next == [pass[r] EXCEPT !.at = "next", !.todo = @ \ {f}, !.file = 0,
                                     !.session = NoSession, !.missed = @ \/ missed]
  <2>1. ~AtFile(next) BY <1>0 DEF AtFile, PassType
  <2>2. Goes(r, next) BY <1>2 DEF Skip
  <2> HIDE DEF next
  <2> QED BY <2>1, <2>2, <1>1
<1>3. CASE Lock(r)
  <2>1. ~AtFile(pass'[r]) /\ \A q \in Refreshers : q # r => pass'[q] = pass[q]
    <3>1. CASE dir
      <4> DEFINE next == [Idle EXCEPT !.at = "walk", !.began = now]
      <4>1. ~AtFile(next) BY DEF AtFile, Idle
      <4>2. Goes(r, next) BY <1>3, <3>1 DEF Lock
      <4> HIDE DEF next
      <4> QED BY <4>1, <4>2, <1>1
    <3>2. CASE ~dir
      BY <1>3, <3>2 DEF Lock, RefreshMuFree, AtFile
    <3> QED BY <3>1, <3>2
  <2> QED BY <1>3, <2>1 DEF Lock, Leaves
<1>4. CASE Walk(r)
  <2>1. PICK found :
          /\ files' = [f \in Files |-> IF f \in found THEN files[f] ELSE NoSession]
          /\ \E hidden : Goes(r, [pass[r] EXCEPT !.at = "next", !.todo = found,
                                    !.found = found, !.missed = hidden # {}])
    BY <1>4 DEF Walk
  <2>2. PICK hidden : Goes(r, [pass[r] EXCEPT !.at = "next", !.todo = found,
                                    !.found = found, !.missed = hidden # {}])
    BY <2>1
  <2> DEFINE next == [pass[r] EXCEPT !.at = "next", !.todo = found, !.found = found,
                                     !.missed = hidden # {}]
  <2>3. ~AtFile(next) BY <1>0 DEF AtFile, PassType
  <2>4. pass'[r] = next /\ \A q \in Refreshers : q # r => pass'[q] = pass[q]
    BY <2>2, <1>1
  <2> HIDE DEF next
  <2> QED BY <1>4, <2>1, <2>3, <2>4 DEF Walk, Forgets
<1>5. ASSUME NEW f \in Files, StatSkips(r, f)
      PROVE  /\ UNCHANGED world /\ pass[r].at = "next" /\ Leaves(r)
             /\ \A q \in Refreshers : q # r => pass'[q] = pass[q]
  BY <1>5, <1>2 DEF StatSkips, Leaves, published
<1>6. ASSUME NEW f \in Files, StatFinds(r, f)
      PROVE  /\ UNCHANGED world /\ pass[r].at = "next" /\ Finds(r)
             /\ \A q \in Refreshers : q # r => pass'[q] = pass[q]
  <2> DEFINE session == [NoSession EXCEPT !.mtime = disk[f].mtime, !.size = Size(disk[f])]
             next == [pass[r] EXCEPT !.at = "open", !.file = f, !.session = session]
  <2>1. session.mtime = disk[f].mtime /\ session.lines = <<>> BY DEF NoSession
  <2>2. pass'[r] = next /\ \A q \in Refreshers : q # r => pass'[q] = pass[q]
    BY <1>6, <1>1 DEF StatFinds
  <2> HIDE DEF session
  <2>3. next.at = "open" /\ next.file = f /\ next.session = session BY <1>0 DEF PassType
  <2> HIDE DEF next
  <2> QED BY <1>6, <2>1, <2>2, <2>3 DEF StatFinds, Finds, published
<1>7. CASE Open(r)
  <2> DEFINE next == [pass[r] EXCEPT !.at = "read"]
  <2>1. pass'[r] = next /\ \A q \in Refreshers : q # r => pass'[q] = pass[q]
    BY <1>7, <1>1 DEF Open
  <2>2. next.at = "read" /\ next.file = pass[r].file /\ next.session = pass[r].session
    BY <1>0 DEF PassType
  <2> HIDE DEF next
  <2> QED BY <1>7, <2>1, <2>2 DEF Open, Opens, SameFile, AtFile, published
<1>8. CASE OpenMissing(r)
  BY <1>8, <1>2 DEF OpenMissing, Leaves, published
<1>9. CASE Refused(r)
  <2>1. pass[r].at # "idle" /\ \E f : Skip(r, f, TRUE) BY <1>9 DEF Refused
  <2> QED BY <1>9, <2>1, <1>2 DEF Refused, Leaves, published
<1>10. CASE ReadLine(r)
  <2> DEFINE line == disk[pass[r].file].lines[Len(pass[r].session.lines) + 1]
             next == [pass[r] EXCEPT !.session.lines = Append(@, line)]
  <2>1. pass'[r] = next /\ \A q \in Refreshers : q # r => pass'[q] = pass[q]
    BY <1>10, <1>1 DEF ReadLine
  <2>2. /\ next.at = pass[r].at /\ next.file = pass[r].file
        /\ next.session.mtime = pass[r].session.mtime
        /\ next.session.lines = Append(pass[r].session.lines, line)
    <3> HIDE DEF line
    <3> QED BY <1>0 DEF PassType, SessionType
  <2>3. Len(pass[r].session.lines) + 1 <= Len(disk[pass[r].file].lines)
    <3>1. pass[r].file \in Files BY <1>10 DEF ReadLine, TypeOK, AtFile
    <3>2. Len(pass[r].session.lines) \in Nat /\ Len(disk[pass[r].file].lines) \in Nat
      BY <3>1, <1>0 DEF TypeOK, SessionType, FileType
    <3> QED BY <1>10, <3>2 DEF ReadLine, LineThere
  <2> HIDE DEF next
  <2> QED BY <1>10, <2>1, <2>2, <2>3 DEF ReadLine, Reads, SameFile, AtFile, published
<1>11. ASSUME NEW half, NEW cut \in {pass[r].session.cut, TRUE}, pass[r].at = "read",
              UNCHANGED <<world, published>>,
              cut \/ (~LineThere(r) /\ half = disk[pass[r].file].half),
              pass'[r] = [pass[r] EXCEPT !.at = "parsed", !.session.half = half,
                                         !.session.cut = cut]
       PROVE  Ends(r)
  <2> DEFINE next == [pass[r] EXCEPT !.at = "parsed", !.session.half = half,
                                     !.session.cut = cut]
  <2>1. /\ next.at = "parsed" /\ next.file = pass[r].file
        /\ next.session.mtime = pass[r].session.mtime /\ next.session.half = half
        /\ next.session.lines = pass[r].session.lines /\ next.session.cut = cut
    BY <1>0 DEF PassType, SessionType
  <2>2. pass'[r] = next BY <1>11
  <2> HIDE DEF next
  <2> QED BY <1>11, <2>1, <2>2 DEF Ends, SameFile, AtFile, published
<1>12. CASE ReadEnds(r)
  <2> DEFINE half == disk[pass[r].file].half
             next == [pass[r] EXCEPT !.at = "parsed", !.session.half = half]
  <2>1. pass'[r] = next /\ \A q \in Refreshers : q # r => pass'[q] = pass[q]
    BY <1>12, <1>1 DEF ReadEnds
  <2>2. next = [pass[r] EXCEPT !.at = "parsed", !.session.half = half,
                               !.session.cut = pass[r].session.cut]
    <3> HIDE DEF half
    <3> QED BY <1>0 DEF PassType, SessionType
  <2>3. Ends(r) BY <1>12, <2>1, <2>2, <1>11 DEF ReadEnds
  <2> QED BY <1>12, <2>1, <2>3 DEF ReadEnds
<1>13. CASE ReadCut(r)
  <2>1. PICK half \in BOOLEAN : Goes(r, [pass[r] EXCEPT !.at = "parsed",
                                          !.session.half = half, !.session.cut = TRUE])
    BY <1>13 DEF ReadCut
  <2>2. /\ pass'[r] = [pass[r] EXCEPT !.at = "parsed", !.session.half = half,
                                      !.session.cut = TRUE]
        /\ \A q \in Refreshers : q # r => pass'[q] = pass[q]
    BY <2>1, <1>1
  <2>3. Ends(r) BY <1>13, <2>2, <1>11 DEF ReadCut
  <2> QED BY <1>13, <2>2, <2>3 DEF ReadCut
<1>14. CASE Publish(r)
  BY <1>14, <1>2 DEF Publish, Publishes
<1>15. CASE Return(r)
  <2>1. ~AtFile(Idle) BY DEF AtFile, Idle
  <2> QED BY <1>15, <2>1, <1>1 DEF Return, Leaves
<1> QED
  BY <1>3, <1>4, <1>5, <1>6, <1>7, <1>8, <1>9, <1>10, <1>12, <1>13, <1>14, <1>15
     DEF Refresh, Walk, Open, OpenMissing, ReadLine, ReadEnds, ReadCut, Publish, Return, Lock
----------------------------------------------------------------------------
(* The next line that is read keeps the order of the file, and so does one *)
(* that is written.                                                        *)
LEMMA AppendBegins ==
    ASSUME NEW s \in Seq(Times), NEW t \in Seq(Times), NEW x \in Times
    PROVE  /\ Begins(s, t) => Begins(s, Append(t, x))
           /\ Begins(s, t) /\ Len(s) < Len(t) => Begins(Append(s, t[Len(s) + 1]), t)
<1>1. /\ Len(s) \in Nat /\ Len(t) \in Nat
      /\ Len(Append(t, x)) = Len(t) + 1
      /\ \A i \in 1 .. Len(t) : Append(t, x)[i] = t[i]
  OBVIOUS
<1>2. Begins(s, t) => Begins(s, Append(t, x))
  BY <1>1 DEF Begins
<1>3. ASSUME Begins(s, t), Len(s) < Len(t) PROVE Begins(Append(s, t[Len(s) + 1]), t)
  <2> DEFINE u == Append(s, t[Len(s) + 1])
  <2>1. /\ Len(u) = Len(s) + 1 /\ u[Len(s) + 1] = t[Len(s) + 1]
        /\ \A i \in 1 .. Len(s) : u[i] = s[i]
    OBVIOUS
  <2> HIDE DEF u
  <2> QED BY <1>1, <1>3, <2>1 DEF Begins
<1> QED BY <1>2, <1>3

LEMMA LinesAreNumbers ==
    ASSUME NEW s \in Seq(Times)
    PROVE  Len(s) \in Nat /\ \A i \in 1 .. Len(s) : s[i] \in Nat
<1>1. \A i \in 1 .. Len(s) : s[i] \in Times OBVIOUS
<1>2. \A x \in Times : x \in Nat BY DEF Times
<1> QED BY <1>1, <1>2

(* The types of what is compared.                                          *)
LEMMA LinesAreTimes ==
    ASSUME TypeOK
    PROVE  /\ now \in Nat
           /\ \A f \in Files : /\ disk[f].lines \in Seq(Times) /\ disk[f].mtime \in Nat
                               /\ files[f].lines \in Seq(Times) /\ files[f].mtime \in Nat
           /\ \A r \in Refreshers :
                /\ pass[r].session.lines \in Seq(Times) /\ pass[r].session.mtime \in Nat
                /\ AtFile(pass[r]) => pass[r].file \in Files
BY ClaudeAssumption DEF TypeOK, FileType, PassType, SessionType

LEMMA ClaudeKeepsSkip ==
    ASSUME SkipInv, TypeOK', Claude
    PROVE  Past' /\ Reading' /\ Skipping'
<1> USE DEF SkipInv
<1>1. /\ UNCHANGED <<files, pass>> /\ now \in Nat /\ now' \in {now, now + 1}
      /\ \A f \in Files :
           \/ disk'[f] = disk[f]
           \/ disk'[f] = NoFile /\ ~OpenNow(f)
           \/ /\ now' = now + 1 /\ disk'[f].mtime = now'
              /\ disk'[f].lines \in {disk[f].lines, Append(disk[f].lines, now'),
                                     <<now'>>, <<>>}
  BY ClaudeStep, LinesAreTimes DEF published
<1>2. ASSUME NEW f \in Files
      PROVE  /\ disk'[f].mtime <= now'
             /\ \A i \in 1 .. Len(disk'[f].lines) : disk'[f].lines[i] <= now'
  <2>0. disk[f].lines \in Seq(Times) /\ disk[f].mtime \in Nat /\ Times \subseteq Nat
    BY LinesAreTimes DEF Times
  <2>1. disk[f].mtime <= now /\ \A i \in 1 .. Len(disk[f].lines) : disk[f].lines[i] <= now
    BY DEF Past
  <2>2. CASE disk'[f] = disk[f]
    <3>1. \A i \in 1 .. Len(disk[f].lines) : disk[f].lines[i] \in Nat
      BY <2>0, LinesAreNumbers
    <3> QED BY <1>1, <2>0, <2>1, <2>2, <3>1
  <2>3. CASE disk'[f] = NoFile
    BY <1>1, <2>3 DEF NoFile
  <2>4. CASE now' = now + 1 /\ disk'[f].mtime = now'
             /\ disk'[f].lines \in {disk[f].lines, Append(disk[f].lines, now'), <<now'>>, <<>>}
    <3>1. \A i \in 1 .. Len(disk[f].lines) : disk[f].lines[i] \in Nat
      BY <2>0, LinesAreNumbers
    <3>2. Len(Append(disk[f].lines, now')) = Len(disk[f].lines) + 1
          /\ Append(disk[f].lines, now')[Len(disk[f].lines) + 1] = now'
          /\ \A i \in 1 .. Len(disk[f].lines) :
                Append(disk[f].lines, now')[i] = disk[f].lines[i]
      BY <2>0
    <3>3. Len(disk[f].lines) \in Nat BY <2>0
    <3>4. CASE disk'[f].lines = disk[f].lines BY <1>1, <2>1, <2>4, <3>1, <3>4
    <3>5. CASE disk'[f].lines = Append(disk[f].lines, now')
      <4>1. ASSUME NEW i \in 1 .. Len(disk'[f].lines) PROVE disk'[f].lines[i] <= now'
        <5>1. i \in 1 .. Len(disk[f].lines) \/ i = Len(disk[f].lines) + 1
          BY <3>2, <3>3, <3>5
        <5> QED BY <5>1, <1>1, <2>1, <2>4, <3>1, <3>2, <3>5
      <4> QED BY <4>1, <2>4, <1>1
    <3>6. CASE disk'[f].lines = <<now'>> BY <1>1, <2>4, <3>6
    <3>7. CASE disk'[f].lines = <<>> BY <1>1, <2>4, <3>7
    <3> QED BY <2>4, <3>4, <3>5, <3>6, <3>7
  <2> QED BY <1>1, <2>2, <2>3, <2>4
<1>3. ASSUME NEW s, s.mtime \in Nat, s.mtime <= now, s.lines \in Seq(Times),
             \A i \in 1 .. Len(s.lines) : s.lines[i] <= now
      PROVE  s.mtime <= now' /\ \A i \in 1 .. Len(s.lines) : s.lines[i] <= now'
  <2>1. \A i \in 1 .. Len(s.lines) : s.lines[i] \in Nat BY <1>3, LinesAreNumbers
  <2> QED BY <1>1, <1>3, <2>1
<1>4. Past'
  <2>1. ASSUME NEW f \in Files
        PROVE  files[f].mtime <= now'
               /\ \A i \in 1 .. Len(files[f].lines) : files[f].lines[i] <= now'
    BY <1>3, LinesAreTimes DEF Past
  <2>2. ASSUME NEW r \in Refreshers, AtFile(pass[r])
        PROVE  /\ Refreshing(r).mtime \in 1 .. now'
               /\ \A i \in 1 .. Len(Refreshing(r).lines) : Refreshing(r).lines[i] <= now'
    <3>1. /\ Refreshing(r).mtime \in 1 .. now /\ Refreshing(r).lines \in Seq(Times)
          /\ \A i \in 1 .. Len(Refreshing(r).lines) : Refreshing(r).lines[i] <= now
      BY <2>2, LinesAreTimes DEF Past, Refreshing
    <3> QED BY <1>1, <1>3, <3>1
  <2> QED BY <1>1, <1>2, <2>1, <2>2 DEF Past, Refreshing
<1>5. Reading'
  <2> SUFFICES ASSUME NEW r \in Refreshers, AtFile(pass[r]),
                      Refreshing(r).mtime = disk'[pass[r].file].mtime
               PROVE  disk'[pass[r].file] = disk[pass[r].file]
    BY <1>1 DEF Reading, Refreshing
  <2>1. pass[r].file \in Files /\ Refreshing(r).mtime \in 1 .. now
    BY LinesAreTimes DEF Past, Refreshing
  <2>2. disk'[pass[r].file].mtime # 0 /\ disk'[pass[r].file].mtime # now + 1
    BY <1>1, <2>1
  <2> QED BY <1>1, <2>1, <2>2 DEF NoFile
<1>6. Skipping'
  <2> SUFFICES ASSUME NEW f \in Files, disk'[f].mtime # 0, files[f].mtime = disk'[f].mtime
               PROVE  disk'[f] = disk[f]
    BY <1>1 DEF Skipping, Exists
  <2>1. files[f].mtime <= now /\ files[f].mtime \in Nat BY LinesAreTimes DEF Past
  <2>2. disk'[f].mtime # now + 1 BY <1>1, <2>1
  <2> QED BY <1>1, <2>2 DEF NoFile
<1> QED BY <1>4, <1>5, <1>6
LEMMA RefreshKeepsSkip ==
    ASSUME SkipInv, TypeOK', NEW r \in Refreshers, Lock(r) \/ Refresh(r)
    PROVE  Past' /\ Reading' /\ Skipping'
<1> USE DEF SkipInv
<1>0. /\ UNCHANGED <<now, disk>>
      /\ \A q \in Refreshers : q # r => pass'[q] = pass[q]
      /\ Leaves(r) \/ Forgets(r) \/ Finds(r) \/ Opens(r) \/ Reads(r) \/ Ends(r)
         \/ Publishes(r)
  BY RefreshStep DEF world
<1>1. pass[r].at = "parsed" => AtFile(pass[r]) /\ pass[r].file \in Files
  BY DEF AtFile, TypeOK
<1>2. \A f \in Files : \/ files'[f] \in {files[f], NoSession}
                       \/ Publishes(r) /\ f = pass[r].file /\ files'[f] = pass[r].session
  BY <1>0, <1>1 DEF Leaves, Forgets, Finds, Opens, Reads, Ends, SameFile, Publishes, TypeOK
(* The session of r, if it is still at a file.                             *)
<1>3. ASSUME AtFile(pass'[r])
      PROVE  /\ pass'[r].file \in Files /\ Refreshing(r)'.mtime \in 1 .. now
             /\ \A i \in 1 .. Len(Refreshing(r)'.lines) : Refreshing(r)'.lines[i] <= now
             /\ Refreshing(r)'.mtime = disk[pass'[r].file].mtime =>
                /\ pass'[r].at \in {"open", "read"} =>
                      Begins(Refreshing(r)'.lines, disk[pass'[r].file].lines)
                /\ pass'[r].at = "parsed" /\ ~Refreshing(r)'.cut =>
                      Same(Refreshing(r)', disk[pass'[r].file])
  <2> USE DEF Refreshing
  <2>1. pass'[r].file \in Files
    BY <1>3 DEF TypeOK, AtFile
  <2>2. disk[pass'[r].file].lines \in Seq(Times) /\ disk[pass'[r].file].mtime \in 0 .. now
    BY <2>1, LinesAreTimes DEF Past
  <2>3. CASE Finds(r)
    <3>1. disk[pass'[r].file].mtime \in 1 .. now BY <2>2, <2>3 DEF Finds, Exists
    <3>2. Begins(<<>>, disk[pass'[r].file].lines) BY <2>2, LinesAreNumbers DEF Begins
    <3> QED BY <2>1, <2>3, <3>1, <3>2 DEF Finds
  <2>4. ASSUME SameFile(r)
        PROVE  /\ pass[r].file = pass'[r].file
               /\ Refreshing(r)'.mtime = Refreshing(r).mtime
               /\ Refreshing(r).mtime \in 1 .. now /\ Refreshing(r).lines \in Seq(Times)
               /\ \A i \in 1 .. Len(Refreshing(r).lines) : Refreshing(r).lines[i] <= now
    BY <2>4, LinesAreTimes DEF SameFile, Past
  <2>5. CASE Opens(r)
    BY <2>1, <2>4, <2>5 DEF Opens, SameFile, Reading
  <2>6. CASE Reads(r)
    <3> DEFINE s == Refreshing(r).lines
               t == disk[pass[r].file].lines
    <3>0. SameFile(r) /\ pass[r].at = "read" /\ pass'[r].at = "read" BY <2>6 DEF Reads
    <3>1. /\ s \in Seq(Times) /\ t \in Seq(Times) /\ Len(s) + 1 <= Len(t)
          /\ Refreshing(r)'.lines = Append(s, t[Len(s) + 1])
      BY <2>2, <2>4, <2>6, <3>0 DEF Reads
    <3>2. Len(s) \in Nat /\ Len(t) \in Nat /\ Len(s) < Len(t)
      BY <3>1, LinesAreNumbers
    <3>3. t[Len(s) + 1] \in Times /\ t[Len(s) + 1] <= now
      <4>0. \A i \in 1 .. Len(t) : t[i] <= now BY <2>1, <2>4, <3>0 DEF Past
      <4> HIDE DEF s, t
      <4>1. Len(s) + 1 \in 1 .. Len(t) BY <3>2
      <4>2. t[Len(s) + 1] \in Times BY <3>1, <4>1
      <4> QED BY <4>0, <4>1, <4>2
    <3>4. \A i \in 1 .. Len(Append(s, t[Len(s) + 1])) : Append(s, t[Len(s) + 1])[i] <= now
      <4>1. \A i \in 1 .. Len(s) : s[i] <= now BY <2>4, <3>0
      <4> HIDE DEF s, t
      <4> QED BY <3>1, <3>2, <3>3, <4>1
    <3>5. Refreshing(r).mtime = disk[pass[r].file].mtime =>
             Begins(Append(s, t[Len(s) + 1]), t)
      <4>1. Refreshing(r).mtime = disk[pass[r].file].mtime => Begins(s, t)
        BY <3>0 DEF Reading, AtFile
      <4> HIDE DEF s, t
      <4> QED BY <4>1, <3>1, <3>2, <3>3, AppendBegins
    <3> HIDE DEF s
    <3> QED BY <2>1, <2>4, <3>0, <3>1, <3>4, <3>5
  <2>7. CASE Ends(r)
    <3> DEFINE s == Refreshing(r).lines
               t == disk[pass[r].file].lines
    <3>0. /\ SameFile(r) /\ pass[r].at = "read" /\ pass'[r].at = "parsed"
          /\ Refreshing(r)'.lines = s
      BY <2>7 DEF Ends
    <3>1. s \in Seq(Times) /\ t \in Seq(Times) BY <2>2, <2>4, <3>0
    <3>2. ASSUME Refreshing(r).mtime = disk[pass[r].file].mtime, ~Refreshing(r)'.cut
          PROVE  Same(Refreshing(r)', disk[pass[r].file])
      <4>1. Begins(s, t) BY <3>0, <3>2 DEF Reading, AtFile
      <4>2. ~(Len(s) < Len(t)) /\ Refreshing(r)'.half = disk[pass[r].file].half
        BY <2>7, <3>2 DEF Ends, LineThere
      <4>3. s = t
        <5> HIDE DEF s, t
        <5> QED BY <3>1, <4>1, <4>2, LinesAreNumbers DEF Begins
      <4> QED BY <3>0, <4>2, <4>3 DEF Same
    <3> QED BY <2>1, <2>4, <3>0, <3>2
  <2> QED
    BY <1>0, <1>3, <2>3, <2>5, <2>6, <2>7 DEF Leaves, Forgets, Publishes
<1>4. Past'
  <2>1. ASSUME NEW f \in Files
        PROVE  files'[f].mtime <= now
               /\ \A i \in 1 .. Len(files'[f].lines) : files'[f].lines[i] <= now
    <3>1. CASE files'[f] = files[f] BY <3>1 DEF Past
    <3>2. CASE files'[f] = NoSession BY <3>2, LinesAreTimes DEF NoSession
    <3>3. CASE Publishes(r) /\ files'[f] = pass[r].session
      BY <1>1, <3>3 DEF Publishes, Past, Refreshing
    <3> QED BY <1>2, <3>1, <3>2, <3>3
  <2>2. ASSUME NEW q \in Refreshers, AtFile(pass'[q])
        PROVE  /\ Refreshing(q)'.mtime \in 1 .. now
               /\ \A i \in 1 .. Len(Refreshing(q)'.lines) : Refreshing(q)'.lines[i] <= now
    <3>1. CASE q = r BY <1>3, <2>2, <3>1
    <3>2. CASE q # r BY <1>0, <2>2, <3>2 DEF Past, Refreshing
    <3> QED BY <3>1, <3>2
  <2> QED BY <1>0, <2>1, <2>2 DEF Past
<1>5. Reading'
  <2> SUFFICES ASSUME NEW q \in Refreshers, AtFile(pass'[q]),
                      Refreshing(q)'.mtime = disk[pass'[q].file].mtime
               PROVE  /\ pass'[q].at \in {"open", "read"} =>
                            Begins(Refreshing(q)'.lines, disk[pass'[q].file].lines)
                      /\ pass'[q].at = "parsed" /\ ~Refreshing(q)'.cut =>
                            Same(Refreshing(q)', disk[pass'[q].file])
    BY <1>0 DEF Reading, Same
  <2>1. CASE q = r BY <1>3, <2>1
  <2>2. CASE q # r BY <1>0, <2>2 DEF Reading, Refreshing
  <2> QED BY <2>1, <2>2
<1>6. Skipping'
  <2> SUFFICES ASSUME NEW f \in Files, disk[f].mtime # 0, ~files'[f].cut,
                      files'[f].mtime = disk[f].mtime
               PROVE  Same(files'[f], disk[f])
    BY <1>0 DEF Skipping, Exists, Same
  <2>1. CASE files'[f] = files[f] BY <2>1 DEF Skipping, Exists
  <2>2. CASE files'[f] = NoSession BY <2>2 DEF NoSession
  <2>3. CASE Publishes(r) /\ f = pass[r].file /\ files'[f] = pass[r].session
    BY <1>1, <2>3 DEF Publishes, Reading, Refreshing
  <2> QED BY <1>2, <2>1, <2>2, <2>3
<1> QED BY <1>4, <1>5, <1>6

----------------------------------------------------------------------------
(* Lines that are shown or read (s) before Claude Code writes to a file: a *)
(* file that is written anew starts with a later line than theirs.         *)
LEMMA FreshLines ==
    ASSUME SkipInv, Claude, NEW f \in Files, NEW s \in Seq(Times),
           \A i \in 1 .. Len(s) : s[i] <= now
    PROVE  /\ Roots(s, disk[f].lines) => Roots(s, disk'[f].lines)
           /\ s # <<>> /\ disk'[f].lines # <<>> /\ s[1] = disk'[f].lines[1]
                => disk[f].lines # <<>> /\ disk[f].lines[1] = disk'[f].lines[1]
           /\ s # <<>> /\ Begins(s, disk'[f].lines) => Begins(s, disk[f].lines)
<1> DEFINE t == disk[f].lines
           u == disk'[f].lines
<1>1. s \in Seq(Times) /\ t \in Seq(Times) /\ Len(s) \in Nat /\ Len(t) \in Nat /\ now \in Nat
  BY LinesAreTimes, LinesAreNumbers DEF SkipInv
<1>2. s # <<>> => Len(s) >= 1 /\ s[1] \in Nat /\ s[1] <= now
  BY <1>1, LinesAreNumbers
<1>3. \/ u \in {t, <<>>}
      \/ now' = now + 1 /\ u \in {<<now'>>, Append(t, now')}
  BY ClaudeStep DEF SkipInv, NoFile
<1> HIDE DEF t, u
<1>4. CASE u = t
  BY <1>4 DEF t, u
<1>5. CASE u = <<>>
  <2>1. Len(u) = 0 BY <1>5
  <2> QED BY <1>1, <1>2, <1>5, <2>1 DEF t, u, Roots, Begins
<1>6. ASSUME now' = now + 1, u # <<>>, u[1] = now'
      PROVE  s # <<>> => s[1] # u[1] /\ ~Begins(s, u)
  <2>1. s # <<>> => s[1] # u[1] BY <1>1, <1>2, <1>6
  <2>2. s # <<>> /\ Begins(s, u) => s[1] = u[1] BY <1>1, <1>2 DEF Begins
  <2> QED BY <2>1, <2>2
<1>7. CASE now' = now + 1 /\ u = <<now'>>
  <2>1. u # <<>> /\ u[1] = now' BY <1>7
  <2> QED BY <1>6, <1>7, <2>1 DEF t, u, Roots
<1>8. CASE now' = now + 1 /\ u = Append(t, now')
  <2>0. /\ Len(u) = Len(t) + 1 /\ u[Len(t) + 1] = now' /\ u # <<>>
        /\ \A i \in 1 .. Len(t) : u[i] = t[i]
    BY <1>1, <1>8
  <2>1. CASE t = <<>>
    <3>1. u[1] = now' BY <2>0, <2>1
    <3> QED BY <1>6, <1>8, <2>0, <3>1 DEF t, u, Roots
  <2>2. CASE t # <<>>
    <3>1. Len(t) >= 1 /\ u[1] = t[1] BY <1>1, <2>0, <2>2
    <3>2. Begins(s, t) => Begins(s, u) BY <1>1, <2>0 DEF Begins
    <3>3. ASSUME s # <<>>, Begins(s, u) PROVE Begins(s, t)
      <4>1. Len(s) # Len(t) + 1
        <5>1. SUFFICES ASSUME Len(s) = Len(t) + 1 PROVE FALSE OBVIOUS
        <5>2. Len(s) \in 1 .. Len(s) BY <1>1, <5>1
        <5>3. s[Len(s)] = now' BY <2>0, <3>3, <5>1, <5>2 DEF Begins
        <5>4. s[Len(s)] <= now BY <5>2
        <5> QED BY <1>1, <1>8, <5>3, <5>4
      <4> QED BY <1>1, <2>0, <3>3, <4>1 DEF Begins
    <3> QED BY <2>2, <3>1, <3>2, <3>3, <2>0 DEF t, u, Roots
  <2> QED BY <2>1, <2>2
<1> QED BY <1>3, <1>4, <1>5, <1>7, <1>8

LEMMA ClaudeKeepsShow ==
    ASSUME ShowInv, TypeOK', Claude
    PROVE  Alone' /\ Rooted' /\ Successor'
<1> USE DEF ShowInv, SkipInv
<1>1. UNCHANGED <<files, pass>>
  BY ClaudeStep DEF published
<1>2. \A f \in Files : /\ files[f].lines \in Seq(Times)
                       /\ \A i \in 1 .. Len(files[f].lines) : files[f].lines[i] <= now
  BY LinesAreTimes DEF Past
<1>3. \A r \in Refreshers : AtFile(pass[r]) =>
         /\ pass[r].file \in Files /\ Refreshing(r).lines \in Seq(Times)
         /\ \A i \in 1 .. Len(Refreshing(r).lines) : Refreshing(r).lines[i] <= now
  BY LinesAreTimes DEF Past, Refreshing
<1>4. Alone'
  BY <1>1 DEF Alone
<1>5. Rooted'
  <2>1. ASSUME NEW f \in Files PROVE Roots(files[f].lines, disk'[f].lines)
    BY <1>2, FreshLines DEF Rooted
  <2>2. ASSUME NEW r \in Refreshers, AtFile(pass[r])
        PROVE  Roots(Refreshing(r).lines, disk'[pass[r].file].lines)
    BY <1>3, <2>2, FreshLines DEF Rooted
  <2> QED BY <1>1, <2>1, <2>2 DEF Rooted, Refreshing, Roots, Begins
<1>6. Successor'
  <2> SUFFICES ASSUME NEW r \in Refreshers, AtFile(pass[r])
               PROVE  LET shown == files[pass[r].file].lines
                          there == disk'[pass[r].file].lines
                          read == Refreshing(r).lines
                      IN  /\ pass[r].at = "open" => read = <<>>
                          /\ pass[r].at = "read" /\ shown # <<>> /\ there # <<>> /\ read # <<>>
                             /\ shown[1] = there[1] => read[1] = there[1]
                          /\ pass[r].at = "parsed" /\ ~Refreshing(r).cut /\ shown # <<>>
                             /\ Begins(shown, there) => Begins(shown, read)
    BY <1>1 DEF Successor, Refreshing, Begins
  <2> DEFINE f == pass[r].file
             shown == files[f].lines
  <2>1. f \in Files BY <1>3
  <2>2. /\ shown # <<>> /\ disk'[f].lines # <<>> /\ shown[1] = disk'[f].lines[1]
             => disk[f].lines # <<>> /\ disk[f].lines[1] = disk'[f].lines[1]
        /\ shown # <<>> /\ Begins(shown, disk'[f].lines) => Begins(shown, disk[f].lines)
    BY <1>2, <2>1, FreshLines
  <2> QED BY <2>1, <2>2 DEF Successor
<1> QED BY <1>4, <1>5, <1>6

LEMMA RefreshKeepsShow ==
    ASSUME ShowInv, TypeOK', NEW r \in Refreshers, Lock(r) \/ Refresh(r)
    PROVE  Alone' /\ Rooted' /\ Successor'
<1> USE DEF ShowInv, SkipInv
<1>0. /\ UNCHANGED <<now, disk>>
      /\ \A q \in Refreshers : q # r => pass'[q] = pass[q]
      /\ RefreshMuFree \/ pass[r].at # "idle"
      /\ Leaves(r) \/ Forgets(r) \/ Finds(r) \/ Opens(r) \/ Reads(r) \/ Ends(r)
         \/ Publishes(r)
  BY RefreshStep DEF world
(* The others do nothing.                                                  *)
<1>1. \A q \in Refreshers : q # r => pass[q].at = "idle" /\ pass'[q].at = "idle"
  BY <1>0 DEF RefreshMuFree, Alone
<1>2. Alone'
  BY <1>1 DEF Alone
<1>3. \A q \in Refreshers : AtFile(pass'[q]) => q = r
  BY <1>1 DEF AtFile
<1>4. pass[r].at \in {"open", "read", "parsed"} => AtFile(pass[r]) /\ pass[r].file \in Files
  BY DEF AtFile, TypeOK
<1>5. \A f \in Files : \/ files'[f] \in {files[f], NoSession}
                       \/ Publishes(r) /\ f = pass[r].file /\ files'[f] = pass[r].session
  BY <1>0, <1>4 DEF Leaves, Forgets, Finds, Opens, Reads, Ends, SameFile, Publishes, TypeOK
<1>6. ASSUME AtFile(pass'[r])
      PROVE  /\ Roots(Refreshing(r)'.lines, disk[pass'[r].file].lines)
             /\ LET shown == files'[pass'[r].file].lines
                    there == disk[pass'[r].file].lines
                    read == Refreshing(r)'.lines
                IN  /\ pass'[r].at = "open" => read = <<>>
                    /\ pass'[r].at = "read" /\ shown # <<>> /\ there # <<>> /\ read # <<>>
                       /\ shown[1] = there[1] => read[1] = there[1]
                    /\ pass'[r].at = "parsed" /\ ~Refreshing(r)'.cut /\ shown # <<>>
                       /\ Begins(shown, there) => Begins(shown, read)
  <2> USE DEF Refreshing
  <2>1. CASE Finds(r)
    BY <2>1 DEF Finds, Roots
  <2>2. CASE Opens(r)
    BY <1>4, <2>2 DEF Opens, SameFile, Successor, Roots
  <2>3. CASE Reads(r)
    <3> DEFINE s == Refreshing(r).lines
               t == disk[pass[r].file].lines
               u == Append(s, t[Len(s) + 1])
    <3>1. /\ UNCHANGED files /\ pass'[r].file = pass[r].file
          /\ pass[r].at = "read" /\ pass'[r].at = "read"
          /\ Len(s) + 1 <= Len(t) /\ Refreshing(r)'.lines = u
      BY <2>3 DEF Reads, SameFile
    <3>2. s \in Seq(Times) /\ t \in Seq(Times) /\ Roots(s, t)
      BY <1>4, <3>1, LinesAreTimes DEF Rooted
    <3>3. files[pass[r].file].lines # <<>> /\ t # <<>> /\ s # <<>>
             /\ files[pass[r].file].lines[1] = t[1] => s[1] = t[1]
      BY <1>4, <3>1 DEF Successor
    <3> HIDE DEF s, t
    <3>4. Len(s) \in Nat /\ Len(t) \in Nat BY <3>2
    <3>5. t[Len(s) + 1] \in Times BY <3>1, <3>2, <3>4
    <3>6. u # <<>> /\ u[1] = (IF s = <<>> THEN t[1] ELSE s[1])
      <4>1. CASE s = <<>>
        <5>1. Len(s) = 0 BY <4>1
        <5>2. u = <<t[1]>> BY <4>1, <5>1
        <5> QED BY <4>1, <5>2
      <4>2. CASE s # <<>>
        <5>1. Len(s) >= 1 BY <3>2, <3>4, <4>2
        <5>2. u[1] = s[1] /\ Len(u) = Len(s) + 1 BY <3>2, <3>4, <3>5, <5>1
        <5>3. u # <<>> BY <3>4, <5>2
        <5> QED BY <4>2, <5>2, <5>3
      <4> QED BY <4>1, <4>2
    <3>7. Roots(u, t)
      <4>0. Begins(s, t) => Begins(u, t)
        BY <3>1, <3>2, <3>4, <3>5, AppendBegins
      <4>1. CASE s = <<>>
        <5>1. Len(s) = 0 BY <4>1
        <5>2. Begins(s, t) BY <3>4, <5>1 DEF Begins
        <5> QED BY <4>0, <5>2 DEF Roots
      <4>2. CASE s # <<>>
        <5> HIDE DEF u
        <5> QED BY <3>2, <3>6, <4>0, <4>2 DEF Roots
      <4> QED BY <4>1, <4>2
    <3>8. files[pass[r].file].lines # <<>> /\ t # <<>> /\ files[pass[r].file].lines[1] = t[1]
             => u[1] = t[1]
      BY <3>3, <3>6
    <3> HIDE DEF u
    <3> QED BY <1>0, <3>1, <3>7, <3>8 DEF t
  <2>4. CASE Ends(r)
    <3> DEFINE s == Refreshing(r).lines
               t == disk[pass[r].file].lines
               shown == files[pass[r].file].lines
    <3>1. /\ UNCHANGED files /\ pass'[r].file = pass[r].file
          /\ pass[r].at = "read" /\ pass'[r].at = "parsed" /\ Refreshing(r)'.lines = s
          /\ ~Refreshing(r)'.cut => ~(Len(s) < Len(t))
      BY <2>4 DEF Ends, SameFile, LineThere
    <3>2. s \in Seq(Times) /\ t \in Seq(Times) /\ shown \in Seq(Times) /\ Roots(s, t)
      BY <1>4, <3>1, LinesAreTimes DEF Rooted
    <3>3. shown # <<>> /\ t # <<>> /\ s # <<>> /\ shown[1] = t[1] => s[1] = t[1]
      BY <1>4, <3>1 DEF Successor
    <3> HIDE DEF s, t, shown
    <3>4. Len(s) \in Nat /\ Len(t) \in Nat /\ Len(shown) \in Nat BY <3>2
    <3>5. ASSUME shown # <<>>, Begins(shown, t), ~(Len(s) < Len(t)) PROVE Begins(shown, s)
      <4>1. Len(shown) >= 1 BY <3>2, <3>4, <3>5
      <4>2. Len(t) >= 1 /\ shown[1] = t[1] BY <3>4, <3>5, <4>1 DEF Begins
      <4>3. Len(s) >= 1 BY <3>4, <3>5, <4>2
      <4>4. t # <<>> /\ s # <<>> BY <4>2, <4>3
      <4>5. Begins(s, t) BY <3>2, <3>3, <3>5, <4>2, <4>4 DEF Roots
      <4> QED BY <3>4, <3>5, <4>5 DEF Begins
    <3> QED BY <1>0, <3>1, <3>2, <3>5 DEF s, t, shown
  <2> QED BY <1>0, <1>6, <2>1, <2>2, <2>3, <2>4 DEF Leaves, Forgets, Publishes
<1>7. Rooted'
  <2>1. ASSUME NEW f \in Files PROVE Roots(files'[f].lines, disk[f].lines)
    <3>1. CASE files'[f] = files[f] BY <3>1 DEF Rooted
    <3>2. CASE files'[f] = NoSession BY <3>2 DEF NoSession, Roots
    <3>3. CASE Publishes(r) /\ f = pass[r].file /\ files'[f] = pass[r].session
      BY <1>4, <3>3 DEF Publishes, Rooted, Refreshing
    <3> QED BY <1>5, <3>1, <3>2, <3>3
  <2> QED BY <1>0, <1>3, <1>6, <2>1 DEF Rooted
<1>8. Successor'
  BY <1>0, <1>3, <1>6 DEF Successor
<1> QED BY <1>2, <1>7, <1>8

----------------------------------------------------------------------------
(* Every variable keeps its type, and no walk finds more than MaxFiles.    *)
THEOREM TypeCorrect == Spec => []TypeOK
<1>1. Init => TypeOK
  <2> SUFFICES ASSUME Init PROVE TypeOK
    OBVIOUS
  <2>1. NoFile \in FileType /\ NoSession \in SessionType /\ Idle \in PassType
    BY ClaudeAssumption DEF NoFile, FileType, NoSession, SessionType, Idle, PassType
  <2>2. Idle.found = {} /\ ~AtFile(Idle) BY DEF Idle, AtFile
  <2>3. Cardinality(Idle.found) <= MaxFiles BY <2>2, FS_EmptySet, ClaudeAssumption
  <2>4. dir \in BOOLEAN /\ lastError \in BOOLEAN
    BY Zenon DEF Init
  <2>5. now \in 0 .. MaxWrites /\ failures \in 0 .. MaxFailures
    <3>1. now = 0 /\ failures = 0 BY DEF Init
    <3> QED BY <3>1, ClaudeAssumption
  <2>6. disk \in [Files -> FileType] /\ files \in [Files -> SessionType]
    BY <2>1 DEF Init
  <2>7. pass \in [Refreshers -> PassType] /\ \A r \in Refreshers : pass[r] = Idle
    BY <2>1 DEF Init
  <2> QED BY <2>2, <2>3, <2>4, <2>5, <2>6, <2>7 DEF TypeOK
<1>2. TypeOK /\ [Next]_vars => TypeOK'
  <2> SUFFICES ASSUME TypeOK, [Next]_vars PROVE TypeOK'
    OBVIOUS
  <2>1. CASE Next BY <2>1, TypesKept
  <2>2. CASE UNCHANGED vars BY <2>2 DEF vars, world, published, TypeOK
  <2> QED BY <2>1, <2>2
<1> QED BY <1>1, <1>2, PTL DEF Spec

LEMMA SkipInvariant == Spec => []SkipInv
<1>1. Init /\ TypeOK => SkipInv
  <2> SUFFICES ASSUME Init, TypeOK PROVE SkipInv
    OBVIOUS
  <2>1. Past
    BY DEF Init, Past, NoFile, NoSession, AtFile, Idle, Refreshing
  <2>2. Reading
    BY DEF Init, Reading, AtFile, Idle
  <2>3. Skipping
    BY DEF Init, Skipping, Exists, NoFile
  <2> QED BY <2>1, <2>2, <2>3 DEF SkipInv
<1>2. SkipInv /\ TypeOK' /\ [Next]_vars => SkipInv'
  <2> SUFFICES ASSUME SkipInv, TypeOK', [Next]_vars PROVE SkipInv'
    OBVIOUS
  <2>1. CASE Claude BY <2>1, ClaudeKeepsSkip DEF SkipInv
  <2>2. CASE \E r \in Refreshers : Lock(r) \/ Refresh(r)
    BY <2>2, RefreshKeepsSkip DEF SkipInv
  <2>3. CASE UNCHANGED vars
    BY <2>3 DEF vars, world, published, SkipInv, Past, Reading, Skipping, Refreshing,
                Exists, Same
  <2> QED BY <2>1, <2>2, <2>3 DEF Next
<1> QED BY <1>1, <1>2, TypeCorrect, PTL DEF Spec

(* A file whose size and time are the remembered ones may be skipped:      *)
(* nothing in it is unread, unless an error cut its reading short.         *)
THEOREM SkipIsSound == Spec => []Accurate
<1>1. SkipInv => Accurate
  BY DEF SkipInv, Skipping, Accurate
<1> QED BY <1>1, SkipInvariant, PTL

LEMMA ShowInvariant == Spec => []ShowInv
<1>1. Init /\ SkipInv => ShowInv
  BY DEF Init, ShowInv, Alone, Rooted, Successor, Roots, AtFile, Idle, NoSession
<1>2. ShowInv /\ SkipInv' /\ [Next]_vars => ShowInv'
  <2> SUFFICES ASSUME ShowInv, SkipInv', [Next]_vars PROVE Alone' /\ Rooted' /\ Successor'
    BY DEF ShowInv
  <2>0. TypeOK' BY DEF SkipInv
  <2>1. CASE Claude BY <2>0, <2>1, ClaudeKeepsShow
  <2>2. CASE \E r \in Refreshers : Lock(r) \/ Refresh(r)
    BY <2>0, <2>2, RefreshKeepsShow
  <2>3. CASE UNCHANGED vars
    BY <2>3 DEF vars, world, published, ShowInv, Alone, Rooted, Successor, Refreshing
  <2> QED BY <2>1, <2>2, <2>3 DEF Next
<1> QED BY <1>1, <1>2, SkipInvariant, PTL DEF Spec

(* No refresh takes back a line of a file that has only grown: refreshMu   *)
(* lets a refresh see, when it publishes, what it began with.              *)
THEOREM NothingTakenBack == Spec => NeverShrinks
<1>1. ASSUME NEW s \in Seq(Times), NEW t \in Seq(Times)
      PROVE  IsPrefix(s, t) <=> Begins(s, t)
  <2>1. Len(s) \in Nat /\ Len(t) \in Nat OBVIOUS
  <2>2. ASSUME Len(s) <= Len(t)
        PROVE  /\ SubSeq(s, 1, Len(s)) = s
               /\ Len(SubSeq(t, 1, Len(s))) = Len(s)
               /\ \A i \in 1 .. Len(s) : SubSeq(t, 1, Len(s))[i] = t[i]
               /\ SubSeq(t, 1, Len(s)) \in Seq(Times)
    BY <2>1, <2>2
  <2> DEFINE u == SubSeq(t, 1, Len(s))
  <2>3. ASSUME Len(s) <= Len(t) PROVE s = u <=> \A i \in 1 .. Len(s) : s[i] = u[i]
    <3>1. u \in Seq(Times) /\ Len(u) = Len(s) BY <2>2, <2>3
    <3> HIDE DEF u
    <3> QED BY <2>1, <3>1
  <2> HIDE DEF u
  <2> QED BY <2>2, <2>3 DEF u, IsPrefix, Begins
<1>2. ASSUME ShowInv, TypeOK', [Next]_vars, NEW f \in Files,
             Known(f), files'[f].mtime # 0, ~files'[f].cut,
             IsPrefix(files[f].lines, disk[f].lines)
      PROVE  IsPrefix(files[f].lines, files'[f].lines)
  <2>0. /\ TypeOK /\ files[f].lines \in Seq(Times) /\ disk[f].lines \in Seq(Times)
        /\ files'[f].lines \in Seq(Times)
    BY <1>2, LinesAreTimes DEF ShowInv, SkipInv, TypeOK, SessionType
  <2>1. CASE files'[f] = files[f]
    BY <1>1, <2>0, <2>1, LinesAreNumbers DEF Begins
  <2>2. ASSUME NEW r \in Refreshers, Lock(r) \/ Refresh(r), files'[f] # files[f]
        PROVE  IsPrefix(files[f].lines, files'[f].lines)
    <3>1. pass[r].at = "parsed" => AtFile(pass[r]) /\ pass[r].file \in Files
      BY <2>0 DEF AtFile, TypeOK
    <3>2. files'[f] # NoSession BY <1>2 DEF NoSession
    <3>3. /\ pass[r].at = "parsed" /\ f = pass[r].file
          /\ files'[f] = Refreshing(r)
      BY <2>0, <2>2, <3>1, <3>2, RefreshStep
         DEF Leaves, Forgets, Finds, Opens, Reads, Ends, SameFile, Publishes, TypeOK, Refreshing
    <3>4. files[f].lines # <<>> => Begins(files[f].lines, files'[f].lines)
      BY <1>1, <1>2, <2>0, <3>1, <3>3 DEF ShowInv, Successor
    <3>5. files[f].lines = <<>> => Begins(files[f].lines, files'[f].lines)
      BY <2>0, LinesAreNumbers DEF Begins
    <3> QED BY <1>1, <2>0, <3>4, <3>5
  <2>3. Claude \/ UNCHANGED vars => files' = files
    BY <2>0, ClaudeStep DEF vars, published
  <2> QED BY <1>2, <2>1, <2>2, <2>3 DEF Next
<1>3. ShowInv /\ TypeOK' /\ [Next]_vars =>
         [\A f \in Files :
            /\ Known(f) /\ files'[f].mtime # 0 /\ ~files'[f].cut
            /\ IsPrefix(files[f].lines, disk[f].lines)
            => IsPrefix(files[f].lines, files'[f].lines)]_vars
  BY <1>2
<1> QED BY <1>3, ShowInvariant, TypeCorrect, PTL DEF Spec, NeverShrinks

----------------------------------------------------------------------------
(* A write takes a time after the one at which any refresh began.          *)
LEMMA ClaudeKeepsCurrent ==
    ASSUME SkipInv, Current, Claude
    PROVE  Current'
<1>1. /\ UNCHANGED <<files, pass>> /\ now \in Nat /\ now' \in {now, now + 1}
      /\ \A f \in Files :
           \/ disk'[f] = disk[f]
           \/ disk'[f] = NoFile
           \/ now' = now + 1 /\ disk'[f].mtime = now'
  BY ClaudeStep, LinesAreTimes DEF SkipInv, published
<1>2. ASSUME NEW r \in Refreshers
      PROVE  pass[r].began \in Nat /\ pass[r].found \subseteq Files
  BY ClaudeAssumption DEF SkipInv, TypeOK, PassType
<1>3. ASSUME NEW r \in Refreshers, pass[r].at # "idle"
      PROVE  pass[r].began <= now /\ pass[r].began <= now'
  BY <1>1, <1>2, <1>3 DEF Current
<1>4. ASSUME NEW r \in Refreshers, pass[r].at # "idle", NEW f \in pass[r].found,
             disk'[f].mtime # 0, disk'[f].mtime <= pass[r].began
      PROVE  disk'[f] = disk[f]
  <2>1. disk'[f] # NoFile BY <1>4 DEF NoFile
  <2>2. ~(now' = now + 1 /\ disk'[f].mtime = now') BY <1>1, <1>2, <1>3, <1>4
  <2> QED BY <1>1, <1>2, <2>1, <2>2
<1> QED BY <1>1, <1>3, <1>4 DEF Current, Exists, Refreshing

(* A step of a refresh, alone.                                             *)
LEMMA RefreshKeepsCurrent ==
    ASSUME SkipInv, Alone, Current, TypeOK', NEW r \in Refreshers, Lock(r) \/ Refresh(r)
    PROVE  Current'
<1>0. /\ UNCHANGED <<now, disk>>
      /\ \A q \in Refreshers : q # r => pass'[q] = pass[q]
      /\ RefreshMuFree \/ pass[r].at # "idle"
  BY RefreshStep DEF SkipInv, world
<1>1. \A q \in Refreshers : q # r => pass'[q].at = "idle"
  BY <1>0 DEF Alone, RefreshMuFree
<1>2. /\ pass \in [Refreshers -> PassType] /\ pass[r] \in PassType
      /\ pass[r].session \in SessionType
  BY DEF SkipInv, TypeOK, PassType
<1> DEFINE p == pass[r]
           Done == /\ pass'[r].at # "idle" => pass'[r].began <= now
                   /\ pass'[r].at \in {"next", "open", "read", "parsed"} /\ ~pass'[r].missed =>
                       \A f \in pass'[r].found :
                         Exists(f) /\ disk[f].mtime <= pass'[r].began =>
                           /\ f \notin pass'[r].todo => files'[f].mtime = disk[f].mtime
                           /\ AtFile(pass'[r]) /\ pass'[r].file = f =>
                                 pass'[r].session.mtime = disk[f].mtime
<1>3. ASSUME NEW next, Goes(r, next) PROVE pass'[r] = next
  BY <1>2, <1>3 DEF Goes
<1>4. /\ p.at # "idle" => p.began <= now
      /\ p.at \in {"next", "open", "read", "parsed"} /\ ~p.missed =>
           \A f \in p.found : Exists(f) /\ disk[f].mtime <= p.began =>
             /\ f \notin p.todo => files[f].mtime = disk[f].mtime
             /\ AtFile(p) /\ p.file = f => p.session.mtime = disk[f].mtime
  BY DEF Current, Refreshing
(* Going on to the next file.                                              *)
<1>5. ASSUME NEW f, NEW missed \in BOOLEAN, Skip(r, f, missed)
      PROVE  /\ pass'[r].at = "next" /\ pass'[r].todo = p.todo \ {f}
             /\ pass'[r].began = p.began /\ pass'[r].found = p.found
             /\ pass'[r].missed = (p.missed \/ missed)
  <2> DEFINE next == [p EXCEPT !.at = "next", !.todo = @ \ {f}, !.file = 0,
                               !.session = NoSession, !.missed = @ \/ missed]
  <2>1. /\ next.at = "next" /\ next.todo = p.todo \ {f} /\ next.began = p.began
        /\ next.found = p.found /\ next.missed = (p.missed \/ missed)
    BY <1>2 DEF PassType
  <2>2. pass'[r] = next BY <1>3, <1>5 DEF Skip
  <2> QED BY <2>1, <2>2
(* Going on with the same file.                                            *)
<1>6. ASSUME pass'[r].began = p.began, pass'[r].found = p.found, pass'[r].todo = p.todo,
             pass'[r].missed = p.missed, pass'[r].file = p.file,
             pass'[r].session.mtime = p.session.mtime, UNCHANGED files,
             p.at \in {"open", "read"}
      PROVE  Done
  BY <1>4, <1>6 DEF AtFile
<1> SUFFICES Done
  BY <1>0, <1>1 DEF Current, Exists, Refreshing, AtFile
<1>7. CASE Lock(r)
  <2>1. CASE dir
    <3> DEFINE next == [Idle EXCEPT !.at = "walk", !.began = now]
    <3>1. next.at = "walk" /\ next.began = now BY DEF Idle
    <3>2. pass'[r] = next BY <1>3, <1>7, <2>1 DEF Lock
    <3>3. pass'[r].at = "walk" /\ pass'[r].began = now BY <3>1, <3>2
    <3>4. now \in Nat BY LinesAreTimes DEF SkipInv
    <3> QED BY <3>3, <3>4
  <2>2. CASE ~dir
    BY <1>7, <2>2 DEF Lock, RefreshMuFree
  <2> QED BY <2>1, <2>2
<1>8. CASE Walk(r)
  <2>1. PICK found, hidden :
          Goes(r, [p EXCEPT !.at = "next", !.todo = found, !.found = found,
                            !.missed = hidden # {}])
    BY <1>8 DEF Walk
  <2> DEFINE next == [p EXCEPT !.at = "next", !.todo = found, !.found = found,
                               !.missed = hidden # {}]
  <2>2. next.at = "next" /\ next.todo = next.found /\ next.began = p.began
    BY <1>2 DEF PassType
  <2>3. pass'[r] = next BY <1>3, <2>1
  <2>4. pass'[r].at = "next" /\ pass'[r].todo = pass'[r].found /\ pass'[r].began = p.began
    BY <2>2, <2>3
  <2>5. p.at = "walk" BY <1>8 DEF Walk
  <2> QED BY <1>4, <2>4, <2>5 DEF AtFile
<1>9. ASSUME NEW g \in Files, StatSkips(r, g) PROVE Done
  <2>1. /\ p.at = "next" /\ UNCHANGED files
        /\ Exists(g) => files[g].mtime = disk[g].mtime
    BY <1>9 DEF StatSkips, Unchanged, published
  <2>2. /\ pass'[r].at = "next" /\ pass'[r].todo = p.todo \ {g}
        /\ pass'[r].began = p.began /\ pass'[r].found = p.found
        /\ pass'[r].missed = (p.missed \/ FALSE)
    BY <1>5, <1>9 DEF StatSkips
  <2>3. \A f : f \notin p.todo \ {g} => f \notin p.todo \/ f = g OBVIOUS
  <2> QED BY <1>4, <2>1, <2>2, <2>3 DEF AtFile
<1>10. ASSUME NEW g \in Files, StatFinds(r, g) PROVE Done
  <2> DEFINE session == [NoSession EXCEPT !.mtime = disk[g].mtime, !.size = Size(disk[g])]
             next == [p EXCEPT !.at = "open", !.file = g, !.session = session]
  <2>1. session.mtime = disk[g].mtime BY DEF NoSession
  <2>2. pass'[r] = next /\ p.at = "next" /\ UNCHANGED files
    BY <1>10, <1>3 DEF StatFinds, published
  <2> HIDE DEF session
  <2>3. /\ next.at = "open" /\ next.file = g /\ next.session = session
        /\ next.began = p.began /\ next.found = p.found /\ next.todo = p.todo
        /\ next.missed = p.missed
    BY <1>2 DEF PassType
  <2> HIDE DEF next
  <2> QED BY <1>4, <2>1, <2>2, <2>3
<1>11. CASE Open(r)
  <2> DEFINE next == [p EXCEPT !.at = "read"]
  <2>1. pass'[r] = next /\ p.at = "open" /\ UNCHANGED files
    BY <1>11, <1>3 DEF Open, published
  <2>2. /\ next.file = p.file /\ next.session = p.session
        /\ next.began = p.began /\ next.found = p.found /\ next.todo = p.todo
        /\ next.missed = p.missed
    BY <1>2 DEF PassType
  <2> HIDE DEF next
  <2> QED BY <1>6, <2>1, <2>2
<1>12. CASE OpenMissing(r)
  <2>1. /\ p.at = "open" /\ UNCHANGED files /\ ~Exists(p.file)
    BY <1>12 DEF OpenMissing, published
  <2>2. /\ pass'[r].at = "next" /\ pass'[r].todo = p.todo \ {p.file}
        /\ pass'[r].began = p.began /\ pass'[r].found = p.found
        /\ pass'[r].missed = (p.missed \/ FALSE)
    BY <1>5, <1>12 DEF OpenMissing
  <2> QED BY <1>4, <2>1, <2>2 DEF AtFile
<1>13. CASE Refused(r)
  <2>1. p.at # "idle" /\ \E g : Skip(r, g, TRUE) BY <1>13 DEF Refused
  <2>2. pass'[r].missed /\ pass'[r].began = p.began BY <2>1, <1>5
  <2> QED BY <1>4, <2>1, <2>2
<1>14. CASE ReadLine(r)
  <2> DEFINE line == disk[pass[r].file].lines[Len(pass[r].session.lines) + 1]
             next == [p EXCEPT !.session.lines = Append(@, line)]
  <2>1. pass'[r] = next /\ p.at = "read" /\ UNCHANGED files
    BY <1>14, <1>3 DEF ReadLine, published
  <2> HIDE DEF line
  <2>2. /\ next.file = p.file /\ next.session.mtime = p.session.mtime
        /\ next.began = p.began /\ next.found = p.found /\ next.todo = p.todo
        /\ next.missed = p.missed
    BY <1>2 DEF PassType, SessionType
  <2> HIDE DEF next
  <2> QED BY <1>6, <2>1, <2>2
<1>15. CASE ReadEnds(r)
  <2> DEFINE half == disk[pass[r].file].half
             next == [p EXCEPT !.at = "parsed", !.session.half = half]
  <2>1. pass'[r] = next /\ p.at = "read" /\ UNCHANGED files
    BY <1>15, <1>3 DEF ReadEnds, published
  <2> HIDE DEF half
  <2>2. /\ next.file = p.file /\ next.session.mtime = p.session.mtime
        /\ next.began = p.began /\ next.found = p.found /\ next.todo = p.todo
        /\ next.missed = p.missed
    BY <1>2 DEF PassType, SessionType
  <2> HIDE DEF next
  <2> QED BY <1>6, <2>1, <2>2
<1>16. CASE ReadCut(r)
  <2>1. PICK half \in BOOLEAN : Goes(r, [p EXCEPT !.at = "parsed",
                                          !.session.half = half, !.session.cut = TRUE])
    BY <1>16 DEF ReadCut
  <2> DEFINE next == [p EXCEPT !.at = "parsed", !.session.half = half, !.session.cut = TRUE]
  <2>2. pass'[r] = next /\ p.at = "read" /\ UNCHANGED files
    BY <2>1, <1>16, <1>3 DEF ReadCut, published
  <2>3. /\ next.file = p.file /\ next.session.mtime = p.session.mtime
        /\ next.began = p.began /\ next.found = p.found /\ next.todo = p.todo
        /\ next.missed = p.missed
    BY <1>2 DEF PassType, SessionType
  <2> HIDE DEF next
  <2> QED BY <1>6, <2>2, <2>3
<1>17. CASE Publish(r)
  <2>1. p.at = "parsed" /\ files' = [files EXCEPT ![p.file] = p.session]
    BY <1>17 DEF Publish
  <2>2. /\ pass'[r].at = "next" /\ pass'[r].todo = p.todo \ {p.file}
        /\ pass'[r].began = p.began /\ pass'[r].found = p.found
        /\ pass'[r].missed = (p.missed \/ FALSE)
    BY <1>5, <1>17 DEF Publish
  <2>3. files \in [Files -> SessionType] /\ p.found \subseteq Files
    BY <1>2 DEF SkipInv, TypeOK, PassType
  <2>4. \A f \in p.found : files'[f] = IF f = p.file THEN p.session ELSE files[f]
    BY <2>1, <2>3
  <2>5. /\ pass'[r].missed = p.missed /\ ~AtFile(pass'[r]) /\ p.began <= now
        /\ p.at \in {"next", "open", "read", "parsed"} /\ AtFile(p)
    BY <1>2, <1>4, <2>1, <2>2 DEF AtFile, PassType
  <2>6. ASSUME ~p.missed, NEW f \in p.found, Exists(f), disk[f].mtime <= p.began,
               f \notin p.todo \ {p.file}
        PROVE  files'[f].mtime = disk[f].mtime
    <3>1. CASE f = p.file BY <1>4, <2>4, <2>5, <2>6, <3>1
    <3>2. CASE f # p.file BY <1>4, <2>4, <2>5, <2>6, <3>2
    <3> QED BY <3>1, <3>2
  <2> QED BY <2>2, <2>5, <2>6
<1>18. CASE Return(r)
  <2>1. Idle.at = "idle" BY DEF Idle
  <2>2. pass'[r] = Idle BY <1>18, <1>3 DEF Return
  <2> QED BY <2>1, <2>2
<1> HIDE DEF Done
<1> QED
  BY <1>7, <1>8, <1>9, <1>10, <1>11, <1>12, <1>13, <1>14, <1>15, <1>16, <1>17, <1>18
     DEF Refresh

LEMMA CurrentInvariant == Spec => [](ShowInv /\ Current)
<1>1. Init => Current
  BY DEF Init, Current, Idle
<1>2. ShowInv /\ Current /\ ShowInv' /\ [Next]_vars => Current'
  <2> SUFFICES ASSUME ShowInv, Current, ShowInv', [Next]_vars PROVE Current'
    OBVIOUS
  <2>0. SkipInv /\ Alone /\ TypeOK' BY DEF ShowInv, SkipInv
  <2>1. CASE Claude BY <2>0, <2>1, ClaudeKeepsCurrent
  <2>2. CASE \E r \in Refreshers : Lock(r) \/ Refresh(r)
    BY <2>0, <2>2, RefreshKeepsCurrent
  <2>3. CASE UNCHANGED vars
    BY <2>3 DEF vars, world, published, Current, Refreshing, Exists
  <2> QED BY <2>1, <2>2, <2>3 DEF Next
<1> QED BY <1>1, <1>2, ShowInvariant, PTL DEF Spec

(* A refresh that was refused nothing returns with every file it found     *)
(* shown as it is, unless the file was written after the refresh began or  *)
(* an error cut its reading short.                                         *)
THEOREM Refreshed == Spec => RefreshIsCurrent
<1>1. ASSUME ShowInv, Current, NEW r \in Refreshers, Return(r), ~pass[r].missed,
             NEW f \in pass[r].found, Exists(f), disk[f].mtime <= pass[r].began
      PROVE  Known(f) /\ (Same(files[f], disk[f]) \/ files[f].cut)
  <2>1. pass[r].at = "next" /\ pass[r].todo = {} BY <1>1 DEF Return
  <2>2. files[f].mtime = disk[f].mtime BY <1>1, <2>1 DEF Current
  <2>3. f \in Files BY <1>1 DEF ShowInv, SkipInv, TypeOK, PassType
  <2> QED BY <1>1, <2>2, <2>3 DEF ShowInv, SkipInv, Skipping, Exists, Known
<1>2. ShowInv /\ Current /\ [Next]_vars =>
        [\A r \in Refreshers : Return(r) /\ ~pass[r].missed =>
            \A f \in pass[r].found : Exists(f) /\ disk[f].mtime <= pass[r].began =>
                Known(f) /\ (Same(files[f], disk[f]) \/ files[f].cut)]_vars
  BY <1>1
<1> QED BY <1>2, CurrentInvariant, PTL DEF Spec, RefreshIsCurrent
============================================================================
