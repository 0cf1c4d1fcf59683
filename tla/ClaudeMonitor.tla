--------------------------- MODULE ClaudeMonitor ---------------------------
(***************************************************************************)
(* The session monitor of collector/claude_monitor.go.  Refresh, which the *)
(* ticker and a web handler call, walks the projects directory, forgets    *)
(* the sessions whose file it did not find, and parses again, from its     *)
(* first line, each file whose size or time is not the one it remembers.   *)
(* Unlike the Codex monitor it publishes each file as soon as it is read,  *)
(* and says nothing of a file it could not read.  Claude Code takes no     *)
(* lock: it writes between any two steps.                                  *)
(*                                                                         *)
(* A line is the time at which it was written: what parsing makes of it    *)
(* (usage, tools, turns) is a function of the lines read and left out, as  *)
(* are Stop and the configured switch.  Between the steps that touch       *)
(* m.files or the disk a refresh does nothing that others could see.       *)
(***************************************************************************)
EXTENDS Integers, Sequences, FiniteSets, SequencesExt

CONSTANTS
    Refreshers,   (* the goroutines that call Refresh                       *)
    NumFiles,     (* files are numbered as WalkDir meets them               *)
    MaxFiles,     (* cfg.MaxFiles, after its default                        *)
    MaxWrites,    (* bound: how often the directory changes                 *)
    MaxFailures   (* bound: how often the operating system refuses          *)

ASSUME ClaudeAssumption ==
    /\ NumFiles \in Nat /\ MaxFiles \in Nat \ {0}
    /\ MaxWrites \in Nat /\ MaxFailures \in Nat

Files == 1 .. NumFiles

VARIABLES
    now,          (* the number of writes so far: the clock of the ModTimes *)
    dir,          (* does projectsDir exist?                                *)
    disk,         (* the session files                                      *)
    files,        (* m.files                                                *)
    lastError,    (* is m.lastError set?                                    *)
    pass,         (* what each refresher is doing                           *)
    failures

world == <<now, dir, disk>>
published == <<files, lastError>>
vars == <<world, published, pass, failures>>

(* A file: its ModTime (0: there is none), its lines, and whether half a   *)
(* line follows, whose JSON is not complete.                               *)
NoFile == [mtime |-> 0, lines |-> <<>>, half |-> FALSE]
Exists(f) == disk[f].mtime # 0
Size(file) == 2 * Len(file.lines) + (IF file.half THEN 1 ELSE 0)

(* A claudeParsedSession: ModTime and FileSize as they were statted, and   *)
(* what was parsed.  "cut" is a history variable: reading ended with an    *)
(* error, which nobody looks at.                                           *)
NoSession == [mtime |-> 0, size |-> 0, lines |-> <<>>, half |-> FALSE, cut |-> FALSE]
Known(f) == files[f].mtime # 0

(* A refresh: the files that are left to look at, the one it is at, and    *)
(* its session.  History: when it began, what it found, and whether the    *)
(* system hid or refused a file.                                           *)
Idle == [at |-> "idle", todo |-> {}, file |-> 0, session |-> NoSession,
         began |-> 0, found |-> {}, missed |-> FALSE]

Init ==
    /\ now = 0 /\ failures = 0
    /\ dir = FALSE
    /\ disk = [f \in Files |-> NoFile]
    /\ files = [f \in Files |-> NoSession]
    /\ lastError = FALSE
    /\ pass = [r \in Refreshers |-> Idle]

----------------------------------------------------------------------------
(* Claude Code, and whoever else keeps the directory.  Each write takes    *)
(* the next time.                                                          *)

Write(f, file) ==
    /\ now < MaxWrites
    /\ now' = now + 1
    /\ disk' = [disk EXCEPT ![f] = [file EXCEPT !.mtime = now']]
    /\ UNCHANGED <<published, pass, failures>>

(* A line is added, in one write or in two.                                *)
AppendLine(f) ==
    /\ Exists(f)
    /\ Write(f, [disk[f] EXCEPT !.lines = Append(@, now + 1), !.half = FALSE])
    /\ UNCHANGED dir
HalfLine(f) ==
    /\ Exists(f) /\ ~disk[f].half
    /\ Write(f, [disk[f] EXCEPT !.half = TRUE])
    /\ UNCHANGED dir

(* A session begins, or the file is truncated and written anew.            *)
Begin(f) ==
    /\ \/ Write(f, [NoFile EXCEPT !.lines = <<now + 1>>])
       \/ Write(f, [NoFile EXCEPT !.half = TRUE])
    /\ dir' = TRUE

(* A file, or the whole directory, disappears: not while a file is open.   *)
OpenNow(f) == \E r \in Refreshers : pass[r].at \in {"read", "parsed"} /\ pass[r].file = f
Delete(f) ==
    /\ Exists(f) /\ ~OpenNow(f)
    /\ disk' = [disk EXCEPT ![f] = NoFile]
    /\ UNCHANGED <<now, dir, published, pass, failures>>
RemoveDir ==
    /\ dir /\ now < MaxWrites
    /\ \A f \in Files : ~OpenNow(f)
    /\ now' = now + 1 /\ dir' = FALSE
    /\ disk' = [f \in Files |-> NoFile]
    /\ UNCHANGED <<published, pass, failures>>

Claude ==
    \/ \E f \in Files : AppendLine(f) \/ HalfLine(f) \/ Begin(f) \/ Delete(f)
    \/ RemoveDir

----------------------------------------------------------------------------
(* Refresh.                                                                *)

MayFail == failures < MaxFailures /\ failures' = failures + 1
Goes(r, next) == pass' = [pass EXCEPT ![r] = next]

(* refreshMu, held from the stat of the directory to the return.           *)
RefreshMuFree == \A r \in Refreshers : pass[r].at = "idle"
Lock_Mutant(r) ==
    /\ pass[r].at = "idle"
    /\ IF dir THEN Goes(r, [Idle EXCEPT !.at = "walk", !.began = now]) /\ UNCHANGED lastError
              ELSE lastError' = TRUE /\ UNCHANGED pass
    /\ UNCHANGED <<world, files, failures>>
Lock(r) ==
    /\ RefreshMuFree
    /\ IF dir THEN Goes(r, [Idle EXCEPT !.at = "walk", !.began = now]) /\ UNCHANGED lastError
              ELSE lastError' = TRUE /\ UNCHANGED pass
    /\ UNCHANGED <<world, files, failures>>

(* The first MaxFiles of a set of files, in the order of the walk.         *)
FirstFiles(S) == {f \in S : Cardinality({g \in S : g < f}) < MaxFiles}

(* WalkDir collects the files; the callback hides a directory that cannot  *)
(* be read.  What was not found is forgotten.                              *)
Walk(r) ==
    /\ pass[r].at = "walk"
    /\ \E hidden \in SUBSET {f \in Files : Exists(f)} :
        LET found == FirstFiles({f \in Files : Exists(f)} \ hidden)
        IN  /\ IF hidden = {} THEN UNCHANGED failures ELSE MayFail
            /\ files' = [f \in Files |-> IF f \in found THEN files[f] ELSE NoSession]
            /\ Goes(r, [pass[r] EXCEPT !.at = "next", !.todo = found, !.found = found,
                                       !.missed = hidden # {}])
    /\ UNCHANGED <<world, lastError>>

(* The next path, in the order of a Go map.  A file that cannot be statted *)
(* is skipped, and one that looks as remembered.                           *)
Skip(r, f, missed) ==
    Goes(r, [pass[r] EXCEPT !.at = "next", !.todo = @ \ {f}, !.file = 0,
                            !.session = NoSession, !.missed = @ \/ missed])
Unchanged_Mutant(f) == Known(f) /\ files[f].size = Size(disk[f])
Unchanged(f) ==
    Known(f) /\ files[f].mtime = disk[f].mtime /\ files[f].size = Size(disk[f])

StatSkips(r, f) ==
    /\ pass[r].at = "next" /\ f \in pass[r].todo
    /\ ~Exists(f) \/ Unchanged(f)
    /\ Skip(r, f, FALSE)
    /\ UNCHANGED <<world, published, failures>>
StatFinds(r, f) ==
    /\ pass[r].at = "next" /\ f \in pass[r].todo
    /\ Exists(f) /\ ~Unchanged(f)
    /\ Goes(r, [pass[r] EXCEPT !.at = "open", !.file = f,
                  !.session = [NoSession EXCEPT !.mtime = disk[f].mtime, !.size = Size(disk[f])]])
    /\ UNCHANGED <<world, published, failures>>

(* parseClaudeSessionFile.  It may not find the file any more.             *)
Open(r) ==
    /\ pass[r].at = "open" /\ Exists(pass[r].file)
    /\ Goes(r, [pass[r] EXCEPT !.at = "read"])
    /\ UNCHANGED <<world, published, failures>>
OpenMissing(r) ==
    /\ pass[r].at = "open" /\ ~Exists(pass[r].file)
    /\ Skip(r, pass[r].file, FALSE)
    /\ UNCHANGED <<world, published, failures>>
(* The system refuses to stat or to open it.                               *)
Refused(r) ==
    /\ MayFail
    /\ \/ \E f \in pass[r].todo : pass[r].at = "next" /\ Skip(r, f, TRUE)
       \/ pass[r].at = "open" /\ Skip(r, pass[r].file, TRUE)
    /\ UNCHANGED <<world, published>>

LineThere(r) == Len(pass[r].session.lines) < Len(disk[pass[r].file].lines)
ReadLine(r) ==
    /\ pass[r].at = "read" /\ LineThere(r)
    /\ LET n == Len(pass[r].session.lines) + 1
       IN  Goes(r, [pass[r] EXCEPT !.session.lines = Append(@, disk[pass[r].file].lines[n])])
    /\ UNCHANGED <<world, published, failures>>

(* The end of the file: half a line is a line to the scanner, and counts as*)
(* a parse error.                                                          *)
ReadEnds_Mutant(r) ==
    /\ pass[r].at = "read" /\ ~LineThere(r)
    /\ Goes(r, [pass[r] EXCEPT !.at = "parsed", !.session.half = disk[pass[r].file].half,
                  !.session.mtime = disk[pass[r].file].mtime,
                  !.session.size = Size(disk[pass[r].file])])
    /\ UNCHANGED <<world, published, failures>>
ReadEnds(r) ==
    /\ pass[r].at = "read" /\ ~LineThere(r)
    /\ Goes(r, [pass[r] EXCEPT !.at = "parsed", !.session.half = disk[pass[r].file].half])
    /\ UNCHANGED <<world, published, failures>>
(* Scan stops at an error, perhaps within a line, and looks as at the end. *)
ReadCut(r) ==
    /\ pass[r].at = "read"
    /\ MayFail
    /\ \E half \in {h \in BOOLEAN : h => LineThere(r) \/ disk[pass[r].file].half} :
        Goes(r, [pass[r] EXCEPT !.at = "parsed", !.session.half = half, !.session.cut = TRUE])
    /\ UNCHANGED <<world, published>>

Publish(r) ==
    /\ pass[r].at = "parsed"
    /\ files' = [files EXCEPT ![pass[r].file] = pass[r].session]
    /\ Skip(r, pass[r].file, FALSE)
    /\ UNCHANGED <<world, lastError, failures>>

Return_Mutant(r) ==
    /\ pass[r].at = "next" /\ pass[r].todo = {}
    /\ Goes(r, Idle)
    /\ UNCHANGED <<world, published, failures>>
Return(r) ==
    /\ pass[r].at = "next" /\ pass[r].todo = {}
    /\ lastError' = FALSE
    /\ Goes(r, Idle)
    /\ UNCHANGED <<world, files, failures>>

Refresh(r) ==
    \/ Walk(r) \/ Open(r) \/ OpenMissing(r) \/ Refused(r)
    \/ \E f \in Files : StatSkips(r, f) \/ StatFinds(r, f)
    \/ ReadLine(r) \/ ReadEnds(r) \/ ReadCut(r) \/ Publish(r) \/ Return(r)

Next == Claude \/ \E r \in Refreshers : Lock(r) \/ Refresh(r)

Spec == Init /\ [][Next]_vars
(* The ticker calls Refresh again and again, and a Refresh goes on.        *)
FairSpec ==
    /\ Spec
    /\ \A r \in Refreshers : WF_vars(Refresh(r))
    /\ WF_vars(\E r \in Refreshers : Lock(r))

----------------------------------------------------------------------------
Times == 1 .. MaxWrites
FileType == [mtime : 0 .. MaxWrites, lines : Seq(Times), half : BOOLEAN]
SessionType == [mtime : 0 .. MaxWrites, size : Nat, lines : Seq(Times), half : BOOLEAN,
                cut : BOOLEAN]
PassType == [at : {"idle", "walk", "next", "open", "read", "parsed"}, todo : SUBSET Files,
             file : 0 .. NumFiles, session : SessionType, began : 0 .. MaxWrites,
             found : SUBSET Files, missed : BOOLEAN]
AtFile(p) == p.at \in {"open", "read", "parsed"}
TypeOK ==
    /\ now \in 0 .. MaxWrites /\ failures \in 0 .. MaxFailures
    /\ dir \in BOOLEAN /\ lastError \in BOOLEAN
    /\ disk \in [Files -> FileType]
    /\ files \in [Files -> SessionType]
    /\ pass \in [Refreshers -> PassType]
    /\ \A r \in Refreshers :
        /\ Cardinality(pass[r].found) <= MaxFiles
        /\ AtFile(pass[r]) => pass[r].file \in Files

Same(session, file) == session.lines = file.lines /\ session.half = file.half

(* The skip of an unchanged file is sound: a session whose size and time   *)
(* are still those of its file has everything that is in the file, however *)
(* the file changed while it was statted, opened and read.  (Unless reading*)
(* ended with an error: then the rest is missing until the file changes.)  *)
Accurate ==
    \A f \in Files :
        /\ Exists(f) /\ ~files[f].cut
        /\ files[f].mtime = disk[f].mtime /\ files[f].size = Size(disk[f])
        => Same(files[f], disk[f])

(* What the dashboard shows of a file that has only grown never shrinks: no*)
(* refresh puts an older parse in the place of a newer one.                *)
NeverShrinks ==
    [][\A f \in Files :
        /\ Known(f) /\ files'[f].mtime # 0 /\ ~files'[f].cut
        /\ IsPrefix(files[f].lines, disk[f].lines)
        => IsPrefix(files[f].lines, files'[f].lines)]_vars

(* The answer READY of /api/claude/refresh: when a refresh that was refused*)
(* nothing returns, each file it found and that has not been written since *)
(* it began is shown as it is on disk.                                     *)
RefreshIsCurrent ==
    [][\A r \in Refreshers : Return(r) /\ ~pass[r].missed =>
        \A f \in pass[r].found : Exists(f) /\ disk[f].mtime <= pass[r].began =>
            Known(f) /\ (Same(files[f], disk[f]) \/ files[f].cut)]_vars

(* When Claude Code pauses, the monitor catches up, except with a file of  *)
(* which it missed a read error, and reports an error only if there is one.*)
CatchesUp ==
    <>[](/\ lastError = ~dir
         /\ \A f \in FirstFiles({g \in Files : Exists(g)}) :
                Known(f) /\ (Same(files[f], disk[f]) \/ files[f].cut))
============================================================================
