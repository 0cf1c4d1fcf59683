---------------------------- MODULE CodexMonitor ---------------------------
(***************************************************************************)
(* The session monitor of collector/codex_monitor.go and codex_stream.go.  *)
(* Codex appends lines to one file per session; refresh, which the ticker  *)
(* and a web handler call under refreshMu, reads what was added since the  *)
(* last scan (or everything again when the file is not the one it knew),   *)
(* and publishes the parsed sessions under mu in one assignment.  Codex    *)
(* takes no lock: it writes between any two steps of a scan.  Stop, whose   *)
(* cancelled context abandons a scan, is left out.                         *)
(*                                                                         *)
(* A file is measured in half lines.  A half line at its end is one whose  *)
(* JSON is not complete.  Each response uses one token, so that the six    *)
(* counters of CodexTokenUsage become one.  Timestamps, models, workspaces,*)
(* rate limits and the success of a tool call are left out.                *)
(***************************************************************************)
EXTENDS Integers, Sequences, FiniteSets, SequencesExt

CONSTANTS
    Files,
    SessionOf,    (* the SessionID that session_meta gives a file's session *)
    MaxFiles,     (* config.OpenAI.MaxFiles; 0 reads every file             *)
    Window,       (* the 4096 bytes that codexBoundaryHashes covers at both *)
                  (* ends of what was read, in lines                        *)
    Activity,     (* bound: which of "turn", "call", "item", "bad" occur    *)
    MaxWrites,    (* bound: how often Codex changes a file                  *)
    MaxFailures   (* bound: how often the operating system refuses a file   *)

ASSUME MonitorAssumption ==
    /\ IsFiniteSet(Files) /\ DOMAIN SessionOf = Files /\ MaxFiles \in Nat /\ Window \in Nat \ {0}
    /\ Activity \subseteq {"turn", "call", "item", "bad"}
    /\ MaxWrites \in Nat /\ MaxFailures \in Nat

VARIABLES
    now,          (* the number of writes so far: the clock of the ModTimes *)
    disk,         (* the session files                                      *)
    truth,        (* truth[f][n]: what the first n lines of f say           *)
    files,        (* m.files: the published sessions                        *)
    report,       (* filesDiscovered, lastError, and what the scan found    *)
    scan,         (* the refresh in progress                                *)
    failures

world == <<now, disk, truth>>
published == <<files, report>>
vars == <<world, published, scan, failures>>

(* What parsing has accumulated: the tokens of parsed.Usage, the counter   *)
(* stream.previous, seenResponses, ParseErrors, len(Activities), and the   *)
(* lengths of responseActivities and itemActivities.                       *)
EmptyParse == [billed |-> 0, previous |-> 0, seen |-> {}, errors |-> 0,
               activities |-> 0, calls |-> 0, items |-> 0]

(* A file: its identity (os.SameFile), when its content began, ModTime,    *)
(* its lines and whether half a line follows; then Codex's side: the tokens*)
(* used, those said again by a record without a response id, the counter it*)
(* reports and whether a compaction has reset it.                          *)
NoFile == [id |-> 0, born |-> 0, mtime |-> 0, lines |-> <<>>, half |-> FALSE,
           used |-> 0, again |-> 0, thread |-> 0, compacted |-> FALSE]
Exists(f) == disk[f].id # 0
Size(file) == 2 * Len(file.lines) + (IF file.half THEN 1 ELSE 0)
Info(file) == [id |-> file.id, mtime |-> file.mtime, size |-> Size(file),
               born |-> file.born]

(* os.FileInfo and stream.offset of a session, what codexBoundaryHashes    *)
(* saw, its parse and baseActivityCount.  "torn" is a history variable: the*)
(* file was truncated while it was read.                                   *)
NoSession == [info |-> Info(NoFile), offset |-> 0, hashes |-> <<<<>>, <<>>>>,
              parse |-> EmptyParse, base |-> 0, torn |-> FALSE]
NoSessions == [f \in Files |-> NoSession]
Known(f) == files[f] # NoSession

Idle == [at |-> "idle", full |-> FALSE, entries |-> <<>>, failed |-> FALSE,
         found |-> [f \in Files |-> Info(NoFile)], next |-> NoSessions,
         parsed |-> NoSession]

Init ==
    /\ now = 0
    /\ disk = [f \in Files |-> NoFile]
    /\ truth = [f \in Files |-> <<>>]
    /\ files = NoSessions
    /\ report = [truncated |-> FALSE, error |-> FALSE, found |-> Idle.found]
    /\ scan = Idle
    /\ failures = 0

----------------------------------------------------------------------------
(* Parsing.                                                                *)

(* appendCodexCumulative: the total is compared with the last one.  A lower*)
(* one is a new baseline and an error; a higher one bills the difference.  *)
Cumulative(p, total) ==
    [p EXCEPT !.previous = total,
              !.billed = @ + (IF total > p.previous THEN total - p.previous ELSE 0),
              !.errors = @ + (IF total < p.previous THEN 1 ELSE 0)]

(* parseCodexLine: a token_usage_record whose response was not seen yet,   *)
(* with or without thread_token_usage, a token_count, and the rest.  A     *)
(* record without a ResponseID (n = 0) is never taken for one seen before. *)
Remember(p, line) == [p EXCEPT !.seen = @ \cup ({line.n} \ {0})]
ParseLine(p, line) ==
    CASE line.kind = "usage" ->
            IF line.n \in p.seen THEN p ELSE Cumulative(Remember(p, line), line.total)
      [] line.kind = "bare" ->
            IF line.n \in p.seen THEN p
            ELSE [Remember(p, line) EXCEPT !.billed = @ + 1, !.previous = @ + 1]
      [] line.kind = "count" -> Cumulative(p, line.total)
      [] line.kind = "meta" -> p
      [] line.kind = "turn" -> [p EXCEPT !.activities = @ + 1]
      [] line.kind = "call" -> [p EXCEPT !.calls = @ + 1]
      [] line.kind = "item" -> [p EXCEPT !.items = @ + 1]
      [] line.kind = "bad" -> [p EXCEPT !.errors = @ + 1]

(* The end of readCodexSession: the tool calls are those of the response   *)
(* items or, when there are none, those of the completed items.            *)
Finish(p) == [p EXCEPT !.activities = @ + (IF p.calls > 0 THEN p.calls ELSE p.items)]

----------------------------------------------------------------------------
(* Codex.  Each write takes the next time.  A line carries its time, so    *)
(* that lines written at different times differ.                           *)

After(f) == IF truth[f] = <<>> THEN EmptyParse ELSE Last(truth[f]).parse

(* A line of this moment.  The response it may record is named after it;   *)
(* some versions of Codex give the record no name.                         *)
Line(kind, total) == [kind |-> kind, n |-> now + 1, total |-> total, time |-> now + 1]

Nameless(line) == [line EXCEPT !.n = 0]

Touch(f, file) ==
    /\ now < MaxWrites
    /\ now' = now + 1
    /\ disk' = [disk EXCEPT ![f] = IF file = NoFile THEN file ELSE [file EXCEPT !.mtime = now']]
    /\ UNCHANGED <<published, failures>>

(* What is to be said of a file after one line more.                       *)
Said(p, line, file) ==
    [parse |-> ParseLine(p, line), used |-> file.used, again |-> file.again]

(* A line is completed, in one write or in two.                            *)
AppendLine(f, file, line) ==
    /\ Exists(f)
    /\ Touch(f, [file EXCEPT !.lines = Append(@, line), !.half = FALSE])
    /\ truth' = [truth EXCEPT ![f] = Append(@, Said(After(f), line, file))]
    /\ UNCHANGED scan

(* New content begins with half a line, with a line that says nothing      *)
(* (session_meta), or with a response.                                     *)
Begin(f, id) ==
    LET file == [NoFile EXCEPT !.id = id, !.born = now + 1]
        With(line, used) ==
            LET new == [file EXCEPT !.lines = <<line>>, !.used = used, !.thread = used]
            IN  Touch(f, new) /\ truth' = [truth EXCEPT ![f] = <<Said(EmptyParse, line, new)>>]
    IN  \/ With(Line("meta", 0), 0)
        \/ With(Line("usage", 1), 1)
        \/ Touch(f, [file EXCEPT !.half = TRUE]) /\ truth' = [truth EXCEPT ![f] = <<>>]

(* A new file takes the name, or the file disappears: not while the monitor*)
(* has it open.                                                            *)
OpenNow(f) == scan.at = "read" /\ Head(scan.entries) = f
Replace(f) == ~OpenNow(f) /\ Begin(f, now + 1) /\ UNCHANGED scan
Delete(f) ==
    /\ Exists(f) /\ ~OpenNow(f)
    /\ Touch(f, NoFile)
    /\ truth' = [truth EXCEPT ![f] = <<>>]
    /\ UNCHANGED scan

(* The file is truncated in place and written anew.                        *)
Rewrite(f) ==
    /\ Exists(f)
    /\ Begin(f, disk[f].id)
    /\ scan' = IF OpenNow(f) THEN [scan EXCEPT !.parsed.torn = TRUE] ELSE scan

HalfLine(f) ==
    /\ Exists(f) /\ ~disk[f].half
    /\ Touch(f, [disk[f] EXCEPT !.half = TRUE])
    /\ UNCHANGED <<truth, scan>>

(* A response: its usage is recorded with the thread's total, without it,  *)
(* or only by a token_count.                                               *)
Respond(f, kind, named) ==
    LET file == [disk[f] EXCEPT !.used = @ + 1, !.thread = @ + 1]
        line == Line(kind, file.thread)
    IN  AppendLine(f, file, IF named THEN line ELSE Nameless(line))

(* A record that repeats what an earlier one said: a token_count after the *)
(* usage record, or the replay of a usage record when a session is resumed.*)
(* Nobody can tell the replay of a nameless record from a new response: it *)
(* says its own token again, or moves the counter to its total and so says *)
(* again what lies between that and the counter.                           *)
Distance(m, n) == IF m > n THEN m - n ELSE n - m
SaidAgain(f, line) ==
    IF line.n # 0 THEN 0
    ELSE IF line.kind = "bare" THEN 1 ELSE Distance(line.total, disk[f].thread)
Repeat(f) ==
    \/ /\ disk[f].used > 0 /\ disk[f].thread > 0
       /\ AppendLine(f, disk[f], Line("count", disk[f].thread))
    \/ \E line \in ToSet(disk[f].lines) :
        /\ line.kind \in {"usage", "bare"}
        /\ AppendLine(f, [disk[f] EXCEPT !.again = @ + SaidAgain(f, line)],
                      [Line(line.kind, line.total) EXCEPT !.n = line.n])

Compact(f) ==
    /\ disk[f].thread > 0
    /\ disk' = [disk EXCEPT ![f].thread = 0, ![f].compacted = TRUE]
    /\ UNCHANGED <<now, truth, published, scan, failures>>

Codex(f) ==
    \/ Replace(f) \/ Delete(f) \/ Rewrite(f) \/ HalfLine(f)
    \/ \E kind \in {"usage", "bare"}, named \in BOOLEAN : Respond(f, kind, named)
    \/ Respond(f, "count", TRUE)
    \/ Repeat(f) \/ Compact(f)
    \/ \E kind \in Activity : AppendLine(f, disk[f], Line(kind, 0))

----------------------------------------------------------------------------
(* refresh.                                                                *)

(* The files, the one written last first.                                  *)
There == {f \in Files : Exists(f)}
Rank(f) == Cardinality({g \in There : disk[g].mtime >= disk[f].mtime})
Found == [i \in 1 .. Cardinality(There) |-> CHOOSE f \in There : Rank(f) = i]
Cut(s) == IF MaxFiles > 0 /\ Len(s) > MaxFiles THEN SubSeq(s, 1, MaxFiles) ELSE s

(* The files are collected (their sizes and times are those of one moment  *)
(* here) and cut to the MaxFiles that were written last.                   *)
RefreshBegins(full) ==
    /\ scan.at = "idle"
    /\ scan' = [Idle EXCEPT !.at = "entry", !.full = full, !.entries = Cut(Found),
                            !.found = [f \in Files |-> Info(disk[f])]]
    /\ UNCHANGED <<world, published, failures>>

MayFail == failures < MaxFailures /\ failures' = failures + 1

(* collectCodexSessionFiles fails: only lastError changes.                 *)
CollectFails ==
    /\ scan.at = "idle"
    /\ MayFail
    /\ report' = [report EXCEPT !.error = TRUE]
    /\ UNCHANGED <<world, files, scan>>

Entry == Head(scan.entries)
Reusable_Mutant ==
    /\ ~scan.full
    /\ Known(Entry)
    /\ files[Entry].info.size = scan.found[Entry].size
Reusable ==
    /\ ~scan.full
    /\ Known(Entry)
    /\ [files[Entry].info EXCEPT !.born = 0] = [scan.found[Entry] EXCEPT !.born = 0]

Done(session) ==
    scan' = [scan EXCEPT !.at = "entry", !.entries = Tail(@), !.parsed = NoSession,
                         !.next[Entry] = session]

AtEntry == scan.at = "entry" /\ scan.entries # <<>>
Reuse ==
    /\ AtEntry
    /\ Reusable
    /\ Done(files[Entry])
    /\ UNCHANGED <<world, published, failures>>

(* readCodexSession opens and stats the file.  It continues a clone of the *)
(* cached session if the file is the same one, has grown, and has the same *)
(* bytes at both ends of what was read; otherwise it starts from nothing.  *)
Ends(lines, n) ==
    LET w == IF n < Window THEN n ELSE Window
    IN  <<SubSeq(lines, 1, w), SubSeq(lines, n - w + 1, n)>>
Continues_Mutant(session, file) ==
    /\ session # NoSession
    /\ Size(file) > session.info.size
    /\ session.offset <= Len(file.lines)
Continues(session, file) ==
    /\ session # NoSession
    /\ Size(file) > session.info.size
    /\ session.info.id = file.id
    /\ session.offset <= Len(file.lines)
    /\ session.hashes = Ends(file.lines, session.offset)
Clone_Mutant(session) == session
Clone(session) == [session EXCEPT !.parse.activities = session.base]

Open_Mutant ==
    /\ AtEntry
    /\ ~Reusable
    /\ Exists(Entry)
    /\ LET file == disk[Entry]
           from == IF Continues(files[Entry], file) THEN Clone(files[Entry]) ELSE NoSession
       IN  scan' = [scan EXCEPT !.at = "read", !.parsed = [from EXCEPT !.info = Info(file)]]
    /\ UNCHANGED <<world, published, failures>>
Open ==
    /\ AtEntry
    /\ ~Reusable
    /\ Exists(Entry)
    /\ LET file == disk[Entry]
           from == IF ~scan.full /\ Continues(files[Entry], file)
                   THEN Clone(files[Entry]) ELSE NoSession
       IN  scan' = [scan EXCEPT !.at = "read", !.parsed = [from EXCEPT !.info = Info(file)]]
    /\ UNCHANGED <<world, published, failures>>

(* One complete line within the size that was statted.                     *)
LineThere ==
    LET n == scan.parsed.offset + 1
    IN  2 * n <= scan.parsed.info.size /\ n <= Len(disk[Entry].lines)
ReadLine ==
    /\ scan.at = "read"
    /\ LineThere
    /\ LET n == scan.parsed.offset + 1
       IN  scan' = [scan EXCEPT !.parsed.offset = n,
                                !.parsed.parse = ParseLine(@, disk[Entry].lines[n])]
    /\ UNCHANGED <<world, published, failures>>

(* After the last line the file is statted again.                          *)
Changed ==
    LET before == scan.parsed.info
    IN  \/ Size(disk[Entry]) < before.size
        \/ Size(disk[Entry]) = before.size /\ disk[Entry].mtime # before.mtime
AtEnd == scan.at = "read" /\ ~LineThere
ReadSucceeds_Mutant ==
    /\ AtEnd
    /\ ~Changed
    /\ LET p == scan.parsed
       IN  Done([p EXCEPT !.hashes = Ends(disk[Entry].lines, p.offset),
                          !.info = Info(disk[Entry]),
                          !.base = p.parse.activities,
                          !.parse = Finish(p.parse)])
    /\ UNCHANGED <<world, published, failures>>
ReadSucceeds ==
    /\ AtEnd
    /\ ~Changed
    /\ LET p == scan.parsed
       IN  Done([p EXCEPT !.hashes = Ends(disk[Entry].lines, p.offset),
                          !.base = p.parse.activities,
                          !.parse = Finish(p.parse)])
    /\ UNCHANGED <<world, published, failures>>

(* The file could not be read, or it changed: what is published of it stays*)
(* as it is, with one more error.                                          *)
Failed ==
    LET old == files[Entry]
    IN  scan' = [scan EXCEPT !.at = "entry", !.entries = Tail(@), !.failed = TRUE,
                     !.parsed = NoSession,
                     !.next[Entry] = IF Known(Entry) THEN [old EXCEPT !.parse.errors = @ + 1]
                                     ELSE NoSession]
ReadChanged ==
    /\ AtEnd
    /\ Changed
    /\ Failed
    /\ UNCHANGED <<world, published, failures>>
OpenMissing ==
    /\ AtEntry
    /\ ~Reusable
    /\ ~Exists(Entry)
    /\ Failed
    /\ UNCHANGED <<world, published, failures>>
(* The system refuses to open the file, or to read on.                     *)
ReadRefused ==
    /\ (AtEntry /\ ~Reusable) \/ scan.at = "read"
    /\ MayFail
    /\ Failed
    /\ UNCHANGED <<world, published>>

Publish_Mutant ==
    /\ scan.at = "entry" /\ scan.entries = <<>>
    /\ files' = scan.next
    /\ report' = [truncated |-> FALSE, error |-> scan.failed, found |-> scan.found]
    /\ scan' = Idle
    /\ UNCHANGED <<world, failures>>
Publish ==
    /\ scan.at = "entry" /\ scan.entries = <<>>
    /\ files' = scan.next
    /\ report' = [truncated |-> MaxFiles > 0
                        /\ Cardinality({f \in Files : scan.found[f].id # 0}) > MaxFiles,
                  error |-> scan.failed, found |-> scan.found]
    /\ scan' = Idle
    /\ UNCHANGED <<world, failures>>

RefreshStep == Reuse \/ Open \/ ReadLine \/ ReadSucceeds \/ ReadChanged \/ OpenMissing
    \/ Publish
Next ==
    \/ \E f \in Files : Codex(f)
    \/ \E full \in BOOLEAN : RefreshBegins(full)
    \/ RefreshStep \/ CollectFails \/ ReadRefused

Spec == Init /\ [][Next]_vars
(* The ticker starts a refresh again and again, and the scan goes on.      *)
FairSpec ==
    /\ Spec
    /\ WF_vars(RefreshStep)
    /\ WF_vars(\E full \in BOOLEAN : RefreshBegins(full))

----------------------------------------------------------------------------
(* dashboard: what the figures are called.  Of several files of a session  *)
(* the one written last is shown, and only its errors are counted.         *)
Shown(f) ==
    /\ Known(f)
    /\ \A g \in Files : Known(g) /\ SessionOf[g] = SessionOf[f] =>
            files[g].info.mtime <= files[f].info.mtime
SourceStatus ==
    LET present == {f \in Files : Known(f)}
    IN  IF (\E f \in Files : Shown(f) /\ files[f].parse.errors > 0) \/ report.truncated
           \/ (report.error /\ present # {}) THEN "PARTIAL"
        ELSE IF report.error THEN "UNAVAILABLE"
        ELSE IF present = {} THEN "EMPTY"
        ELSE "READY"

LineType == [kind : {"usage", "bare", "count", "meta"} \cup Activity, n : Nat, total : Nat,
             time : Nat]
ParseType == [billed : Nat, previous : Nat, seen : SUBSET Nat, errors : Nat,
              activities : Nat, calls : Nat, items : Nat]
FileType == [id : Nat, born : Nat, mtime : Nat, lines : Seq(LineType), half : BOOLEAN,
             used : Nat, again : Nat, thread : Nat, compacted : BOOLEAN]
InfoType == [id : Nat, mtime : Nat, size : Nat, born : Nat]
SessionType == [info : InfoType, offset : Nat, hashes : Seq(LineType) \X Seq(LineType),
                parse : ParseType, base : Nat, torn : BOOLEAN]
TypeOK ==
    /\ now \in 0 .. MaxWrites
    /\ failures \in 0 .. MaxFailures
    /\ disk \in [Files -> FileType]
    /\ truth \in [Files -> Seq([parse : ParseType, used : Nat, again : Nat])]
    /\ files \in [Files -> SessionType]
    /\ report \in [truncated : BOOLEAN, error : BOOLEAN, found : [Files -> InfoType]]
    /\ scan \in [at : {"idle", "entry", "read"}, full : BOOLEAN, entries : Seq(Files),
                 failed : BOOLEAN, found : [Files -> InfoType],
                 next : [Files -> SessionType], parsed : SessionType]

(* A session of content that is still on disk.                             *)
Current(f) == Known(f) /\ ~files[f].torn /\ files[f].info.born = disk[f].born

(* However many scans it took, and whatever Codex wrote between their      *)
(* steps, a published session is what reading its lines once would give;   *)
(* only the error count may be higher, after a scan that failed.           *)
IncrementalIsFull ==
    \A f \in Files : Current(f) /\ files[f].offset > 0 =>
        /\ files[f].offset <= Len(truth[f])
        /\ LET once == Finish(truth[f][files[f].offset].parse)
           IN  /\ files[f].parse.errors >= once.errors
               /\ [files[f].parse EXCEPT !.errors = once.errors] = once

(* A response is billed once, however many records repeat its usage and in *)
(* whichever scan each is read: what is billed is what was used, but for   *)
(* what replays of records without a response id say again.  No replay,    *)
(* old total or mixture of records makes it less, save a compaction.       *)
BilledOnce ==
    \A f \in Files : Current(f) /\ files[f].offset > 0 =>
        LET said == truth[f][files[f].offset]
        IN  /\ files[f].parse.billed <= said.used + said.again
            /\ ~disk[f].compacted => files[f].parse.billed >= said.used

(* "READY" promises that the last scan missed nothing: every file it found *)
(* is published with all the lines it had then, of the content it had then.*)
ReadyIsComplete ==
    SourceStatus = "READY" => \A f \in Files : report.found[f].id # 0 =>
        /\ Known(f)
        /\ files[f].info.born >= report.found[f].born
        /\ ~files[f].torn /\ files[f].info.born = report.found[f].born =>
              files[f].offset >= report.found[f].size \div 2

(* A refresh of everything that meets no failure heals: it publishes no    *)
(* error that is not in the files.                                         *)
FullHeals ==
    [][Publish /\ scan.full /\ ~scan.failed =>
        \A f \in Files : files'[f] # NoSession /\ ~files'[f].torn
                         /\ files'[f].info.born = disk[f].born
                         /\ files'[f].offset > 0 =>
            files'[f].parse.errors = truth[f][files'[f].offset].parse.errors]_vars

(* The monitor catches up with what Codex has written.                     *)
CatchesUp ==
    \A f \in Files :
        <>[](f \in ToSet(Cut(Found)) => Known(f) /\ files[f].offset = Len(disk[f].lines))
============================================================================
