----------------------------- MODULE Dashboards ----------------------------
(***************************************************************************)
(* What the two session monitors show of a range of time: dashboard of     *)
(* collector/codex_monitor.go and Dashboard of collector/claude_monitor.go,*)
(* over the sessions each has published, while time passes, agents write   *)
(* lines and refreshes publish them.  How a refresh reads its files is in  *)
(* CodexMonitor and ClaudeMonitor; here it takes a file as it is or leaves *)
(* what was published of it.                                               *)
(*                                                                         *)
(* A figure is the set of the lines that were added up in it, so that      *)
(* nothing lost and nothing counted twice are statements about sets.  A    *)
(* line that reports usage stands for one token.  Names of models and      *)
(* tools, rate limits, percentages and the status of a session are left    *)
(* out.                                                                    *)
(***************************************************************************)
EXTENDS Integers, FiniteSets

CONSTANTS
    CodexLine, ClaudeLine,  (* the lines of session files that bear figures *)
    OtherLine,              (* what is not in a session file                *)
    Kind,                   (* of a line: "usage", "tool", "turn" or "note" *)
    CodexFile,              (* numbers, in the order of the files' paths    *)
    SessionOf,              (* the session ID in a Codex file               *)
    SessionOfLine,          (* the session that a Codex line belongs to     *)
    ClaudeFile, FileOf,     (* the Claude file that a line is written to    *)
    Ranges,                 (* the ranges asked for                         *)
    MaxRows,                (* cfg.MaxSessionRows, after its default        *)
    Day, Week, Month,       (* lengths of time                              *)
    WeekAgo, MonthAgo,      (* of a time: 7 and 30 days of the local        *)
                            (* calendar before it                           *)
    ClockChange,            (* what the local clock is put forward or back  *)
    Midnight, UTCMidnight,  (* of a time: when its day began, here and at UTC*)
    Moments, MaxLines       (* bounds: the times at which something happens,*)
                            (* and how many lines are written               *)

Line == CodexLine \cup ClaudeLine \cup OtherLine

ASSUME DashboardAssumption ==
    /\ CodexLine \cap ClaudeLine = {}
    /\ CodexLine \cap OtherLine = {} /\ ClaudeLine \cap OtherLine = {}
    /\ Kind \in [CodexLine \cup ClaudeLine -> {"usage", "tool", "turn", "note"}]
    /\ CodexFile \subseteq Nat
    /\ FileOf \in [ClaudeLine -> ClaudeFile] /\ IsFiniteSet(ClaudeFile)
    /\ Ranges \subseteq {"today", "24h", "1d", "7d", "30d", "month", "all"}
    /\ MaxRows \in Nat \ {0} /\ MaxLines \in Nat
    /\ Moments \subseteq Nat \ {0} /\ Moments # {}
    /\ \A m \in {Midnight, UTCMidnight} :
        /\ m \in [Moments -> Nat]
        /\ \A t \in Moments : m[t] <= t
        /\ \A t, u \in Moments : t <= u => m[t] <= m[u]
    /\ Day \in Nat \ {0} /\ Week \in Nat /\ Month \in Nat
    /\ Day <= Week /\ Week <= Month
    /\ WeekAgo \in [Moments -> Int] /\ MonthAgo \in [Moments -> Int] /\ ClockChange \in Nat
    /\ \A t \in Moments :
        /\ WeekAgo[t] \in (t - Week) - ClockChange .. (t - Week) + ClockChange
        /\ MonthAgo[t] \in (t - Month) - ClockChange .. (t - Month) + ClockChange

VARIABLES
    now,            (* the time                                             *)
    time,           (* when a line was written; 0: not yet                  *)
    disk,           (* the Codex files                                      *)
    codex, claude   (* the published sessions of the two monitors           *)

sources == <<now, time, disk, codex, claude>>

Written == {l \in Line : time[l] # 0}
Usage(S) == {l \in S : Kind[l] = "usage"}
Tools(S) == {l \in S : Kind[l] = "tool"}
Turns(S) == {l \in S : Kind[l] = "turn"}

SourcesTypeOK ==
    /\ now \in Moments /\ time \in [Line -> Moments \cup {0}]
    /\ disk \in [CodexFile -> [lines : SUBSET CodexLine, mtime : Moments \cup {0}]]
    /\ codex \in [CodexFile -> [lines : SUBSET CodexLine, mtime : Moments \cup {0}]]
    /\ claude \in [ClaudeFile -> SUBSET ClaudeLine]

NoFile == [lines |-> {}, mtime |-> 0]

SourcesInit ==
    /\ now \in Moments /\ \A t \in Moments : now <= t
    /\ time = [l \in Line |-> 0]
    /\ disk = [f \in CodexFile |-> NoFile]
    /\ codex = [f \in CodexFile |-> NoFile]
    /\ claude = [f \in ClaudeFile |-> {}]

----------------------------------------------------------------------------
(* The agents, the clock and the refreshes.                                *)

Tick ==
    /\ \E t \in Moments : t > now /\ now' = t
    /\ UNCHANGED <<time, disk, codex, claude>>

(* A Codex line goes to one of the files of its session, any other line    *)
(* has one place.                                                          *)
WriteCodex(l, f) ==
    /\ time[l] = 0 /\ Cardinality(Written) < MaxLines
    /\ SessionOf[f] = SessionOfLine[l]
    /\ time' = [time EXCEPT ![l] = now]
    /\ disk' = [disk EXCEPT ![f] = [lines |-> @.lines \cup {l}, mtime |-> now]]
    /\ UNCHANGED <<now, codex, claude>>
WriteOther(l) ==
    /\ time[l] = 0 /\ Cardinality(Written) < MaxLines
    /\ time' = [time EXCEPT ![l] = now]
    /\ UNCHANGED <<now, disk, codex, claude>>

(* A session is resumed in, or copied to, another file of the same ID.     *)
Copy(f, g) ==
    /\ f # g /\ SessionOf[f] = SessionOf[g]
    /\ disk[f].mtime # 0 /\ disk[g].mtime = 0
    /\ disk' = [disk EXCEPT ![g] = [lines |-> disk[f].lines, mtime |-> now]]
    /\ UNCHANGED <<now, time, codex, claude>>

WrittenTo(f) == {l \in ClaudeLine : FileOf[l] = f /\ time[l] # 0}

(* refresh of the Codex monitor publishes all sessions in one assignment,  *)
(* Refresh of the Claude monitor each file as soon as it is parsed.  To    *)
(* publish what is unchanged changes nothing, and is left out.             *)
PublishCodex(F) ==
    /\ F # {}
    /\ codex' = [f \in CodexFile |-> IF f \in F THEN disk[f] ELSE codex[f]]
    /\ UNCHANGED <<now, time, disk, claude>>
PublishClaude(f) ==
    /\ claude[f] # WrittenTo(f)
    /\ claude' = [claude EXCEPT ![f] = WrittenTo(f)]
    /\ UNCHANGED <<now, time, disk, codex>>

World ==
    \/ Tick
    \/ \E l \in CodexLine, f \in CodexFile : WriteCodex(l, f)
    \/ \E l \in ClaudeLine \cup OtherLine : WriteOther(l)
    \/ \E f, g \in CodexFile : Copy(f, g)
    \/ \E F \in SUBSET {f \in CodexFile : codex[f] # disk[f]} : PublishCodex(F)
    \/ \E f \in ClaudeFile : PublishClaude(f)

----------------------------------------------------------------------------
(* Ranges.  0 is the zero time: everything was written after it.  Each     *)
(* source has names of its own for the ranges, and a default.              *)

(* When a range begins, by its name.                                       *)
RangeStart(r) ==
    CASE r = "today" -> Midnight[now]
      [] r \in {"24h", "1d"} -> now - Day
      [] r = "7d" -> now - Week
      [] r \in {"30d", "month"} -> now - Month
      [] OTHER -> 0

(* Codex goes back by the local calendar (AddDate), in which a day that the*)
(* clock is changed on is not as long as the others.                       *)
ByCalendar == {"7d", "30d", "month"}
CodexRangeCutoff_Mutant(r) ==
    CASE r = "today" -> Midnight[now]
      [] r = "24h" -> now - Day
      [] r = "7d" -> WeekAgo[now]
      [] r = "all" -> 0
      [] OTHER -> MonthAgo[now]
CodexRangeCutoff(r) ==
    CASE r = "today" -> Midnight[now]
      [] r \in {"24h", "1d"} -> now - Day
      [] r = "7d" -> WeekAgo[now]
      [] r = "all" -> 0
      [] OTHER -> MonthAgo[now]
ClaudeRangeCutoff(r) ==
    CASE r = "today" -> Midnight[now]
      [] r = "24h" -> now - Day
      [] r = "7d" -> now - Week
      [] r = "30d" -> now - Month
      [] OTHER -> 0
Since(S, cutoff) == {l \in S : time[l] >= cutoff}

----------------------------------------------------------------------------
(* Codex.  Of the files that share a session ID the one written last is    *)
(* shown, and of those the first by path.                                  *)

Known(f) == codex[f].mtime # 0
Precedes(f, g) ==
    \/ codex[f].mtime > codex[g].mtime
    \/ codex[f].mtime = codex[g].mtime /\ f < g
Chosen_Mutant(f) == Known(f)
Chosen(f) ==
    /\ Known(f)
    /\ \A g \in CodexFile : Known(g) /\ SessionOf[g] = SessionOf[f] => ~Precedes(g, f)

(* A row: its figures within the range, and when its session was updated.  *)
CodexRow(f, cutoff) ==
    LET inRange == Since(codex[f].lines, cutoff)
    IN  [file |-> f, usage |-> Usage(inRange), tools |-> Tools(inRange),
         turns |-> Turns(inRange),
         updated |-> {time[l] : l \in codex[f].lines}]
(* Its newest line is in the range, whatever it says.                      *)
HasRow(f, cutoff) == Since(codex[f].lines, cutoff) # {}
CodexSessions(r) ==
    {CodexRow(f, CodexRangeCutoff(r)) :
        f \in {g \in CodexFile : Chosen(g) /\ HasRow(g, CodexRangeCutoff(r))}}

----------------------------------------------------------------------------
(* Claude.  Usage is cut to the range; turns and tool calls are not.       *)

ClaudeRow(f, cutoff) ==
    [file |-> f, usage |-> Usage(Since(claude[f], cutoff)), tools |-> Tools(claude[f]),
     turns |-> Turns(claude[f]), updated |-> {time[l] : l \in claude[f]}]
AllClaudeSessions(r) ==
    {row \in {ClaudeRow(f, ClaudeRangeCutoff(r)) : f \in ClaudeFile} :
        row.usage # {} \/ row.turns # {}}
(* Rows are sorted by UpdatedAt, and only the first MaxRows are kept; rows *)
(* of one time are in the order of a map, which is any.                    *)
NewerRow(a, b) == \E t \in a.updated : \A u \in b.updated : t > u
FirstRows_Mutant(rows) ==
    {S \in SUBSET rows :
        /\ Cardinality(S) <= MaxRows
        /\ S # rows => Cardinality(S) = MaxRows}
FirstRows(rows) ==
    {S \in SUBSET rows :
        /\ Cardinality(S) <= MaxRows
        /\ S # rows => Cardinality(S) = MaxRows
        /\ \A a \in S, b \in rows \ S : ~NewerRow(b, a)}

ClaudeSessions(r) == FirstRows(AllClaudeSessions(r))

----------------------------------------------------------------------------
(* The time series.  Points are sorted by their key, as a string: for Codex*)
(* the local date, with the hour for a range of a day; for Claude the date *)
(* of the transcript's zone, UTC, or for a range of a day the time alone.  *)

CodexBucketKey_Mutant(t, r) ==
    IF r \in {"today", "24h", "1d"} THEN <<t - Midnight[t], 0>> ELSE <<Midnight[t], 0>>
CodexBucketKey(t, r) ==
    IF r \in {"today", "24h", "1d"} THEN <<Midnight[t], t - Midnight[t]>> ELSE <<Midnight[t], 0>>
ClaudeBucketKey(t, r) ==
    IF r \in {"today", "24h"} THEN <<0, t - UTCMidnight[t]>> ELSE <<UTCMidnight[t], 0>>
KeyLess(k, m) == k[1] < m[1] \/ (k[1] = m[1] /\ k[2] < m[2])

InOrder(S, Key(_)) ==
    \A l, m \in S : time[l] < time[m] => ~KeyLess(Key(time[m]), Key(time[l]))

(* The points of a chart are in the order of time: a line written earlier  *)
(* is in the same point or in an earlier one.  Codex keeps this for every  *)
(* range; Claude only for those longer than a day, since its other keys    *)
(* have no date, while a local day is in two days of UTC.                  *)
SeriesInOrder ==
    \A r \in Ranges :
        /\ InOrder(UNION {row.usage : row \in CodexSessions(r)},
                   LAMBDA t : CodexBucketKey(t, r))
        /\ r \notin {"today", "24h"} =>
            InOrder(UNION {Usage(Since(claude[f], ClaudeRangeCutoff(r))) : f \in ClaudeFile},
                    LAMBDA t : ClaudeBucketKey(t, r))
============================================================================
