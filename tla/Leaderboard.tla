---------------------------- MODULE Leaderboard ----------------------------
(***************************************************************************)
(* /api/projects/leaderboard: GetProjectsLeaderboard of                    *)
(* storage/repository.go.  A request reads the usage log, the agent fleet, *)
(* the sessions of the Codex and of the Claude monitor, one after the      *)
(* other, while all of them change, adds them up by project and ranks the  *)
(* projects.  The sweep before the first read is in AgentFleet; prices are *)
(* a constant; names of projects, cached and thinking tokens, savings and  *)
(* the status of a project are left out.  Times are as fine as one likes;  *)
(* the rows of the database, and the now of SQL, are in whole seconds.     *)
(***************************************************************************)
EXTENDS Dashboards

CONSTANTS
    Log, Task,    (* rows of token_usage_logs and of agent_fleet_telemetry  *)
    Project,      (* numbers, in the order of the projects' names           *)
    ProjectOf,    (* of a row, a Codex file and a Claude file               *)
    Price,        (* per token: of the model of a row or a file             *)
    OneSecond,    (* a length of time                                       *)
    Truncated,    (* of a time: the second it is in                         *)
    Ahead         (* of a task: how far the zone of its started_at is ahead *)
                  (* of UTC: 0 if its step was dated in UTC, the local zone *)
                  (* if it was not dated                                    *)

Home == Log \cup Task \cup CodexFile \cup ClaudeFile

ASSUME LeaderboardAssumption ==
    /\ OtherLine = Log \cup Task /\ Log \cap Task = {}
    /\ CodexFile \cap ClaudeFile = {} /\ (Log \cup Task) \cap (CodexFile \cup ClaudeFile) = {}
    /\ Project \subseteq Nat
    /\ ProjectOf \in [Home -> Project] /\ Price \in [Home -> Nat]
    /\ OneSecond \in Nat \ {0} /\ Truncated \in [Moments -> Nat]
    /\ \A t \in Moments : Truncated[t] <= t /\ t < Truncated[t] + OneSecond
    /\ \A t, u \in Moments :
        /\ t >= Midnight[u] => Truncated[t] >= Midnight[u]
        /\ \A length \in {Day, Week, Month} :
            t >= u - length => Truncated[t] >= Truncated[u] - length
    /\ Ahead \in [Task -> Int]

VARIABLE req    (* the request: where it is, its range, when that range     *)
                (* began as it was asked, what it has added up; and, as     *)
                (* history, the usage that a source had as it was read and  *)
                (* that was not taken, though each file of its session has  *)
                (* it that was written as late as the others                *)

vars == <<sources, req>>

NoRequest == [at |-> "idle", range |-> "all", since |-> 0, figures |-> {},
              missed |-> {}]

Init == SourcesInit /\ req = NoRequest

(* What a row of a source adds to the figures of a project.                *)
Figure(provider, home, usage, calls, tasks, updated) ==
    [provider |-> provider, home |-> home, usage |-> usage, calls |-> calls,
     tasks |-> tasks, updated |-> updated]

Counted(figures) == UNION {x.usage : x \in figures}
Reads(at, figures, there) ==
    /\ req' = [req EXCEPT !.at = at, !.figures = @ \cup figures,
                          !.missed = @ \cup (there \ Counted(figures))]
    /\ UNCHANGED sources

Ask(r) ==
    /\ req.at = "idle"
    /\ req' = [NoRequest EXCEPT !.at = "log", !.range = r, !.since = RangeStart(r)]
    /\ UNCHANGED sources

(* GetAntigravityProjectStats: two queries, either of which may fail the   *)
(* request.  timestamp is written in UTC, started_at in the zone that its  *)
(* step was dated in; both are compared with the second of UTC the range   *)
(* begins in (parseAgentTimeCondition).                                    *)
Timestamp(l) == Truncated[time[l]]
StartedAt(k) == Truncated[time[k]] + Ahead[k]
AgentTimeCondition(stamp, r) ==
    CASE r = "today" -> stamp >= Midnight[now]
      [] r \in {"24h", "1d"} -> stamp >= Truncated[now] - Day
      [] r = "7d" -> stamp >= Truncated[now] - Week
      [] r \in {"30d", "month"} -> stamp >= Truncated[now] - Month
      [] OTHER -> TRUE
LogRows(r) == {l \in Log \cap Written : AgentTimeCondition(Timestamp(l), r)}
TaskRows(r) == {k \in Task \cap Written : AgentTimeCondition(StartedAt(k), r)}
ReadLog ==
    /\ req.at = "log"
    /\ Reads("fleet",
             {Figure("google", l, {l}, {l}, {}, {Timestamp(l)}) : l \in LogRows(req.range)},
             Log \cap Written)
ReadFleet ==
    /\ req.at = "fleet"
    /\ Reads("codex",
             {Figure("google", k, {}, {}, {k}, {StartedAt(k)}) : k \in TaskRows(req.range)},
             {})
QueryFails ==
    /\ req.at \in {"log", "fleet"}
    /\ req' = NoRequest
    /\ UNCHANGED sources

(* DashboardForAggregation, whose rows are not cut.  A line is there when  *)
(* the files of its session that were written last have it.                *)
Latest(f) ==
    /\ Known(f)
    /\ \A g \in CodexFile : SessionOf[g] = SessionOf[f] => codex[g].mtime <= codex[f].mtime
CodexThere ==
    {l \in CodexLine :
        LET files == {f \in CodexFile : Latest(f) /\ SessionOf[f] = SessionOfLine[l]}
        IN  files # {} /\ \A f \in files : l \in codex[f].lines}
FromCodex(row) == Figure("openai", row.file, row.usage, row.usage, row.tools, row.updated)
ReadCodex ==
    /\ req.at = "codex"
    /\ Reads("claude", {FromCodex(row) : row \in CodexSessions(req.range)},
             Usage(CodexThere))

(* Dashboard of the Claude monitor, whose rows are.                        *)
FromClaude(row) == Figure("claude", row.file, row.usage, row.turns, row.tools, row.updated)
ReadClaude ==
    /\ req.at = "claude"
    /\ \E rows \in ClaudeSessions(req.range) :
        Reads("done", {FromClaude(row) : row \in rows},
              UNION {Usage(claude[f]) : f \in ClaudeFile})

Reply ==
    /\ req.at = "done"
    /\ req' = NoRequest
    /\ UNCHANGED sources

Request ==
    \/ \E r \in Ranges : Ask(r)
    \/ ReadLog \/ ReadFleet \/ QueryFails \/ ReadCodex \/ ReadClaude \/ Reply
Next == (World /\ UNCHANGED req) \/ Request
Spec == Init /\ [][Next]_vars

----------------------------------------------------------------------------
(* The answer.                                                             *)

(* The sizes of sets are added up by counting what is in them, each element*)
(* with the figure it is of.                                               *)
Item(p) ==
    LET of == {x \in req.figures : ProjectOf[x.home] = p}
        Sum(Part(_)) == Cardinality(UNION {{x} \X Part(x) : x \in of})
    IN  [project |-> p,
         tokens |-> Sum(LAMBDA x : x.usage),
         cost |-> Sum(LAMBDA x : x.usage \X (1 .. Price[x.home])),
         activity |-> Sum(LAMBDA x : (x.calls \X {"call"}) \cup (x.tasks \X {"task"}))]
Items == {Item(p) : p \in {ProjectOf[x.home] : x \in req.figures}}

SortBy == {"tokens", "cost", "activity"}
Second(x, sort) == IF sort = "tokens" THEN x.cost ELSE x.tokens
Beats_Mutant(x, y, sort) ==
    \/ x.tokens > y.tokens
    \/ x.tokens = y.tokens /\ Second(x, sort) > Second(y, sort)
    \/ x.tokens = y.tokens /\ Second(x, sort) = Second(y, sort) /\ x.project < y.project
Beats(x, y, sort) ==
    \/ x[sort] > y[sort]
    \/ x[sort] = y[sort] /\ Second(x, sort) > Second(y, sort)
    \/ x[sort] = y[sort] /\ Second(x, sort) = Second(y, sort) /\ x.project < y.project
Rank(x, items, sort) == 1 + Cardinality({y \in items : Beats(y, x, sort)})

(* PercentOfTop, of the first item's figure; and the KPI that names the top*)
(* consumer: the first of the items with the most tokens, if any.          *)
PercentOfTop(x, items, sort) ==
    LET top == CHOOSE y \in items : Rank(y, items, sort) = 1
    IN  IF top[sort] > 0 THEN (x[sort] * 100) \div top[sort] ELSE 0
TopConsumer(items, sort) ==
    {x \in items :
        /\ x.tokens > 0
        /\ \A y \in items \ {x} :
            IF Beats(y, x, sort) THEN x.tokens > y.tokens ELSE x.tokens >= y.tokens}

----------------------------------------------------------------------------
FigureType == [provider : {"google", "openai", "claude"}, home : Home, usage : SUBSET Line,
               calls : SUBSET Line, tasks : SUBSET Line, updated : SUBSET Int]
TypeOK ==
    /\ SourcesTypeOK
    /\ req \in [at : {"idle", "log", "fleet", "codex", "claude", "done"},
                range : Ranges \cup {"all"}, since : Int,
                figures : SUBSET FigureType, missed : SUBSET Line]

(* No line is counted twice in an answer, whatever it is counted as: not   *)
(* by two sources, nor by two files of one Codex session, however the      *)
(* files were copied and whichever of them a refresh has seen.             *)
CountedOnce ==
    \A x, y \in req.figures :
        (x.usage \cup x.calls \cup x.tasks) \cap (y.usage \cup y.calls \cup y.tasks) # {}
        => x = y

(* What is counted is not from before the range, as the request was asked, *)
(* although each source decides by its own clock and its own names; but:   *)
(* the rows of the database are compared by the second; a task that was not*)
(* dated in UTC by what started_at says; Codex's week and month may be     *)
(* longer than the others' by a change of the clock; the Claude monitor    *)
(* takes "1d" and "month" for all of time, and its turns and tool calls are*)
(* those of all time.                                                      *)
WithinRange ==
    \A x \in req.figures :
        /\ x.provider = "google" =>
            /\ \A l \in x.usage \cup x.calls : time[l] > req.since - OneSecond
            /\ \A k \in x.tasks :
                time[k] >= req.since \/ time[k] + Ahead[k] > req.since - OneSecond
        /\ x.provider = "openai" =>
            \A l \in x.usage \cup x.calls \cup x.tasks :
                \/ time[l] >= req.since
                \/ req.range \in ByCalendar /\ time[l] >= req.since - ClockChange
        /\ x.provider = "claude" /\ req.range \notin {"1d", "month"} =>
            \A l \in x.usage : time[l] >= req.since

(* Of the usage that the sources had as they were read (a Codex session's *)
(* in the files of it that were written last), all that is within the range*)
(* is in the answer, but for two reasons: it is in a Codex session, in what*)
(* a change of the clock takes from the beginning of a week or a month; or *)
(* it is in a Claude session, and MaxRows sessions updated no earlier are  *)
(* shown.                                                                  *)
OnlyLimitsHide ==
    req.at = "done" =>
    \A l \in req.missed : time[l] >= RangeStart(req.range) =>
        \/ /\ l \in CodexLine /\ req.range \in ByCalendar
           /\ time[l] < RangeStart(req.range) + ClockChange
        \/ LET shown == {x \in req.figures : x.provider = "claude"}
           IN  /\ l \in ClaudeLine
               /\ Cardinality(shown) = MaxRows
               /\ \A x \in shown : \E t \in x.updated : t >= time[l]

(* The ranks of the projects are 1, 2, ..., by each of the three criteria; *)
(* none has more than 100% of the first; there is one top consumer exactly *)
(* if anything was consumed, and it is the first of the list when that is  *)
(* sorted by tokens.                                                       *)
RankedRight ==
    req.at = "done" =>
    LET items == Items
    IN  \A sort \in SortBy :
        /\ {Rank(x, items, sort) : x \in items} = 1 .. Cardinality(items)
        /\ \A x \in items : PercentOfTop(x, items, sort) <= 100
        /\ Cardinality(TopConsumer(items, sort)) =
                IF \A x \in items : x.tokens = 0 THEN 0 ELSE 1
        /\ \A x \in TopConsumer(items, "tokens") : Rank(x, items, "tokens") = 1
============================================================================
