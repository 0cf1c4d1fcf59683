---------------------------- MODULE AgentFleet ----------------------------
(***************************************************************************)
(* The status of the tool calls that the dashboard shows as an agent fleet *)
(* (table agent_fleet_telemetry).  Nothing in a transcript says that a call*)
(* has ended.  createAgentTasks of collector/tailer.go calls it RUNNING if *)
(* its line is younger than Recent when it is parsed; storage/repository.go*)
(* completes it when somebody asks for the summary or the leaderboard and  *)
(* the call is older than SweepAge.  Between parsing, writing, sweeping and*)
(* counting time passes.                                                   *)
(*                                                                         *)
(* Times are kept as ages in whole seconds of now, as SQL compares them    *)
(* and started_at is written, up to Oldest, beyond which nothing is told   *)
(* apart; where Go compares now itself, whether it is a fraction past its  *)
(* second matters (BoardActive).  Offsets within a line, and the usage     *)
(* events that the same readers write, are in LocalTailer; roles, names and*)
(* amounts are left out.                                                   *)
(***************************************************************************)
EXTENDS Integers, FiniteSets

CONSTANTS
    NumSteps,     (* the responses with tool calls, in transcript order     *)
    NumCalls,     (* how many calls (or Direct Planning tasks) each has     *)
    Undated,      (* the steps whose created_at is not RFC 3339             *)
    Recent,       (* 45 seconds                                             *)
    SweepAge,     (* 2 minutes                                              *)
    Zone,         (* how far the local clock is ahead of UTC                *)
    TasksEvery,   (* the 100 tasks after which a backfill writes            *)
    MaxFills,     (* bound: how often a backfill is started                 *)
    MaxFailures   (* bound: how often the database refuses                  *)

Steps == 1 .. NumSteps

ASSUME FleetAssumption ==
    /\ NumSteps \in Nat /\ NumCalls \in [Steps -> Nat] /\ Undated \subseteq Steps
    /\ Recent \in Nat \ {0} /\ SweepAge \in Nat /\ Recent <= SweepAge
    /\ Zone \in Nat /\ TasksEvery \in Nat \ {0}
    /\ MaxFills \in Nat /\ MaxFailures \in Nat

(* A call is its step and its place there: subID.                          *)
Calls == UNION {{s} \X (1 .. NumCalls[s]) : s \in Steps}
Last(c) == c[2] = NumCalls[c[1]]
Oldest == SweepAge + 1
Older(a) == IF a < Oldest THEN a + 1 ELSE a

VARIABLES
    written,      (* the steps that are in the transcript                   *)
    age,          (* the age of each: now - created_at                      *)
    reader,       (* who has t.mu, and what he does                         *)
    next, stat,   (* the step he is at; poll: how many there were           *)
    seen,         (* the poll loop's offset                                 *)
    batch,        (* the rows that are parsed and not yet written           *)
    held,         (* history: for how long they have been                   *)
    fleet,        (* agent_fleet_telemetry                                  *)
    asking,       (* a request for the summary or the leaderboard           *)
    tidy,         (* history: no time has passed since it swept the table   *)
    fills, failures

transcript == <<written, age>>
tailer == <<reader, next, stat, seen, fills>>
pending == <<batch, held>>
viewer == <<asking, tidy>>
vars == <<transcript, tailer, pending, fleet, viewer, failures>>

NoRow == [status |-> "NONE", age |-> 0]
Row == [status : {"NONE", "RUNNING", "COMPLETED"}, age : - Zone .. Oldest]
NoRows == [c \in Calls |-> NoRow]
In(table) == {c \in Calls : table[c].status # "NONE"}

Init ==
    /\ written = 0 /\ age = [s \in Steps |-> 0]
    /\ reader = "idle" /\ next = 1 /\ stat = 0 /\ seen = 0
    /\ batch = NoRows /\ held = [c \in Calls |-> 0]
    /\ fleet = NoRows
    /\ asking = FALSE /\ tidy = FALSE
    /\ fills = 0 /\ failures = 0

----------------------------------------------------------------------------
(* The IDE writes a step, some time after its created_at; time passes.     *)

Append ==
    /\ written < NumSteps
    /\ written' = written + 1
    /\ \E a \in 0 .. Oldest : age' = [age EXCEPT ![written'] = a]
    /\ UNCHANGED <<tailer, pending, fleet, viewer, failures>>

Aged(table) ==
    [c \in Calls |-> IF table[c].status = "NONE" THEN NoRow
                     ELSE [table[c] EXCEPT !.age = Older(@)]]
Tick ==
    /\ age' = [s \in Steps |-> IF s <= written THEN Older(age[s]) ELSE age[s]]
    /\ batch' = Aged(batch) /\ fleet' = Aged(fleet)
    /\ held' = [c \in Calls |-> IF batch[c].status = "NONE" THEN 0 ELSE Older(held[c])]
    /\ tidy' = FALSE
    /\ UNCHANGED <<written, tailer, asking, failures>>

----------------------------------------------------------------------------
(* The readers, one at a time under t.mu.                                  *)

(* createAgentTasks: the last call of a recent step is RUNNING.  A step    *)
(* without a date is parsed as of now, which is written as local time and  *)
(* later compared with UTC.                                                *)
IsRecent_Mutant(s) == s \in Undated \/ age[s] <= SweepAge
IsRecent(s) == s \in Undated \/ age[s] < Recent
Task(c) ==
    [status |-> IF IsRecent(c[1]) /\ Last(c) THEN "RUNNING" ELSE "COMPLETED",
     age |-> IF c[1] \in Undated THEN - Zone ELSE age[c[1]]]
Parse(s) ==
    /\ batch' = [c \in Calls |-> IF c[1] = s THEN Task(c) ELSE batch[c]]
    /\ held' = [c \in Calls |-> IF c[1] = s THEN 0 ELSE held[c]]
    /\ next' = s + 1

(* InsertAgentTaskBatch, whose error nobody looks at: one transaction.     *)
InsertAgentTaskBatch ==
    /\ \/ /\ fleet' = [c \in Calls |-> IF c \in In(batch) THEN batch[c] ELSE fleet[c]]
          /\ tidy' = (tidy /\ \A c \in Calls : batch[c].status = "RUNNING" => batch[c].age <= SweepAge)
          /\ UNCHANGED failures
       \/ /\ failures < MaxFailures /\ failures' = failures + 1
          /\ UNCHANGED <<fleet, tidy>>
    /\ batch' = NoRows /\ held' = [c \in Calls |-> 0]

(* scanAndIngest: each step is written as soon as it is parsed.  Steps that*)
(* came after the stat are read, and read again the next time.             *)
PollStat ==
    /\ reader = "idle" /\ seen < written
    /\ reader' = "poll" /\ stat' = written /\ next' = seen + 1
    /\ UNCHANGED <<transcript, seen, fills, pending, fleet, viewer, failures>>
PollParse ==
    /\ reader = "poll" /\ In(batch) = {} /\ next <= written
    /\ Parse(next)
    /\ UNCHANGED <<transcript, reader, stat, seen, fills, fleet, viewer, failures>>
PollWrite ==
    /\ reader = "poll" /\ In(batch) # {}
    /\ InsertAgentTaskBatch
    /\ UNCHANGED <<transcript, tailer, asking>>
PollEnd ==
    /\ reader = "poll" /\ In(batch) = {} /\ next > written
    /\ reader' = "idle" /\ seen' = stat
    /\ UNCHANGED <<transcript, next, stat, fills, pending, fleet, viewer, failures>>

(* BackfillAllHistory: the rows are kept until there are TasksEvery.       *)
Full == Cardinality(In(batch)) >= TasksEvery
FillStarts ==
    /\ reader = "idle" /\ fills < MaxFills
    /\ reader' = "fill" /\ next' = 1 /\ fills' = fills + 1
    /\ UNCHANGED <<transcript, stat, seen, pending, fleet, viewer, failures>>
FillParse ==
    /\ reader = "fill" /\ ~Full /\ next <= written
    /\ Parse(next)
    /\ UNCHANGED <<transcript, reader, stat, seen, fills, fleet, viewer, failures>>
FillEOF ==
    /\ reader = "fill" /\ ~Full /\ next > written
    /\ reader' = "last"
    /\ UNCHANGED <<transcript, next, stat, seen, fills, pending, fleet, viewer, failures>>
FillWrite ==
    /\ (reader = "fill" /\ Full) \/ reader = "last"
    /\ InsertAgentTaskBatch
    /\ reader' = IF reader = "last" THEN "idle" ELSE "fill"
    /\ UNCHANGED <<transcript, next, stat, seen, fills, asking>>

Reader ==
    \/ PollStat \/ PollParse \/ PollWrite \/ PollEnd
    \/ FillParse \/ FillEOF \/ FillWrite

----------------------------------------------------------------------------
(* GetAgentFleetSummary and GetAntigravityProjectStats: one statement      *)
(* sweeps, and later ones count.  Several such requests may run; one more  *)
(* sweep takes nothing from what is said of this one.                      *)

Ghost_Mutant(c) == fleet[c].status = "RUNNING" /\ fleet[c].age < SweepAge
Ghost(c) == fleet[c].status = "RUNNING" /\ fleet[c].age > SweepAge
Sweep ==
    /\ ~asking /\ asking' = TRUE
    /\ \/ /\ fleet' = [c \in Calls |-> IF Ghost(c) THEN [fleet[c] EXCEPT !.status = "COMPLETED"]
                                       ELSE fleet[c]]
          /\ tidy' = TRUE
          /\ UNCHANGED failures
       \/ /\ failures < MaxFailures /\ failures' = failures + 1
          /\ tidy' = FALSE
          /\ UNCHANGED fleet
    /\ UNCHANGED <<transcript, tailer, pending>>

(* What the graph and the Gantt chart, which do not sweep, show as running,*)
(* and what the summary calls active.                                      *)
Running == {c \in Calls : fleet[c].status = "RUNNING"}
Active_Mutant == {c \in Running : fleet[c].age <= Recent}
Active == {c \in Running : fleet[c].age <= SweepAge}
(* The leaderboard subtracts started_at from now itself, which may be part *)
(* of a second later than the now of SQL.                                  *)
BoardActive(part) ==
    {c \in Running : fleet[c].age < SweepAge \/ (fleet[c].age = SweepAge /\ ~part)}
Completed == {c \in Calls : fleet[c].status = "COMPLETED"}
Count ==
    /\ asking /\ asking' = FALSE
    /\ tidy' = FALSE
    /\ UNCHANGED <<transcript, tailer, pending, fleet, failures>>

Next == Append \/ Tick \/ Reader \/ FillStarts \/ Sweep \/ Count

Spec == Init /\ [][Next]_vars
(* Time passes, whoever reads goes on, and somebody looks at the page.     *)
FairSpec ==
    /\ Spec
    /\ WF_vars(Tick) /\ WF_vars(Reader) /\ WF_vars(Sweep \/ Count)

----------------------------------------------------------------------------
TypeOK ==
    /\ written \in 0 .. NumSteps /\ age \in [Steps -> 0 .. Oldest]
    /\ reader \in {"idle", "poll", "fill", "last"}
    /\ next \in 1 .. NumSteps + 1 /\ stat \in 0 .. NumSteps /\ seen \in 0 .. NumSteps
    /\ batch \in [Calls -> Row] /\ held \in [Calls -> 0 .. Oldest]
    /\ fleet \in [Calls -> Row]
    /\ asking \in BOOLEAN /\ tidy \in BOOLEAN
    /\ fills \in 0 .. MaxFills /\ failures \in 0 .. MaxFailures

(* However parsing, writing, re-reading and sweeping interleave: the last  *)
(* call of a step, the only one that is ever said to run, is not said to be*)
(* completed, neither in its first row nor later, before that row is Recent*)
(* old; and a completed one runs again only if it has no date, or if a     *)
(* backfill that read it while it was recent held its row for longer than  *)
(* the sweep waits.  Calls that another one of their step followed are     *)
(* written as completed at any age, and stay so.                           *)
StatusIsEarned ==
    [][\A c \in Calls :
        /\ Last(c) /\ fleet[c].status # "COMPLETED" /\ fleet'[c].status = "COMPLETED"
             => fleet'[c].age >= Recent
        /\ fleet'[c].status = "RUNNING" => Last(c)
        /\ fleet[c].status = "COMPLETED" /\ fleet'[c].status = "RUNNING"
             => c[1] \in Undated \/ held[c] > SweepAge - Recent]_vars

(* The views agree: when a request is answered, what the summary calls     *)
(* active is what the graph shows as running, and everything else is       *)
(* completed - unless its sweep failed, time has passed since, or a late   *)
(* row came in.  The leaderboard differs from them in its last second only:*)
(* a call that SQL finds exactly SweepAge old is over for it as soon as now*)
(* is a fraction past the second.                                          *)
AnswerAgrees ==
    [][Count /\ tidy =>
        /\ Active = Running /\ In(fleet) = Active \cup Completed
        /\ \A part \in BOOLEAN : \A c \in Running \ BoardActive(part) :
             part /\ fleet[c].age = SweepAge]_vars

(* With somebody looking, no call runs for ever.                           *)
GhostsEnd == <>[](Running = {})
============================================================================
