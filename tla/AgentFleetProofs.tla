-------------------------- MODULE AgentFleetProofs -------------------------
(***************************************************************************)
(* For any transcript, any ages of its steps and any thresholds with       *)
(* Recent <= SweepAge: the types of AgentFleet, that the status of a call  *)
(* is earned (StatusIsEarned), and that the views agree (AnswerAgrees).    *)
(*                                                                         *)
(* The ages in the table and in the pending rows of a dated step are that  *)
(* of the step itself (Ages); from this, a completed row is Recent old     *)
(* (Earned), and a pending row that runs while its call is completed in the*)
(* table has been overtaken by a sweep (Overtaken).                        *)
(***************************************************************************)
EXTENDS AgentFleet, TLAPS

Dated(c) == c[1] \notin Undated

(* The age of a row is that of its step.                                   *)
AgesOf(table) ==
    \A c \in Calls : table[c].status # "NONE" /\ Dated(c) =>
        c[1] <= written /\ table[c].age = age[c[1]]
Ages == AgesOf(fleet) /\ AgesOf(batch)

(* Only the last call of a step is ever RUNNING.                           *)
OnlyLast ==
    \A c \in Calls : fleet[c].status = "RUNNING" \/ batch[c].status = "RUNNING" => Last(c)

(* The last call of a step is COMPLETED when it is Recent old.             *)
Earned ==
    \A c \in Calls : Last(c) =>
        /\ fleet[c].status = "COMPLETED" /\ Dated(c) => fleet[c].age >= Recent
        /\ batch[c].status = "COMPLETED" => Dated(c) /\ batch[c].age >= Recent

(* A pending row that runs was recent when it was parsed; if its call is   *)
(* completed in the table, that was the sweep.                             *)
Overtaken ==
    \A c \in Calls : batch[c].status = "RUNNING" /\ Dated(c) =>
        /\ batch[c].age < Recent + held[c]
        /\ fleet[c].status = "COMPLETED" => batch[c].age > SweepAge

Statuses == Ages /\ OnlyLast /\ Earned /\ Overtaken

(* After a sweep no row is beyond its age until time passes.               *)
Swept == tidy => \A c \in Calls : fleet[c].status = "RUNNING" => fleet[c].age <= SweepAge
----------------------------------------------------------------------------
LEMMA CallsAreCalls == \A c \in Calls : c[1] \in Steps
BY DEF Calls

(* A row, its parts, and what time does to it.                             *)
LEMMA RowsAreRows ==
    /\ NoRow \in Row /\ NoRow.status = "NONE"
    /\ \A r \in Row : /\ r.age \in - Zone .. Oldest
                      /\ r.status \in {"NONE", "RUNNING", "COMPLETED"}
                      /\ [r EXCEPT !.age = Older(@)] \in Row
                      /\ [r EXCEPT !.age = Older(@)].status = r.status
                      /\ [r EXCEPT !.age = Older(@)].age = Older(r.age)
                      /\ [r EXCEPT !.status = "COMPLETED"] \in Row
                      /\ [r EXCEPT !.status = "COMPLETED"].status = "COMPLETED"
                      /\ [r EXCEPT !.status = "COMPLETED"].age = r.age
<1>1. 0 \in - Zone .. Oldest /\ \A a \in - Zone .. Oldest : Older(a) \in - Zone .. Oldest
  BY FleetAssumption DEF Oldest, Older
<1>2. NoRow \in Row /\ NoRow.status = "NONE"
  BY <1>1 DEF NoRow, Row
<1>3. ASSUME NEW r \in Row
      PROVE  /\ r.age \in - Zone .. Oldest
             /\ r.status \in {"NONE", "RUNNING", "COMPLETED"}
             /\ [r EXCEPT !.age = Older(@)] \in Row
             /\ [r EXCEPT !.age = Older(@)].status = r.status
             /\ [r EXCEPT !.age = Older(@)].age = Older(r.age)
  BY <1>1 DEF Row
<1>4. ASSUME NEW r \in Row
      PROVE  /\ [r EXCEPT !.status = "COMPLETED"] \in Row
             /\ [r EXCEPT !.status = "COMPLETED"].status = "COMPLETED"
             /\ [r EXCEPT !.status = "COMPLETED"].age = r.age
  BY DEF Row
<1> QED BY <1>2, <1>3, <1>4

LEMMA TaskIsRow ==
    ASSUME TypeOK, NEW c \in Calls
    PROVE  /\ Task(c) \in Row /\ Task(c).status # "NONE"
           /\ Task(c).status = "RUNNING" => Last(c)
           /\ Dated(c) => Task(c).age = age[c[1]]
           /\ Dated(c) /\ Task(c).status = "RUNNING" => age[c[1]] < Recent
           /\ Last(c) /\ Task(c).status = "COMPLETED" => Dated(c) /\ age[c[1]] >= Recent
<1>1. age[c[1]] \in 0 .. Oldest
  BY CallsAreCalls DEF TypeOK
<1>2. - Zone \in - Zone .. Oldest /\ age[c[1]] \in - Zone .. Oldest
  BY <1>1, FleetAssumption DEF Oldest
<1>3. Task(c).status = (IF IsRecent(c[1]) /\ Last(c) THEN "RUNNING" ELSE "COMPLETED")
      /\ Task(c).age = (IF c[1] \in Undated THEN - Zone ELSE age[c[1]])
  BY DEF Task
<1>4. Task(c) \in Row
  BY <1>2 DEF Task, Row
<1>5. ~(age[c[1]] < Recent) => age[c[1]] >= Recent
  BY <1>1, FleetAssumption DEF Oldest
<1> QED BY <1>3, <1>4, <1>5 DEF IsRecent, Dated

(* The three ways in which the rows change.                                *)
LEMMA TickTypes ==
    ASSUME TypeOK, Tick
    PROVE  /\ batch' \in [Calls -> Row] /\ fleet' \in [Calls -> Row]
           /\ age' \in [Steps -> 0 .. Oldest] /\ held' \in [Calls -> 0 .. Oldest]
           /\ \A c \in Calls :
                /\ fleet'[c].status = fleet[c].status
                /\ batch'[c].status = batch[c].status
                /\ fleet[c].status # "NONE" => fleet'[c].age = Older(fleet[c].age)
                /\ batch[c].status # "NONE" => batch'[c].age = Older(batch[c].age)
                                               /\ held'[c] = Older(held[c])
<1>1. \A a \in 0 .. Oldest : Older(a) \in 0 .. Oldest
  BY FleetAssumption DEF Older, Oldest
<1>2. ASSUME NEW table \in [Calls -> Row]
      PROVE  /\ Aged(table) \in [Calls -> Row]
             /\ \A c \in Calls :
                  /\ Aged(table)[c].status = table[c].status
                  /\ table[c].status # "NONE" => Aged(table)[c].age = Older(table[c].age)
  <2>1. ASSUME NEW c \in Calls
        PROVE  /\ Aged(table)[c] \in Row
               /\ Aged(table)[c].status = table[c].status
               /\ table[c].status # "NONE" => Aged(table)[c].age = Older(table[c].age)
    <3>1. Aged(table)[c] = IF table[c].status = "NONE" THEN NoRow
                           ELSE [table[c] EXCEPT !.age = Older(@)]
      BY DEF Aged
    <3>2. table[c] \in Row OBVIOUS
    <3> QED BY <3>1, <3>2, RowsAreRows
  <2> QED BY <2>1 DEF Aged
<1>3. batch' = Aged(batch) /\ fleet' = Aged(fleet)
      /\ batch \in [Calls -> Row] /\ fleet \in [Calls -> Row]
  BY DEF Tick, TypeOK
<1>4. age' \in [Steps -> 0 .. Oldest]
  BY <1>1 DEF Tick, TypeOK
<1>5. held' \in [Calls -> 0 .. Oldest]
      /\ \A c \in Calls : batch[c].status # "NONE" => held'[c] = Older(held[c])
  <2>1. 0 \in 0 .. Oldest BY FleetAssumption DEF Oldest
  <2> QED BY <1>1, <2>1 DEF Tick, TypeOK
<1> QED BY <1>2, <1>3, <1>4, <1>5

LEMMA ParseTypes ==
    ASSUME TypeOK, NEW s \in Steps, Parse(s)
    PROVE  /\ batch' \in [Calls -> Row] /\ held' \in [Calls -> 0 .. Oldest]
           /\ next' \in 1 .. NumSteps + 1
           /\ \A c \in Calls :
                \/ c[1] = s /\ batch'[c] = Task(c) /\ held'[c] = 0
                \/ c[1] # s /\ batch'[c] = batch[c] /\ held'[c] = held[c]
<1>1. next' \in 1 .. NumSteps + 1
  BY FleetAssumption DEF Parse, Steps
<1>2. 0 \in 0 .. Oldest BY FleetAssumption DEF Oldest
<1>3. batch' \in [Calls -> Row] BY TaskIsRow DEF Parse, TypeOK
<1>4. held' \in [Calls -> 0 .. Oldest] BY <1>2 DEF Parse, TypeOK
<1> QED BY <1>1, <1>3, <1>4 DEF Parse

LEMMA InsertTypes ==
    ASSUME TypeOK, InsertAgentTaskBatch
    PROVE  /\ batch' \in [Calls -> Row] /\ held' \in [Calls -> 0 .. Oldest]
           /\ fleet' \in [Calls -> Row]
           /\ tidy' \in BOOLEAN /\ failures' \in 0 .. MaxFailures
           /\ \A c \in Calls :
                /\ batch'[c].status = "NONE"
                /\ \/ fleet'[c] = fleet[c]
                   \/ /\ batch[c].status # "NONE" /\ fleet'[c] = batch[c]
                      /\ tidy' => (batch[c].status = "RUNNING" => batch[c].age <= SweepAge)
           /\ tidy' => tidy
<1>1. 0 \in 0 .. Oldest BY FleetAssumption DEF Oldest
<1>2. batch' \in [Calls -> Row] /\ \A c \in Calls : batch'[c].status = "NONE"
  BY RowsAreRows DEF InsertAgentTaskBatch, NoRows
<1>3. held' \in [Calls -> 0 .. Oldest] BY <1>1 DEF InsertAgentTaskBatch
<1>4. failures' \in 0 .. MaxFailures
  BY FleetAssumption DEF InsertAgentTaskBatch, TypeOK
<1>5. fleet' \in [Calls -> Row] BY DEF InsertAgentTaskBatch, TypeOK
<1>6. tidy' \in BOOLEAN /\ (tidy' => tidy)
  <2> DEFINE InTime == \A c \in Calls :
                         batch[c].status = "RUNNING" => batch[c].age <= SweepAge
  <2>1. tidy \in BOOLEAN BY DEF TypeOK
  <2>2. tidy' = tidy \/ tidy' = (tidy /\ InTime) BY DEF InsertAgentTaskBatch
  <2> HIDE DEF InTime
  <2>3. CASE tidy' = tidy BY <2>1, <2>3
  <2>4. CASE tidy' = (tidy /\ InTime) BY <2>4, Zenon
  <2> QED BY <2>2, <2>3, <2>4
<1>7. ASSUME NEW c \in Calls
      PROVE  \/ fleet'[c] = fleet[c]
             \/ /\ batch[c].status # "NONE" /\ fleet'[c] = batch[c]
                /\ tidy' => (batch[c].status = "RUNNING" => batch[c].age <= SweepAge)
  <2>1. CASE UNCHANGED <<fleet, tidy>> BY <2>1
  <2>2. CASE /\ fleet' = [d \in Calls |-> IF d \in In(batch) THEN batch[d] ELSE fleet[d]]
             /\ tidy' = (tidy /\ \A d \in Calls :
                            batch[d].status = "RUNNING" => batch[d].age <= SweepAge)
    <3>1. fleet'[c] = (IF c \in In(batch) THEN batch[c] ELSE fleet[c]) BY <2>2
    <3>2. tidy' => (batch[c].status = "RUNNING" => batch[c].age <= SweepAge)
      BY <2>2, Zenon
    <3> QED BY <3>1, <3>2 DEF In
  <2> QED BY <2>1, <2>2 DEF InsertAgentTaskBatch
<1> QED BY <1>2, <1>3, <1>4, <1>5, <1>6, <1>7

LEMMA SweepTypes ==
    ASSUME TypeOK, Sweep
    PROVE  /\ fleet' \in [Calls -> Row] /\ failures' \in 0 .. MaxFailures
           /\ asking' \in BOOLEAN /\ tidy' \in BOOLEAN
           /\ \A c \in Calls :
                \/ /\ fleet'[c] = fleet[c]
                   /\ tidy' => (fleet[c].status = "RUNNING" => fleet[c].age <= SweepAge)
                \/ /\ fleet[c].status = "RUNNING" /\ fleet[c].age > SweepAge
                   /\ fleet'[c].status = "COMPLETED" /\ fleet'[c].age = fleet[c].age
<1>1. failures' \in 0 .. MaxFailures BY FleetAssumption DEF Sweep, TypeOK
<1>2. asking' \in BOOLEAN /\ tidy' \in BOOLEAN BY DEF Sweep
<1>3. fleet' \in [Calls -> Row]
  <2>1. \A c \in Calls : fleet[c] \in Row /\ [fleet[c] EXCEPT !.status = "COMPLETED"] \in Row
    BY RowsAreRows DEF TypeOK
  <2> QED BY <2>1 DEF Sweep, TypeOK
<1>4. ASSUME NEW c \in Calls
      PROVE  \/ /\ fleet'[c] = fleet[c]
                /\ tidy' => (fleet[c].status = "RUNNING" => fleet[c].age <= SweepAge)
             \/ /\ fleet[c].status = "RUNNING" /\ fleet[c].age > SweepAge
                /\ fleet'[c].status = "COMPLETED" /\ fleet'[c].age = fleet[c].age
  <2>1. fleet[c] \in Row BY DEF TypeOK
  <2>2. CASE fleet' = fleet /\ ~tidy' BY <2>2
  <2>3. CASE fleet' = [d \in Calls |-> IF Ghost(d) THEN [fleet[d] EXCEPT !.status = "COMPLETED"]
                                       ELSE fleet[d]]
    <3>1. CASE Ghost(c) BY <2>1, <2>3, <3>1, RowsAreRows DEF Ghost
    <3>2. CASE ~Ghost(c)
      <4>1. fleet'[c] = fleet[c] BY <2>3, <3>2
      <4>2. fleet[c].status = "RUNNING" => fleet[c].age <= SweepAge
        <5>1. fleet[c].age \in Int BY <2>1, FleetAssumption DEF Row, Oldest
        <5> QED BY <3>2, <5>1, FleetAssumption DEF Ghost
      <4> QED BY <4>1, <4>2
    <3> QED BY <3>1, <3>2
  <2> QED BY <2>2, <2>3 DEF Sweep
<1> QED BY <1>1, <1>2, <1>3, <1>4
----------------------------------------------------------------------------
LEMMA InitTypes == Init => TypeOK
<1>1. 0 \in 0 .. Oldest BY FleetAssumption DEF Oldest
<1>2. NoRows \in [Calls -> Row] BY RowsAreRows DEF NoRows
<1> SUFFICES ASSUME Init PROVE TypeOK OBVIOUS
<1>3. /\ written \in 0 .. NumSteps /\ age \in [Steps -> 0 .. Oldest]
      /\ next \in 1 .. NumSteps + 1 /\ stat \in 0 .. NumSteps /\ seen \in 0 .. NumSteps
      /\ held \in [Calls -> 0 .. Oldest]
      /\ fills \in 0 .. MaxFills /\ failures \in 0 .. MaxFailures
  BY <1>1, FleetAssumption DEF Init
<1>4. reader \in {"idle", "poll", "fill", "last"}
      /\ batch \in [Calls -> Row] /\ fleet \in [Calls -> Row]
      /\ asking \in BOOLEAN /\ tidy \in BOOLEAN
  BY <1>2 DEF Init
<1> QED BY <1>3, <1>4 DEF TypeOK

LEMMA TypesStay == TypeOK /\ [Next]_vars => TypeOK'
<1> SUFFICES ASSUME TypeOK, [Next]_vars PROVE TypeOK' OBVIOUS
<1> USE DEF transcript, tailer, pending, viewer
<1>1. CASE Append
  <2>1. written' \in 0 .. NumSteps BY <1>1, FleetAssumption DEF Append, TypeOK
  <2>2. age' \in [Steps -> 0 .. Oldest] BY <1>1 DEF Append, TypeOK
  <2> QED BY <1>1, <2>1, <2>2 DEF Append, TypeOK
<1>2. CASE Tick
  BY <1>2, TickTypes DEF Tick, TypeOK
<1>3. CASE PollStat
  BY <1>3, FleetAssumption DEF PollStat, TypeOK
<1>4. CASE PollParse
  <2>1. next \in Steps BY <1>4, FleetAssumption DEF PollParse, TypeOK, Steps
  <2>2. Parse(next) BY <1>4 DEF PollParse
  <2> QED BY <1>4, <2>1, <2>2, ParseTypes DEF PollParse, TypeOK
<1>5. CASE PollWrite
  BY <1>5, InsertTypes DEF PollWrite, TypeOK
<1>6. CASE PollEnd
  BY <1>6 DEF PollEnd, TypeOK
<1>7. CASE FillStarts
  BY <1>7, FleetAssumption DEF FillStarts, TypeOK
<1>8. CASE FillParse
  <2>1. next \in Steps BY <1>8, FleetAssumption DEF FillParse, TypeOK, Steps
  <2>2. Parse(next) BY <1>8 DEF FillParse
  <2> QED BY <1>8, <2>1, <2>2, ParseTypes DEF FillParse, TypeOK
<1>9. CASE FillEOF
  BY <1>9 DEF FillEOF, TypeOK
<1>10. CASE FillWrite
  <2>1. reader' \in {"idle", "poll", "fill", "last"} BY <1>10 DEF FillWrite
  <2> QED BY <1>10, <2>1, InsertTypes DEF FillWrite, TypeOK
<1>11. CASE Sweep
  BY <1>11, SweepTypes DEF Sweep, TypeOK
<1>12. CASE Count
  BY <1>12 DEF Count, TypeOK
<1>13. CASE UNCHANGED vars
  BY <1>13 DEF vars, TypeOK
<1> QED BY <1>1, <1>2, <1>3, <1>4, <1>5, <1>6, <1>7, <1>8, <1>9, <1>10, <1>11,
           <1>12, <1>13 DEF Next, Reader

(* TypeOK holds in every reachable state: no row is without a status or an *)
(* age, and no position is beyond the transcript.                          *)
THEOREM TypeCorrect == Spec => []TypeOK
BY InitTypes, TypesStay, PTL DEF Spec
----------------------------------------------------------------------------
LEMMA InitStatuses == Init => Statuses /\ Swept
<1> SUFFICES ASSUME Init PROVE Statuses /\ Swept OBVIOUS
<1>1. \A c \in Calls : fleet[c].status = "NONE" /\ batch[c].status = "NONE"
  BY RowsAreRows DEF Init, NoRows
<1>2. tidy = FALSE BY DEF Init
<1> QED BY <1>1, <1>2 DEF Statuses, Ages, AgesOf, OnlyLast, Earned, Overtaken, Swept

(* A step that leaves the transcript and the rows alone.                   *)
LEMMA StatusesFrame ==
    Statuses /\ UNCHANGED <<written, age, batch, held, fleet>> => Statuses'
BY DEF Statuses, Ages, AgesOf, OnlyLast, Earned, Overtaken, Dated, Last

LEMMA AppendStatuses == TypeOK /\ Statuses /\ Append => Statuses'
<1> SUFFICES ASSUME TypeOK, Statuses, Append PROVE Statuses' OBVIOUS
<1>1. batch' = batch /\ fleet' = fleet /\ held' = held
  BY DEF Append, pending
<1>2. ASSUME NEW s \in Steps, s <= written PROVE s <= written' /\ age'[s] = age[s]
  BY <1>2 DEF Append, TypeOK, Steps
<1>3. Ages'
  BY <1>1, <1>2, CallsAreCalls DEF Statuses, Ages, AgesOf, Dated
<1>4. OnlyLast' /\ Earned' /\ Overtaken'
  BY <1>1 DEF Statuses, OnlyLast, Earned, Overtaken, Dated, Last
<1> QED BY <1>3, <1>4 DEF Statuses

LEMMA TickStatuses == TypeOK /\ Statuses /\ Tick => Statuses'
<1> SUFFICES ASSUME TypeOK, Statuses, Tick PROVE Statuses' OBVIOUS
<1>1. \A a, b \in Int : /\ a <= Older(a)
                        /\ a < Recent + b /\ a <= Oldest /\ b <= Oldest
                             => Older(a) < Recent + Older(b)
  BY FleetAssumption DEF Older, Oldest
<1>2. written' = written BY DEF Tick
<1>3. \A s \in Steps : s <= written => age'[s] = Older(age[s])
  BY DEF Tick
<1>4. ASSUME NEW c \in Calls
      PROVE  /\ fleet[c].age \in Int /\ batch[c].age \in Int /\ held[c] \in Int
             /\ batch[c].age <= Oldest /\ held[c] <= Oldest
             /\ fleet'[c].status = fleet[c].status
             /\ batch'[c].status = batch[c].status
             /\ fleet[c].status # "NONE" => fleet'[c].age = Older(fleet[c].age)
             /\ batch[c].status # "NONE" => batch'[c].age = Older(batch[c].age)
                                            /\ held'[c] = Older(held[c])
  <2>1. fleet[c] \in Row /\ batch[c] \in Row /\ held[c] \in 0 .. Oldest BY DEF TypeOK
  <2>2. fleet[c].age \in - Zone .. Oldest /\ batch[c].age \in - Zone .. Oldest
    BY <2>1, RowsAreRows
  <2>3. /\ fleet[c].age \in Int /\ batch[c].age \in Int /\ held[c] \in Int
        /\ batch[c].age <= Oldest /\ held[c] <= Oldest
    BY <2>1, <2>2, FleetAssumption DEF Oldest
  <2> QED BY <2>3, TickTypes
<1>5. Ages'
  BY <1>2, <1>3, <1>4, CallsAreCalls DEF Statuses, Ages, AgesOf, Dated
<1>6. OnlyLast' BY <1>4 DEF Statuses, OnlyLast, Last
<1>7. ASSUME NEW a \in Int, NEW b \in Nat, a >= b PROVE Older(a) >= b
  BY <1>7 DEF Older
<1>8. Earned'
  <2> SUFFICES ASSUME NEW c \in Calls, Last(c)
               PROVE  /\ fleet'[c].status = "COMPLETED" /\ Dated(c) => fleet'[c].age >= Recent
                      /\ batch'[c].status = "COMPLETED" => Dated(c) /\ batch'[c].age >= Recent
    BY DEF Earned, Dated, Last
  <2>1. fleet[c].status = "COMPLETED" /\ Dated(c) => fleet[c].age >= Recent
    BY DEF Statuses, Earned
  <2>2. batch[c].status = "COMPLETED" => Dated(c) /\ batch[c].age >= Recent
    BY DEF Statuses, Earned
  <2> QED BY <2>1, <2>2, <1>4, <1>7, FleetAssumption
<1>9. Overtaken'
  <2> SUFFICES ASSUME NEW c \in Calls, batch[c].status = "RUNNING", Dated(c)
               PROVE  /\ batch'[c].age < Recent + held'[c]
                      /\ fleet[c].status = "COMPLETED" => batch'[c].age > SweepAge
    BY <1>4 DEF Overtaken, Dated
  <2>1. batch[c].age < Recent + held[c]
    BY DEF Statuses, Overtaken
  <2>2. fleet[c].status = "COMPLETED" => batch[c].age > SweepAge
    BY DEF Statuses, Overtaken
  <2>3. batch'[c].age = Older(batch[c].age) /\ held'[c] = Older(held[c])
    BY <1>4
  <2>4. batch'[c].age < Recent + held'[c]
    BY <1>1, <1>4, <2>1, <2>3
  <2>5. batch[c].age > SweepAge => Older(batch[c].age) > SweepAge
    BY <1>1, <1>4, FleetAssumption DEF Older
  <2> QED BY <2>2, <2>3, <2>4, <2>5
<1> QED BY <1>5, <1>6, <1>8, <1>9 DEF Statuses

(* A call that is RUNNING when it is parsed and COMPLETED in the table     *)
(* would be both younger and older than Recent.                            *)
LEMMA ParseStatuses ==
    ASSUME TypeOK, Statuses, NEW s \in Steps, s <= written, Parse(s),
           UNCHANGED <<written, age, fleet>>
    PROVE  Statuses'
<1>1. \A c \in Calls : \/ c[1] = s /\ batch'[c] = Task(c) /\ held'[c] = 0
                       \/ batch'[c] = batch[c] /\ held'[c] = held[c]
  BY ParseTypes
<1>2. Ages'
  BY <1>1, TaskIsRow DEF Statuses, Ages, AgesOf, Dated
<1>3. OnlyLast'
  BY <1>1, TaskIsRow DEF Statuses, OnlyLast, Last
<1>4. Earned'
  BY <1>1, TaskIsRow DEF Statuses, Earned, Last, Dated
<1>5. ASSUME NEW c \in Calls, batch'[c].status = "RUNNING", Dated(c)
      PROVE  /\ batch'[c].age < Recent + held'[c]
             /\ fleet[c].status = "COMPLETED" => batch'[c].age > SweepAge
  <2>1. CASE batch'[c] = batch[c] /\ held'[c] = held[c]
    BY <1>5, <2>1 DEF Statuses, Overtaken
  <2>2. CASE c[1] = s /\ batch'[c] = Task(c) /\ held'[c] = 0
    <3>1. age[c[1]] \in Int BY CallsAreCalls, FleetAssumption DEF TypeOK, Oldest
    <3>2. Last(c) /\ batch'[c].age = age[c[1]] /\ age[c[1]] < Recent
      BY <1>5, <2>2, TaskIsRow
    <3>3. fleet[c].status = "COMPLETED" => fleet[c].age = age[c[1]] /\ fleet[c].age >= Recent
      BY <1>5, <3>2 DEF Statuses, Ages, AgesOf, Earned
    <3> QED BY <2>2, <3>1, <3>2, <3>3, FleetAssumption
  <2> QED BY <1>1, <2>1, <2>2
<1>6. Overtaken' BY <1>5 DEF Overtaken, Dated
<1> QED BY <1>2, <1>3, <1>4, <1>6 DEF Statuses

LEMMA InsertStatuses ==
    ASSUME TypeOK, Statuses, InsertAgentTaskBatch, UNCHANGED <<written, age>>
    PROVE  Statuses'
<1>1. \A c \in Calls :
        /\ batch'[c].status = "NONE"
        /\ fleet'[c] = fleet[c] \/ (batch[c].status # "NONE" /\ fleet'[c] = batch[c])
  BY InsertTypes
<1>2. Ages' BY <1>1 DEF Statuses, Ages, AgesOf, Dated
<1>3. OnlyLast' BY <1>1 DEF Statuses, OnlyLast, Last
<1>4. Earned' BY <1>1 DEF Statuses, Earned, Last, Dated
<1>5. Overtaken' BY <1>1 DEF Overtaken
<1> QED BY <1>2, <1>3, <1>4, <1>5 DEF Statuses

LEMMA SweepStatuses == TypeOK /\ Statuses /\ Sweep => Statuses'
<1> SUFFICES ASSUME TypeOK, Statuses, Sweep PROVE Statuses' OBVIOUS
<1>1. UNCHANGED <<written, age, batch, held>>
  BY DEF Sweep, transcript, pending
<1>2. \A c \in Calls :
        \/ fleet'[c] = fleet[c]
        \/ /\ fleet[c].status = "RUNNING" /\ fleet[c].age > SweepAge
           /\ fleet'[c].status = "COMPLETED" /\ fleet'[c].age = fleet[c].age
  BY SweepTypes
<1>3. \A c \in Calls : fleet[c].age \in Int
  BY RowsAreRows, FleetAssumption DEF TypeOK, Row, Oldest
<1>4. Ages' BY <1>1, <1>2 DEF Statuses, Ages, AgesOf, Dated
<1>5. OnlyLast' BY <1>1, <1>2 DEF Statuses, OnlyLast, Last
<1>6. Earned'
  BY <1>1, <1>2, <1>3, FleetAssumption DEF Statuses, Earned, Last, Dated
<1>7. Overtaken'
  BY <1>1, <1>2 DEF Statuses, Ages, AgesOf, Overtaken, Dated
<1> QED BY <1>4, <1>5, <1>6, <1>7 DEF Statuses
----------------------------------------------------------------------------
(* What a step is, for the rows.                                           *)
LEMMA KindsOfStep ==
    ASSUME TypeOK, [Next]_vars
    PROVE  \/ Append /\ UNCHANGED <<fleet, tidy>>
           \/ Tick
           \/ /\ \E s \in Steps : s <= written /\ Parse(s)
              /\ UNCHANGED <<written, age, fleet, tidy>>
           \/ InsertAgentTaskBatch /\ UNCHANGED <<written, age>>
           \/ Sweep
           \/ /\ UNCHANGED <<written, age, batch, held, fleet>>
              /\ tidy' = tidy \/ tidy' = FALSE
<1> USE DEF transcript, tailer, pending, viewer
<1>1. CASE Append BY <1>1 DEF Append
<1>2. CASE PollParse \/ FillParse
  <2>1. next \in Steps /\ next <= written
    BY <1>2, FleetAssumption DEF PollParse, FillParse, TypeOK, Steps
  <2> QED BY <1>2, <2>1 DEF PollParse, FillParse
<1>3. CASE PollWrite \/ FillWrite BY <1>3 DEF PollWrite, FillWrite
<1>4. CASE PollStat \/ PollEnd \/ FillStarts \/ FillEOF \/ Count
  BY <1>4 DEF PollStat, PollEnd, FillStarts, FillEOF, Count
<1>5. CASE UNCHANGED vars BY <1>5 DEF vars
<1> QED BY <1>1, <1>2, <1>3, <1>4, <1>5 DEF Next, Reader

LEMMA StatusesStay == TypeOK /\ Statuses /\ [Next]_vars => Statuses'
<1> SUFFICES ASSUME TypeOK, Statuses, [Next]_vars PROVE Statuses' OBVIOUS
<1> QED BY KindsOfStep, AppendStatuses, TickStatuses, ParseStatuses, InsertStatuses,
           SweepStatuses, StatusesFrame

LEMMA SweptStays == TypeOK /\ Swept /\ [Next]_vars => Swept'
<1> SUFFICES ASSUME TypeOK, Swept, [Next]_vars PROVE Swept' OBVIOUS
<1>1. CASE UNCHANGED fleet /\ (tidy' = tidy \/ tidy' = FALSE)
  BY <1>1 DEF Swept
<1>2. CASE Tick BY <1>2 DEF Tick, Swept
<1>3. CASE InsertAgentTaskBatch BY <1>3, InsertTypes DEF Swept
<1>4. CASE Sweep BY <1>4, SweepTypes DEF Swept
<1> QED BY <1>1, <1>2, <1>3, <1>4, KindsOfStep

(* The status of a call follows from time alone: whatever the readers,     *)
(* the sweep and the failing database do, the last call of a step is not   *)
(* written or made completed before its row is Recent old, no other call   *)
(* ever runs, and a completed one runs again only undated or from a row    *)
(* held too long.                                                          *)
THEOREM StatusFollowsTime == Spec => StatusIsEarned
<1>1. TypeOK /\ Statuses /\ Statuses' /\ [Next]_vars =>
        [\A c \in Calls :
          /\ Last(c) /\ fleet[c].status # "COMPLETED" /\ fleet'[c].status = "COMPLETED"
               => fleet'[c].age >= Recent
          /\ fleet'[c].status = "RUNNING" => Last(c)
          /\ fleet[c].status = "COMPLETED" /\ fleet'[c].status = "RUNNING"
               => c[1] \in Undated \/ held[c] > SweepAge - Recent]_vars
  <2> SUFFICES ASSUME TypeOK, Statuses, Statuses', [Next]_vars, NEW c \in Calls
               PROVE  /\ Last(c) /\ fleet[c].status # "COMPLETED" /\ fleet'[c].status = "COMPLETED"
                           => fleet'[c].age >= Recent
                      /\ fleet'[c].status = "RUNNING" => Last(c)
                      /\ fleet[c].status = "COMPLETED" /\ fleet'[c].status = "RUNNING"
                           => c[1] \in Undated \/ held[c] > SweepAge - Recent
    OBVIOUS
  <2>1. fleet[c].age \in Int /\ batch[c].age \in Int /\ held[c] \in Int
    BY RowsAreRows, FleetAssumption DEF TypeOK, Row, Oldest
  <2>2. fleet'[c].status = "RUNNING" => Last(c)
    BY DEF Statuses, OnlyLast, Last
  <2>3. \/ fleet'[c].status = fleet[c].status
        \/ batch[c].status # "NONE" /\ fleet'[c] = batch[c]
        \/ /\ fleet[c].status = "RUNNING" /\ fleet[c].age > SweepAge
           /\ fleet'[c].status = "COMPLETED" /\ fleet'[c].age = fleet[c].age
    BY KindsOfStep, TickTypes, InsertTypes, SweepTypes
  <2>4. ASSUME Last(c), fleet[c].status # "COMPLETED", fleet'[c].status = "COMPLETED"
        PROVE  fleet'[c].age >= Recent
    <3>1. CASE batch[c].status # "NONE" /\ fleet'[c] = batch[c]
      BY <2>4, <3>1 DEF Statuses, Earned
    <3>2. CASE fleet[c].age > SweepAge /\ fleet'[c].age = fleet[c].age
      BY <2>1, <3>2, FleetAssumption
    <3> QED BY <2>3, <2>4, <3>1, <3>2
  <2>5. ASSUME fleet[c].status = "COMPLETED", fleet'[c].status = "RUNNING", Dated(c)
        PROVE  held[c] > SweepAge - Recent
    <3>1. batch[c].status = "RUNNING" BY <2>3, <2>5
    <3>2. batch[c].age < Recent + held[c] /\ batch[c].age > SweepAge
      BY <2>5, <3>1 DEF Statuses, Overtaken
    <3> QED BY <2>1, <3>2, FleetAssumption
  <2> QED BY <2>2, <2>4, <2>5, Zenon DEF Dated
<1> QED BY <1>1, InitTypes, TypesStay, InitStatuses, StatusesStay, PTL
        DEF Spec, StatusIsEarned

(* A request that is answered with no time since its sweep: the summary    *)
(* calls active what the graph shows as running, and everything else is    *)
(* completed; the leaderboard misses none of them but in its last second.  *)
THEOREM ViewsAgree == Spec => AnswerAgrees
<1>1. TypeOK /\ Swept =>
        [Count /\ tidy =>
          /\ Active = Running /\ In(fleet) = Active \cup Completed
          /\ \A part \in BOOLEAN : \A c \in Running \ BoardActive(part) :
               part /\ fleet[c].age = SweepAge]_vars
  <2> SUFFICES ASSUME TypeOK, Swept, tidy
               PROVE  /\ Active = Running /\ In(fleet) = Active \cup Completed
                      /\ \A part \in BOOLEAN : \A c \in Running \ BoardActive(part) :
                           part /\ fleet[c].age = SweepAge
    OBVIOUS
  <2>1. Active = Running BY DEF Swept, Active, Running
  <2>2. \A c \in Calls : fleet[c].status \in {"NONE", "RUNNING", "COMPLETED"}
    BY RowsAreRows DEF TypeOK
  <2>3. In(fleet) = Active \cup Completed
    BY <2>1, <2>2 DEF In, Running, Completed
  <2>4. ASSUME NEW part \in BOOLEAN, NEW c \in Running \ BoardActive(part)
        PROVE  part /\ fleet[c].age = SweepAge
    <3>1. c \in Calls /\ fleet[c].age <= SweepAge BY DEF Swept, Running
    <3>2. fleet[c].age \in Int
      BY <3>1, RowsAreRows, FleetAssumption DEF TypeOK, Row, Oldest
    <3>3. ~(fleet[c].age < SweepAge) /\ ~(fleet[c].age = SweepAge /\ ~part)
      BY DEF BoardActive
    <3>4. fleet[c].age = SweepAge BY <3>1, <3>2, <3>3, FleetAssumption
    <3> QED BY <3>3, <3>4
  <2> QED BY <2>1, <2>3, <2>4
<1> QED BY <1>1, InitTypes, TypesStay, InitStatuses, SweptStays, PTL
        DEF Spec, AnswerAgrees
============================================================================
