------------------------------ MODULE Pipeline -----------------------------
(***************************************************************************)
(* From the transcripts to the database: the IDE, the tailer, the proxy,   *)
(* the buffer's worker, the rollup and a process that may crash and start  *)
(* again, all sharing one buffer and one store.  History variables say     *)
(* which responses the code is known to have given up on.                  *)
(***************************************************************************)
EXTENDS LocalTailer

CONSTANTS
    MaxFills, MaxRestarts,   (* bounds of the exploration                   *)
    WithRollup               (* bound: FALSE leaves the rollup out          *)

VARIABLES
    sent,      (* the proxy's events so far                                 *)
    excused,   (* keys refused by a full buffer, in a failed batch, torn by *)
               (* an offset in the middle of their line, skipped because the*)
               (* transcript could not be opened, or below the offset that a*)
               (* restart began with                                        *)
    mark,      (* the size of each transcript when the backfill started     *)
    clean,     (* no write or open of the running backfill has failed       *)
    synced,    (* the sizes up to which a clean backfill has finished       *)
    left,      (* the models that a replaced row was taken away from        *)
    fills, restarts

history == <<sent, excused, mark, clean, synced, left>>
bounds == <<fills, restarts>>
vars == <<bufVars, storeVars, written, tailerVars, history, bounds>>

Init ==
    /\ BufInit
    /\ StoreInit
    /\ TailerInit
    /\ sent = {}
    /\ excused = {}
    /\ mark = [c \in Conv |-> 0]
    /\ clean = TRUE
    /\ synced = [c \in Conv |-> 0]
    /\ left = {}
    /\ fills = 0 /\ restarts = 0

KeysOf(events) == {e.key : e \in ToSet(events)}
(* The models whose row for some key disappears when logs becomes logs'.   *)
RowsLeft == {m \in Model : \E k \in Key : logs[k][m] > logs'[k][m]}

IDEAppends ==
    /\ \E c \in Conv : IDEWrites(c)
    /\ UNCHANGED <<history, bounds>>

(* parseAndRecordMetadata, a goroutine per response: one Push.             *)
ProxyRecords ==
    /\ \E k \in Interactive \ sent, m \in {DefaultModel} :
        /\ sent' = sent \cup {k}
        /\ \/ Push([key |-> k, model |-> m]) /\ UNCHANGED excused
           \/ PushRefused /\ excused' = excused \cup {k}
    /\ UNCHANGED <<storeVars, written, tailerVars, mark, clean, synced, left, bounds>>

PollLoop ==
    /\ \/ /\ PollTick \/ PollStat \/ PollFragment \/ PollOther \/ PollEnd
          /\ UNCHANGED excused
       \/ /\ PollResponse
          /\ excused' = excused \cup {k \in {PollKey} : chan' = chan}
       \/ /\ PollEOF
          /\ excused' = excused \cup
                {k \in {<<Dirs[poll.i], LineNo(poll.size)>>} : poll.pos < poll.size}
       \/ /\ PollOpenFails
          /\ excused' = excused \cup {k \in Chat :
                k[1] = Dirs[poll.i] /\ 2 * k[2] > poll.pos /\ 2 * k[2] - 1 <= poll.size}
    /\ UNCHANGED <<sent, mark, clean, synced, left, bounds>>

BackfillStarts ==
    /\ fills < MaxFills
    /\ FillStart
    /\ fills' = fills + 1
    /\ mark' = written
    /\ clean' = TRUE
    /\ UNCHANGED <<sent, excused, synced, left, restarts>>

Backfill ==
    /\ \/ FillNextFile /\ UNCHANGED <<clean, synced, left>>
       \/ FillOpenFails /\ clean' = FALSE /\ UNCHANGED <<synced, left>>
       \/ \E ok, okTasks \in BOOLEAN :
            /\ FillStep(ok, okTasks)
            /\ clean' = (clean /\ ok /\ okTasks)
            /\ synced' = IF fill'.at = "idle" /\ clean' THEN mark ELSE synced
            /\ left' = left \cup RowsLeft
    /\ UNCHANGED <<sent, excused, mark, bounds>>

WorkerFlushes(ok) ==
    /\ FlushReturns
    /\ InsertUsageBatch(batch, ok)
    /\ UNCHANGED <<rollup, tasks>>
    /\ excused' = IF ok THEN excused ELSE excused \cup KeysOf(batch)
    /\ left' = left \cup RowsLeft
    /\ UNCHANGED <<written, tailerVars, sent, mark, clean, synced, bounds>>

Worker ==
    \/ /\ TakeEvent \/ Tick
       /\ UNCHANGED <<storeVars, written, tailerVars, history, bounds>>
    \/ \E ok \in BOOLEAN : WorkerFlushes(ok)

Rollup ==
    /\ WithRollup
    /\ RollupHourlyMetrics
    /\ UNCHANGED <<bufVars, written, tailerVars, history, bounds>>

CrashAndRestart ==
    /\ restarts < MaxRestarts
    /\ \E recent \in [Conv -> BOOLEAN] : Restart(recent)
    /\ restarts' = restarts + 1
    /\ excused' = excused
        \cup {k \in Chat : 2 * k[2] - 1 <= offset'[k[1]]}
        \cup {k \in Interactive : k \in KeysOf(chan \o batch)}
    /\ clean' = TRUE
    /\ mark' = synced
    /\ UNCHANGED <<sent, synced, left, fills>>

Next ==
    \/ IDEAppends \/ ProxyRecords \/ PollLoop \/ BackfillStarts \/ Backfill
    \/ Worker \/ Rollup \/ CrashAndRestart

Spec == Init /\ [][Next]_vars
(* The poll loop and the worker go on, and a backfill that was started     *)
(* reads on; the ticker and the lock reach the poll loop again and again.  *)
FairSpec == Spec /\ WF_vars(PollLoop) /\ WF_vars(Backfill) /\ WF_vars(Worker)

----------------------------------------------------------------------------
TypeOK ==
    /\ BufTypeOK(TokenEvent)
    /\ StoreTypeOK
    /\ \A c \in Conv : written[c] \in 0 .. 2 * Len(Script[c])
    /\ \A c \in Conv : offset[c] \in 0 .. written[c]
    /\ currentModel \in Model
    /\ mu \in {"free", "poll", "fill"}
    /\ poll.at = "idle" <=> mu # "poll"
    /\ fill.at = "idle" <=> mu # "fill"
    /\ Len(fill.events) < FlushEvery
    /\ fill.tasks \in SUBSET Chat /\ Cardinality(fill.tasks) < TasksEvery

OnDisk(k) == k \in Chat => written[k[1]] >= 2 * k[2]

(* However often a line is read - by the poll loop again after it overran  *)
(* the size it had statted, by the backfill, after a restart - and however *)
(* the writes interleave, the log has at most one row for it, and only for *)
(* a line that is completely on disk.  The proxy's events, which no index  *)
(* protects, are stored at most once as well.                              *)
OneRowPerEvent ==
    \A k \in Key : Rows(k) <= 1 /\ (Stored(k) => OnDisk(k))

(* The poll path loses a response only in the ways named by excused: every *)
(* other response below the offset is stored or on its way in the buffer.  *)
NothingSkipped ==
    \A k \in Chat \ excused :
        Script[k[1]][k[2]].responds /\ 2 * k[2] <= offset[k[1]] =>
            Stored(k) \/ k \in KeysOf(chan \o batch)

(* A backfill that ends without a failure has stored every response that   *)
(* was complete when it began, with its tool calls, also those that the    *)
(* poll path lost; and nothing that happens later, crash or not, takes     *)
(* them away.                                                              *)
BackfillComplete ==
    \A k \in Chat : 2 * k[2] <= synced[k[1]] =>
        /\ Script[k[1]][k[2]].responds => Stored(k)
        /\ Script[k[1]][k[2]].calls => k \in tasks

(* A rollup disagrees with the log only for a model that a replaced row    *)
(* was taken away from.                                                    *)
RollupExact == [][Rollup => \A m \in Model \ left : rollup'[m] = GroupCount(m)]_vars

(* What a reader of the log is promised.  A response has happened when its *)
(* line is complete, and is collected when the offset is past it.          *)
Happened == {k \in Chat : OnDisk(k)} \cup sent
Collected == {k \in Chat : Script[k[1]][k[2]].responds /\ 2 * k[2] <= offset[k[1]]} \cup sent
Ledger == INSTANCE UsageLedger WITH
    Event <- Key, happened <- Happened, taken <- Collected,
    coming <- KeysOf(chan \o batch), booked <- {k \in Key : Stored(k)}, lost <- excused \cap Key
(* No row is ever taken back, by no replacement, failure or restart; an    *)
(* event leaves the buffer only by a transaction, as a whole batch into the*)
(* log or to excused; and the offset passes, in a poll as in a restart, no *)
(* response that is not stored, in the buffer or excused.                  *)
ImplementsLedger == Ledger!Spec

(* The poll loop catches up with each transcript.                          *)
CatchesUp == \A c \in Conv : <>[](offset[c] = written[c])

(* An event in the buffer is stored, or its batch failed, or the program   *)
(* crashed.                                                                *)
BufferedIsStored ==
    \A k \in Interactive : k \in sent ~> Stored(k) \/ k \in excused

----------------------------------------------------------------------------
(* What the documentation says and the code does not do.                   *)

(* "Token figures are never doubled": the rollup, when it has just run,    *)
(* counts each stored call once.                                           *)
RollupNeverDoubles ==
    [][Rollup => MapThenSumSet(LAMBDA m : rollup'[m], Model)
                 <= MapThenSumSet(LAMBDA k : Rows(k), Key)]_vars
============================================================================
