----------------------------- MODULE TokenStore ----------------------------
(***************************************************************************)
(* The tables of storage/repository.go that the collectors write:          *)
(* token_usage_logs, one row per event, token_usage_hourly_rollup, one row *)
(* per group, and agent_fleet_telemetry, the tool calls of the responses.  *)
(* Token amounts, latencies and timestamps are left out: a log row is      *)
(* counted, under the key of its event and the model it is billed to.  One *)
(* account and one hour are modelled, so a group is a model.  The status   *)
(* of a tool call is left out: a response either has its calls in the      *)
(* table or not.                                                           *)
(***************************************************************************)
EXTENDS Naturals, Sequences, FiniteSetsExt, SequencesExt

CONSTANTS
    Chat,         (* the request_type values CHAT_<conversation>_<step>     *)
    Interactive,  (* the proxy's events: all have request_type INTERACTIVE  *)
    Model

Key == Chat \cup Interactive
TokenEvent == [key : Key, model : Model]

ASSUME StoreAssumption ==
    /\ IsFiniteSet(Key) /\ IsFiniteSet(Model)
    /\ Chat \cap Interactive = {}

VARIABLES
    logs,         (* logs[k][m]: how many rows event k has under model m    *)
    rollup,       (* rollup[m]: call_count of m's group, 0 when it has none *)
    tasks         (* the responses whose tool calls have been stored        *)

storeVars == <<logs, rollup, tasks>>

StoreInit ==
    /\ logs = [k \in Key |-> [m \in Model |-> 0]]
    /\ rollup = [m \in Model |-> 0]
    /\ tasks = {}

StoreTypeOK ==
    /\ logs \in [Key -> [Model -> Nat]]
    /\ rollup \in [Model -> Nat]
    /\ tasks \in SUBSET Chat

----------------------------------------------------------------------------
Rows(k) == SumFunction(logs[k])
Stored(k) == Rows(k) > 0
GroupCount(m) == SumFunction([k \in Key |-> logs[k][m]])

(* INSERT OR REPLACE under the partial unique index idx_token_dedup_chat:  *)
(* a CHAT_ row deletes the row with the same request_type, any other row   *)
(* is added.                                                               *)
ReplaceRow_Mutant(table, e) == [table EXCEPT ![e.key][e.model] = @ + 1]
ReplaceRow(table, e) ==
    [table EXCEPT ![e.key] =
        [m \in Model |-> (IF m = e.model THEN 1 ELSE 0)
                         + (IF e.key \in Chat THEN 0 ELSE table[e.key][m])]]

(* InsertUsageBatch: one transaction for the batch, in its order.  When a  *)
(* statement or the commit fails nothing is written and the caller gets an *)
(* error (which the buffer's worker logs and the backfill ignores).        *)
AfterBatch_Mutant(events, ok) ==
    IF ok THEN FoldLeft(ReplaceRow, logs, events)
    ELSE [k \in Key |-> IF k \in {e.key : e \in ToSet(events)} THEN [m \in Model |-> 0]
                        ELSE logs[k]]
AfterBatch(events, ok) ==
    IF ok THEN FoldLeft(ReplaceRow, logs, events) ELSE logs

InsertUsageBatch(events, ok) == logs' = AfterBatch(events, ok)

(* InsertAgentTaskBatch: one transaction too, an upsert per tool call under*)
(* the unique index idx_agent_fleet_subagent.  Both callers discard its    *)
(* error.                                                                  *)
InsertAgentTaskBatch(responses, ok) ==
    tasks' = IF ok THEN tasks \cup responses ELSE tasks

(* RollupHourlyMetrics: every group present in the log is recomputed and   *)
(* upserted.  A group that has lost its last row is not in the SELECT, so  *)
(* its rollup row stays as it was.                                         *)
RollupHourlyMetrics_Mutant ==
    /\ rollup' = [m \in Model |-> rollup[m] + GroupCount(m)]
    /\ UNCHANGED <<logs, tasks>>
RollupHourlyMetrics ==
    /\ rollup' = [m \in Model |-> IF GroupCount(m) > 0 THEN GroupCount(m)
                                  ELSE rollup[m]]
    /\ UNCHANGED <<logs, tasks>>
============================================================================
