---------------------------- MODULE BufferSystem ---------------------------
(***************************************************************************)
(* AsyncBuffer with its surroundings: goroutines that push events, a       *)
(* StorageWriter whose InsertUsageBatch may fail, and the Stop of main.    *)
(* History variables record what was accepted and what reached the writer. *)
(***************************************************************************)
EXTENDS AsyncBuffer, Integers, FiniteSets

CONSTANT Event   (* the events the program creates: each is pushed once    *)

VARIABLES
    accepted,    (* the events Push returned true for, in order             *)
    handed,      (* the events InsertUsageBatch was called with, in order   *)
    lostAt,      (* the positions in handed of the batches that failed      *)
    refused,     (* the events Push returned false for                      *)
    stopMark     (* Len(accepted) when Stop was called, -1 before           *)

history == <<accepted, handed, lostAt, refused, stopMark>>
vars == <<bufVars, history>>

Init ==
    /\ BufInit
    /\ accepted = <<>>
    /\ handed = <<>>
    /\ lostAt = {}
    /\ refused = {}
    /\ stopMark = -1

Offered == {accepted[i] : i \in DOMAIN accepted} \cup refused

PushAccepted(e) ==
    /\ e \notin Offered
    /\ Push(e)
    /\ accepted' = Append(accepted, e)
    /\ UNCHANGED <<handed, lostAt, refused, stopMark>>

PushDropped(e) ==
    /\ e \notin Offered
    /\ PushRefused
    /\ refused' = refused \cup {e}
    /\ UNCHANGED <<accepted, handed, lostAt, stopMark>>

(* The call of InsertUsageBatch in flush(): one transaction, so the whole  *)
(* batch is stored or none of it.                                          *)
Flush(ok) ==
    /\ FlushReturns
    /\ handed' = handed \o batch
    /\ lostAt' = IF ok THEN lostAt
                 ELSE lostAt \cup ((Len(handed) + 1) .. (Len(handed) + Len(batch)))
    /\ UNCHANGED <<accepted, refused, stopMark>>

Move == WorkerMoves /\ UNCHANGED history

Stop ==
    /\ Cancel
    /\ stopMark' = Len(accepted)
    /\ UNCHANGED <<accepted, handed, lostAt, refused>>

Worker == Move \/ \E ok \in BOOLEAN : Flush(ok)

Next ==
    \/ \E e \in Event : PushAccepted(e) \/ PushDropped(e)
    \/ Worker
    \/ Stop

(* The worker goroutine is scheduled again and again, its select cannot    *)
(* block for ever while something is ready, and InsertUsageBatch returns   *)
(* (SQLite gives up a busy lock after busy_timeout).  Nothing obliges a    *)
(* producer to push, or anyone to call Stop.                               *)
Spec == Init /\ [][Next]_vars
FairSpec == Spec /\ WF_vars(Worker)

----------------------------------------------------------------------------
(* Types of the variables, with the bounds of the channel and the batch.   *)
TypeOK ==
    /\ BufTypeOK(Event)
    /\ accepted \in Seq(Event)
    /\ handed \in Seq(Event)
    /\ lostAt \in SUBSET (1 .. Len(handed))
    /\ refused \in SUBSET Event
    /\ stopMark \in -1 .. Len(accepted)

(* No accepted event is lost, duplicated or overtaken on its way from Push *)
(* to InsertUsageBatch: what the writer was handed, then the batch, then   *)
(* the channel, is the sequence of accepted events.                        *)
FifoConservation == handed \o batch \o chan = accepted

(* Stop drains: once the worker has returned, every event accepted before  *)
(* Stop was called has been handed to the writer.  Nothing is promised for *)
(* an event pushed after that.                                             *)
StopDrains ==
    pc = "done" => /\ cancelled
                   /\ batch = <<>>
                   /\ Len(handed) >= stopMark

(* The buffer implements the abstract sink.                                *)
Sink == INSTANCE EventSink WITH handed <- Len(handed), closed <- pc = "done"
ImplementsSink == Sink!Spec

(* The n-th accepted event reaches the writer, unless Stop intervenes; and *)
(* with Stop, those accepted before it do.                                 *)
AcceptedIsHanded ==
    \A n \in 1 .. Cardinality(Event) :
        (Len(accepted) >= n /\ (~cancelled \/ n <= stopMark)) ~> (Len(handed) >= n)

(* Stop returns: the worker leaves the draining loop.                      *)
StopTerminates == cancelled ~> StopReturns
============================================================================
