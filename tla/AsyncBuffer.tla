---------------------------- MODULE AsyncBuffer ----------------------------
(***************************************************************************)
(* The in-memory buffer of collector/buffer.go: a bounded Go channel that  *)
(* any goroutine may push to, and one worker goroutine that collects a     *)
(* local batch and hands it to the storage when the batch is full, when    *)
(* the ticker fires, or when the buffer is stopped.                        *)
(*                                                                         *)
(* This module is the buffer alone: what the writer does with a batch is   *)
(* left to the modules that compose it (BufferSystem, Pipeline, Lifecycle).*)
(***************************************************************************)
EXTENDS Naturals, Sequences

CONSTANTS
    Capacity,   (* NewAsyncBuffer's capacity: main passes 1000              *)
    BatchSize   (* NewAsyncBuffer's batchSize: main passes 100              *)

(* NewAsyncBuffer replaces values <= 0 by its defaults, lines 29-37.       *)
ASSUME BufferAssumption ==
    /\ Capacity \in Nat \ {0}
    /\ BatchSize \in Nat \ {0}

VARIABLES
    chan,       (* eventChan: the events sent and not yet received          *)
    batch,      (* the worker's local slice                                 *)
    pc,         (* where the worker goroutine is                            *)
    cancelled   (* ctx has been cancelled: Stop was called                  *)

bufVars == <<chan, batch, pc, cancelled>>

(* "select": at the outer select.  "flush": in flush() called from it.     *)
(* "drain": at the select of the draining loop.  "drainFlush": in flush()  *)
(* because a batch filled up while draining.  "lastFlush": in the flush()  *)
(* before the return.  "done": the worker has returned.                    *)
Flushing == {"flush", "drainFlush", "lastFlush"}
WorkerStates == {"select", "drain", "done"} \cup Flushing

BufInit ==
    /\ chan = <<>>
    /\ batch = <<>>
    /\ pc = "select"
    /\ cancelled = FALSE

----------------------------------------------------------------------------
(* Mutants of the definitions below: plausible bugs that the runs catch.   *)

IsFull_Mutant(b) == Len(b) > BatchSize
FlushReturns_Mutant ==
    /\ pc \in Flushing
    /\ batch' = batch
    /\ pc' = CASE pc = "flush" -> "select"
               [] pc = "drainFlush" -> "drain"
               [] pc = "lastFlush" -> "done"
    /\ UNCHANGED <<chan, cancelled>>
Tick_Mutant ==
    /\ pc = "select"
    /\ Len(batch) >= BatchSize
    /\ pc' = "flush"
    /\ UNCHANGED <<chan, batch, cancelled>>
SeeCancel_Mutant ==
    /\ pc = "select"
    /\ cancelled
    /\ pc' = IF batch = <<>> THEN "done" ELSE "lastFlush"
    /\ UNCHANGED <<chan, batch, cancelled>>
DrainEnd_Mutant ==
    /\ pc = "drain"
    /\ chan = <<>>
    /\ pc' = IF batch = <<>> THEN "drain" ELSE "lastFlush"
    /\ UNCHANGED <<chan, batch, cancelled>>
----------------------------------------------------------------------------
(* Push: a non-blocking send.  It looks at the channel only, so it is also *)
(* enabled after Stop and after the worker has returned.                   *)

HasRoom == Len(chan) < Capacity

Push(e) ==
    /\ HasRoom
    /\ chan' = Append(chan, e)
    /\ UNCHANGED <<batch, pc, cancelled>>

(* The default branch: the channel is full, a warning is logged and the    *)
(* event is dropped (Push returns false).                                  *)
PushRefused ==
    /\ ~HasRoom
    /\ UNCHANGED bufVars

----------------------------------------------------------------------------
(* The worker.  Go's select picks any ready case, so TakeEvent, Tick and   *)
(* SeeCancel compete in "select", and a cancelled worker may go on         *)
(* receiving before it sees ctx.Done().                                    *)

IsFull(b) == Len(b) >= BatchSize

(* case ev := <-b.eventChan of the outer select.                           *)
TakeEvent ==
    /\ pc = "select"
    /\ chan # <<>>
    /\ batch' = Append(batch, Head(chan))
    /\ chan' = Tail(chan)
    /\ pc' = IF IsFull(batch') THEN "flush" ELSE "select"
    /\ UNCHANGED cancelled

(* case <-ticker.C: flush() returns at once on an empty batch.             *)
Tick ==
    /\ pc = "select"
    /\ batch # <<>>
    /\ pc' = "flush"
    /\ UNCHANGED <<chan, batch, cancelled>>

(* case <-b.ctx.Done(): the worker enters the draining loop.               *)
SeeCancel ==
    /\ pc = "select"
    /\ cancelled
    /\ pc' = "drain"
    /\ UNCHANGED <<chan, batch, cancelled>>

DrainEvent ==
    /\ pc = "drain"
    /\ chan # <<>>
    /\ batch' = Append(batch, Head(chan))
    /\ chan' = Tail(chan)
    /\ pc' = IF IsFull(batch') THEN "drainFlush" ELSE "drain"
    /\ UNCHANGED cancelled

(* The default branch of the draining loop: nothing is left to receive, so *)
(* the rest is flushed and the worker returns.                             *)
DrainEnd ==
    /\ pc = "drain"
    /\ chan = <<>>
    /\ pc' = IF batch = <<>> THEN "done" ELSE "lastFlush"
    /\ UNCHANGED <<chan, batch, cancelled>>

(* InsertUsageBatch returned, with or without an error: the error is only  *)
(* logged, and a new empty slice replaces the batch either way.            *)
FlushReturns ==
    /\ pc \in Flushing
    /\ batch' = <<>>
    /\ pc' = CASE pc = "flush" -> "select"
               [] pc = "drainFlush" -> "drain"
               [] pc = "lastFlush" -> "done"
    /\ UNCHANGED <<chan, cancelled>>

(* The worker's steps that do not touch the storage.                       *)
WorkerMoves == TakeEvent \/ Tick \/ SeeCancel \/ DrainEvent \/ DrainEnd

(* b.cancel() in Stop; calling it again changes nothing.  Stop's wg.Wait() *)
(* returns once pc = "done".                                               *)
Cancel ==
    /\ ~cancelled
    /\ cancelled' = TRUE
    /\ UNCHANGED <<chan, batch, pc>>

StopReturns == cancelled /\ pc = "done"

(* The channel never exceeds its capacity, the batch never exceeds its     *)
(* size, and a flush in progress has something to write.                   *)
BufTypeOK(Event) ==
    /\ chan \in Seq(Event)
    /\ Len(chan) <= Capacity
    /\ batch \in Seq(Event)
    /\ Len(batch) <= BatchSize
    /\ pc \in WorkerStates
    /\ cancelled \in BOOLEAN
============================================================================
