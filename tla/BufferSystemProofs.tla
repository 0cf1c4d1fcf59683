------------------------- MODULE BufferSystemProofs ------------------------
(***************************************************************************)
(* Theorems about BufferSystem, for every set of events, every capacity    *)
(* and every batch size.                                                   *)
(***************************************************************************)
EXTENDS BufferSystem, SequencesExt, SequenceTheorems, TLAPS

----------------------------------------------------------------------------
(* The buffer alone, whatever events it carries: no step of it reorders    *)
(* them, and each keeps its types and the position of its worker.          *)

(* Removing the first element of a non-empty sequence and putting it back  *)
(* in front restores the sequence.                                         *)
LEMMA HeadThenTail ==
    ASSUME NEW S, NEW s \in Seq(S), s # <<>>
    PROVE  /\ Head(s) \in S
           /\ Tail(s) \in Seq(S)
           /\ Len(Tail(s)) = Len(s) - 1
           /\ <<Head(s)>> \o Tail(s) = s
<1>1. /\ Head(s) \in S
      /\ Tail(s) \in Seq(S)
      /\ Len(Tail(s)) = Len(s) - 1
    BY HeadTailProperties
<1>2. /\ Len(s) \in Nat \ {0}
      /\ s[1] = Head(s)
    BY EmptySeq, LenProperties
<1>3. /\ <<Head(s)>> \in Seq(S)
      /\ Len(<<Head(s)>>) = 1
      /\ <<Head(s)>>[1] = Head(s)
    BY <1>1
<1>4. <<Head(s)>> \o Tail(s) \in Seq(S)
    BY <1>1, <1>3, ConcatProperties
<1>5. Len(<<Head(s)>> \o Tail(s)) = Len(s)
    BY <1>1, <1>2, <1>3, ConcatProperties
<1>6. ASSUME NEW i \in 1 .. Len(s)
      PROVE  (<<Head(s)>> \o Tail(s))[i] = s[i]
    BY <1>1, <1>2, <1>3, ConcatProperties, HeadTailProperties
<1>. QED  BY <1>1, <1>4, <1>5, <1>6, SeqEqual

----------------------------------------------------------------------------
(* Moving the head of the channel to the end of the batch changes nothing  *)
(* in what the two hold together.                                          *)
LEMMA ReceiveKeepsOrder ==
    ASSUME NEW S, NEW b \in Seq(S), NEW c \in Seq(S), c # <<>>
    PROVE  /\ Append(b, Head(c)) \in Seq(S)
           /\ Tail(c) \in Seq(S)
           /\ Append(b, Head(c)) \o Tail(c) = b \o c
           /\ Len(Append(b, Head(c))) = Len(b) + 1
           /\ Len(Tail(c)) = Len(c) - 1
<1>1. /\ Head(c) \in S
      /\ Tail(c) \in Seq(S)
      /\ Len(Tail(c)) = Len(c) - 1
      /\ <<Head(c)>> \o Tail(c) = c
    BY HeadThenTail
<1>2. /\ Append(b, Head(c)) = b \o <<Head(c)>>
      /\ Append(b, Head(c)) \in Seq(S)
      /\ Len(Append(b, Head(c))) = Len(b) + 1
      /\ <<Head(c)>> \in Seq(S)
    BY <1>1, AppendIsConcat, AppendProperties
<1>3. (b \o <<Head(c)>>) \o Tail(c) = b \o (<<Head(c)>> \o Tail(c))
    BY <1>1, <1>2, ConcatAssociative, SMTT(60)
<1>. QED  BY <1>1, <1>2, <1>3

----------------------------------------------------------------------------
(* What is known of the worker's position.  A worker that waits has room   *)
(* in its batch, one that flushes has something to flush, and one that has *)
(* left the outer select was told to stop.                                 *)
WorkerInv ==
    /\ pc \in {"select", "drain"} => Len(batch) < BatchSize
    /\ pc \in Flushing => batch # <<>>
    /\ pc = "done" => batch = <<>>
    /\ pc \in {"drain", "drainFlush", "lastFlush", "done"} => cancelled

BufInv(E) == BufTypeOK(E) /\ WorkerInv

(* One step of the buffer, whoever takes it.                               *)
BufferMoves(E) ==
    \/ \E e \in E : Push(e)
    \/ PushRefused \/ WorkerMoves \/ FlushReturns \/ Cancel \/ UNCHANGED bufVars

LEMMA BufferStarts ==
    ASSUME NEW E, BufInit
    PROVE  BufInv(E)
<1>1. /\ <<>> \in Seq(E)
      /\ Len(<<>>) = 0
    BY EmptySeq
<1>2. 0 <= Capacity /\ 0 < BatchSize /\ 0 <= BatchSize
    BY BufferAssumption
<1>3. BufTypeOK(E)
    BY <1>1, <1>2 DEF BufInit, BufTypeOK, WorkerStates
<1>4. WorkerInv
    BY <1>1, <1>2 DEF BufInit, WorkerInv, Flushing
<1>. QED  BY <1>3, <1>4 DEF BufInv

LEMMA BufferKeepsItsTypes ==
    ASSUME NEW E, BufInv(E), BufferMoves(E)
    PROVE  BufInv(E)'
<1>. USE DEF BufInv
<1>0. /\ Len(chan) \in Nat
      /\ Len(batch) \in Nat
      /\ <<>> \in Seq(E)
      /\ Len(<<>>) = 0
    BY EmptySeq, LenProperties DEF BufTypeOK
<1>1. ASSUME NEW e \in E, Push(e) PROVE BufInv(E)'
    <2>1. Append(chan, e) \in Seq(E) /\ Len(Append(chan, e)) = Len(chan) + 1
        BY AppendProperties DEF BufTypeOK
    <2>. QED  BY <1>0, <1>1, <2>1, BufferAssumption DEF Push, HasRoom, BufTypeOK, WorkerInv
<1>2. CASE TakeEvent \/ DrainEvent
    <2>1. /\ chan # <<>>
          /\ batch' = Append(batch, Head(chan))
          /\ chan' = Tail(chan)
          /\ cancelled' = cancelled
          /\ \/ pc = "select" /\ pc' = IF IsFull(batch') THEN "flush" ELSE "select"
             \/ pc = "drain" /\ pc' = IF IsFull(batch') THEN "drainFlush" ELSE "drain"
        BY <1>2 DEF TakeEvent, DrainEvent
    <2>2. /\ batch' \in Seq(E)
          /\ chan' \in Seq(E)
          /\ Len(batch') = Len(batch) + 1
          /\ Len(chan') = Len(chan) - 1
        BY <2>1, ReceiveKeepsOrder DEF BufTypeOK
    <2>3. Len(batch) < BatchSize /\ Len(chan) <= Capacity
        BY <2>1 DEF WorkerInv, BufTypeOK
    <2>4. Len(chan') <= Capacity /\ Len(batch') <= BatchSize
        BY <1>0, <2>2, <2>3, BufferAssumption
    <2>5. batch' # <<>>
        BY <1>0, <2>2, EmptySeq
    <2>6. ~IsFull(batch') <=> Len(batch') < BatchSize
        BY <1>0, <2>2, BufferAssumption DEF IsFull
    <2>7. BufTypeOK(E)'
        BY <2>1, <2>2, <2>4 DEF BufTypeOK, WorkerStates, Flushing
    <2>8. WorkerInv'
        BY <2>1, <2>5, <2>6 DEF WorkerInv, Flushing
    <2>. QED  BY <2>7, <2>8
<1>3. CASE Tick \/ SeeCancel \/ DrainEnd
    BY <1>3 DEF Tick, SeeCancel, DrainEnd, BufTypeOK, WorkerInv, WorkerStates, Flushing
<1>4. CASE FlushReturns
    <2>1. /\ UNCHANGED <<chan, cancelled>>
          /\ batch' = <<>>
          /\ \/ pc = "flush" /\ pc' = "select"
             \/ pc = "drainFlush" /\ pc' = "drain"
             \/ pc = "lastFlush" /\ pc' = "done"
        BY <1>4 DEF FlushReturns, Flushing
    <2>. QED  BY <1>0, <2>1, BufferAssumption DEF BufTypeOK, WorkerInv, WorkerStates, Flushing
<1>5. CASE Cancel
    BY <1>5 DEF Cancel, BufTypeOK, WorkerInv
<1>6. CASE PushRefused \/ UNCHANGED bufVars
    BY <1>6 DEF PushRefused, bufVars, BufTypeOK, WorkerInv
<1>. QED  BY <1>1, <1>2, <1>3, <1>4, <1>5, <1>6 DEF BufferMoves, WorkerMoves

----------------------------------------------------------------------------
(* The buffer with its surroundings.                                       *)

(* stopMark is set exactly when Stop is called, and the worker's last flush*)
(* hands over everything that was accepted before.                         *)
MarkInv ==
    /\ cancelled <=> stopMark >= 0
    /\ pc = "lastFlush" => Len(handed) + Len(batch) >= stopMark
    /\ pc = "done" => Len(handed) >= stopMark

(* The inductive invariant: the types, where the worker is, the history,   *)
(* and that no event is lost or overtaken.                                 *)
IInv == TypeOK /\ WorkerInv /\ MarkInv /\ FifoConservation

LEMMA InitIInv == Init => IInv
<1>1. SUFFICES ASSUME Init PROVE IInv
    OBVIOUS
<1>. USE DEF Init, BufInit
<1>1a. /\ <<>> \in Seq(Event)
       /\ Len(<<>>) = 0
       /\ <<>> \o <<>> = <<>>
    BY EmptySeq, ConcatEmptySeq
<1>2. BufInv(Event)
    BY <1>1, BufferStarts
<1>3. TypeOK /\ WorkerInv
    BY <1>1, <1>1a, <1>2 DEF BufInv, TypeOK
<1>4. MarkInv
    BY <1>1, <1>1a DEF MarkInv
<1>5. FifoConservation
    BY <1>1, <1>1a DEF FifoConservation
<1>. QED  BY <1>3, <1>4, <1>5 DEF IInv

(* What the parts of IInv say about lengths, used by every step below.     *)
LEMMA Lengths ==
    ASSUME TypeOK, FifoConservation
    PROVE  /\ Len(chan) \in Nat
           /\ Len(batch) \in Nat
           /\ Len(handed) \in Nat
           /\ handed \o batch \in Seq(Event)
           /\ handed \o (batch \o chan) = accepted
           /\ Len(accepted) = Len(handed) + Len(batch) + Len(chan)
<1>. USE DEF TypeOK, BufTypeOK
<1>1. /\ Len(chan) \in Nat
      /\ Len(batch) \in Nat
      /\ Len(handed) \in Nat
    BY LenProperties
<1>2. /\ handed \o batch \in Seq(Event)
      /\ Len(handed \o batch) = Len(handed) + Len(batch)
    BY ConcatProperties
<1>3. Len((handed \o batch) \o chan) = Len(handed \o batch) + Len(chan)
    BY <1>2, ConcatProperties
<1>4. (handed \o batch) \o chan = handed \o (batch \o chan)
    BY ConcatAssociative, SMTT(60)
<1>. QED  BY <1>1, <1>2, <1>3, <1>4 DEF FifoConservation

(* The conservation of events by each kind of step.                        *)
LEMMA PushKeepsFifo ==
    ASSUME TypeOK, FifoConservation, NEW e \in Event
    PROVE  /\ handed \o batch \o Append(chan, e) = Append(accepted, e)
           /\ Append(chan, e) \in Seq(Event)
           /\ Append(accepted, e) \in Seq(Event)
           /\ Len(Append(chan, e)) = Len(chan) + 1
           /\ Len(Append(accepted, e)) = Len(accepted) + 1
<1>. USE DEF TypeOK, BufTypeOK
<1>1. handed \o batch \in Seq(Event)
    BY Lengths
<1>2. (handed \o batch) \o (chan \o <<e>>) = ((handed \o batch) \o chan) \o <<e>>
    BY <1>1, ConcatAssociative, SMTT(60)
<1>3. /\ Append(chan, e) = chan \o <<e>>
      /\ Append(accepted, e) = accepted \o <<e>>
    BY AppendIsConcat
<1>. QED  BY <1>2, <1>3, AppendProperties DEF FifoConservation

LEMMA ReceiveKeepsFifo ==
    ASSUME TypeOK, FifoConservation, chan # <<>>
    PROVE  handed \o Append(batch, Head(chan)) \o Tail(chan) = accepted
<1>0. handed \in Seq(Event) /\ batch \in Seq(Event) /\ chan \in Seq(Event)
    BY DEF TypeOK, BufTypeOK
<1>1. /\ Append(batch, Head(chan)) \o Tail(chan) = batch \o chan
      /\ Append(batch, Head(chan)) \in Seq(Event)
      /\ Tail(chan) \in Seq(Event)
    BY <1>0, ReceiveKeepsOrder
<1>2. \A b, c \in Seq(Event) : (handed \o b) \o c = handed \o (b \o c)
    BY <1>0, ConcatAssociative, SMTT(60)
<1>3. (handed \o Append(batch, Head(chan))) \o Tail(chan)
            = handed \o (Append(batch, Head(chan)) \o Tail(chan))
    BY <1>1, <1>2, Zenon
<1>. QED  BY <1>1, <1>3, Lengths

LEMMA FlushKeepsFifo ==
    ASSUME TypeOK, FifoConservation
    PROVE  /\ (handed \o batch) \o <<>> \o chan = accepted
           /\ Len(handed \o batch) = Len(handed) + Len(batch)
           /\ handed \o batch \in Seq(Event)
<1>. USE DEF TypeOK, BufTypeOK
<1>1. /\ handed \o batch \in Seq(Event)
      /\ Len(handed \o batch) = Len(handed) + Len(batch)
    BY ConcatProperties
<1>2. (handed \o batch) \o <<>> = handed \o batch
    BY <1>1, ConcatEmptySeq
<1>. QED  BY <1>1, <1>2 DEF FifoConservation

----------------------------------------------------------------------------
(* Each action preserves the invariant.                                    *)
LEMMA PushStep ==
    ASSUME IInv, NEW e \in Event, PushAccepted(e)
    PROVE  IInv'
<1>. USE DEF IInv
<1>1. /\ HasRoom
      /\ chan' = Append(chan, e)
      /\ accepted' = Append(accepted, e)
      /\ UNCHANGED <<batch, pc, cancelled, handed, lostAt, refused, stopMark>>
    BY DEF PushAccepted, Push
<1>2. BufInv(Event)'
    BY BufferKeepsItsTypes DEF BufferMoves, BufInv, TypeOK, PushAccepted
<1>3. TypeOK' /\ WorkerInv' /\ MarkInv'
    BY <1>1, <1>2, PushKeepsFifo, Lengths DEF BufInv, TypeOK, MarkInv
<1>4. FifoConservation'
    BY <1>1, PushKeepsFifo DEF FifoConservation
<1>. QED  BY <1>2, <1>3, <1>4

LEMMA DropStep ==
    ASSUME IInv, NEW e \in Event, PushDropped(e)
    PROVE  IInv'
BY DEF IInv, TypeOK, BufTypeOK, WorkerInv, MarkInv, FifoConservation, PushDropped,
       PushRefused, bufVars

LEMMA StopStep ==
    ASSUME IInv, Stop
    PROVE  IInv'
<1>. USE DEF IInv
<1>1. /\ ~cancelled
      /\ cancelled' = TRUE
      /\ stopMark' = Len(accepted)
      /\ UNCHANGED <<chan, batch, pc, accepted, handed, lostAt, refused>>
    BY DEF Stop, Cancel
<1>2. BufInv(Event)'
    BY BufferKeepsItsTypes DEF BufferMoves, BufInv, TypeOK, Stop
<1>3. TypeOK' /\ WorkerInv'
    BY <1>1, <1>2, Lengths DEF BufInv, TypeOK
<1>4. pc \notin {"lastFlush", "done"}
    BY <1>1 DEF WorkerInv
<1>5. MarkInv'
    BY <1>1, <1>4, Lengths DEF MarkInv
<1>6. FifoConservation'
    BY <1>1 DEF FifoConservation
<1>. QED  BY <1>3, <1>5, <1>6

(* An event received at the outer select or at the draining select.        *)
LEMMA ReceiveStep ==
    ASSUME IInv, UNCHANGED history, TakeEvent \/ DrainEvent
    PROVE  IInv'
<1>. USE DEF IInv
<1>1. /\ chan # <<>>
      /\ batch' = Append(batch, Head(chan))
      /\ chan' = Tail(chan)
      /\ UNCHANGED <<cancelled, accepted, handed, lostAt, refused, stopMark>>
      /\ pc' \in {"select", "drain", "flush", "drainFlush"}
    BY DEF TakeEvent, DrainEvent, history
<1>2. BufInv(Event)'
    BY BufferKeepsItsTypes DEF BufferMoves, WorkerMoves, BufInv, TypeOK
<1>4. TypeOK' /\ WorkerInv'
    BY <1>1, <1>2 DEF BufInv, TypeOK
<1>6. MarkInv'
    BY <1>1 DEF MarkInv
<1>7. FifoConservation'
    BY <1>1, ReceiveKeepsFifo DEF FifoConservation
<1>. QED  BY <1>4, <1>6, <1>7

LEMMA SwitchStep ==
    ASSUME IInv, UNCHANGED history, Tick \/ SeeCancel \/ DrainEnd
    PROVE  IInv'
<1>. USE DEF IInv
<1>1. /\ UNCHANGED <<chan, batch, cancelled, accepted, handed, lostAt, refused, stopMark>>
      /\ \/ pc = "select" /\ batch # <<>> /\ pc' = "flush"
         \/ pc = "select" /\ cancelled /\ pc' = "drain"
         \/ pc = "drain" /\ chan = <<>> /\ pc' = IF batch = <<>> THEN "done" ELSE "lastFlush"
    BY DEF Tick, SeeCancel, DrainEnd, history
<1>2. BufInv(Event)'
    BY BufferKeepsItsTypes DEF BufferMoves, WorkerMoves, BufInv, TypeOK
<1>3. TypeOK' /\ WorkerInv'
    BY <1>1, <1>2 DEF BufInv, TypeOK
<1>4. MarkInv'
    <2>1. /\ stopMark <= Len(accepted)
          /\ Len(accepted) = Len(handed) + Len(batch) + Len(chan)
          /\ chan = <<>> => Len(chan) = 0
          /\ batch = <<>> => Len(batch) = 0
          /\ Len(handed) \in Nat
          /\ Len(batch) \in Nat
          /\ stopMark \in Int
        BY Lengths, EmptySeq DEF TypeOK
    <2>2. /\ pc' = "lastFlush" => Len(handed) + Len(batch) >= stopMark
          /\ pc' = "done" => Len(handed) >= stopMark
        BY <1>1, <2>1
    <2>. QED  BY <1>1, <2>2 DEF MarkInv
<1>5. FifoConservation'
    BY <1>1 DEF FifoConservation
<1>. QED  BY <1>3, <1>4, <1>5

LEMMA FlushStep ==
    ASSUME IInv, NEW ok \in BOOLEAN, Flush(ok)
    PROVE  IInv'
<1>. USE DEF IInv
<1>1. /\ pc \in Flushing
      /\ batch' = <<>>
      /\ handed' = handed \o batch
      /\ UNCHANGED <<chan, cancelled, accepted, refused, stopMark>>
      /\ lostAt' \subseteq lostAt \cup ((Len(handed) + 1) .. (Len(handed) + Len(batch)))
      /\ \/ pc = "flush" /\ pc' = "select"
         \/ pc = "drainFlush" /\ pc' = "drain"
         \/ pc = "lastFlush" /\ pc' = "done"
    BY DEF Flush, FlushReturns, Flushing
<1>2. /\ Len(handed') = Len(handed) + Len(batch)
      /\ handed' \in Seq(Event)
      /\ handed' \o <<>> \o chan = accepted
    BY <1>1, FlushKeepsFifo
<1>3. BufInv(Event)'
    BY BufferKeepsItsTypes DEF BufferMoves, BufInv, TypeOK, Flush
<1>4. TypeOK'
    <2>1. lostAt' \in SUBSET (1 .. Len(handed'))
        BY <1>1, <1>2, Lengths DEF TypeOK
    <2>. QED  BY <1>1, <1>2, <1>3, <2>1 DEF BufInv, TypeOK
<1>5. WorkerInv'
    BY <1>3 DEF BufInv
<1>6. MarkInv'
    BY <1>1, <1>2 DEF MarkInv
<1>7. FifoConservation'
    BY <1>1, <1>2 DEF FifoConservation
<1>. QED  BY <1>4, <1>5, <1>6, <1>7

LEMMA NextIInv == IInv /\ [Next]_vars => IInv'
<1>. SUFFICES ASSUME IInv, [Next]_vars PROVE IInv'
    OBVIOUS
<1>1. CASE \E e \in Event : PushAccepted(e) \/ PushDropped(e)
    BY <1>1, PushStep, DropStep
<1>2. CASE Move
    BY <1>2, ReceiveStep, SwitchStep DEF Move, WorkerMoves
<1>3. CASE \E ok \in BOOLEAN : Flush(ok)
    BY <1>3, FlushStep
<1>4. CASE Stop
    BY <1>4, StopStep
<1>5. CASE UNCHANGED vars
    BY <1>5 DEF vars, bufVars, history, IInv, TypeOK, BufTypeOK, WorkerInv, MarkInv,
                FifoConservation
<1>. QED  BY <1>1, <1>2, <1>3, <1>4, <1>5 DEF Next, Worker

----------------------------------------------------------------------------
(* The invariant holds in every behaviour.                                 *)
THEOREM Invariance == Spec => []IInv
BY InitIInv, NextIInv, PTL DEF Spec

(* Type correctness, with the bounds of the channel and of the batch: the  *)
(* channel never holds more than capacity events and InsertUsageBatch is   *)
(* never given more than batchSize.                                        *)
THEOREM TypeCorrect == Spec => []TypeOK
<1>1. IInv => TypeOK
    BY DEF IInv
<1>. QED  BY <1>1, Invariance, PTL

(* No accepted event is lost, duplicated or overtaken on its way from Push *)
(* to InsertUsageBatch.                                                    *)
THEOREM NothingLostBeforeTheWriter == Spec => []FifoConservation
<1>1. IInv => FifoConservation
    BY DEF IInv
<1>. QED  BY <1>1, Invariance, PTL

(* When Stop returns, the writer has been handed every event accepted      *)
(* before Stop was called.                                                 *)
THEOREM StopDrainsTheBuffer == Spec => []StopDrains
<1>1. IInv => StopDrains
    BY DEF IInv, WorkerInv, MarkInv, StopDrains
<1>. QED  BY <1>1, Invariance, PTL

----------------------------------------------------------------------------
(* The refinement: one lemma per step of the abstract sink.                *)
LEMMA InitRefines == Init => Sink!Init
BY EmptySeq DEF Init, BufInit, Sink!Init

LEMMA PushRefines ==
    ASSUME IInv, NEW e \in Event, PushAccepted(e)
    PROVE  Sink!Accept(e)
BY DEF PushAccepted, Push, Sink!Accept

LEMMA DropRefines ==
    ASSUME IInv, NEW e \in Event, PushDropped(e)
    PROVE  Sink!Refuse(e)
<1>1. Len(accepted) - Len(handed) >= Capacity
    BY Lengths, BufferAssumption DEF IInv, TypeOK, PushDropped, PushRefused, HasRoom
<1>. QED  BY <1>1 DEF PushDropped, PushRefused, bufVars, Sink!Refuse

LEMMA StopRefines ==
    ASSUME IInv, Stop
    PROVE  Sink!RequestStop
<1>1. stopMark = -1
    BY DEF IInv, TypeOK, MarkInv, Stop, Cancel
<1>. QED  BY <1>1 DEF Stop, Cancel, Sink!RequestStop

LEMMA FlushRefines ==
    ASSUME IInv, NEW ok \in BOOLEAN, Flush(ok)
    PROVE  \E n \in 1 .. BatchSize : Sink!HandOver(n, ok) /\ Sink!MayClose
<1>. USE DEF IInv
<1>1. /\ pc \in Flushing
      /\ handed' = handed \o batch
      /\ UNCHANGED <<accepted, refused, stopMark>>
      /\ lostAt' = IF ok THEN lostAt
                   ELSE lostAt \cup ((Len(handed) + 1) .. (Len(handed) + Len(batch)))
      /\ pc' = "done" => pc = "lastFlush"
    BY DEF Flush, FlushReturns, Flushing
<1>2. /\ Len(handed') = Len(handed) + Len(batch)
      /\ Len(batch) \in 1 .. BatchSize
      /\ Len(handed) + Len(batch) <= Len(accepted)
    <2>1. Len(batch) \in Nat \ {0} /\ Len(batch) <= BatchSize
        BY <1>1, EmptySeq DEF TypeOK, BufTypeOK, WorkerInv
    <2>. QED  BY <1>1, <2>1, FlushKeepsFifo, Lengths, BufferAssumption
<1>3. pc # "done"
    BY <1>1 DEF Flushing
<1>4. Sink!HandOver(Len(batch), ok)
    BY <1>1, <1>2, <1>3 DEF Sink!HandOver
<1>5. pc' = "done" => stopMark >= 0 /\ Len(handed') >= stopMark
    BY <1>1, <1>2 DEF WorkerInv, MarkInv
<1>6. Sink!MayClose
    BY <1>3, <1>5 DEF Sink!MayClose
<1>. QED  BY <1>2, <1>4, <1>6

(* The worker's own moves are invisible, except the one that returns with  *)
(* nothing left to flush.                                                  *)
LEMMA MoveRefines ==
    ASSUME IInv, IInv', Move
    PROVE  Sink!Close
<1>1. /\ UNCHANGED history
      /\ pc # "done"
    BY DEF Move, WorkerMoves, TakeEvent, Tick, SeeCancel, DrainEvent, DrainEnd
<1>2. pc' = "done" => stopMark >= 0 /\ Len(handed') >= stopMark
    BY <1>1 DEF IInv, WorkerInv, MarkInv, history
<1>3. Sink!MayClose
    BY <1>1, <1>2 DEF Sink!MayClose, history
<1>. QED  BY <1>1, <1>3 DEF Sink!Close, history

LEMMA NextRefines ==
    ASSUME IInv, IInv', [Next]_vars
    PROVE  [Sink!Next]_(Sink!sinkVars)
<1>1. CASE \E e \in Event : PushAccepted(e) \/ PushDropped(e)
    BY <1>1, PushRefines, DropRefines DEF Sink!Next
<1>2. CASE Move
    BY <1>2, MoveRefines DEF Sink!Next
<1>3. CASE \E ok \in BOOLEAN : Flush(ok)
    BY <1>3, FlushRefines DEF Sink!Next
<1>4. CASE Stop
    BY <1>4, StopRefines DEF Sink!Next
<1>5. CASE UNCHANGED vars
    BY <1>5 DEF vars, bufVars, history, Sink!sinkVars
<1>. QED  BY <1>1, <1>2, <1>3, <1>4, <1>5 DEF Next, Worker

(* The buffer, channel, batch, worker and all, implements the abstract     *)
(* first-in first-out sink that may lose a whole batch but nothing else.   *)
THEOREM BufferImplementsSink == Spec => ImplementsSink
<1>1. IInv /\ IInv' /\ [Next]_vars => [Sink!Next]_(Sink!sinkVars)
    BY NextRefines
<1>. QED  BY InitRefines, Invariance, <1>1, PTL DEF Spec, ImplementsSink, Sink!Spec
============================================================================
