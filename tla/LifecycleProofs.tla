-------------------------- MODULE LifecycleProofs --------------------------
(***************************************************************************)
(* Theorems about the shutdown, for any number of transcript lines,        *)
(* requests and posts, and any capacity and batch size.                    *)
(*                                                                         *)
(* LossOnlyFromStragglers is not inductive.  It needs that no event        *)
(* disappears before the worker has returned (Conserved), which producers  *)
(* main has already stopped at each of its stages (Stopped), and that what *)
(* is in the channel once the worker has found it empty comes from the     *)
(* others (Left).                                                          *)
(***************************************************************************)
EXTENDS Lifecycle, SequenceTheorems, TLAPS

----------------------------------------------------------------------------
(* The buffer alone, which the program contains: what it holds, its types, *)
(* and the position of its worker.  What is in the channel and the batch   *)
(* matters here, and not its order.                                        *)

(* Moving the head of the channel to the end of the batch.                 *)
LEMMA ReceiveMovesOne ==
    ASSUME NEW S, NEW b \in Seq(S), NEW c \in Seq(S), c # <<>>
    PROVE  /\ Append(b, Head(c)) \in Seq(S)
           /\ Tail(c) \in Seq(S)
           /\ Len(Append(b, Head(c))) = Len(b) + 1
           /\ Len(Tail(c)) = Len(c) - 1
<1>1. Head(c) \in S
    BY HeadTailProperties
<1>. QED  BY <1>1, HeadTailProperties, AppendProperties

(* What a sequence holds, after an Append and without its head.            *)
LEMMA Contents ==
    ASSUME NEW S, NEW s \in Seq(S)
    PROVE  /\ ToSet(<<>>) = {}
           /\ ToSet(s) \subseteq S
           /\ \A e \in S : ToSet(Append(s, e)) = ToSet(s) \cup {e}
           /\ s # <<>> => ToSet(s) = ToSet(Tail(s)) \cup {Head(s)}
<1>1. /\ ToSet(<<>>) = {}
      /\ ToSet(s) \subseteq S
    BY EmptySeq, ElementOfSeq DEF ToSet
<1>2. ASSUME NEW e \in S
      PROVE  ToSet(Append(s, e)) = ToSet(s) \cup {e}
    <2>1. /\ Len(s) \in Nat
          /\ DOMAIN s = 1 .. Len(s)
          /\ DOMAIN Append(s, e) = 1 .. (Len(s) + 1)
          /\ \A i \in 1 .. Len(s) : Append(s, e)[i] = s[i]
          /\ Append(s, e)[Len(s) + 1] = e
        BY AppendProperties, LenProperties
    <2>. QED  BY <2>1 DEF ToSet
<1>3. ASSUME s # <<>>
      PROVE  ToSet(s) = ToSet(Tail(s)) \cup {Head(s)}
    <2>1. /\ Len(s) \in Nat \ {0}
          /\ DOMAIN s = 1 .. Len(s)
          /\ DOMAIN Tail(s) = 1 .. (Len(s) - 1)
          /\ \A i \in 1 .. (Len(s) - 1) : Tail(s)[i] = s[i + 1]
          /\ Head(s) = s[1]
        BY <1>3, EmptySeq, LenProperties, HeadTailProperties
    <2>2. ASSUME NEW x \in ToSet(s), x # Head(s)
          PROVE  x \in ToSet(Tail(s))
        <3>1. PICK i \in 1 .. Len(s) : x = s[i]
            BY <2>1, <2>2 DEF ToSet
        <3>2. i # 1
            BY <2>1, <2>2, <3>1
        <3>3. i - 1 \in 1 .. (Len(s) - 1) /\ x = Tail(s)[i - 1]
            BY <2>1, <3>1, <3>2
        <3>. QED  BY <2>1, <3>3 DEF ToSet
    <2>3. ASSUME NEW x \in ToSet(Tail(s))
          PROVE  x \in ToSet(s)
        <3>1. PICK i \in 1 .. (Len(s) - 1) : x = Tail(s)[i]
            BY <2>1, <2>3 DEF ToSet
        <3>2. i + 1 \in 1 .. Len(s) /\ x = s[i + 1]
            BY <2>1, <3>1
        <3>. QED  BY <2>1, <3>2 DEF ToSet
    <2>4. Head(s) \in ToSet(s)
        BY <2>1 DEF ToSet
    <2>. QED  BY <2>2, <2>3, <2>4
<1>. QED  BY <1>1, <1>2, <1>3

----------------------------------------------------------------------------
(* What is known of the worker's position.  A worker that waits has room   *)
(* in its batch, one that flushes has something to flush, and one that has *)
(* left the outer select was told to stop.                                 *)
WorkerInv ==
    /\ pc \in {"select", "drain"} => Len(batch) < BatchSize
    /\ pc \in Flushing => batch # <<>>
    /\ pc = "done" => batch = <<>>
    /\ pc \in {"drain", "drainFlush", "lastFlush", "done"} => cancelled

BufInv(E) == BufTypeOK(E) /\ WorkerInv

(* One step of the buffer, whoever takes it.                               *)
BufferMoves(E) ==
    \/ \E e \in E : Push(e)
    \/ PushRefused \/ WorkerMoves \/ FlushReturns \/ Cancel \/ UNCHANGED bufVars

LEMMA BufferStarts ==
    ASSUME NEW E, BufInit
    PROVE  BufInv(E)
<1>1. /\ <<>> \in Seq(E)
      /\ Len(<<>>) = 0
    BY EmptySeq
<1>2. 0 <= Capacity /\ 0 < BatchSize /\ 0 <= BatchSize
    BY BufferAssumption
<1>3. BufTypeOK(E)
    BY <1>1, <1>2 DEF BufInit, BufTypeOK, WorkerStates
<1>4. WorkerInv
    BY <1>1, <1>2 DEF BufInit, WorkerInv, Flushing
<1>. QED  BY <1>3, <1>4 DEF BufInv

LEMMA BufferKeepsItsTypes ==
    ASSUME NEW E, BufInv(E), BufferMoves(E)
    PROVE  BufInv(E)'
<1>. USE DEF BufInv
<1>0. /\ Len(chan) \in Nat
      /\ Len(batch) \in Nat
      /\ <<>> \in Seq(E)
      /\ Len(<<>>) = 0
    BY EmptySeq, LenProperties DEF BufTypeOK
<1>1. ASSUME NEW e \in E, Push(e) PROVE BufInv(E)'
    <2>1. Append(chan, e) \in Seq(E) /\ Len(Append(chan, e)) = Len(chan) + 1
        BY AppendProperties DEF BufTypeOK
    <2>. QED  BY <1>0, <1>1, <2>1, BufferAssumption DEF Push, HasRoom, BufTypeOK, WorkerInv
<1>2. CASE TakeEvent \/ DrainEvent
    <2>1. /\ chan # <<>>
          /\ batch' = Append(batch, Head(chan))
          /\ chan' = Tail(chan)
          /\ cancelled' = cancelled
          /\ \/ pc = "select" /\ pc' = IF IsFull(batch') THEN "flush" ELSE "select"
             \/ pc = "drain" /\ pc' = IF IsFull(batch') THEN "drainFlush" ELSE "drain"
        BY <1>2 DEF TakeEvent, DrainEvent
    <2>2. /\ batch' \in Seq(E)
          /\ chan' \in Seq(E)
          /\ Len(batch') = Len(batch) + 1
          /\ Len(chan') = Len(chan) - 1
        BY <2>1, ReceiveMovesOne DEF BufTypeOK
    <2>3. Len(batch) < BatchSize /\ Len(chan) <= Capacity
        BY <2>1 DEF WorkerInv, BufTypeOK
    <2>4. Len(chan') <= Capacity /\ Len(batch') <= BatchSize
        BY <1>0, <2>2, <2>3, BufferAssumption
    <2>5. batch' # <<>>
        BY <1>0, <2>2, EmptySeq
    <2>6. ~IsFull(batch') <=> Len(batch') < BatchSize
        BY <1>0, <2>2, BufferAssumption DEF IsFull
    <2>7. BufTypeOK(E)'
        BY <2>1, <2>2, <2>4 DEF BufTypeOK, WorkerStates, Flushing
    <2>8. WorkerInv'
        BY <2>1, <2>5, <2>6 DEF WorkerInv, Flushing
    <2>. QED  BY <2>7, <2>8
<1>3. CASE Tick \/ SeeCancel \/ DrainEnd
    BY <1>3 DEF Tick, SeeCancel, DrainEnd, BufTypeOK, WorkerInv, WorkerStates, Flushing
<1>4. CASE FlushReturns
    <2>1. /\ UNCHANGED <<chan, cancelled>>
          /\ batch' = <<>>
          /\ \/ pc = "flush" /\ pc' = "select"
             \/ pc = "drainFlush" /\ pc' = "drain"
             \/ pc = "lastFlush" /\ pc' = "done"
        BY <1>4 DEF FlushReturns, Flushing
    <2>. QED  BY <1>0, <2>1, BufferAssumption DEF BufTypeOK, WorkerInv, WorkerStates, Flushing
<1>5. CASE Cancel
    BY <1>5 DEF Cancel, BufTypeOK, WorkerInv
<1>6. CASE PushRefused \/ UNCHANGED bufVars
    BY <1>6 DEF PushRefused, bufVars, BufTypeOK, WorkerInv
<1>. QED  BY <1>1, <1>2, <1>3, <1>4, <1>5, <1>6 DEF BufferMoves, WorkerMoves

(* A worker that moves without flushing keeps what it and the channel hold.*)
LEMMA MovesKeepContents ==
    ASSUME NEW E, BufInv(E), WorkerMoves
    PROVE  ToSet(batch') \cup ToSet(chan') = ToSet(batch) \cup ToSet(chan)
<1>1. CASE TakeEvent \/ DrainEvent
    <2>1. /\ chan # <<>>
          /\ batch' = Append(batch, Head(chan))
          /\ chan' = Tail(chan)
        BY <1>1 DEF TakeEvent, DrainEvent
    <2>2. Head(chan) \in E
        BY <2>1, HeadTailProperties DEF BufInv, BufTypeOK
    <2>3. /\ ToSet(batch') = ToSet(batch) \cup {Head(chan)}
          /\ ToSet(chan) = ToSet(chan') \cup {Head(chan)}
        BY <2>1, <2>2, Contents DEF BufInv, BufTypeOK
    <2>. QED  BY <2>3
<1>2. CASE Tick \/ SeeCancel \/ DrainEnd
    BY <1>2 DEF Tick, SeeCancel, DrainEnd
<1>. QED  BY <1>1, <1>2 DEF WorkerMoves

----------------------------------------------------------------------------
(* The shutdown.                                                           *)

Straggler == Requests \cup (IF expired THEN Posts ELSE {})

Conserved == accepted = handed \cup ToSet(batch) \cup ToSet(chan)

Stopped ==
    /\ cancelled => main \in {"buf.Stop"} \cup Drained
    /\ main \notin {"run", "tailer.Stop"} => poll = "done"
    /\ main \in {"buf.Stop"} \cup Drained => Quiet(Posts) \/ expired
    /\ main \in Drained => pc = "done"

Closing == pc \in {"lastFlush", "done"}
Left == Closing => ToSet(chan) \subseteq Straggler

Saved == main \in {"store.Close", "exited"} /\ final = "done" => snapshot = handed

IInv == TypeOK /\ WorkerInv /\ Conserved /\ Stopped /\ Left /\ Saved

----------------------------------------------------------------------------
LEMMA InitIInv == Init => IInv
<1> SUFFICES ASSUME Init PROVE IInv OBVIOUS
<1>1. BufInv(Event)
  BY BufferStarts DEF Init
<1>2. ToSet(<<>>) = {} /\ chan = <<>> /\ batch = <<>> /\ pc = "select" /\ ~cancelled
  BY Contents, EmptySeq DEF Init, BufInit
<1>3. TypeOK /\ WorkerInv
  BY <1>1 DEF BufInv, TypeOK, Init, Running
<1>4. Conserved /\ Stopped /\ Left /\ Saved
  BY <1>2 DEF Init, Conserved, Stopped, Left, Closing, Saved, Drained
<1> QED BY <1>3, <1>4 DEF IInv

(* The buffer's own part of the invariant survives any step of the program.*)
LEMMA BufferPart ==
  ASSUME IInv, BufferMoves(Event)
  PROVE  BufTypeOK(Event)' /\ WorkerInv'
BY BufferKeepsItsTypes DEF IInv, TypeOK, BufInv

(* An offered event is refused, or it is accepted and in the channel.      *)
LEMMA OfferKeeps ==
  ASSUME IInv, NEW e \in Event, Offer(e), e \in Straggler \/ ~Closing, UNCHANGED handed
  PROVE  /\ BufferMoves(Event)
         /\ UNCHANGED <<batch, pc, cancelled>>
         /\ handed \subseteq accepted' /\ accepted' \subseteq pushed' /\ pushed' \subseteq Event
         /\ Conserved'
         /\ Closing => ToSet(chan') \subseteq Straggler
<1> USE DEF IInv, TypeOK
<1>1. CASE Push(e) /\ accepted' = accepted \cup {e}
  <2>1. chan' = Append(chan, e) /\ UNCHANGED <<batch, pc, cancelled>>
    BY <1>1 DEF Push
  <2>2. ToSet(chan') = ToSet(chan) \cup {e}
    BY <2>1, Contents DEF BufTypeOK
  <2> QED BY <1>1, <2>1, <2>2 DEF BufferMoves, Offer, Conserved, Left, Closing
<1>2. CASE PushRefused /\ UNCHANGED accepted
  BY <1>2 DEF BufferMoves, Offer, Conserved, Left, Closing, PushRefused, bufVars
<1> QED BY <1>1, <1>2 DEF Offer

----------------------------------------------------------------------------
(* The poll loop pushes only while main still waits for it.                *)
LEMMA PollStep == ASSUME IInv, Poll PROVE IInv'
<1> USE DEF IInv, TypeOK
<1>0. UNCHANGED <<main, expired, handler, parser, final, snapshot, handed>>
  BY DEF Poll, control, web, backups
<1>1. CASE PollPush
  <2>1. PICK e \in Lines \ pushed : Offer(e)
    BY <1>1 DEF PollPush
  <2>2. e \in Event /\ poll = "scan" /\ poll' = poll
    BY <1>1 DEF PollPush, Event
  <2>3. ~Closing
    BY <2>2 DEF Stopped, WorkerInv, Drained, Closing
  <2>4. /\ BufferMoves(Event)
        /\ UNCHANGED <<batch, pc, cancelled>>
        /\ handed \subseteq accepted' /\ accepted' \subseteq pushed' /\ pushed' \subseteq Event
        /\ Conserved'
    BY <1>0, <2>1, <2>2, <2>3, OfferKeeps
  <2>5. BufTypeOK(Event)' /\ WorkerInv'
    BY <2>4, BufferPart
  <2>6. TypeOK' BY <1>0, <2>2, <2>4, <2>5
  <2>7. Stopped' /\ Left' /\ Saved'
    BY <1>0, <2>2, <2>3, <2>4 DEF Stopped, Left, Closing, Saved, Quiet
  <2> QED BY <2>4, <2>5, <2>6, <2>7
<1>2. CASE PollScan \/ PollScanned \/ PollReturns
  <2>1. UNCHANGED <<bufVars, offers>> /\ poll' \in {"select", "scan", "done"}
        /\ (poll = "done" => poll' = "done")
    BY <1>2 DEF PollScan, PollScanned, PollReturns
  <2>2. BufTypeOK(Event)' /\ WorkerInv'
    BY <2>1, BufferPart DEF BufferMoves
  <2>3. TypeOK'
    BY <1>0, <2>1, <2>2 DEF offers
  <2>4. Conserved' /\ Stopped' /\ Left' /\ Saved'
    BY <1>0, <2>1 DEF bufVars, offers, Conserved, Stopped, Left, Closing, Saved, Quiet, Straggler
  <2> QED BY <2>2, <2>3, <2>4
<1> QED BY <1>1, <1>2 DEF Poll

(* A handler starts only while its server listens, and a post is pushed by *)
(* its own handler; requests are pushed by goroutines nobody waits for.    *)
LEMMA ServeStep == ASSUME IInv, Serve PROVE IInv'
<1> USE DEF IInv, TypeOK
<1>0. UNCHANGED <<main, expired, poll, final, snapshot, handed>>
  BY DEF Serve, control, backups
<1>1. ASSUME NEW r \in Served,
             UNCHANGED <<bufVars, offers>>,
             parser' \in [Requests -> {"none", "parsing", "done"}],
             handler' \in [Served -> {"none", "serving", "replying", "done"}],
             main \in {"buf.Stop"} \cup Drained => Quiet(Posts)' \/ expired
      PROVE  IInv'
  <2>1. BufTypeOK(Event)' /\ WorkerInv'
    BY <1>1, BufferPart DEF BufferMoves
  <2>2. TypeOK' BY <1>0, <1>1, <2>1 DEF offers
  <2>3. Conserved' /\ Stopped' /\ Left' /\ Saved'
    BY <1>0, <1>1 DEF bufVars, offers, Conserved, Stopped, Left, Closing, Saved, Straggler
  <2> QED BY <2>1, <2>2, <2>3
<1>2. ASSUME NEW e \in Served, Offer(e), e \in Straggler \/ ~Closing,
             parser' \in [Requests -> {"none", "parsing", "done"}],
             handler' \in [Served -> {"none", "serving", "replying", "done"}],
             main \in {"buf.Stop"} \cup Drained => Quiet(Posts)' \/ expired
      PROVE  IInv'
  <2>1. e \in Event BY DEF Served, Event
  <2>2. /\ BufferMoves(Event)
        /\ UNCHANGED <<batch, pc, cancelled>>
        /\ handed \subseteq accepted' /\ accepted' \subseteq pushed' /\ pushed' \subseteq Event
        /\ Conserved'
        /\ Closing => ToSet(chan') \subseteq Straggler
    BY <1>0, <1>2, <2>1, OfferKeeps
  <2>3. BufTypeOK(Event)' /\ WorkerInv'
    BY <2>2, BufferPart
  <2>4. TypeOK' BY <1>0, <1>2, <2>2, <2>3
  <2>5. Stopped' /\ Left' /\ Saved'
    BY <1>0, <1>2, <2>2 DEF Stopped, Left, Closing, Saved, Straggler
  <2> QED BY <2>2, <2>3, <2>4, <2>5
<1>3. ASSUME NEW r \in Served, Accept(r) PROVE IInv'
  <2>1. main \in {"buf.Stop"} \cup Drained => r \notin Posts /\ FALSE
    BY <1>3 DEF Accept, Listening, Drained
  <2> QED BY <1>1, <1>3, <2>1 DEF Accept
<1>4. ASSUME NEW r \in Served, Reply(r) PROVE IInv'
  <2>1. Quiet(Posts) => Quiet(Posts)'
    BY <1>4 DEF Reply, Quiet, Served
  <2> QED BY <1>1, <1>4, <2>1 DEF Reply, Stopped
<1>5. ASSUME NEW r \in Requests, ModifyResponse(r) PROVE IInv'
  <2>1. r \in Served BY DEF Served
  <2>2. Quiet(Posts) => Quiet(Posts)'
    BY <1>5 DEF ModifyResponse, Quiet, Served
  <2> QED BY <1>1, <1>5, <2>1, <2>2 DEF ModifyResponse, Stopped
<1>6. ASSUME NEW r \in Requests, Record(r) PROVE IInv'
  <2>1. r \in Served /\ r \in Straggler BY DEF Served, Straggler
  <2>2. /\ UNCHANGED handler
        /\ parser' \in [Requests -> {"none", "parsing", "done"}]
        /\ Offer(r) \/ UNCHANGED <<bufVars, offers>>
    BY <1>6 DEF Record
  <2>3. main \in {"buf.Stop"} \cup Drained => Quiet(Posts)' \/ expired
    BY <2>2 DEF Stopped, Quiet
  <2> QED BY <1>1, <1>2, <2>1, <2>2, <2>3
<1>7. ASSUME NEW r \in Posts, Simulate(r) PROVE IInv'
  <2>1. r \in Served BY DEF Served
  <2>2. handler[r] = "serving" BY <1>7 DEF Simulate
  <2>3. expired \/ main \notin {"buf.Stop"} \cup Drained
    BY <2>2 DEF Stopped, Quiet
  <2>4. r \in Straggler \/ ~Closing
    BY <2>3 DEF Straggler, Stopped, WorkerInv, Closing
  <2> QED BY <1>2, <1>7, <2>1, <2>3, <2>4 DEF Simulate
<1> QED BY <1>3, <1>4, <1>5, <1>6, <1>7 DEF Serve

----------------------------------------------------------------------------
(* The worker moves events on, writes them, and returns on an empty channel*)
LEMMA WorkerStep == ASSUME IInv, Worker PROVE IInv'
<1> USE DEF IInv, TypeOK
<1>0. UNCHANGED <<main, expired, poll, handler, parser, final, snapshot, pushed, accepted>>
  BY DEF Worker, control, web, backups, offers
<1>1. BufTypeOK(Event)' /\ WorkerInv'
  BY BufferPart DEF Worker, BufferMoves
<1>2. pc # "done" /\ UNCHANGED cancelled
  BY DEF Worker, WorkerMoves, TakeEvent, Tick, SeeCancel, DrainEvent, DrainEnd, FlushReturns,
      Flushing
<1>3. main \notin Drained /\ main' \notin Drained
  BY <1>0, <1>2 DEF Stopped
<1>4. Stopped' /\ Saved'
  BY <1>0, <1>2, <1>3 DEF Stopped, Saved, Quiet, Drained
<1>5. CASE WorkerMoves /\ UNCHANGED handed
  <2>1. Conserved'
    BY <1>0, <1>5, MovesKeepContents DEF Conserved, BufInv
  <2>2. Closing' => chan' = <<>>
    BY <1>2, <1>5 DEF WorkerMoves, TakeEvent, Tick, SeeCancel, DrainEvent, DrainEnd, Closing
  <2>3. Left'
    BY <2>2, Contents, EmptySeq DEF Left
  <2>4. TypeOK' BY <1>0, <1>1, <1>5
  <2> QED BY <1>1, <1>4, <2>1, <2>3, <2>4
<1>6. CASE FlushReturns /\ handed' = handed \cup ToSet(batch)
  <2>1. chan' = chan /\ batch' = <<>> /\ (pc' = "done" => pc = "lastFlush")
        /\ pc' # "lastFlush"
    BY <1>6 DEF FlushReturns, Flushing
  <2>2. ToSet(batch') = {}
    BY <2>1, Contents, EmptySeq
  <2>3. ToSet(batch) \subseteq accepted
    BY DEF Conserved
  <2>4. Conserved' BY <1>0, <1>6, <2>1, <2>2 DEF Conserved
  <2>5. Left' BY <1>0, <2>1 DEF Left, Closing, Straggler
  <2>6. TypeOK'
    <3>1. main \notin Drained BY <1>3
    <3> QED BY <1>0, <1>1, <1>6, <2>3 DEF TypeOK
  <2> QED BY <1>1, <1>4, <2>4, <2>5, <2>6
<1> QED BY <1>5, <1>6 DEF Worker

----------------------------------------------------------------------------
(* main moves to the next stage only when the producers of the last one are*)
(* quiet, or when the context has expired.                                 *)
LEMMA MainStep == ASSUME IInv, Main PROVE IInv'
<1> USE DEF IInv, TypeOK
<1>0. UNCHANGED <<expired, poll, handler, parser, pushed, accepted, handed>>
  BY DEF Main, web, offers
<1>1. BufTypeOK(Event)' /\ WorkerInv'
  BY BufferPart DEF Main, BufferMoves, Signal, TailerStopped, ProxyShutdown, DashShutdown,
      BufStopped, FinalBackup, Exit
<1>2. UNCHANGED <<chan, batch, pc>>
  BY DEF Main, Signal, TailerStopped, ProxyShutdown, DashShutdown, BufStopped, FinalBackup,
      Exit, Cancel, bufVars
<1>3. Conserved' /\ Left'
  BY <1>0, <1>2 DEF Conserved, Left, Closing, Straggler
<1>4. CASE Signal \/ TailerStopped \/ ProxyShutdown \/ BufStopped \/ Exit
  <2>1. UNCHANGED <<cancelled, final, snapshot>>
    BY <1>4 DEF Main, Signal, TailerStopped, ProxyShutdown, DashShutdown, BufStopped,
        FinalBackup, Exit, From, bufVars
  <2>2. main' \in Running \cup Drained
    BY <1>4 DEF Signal, TailerStopped, ProxyShutdown, BufStopped, Exit, From, Running, Drained
  <2>3. Stopped' /\ Saved'
    BY <1>0, <1>2, <1>4, <2>1 DEF Signal, TailerStopped, ProxyShutdown, BufStopped, Exit, From,
        Stopped, Saved, Drained, Quiet, StopReturns
  <2> QED BY <1>0, <1>1, <1>2, <1>3, <2>1, <2>2, <2>3
<1>5. CASE DashShutdown
  <2>1. UNCHANGED <<final, snapshot>> /\ cancelled' = TRUE
    BY <1>5 DEF Main, DashShutdown, FinalBackup, From, Cancel
  <2>2. main = "dash.Shutdown" /\ main' = "buf.Stop"
    BY <1>5 DEF DashShutdown, From
  <2>3. Stopped' /\ Saved'
    BY <1>0, <1>2, <1>5, <2>1, <2>2 DEF DashShutdown, Stopped, Saved, Drained, Quiet
  <2> QED BY <1>0, <1>1, <1>2, <1>3, <2>1, <2>2, <2>3 DEF Running
<1>6. CASE FinalBackup
  <2>1. main = "backup" /\ main' = "store.Close" /\ UNCHANGED bufVars
        /\ \/ final' = "done" /\ snapshot' = handed
           \/ final' = "failed" /\ snapshot' = snapshot
    BY <1>6 DEF FinalBackup, From
  <2>2. Stopped' /\ Saved'
    BY <1>0, <2>1 DEF Stopped, Saved, Drained, Quiet, bufVars
  <2> QED BY <1>0, <1>1, <1>2, <1>3, <2>1, <2>2 DEF Drained
<1> QED BY <1>4, <1>5, <1>6 DEF Main

LEMMA ExpireStep == ASSUME IInv, Expire PROVE IInv'
<1> USE DEF IInv, TypeOK
<1>1. expired' = TRUE
      /\ UNCHANGED <<bufVars, main, poll, handler, parser, final, snapshot, pushed,
                     accepted, handed>>
  BY DEF Expire, web, backups, offers
<1>2. BufTypeOK(Event)' /\ WorkerInv'
  BY <1>1, BufferPart DEF BufferMoves
<1>3. Conserved' /\ Stopped' /\ Left' /\ Saved'
  BY <1>1 DEF bufVars, Conserved, Stopped, Left, Closing, Saved, Straggler
<1> QED BY <1>1, <1>2, <1>3

LEMMA StutterStep == ASSUME IInv, UNCHANGED vars PROVE IInv'
<1> USE DEF IInv, TypeOK
<1>1. UNCHANGED <<bufVars, main, expired, poll, handler, parser, final, snapshot, pushed,
                  accepted, handed>>
  BY DEF vars, control, web, backups, offers
<1>2. BufTypeOK(Event)' /\ WorkerInv'
  BY <1>1, BufferPart DEF BufferMoves
<1>3. Conserved' /\ Stopped' /\ Left' /\ Saved'
  BY <1>1 DEF bufVars, Conserved, Stopped, Left, Closing, Saved, Straggler, Quiet
<1> QED BY <1>1, <1>2, <1>3

----------------------------------------------------------------------------
(* The invariant of the proofs holds in every reachable state.             *)
THEOREM Invariance == Spec => []IInv
<1>1. IInv /\ [Next]_vars => IInv'
  BY PollStep, ServeStep, WorkerStep, MainStep, ExpireStep, StutterStep DEF Next
<1> QED BY InitIInv, <1>1, PTL DEF Spec

(* The variables keep their types; what is written was accepted, what was  *)
(* accepted was offered, and the backup holds nothing that was not written.*)
THEOREM TypeCorrect == Spec => []TypeOK
<1>1. IInv => TypeOK BY DEF IInv
<1> QED BY Invariance, <1>1, PTL

(* Once buf.Stop has returned, an accepted event that is not written is a  *)
(* proxied request's, or a post's when the context expired: nothing the    *)
(* poll loop found is lost, however the goroutines are scheduled.          *)
THEOREM OnlyStragglersLost == Spec => []LossOnlyFromStragglers
<1>1. ASSUME IInv, main \in Drained
      PROVE  accepted \ handed \subseteq Straggler
  <2>1. pc = "done" /\ batch = <<>>
    BY <1>1 DEF IInv, Stopped, WorkerInv
  <2>2. ToSet(batch) = {}
    BY <2>1, Contents, EmptySeq
  <2>3. accepted \subseteq handed \cup ToSet(chan) /\ ToSet(chan) \subseteq Straggler
    BY <1>1, <2>1, <2>2 DEF IInv, Conserved, Left, Closing
  <2> QED BY <2>3
<1>2. IInv => LossOnlyFromStragglers
  BY <1>1 DEF LossOnlyFromStragglers, Straggler
<1> QED BY Invariance, <1>2, PTL

(* The last backup is taken after the worker's last write.                 *)
THEOREM LastBackupHasAll == Spec => []FinalBackupIsLast
<1>1. IInv => FinalBackupIsLast
  BY DEF IInv, Stopped, Saved, FinalBackupIsLast, Drained
<1> QED BY Invariance, <1>1, PTL
============================================================================
