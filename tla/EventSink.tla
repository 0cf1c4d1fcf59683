----------------------------- MODULE EventSink -----------------------------
(***************************************************************************)
(* What the buffer promises to its callers, whatever its channel, batch    *)
(* and worker look like inside: a lossy first-in first-out sink.           *)
(*                                                                         *)
(*   - an accepted event is handed to the storage once, in order of        *)
(*     acceptance, in groups of at most BatchSize that are stored or lost  *)
(*     together;                                                           *)
(*   - an event is refused only while Capacity accepted events wait;       *)
(*   - the sink closes only after it was asked to, and only when all that  *)
(*     was accepted before the request has been handed over.               *)
(***************************************************************************)
EXTENDS Integers, Sequences

CONSTANTS Event, Capacity, BatchSize

VARIABLES
    accepted,   (* the events accepted so far, in order                     *)
    handed,     (* how many of them the storage was handed                  *)
    lostAt,     (* the positions of those that the storage failed to keep   *)
    refused,    (* the events turned away                                   *)
    stopMark,   (* Len(accepted) when the stop was requested, -1 before     *)
    closed      (* nothing is handed over any more                          *)

sinkVars == <<accepted, handed, lostAt, refused, stopMark, closed>>

Init ==
    /\ accepted = <<>>
    /\ handed = 0
    /\ lostAt = {}
    /\ refused = {}
    /\ stopMark = -1
    /\ closed = FALSE

(* Acceptance does not look at stopMark or closed: the code's Push accepts *)
(* events that nobody will ever hand over.                                 *)
Accept(e) ==
    /\ accepted' = Append(accepted, e)
    /\ UNCHANGED <<handed, lostAt, refused, stopMark, closed>>

Refuse(e) ==
    /\ Len(accepted) - handed >= Capacity
    /\ refused' = refused \cup {e}
    /\ UNCHANGED <<accepted, handed, lostAt, stopMark, closed>>

HandOver(n, ok) ==
    /\ ~closed
    /\ handed + n <= Len(accepted)
    /\ handed' = handed + n
    /\ lostAt' = IF ok THEN lostAt ELSE lostAt \cup ((handed + 1) .. (handed + n))
    /\ UNCHANGED <<accepted, refused, stopMark>>

(* The last group may be handed over in the step that closes the sink.     *)
MayClose ==
    /\ closed' \in BOOLEAN
    /\ closed' => closed \/ (stopMark >= 0 /\ handed' >= stopMark)
    /\ closed => closed'

RequestStop ==
    /\ stopMark = -1
    /\ stopMark' = Len(accepted)
    /\ UNCHANGED <<accepted, handed, lostAt, refused, closed>>

Close ==
    /\ MayClose
    /\ UNCHANGED <<accepted, handed, lostAt, refused, stopMark>>

Next ==
    \/ \E e \in Event : Accept(e) \/ Refuse(e)
    \/ \E n \in 1 .. BatchSize, ok \in BOOLEAN : HandOver(n, ok) /\ MayClose
    \/ RequestStop
    \/ Close

Spec == Init /\ [][Next]_sinkVars
============================================================================
