---------------------------- MODULE UsageLedger ----------------------------
(***************************************************************************)
(* What the collection of usage promises to a reader of the log, whatever  *)
(* offsets, buffers, batches and restarts there are inside: the books of   *)
(* an accountant who is told of events while they happen.                  *)
(*                                                                         *)
(*   - an event is in the books only if it happened, and stays in them;    *)
(*   - an event that was taken off the desk is in the books, on its way to *)
(*     them, or written off, and what is on its way ends in one of the     *)
(*     other two, by a transaction that succeeds or fails as a whole;      *)
(*   - only a restart forgets what is on its way; it puts it on the desk   *)
(*     again, or writes it off;                                            *)
(*   - an event that was written off may be booked later after all.        *)
(***************************************************************************)
CONSTANT Event

VARIABLES
    happened,   (* the events there were so far                             *)
    taken,      (* those that are no longer on the desk to be collected     *)
    coming,     (* those on their way to the books                          *)
    booked,     (* those in the books                                       *)
    lost        (* those written off                                        *)

ledger == <<happened, taken, coming, booked, lost>>

Init ==
    /\ happened = {} /\ taken = {} /\ coming = {} /\ booked = {} /\ lost = {}

Grows(old, new) == new \in SUBSET Event /\ old \subseteq new

Happen ==
    /\ Grows(happened, happened')
    /\ UNCHANGED <<taken, coming, booked, lost>>

(* One event is sent on its way, or refused; it may leave the desk now or  *)
(* later.                                                                  *)
Collect(e) ==
    /\ happened' = happened \cup {e}
    /\ taken' \in {taken, taken \cup {e}}
    /\ \/ coming' = coming \cup {e} /\ lost' = lost
       \/ coming' = coming /\ lost' = lost \cup {e}
    /\ booked' = booked

(* Events leave the desk that have been dealt with, or are written off.    *)
Clear ==
    /\ Grows(lost, lost')
    /\ Grows(taken, taken')
    /\ taken' \ taken \subseteq happened \cap (booked \cup coming \cup lost')
    /\ UNCHANGED <<happened, coming, booked>>

(* A transaction, of events that came by the way or around it, some of     *)
(* which may be on their way a second time.                                *)
Book(E) ==
    /\ E \subseteq happened
    /\ booked' = booked \cup E
    /\ coming' \in SUBSET coming /\ coming \ coming' \subseteq E
    /\ UNCHANGED <<happened, taken, lost>>

Fail(E) ==
    /\ E \subseteq coming
    /\ lost' = lost \cup E
    /\ coming' \in SUBSET coming /\ coming \ coming' \subseteq E
    /\ UNCHANGED <<happened, taken, booked>>

Restart ==
    /\ coming' = {}
    /\ Grows(lost, lost')
    /\ taken' \in SUBSET (happened \cap (booked \cup lost'))
    /\ UNCHANGED <<happened, booked>>

Next ==
    \/ Happen \/ Clear \/ Restart
    \/ \E e \in Event : Collect(e)
    \/ \E E \in SUBSET Event : Book(E) \/ Fail(E)

Spec == Init /\ [][Next]_ledger
============================================================================
