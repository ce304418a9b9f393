--------------------------- MODULE LifecycleEvents ---------------------------
(***************************************************************************)
(* Which notification each step of a booking makes.  The platform runs a   *)
(* trigger for every write of the booking, in any order and perhaps more   *)
(* than once; the handler of updates drops the event when it fails.  An    *)
(* operator may reconcile: read the booking and make the notifications its *)
(* history says are missing.  A notification's id is derived from the      *)
(* event, the booking and the recipient, so that making it again changes   *)
(* nothing.                                                                *)
(***************************************************************************)
EXTENDS Integers, Sequences

VARIABLES
  history,        \* statusHistory of the booking: [status, by]
  triggers,       \* entries of it whose trigger has not been handled
  notifications,  \* canonical notifications of the booking: [event, to]
  scan            \* a reconciliation: the history it read, the entries to go

vars == <<history, triggers, notifications, scan>>

Party == {"sender", "traveler"}
Other(party) == CHOOSE p \in Party : p # party

\* The steps of a booking and who may take them
Step == {
  <<"pending", "accepted", "traveler">>, <<"pending", "declined", "traveler">>,
  <<"pending", "cancelled", "sender">>, <<"accepted", "cancelled", "sender">>,
  <<"accepted", "cancelled", "traveler">>, <<"accepted", "in_transit", "traveler">>,
  <<"in_transit", "delivered", "traveler">>, <<"delivered", "completed", "sender">>}

\* The event of a step, named after the status it ends in.  The one of a new
\* booking is not a step.
EventOf(from, to) ==
  IF to = "cancelled" THEN "booking.cancelled"
  ELSE IF to = "in_transit" THEN "package.picked_up"
  ELSE IF to = "delivered" THEN "package.delivered"
  ELSE IF to = "completed" THEN "shipment.completed"
  ELSE IF to = "accepted" THEN "booking.accepted" ELSE "booking.declined"

\* Who is told: fixed by the event, except that an accepted booking may be
\* cancelled by either party, told from the last entry of the history.
RecipientMutant(from, entry) ==
  IF entry.status \in {"completed", "cancelled"} THEN "traveler" ELSE "sender"
Recipient(from, entry) ==
  IF from = "accepted" /\ entry.status = "cancelled"
  THEN IF entry.by = "traveler" THEN "sender" ELSE "traveler"
  ELSE IF entry.status \in {"completed", "cancelled"} THEN "traveler" ELSE "sender"

\* What a trigger or a reconciliation makes of entry i of a history; it fails
\* unless the actor the event implies made the entry.
NotificationOf(h, i) ==
  IF i = 1 THEN [event |-> "booking.requested", to |-> "traveler"]
  ELSE [event |-> EventOf(h[i - 1].status, h[i].status), to |-> Recipient(h[i - 1].status, h[i])]

ValidEntry(h, i) == h[i].by = Other(NotificationOf(h, i).to)

Materialized(h, i) ==
  IF ValidEntry(h, i) THEN notifications \cup {NotificationOf(h, i)} ELSE notifications

-----------------------------------------------------------------------------
NoScan == [read |-> <<>>, left |-> {}]

Init ==
  /\ history = <<[status |-> "pending", by |-> "sender"]>>
  /\ triggers = {1}
  /\ notifications = {} /\ scan = NoScan

\* A transaction of the server moves the booking
MoveBooking(to, by) ==
  LET n == Len(history) IN
  /\ <<history[n].status, to, by>> \in Step
  /\ history' = Append(history, [status |-> to, by |-> by])
  /\ triggers' = triggers \cup {n + 1}
  /\ UNCHANGED <<notifications, scan>>

\* A trigger sees the booking as it was before and after its own write.  The
\* platform may run it again.
HandleTrigger(i) ==
  /\ i \in triggers
  /\ notifications' = Materialized(history, i)
  /\ triggers' \in {triggers, triggers \ {i}}
  /\ UNCHANGED <<history, scan>>

\* The dispatch of an update fails, and its handler swallows the error
SwallowFailure(i) ==
  /\ i \in triggers \ {1}
  /\ triggers' = triggers \ {i}
  /\ UNCHANGED <<history, notifications, scan>>

\* A reconciliation reads the booking once
StartReconciliation ==
  /\ scan.left = {}
  /\ scan' = [read |-> history, left |-> DOMAIN history]
  /\ UNCHANGED <<history, triggers, notifications>>

\* It goes through the entries in order and dispatches what is missing
ReconcileEntry ==
  \E i \in scan.left :
    /\ \A j \in scan.left : i <= j
    /\ notifications' = Materialized(scan.read, i)
    /\ scan' = [scan EXCEPT !.left = @ \ {i}]
    /\ UNCHANGED <<history, triggers>>

\* An error ends it between two entries
AbortReconciliation ==
  /\ scan.left # {}
  /\ scan' = NoScan
  /\ UNCHANGED <<history, triggers, notifications>>

Next ==
  \/ \E step \in Step : MoveBooking(step[2], step[3])
  \/ \E i \in triggers : HandleTrigger(i) \/ SwallowFailure(i)
  \/ StartReconciliation \/ ReconcileEntry \/ AbortReconciliation

Spec == Init /\ [][Next]_vars

-----------------------------------------------------------------------------
\* A reconciliation leaves no step that it read without the notification that
\* tells the party who did not take it, whichever triggers failed
\* (reconcileBookingLifecycleNotifications).
ReconciledAll ==
  scan.left = {} => \A i \in DOMAIN scan.read :
    \E n \in notifications : n = NotificationOf(scan.read, i) /\ n.to # scan.read[i].by
=============================================================================
