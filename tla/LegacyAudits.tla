---------------------------- MODULE LegacyAudits ----------------------------
(***************************************************************************)
(* The two read-only audits that operators run over the bookings:          *)
(* LegacyCustodyReconciler and SafetySnapshotReconciler.  They read whole  *)
(* collections, one query after the other or several at once, while the    *)
(* system goes on, and report anomalies.  Anomalies that ids derived from  *)
(* the booking exclude (duplicate events, another shipment, a snapshot     *)
(* without its fields) are left out.                                       *)
(***************************************************************************)
EXTENDS BookingLifecycle, Sequences

VARIABLES
  bookingsRead,    \* what the custody audit has read of the bookings, or None
  safetyRead,      \* what the safety audit has read: collection -> contents
  custodyReport,   \* anomalies of the last custody audit: [type, booking, event]
  safetyReport     \* anomalies of the last safety audit: [type, booking]

auditVars == <<bookingsRead, safetyRead, custodyReport, safetyReport>>

-----------------------------------------------------------------------------
\* Document ids in the parts that "__" separates
BookingIdParts(b) ==
  IF b[3] = 1 THEN <<"booking", b[1], b[2]>> ELSE <<"booking", b[1], b[2], b[3]>>
EventIdParts(b, e) == Append(BookingIdParts(b), e)

\* The audit takes the first two parts of an event's id for its booking and
\* its type.
BookingMismatch(b, e) == <<EventIdParts(b, e)[1]>> # BookingIdParts(b)
EventTypeMismatch(b, e) == EventIdParts(b, e)[2] # e

\* What must have been recorded with, and before, an event
Required(status) ==
  CASE status = "accepted" -> {"traveler_accepted"}
    [] status = "in_transit" -> {"traveler_accepted", "pickup_confirmed"}
    [] status \in {"delivered", "completed"} ->
         {"traveler_accepted", "pickup_confirmed", "delivery_confirmed"}
    [] OTHER -> {}

Predecessor ==
  [delivery_confirmed |-> "pickup_confirmed", pickup_confirmed |-> "traveler_accepted",
   airport_arrival |-> "airport_departure", airport_departure |-> "pickup_confirmed"]

RecordedEvents == {x \in BookingId \X EventType : Recorded(x[1], x[2])}

\* The anomalies in the events as they are now, against the bookings read
CustodyAnomalies(bookings) ==
  LET anomaly(type, b, e) == [type |-> type, booking |-> b, event |-> e]
      known(b) == bookings[b].status # "absent"
      events == RecordedEvents
  IN {anomaly("booking_mismatch", x[1], x[2]) : x \in {y \in events : BookingMismatch(y[1], y[2])}}
     \cup {anomaly("event_type_mismatch", x[1], x[2])
             : x \in {y \in events : EventTypeMismatch(y[1], y[2])}}
     \cup {anomaly("orphan_event", x[1], x[2]) : x \in {y \in events : ~known(y[1])}}
     \cup {anomaly("invalid_sequence", x[1], x[2])
             : x \in {y \in events : /\ known(y[1]) /\ y[2] \in DOMAIN Predecessor
                                     /\ ~Recorded(y[1], Predecessor[y[2]])}}
     \cup {anomaly("missing_event", x[1], x[2])
             : x \in {y \in (BookingId \X EventType) \ events :
                        known(y[1]) /\ y[2] \in Required(bookings[y[1]].status)}}

\* A snapshot is that of its booking and holds the weight the booking reserves
SnapshotMismatch(read, b) ==
  /\ read.snapshots[b] # None /\ read.bookings[b].reserved # None
  /\ read.snapshots[b].weight # read.bookings[b].reserved

HeldIn(read, s) == \E h \in HoldId : h[2] = s /\ read.holds[h] = "active"
DecisionsIn(read, s) == {read.reviews[r].decision : r \in {x \in ReviewId : x[2] = s}}

BlockingReview(read, s) ==
  \/ "rejected" \in DecisionsIn(read, s)
  \/ "needs_more_information" \in DecisionsIn(read, s) /\ "approved" \notin DecisionsIn(read, s)

SafetyAnomalies(read) ==
  LET committed == {b \in BookingId : read.bookings[b].status \in Committed}
      moving    == {b \in committed : read.bookings[b].status \in {"accepted", "in_transit"}}
      anomalies(type, bookings) == {[type |-> type, booking |-> b] : b \in bookings}
  IN anomalies("missing_snapshot", {b \in committed : read.snapshots[b] = None})
     \cup anomalies("snapshot_mismatch", {b \in committed : SnapshotMismatch(read, b)})
     \cup anomalies("active_hold_on_accepted_booking", {b \in moving : HeldIn(read, b[1])})
     \cup anomalies("blocking_review_on_accepted_booking",
                    {b \in moving : BlockingReview(read, b[1])})

-----------------------------------------------------------------------------
Collection == {"bookings", "snapshots", "holds", "reviews"}
NothingRead == [c \in Collection |-> None]

AuditInit ==
  /\ Init
  /\ bookingsRead = None /\ safetyRead = NothingRead
  /\ custodyReport = {} /\ safetyReport = {}

ReadBookings ==
  /\ bookingsRead = None
  /\ bookingsRead' = booking
  /\ UNCHANGED <<vars, safetyRead, custodyReport, safetyReport>>

\* The events are read next, and the report is made
ReadCustodyEvents ==
  /\ bookingsRead # None
  /\ custodyReport' = CustodyAnomalies(bookingsRead)
  /\ bookingsRead' = None
  /\ UNCHANGED <<vars, safetyRead, safetyReport>>

Contents == [bookings |-> booking, snapshots |-> snapshot, holds |-> hold, reviews |-> review]

\* The safety audit has four queries under way, which answer in any order
AnswerQuery(c) ==
  LET read == [safetyRead EXCEPT ![c] = Contents[c]]
      done == \A d \in Collection : read[d] # None
  IN /\ safetyRead[c] = None
     /\ safetyRead' = IF done THEN NothingRead ELSE read
     /\ safetyReport' = IF done THEN SafetyAnomalies(read) ELSE safetyReport
     /\ UNCHANGED <<vars, bookingsRead, custodyReport>>

CustodyAuditNext ==
  \/ Next /\ UNCHANGED auditVars
  \/ ReadBookings \/ ReadCustodyEvents

SafetyAuditNext ==
  \/ Next /\ UNCHANGED auditVars
  \/ \E c \in Collection : AnswerQuery(c)

-----------------------------------------------------------------------------
\* What the custody audit holds against the sequence of events of a booking
\* made by the server is a false alarm of one kind: the booking was created
\* between the two queries.
SequencesClean ==
  \A a \in custodyReport :
    \/ a.type \in {"booking_mismatch", "event_type_mismatch"}
    \/ a.type = "orphan_event" /\ booking[a.booking].status # "absent"

\* Queries that answer in any order never make the safety audit report a
\* snapshot that differs from its booking, and one that it misses is there.
SnapshotsClean ==
  \A a \in safetyReport :
    /\ a.type # "snapshot_mismatch"
    /\ a.type = "missing_snapshot" => snapshot[a.booking] # None

AuditsClean == SequencesClean /\ SnapshotsClean

-----------------------------------------------------------------------------
\* What a comment says and the code does otherwise

\* "Check deterministic document ID pattern: `${bookingId}__${eventType}`"
\* (LegacyCustodyReconciler): the events the server records match it.
EventIdsMatch ==
  \A a \in custodyReport : a.type \notin {"booking_mismatch", "event_type_mismatch"}
=============================================================================
