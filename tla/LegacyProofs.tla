---------------------------- MODULE LegacyProofs -----------------------------
(***************************************************************************)
(* The operators' tools over the bookings, for any sets of users,          *)
(* listings, bookings and operators.                                       *)
(*                                                                         *)
(* The audits: what they report of a system that goes on while they read   *)
(* it.  An audit compares what it read at different times.  Each thing     *)
(* that it compares only ever moves one way: a booking that exists stays,  *)
(* an event that is recorded stays, and an agreement is never replaced.    *)
(*                                                                         *)
(* The reconciler: what a run leaves, whatever died before it.  While the  *)
(* users wait, what it read stays so, and its plan stays the load and the  *)
(* sole carrier of what it has not written yet; after a complete run, the  *)
(* server operations keep the ledgers and claims that it wrote.            *)
(***************************************************************************)
EXTENDS StatusProofs, LegacyAudits, LegacyReservations, FunctionTheorems

-----------------------------------------------------------------------------
\* The two audits beside the system, also at the same time
Auditing == AuditInit /\ [][CustodyAuditNext \/ SafetyAuditNext]_<<vars, auditVars>>

\* The events of one booking: they are of a booking that exists, those that its
\* status requires are there, and each travel event has the one before it.
Sequenced(b) ==
  /\ \A e \in EventType : Recorded(b, e) => booking[b].status # "absent"
  /\ \A e \in Required(booking[b].status) : Recorded(b, e)
  /\ Recorded(b, "airport_departure") => Recorded(b, "pickup_confirmed")
  /\ Recorded(b, "airport_arrival") => Recorded(b, "airport_departure")

\* The steps of one booking, as its agreement sees them
AgreementStays(b) ==
  /\ snapshot'[b] = snapshot[b] /\ booking'[b].reserved = booking[b].reserved
  /\ booking'[b].status \in Committed => booking[b].status \in Committed
  /\ booking'[b].status \in NotYetAccepted => booking[b].status \in NotYetAccepted

Requested(b) ==
  /\ booking[b].status = "absent"
  /\ booking'[b] = [status |-> "pending", reserved |-> None]
  /\ snapshot'[b] = snapshot[b]

Concluded(b) ==
  /\ booking[b].status = "pending"
  /\ booking'[b] = [status |-> "accepted", reserved |-> shipment[b[1]].weight]
  /\ snapshot[b] = None =>
       snapshot'[b] = [content |-> shipment[b[1]].content,
                       weight |-> shipment[b[1]].weight,
                       corridor |-> shipment[b[1]].corridor]

\* The agreement of one booking, of whatever became of it: none before it is
\* accepted, and then the weight that the booking reserves.
AgreedWeight(b) ==
  /\ booking[b].status \in NotYetAccepted => snapshot[b] = None
  /\ booking[b].status \in Committed => snapshot[b] # None
  /\ booking[b].reserved = IF snapshot[b] = None THEN None ELSE snapshot[b].weight

SystemInv ==
  /\ TypeOK /\ CustodyFollowsStatus
  /\ \A b \in BookingId : Sequenced(b) /\ AgreedWeight(b)

\* What the custody audit has read: the events required then are recorded.
CustodyReading ==
  bookingsRead # None =>
    \A b \in BookingId : \A e \in Required(bookingsRead[b].status) : Recorded(b, e)

\* What the safety audit has read: an agreement, or a weight reserved, still
\* stands, and a booking that was committed has its agreement.
SafetyReading(read) ==
  /\ read.snapshots # None =>
       \A b \in BookingId : read.snapshots[b] # None => read.snapshots[b] = snapshot[b]
  /\ read.bookings # None =>
       \A b \in BookingId :
         /\ read.bookings[b].reserved # None => read.bookings[b].reserved = booking[b].reserved
         /\ read.bookings[b].status \in Committed => snapshot[b] # None

\* What both audits have read and reported
ReadingInv ==
  /\ CustodyReading
  /\ DOMAIN safetyRead = Collection /\ safetyRead = [c \in Collection |-> safetyRead[c]]
  /\ SafetyReading(safetyRead)
  /\ \A a \in custodyReport \cup safetyReport : a.booking \in BookingId

AuditInv == SystemInv /\ ReadingInv /\ AuditsClean

-----------------------------------------------------------------------------
\* A change of status alone leaves the agreements as they are.
LEMMA StatusKeepsAgreement ==
  ASSUME TypeOK, NEW x \in BookingId, NEW b \in BookingId, NEW status,
         booking' = [booking EXCEPT ![b].status = status], snapshot' = snapshot,
         status \in Committed => booking[b].status \in Committed,
         status \notin NotYetAccepted
  PROVE  AgreementStays(x)
<1>1. booking[b] \in BookingDoc
  BY BookingShape
<1>2. booking'[b].status = status /\ booking'[b].reserved = booking[b].reserved
  BY <1>1, BookingShape DEF BookingDoc
<1>3. \A y \in BookingId \ {b} : booking'[y] = booking[y]
  BY BookingShape
<1> QED
  BY <1>2, <1>3 DEF AgreementStays

\* Every step of the system is one of these to each of the bookings.
LEMMA AgreementOf ==
  ASSUME TypeOK, [Next]_vars, NEW x \in BookingId
  PROVE  AgreementStays(x) \/ Requested(x) \/ Concluded(x)
<1>1. ASSUME NEW b \in BookingId, booking[b].status = "absent", CreatePending(b),
             snapshot' = snapshot
      PROVE  AgreementStays(x) \/ Requested(x)
  <2>1. /\ booking'[b] = [status |-> "pending", reserved |-> None]
        /\ \A y \in BookingId \ {b} : booking'[y] = booking[y]
    BY <1>1, BookingShape DEF CreatePending
  <2> QED
    BY <1>1, <2>1 DEF AgreementStays, Requested
<1>2. ASSUME NEW s \in Shipment, NEW t \in Trip, NEW op \in Operation \cup {None},
             RequestBooking(s, t, op)
      PROVE  AgreementStays(x) \/ Requested(x)
  <2> DEFINE b == <<s, t, IF op = None THEN Attempts(s, t) + 1 ELSE op>>
  <2>1. b \in BookingId /\ booking[b].status = "absent" /\ CreatePending(b) /\ snapshot' = snapshot
    BY <1>2 DEF RequestBooking
  <2> QED
    BY <1>1, <2>1
<1>3. ASSUME NEW s \in Shipment, NEW t \in Trip, CreateRequestDirectly(s, t)
      PROVE  AgreementStays(x) \/ Requested(x)
  <2>1. <<s, t, 1>> \in BookingId
    BY BookingAssumption
  <2> QED
    BY <1>1, <1>3, <2>1 DEF CreateRequestDirectly
<1>4. ASSUME NEW b \in BookingId, AcceptBooking(b)
      PROVE  AgreementStays(x) \/ Concluded(x)
  <2>1. CASE x = b
    BY <1>4, <2>1, AcceptEffect DEF Concluded
  <2>2. CASE x # b
    <3>1. booking'[x] = booking[x] /\ snapshot'[x] = snapshot[x]
      BY <1>4, <2>2, AcceptEffect, ZenonT(30)
    <3> QED
      BY <3>1 DEF AgreementStays
  <2> QED
    BY <2>1, <2>2
<1>5. ASSUME NEW b \in BookingId,
             CancelPendingBooking(b) \/ CancelAcceptedBooking(b) \/ DeclineBooking(b)
      PROVE  AgreementStays(x)
  <2>1. PICK status \in {"cancelled", "declined"} :
          booking' = [booking EXCEPT ![b].status = status] /\ snapshot' = snapshot
    BY <1>5 DEF CancelPendingBooking, CancelAcceptedBooking, DeclineBooking, Withdraw
  <2> QED
    BY <2>1, StatusKeepsAgreement DEF Committed, NotYetAccepted
<1>6. ASSUME NEW b \in BookingId, CustodyStep(b) PROVE AgreementStays(x)
  <2>1. CASE booking' = booking /\ snapshot' = snapshot
    BY <2>1 DEF AgreementStays
  <2>2. CASE ~(booking' = booking /\ snapshot' = snapshot)
    <3>1. PICK status \in {"in_transit", "delivered", "completed"} :
            /\ booking' = [booking EXCEPT ![b].status = status] /\ snapshot' = snapshot
            /\ booking[b].status \in Committed
      BY <1>6, <2>2 DEF CustodyStep, ConfirmPickupCustody, ConfirmDeliveryCustody,
                        CompleteBookingCustody, RecordTravelEvent, Advance, Committed
    <3> QED
      BY <3>1, StatusKeepsAgreement DEF NotYetAccepted
  <2> QED
    BY <2>1, <2>2
<1>7. ASSUME UNCHANGED bookingVars PROVE AgreementStays(x)
  BY <1>7 DEF bookingVars, AgreementStays
<1> QED
  BY <1>2, <1>3, <1>4, <1>5, <1>6, <1>7
     DEF Next, BookingStep, HandoffStep, OperatorStep, OwnerStep, vars

\* An agreement that stands is not replaced, and a weight stays reserved.
LEMMA AgreementsStand ==
  ASSUME SystemInv, [Next]_vars, NEW b \in BookingId
  PROVE  /\ AgreedWeight(b)'
         /\ snapshot[b] # None => snapshot'[b] = snapshot[b]
         /\ booking[b].reserved # None => booking'[b].reserved = booking[b].reserved
<1>1. AgreedWeight(b) /\ TypeOK
  BY DEF SystemInv
<1>2. CASE AgreementStays(b)
  BY <1>1, <1>2 DEF AgreementStays, AgreedWeight
<1>3. CASE Requested(b)
  BY <1>1, <1>3 DEF Requested, AgreedWeight, NotYetAccepted, Committed
<1>4. CASE Concluded(b)
  <2>1. snapshot[b] = None /\ booking[b].reserved = None
    BY <1>1, <1>4 DEF Concluded, AgreedWeight, NotYetAccepted
  <2>2. snapshot'[b] \in Snapshot /\ snapshot'[b].weight = shipment[b[1]].weight
    <3>1. shipment[b[1]] \in ShipmentDoc(BookingId)
      BY <1>1, BookingParts DEF TypeOK, ListingTypeOK
    <3>2. /\ shipment[b[1]].content \in 1..MaxContent /\ shipment[b[1]].weight \in Weights
          /\ shipment[b[1]].corridor \in Corridor
      BY <3>1 DEF ShipmentDoc
    <3> QED
      BY <1>4, <2>1, <3>2 DEF Concluded, Snapshot
  <2>3. booking'[b].status = "accepted" /\ booking'[b].reserved = shipment[b[1]].weight
    BY <1>4 DEF Concluded
  <2> QED
    BY <2>1, <2>2, <2>3, BookingAssumption DEF AgreedWeight, NotYetAccepted, Committed
<1> QED
  BY <1>1, <1>2, <1>3, <1>4, AgreementOf

\* Events and bookings stay, and each booking's events are in sequence.
LEMMA SequencesStand ==
  ASSUME SystemInv, [Next]_vars, NEW b \in BookingId
  PROVE  /\ Sequenced(b)'
         /\ \A e \in EventType : Recorded(b, e) => Recorded(b, e)'
         /\ booking[b].status # "absent" => booking'[b].status # "absent"
<1>1. Sequenced(b) /\ TypeOK /\ Moved(b) /\ Chained(b)
  BY StepOf, ChainedDef DEF SystemInv
<1>2. CASE Unmoved(b)
  BY <1>1, <1>2 DEF Unmoved, Sequenced, Recorded
<1>3. ASSUME NEW e \in EventType, NEW link \in EventType \cup {"first"},
             custody'[b] = [custody[b] EXCEPT ![e] = link]
      PROVE  /\ Recorded(b, e)'
             /\ \A f \in EventType \ {e} : Recorded(b, f)' <=> Recorded(b, f)
  <2>1. custody[b] \in [EventType -> Link]
    BY <1>1, BookingShape
  <2>2. \A f \in EventType : custody'[b][f] = IF f = e THEN link ELSE custody[b][f]
    BY <1>3, <2>1
  <2> QED
    BY <2>2 DEF Recorded, EventType
<1>4. CASE Created(b)
  <2>1. \A e \in EventType : ~Recorded(b, e)
    BY <1>1, <1>4 DEF Created, Sequenced
  <2>2. \A e \in EventType : Recorded(b, e)' => e = "shipment_created"
    <3>1. CASE custody'[b] = custody[b]
      BY <2>1, <3>1 DEF Recorded
    <3>2. CASE custody'[b] = [custody[b] EXCEPT !["shipment_created"] = "first"]
      BY <1>3, <2>1, <3>2 DEF EventType
    <3> QED
      BY <1>4, <3>1, <3>2 DEF Created
  <2> QED
    BY <1>4, <2>1, <2>2 DEF Created, Sequenced, Required, EventType
<1>5. CASE Accepted(b)
  <2>1. /\ Recorded(b, "traveler_accepted")'
        /\ \A f \in EventType \ {"traveler_accepted"} : Recorded(b, f)' <=> Recorded(b, f)
    BY <1>3, <1>5 DEF Accepted, EventType
  <2> QED
    BY <1>1, <1>5, <2>1 DEF Accepted, Sequenced, Required, EventType
<1>6. CASE Withdrawn(b)
  BY <1>1, <1>6 DEF Withdrawn, Sequenced, Required, Recorded
<1>7. CASE PickedUp(b)
  <2>1. /\ Recorded(b, "pickup_confirmed")'
        /\ \A f \in EventType \ {"pickup_confirmed"} : Recorded(b, f)' <=> Recorded(b, f)
    BY <1>3, <1>7 DEF PickedUp, EventType
  <2> QED
    BY <1>1, <1>7, <2>1 DEF PickedUp, Sequenced, Required, EventType
<1>8. CASE Delivered(b)
  <2>1. /\ Recorded(b, "delivery_confirmed")'
        /\ \A f \in EventType \ {"delivery_confirmed"} : Recorded(b, f)' <=> Recorded(b, f)
    BY <1>3, <1>8 DEF Delivered, EventType, DeliveryPredecessor
  <2> QED
    BY <1>1, <1>8, <2>1 DEF Delivered, Sequenced, Required, EventType
<1>9. CASE Completed(b)
  BY <1>1, <1>9 DEF Completed, Sequenced, Required, Recorded
<1>10. CASE Travelled(b)
  <2>1. PICK e \in {"airport_departure", "airport_arrival"} :
          /\ Recorded(b, TravelPredecessor(e))
          /\ custody'[b] = [custody[b] EXCEPT ![e] = TravelPredecessor(e)]
    BY <1>10 DEF Travelled
  <2>2. /\ Recorded(b, e)'
        /\ \A f \in EventType \ {e} : Recorded(b, f)' <=> Recorded(b, f)
    BY <1>3, <2>1 DEF EventType, TravelPredecessor
  <2> QED
    BY <1>1, <1>10, <2>1, <2>2 DEF Travelled, Sequenced, Required, EventType, TravelPredecessor
<1> QED
  BY <1>1, <1>2, <1>4, <1>5, <1>6, <1>7, <1>8, <1>9, <1>10 DEF Moved

\* The system's own part of the invariant holds at first and with every step.
LEMMA SystemInitially == ASSUME Init PROVE SystemInv
<1>1. TypeOK
  BY TypeInit
<1>2. CustodyFollowsStatus
  BY DEF Init, InitBookings, CustodyFollowsStatus, Recorded, EventType
<1>3. ASSUME NEW b \in BookingId PROVE Sequenced(b) /\ AgreedWeight(b)
  <2>1. /\ booking[b] = [status |-> "absent", reserved |-> None] /\ snapshot[b] = None
        /\ \A e \in EventType : ~Recorded(b, e)
    BY DEF Init, InitBookings, Recorded
  <2> QED
    BY <2>1 DEF Sequenced, AgreedWeight, Required, Committed, EventType
<1> QED
  BY <1>1, <1>2, <1>3 DEF SystemInv

LEMMA SystemStays ==
  ASSUME SystemInv, [Next]_vars
  PROVE  SystemInv'
<1>1. TypeOK' /\ CustodyFollowsStatus'
  BY TypeStep, CustodyStepKept DEF SystemInv
<1>2. \A b \in BookingId : Sequenced(b)' /\ AgreedWeight(b)'
  BY AgreementsStand, SequencesStand
<1> QED
  BY <1>1, <1>2 DEF SystemInv

-----------------------------------------------------------------------------
\* The events that a booking's status required when it was read are recorded
\* when the events are, and so is what precedes each event.
LEMMA SequenceReport ==
  ASSUME SystemInv, CustodyReading, bookingsRead # None,
         NEW a \in CustodyAnomalies(bookingsRead)
  PROVE  /\ a.booking \in BookingId
         /\ \/ a.type \in {"booking_mismatch", "event_type_mismatch"}
            \/ a.type = "orphan_event" /\ booking[a.booking].status # "absent"
<1>1. PICK type \in {"booking_mismatch", "event_type_mismatch", "orphan_event",
                     "invalid_sequence", "missing_event"},
           b \in BookingId, e \in EventType :
        /\ a = [type |-> type, booking |-> b, event |-> e]
        /\ type # "missing_event" => Recorded(b, e)
        /\ type = "invalid_sequence" =>
             e \in DOMAIN Predecessor /\ ~Recorded(b, Predecessor[e])
        /\ type = "missing_event" =>
             /\ <<b, e>> \notin RecordedEvents
             /\ e \in Required(bookingsRead[b].status)
  BY DEF CustodyAnomalies, RecordedEvents
<1>2. Sequenced(b) /\ Chained(b)
  BY ChainedDef DEF SystemInv
<1>3. type # "missing_event"
  BY <1>1 DEF CustodyReading, RecordedEvents
<1>4. type # "invalid_sequence"
  <2>1. CASE e = "delivery_confirmed"
    BY <1>1, <1>2, <2>1 DEF Chained, Predecessor, PickedUpStatus, DeliveredStatus
  <2>2. CASE e = "pickup_confirmed"
    <3>1. Recorded(b, e) => Recorded(b, "traveler_accepted")
      BY <1>2, <2>2 DEF Chained, Sequenced, Required, PickedUpStatus
    <3> QED
      BY <1>1, <2>2, <3>1 DEF Predecessor
  <2>3. CASE e \in {"airport_arrival", "airport_departure"}
    BY <1>1, <1>2, <2>3 DEF Sequenced, Predecessor
  <2> QED
    BY <1>1, <2>1, <2>2, <2>3 DEF Predecessor
<1>5. type = "orphan_event" => booking[b].status # "absent"
  BY <1>1, <1>2 DEF Sequenced
<1> QED
  BY <1>1, <1>3, <1>4, <1>5

\* An agreement and a weight that were read, in whichever order, agree, and the
\* one that was not read yet when the other was is there now.
LEMMA SnapshotReport ==
  ASSUME SystemInv, NEW read, SafetyReading(read), read.snapshots # None,
         read.bookings # None, NEW a \in SafetyAnomalies(read)
  PROVE  /\ a.booking \in BookingId /\ a.type # "snapshot_mismatch"
         /\ a.type = "missing_snapshot" => snapshot[a.booking] # None
<1>1. PICK type \in {"missing_snapshot", "snapshot_mismatch",
                     "active_hold_on_accepted_booking",
                     "blocking_review_on_accepted_booking"},
           b \in BookingId :
        /\ a = [type |-> type, booking |-> b]
        /\ read.bookings[b].status \in Committed
        /\ type = "snapshot_mismatch" => SnapshotMismatch(read, b)
  BY DEF SafetyAnomalies
<1>2. snapshot[b] # None
  BY <1>1 DEF SafetyReading
<1>3. ~SnapshotMismatch(read, b)
  BY DEF SafetyReading, SnapshotMismatch, SystemInv, AgreedWeight
<1> QED
  BY <1>1, <1>2, <1>3

-----------------------------------------------------------------------------
LEMMA AuditInitially == ASSUME AuditInit PROVE AuditInv
<1>1. SystemInv
  BY SystemInitially DEF AuditInit
<1>2. ReadingInv
  BY DEF AuditInit, NothingRead, Collection, ReadingInv, CustodyReading, SafetyReading
<1>3. AuditsClean
  BY DEF AuditInit, AuditsClean, SequencesClean, SnapshotsClean
<1> QED
  BY <1>1, <1>2, <1>3 DEF AuditInv

\* The system goes on: what the audits read and reported still holds.
LEMMA SystemBesideAudits ==
  ASSUME AuditInv, [Next]_vars, UNCHANGED auditVars
  PROVE  AuditInv'
<1>0. SystemInv /\ ReadingInv /\ AuditsClean
  BY DEF AuditInv
<1>1. SystemInv'
  BY <1>0, SystemStays
<1>2. /\ bookingsRead' = bookingsRead /\ safetyRead' = safetyRead
      /\ custodyReport' = custodyReport /\ safetyReport' = safetyReport
  BY DEF auditVars
<1>3. \A b \in BookingId :
        /\ \A e \in EventType : Recorded(b, e) => Recorded(b, e)'
        /\ booking[b].status # "absent" => booking'[b].status # "absent"
        /\ snapshot[b] # None => snapshot'[b] = snapshot[b]
        /\ booking[b].reserved # None => booking'[b].reserved = booking[b].reserved
  BY <1>0, SequencesStand, AgreementsStand
<1>4. CustodyReading'
  <2>1. \A status : Required(status) \subseteq EventType
    BY DEF Required, EventType
  <2> QED
    BY <1>0, <1>2, <1>3, <2>1 DEF ReadingInv, CustodyReading
<1>5. SafetyReading(safetyRead)'
  <2>1. SafetyReading(safetyRead)
    BY <1>0 DEF ReadingInv
  <2> QED
    BY <1>2, <1>3, <2>1 DEF SafetyReading
<1>6. ReadingInv'
  BY <1>0, <1>2, <1>4, <1>5 DEF ReadingInv
<1>7. AuditsClean'
  BY <1>0, <1>2, <1>3 DEF ReadingInv, AuditsClean, SequencesClean, SnapshotsClean
<1> QED
  BY <1>1, <1>6, <1>7 DEF AuditInv

\* The custody audit reads the bookings, and then the events.
LEMMA CustodyAuditStep ==
  ASSUME AuditInv, ReadBookings \/ ReadCustodyEvents
  PROVE  AuditInv'
<1>0. SystemInv /\ ReadingInv /\ AuditsClean
  BY DEF AuditInv
<1>1. UNCHANGED <<vars, safetyRead, safetyReport>>
  BY DEF ReadBookings, ReadCustodyEvents
<1>2. /\ booking' = booking /\ snapshot' = snapshot /\ custody' = custody
      /\ safetyRead' = safetyRead /\ safetyReport' = safetyReport
  BY <1>1 DEF vars, bookingVars
<1>3. SystemInv'
  <2>1. TypeOK' /\ CustodyFollowsStatus'
    BY <1>0, <1>1, TypeStep, CustodyStepKept DEF SystemInv
  <2>2. \A b \in BookingId : Sequenced(b)' /\ AgreedWeight(b)'
    BY <1>0, <1>2 DEF SystemInv, Sequenced, AgreedWeight, Recorded
  <2> QED
    BY <2>1, <2>2 DEF SystemInv
<1>4. SafetyReading(safetyRead)' /\ SnapshotsClean'
  BY <1>0, <1>2 DEF ReadingInv, SafetyReading, AuditsClean, SnapshotsClean
<1>5. CASE ReadBookings
  <2>1. bookingsRead' = booking /\ custodyReport' = custodyReport
    BY <1>5 DEF ReadBookings
  <2>2. CustodyReading'
    BY <1>0, <1>2, <2>1 DEF SystemInv, Sequenced, CustodyReading, Recorded
  <2>3. SequencesClean'
    BY <1>0, <1>2, <2>1 DEF AuditsClean, SequencesClean
  <2>4. ReadingInv'
    BY <1>0, <1>2, <1>4, <2>1, <2>2 DEF ReadingInv
  <2> QED
    BY <1>3, <1>4, <2>3, <2>4 DEF AuditInv, AuditsClean
<1>6. CASE ReadCustodyEvents
  <2>1. /\ bookingsRead # None /\ bookingsRead' = None
        /\ custodyReport' = CustodyAnomalies(bookingsRead)
    BY <1>6 DEF ReadCustodyEvents
  <2>2. \A a \in custodyReport' :
          /\ a.booking \in BookingId
          /\ \/ a.type \in {"booking_mismatch", "event_type_mismatch"}
             \/ a.type = "orphan_event" /\ booking[a.booking].status # "absent"
    BY <1>0, <2>1, SequenceReport DEF ReadingInv
  <2>3. SequencesClean'
    BY <1>2, <2>2 DEF SequencesClean
  <2>4. ReadingInv'
    BY <1>0, <1>2, <1>4, <2>1, <2>2 DEF ReadingInv, CustodyReading
  <2> QED
    BY <1>3, <1>4, <2>3, <2>4 DEF AuditInv, AuditsClean
<1> QED
  BY <1>5, <1>6

\* A query of the safety audit answers; with the last one it reports.
LEMMA SafetyAuditStep ==
  ASSUME AuditInv, NEW c \in Collection, AnswerQuery(c)
  PROVE  AuditInv'
<1>0. SystemInv /\ ReadingInv /\ AuditsClean
  BY DEF AuditInv
<1>1. UNCHANGED <<vars, bookingsRead, custodyReport>>
  BY DEF AnswerQuery
<1>2. /\ booking' = booking /\ snapshot' = snapshot /\ custody' = custody
      /\ bookingsRead' = bookingsRead /\ custodyReport' = custodyReport
  BY <1>1 DEF vars, bookingVars
<1>3. SystemInv'
  <2>1. TypeOK' /\ CustodyFollowsStatus'
    BY <1>0, <1>1, TypeStep, CustodyStepKept DEF SystemInv
  <2>2. \A b \in BookingId : Sequenced(b)' /\ AgreedWeight(b)'
    BY <1>0, <1>2 DEF SystemInv, Sequenced, AgreedWeight, Recorded
  <2> QED
    BY <2>1, <2>2 DEF SystemInv
<1>4. PICK read : read = [safetyRead EXCEPT ![c] = Contents[c]]
  OBVIOUS
<1>5. /\ read = [d \in Collection |-> read[d]]
      /\ \A d \in Collection : read[d] = IF d = c THEN Contents[d] ELSE safetyRead[d]
  BY <1>0, <1>4 DEF ReadingInv
<1>6. SafetyReading(read)
  <2>1. read.snapshots = safetyRead.snapshots \/ read.snapshots = snapshot
    BY <1>5 DEF Collection, Contents
  <2>2. read.bookings = safetyRead.bookings \/ read.bookings = booking
    BY <1>5 DEF Collection, Contents
  <2>3. \A b \in BookingId : booking[b].status \in Committed => snapshot[b] # None
    BY <1>0 DEF SystemInv, AgreedWeight
  <2> QED
    BY <1>0, <2>1, <2>2, <2>3 DEF ReadingInv, SafetyReading
<1>7. CustodyReading' /\ SequencesClean'
  BY <1>0, <1>2 DEF ReadingInv, CustodyReading, Recorded, AuditsClean, SequencesClean
<1>8. CASE \A d \in Collection : read[d] # None
  <2>1. safetyRead' = NothingRead /\ safetyReport' = SafetyAnomalies(read)
    BY <1>4, <1>8 DEF AnswerQuery
  <2>2. \A a \in safetyReport' :
          /\ a.booking \in BookingId /\ a.type # "snapshot_mismatch"
          /\ a.type = "missing_snapshot" => snapshot[a.booking] # None
    BY <1>0, <1>6, <1>8, <2>1, SnapshotReport DEF Collection
  <2>3. SnapshotsClean'
    BY <1>2, <2>2 DEF SnapshotsClean
  <2>4. ReadingInv'
    BY <1>0, <1>2, <1>7, <2>1, <2>2 DEF ReadingInv, SafetyReading, NothingRead, Collection
  <2> QED
    BY <1>3, <1>7, <2>3, <2>4 DEF AuditInv, AuditsClean
<1>9. CASE ~\A d \in Collection : read[d] # None
  <2>1. safetyRead' = read /\ safetyReport' = safetyReport
    BY <1>4, <1>9 DEF AnswerQuery
  <2>2. SnapshotsClean' /\ SafetyReading(safetyRead)'
    BY <1>0, <1>2, <1>6, <2>1 DEF AuditsClean, SnapshotsClean, SafetyReading
  <2>3. ReadingInv'
    BY <1>0, <1>2, <1>5, <1>7, <2>1, <2>2 DEF ReadingInv
  <2> QED
    BY <1>3, <1>7, <2>2, <2>3 DEF AuditInv, AuditsClean
<1> QED
  BY <1>8, <1>9

\* While the system goes on, and with both audits under way, what an audit
\* holds against a sequence of events is a false alarm of one kind, and no
\* snapshot is reported that differs from its booking.
THEOREM AuditsAreClean == Auditing => []AuditsClean
<1>1. AuditInit => AuditInv
  BY AuditInitially
<1>2. ASSUME AuditInv, [CustodyAuditNext \/ SafetyAuditNext]_<<vars, auditVars>>
      PROVE  AuditInv'
  <2>1. CASE [Next]_vars /\ UNCHANGED auditVars
    BY <1>2, <2>1, SystemBesideAudits
  <2>2. CASE ReadBookings \/ ReadCustodyEvents
    BY <1>2, <2>2, CustodyAuditStep
  <2>3. CASE \E c \in Collection : AnswerQuery(c)
    BY <1>2, <2>3, SafetyAuditStep
  <2> QED
    BY <1>2, <2>1, <2>2, <2>3 DEF CustodyAuditNext, SafetyAuditNext
<1>3. AuditInv => AuditsClean
  BY DEF AuditInv
<1> QED
  BY <1>1, <1>2, <1>3, PTL DEF Auditing

-----------------------------------------------------------------------------
(***************************************************************************)
(* The reconciler of bookings from before the ledger.                      *)
(***************************************************************************)
\* The reconciler, run any number of times and dying any number of times,
\* beside the users
Reconciling == LegacyInit /\ [][LegacyNext]_<<vars, reconcilerVars>>

\* The users wait for it, and owners open and close listings but do not edit
\* them: those of a trip without a ledger, or of a shipment that two bookings
\* carry, may change what the ledger counts.
ReconcilerHypothesis ==
  /\ LegacyAssumption /\ Quiesced /\ WholeHundredths
  /\ OwnerEdits \subseteq {"status"}

\* A server booking holds its weight on a ledger; a ledger, where there is
\* one, is what the bookings hold; and a claim is that of a committed booking.
LedgerRight ==
  /\ \A b \in BookingId : snapshot[b] # None => trip[b[2]].reserved # None
  /\ \A t \in Trip : trip[t].reserved # None => LoadOf(CommittedOn(t)) = trip[t].reserved

ClaimRight ==
  \A s \in Shipment :
    LET claim == shipment[s].activeBooking
    IN claim # None => booking[claim].status \in Committed /\ claim[1] = s

\* The carriers of a shipment are known: it is reported, or has only one,
\* which claims it or is about to.
Carried(s, known, claiming) ==
  \A b \in CommittedFor(s) :
    \/ s \in known
    \/ CommittedFor(s) = {b} /\ (shipment[s].activeBooking = b \/ s \in claiming)

\* What a complete run leaves: it reported every trip without a ledger.
UpgradeLasts ==
  upgraded =>
    /\ \A t \in Trip : trip[t].reserved = None => t \in reported
    /\ \A s \in Shipment : Carried(s, reported, {})
    /\ \A u \in plan : u \in TripUpdate => u.trip \in reported
    /\ \A u \in plan : u \in ShipmentUpdate => u.shipment \in reported

\* What the reconciler read is still so while the users wait, and what is
\* left of its plan is right.
ReadingRight ==
  /\ phase # "write" => plan = {}
  /\ phase \in {"trips", "shipments"} => readTrips = trip
  /\ phase = "shipments" => readShipments = shipment

PlanRight ==
  /\ \A u \in plan : u \in TripUpdate => u.reserved = LoadOf(CommittedOn(u.trip))
  /\ \A u \in plan : u \in ShipmentUpdate => CommittedFor(u.shipment) = {u.booking}
  /\ phase = "write" =>
       /\ \A t \in Trip : trip[t].reserved = None =>
            t \in conflicts \/ \E u \in plan : u \in TripUpdate /\ u.trip = t
       /\ \A s \in Shipment :
            Carried(s, conflicts, {u.shipment : u \in plan \cap ShipmentUpdate})

ReconcilerInv ==
  LegacyTypeOK /\ LedgerRight /\ ClaimRight /\ UpgradeLasts /\ ReadingRight /\ PlanRight

-----------------------------------------------------------------------------
\* Where every booking holds a whole number of hundredths, so do all together:
\* their tokens pair up.
LEMMA TokensEven ==
  ASSUME NEW h \in [BookingId -> 1..MaxUnits], NEW B \in SUBSET BookingId,
         \A b \in B : h[b] % 2 = 0
  PROVE  Cardinality(TokensOf(h, B)) % 2 = 0
<1> DEFINE half == [b \in BookingId |-> h[b] \div 2]
           Pairs == UNION {{b} \X (1..half[b]) : b \in B}
           double == [x \in Pairs \X {0, 1} |-> <<x[1][1], 2 * x[1][2] - x[2]>>]
<1>1. \A b \in B : /\ b \in BookingId /\ h[b] \in Nat /\ half[b] \in Nat
                   /\ half[b] <= h[b] /\ h[b] = 2 * half[b]
  BY MaxUnitsIsNat
<1> HIDE DEF half
<1>2. \A x \in Pairs : /\ x = <<x[1], x[2]>> /\ x[1] \in B
                       /\ x[2] \in Nat /\ 1 <= x[2] /\ x[2] <= half[x[1]]
  BY <1>1
<1>3. \A b \in B, n \in Nat : 1 <= n /\ n <= half[b] => <<b, n>> \in Pairs
  BY <1>1
<1>4. \A y \in TokensOf(h, B) : /\ y = <<y[1], y[2]>> /\ y[1] \in B
                                /\ y[2] \in Nat /\ 1 <= y[2] /\ y[2] <= h[y[1]]
  BY <1>1 DEF TokensOf
<1>5. \A b \in B, n \in Nat : 1 <= n /\ n <= h[b] => <<b, n>> \in TokensOf(h, B)
  BY <1>1 DEF TokensOf
<1>6. IsFiniteSet(TokensOf(h, B)) /\ Pairs \subseteq TokensOf(h, B)
  <2>1. Pairs \subseteq TokensOf(h, B)
    BY <1>1, <1>2, <1>5
  <2> QED
    BY <2>1, TokensFinite
<1> HIDE DEF Pairs
<1>7. IsFiniteSet(Pairs) /\ Cardinality(Pairs) \in Nat
  BY <1>6, FS_Subset, FS_CardinalityType
<1>8. IsFiniteSet({0, 1}) /\ Cardinality({0, 1}) = 2
  <2>1. IsFiniteSet({0}) /\ Cardinality({0}) = 1
    BY FS_Singleton
  <2>2. {0, 1} = {0} \cup {1}
    OBVIOUS
  <2> QED
    BY <2>1, <2>2, FS_AddElement
<1>9. IsFiniteSet(Pairs \X {0, 1}) /\ Cardinality(Pairs \X {0, 1}) = Cardinality(Pairs) * 2
  BY <1>7, <1>8, FS_Product
<1>10. \A x \in Pairs \X {0, 1} :
         /\ x = <<<<x[1][1], x[1][2]>>, x[2]>> /\ x[1][1] \in B /\ x[1][2] \in Nat
         /\ x[2] \in {0, 1} /\ 1 <= x[1][2] /\ x[1][2] <= half[x[1][1]]
         /\ double[x] = <<x[1][1], 2 * x[1][2] - x[2]>>
  BY <1>2
<1>11. double \in [Pairs \X {0, 1} -> TokensOf(h, B)]
  <2>1. \A x \in Pairs \X {0, 1} : <<x[1][1], 2 * x[1][2] - x[2]>> \in TokensOf(h, B)
    <3> SUFFICES ASSUME NEW x \in Pairs \X {0, 1}
                 PROVE  <<x[1][1], 2 * x[1][2] - x[2]>> \in TokensOf(h, B)
      OBVIOUS
    <3>1. PICK b \in B, n \in Nat, k \in {0, 1} :
            /\ x[1][1] = b /\ x[1][2] = n /\ x[2] = k /\ 1 <= n /\ n <= half[b]
      BY <1>10
    <3>2. 2 * n - k \in Nat /\ 1 <= 2 * n - k /\ 2 * n - k <= h[b]
      BY <1>1, <3>1
    <3> QED
      BY <1>5, <3>1, <3>2
  <2> QED
    BY <2>1
<1>12. \A x, y \in Pairs \X {0, 1} : double[x] = double[y] => x = y
  <2> SUFFICES ASSUME NEW x \in Pairs \X {0, 1}, NEW y \in Pairs \X {0, 1},
                      double[x] = double[y]
               PROVE  x = y
    OBVIOUS
  <2>1. PICK b \in B, n \in Nat, k \in {0, 1} :
          x = <<<<b, n>>, k>> /\ double[x] = <<b, 2 * n - k>>
    BY <1>10
  <2>2. PICK c \in B, m \in Nat, l \in {0, 1} :
          y = <<<<c, m>>, l>> /\ double[y] = <<c, 2 * m - l>>
    BY <1>10
  <2>3. b = c /\ 2 * n - k = 2 * m - l
    BY <2>1, <2>2
  <2>4. n = m /\ k = l
    BY <2>3
  <2> QED
    BY <2>1, <2>2, <2>3, <2>4
<1>13. \A y \in TokensOf(h, B) : \E x \in Pairs \X {0, 1} : double[x] = y
  <2> SUFFICES ASSUME NEW y \in TokensOf(h, B)
               PROVE  \E x \in Pairs \X {0, 1} : double[x] = y
    OBVIOUS
  <2>1. PICK b \in B, n \in Nat : y = <<b, n>> /\ 1 <= n /\ n <= h[b]
    BY <1>4
  <2>2. PICK m \in Nat, k \in {0, 1} : n = 2 * m - k /\ 1 <= m /\ m <= half[b]
    <3>1. CASE n % 2 = 0
      <4>1. n = 2 * (n \div 2) - 0 /\ n \div 2 \in Nat /\ 1 <= n \div 2 /\ n \div 2 <= half[b]
        BY <1>1, <2>1, <3>1
      <4> QED
        BY <4>1
    <3>2. CASE n % 2 = 1
      <4>1. /\ n = 2 * ((n + 1) \div 2) - 1 /\ (n + 1) \div 2 \in Nat
            /\ 1 <= (n + 1) \div 2 /\ (n + 1) \div 2 <= half[b]
        BY <1>1, <2>1, <3>2
      <4> QED
        BY <4>1
    <3> QED
      BY <2>1, <3>1, <3>2
  <2>3. <<<<b, m>>, k>> \in Pairs \X {0, 1}
    BY <1>3, <2>2
  <2>4. double[<<<<b, m>>, k>>] = <<b, 2 * m - k>>
    BY <2>3
  <2> QED
    BY <2>1, <2>2, <2>3, <2>4
<1> HIDE DEF double
<1>14. ExistsBijection(Pairs \X {0, 1}, TokensOf(h, B))
  <2>1. double \in Bijection(Pairs \X {0, 1}, TokensOf(h, B))
    BY <1>11, <1>12, <1>13, Fun_IsBij
  <2> QED
    BY <2>1, Fun_ExistsBij
<1>15. Cardinality(TokensOf(h, B)) = Cardinality(Pairs) * 2
  BY <1>9, <1>14, FS_Bijection
<1> QED
  BY <1>7, <1>15

\* The load of a trip is a whole number of hundredths.
LEMMA LoadEven ==
  ASSUME TypeOK, WholeHundredths, NEW t \in Trip
  PROVE  /\ LoadOf(CommittedOn(t)) \in Nat /\ LoadOf(CommittedOn(t)) % 2 = 0
         /\ RoundKg(LoadOf(CommittedOn(t))) = LoadOf(CommittedOn(t))
<1>1. CommittedOn(t) \in SUBSET BookingId
  BY DEF CommittedOn, BookingsIn
<1>2. \A b \in CommittedOn(t) : Held[b] % 2 = 0
  BY <1>1, HeldWeightType DEF Held, WholeHundredths
<1>3. Cardinality(TokensOf(Held, CommittedOn(t))) % 2 = 0
  BY <1>1, <1>2, HeldType, TokensEven
<1>4. LoadOf(CommittedOn(t)) \in Nat
  BY <1>1, LoadType
<1> QED
  BY <1>3, <1>4, LoadIsTokens, RoundWhole

-----------------------------------------------------------------------------
\* A step of the users is a step of the system.
LEMMA UserKinds ==
  ASSUME TypeOK, UserStep
  PROVE  /\ TypeOK' /\ UNCHANGED reconcilerVars
         /\ \/ \E b \in BookingId : AcceptBooking(b)
            \/ \E b \in BookingId : CancelAcceptedBooking(b)
            \/ OwnerStep
            \/ Quiet
<1>1. ASSUME NEW s \in Shipment, NEW t \in Trip,
             RequestBooking(s, t, None) \/ CreateRequestDirectly(s, t)
      PROVE  Next
  BY <1>1 DEF Next
<1>2. ASSUME NEW b \in BookingId, BookingStep(b) PROVE Next
  BY <1>2 DEF Next
<1>3. ASSUME OwnerStep PROVE Next
  BY <1>3 DEF Next
<1>4. Next
  BY <1>1, <1>2, <1>3 DEF UserStep
<1> QED
  BY <1>4, TypeStep, StepKinds DEF UserStep

\* Opening and closing listings changes neither amounts nor claims.
LEMMA StatusEditKeeps ==
  ASSUME TypeOK, OwnerEdits \subseteq {"status"}, OwnerStep
  PROVE  /\ trip' = trip /\ UNCHANGED bookingVars
         /\ \A s \in Shipment : /\ shipment'[s].weight = shipment[s].weight
                                /\ shipment'[s].activeBooking = shipment[s].activeBooking
<1>1. PICK x \in Shipment, status \in ListingStatus : SetShipmentStatus(x, status)
  BY DEF OwnerStep
<1>2. shipment \in [Shipment -> ShipmentDoc(BookingId)]
  BY DEF TypeOK, ListingTypeOK
<1>3. trip' = trip /\ shipment' = [shipment EXCEPT ![x].status = status]
  BY <1>1 DEF SetShipmentStatus
<1>4. UNCHANGED bookingVars
  BY DEF OwnerStep
<1>5. ASSUME NEW s \in Shipment
      PROVE  /\ shipment'[s].weight = shipment[s].weight
             /\ shipment'[s].activeBooking = shipment[s].activeBooking
  <2>1. shipment[s] \in ShipmentDoc(BookingId)
    BY <1>2
  <2>2. shipment'[s] = IF s = x THEN [shipment[x] EXCEPT !.status = status] ELSE shipment[s]
    BY <1>2, <1>3
  <2> QED
    BY <2>1, <2>2 DEF ShipmentDoc
<1> QED
  BY <1>3, <1>4, <1>5

\* The weight of a shipment is what it was.
LEMMA WeightsStay ==
  ASSUME TypeOK, OwnerEdits \subseteq {"status"}, UserStep
  PROVE  \A s \in Shipment : shipment'[s].weight = shipment[s].weight
<1>1. shipment \in [Shipment -> ShipmentDoc(BookingId)]
  BY DEF TypeOK, ListingTypeOK
<1>2. ASSUME NEW b \in BookingId, AcceptBooking(b), NEW s \in Shipment
      PROVE  shipment'[s].weight = shipment[s].weight
  BY <1>2, AcceptEffect
<1>3. ASSUME NEW b \in BookingId, CancelAcceptedBooking(b), NEW s \in Shipment
      PROVE  shipment'[s].weight = shipment[s].weight
  <2>1. CASE shipment[b[1]].activeBooking = b
    <3>1. Claim(b[1], None, None, None)
      BY <1>3, <2>1 DEF CancelAcceptedBooking, ReleaseClaim
    <3>2. shipment[s] \in ShipmentDoc(BookingId) /\ b[1] \in Shipment
      BY <1>1, BookingParts
    <3>3. shipment'[s] = IF s = b[1] THEN [shipment[s] EXCEPT !.activeBooking = None,
                                             !.activeCarrier = None, !.activeTrip = None]
                         ELSE shipment[s]
      BY <1>1, <3>1, <3>2 DEF Claim
    <3> QED
      BY <3>2, <3>3 DEF ShipmentDoc
  <2>2. CASE shipment[b[1]].activeBooking # b
    BY <1>3, <2>2 DEF CancelAcceptedBooking, ReleaseClaim
  <2> QED
    BY <2>1, <2>2
<1>4. ASSUME Quiet, NEW s \in Shipment
      PROVE  shipment'[s].weight = shipment[s].weight
  BY <1>4 DEF Quiet, listingVars
<1> QED
  BY <1>2, <1>3, <1>4, UserKinds, StatusEditKeeps

\* What bookings hold is what it was, where their records and the weights are.
LEMMA HoldsStay ==
  ASSUME NEW b \in BookingId, booking'[b].reserved = booking[b].reserved,
         shipment'[b[1]].weight = shipment[b[1]].weight
  PROVE  Held'[b] = Held[b] /\ HeldWeight(b)' = HeldWeight(b)
BY DEF Held, HeldWeight, Default

LEMMA LoadStays ==
  ASSUME NEW t \in Trip, CommittedOn(t)' = CommittedOn(t),
         \A b \in CommittedOn(t) : booking'[b].reserved = booking[b].reserved,
         \A s \in Shipment : shipment'[s].weight = shipment[s].weight
  PROVE  LoadOf(CommittedOn(t))' = LoadOf(CommittedOn(t))
<1>1. \A b \in CommittedOn(t) : b \in BookingId /\ b[1] \in Shipment
  BY BookingParts DEF CommittedOn, BookingsIn
<1>2. \A b \in CommittedOn(t) : Held'[b] = Held[b]
  BY <1>1, HoldsStay
<1>3. TokensOf(Held', CommittedOn(t)') = TokensOf(Held, CommittedOn(t))
  BY <1>2 DEF TokensOf
<1> QED
  BY <1>3, LoadIsTokens

\* One booking more on a trip, or one less, and the others as they were
LEMMA LoadOfOneMore ==
  ASSUME NEW h \in [BookingId -> 1..MaxUnits], NEW g \in [BookingId -> 1..MaxUnits],
         NEW B \in SUBSET BookingId, NEW b \in BookingId \ B,
         \A x \in B : g[x] = h[x]
  PROVE  Cardinality(TokensOf(h, B \cup {b})) = Cardinality(TokensOf(g, B)) + h[b]
<1>1. TokensOf(g, B) = TokensOf(h, B)
  BY DEF TokensOf
<1> QED
  BY <1>1, TokensAdd

-----------------------------------------------------------------------------
\* The load of a trip grows by what is accepted,
LEMMA LoadAccepted ==
  ASSUME TypeOK, TypeOK', NEW b \in BookingId, AcceptBooking(b)
  PROVE  /\ LoadOf(CommittedOn(b[2]))' = LoadOf(CommittedOn(b[2])) + shipment[b[1]].weight
         /\ \A t \in Trip \ {b[2]} : LoadOf(CommittedOn(t))' = LoadOf(CommittedOn(t))
<1>1. /\ booking[b].status = "pending"
      /\ booking'[b] = [status |-> "accepted", reserved |-> shipment[b[1]].weight]
      /\ \A x \in BookingId \ {b} : booking'[x] = booking[x]
      /\ \A s \in Shipment : shipment'[s].weight = shipment[s].weight
  BY AcceptEffect, BookingParts
<1>2. b[2] \in Trip /\ shipment[b[1]].weight \in Int
  BY BookingParts, LedgerTypes
<1>3. /\ CommittedOn(b[2]) \in SUBSET BookingId /\ b \in BookingId \ CommittedOn(b[2])
      /\ CommittedOn(b[2])' = CommittedOn(b[2]) \cup {b}
  BY <1>1 DEF CommittedOn, BookingsIn, Committed
<1>4. Held'[b] = shipment[b[1]].weight
  <2>1. shipment[b[1]].weight # None
    BY <1>2, ListingAssumption
  <2> QED
    BY <1>1, <2>1 DEF Held, HeldWeight, Default
<1>5. \A x \in CommittedOn(b[2]) : Held'[x] = Held[x]
  BY <1>1, <1>3, BookingParts, HoldsStay
<1>6. Cardinality(TokensOf(Held', CommittedOn(b[2])'))
        = Cardinality(TokensOf(Held, CommittedOn(b[2]))) + Held'[b]
  BY <1>3, <1>5, HeldType, LoadOfOneMore
<1>7. LoadOf(CommittedOn(b[2]))' = LoadOf(CommittedOn(b[2])) + shipment[b[1]].weight
  BY <1>2, <1>4, <1>6, LoadIsTokens
<1>8. ASSUME NEW t \in Trip \ {b[2]}
      PROVE  LoadOf(CommittedOn(t))' = LoadOf(CommittedOn(t))
  <2>1. CommittedOn(t)' = CommittedOn(t) /\ \A x \in CommittedOn(t) : x \in BookingId \ {b}
    BY <1>1, <1>8 DEF CommittedOn, BookingsIn
  <2> QED
    BY <1>1, <2>1, LoadStays
<1> QED
  BY <1>7, <1>8

\* and shrinks by what is cancelled.
LEMMA LoadCancelled ==
  ASSUME TypeOK, TypeOK', NEW b \in BookingId, CancelAcceptedBooking(b),
         \A s \in Shipment : shipment'[s].weight = shipment[s].weight
  PROVE  /\ LoadOf(CommittedOn(b[2])) = LoadOf(CommittedOn(b[2]))' + HeldWeight(b)
         /\ LoadOf(CommittedOn(b[2]))' \in Nat
         /\ \A t \in Trip \ {b[2]} : LoadOf(CommittedOn(t))' = LoadOf(CommittedOn(t))
<1>1. /\ booking[b].status = "accepted" /\ booking'[b].status = "cancelled"
      /\ \A x \in BookingId \ {b} : booking'[x] = booking[x]
  BY CancelEffect
<1>2. b[2] \in Trip
  BY BookingParts
<1>3. /\ CommittedOn(b[2])' \in SUBSET BookingId /\ b \in BookingId \ CommittedOn(b[2])'
      /\ CommittedOn(b[2]) = CommittedOn(b[2])' \cup {b}
  BY <1>1, <1>2 DEF CommittedOn, BookingsIn, Committed
<1>4. \A x \in CommittedOn(b[2])' : Held[x] = Held'[x]
  BY <1>1, <1>3, BookingParts, HoldsStay
<1>5. Cardinality(TokensOf(Held, CommittedOn(b[2])))
        = Cardinality(TokensOf(Held', CommittedOn(b[2])')) + Held[b]
  BY <1>3, <1>4, HeldType, LoadOfOneMore
<1>6. LoadOf(CommittedOn(b[2])) = LoadOf(CommittedOn(b[2]))' + HeldWeight(b)
  <2>1. Held[b] = HeldWeight(b)
    BY DEF Held
  <2> QED
    BY <1>2, <1>5, <2>1, LoadIsTokens
<1>7. LoadOf(CommittedOn(b[2]))' \in Nat
  BY <1>2, <1>3, HeldType, TokensFinite, LoadIsTokens
<1>8. ASSUME NEW t \in Trip \ {b[2]}
      PROVE  LoadOf(CommittedOn(t))' = LoadOf(CommittedOn(t))
  <2>1. CommittedOn(t)' = CommittedOn(t) /\ \A x \in CommittedOn(t) : x \in BookingId \ {b}
    BY <1>1, <1>8 DEF CommittedOn, BookingsIn, Committed
  <2> QED
    BY <1>1, <2>1, LoadStays
<1> QED
  BY <1>6, <1>7, <1>8

\* The acceptance writes the whole load to the ledger, also where it is the
\* first to write one.
LEMMA LedgerAccepted ==
  ASSUME TypeOK, WholeHundredths, LedgerRight, NEW b \in BookingId, AcceptBooking(b)
  PROVE  /\ trip'[b[2]].reserved = LoadOf(CommittedOn(b[2])) + shipment[b[1]].weight
         /\ trip'[b[2]].reserved \in Int
         /\ \A u \in Trip \ {b[2]} : trip'[u] = trip[u]
<1> DEFINE t == b[2]
           load == LoadOf(CommittedOn(t))
           weight == shipment[b[1]].weight
<1>1. t \in Trip
  BY BookingParts
<1>2. load \in Nat /\ load % 2 = 0 /\ RoundKg(load) = load
  BY <1>1, LoadEven
<1>3. weight \in Int /\ weight % 2 = 0
  BY LedgerTypes DEF WholeHundredths
<1>4. CurrentReserved(b) = load
  <2>1. CASE trip[t].reserved = None
    <3>1. CommittedOn(t) \ {b} = CommittedOn(t)
      BY AcceptEffect DEF CommittedOn, BookingsIn, Committed
    <3> QED
      BY <1>2, <2>1, <3>1 DEF CurrentReserved, Default
  <2>2. CASE trip[t].reserved # None
    BY <1>1, <2>2 DEF CurrentReserved, Default, LedgerRight
  <2> QED
    BY <2>1, <2>2
<1>5. ReserveCapacity(b) /\ Capacity(t) \in Int
  BY LedgerTypes DEF AcceptBooking
<1> HIDE DEF load, weight
<1>6. load + weight \in Int /\ RoundKg(load + weight) = load + weight
  BY <1>2, <1>3, RoundWhole
<1>7. PICK available \in Int : SetLedger(t, load + weight, available)
  <2>1. Capacity(t) - (load + weight) \in Int
    BY <1>5, <1>6
  <2>2. RoundKg(Capacity(t) - (load + weight)) \in Int
    BY <2>1, RoundKgType
  <2> QED
    BY <1>4, <1>5, <1>6, <2>2 DEF ReserveCapacity, weight
<1> HIDE DEF t
<1>8. trip'[t].reserved = load + weight /\ \A u \in Trip \ {t} : trip'[u] = trip[u]
  BY <1>1, <1>6, <1>7, SetLedgerEffect
<1> QED
  BY <1>6, <1>8 DEF load, weight, t

\* The cancellation leaves the load that is left.
LEMMA LedgerCancelled ==
  ASSUME TypeOK, TypeOK', WholeHundredths, LedgerRight, NEW b \in BookingId,
         CancelAcceptedBooking(b),
         \A s \in Shipment : shipment'[s].weight = shipment[s].weight
  PROVE  /\ trip'[b[2]].reserved = LoadOf(CommittedOn(b[2]))'
         /\ \A u \in Trip \ {b[2]} : trip'[u] = trip[u]
<1> DEFINE t == b[2]
           load == LoadOf(CommittedOn(t))
           after == LoadOf(CommittedOn(t))'
           weight == HeldWeight(b)
<1>1. t \in Trip /\ Capacity(t) \in Int
  BY BookingParts, LedgerTypes
<1>2. load \in Nat /\ load % 2 = 0
  BY <1>1, LoadEven
<1>3. weight \in Int /\ weight % 2 = 0
  BY HeldWeightType, ConstantTypes DEF WholeHundredths
<1>4. load = after + weight /\ after \in Nat
  BY LoadCancelled
<1>5. Default(trip[t].reserved, 0) = load
  BY <1>1 DEF CancelAcceptedBooking, LedgerRight, Default
<1>6. RestoreCapacity(b)
  BY DEF CancelAcceptedBooking
<1> HIDE DEF load, weight, after
<1>7. /\ load - weight = after /\ after % 2 = 0 /\ after >= 0
  BY <1>2, <1>3, <1>4
<1>8. RoundKg(load - weight) = after
  BY <1>4, <1>7, RoundWhole
<1>9. PICK available \in Int : SetLedger(t, after, available)
  <2>1. Capacity(t) - after \in Int
    BY <1>1, <1>4
  <2>2. RoundKg(Capacity(t) - after) \in Int
    BY <2>1, RoundKgType
  <2> DEFINE reserved == IF RoundKg(load - weight) < 0 THEN 0 ELSE RoundKg(load - weight)
  <2>3. reserved = after
    BY <1>4, <1>7, <1>8
  <2>4. SetLedger(t, reserved,
          IF RoundKg(Capacity(t) - reserved) > Capacity(t) THEN Capacity(t)
          ELSE RoundKg(Capacity(t) - reserved))
    BY <1>5, <1>6, Zenon DEF RestoreCapacity, weight
  <2> HIDE DEF reserved
  <2> QED
    BY <1>1, <2>2, <2>3, <2>4
<1> HIDE DEF t
<1>10. after \in Int
  BY <1>4
<1>11. trip'[t].reserved = after /\ \A u \in Trip \ {t} : trip'[u] = trip[u]
  BY <1>1, <1>9, <1>10, SetLedgerEffect
<1> QED
  BY <1>11 DEF after, t

\* Users keep the ledgers right, those of trips that have none included.
LEMMA LedgerKept ==
  ASSUME TypeOK, WholeHundredths, OwnerEdits \subseteq {"status"}, LedgerRight, UserStep
  PROVE  LedgerRight'
<1>1. TypeOK' /\ \A s \in Shipment : shipment'[s].weight = shipment[s].weight
  BY UserKinds, WeightsStay
<1>2. ASSUME NEW b \in BookingId, AcceptBooking(b)
      PROVE  LedgerRight'
  <2>1. /\ trip'[b[2]].reserved = LoadOf(CommittedOn(b[2]))'
        /\ trip'[b[2]].reserved # None
        /\ \A u \in Trip \ {b[2]} : /\ trip'[u] = trip[u]
                                    /\ LoadOf(CommittedOn(u))' = LoadOf(CommittedOn(u))
    BY <1>1, <1>2, LedgerAccepted, LoadAccepted, ListingAssumption
  <2>2. \A x \in BookingId \ {b} : snapshot'[x] = snapshot[x]
    BY <1>2, AcceptEffect
  <2> QED
    BY <2>1, <2>2, BookingParts DEF LedgerRight
<1>3. ASSUME NEW b \in BookingId, CancelAcceptedBooking(b)
      PROVE  LedgerRight'
  <2>1. /\ trip'[b[2]].reserved = LoadOf(CommittedOn(b[2]))'
        /\ trip'[b[2]].reserved # None
        /\ \A u \in Trip \ {b[2]} : /\ trip'[u] = trip[u]
                                    /\ LoadOf(CommittedOn(u))' = LoadOf(CommittedOn(u))
    <3>1. LoadOf(CommittedOn(b[2]))' # None
      BY <1>1, <1>3, LoadCancelled, ListingAssumption
    <3> QED
      BY <1>1, <1>3, <3>1, LedgerCancelled, LoadCancelled
  <2>2. snapshot' = snapshot
    BY <1>3, CancelEffect
  <2> QED
    BY <2>1, <2>2, BookingParts DEF LedgerRight
<1>4. ASSUME trip' = trip, snapshot' = snapshot,
             \A t \in Trip : LoadOf(CommittedOn(t))' = LoadOf(CommittedOn(t))
      PROVE  LedgerRight'
  BY <1>4 DEF LedgerRight
<1>5. CASE OwnerStep
  <2>1. trip' = trip /\ booking' = booking /\ snapshot' = snapshot
    BY <1>5, StatusEditKeeps DEF bookingVars
  <2>2. \A t \in Trip : LoadOf(CommittedOn(t))' = LoadOf(CommittedOn(t))
    BY <1>1, <2>1, LoadStays DEF CommittedOn, BookingsIn
  <2> QED
    BY <1>4, <2>1, <2>2
<1>6. CASE Quiet
  <2>1. trip' = trip /\ snapshot' = snapshot
    BY <1>6 DEF Quiet, listingVars
  <2>2. \A t \in Trip : /\ CommittedOn(t)' = CommittedOn(t)
                        /\ \A b \in CommittedOn(t) : booking'[b].reserved = booking[b].reserved
    BY <1>6 DEF Quiet, CommittedOn, BookingsIn
  <2>3. \A t \in Trip : LoadOf(CommittedOn(t))' = LoadOf(CommittedOn(t))
    BY <1>1, <2>2, LoadStays
  <2> QED
    BY <1>4, <2>1, <2>3
<1> QED
  BY <1>2, <1>3, <1>5, <1>6, UserKinds

-----------------------------------------------------------------------------
\* A claim stays that of a committed booking: the reconciler's, and those that
\* acceptances make and cancellations release.
LEMMA ClaimsKept ==
  ASSUME TypeOK, OwnerEdits \subseteq {"status"}, ClaimRight, UserStep
  PROVE  ClaimRight'
<1> DEFINE Right(s) == shipment'[s].activeBooking # None =>
             /\ booking'[shipment'[s].activeBooking].status \in Committed
             /\ shipment'[s].activeBooking[1] = s
<1>1. \A s \in Shipment :
        /\ shipment[s].activeBooking \in BookingId \cup {None}
        /\ shipment[s].activeBooking # None =>
             /\ booking[shipment[s].activeBooking].status \in Committed
             /\ shipment[s].activeBooking[1] = s
  BY DEF TypeOK, ListingTypeOK, ShipmentDoc, ClaimRight
<1>2. ASSUME NEW s \in Shipment,
             shipment'[s].activeBooking = shipment[s].activeBooking,
             \A b \in BookingId : b = shipment[s].activeBooking =>
               (booking[b].status \in Committed => booking'[b].status \in Committed)
      PROVE  Right(s)
  BY <1>1, <1>2
<1>3. ASSUME NEW b \in BookingId, AcceptBooking(b), NEW s \in Shipment
      PROVE  Right(s)
  <2>1. /\ booking[b].status = "pending"
        /\ booking'[b] = [status |-> "accepted", reserved |-> shipment[b[1]].weight]
        /\ \A x \in BookingId \ {b} : booking'[x] = booking[x]
        /\ shipment'[b[1]].activeBooking = b
        /\ \A x \in Shipment \ {b[1]} : shipment'[x] = shipment[x]
    BY <1>3, AcceptEffect
  <2>2. CASE s = b[1]
    BY <2>1, <2>2 DEF Committed
  <2>3. CASE s # b[1]
    BY <1>2, <2>1, <2>3 DEF Committed
  <2> QED
    BY <2>2, <2>3
<1>4. ASSUME NEW b \in BookingId, CancelAcceptedBooking(b), NEW s \in Shipment
      PROVE  Right(s)
  <2>1. /\ \A x \in BookingId \ {b} : booking'[x] = booking[x]
        /\ \A x \in Shipment \ {b[1]} : shipment'[x] = shipment[x]
    BY <1>4, CancelEffect
  <2>2. CASE shipment[s].activeBooking = b
    <3>1. s = b[1]
      BY <1>1, <2>2, BookingAssumption
    <3> QED
      BY <1>4, <2>2, <3>1, CancelEffect
  <2>3. CASE shipment[s].activeBooking # b
    <3>1. shipment'[s] = shipment[s]
      <4>1. CASE s = b[1]
        BY <1>4, <2>3, <4>1 DEF CancelAcceptedBooking, ReleaseClaim
      <4> QED
        BY <2>1, <4>1
    <3> QED
      BY <1>2, <2>1, <2>3, <3>1
  <2> QED
    BY <2>2, <2>3
<1>5. ASSUME OwnerStep, NEW s \in Shipment PROVE Right(s)
  BY <1>2, <1>5, StatusEditKeeps DEF bookingVars
<1>6. ASSUME Quiet, NEW s \in Shipment PROVE Right(s)
  BY <1>2, <1>6 DEF Quiet, listingVars
<1>7. \A s \in Shipment : Right(s)
  <2> HIDE DEF Right
  <2> QED
    BY <1>3, <1>4, <1>5, <1>6, UserKinds
<1> QED
  BY <1>7 DEF ClaimRight

\* Where one booking carries a shipment and claims it, no other is accepted;
\* what is reported as carried twice stays reported.
LEMMA CarriersKept ==
  ASSUME TypeOK, OwnerEdits \subseteq {"status"}, UserStep, NEW known,
         NEW s \in Shipment, Carried(s, known, {})
  PROVE  Carried(s, known, {})'
<1> SUFFICES ASSUME s \notin known
             PROVE  \A b \in CommittedFor(s)' :
                      CommittedFor(s)' = {b} /\ shipment'[s].activeBooking = b
  BY DEF Carried
<1>1. \A b \in CommittedFor(s) : CommittedFor(s) = {b} /\ shipment[s].activeBooking = b
  BY DEF Carried
<1>2. ASSUME CommittedFor(s)' = CommittedFor(s),
             shipment'[s].activeBooking = shipment[s].activeBooking
      PROVE  \A b \in CommittedFor(s)' :
               CommittedFor(s)' = {b} /\ shipment'[s].activeBooking = b
  BY <1>1, <1>2
<1>3. ASSUME NEW b \in BookingId, AcceptBooking(b)
      PROVE  \A x \in CommittedFor(s)' :
               CommittedFor(s)' = {x} /\ shipment'[s].activeBooking = x
  <2>1. /\ booking[b].status = "pending"
        /\ booking'[b] = [status |-> "accepted", reserved |-> shipment[b[1]].weight]
        /\ \A x \in BookingId \ {b} : booking'[x] = booking[x]
        /\ shipment'[b[1]].activeBooking = b
        /\ \A x \in Shipment \ {b[1]} : shipment'[x] = shipment[x]
    BY <1>3, AcceptEffect
  <2>2. CASE s = b[1]
    <3>1. CommittedFor(s) = {}
      <4>1. b \notin CommittedFor(s)
        BY <2>1 DEF CommittedFor, BookingsIn, Committed
      <4>2. shipment[s].activeBooking \in {None, b}
        BY <1>3, <2>2 DEF AcceptBooking, ClaimFree
      <4>3. None \notin CommittedFor(s)
        BY BookingAssumption DEF CommittedFor, BookingsIn
      <4> QED
        BY <1>1, <4>1, <4>2, <4>3
    <3>2. CommittedFor(s)' = {b}
      BY <2>1, <2>2, <3>1 DEF CommittedFor, BookingsIn, Committed
    <3> QED
      BY <2>1, <2>2, <3>2
  <2>3. CASE s # b[1]
    <3>1. CommittedFor(s)' = CommittedFor(s)
      BY <2>1, <2>3 DEF CommittedFor, BookingsIn
    <3> QED
      BY <1>2, <2>1, <2>3, <3>1
  <2> QED
    BY <2>2, <2>3
<1>4. ASSUME NEW b \in BookingId, CancelAcceptedBooking(b)
      PROVE  \A x \in CommittedFor(s)' :
               CommittedFor(s)' = {x} /\ shipment'[s].activeBooking = x
  <2>1. /\ booking[b].status = "accepted" /\ booking'[b].status = "cancelled"
        /\ \A x \in BookingId \ {b} : booking'[x] = booking[x]
        /\ \A x \in Shipment \ {b[1]} : shipment'[x] = shipment[x]
    BY <1>4, CancelEffect
  <2>2. CASE s = b[1]
    <3>1. b \in CommittedFor(s)
      BY <2>1, <2>2 DEF CommittedFor, BookingsIn, Committed
    <3>2. CommittedFor(s)' = {}
      BY <1>1, <2>1, <2>2, <3>1 DEF CommittedFor, BookingsIn, Committed
    <3> QED
      BY <3>2
  <2>3. CASE s # b[1]
    <3>1. CommittedFor(s)' = CommittedFor(s)
      BY <2>1, <2>3 DEF CommittedFor, BookingsIn
    <3> QED
      BY <1>2, <2>1, <2>3, <3>1
  <2> QED
    BY <2>2, <2>3
<1>5. CASE OwnerStep
  <2>1. booking' = booking /\ shipment'[s].activeBooking = shipment[s].activeBooking
    BY <1>5, StatusEditKeeps DEF bookingVars
  <2>2. CommittedFor(s)' = CommittedFor(s)
    BY <2>1 DEF CommittedFor, BookingsIn
  <2> QED
    BY <1>2, <2>1, <2>2
<1>6. CASE Quiet
  <2>1. CommittedFor(s)' = CommittedFor(s) /\ shipment' = shipment
    BY <1>6 DEF Quiet, CommittedFor, BookingsIn, listingVars
  <2> QED
    BY <1>2, <2>1
<1> QED
  BY <1>3, <1>4, <1>5, <1>6, UserKinds

\* A ledger that is there stays there.
LEMMA LedgersStay ==
  ASSUME TypeOK, WholeHundredths, OwnerEdits \subseteq {"status"}, LedgerRight, UserStep,
         NEW t \in Trip, trip'[t].reserved = None
  PROVE  trip[t].reserved = None
<1>1. \A s \in Shipment : shipment'[s].weight = shipment[s].weight
  BY WeightsStay
<1>2. TypeOK'
  BY UserKinds
<1>3. ASSUME NEW b \in BookingId, AcceptBooking(b) PROVE trip[t].reserved = None
  BY <1>3, LedgerAccepted, ListingAssumption
<1>4. ASSUME NEW b \in BookingId, CancelAcceptedBooking(b) PROVE trip[t].reserved = None
  <2>1. LoadOf(CommittedOn(b[2]))' # None
    BY <1>1, <1>2, <1>4, LoadCancelled, ListingAssumption
  <2> QED
    BY <1>1, <1>2, <1>4, <2>1, LedgerCancelled
<1>5. CASE OwnerStep
  BY <1>5, StatusEditKeeps
<1>6. CASE Quiet
  BY <1>6 DEF Quiet, listingVars
<1> QED
  BY <1>3, <1>4, <1>5, <1>6, UserKinds

\* The users, who wait while the reconciler runs, keep its invariant.
LEMMA UsersBesideReconciler ==
  ASSUME ReconcilerHypothesis, ReconcilerInv, UserStep
  PROVE  ReconcilerInv'
<1>0. /\ TypeOK /\ LegacyTypeOK /\ LedgerRight /\ ClaimRight /\ UpgradeLasts
      /\ ReadingRight /\ PlanRight /\ WholeHundredths /\ OwnerEdits \subseteq {"status"}
  BY DEF ReconcilerInv, ReconcilerHypothesis, LegacyTypeOK
<1>1. /\ phase' = phase /\ readTrips' = readTrips /\ readShipments' = readShipments
      /\ plan' = plan /\ conflicts' = conflicts /\ reported' = reported
      /\ upgraded' = upgraded
  BY <1>0, UserKinds DEF reconcilerVars
<1>2. phase = "idle" /\ plan = {}
  BY <1>0 DEF UserStep, ReconcilerHypothesis, ReadingRight
<1>3. LegacyTypeOK'
  BY <1>0, <1>1, UserKinds DEF LegacyTypeOK
<1>4. LedgerRight' /\ ClaimRight'
  BY <1>0, LedgerKept, ClaimsKept
<1>5. UpgradeLasts'
  <2>1. \A t \in Trip : trip'[t].reserved = None => trip[t].reserved = None
    BY <1>0, LedgersStay
  <2>2. ASSUME upgraded, NEW s \in Shipment PROVE Carried(s, reported, {})'
    <3>1. Carried(s, reported, {})
      BY <1>0, <2>2 DEF UpgradeLasts
    <3>2. PICK known : known = reported
      OBVIOUS
    <3>3. Carried(s, known, {})'
      BY <1>0, <3>1, <3>2, CarriersKept
    <3> QED
      BY <1>1, <3>2, <3>3 DEF Carried
  <2> QED
    BY <1>0, <1>1, <1>2, <2>1, <2>2 DEF UpgradeLasts
<1>6. ReadingRight' /\ PlanRight'
  BY <1>1, <1>2 DEF ReadingRight, PlanRight
<1> QED
  BY <1>3, <1>4, <1>5, <1>6 DEF ReconcilerInv

-----------------------------------------------------------------------------
\* What earlier clients wrote has no ledger to be wrong, and no claim.
LEMMA ReconcilerInitially == ASSUME LegacyInit PROVE ReconcilerInv
<1>1. /\ phase = "idle" /\ plan = {} /\ upgraded = FALSE /\ conflicts = {} /\ reported = {}
      /\ readTrips = None /\ readShipments = None
  BY DEF LegacyInit
<1>2. BookingTypeOK
  <2>1. \A d \in [status: {"absent", "pending", "accepted"}, reserved: {None}] :
          d \in BookingDoc /\ d.status \in RequestStatus \cup {"absent"}
    BY DEF BookingDoc, BookingStatus, Open, RequestStatus
  <2> QED
    BY <2>1 DEF LegacyInit, BookingTypeOK, Link
<1>3. TypeOK
  <2>1. ListingTypeOK(BookingId)
    BY ListingTypeInit DEF LegacyInit
  <2>2. SafetyTypeOK
    BY ConstantTypes DEF LegacyInit, InitSafety, SafetyTypeOK, NoReview, Review
  <2>3. HandoffTypeOK
    BY ConstantTypes
       DEF LegacyInit, InitHandoff, HandoffTypeOK, NewSecret, Secret, NewVerification,
           Verification
  <2> QED
    BY <1>2, <2>1, <2>2, <2>3 DEF TypeOK
<1>4. LegacyTypeOK
  BY <1>1, <1>3 DEF LegacyTypeOK
<1>5. LedgerRight
  <2>1. \A b \in BookingId : snapshot[b] = None
    BY DEF LegacyInit
  <2>2. ASSUME NEW t \in Trip, trip[t].reserved # None
        PROVE  LoadOf(CommittedOn(t)) = trip[t].reserved
    <3>1. trip[t].reserved = 0
      BY <2>2 DEF LegacyInit, InitListings
    <3>2. CommittedOn(t) = {}
      <4>1. \A b \in BookingId : booking[b].status \in {"absent", "pending", "accepted"}
        BY DEF LegacyInit
      <4> QED
        BY <2>2, <4>1 DEF LegacyInit, CommittedOn, BookingsIn, Committed
    <3>3. TokensOf(Held, CommittedOn(t)) = {}
      BY <3>2 DEF TokensOf
    <3> QED
      BY <3>1, <3>3, LoadIsTokens, FS_EmptySet
  <2> QED
    BY <2>1, <2>2 DEF LedgerRight
<1>6. ClaimRight
  BY DEF LegacyInit, InitListings, ClaimRight
<1> QED
  BY <1>1, <1>4, <1>5, <1>6 DEF ReconcilerInv, UpgradeLasts, ReadingRight, PlanRight

\* While the system stands still, so do loads, ledgers, claims and carriers.
LEMMA SystemStands ==
  ASSUME TypeOK, LedgerRight, ClaimRight, UNCHANGED vars
  PROVE  /\ TypeOK' /\ LedgerRight' /\ ClaimRight'
         /\ trip' = trip /\ shipment' = shipment
         /\ \A t \in Trip : LoadOf(CommittedOn(t))' = LoadOf(CommittedOn(t))
         /\ \A s \in Shipment : CommittedFor(s)' = CommittedFor(s)
<1>1. /\ trip' = trip /\ shipment' = shipment /\ booking' = booking /\ snapshot' = snapshot
  BY DEF vars, listingVars, bookingVars
<1>2. TypeOK'
  BY TypeStep
<1>3. \A t \in Trip : LoadOf(CommittedOn(t))' = LoadOf(CommittedOn(t))
  BY <1>1, LoadStays DEF CommittedOn, BookingsIn
<1>4. LedgerRight'
  BY <1>1, <1>3 DEF LedgerRight
<1>5. ClaimRight'
  BY <1>1 DEF ClaimRight
<1>6. \A s \in Shipment : CommittedFor(s)' = CommittedFor(s)
  BY <1>1 DEF CommittedFor, BookingsIn
<1> QED
  BY <1>1, <1>2, <1>3, <1>4, <1>5, <1>6

\* An update is of a trip or of a shipment.
LEMMA UpdateKinds ==
  ASSUME NEW u
  PROVE  /\ u \in TripUpdate => /\ u.trip \in Trip /\ u.total \in Nat /\ u.reserved \in Nat
                                /\ u.available \in Nat
         /\ u \in ShipmentUpdate => u.shipment \in Shipment /\ u.booking \in BookingId
         /\ ~(u \in TripUpdate /\ u \in ShipmentUpdate)
<1>1. u \in TripUpdate => DOMAIN u = {"trip", "total", "reserved", "available"}
  BY DEF TripUpdate
<1>2. u \in ShipmentUpdate => DOMAIN u = {"shipment", "booking"}
  BY DEF ShipmentUpdate
<1>3. {"trip", "total", "reserved", "available"} # {"shipment", "booking"}
  OBVIOUS
<1> QED
  BY <1>1, <1>2, <1>3 DEF TripUpdate, ShipmentUpdate

\* What the reconciler reads, it reads right; a crash forgets it.
LEMMA ReadingKept ==
  ASSUME ReconcilerInv, ReadTrips \/ ReadShipments \/ FinishRun \/ Crash
  PROVE  ReconcilerInv'
<1>0. /\ TypeOK /\ LegacyTypeOK /\ LedgerRight /\ ClaimRight /\ UpgradeLasts
      /\ ReadingRight /\ PlanRight
  BY DEF ReconcilerInv, LegacyTypeOK
<1>1. UNCHANGED vars
  BY DEF ReadTrips, ReadShipments, FinishRun, Crash
<1>2. /\ TypeOK' /\ LedgerRight' /\ ClaimRight' /\ trip' = trip /\ shipment' = shipment
      /\ \A s \in Shipment : CommittedFor(s)' = CommittedFor(s)
  BY <1>0, <1>1, SystemStands
<1>3. trip \in [Trip -> TripDoc] /\ shipment \in [Shipment -> ShipmentDoc(BookingId)]
  BY <1>0 DEF TypeOK, ListingTypeOK
<1>4. plan' = {}
  BY <1>0 DEF ReadTrips, ReadShipments, FinishRun, Crash, ReadingRight
<1>5. LegacyTypeOK'
  <2>1. CASE ReadTrips
    BY <1>0, <1>2, <1>3, <1>4, <2>1 DEF LegacyTypeOK, ReadTrips
  <2>2. CASE ReadShipments
    BY <1>0, <1>2, <1>3, <1>4, <2>2 DEF LegacyTypeOK, ReadShipments
  <2>3. CASE FinishRun
    BY <1>0, <1>2, <1>4, <2>3 DEF LegacyTypeOK, FinishRun
  <2>4. CASE Crash
    BY <1>0, <1>2, <1>4, <2>4 DEF LegacyTypeOK, Crash
  <2> QED
    BY <2>1, <2>2, <2>3, <2>4
<1>6. ReadingRight' /\ PlanRight'
  BY <1>0, <1>1, <1>2, <1>4
     DEF ReadingRight, PlanRight, ReadTrips, ReadShipments, FinishRun, Crash
<1>7. UpgradeLasts'
  <2>1. CASE FinishRun
    <3>1. phase = "write" /\ plan = {} /\ reported' = conflicts
      BY <2>1 DEF FinishRun
    <3>2. \A t \in Trip : trip'[t].reserved = None => t \in reported'
      BY <1>0, <1>2, <3>1 DEF PlanRight
    <3>3. \A s \in Shipment : Carried(s, reported, {})'
      BY <1>0, <1>2, <3>1 DEF PlanRight, Carried
    <3> QED
      BY <1>4, <3>2, <3>3 DEF UpgradeLasts
  <2>2. CASE ReadTrips \/ ReadShipments \/ Crash
    <3>1. upgraded' = upgraded /\ reported' = reported
      BY <2>2 DEF ReadTrips, ReadShipments, Crash
    <3> QED
      BY <1>0, <1>2, <1>4, <3>1 DEF UpgradeLasts, Carried
  <2> QED
    BY <2>1, <2>2
<1> QED
  BY <1>2, <1>5, <1>6, <1>7 DEF ReconcilerInv

\* What the reconciler derives from its readings is the load of the trip.
LEMMA DerivedIsLoad ==
  ASSUME TypeOK, WholeHundredths, readShipments = shipment, NEW t \in Trip
  PROVE  /\ DerivedReservation(t) = LoadOf(CommittedOn(t))
         /\ DerivedReservation(t) \in Nat /\ DerivedReservation(t) % 2 = 0
<1>1. DerivedReservation(t) = RoundKg(LoadOf(CommittedOn(t)))
  BY DEF DerivedReservation, LoadOf, HeldWeight
<1> QED
  BY <1>1, LoadEven

\* One carrier is all there is where only one is counted.
LEMMA SoleCarrier ==
  ASSUME NEW s \in Shipment, NEW b \in CommittedFor(s)
  PROVE  /\ Cardinality(CommittedFor(s)) = 1 => CommittedFor(s) = {b}
         /\ ~(Cardinality(CommittedFor(s)) > 1) => Cardinality(CommittedFor(s)) = 1
<1>1. IsFiniteSet(CommittedFor(s))
  <2>1. CommittedFor(s) \subseteq BookingId
    BY DEF CommittedFor, BookingsIn
  <2> QED
    BY <2>1, BookingAssumption, FS_Subset
<1>2. Cardinality(CommittedFor(s)) \in Nat /\ Cardinality(CommittedFor(s)) # 0
  BY <1>1, FS_CardinalityType, FS_EmptySet
<1>3. Cardinality(CommittedFor(s)) = 1 => \E x : CommittedFor(s) = {x}
  BY <1>1, FS_Singleton
<1> QED
  BY <1>2, <1>3

\* Every trip without a ledger, and every shipment without its one carrier's
\* claim, is in the plan or reported.
LEMMA PlanMade ==
  ASSUME ReconcilerHypothesis, ReconcilerInv, PlanUpdates
  PROVE  ReconcilerInv'
<1>0. /\ TypeOK /\ LegacyTypeOK /\ LedgerRight /\ ClaimRight /\ UpgradeLasts
      /\ ReadingRight /\ PlanRight /\ WholeHundredths
  BY DEF ReconcilerInv, LegacyTypeOK, ReconcilerHypothesis
<1>1. /\ phase = "shipments" /\ phase' = "write" /\ plan' = Plan /\ conflicts' = Conflicts
      /\ readTrips' = None /\ readShipments' = None
      /\ reported' = reported /\ upgraded' = upgraded /\ UNCHANGED vars
  BY DEF PlanUpdates
<1>2. readTrips = trip /\ readShipments = shipment
  BY <1>0, <1>1 DEF ReadingRight
<1>3. /\ TypeOK' /\ LedgerRight' /\ ClaimRight' /\ trip' = trip /\ shipment' = shipment
      /\ \A t \in Trip : LoadOf(CommittedOn(t))' = LoadOf(CommittedOn(t))
      /\ \A s \in Shipment : CommittedFor(s)' = CommittedFor(s)
  BY <1>0, <1>1, SystemStands
<1> DEFINE TripRow(t) ==
      [trip |-> t, total |-> ReadCapacity(t), reserved |-> DerivedReservation(t),
       available |-> IF DerivedReservation(t) > ReadCapacity(t) THEN 0
                     ELSE RoundKg(ReadCapacity(t) - DerivedReservation(t))]
           ShipmentRow(b) == [shipment |-> b[1], booking |-> b]
<1>4. /\ \A u \in Plan : \/ \E t \in Trip : NeedsLedger(t) /\ u = TripRow(t)
                         \/ \E b \in BookingsIn(Committed) : NeedsClaim(b[1]) /\ u = ShipmentRow(b)
      /\ \A t \in Trip : NeedsLedger(t) => TripRow(t) \in Plan
      /\ \A b \in BookingsIn(Committed) : NeedsClaim(b[1]) => ShipmentRow(b) \in Plan
  BY DEF Plan
<1>5. ASSUME NEW t \in Trip, NeedsLedger(t)
      PROVE  /\ TripRow(t) \in TripUpdate /\ TripRow(t).reserved <= TripRow(t).total
             /\ TripRow(t).trip = t /\ TripRow(t).reserved = LoadOf(CommittedOn(t))
             /\ trip[t].reserved = None
  <2>1. /\ ReadCapacity(t) \in Int /\ ReadCapacity(t) > 0
        /\ trip[t].reserved = None /\ DerivedReservation(t) <= ReadCapacity(t)
    <3>1. trip[t] \in TripDoc
      BY <1>0 DEF TypeOK, ListingTypeOK
    <3> QED
      BY <1>2, <1>5, <3>1 DEF NeedsLedger, ReadCapacity, Default, TripDoc
  <2>2. DerivedReservation(t) \in Nat /\ DerivedReservation(t) = LoadOf(CommittedOn(t))
    BY <1>0, <1>2, DerivedIsLoad
  <2>3. TripRow(t).available \in Nat
    <3>1. ReadCapacity(t) - DerivedReservation(t) \in Nat
      BY <2>1, <2>2
    <3>2. RoundKg(ReadCapacity(t) - DerivedReservation(t)) \in Nat
      BY <3>1 DEF RoundKg
    <3> QED
      BY <2>1, <2>2, <3>2
  <2> QED
    BY <2>1, <2>2, <2>3 DEF TripUpdate
<1>6. ASSUME NEW b \in BookingsIn(Committed), NeedsClaim(b[1])
      PROVE  /\ ShipmentRow(b) \in ShipmentUpdate
             /\ ShipmentRow(b).shipment = b[1] /\ ShipmentRow(b).booking = b
             /\ CommittedFor(b[1]) = {b} /\ shipment[b[1]].activeBooking = None
  <2>1. b \in BookingId /\ b[1] \in Shipment /\ b \in CommittedFor(b[1])
    BY BookingParts DEF BookingsIn, CommittedFor
  <2> QED
    BY <1>2, <1>6, <2>1, SoleCarrier DEF ShipmentUpdate, NeedsClaim
<1> HIDE DEF TripRow, ShipmentRow
<1>7. \A u \in Plan :
        \/ \E t \in Trip : /\ u \in TripUpdate /\ u.trip = t /\ u.reserved = LoadOf(CommittedOn(t))
                           /\ u.reserved <= u.total /\ trip[t].reserved = None
        \/ \E b \in BookingId : /\ u \in ShipmentUpdate /\ u.booking = b /\ u.shipment \in Shipment
                                /\ CommittedFor(u.shipment) = {b}
                                /\ shipment[u.shipment].activeBooking = None
  <2> SUFFICES ASSUME NEW u \in Plan
               PROVE  \/ \E t \in Trip : /\ u \in TripUpdate /\ u.trip = t
                                         /\ u.reserved = LoadOf(CommittedOn(t))
                                         /\ u.reserved <= u.total /\ trip[t].reserved = None
                      \/ \E b \in BookingId : /\ u \in ShipmentUpdate /\ u.booking = b
                                              /\ u.shipment \in Shipment
                                              /\ CommittedFor(u.shipment) = {b}
                                              /\ shipment[u.shipment].activeBooking = None
    OBVIOUS
  <2>1. CASE \E t \in Trip : NeedsLedger(t) /\ u = TripRow(t)
    BY <1>5, <2>1
  <2>2. CASE \E b \in BookingsIn(Committed) : NeedsClaim(b[1]) /\ u = ShipmentRow(b)
    BY <1>6, <2>2, BookingParts DEF BookingsIn
  <2> QED
    BY <1>4, <2>1, <2>2
<1>8. LegacyTypeOK'
  <2>1. Plan \subseteq TripUpdate \cup ShipmentUpdate
    BY <1>7
  <2>2. \A u \in Plan \cap TripUpdate : u.reserved <= u.total
    BY <1>7, UpdateKinds
  <2>3. Conflicts \subseteq Trip \cup Shipment
    BY DEF Conflicts
  <2> QED
    BY <1>0, <1>1, <1>3, <2>1, <2>2, <2>3 DEF LegacyTypeOK
<1>9. ReadingRight'
  BY <1>1 DEF ReadingRight
<1>10. PlanRight'
  <2>1. /\ \A u \in Plan : u \in TripUpdate => u.reserved = LoadOf(CommittedOn(u.trip))'
        /\ \A u \in Plan : u \in ShipmentUpdate => CommittedFor(u.shipment)' = {u.booking}
    BY <1>3, <1>7, UpdateKinds
  <2>2. ASSUME NEW t \in Trip, trip[t].reserved = None
        PROVE  t \in Conflicts \/ \E u \in Plan : u \in TripUpdate /\ u.trip = t
    BY <1>2, <1>4, <1>5, <2>2 DEF Conflicts
  <2>3. ASSUME NEW s \in Shipment, NEW b \in CommittedFor(s), s \notin Conflicts
        PROVE  /\ CommittedFor(s) = {b}
               /\ \/ shipment[s].activeBooking = b
                  \/ \E u \in Plan \cap ShipmentUpdate : u.shipment = s
    <3>1. Cardinality(CommittedFor(s)) = 1 /\ CommittedFor(s) = {b}
      BY <2>3, SoleCarrier DEF Conflicts
    <3>2. b \in BookingsIn(Committed) /\ b[1] = s
      BY DEF CommittedFor
    <3>3. CASE shipment[s].activeBooking = None
      BY <1>2, <1>4, <1>6, <3>1, <3>2, <3>3 DEF NeedsClaim
    <3>4. CASE shipment[s].activeBooking # None
      <4>1. shipment[s].activeBooking \in CommittedFor(s)
        BY <1>0, <3>4
           DEF TypeOK, ListingTypeOK, ShipmentDoc, ClaimRight, CommittedFor, BookingsIn
      <4> QED
        BY <3>1, <4>1
    <3> QED
      BY <3>1, <3>3, <3>4
  <2> QED
    BY <1>1, <1>3, <2>1, <2>2, <2>3 DEF PlanRight, Carried
<1>11. UpgradeLasts'
  <2>1. ASSUME upgraded, NEW u \in Plan, u \in ShipmentUpdate
        PROVE  u.shipment \in reported
    <3>1. /\ u.booking \in CommittedFor(u.shipment) /\ u.shipment \in Shipment
          /\ shipment[u.shipment].activeBooking = None /\ u.booking \in BookingId
      BY <1>7, <2>1, UpdateKinds
    <3> QED
      BY <1>0, <2>1, <3>1, BookingAssumption DEF UpgradeLasts, Carried
  <2>2. ASSUME upgraded, NEW u \in Plan, u \in TripUpdate
        PROVE  u.trip \in reported
    BY <1>0, <1>7, <2>2, UpdateKinds DEF UpgradeLasts
  <2> QED
    BY <1>0, <1>1, <1>3, <2>1, <2>2 DEF UpgradeLasts, Carried
<1> QED
  BY <1>3, <1>8, <1>9, <1>10, <1>11 DEF ReconcilerInv

\* What a batch leaves of a document: it is as it was, and the batch has no
\* update of it, or it holds the values of such an update.
TripWritten(S, t) ==
  \/ (\A u \in S \cap TripUpdate : u.trip # t) /\ trip'[t] = trip[t]
  \/ \E u \in S \cap TripUpdate :
       /\ u.trip = t
       /\ trip'[t] = [trip[t] EXCEPT !.total = u.total, !.reserved = u.reserved,
                                     !.available = u.available]

ShipmentWritten(S, s) ==
  \/ (\A u \in S \cap ShipmentUpdate : u.shipment # s) /\ shipment'[s] = shipment[s]
  \/ \E u \in S \cap ShipmentUpdate :
       /\ u.shipment = s
       /\ shipment'[s] = [shipment[s] EXCEPT !.activeBooking = u.booking,
                            !.activeCarrier = Traveler(u.booking),
                            !.activeTrip = u.booking[2]]

LEMMA BatchWritten ==
  ASSUME CommitBatch
  PROVE  /\ \E S \in SUBSET plan : /\ plan' = plan \ S
                                   /\ \A t \in Trip : TripWritten(S, t)
                                   /\ \A s \in Shipment : ShipmentWritten(S, s)
         /\ DOMAIN trip' = Trip /\ DOMAIN shipment' = Shipment
         /\ trip' = [t \in Trip |-> trip'[t]] /\ shipment' = [s \in Shipment |-> shipment'[s]]
<1> DEFINE Row(S, t) == CHOOSE x \in S \cap TripUpdate : x.trip = t
           Sole(S, s) == CHOOSE x \in S \cap ShipmentUpdate : x.shipment = s
<1>1. PICK S \in SUBSET plan :
        /\ trip' = [t \in Trip |->
             IF \E u \in S \cap TripUpdate : u.trip = t
             THEN [trip[t] EXCEPT !.total = Row(S, t).total, !.reserved = Row(S, t).reserved,
                                  !.available = Row(S, t).available]
             ELSE trip[t]]
        /\ shipment' = [s \in Shipment |->
             IF \E u \in S \cap ShipmentUpdate : u.shipment = s
             THEN [shipment[s] EXCEPT !.activeBooking = Sole(S, s).booking,
                     !.activeCarrier = Traveler(Sole(S, s).booking),
                     !.activeTrip = Sole(S, s).booking[2]]
             ELSE shipment[s]]
        /\ plan' = plan \ S
  BY Zenon DEF CommitBatch
<1>2. ASSUME NEW t \in Trip PROVE TripWritten(S, t)
  <2>1. CASE \E u \in S \cap TripUpdate : u.trip = t
    <3>1. Row(S, t) \in S \cap TripUpdate /\ Row(S, t).trip = t
      BY <2>1, Zenon
    <3> HIDE DEF Row
    <3>2. trip'[t] = [trip[t] EXCEPT !.total = Row(S, t).total,
                        !.reserved = Row(S, t).reserved, !.available = Row(S, t).available]
      BY <1>1, <2>1
    <3> QED
      BY <3>1, <3>2 DEF TripWritten
  <2>2. CASE \A u \in S \cap TripUpdate : u.trip # t
    <3> HIDE DEF Row
    <3> QED
      BY <1>1, <2>2 DEF TripWritten
  <2> QED
    BY <2>1, <2>2
<1>3. ASSUME NEW s \in Shipment PROVE ShipmentWritten(S, s)
  <2>1. CASE \E u \in S \cap ShipmentUpdate : u.shipment = s
    <3>1. Sole(S, s) \in S \cap ShipmentUpdate /\ Sole(S, s).shipment = s
      BY <2>1, Zenon
    <3> HIDE DEF Sole
    <3>2. shipment'[s] = [shipment[s] EXCEPT !.activeBooking = Sole(S, s).booking,
                            !.activeCarrier = Traveler(Sole(S, s).booking),
                            !.activeTrip = Sole(S, s).booking[2]]
      BY <1>1, <2>1
    <3> QED
      BY <3>1, <3>2 DEF ShipmentWritten
  <2>2. CASE \A u \in S \cap ShipmentUpdate : u.shipment # s
    <3> HIDE DEF Sole
    <3> QED
      BY <1>1, <2>2 DEF ShipmentWritten
  <2> QED
    BY <2>1, <2>2
<1> HIDE DEF Row, Sole
<1>4. /\ DOMAIN trip' = Trip /\ DOMAIN shipment' = Shipment
      /\ trip' = [t \in Trip |-> trip'[t]] /\ shipment' = [s \in Shipment |-> shipment'[s]]
  BY <1>1
<1> QED
  BY <1>1, <1>2, <1>3, <1>4, Zenon

\* A batch leaves the ledgers and claims it writes right, and the others alone.
LEMMA BatchKept ==
  ASSUME ReconcilerInv, CommitBatch
  PROVE  ReconcilerInv'
<1>0. /\ TypeOK /\ LegacyTypeOK /\ LedgerRight /\ ClaimRight /\ UpgradeLasts
      /\ ReadingRight /\ PlanRight
  BY DEF ReconcilerInv, LegacyTypeOK
<1>1. /\ phase = "write" /\ phase' = phase /\ conflicts' = conflicts
      /\ readTrips' = readTrips /\ readShipments' = readShipments
      /\ reported' = reported /\ upgraded' = upgraded
      /\ booking' = booking /\ snapshot' = snapshot
      /\ UNCHANGED <<safetyVars, handoffVars, bookingVars>>
  BY DEF CommitBatch, bookingVars
<1>2. PICK S \in SUBSET plan : /\ plan' = plan \ S
                               /\ \A t \in Trip : TripWritten(S, t)
                               /\ \A s \in Shipment : ShipmentWritten(S, s)
  BY BatchWritten
<1>3. /\ trip \in [Trip -> TripDoc] /\ shipment \in [Shipment -> ShipmentDoc(BookingId)]
      /\ plan \subseteq TripUpdate \cup ShipmentUpdate
  BY <1>0 DEF TypeOK, ListingTypeOK, LegacyTypeOK
<1>4. ASSUME NEW t \in Trip
      PROVE  /\ trip'[t] \in TripDoc
             /\ \/ trip'[t] = trip[t] /\ \A u \in S : u \in TripUpdate => u.trip # t
                \/ /\ trip'[t].reserved = LoadOf(CommittedOn(t)) /\ trip'[t].reserved # None
                   /\ \E u \in S : u \in TripUpdate /\ u.trip = t
  <2>1. CASE trip'[t] = trip[t] /\ \A u \in S \cap TripUpdate : u.trip # t
    BY <1>3, <2>1
  <2>2. ASSUME NEW u \in S \cap TripUpdate, u.trip = t,
               trip'[t] = [trip[t] EXCEPT !.total = u.total, !.reserved = u.reserved,
                                          !.available = u.available]
        PROVE  /\ trip'[t] \in TripDoc
               /\ trip'[t].reserved = LoadOf(CommittedOn(t)) /\ trip'[t].reserved # None
    <3>1. u.total \in Nat /\ u.reserved \in Nat /\ u.available \in Nat
      BY UpdateKinds
    <3>2. u.reserved = LoadOf(CommittedOn(t)) /\ u.reserved # None
      BY <1>0, <2>2, <3>1, ListingAssumption DEF PlanRight
    <3>3. PICK d \in TripDoc : d = trip[t]
      BY <1>3
    <3>4. u.total \in Int /\ u.reserved \in Int /\ u.available \in Int
      BY <3>1
    <3>5. /\ [d EXCEPT !.total = u.total, !.reserved = u.reserved, !.available = u.available]
               \in TripDoc
          /\ [d EXCEPT !.total = u.total, !.reserved = u.reserved,
                       !.available = u.available].reserved = u.reserved
      BY <3>4 DEF TripDoc
    <3> QED
      BY <2>2, <3>2, <3>3, <3>5
  <2>3. \/ trip'[t] = trip[t] /\ \A u \in S \cap TripUpdate : u.trip # t
        \/ \E u \in S \cap TripUpdate :
             /\ u.trip = t
             /\ trip'[t] = [trip[t] EXCEPT !.total = u.total, !.reserved = u.reserved,
                                           !.available = u.available]
    BY <1>2 DEF TripWritten
  <2> QED
    BY <2>1, <2>2, <2>3
<1>5. ASSUME NEW s \in Shipment
      PROVE  /\ shipment'[s] \in ShipmentDoc(BookingId)
             /\ shipment'[s].weight = shipment[s].weight
             /\ \/ /\ shipment'[s] = shipment[s]
                   /\ \A u \in S : u \in ShipmentUpdate => u.shipment # s
                \/ /\ shipment'[s].activeBooking \in BookingId
                   /\ CommittedFor(s) = {shipment'[s].activeBooking}
                   /\ \E u \in S : u \in ShipmentUpdate /\ u.shipment = s
  <2>1. CASE shipment'[s] = shipment[s] /\ \A u \in S \cap ShipmentUpdate : u.shipment # s
    BY <1>3, <2>1
  <2>2. ASSUME NEW u \in S \cap ShipmentUpdate, u.shipment = s,
               shipment'[s] = [shipment[s] EXCEPT !.activeBooking = u.booking,
                                 !.activeCarrier = Traveler(u.booking),
                                 !.activeTrip = u.booking[2]]
        PROVE  /\ shipment'[s] \in ShipmentDoc(BookingId)
               /\ shipment'[s].weight = shipment[s].weight
               /\ shipment'[s].activeBooking \in BookingId
               /\ CommittedFor(s) = {shipment'[s].activeBooking}
    <3>1. u.booking \in BookingId
      BY UpdateKinds
    <3>2. Traveler(u.booking) \in User /\ u.booking[2] \in Trip
      BY <3>1, BookingParts, ListingAssumption DEF Traveler
    <3>3. CommittedFor(s) = {u.booking}
      BY <1>0, <2>2 DEF PlanRight
    <3>4. shipment[s] \in ShipmentDoc(BookingId)
      BY <1>3
    <3> QED
      BY <2>2, <3>1, <3>2, <3>3, <3>4 DEF ShipmentDoc
  <2>3. \/ shipment'[s] = shipment[s] /\ \A u \in S \cap ShipmentUpdate : u.shipment # s
        \/ \E u \in S \cap ShipmentUpdate :
             /\ u.shipment = s
             /\ shipment'[s] = [shipment[s] EXCEPT !.activeBooking = u.booking,
                                  !.activeCarrier = Traveler(u.booking),
                                  !.activeTrip = u.booking[2]]
    BY <1>2 DEF ShipmentWritten
  <2> QED
    BY <2>1, <2>2, <2>3
<1>6. LegacyTypeOK'
  <2>1. ListingTypeOK(BookingId)'
    <3>1. trip' \in [Trip -> TripDoc]
      BY <1>4, BatchWritten
    <3>2. shipment' \in [Shipment -> ShipmentDoc(BookingId)]
      BY <1>5, BatchWritten
    <3> QED
      BY <3>1, <3>2 DEF ListingTypeOK
  <2>2. SafetyTypeOK' /\ HandoffTypeOK' /\ BookingTypeOK'
    BY <1>0, <1>1 DEF TypeOK, SafetyTypeOK, HandoffTypeOK, BookingTypeOK, safetyVars,
                      handoffVars, bookingVars
  <2> QED
    BY <1>0, <1>1, <1>2, <2>1, <2>2 DEF TypeOK, LegacyTypeOK
<1>7. /\ \A t \in Trip : CommittedOn(t)' = CommittedOn(t)
      /\ \A s \in Shipment : CommittedFor(s)' = CommittedFor(s)
  BY <1>1 DEF CommittedOn, CommittedFor, BookingsIn
<1>8. \A t \in Trip : LoadOf(CommittedOn(t))' = LoadOf(CommittedOn(t))
  BY <1>1, <1>5, <1>7, LoadStays
<1>9. LedgerRight'
  <2>1. \A t \in Trip : trip'[t].reserved # None => LoadOf(CommittedOn(t))' = trip'[t].reserved
    BY <1>0, <1>4, <1>8 DEF LedgerRight
  <2>2. \A b \in BookingId : snapshot'[b] # None => trip'[b[2]].reserved # None
    BY <1>0, <1>1, <1>4, BookingParts DEF LedgerRight
  <2> QED
    BY <2>1, <2>2 DEF LedgerRight
<1>10. ClaimRight'
  <2> SUFFICES ASSUME NEW s \in Shipment, shipment'[s].activeBooking # None
               PROVE  /\ booking[shipment'[s].activeBooking].status \in Committed
                      /\ shipment'[s].activeBooking[1] = s
    BY <1>1 DEF ClaimRight
  <2>1. CASE shipment'[s] = shipment[s]
    BY <1>0, <2>1 DEF ClaimRight
  <2>2. CASE CommittedFor(s) = {shipment'[s].activeBooking}
    BY <2>2 DEF CommittedFor, BookingsIn
  <2> QED
    BY <1>5, <2>1, <2>2
\* Who claimed a shipment, or was about to, does.
<1>11. ASSUME NEW s \in Shipment, NEW b \in CommittedFor(s), CommittedFor(s) = {b},
              \/ shipment[s].activeBooking = b
              \/ \E u \in plan \cap ShipmentUpdate : u.shipment = s
       PROVE  \/ shipment'[s].activeBooking = b
              \/ \E u \in plan' \cap ShipmentUpdate : u.shipment = s
  BY <1>2, <1>5, <1>11
<1>12. UpgradeLasts'
  <2>1. ASSUME upgraded, NEW t \in Trip, trip'[t].reserved = None
        PROVE  t \in reported
    BY <1>0, <1>4, <2>1 DEF UpgradeLasts
  <2>2. ASSUME upgraded, NEW s \in Shipment, NEW b \in CommittedFor(s), s \notin reported
        PROVE  CommittedFor(s) = {b} /\ shipment'[s].activeBooking = b
    <3>1. CommittedFor(s) = {b} /\ shipment[s].activeBooking = b
      BY <1>0, <2>2 DEF UpgradeLasts, Carried
    <3> QED
      BY <1>5, <3>1
  <2> QED
    BY <1>0, <1>1, <1>2, <1>7, <2>1, <2>2 DEF UpgradeLasts, Carried
<1>13. PlanRight'
  <2>1. /\ \A u \in plan' : u \in TripUpdate => u.reserved = LoadOf(CommittedOn(u.trip))'
        /\ \A u \in plan' : u \in ShipmentUpdate => CommittedFor(u.shipment)' = {u.booking}
    BY <1>0, <1>2, <1>7, <1>8, UpdateKinds DEF PlanRight
  <2>2. ASSUME NEW t \in Trip, trip'[t].reserved = None
        PROVE  t \in conflicts \/ \E u \in plan' : u \in TripUpdate /\ u.trip = t
    BY <1>0, <1>1, <1>2, <1>4, <2>2 DEF PlanRight
  <2>3. ASSUME NEW s \in Shipment, NEW b \in CommittedFor(s), s \notin conflicts
        PROVE  /\ CommittedFor(s) = {b}
               /\ \/ shipment'[s].activeBooking = b
                  \/ \E u \in plan' \cap ShipmentUpdate : u.shipment = s
    BY <1>0, <1>1, <1>11, <2>3 DEF PlanRight, Carried
  <2> QED
    BY <1>1, <1>7, <2>1, <2>2, <2>3 DEF PlanRight, Carried
<1>14. ReadingRight'
  BY <1>1 DEF ReadingRight
<1> QED
  BY <1>6, <1>9, <1>10, <1>12, <1>13, <1>14 DEF ReconcilerInv

\* With users, reconciler and crashes, the invariant stays.
LEMMA ReconcilerStays ==
  ASSUME ReconcilerHypothesis, ReconcilerInv, [LegacyNext]_<<vars, reconcilerVars>>
  PROVE  ReconcilerInv'
<1>1. CASE UserStep
  BY <1>1, UsersBesideReconciler
<1>2. CASE ReadTrips \/ ReadShipments \/ FinishRun \/ Crash
  BY <1>2, ReadingKept
<1>3. CASE PlanUpdates
  BY <1>3, PlanMade
<1>4. CASE CommitBatch
  BY <1>4, BatchKept
<1>5. CASE UNCHANGED <<vars, reconcilerVars>>
  <2>1. /\ TypeOK' /\ LedgerRight' /\ ClaimRight' /\ trip' = trip /\ shipment' = shipment
        /\ \A t \in Trip : LoadOf(CommittedOn(t))' = LoadOf(CommittedOn(t))
        /\ \A s \in Shipment : CommittedFor(s)' = CommittedFor(s)
    BY <1>5, SystemStands DEF ReconcilerInv, LegacyTypeOK
  <2>2. LegacyTypeOK' /\ ReadingRight' /\ UpgradeLasts'
    BY <1>5, <2>1
       DEF ReconcilerInv, LegacyTypeOK, ReadingRight, UpgradeLasts, Carried, reconcilerVars
  <2>3. PlanRight'
    BY <1>5, <2>1, UpdateKinds DEF ReconcilerInv, PlanRight, Carried, reconcilerVars
  <2> QED
    BY <2>1, <2>2, <2>3 DEF ReconcilerInv
<1> QED
  BY <1>1, <1>2, <1>3, <1>4, <1>5 DEF LegacyNext, ReconcilerStep

\* However often the reconciler dies on the way and is run again, one complete
\* run leaves every ledger the load of its trip and every shipment with one
\* carrier claimed for it, for as long as bookings go on, or it has reported
\* them (LegacyReservationReconciler).
THEOREM UpgradeCompletes ==
  ASSUME ReconcilerHypothesis
  PROVE  Reconciling => [](LegacyTypeOK /\ UpgradeComplete)
<1>1. LegacyInit => ReconcilerInv
  BY ReconcilerInitially
<1>2. ReconcilerInv /\ [LegacyNext]_<<vars, reconcilerVars>> => ReconcilerInv'
  BY ReconcilerStays
<1>3. ReconcilerInv => LegacyTypeOK /\ UpgradeComplete
  BY DEF ReconcilerInv, LedgerRight, UpgradeLasts, Carried, UpgradeComplete
<1> QED
  BY <1>1, <1>2, <1>3, PTL DEF Reconciling

\* "Rerun idempotency: second run produces zero planned updates"
\* (bookingAcceptance.test.ts): whatever was booked and cancelled since, a run
\* after a complete one plans nothing but for what that one reported.
THEOREM RerunsPlanNothing ==
  ASSUME ReconcilerHypothesis
  PROVE  Reconciling => [][NothingPlanned]_<<vars, reconcilerVars>>
<1>1. LegacyInit => ReconcilerInv
  BY ReconcilerInitially
<1>2. ReconcilerInv /\ [LegacyNext]_<<vars, reconcilerVars>> => ReconcilerInv'
  BY ReconcilerStays
<1>3. ASSUME ReconcilerInv, ReconcilerInv', LegacyNext PROVE NothingPlanned
  <2>1. CASE FinishRun
    BY <2>1 DEF FinishRun, NothingPlanned
  <2>2. CASE upgraded' = upgraded /\ reported' = reported
    BY <1>3, <2>2, SMTT(30) DEF ReconcilerInv, UpgradeLasts, NothingPlanned
  <2>3. FinishRun \/ (upgraded' = upgraded /\ reported' = reported)
    BY <1>3 DEF LegacyNext, ReconcilerStep, ReadTrips, ReadShipments, PlanUpdates,
                CommitBatch, Crash, UserStep, reconcilerVars
  <2> QED
    BY <2>1, <2>2, <2>3
<1> QED
  BY <1>1, <1>2, <1>3, PTL DEF Reconciling

\* LegacyReservationReconciler over bookings from before the ledger, however
\* often it dies and is run again: one complete run leaves every ledger exact
\* and every shipment with a single carrier claimed for it, or reported; server
\* operations keep it so, and no later run touches anything but the reported.
THEOREM UpgradeIsKept ==
  ASSUME ReconcilerHypothesis
  PROVE  Reconciling => UpgradeKept
BY UpgradeCompletes, RerunsPlanNothing, PTL DEF UpgradeKept
=============================================================================
