---------------------------- MODULE StatusProofs -----------------------------
(***************************************************************************)
(* What becomes of one booking in BookingLifecycle: its status, its        *)
(* request and its custody events move together, along the clients' state  *)
(* machine, and custody passes only on verified codes, whatever the other  *)
(* bookings do.                                                            *)
(*                                                                         *)
(* StepOf says what any step of the system does to one booking.  The       *)
(* invariants are shown over its cases.                                    *)
(***************************************************************************)
EXTENDS BookingLifecycleProofs, SafetyProofs

-----------------------------------------------------------------------------
\* The steps as one booking sees them
Unmoved(b) ==
  booking'[b] = booking[b] /\ request'[b] = request[b] /\ custody'[b] = custody[b]

Created(b) ==
  /\ booking[b].status = "absent" /\ booking'[b].status = "pending"
  /\ request'[b] = "pending"
  /\ \/ custody'[b] = custody[b]
     \/ custody'[b] = [custody[b] EXCEPT !["shipment_created"] = "first"]
  /\ b[3] \in Operation => OperationUnused(b[1], b[3])
  /\ DirectWrites \/ Rebookable(b[1])
  /\ \A x \in BookingId \ {b} : booking'[x] = booking[x]

Accepted(b) ==
  /\ booking[b].status = "pending" /\ booking'[b].status = "accepted"
  /\ request'[b] = "accepted"
  /\ custody'[b] = [custody[b] EXCEPT !["traveler_accepted"] = "first"]
  /\ AssertShipmentSafetyClear(b[1])

Withdrawn(b) ==
  /\ \/ booking[b].status = "pending" /\ booking'[b].status \in {"cancelled", "declined"}
     \/ booking[b].status = "accepted" /\ booking'[b].status = "cancelled"
  /\ request'[b] = booking'[b].status
  /\ custody'[b] = custody[b]

PickedUp(b) ==
  /\ booking[b].status = "accepted" /\ booking'[b].status = "in_transit"
  /\ request'[b] = request[b]
  /\ Recorded(b, "traveler_accepted")
  /\ agreement[b]["pickup"].verified
  /\ AssertShipmentSafetyClear(b[1])
  /\ custody'[b] = [custody[b] EXCEPT !["pickup_confirmed"] = "traveler_accepted"]

Delivered(b) ==
  /\ booking[b].status = "in_transit" /\ booking'[b].status = "delivered"
  /\ request'[b] = request[b]
  /\ Recorded(b, "pickup_confirmed")
  /\ agreement[b]["delivery"].verified
  /\ custody'[b] = [custody[b] EXCEPT !["delivery_confirmed"] = DeliveryPredecessor(b)]

Completed(b) ==
  /\ booking[b].status = "delivered" /\ booking'[b].status = "completed"
  /\ request'[b] = request[b] /\ custody'[b] = custody[b]

Travelled(b) ==
  /\ booking'[b] = booking[b] /\ request'[b] = request[b]
  /\ \E e \in {"airport_departure", "airport_arrival"} :
       /\ Recorded(b, TravelPredecessor(e))
       /\ custody'[b] = [custody[b] EXCEPT ![e] = TravelPredecessor(e)]

Moved(b) ==
  \/ Unmoved(b) \/ Created(b) \/ Accepted(b) \/ Withdrawn(b)
  \/ PickedUp(b) \/ Delivered(b) \/ Completed(b) \/ Travelled(b)

\* The documents of a booking exist in the model, whatever its status.
LEMMA BookingShape ==
  ASSUME TypeOK
  PROVE  /\ booking \in [BookingId -> BookingDoc]
         /\ request \in [BookingId -> RequestStatus \cup {"absent"}]
         /\ custody \in [BookingId -> [EventType -> Link]]
BY DEF TypeOK, BookingTypeOK

\* A change of status is seen by the booking it changes, and by no other.
LEMMA StatusSeen ==
  ASSUME TypeOK, NEW b \in BookingId, NEW status,
         booking' = [booking EXCEPT ![b].status = status]
  PROVE  /\ booking'[b].status = status
         /\ \A x \in BookingId \ {b} : booking'[x] = booking[x]
<1>1. booking[b] \in BookingDoc
  BY BookingShape
<1> QED
  BY <1>1, BookingShape DEF BookingDoc

\* So is an event appended to its chain.
LEMMA EventSeen ==
  ASSUME TypeOK, NEW b \in BookingId, NEW e \in EventType, NEW link,
         custody' = AppendEvent(b, e, link)
  PROVE  /\ custody'[b] = [custody[b] EXCEPT ![e] = link]
         /\ \A x \in BookingId \ {b} : custody'[x] = custody[x]
BY BookingShape DEF AppendEvent

\* And a booking created with its request.
LEMMA CreatedSeen ==
  ASSUME TypeOK, NEW b \in BookingId, booking[b].status = "absent", CreatePending(b)
  PROVE  /\ booking'[b].status = "pending" /\ request'[b] = "pending"
         /\ \A x \in BookingId \ {b} :
              booking'[x] = booking[x] /\ request'[x] = request[x]
BY BookingShape DEF CreatePending

\* And a withdrawal.
LEMMA WithdrawnSeen ==
  ASSUME TypeOK, NEW b \in BookingId, NEW status, Withdraw(b, status)
  PROVE  /\ booking'[b].status = status /\ request'[b] = status
         /\ custody' = custody
         /\ \A x \in BookingId \ {b} :
              booking'[x] = booking[x] /\ request'[x] = request[x]
<1>1. /\ booking' = [booking EXCEPT ![b].status = status]
      /\ request' = [request EXCEPT ![b] = status]
      /\ custody' = custody
  BY DEF Withdraw
<1>2. /\ booking'[b].status = status
      /\ \A x \in BookingId \ {b} : booking'[x] = booking[x]
  BY <1>1, StatusSeen
<1> QED
  BY <1>1, <1>2, BookingShape

\* Attempts are counted, so the tag of an attempt is no operation id.
LEMMA AttemptsType ==
  ASSUME NEW s, NEW t
  PROVE  Attempts(s, t) + 1 \in Nat
<1> DEFINE tried == {b \in Existing : b[1] = s /\ b[2] = t}
<1>1. IsFiniteSet(tried)
  BY FS_Subset, BookingAssumption DEF Existing
<1>2. Cardinality(tried) \in Nat
  BY <1>1, FS_CardinalityType
<1> QED
  BY <1>2 DEF Attempts

\* Every step of the system is one of these to each of the bookings.
LEMMA StepOf ==
  ASSUME TypeOK, [Next]_vars, NEW x \in BookingId
  PROVE  Moved(x)
<1> USE DEF Moved
<1>1. ASSUME NEW s \in Shipment, NEW t \in Trip, NEW op \in Operation \cup {None},
             RequestBooking(s, t, op)
      PROVE  Unmoved(x) \/ Created(x)
  <2> DEFINE b == <<s, t, IF op = None THEN Attempts(s, t) + 1 ELSE op>>
  <2>1. /\ b \in BookingId /\ booking[b].status = "absent"
        /\ CreatePending(b)
        /\ custody' = AppendEvent(b, "shipment_created", "first")
        /\ OperationUnused(s, op) /\ Rebookable(b[1])
    BY <1>1 DEF RequestBooking
  <2>4. b[3] \in Operation => OperationUnused(b[1], b[3])
    <3>1. CASE op = None
      <4>1. Attempts(s, t) + 1 \in Nat
        BY AttemptsType
      <4> QED
        BY <3>1, <4>1, BookingAssumption
    <3>2. CASE op # None
      BY <2>1, <3>2
    <3> QED
      BY <3>1, <3>2
  <2> HIDE DEF b
  <2>2. "shipment_created" \in EventType
    BY DEF EventType
  <2>3. /\ custody'[b] = [custody[b] EXCEPT !["shipment_created"] = "first"]
        /\ \A y \in BookingId \ {b} : custody'[y] = custody[y]
    BY <2>1, <2>2, EventSeen
  <2> QED
    BY <2>1, <2>3, <2>4, CreatedSeen DEF Unmoved, Created
<1>2. ASSUME NEW s \in Shipment, NEW t \in Trip, CreateRequestDirectly(s, t)
      PROVE  Unmoved(x) \/ Created(x)
  <2> DEFINE b == <<s, t, 1>>
  <2>1. /\ b \in BookingId /\ booking[b].status = "absent"
        /\ CreatePending(b) /\ custody' = custody
        /\ b[3] \notin Operation /\ DirectWrites
    BY <1>2, BookingAssumption DEF CreateRequestDirectly
  <2> HIDE DEF b
  <2> QED
    BY <2>1, CreatedSeen DEF Unmoved, Created
<1>3. ASSUME NEW b \in BookingId, AcceptBooking(b)
      PROVE  Unmoved(x) \/ Accepted(x)
  <2>1. /\ booking[b].status = "pending" /\ AssertShipmentSafetyClear(b[1])
        /\ request' = [request EXCEPT ![b] = "accepted"]
        /\ custody' = AppendEvent(b, "traveler_accepted", "first")
    BY <1>3 DEF AcceptBooking
  <2>2. /\ booking'[b].status = "accepted"
        /\ \A y \in BookingId \ {b} : booking'[y] = booking[y]
    <3>1. booking'[b] = [status |-> "accepted", reserved |-> shipment[b[1]].weight]
      BY <1>3, AcceptEffect
    <3>2. \A y \in BookingId \ {b} : booking'[y] = booking[y]
      BY <1>3, AcceptEffect
    <3> QED
      BY <3>1, <3>2
  <2>3. /\ custody'[b] = [custody[b] EXCEPT !["traveler_accepted"] = "first"]
        /\ \A y \in BookingId \ {b} : custody'[y] = custody[y]
    BY <2>1, EventSeen DEF EventType
  <2>4. /\ request'[b] = "accepted"
        /\ \A y \in BookingId \ {b} : request'[y] = request[y]
    BY <2>1, BookingShape
  <2> QED
    BY <2>1, <2>2, <2>3, <2>4 DEF Unmoved, Accepted
<1>4. ASSUME NEW b \in BookingId,
             CancelPendingBooking(b) \/ CancelAcceptedBooking(b) \/ DeclineBooking(b)
      PROVE  Unmoved(x) \/ Withdrawn(x)
  <2>1. PICK status \in {"cancelled", "declined"} :
          /\ Withdraw(b, status)
          /\ \/ booking[b].status = "pending"
             \/ booking[b].status = "accepted" /\ status = "cancelled"
    BY <1>4 DEF CancelPendingBooking, CancelAcceptedBooking, DeclineBooking
  <2> QED
    BY <2>1, WithdrawnSeen DEF Unmoved, Withdrawn
<1>5. ASSUME NEW b \in BookingId, ConfirmPickupCustody(b)
      PROVE  Unmoved(x) \/ PickedUp(x)
  <2>1. /\ booking[b].status = "accepted" /\ AssertShipmentSafetyClear(b[1])
        /\ Recorded(b, "traveler_accepted") /\ agreement[b]["pickup"].verified
        /\ booking' = [booking EXCEPT ![b].status = "in_transit"]
        /\ custody' = AppendEvent(b, "pickup_confirmed", "traveler_accepted")
        /\ request' = request
    BY <1>5 DEF ConfirmPickupCustody, Advance
  <2>2. /\ custody'[b] = [custody[b] EXCEPT !["pickup_confirmed"] = "traveler_accepted"]
        /\ \A y \in BookingId \ {b} : custody'[y] = custody[y]
    BY <2>1, EventSeen DEF EventType
  <2>3. /\ booking'[b].status = "in_transit"
        /\ \A y \in BookingId \ {b} : booking'[y] = booking[y]
    BY <2>1, StatusSeen
  <2>4. CASE x = b
    BY <2>1, <2>2, <2>3, <2>4 DEF PickedUp
  <2>5. CASE x # b
    BY <2>1, <2>2, <2>3, <2>5 DEF Unmoved
  <2> QED
    BY <2>4, <2>5
<1>6. ASSUME NEW b \in BookingId, ConfirmDeliveryCustody(b)
      PROVE  Unmoved(x) \/ Delivered(x)
  <2>1. /\ booking[b].status = "in_transit"
        /\ Recorded(b, "pickup_confirmed") /\ agreement[b]["delivery"].verified
        /\ booking' = [booking EXCEPT ![b].status = "delivered"]
        /\ custody' = AppendEvent(b, "delivery_confirmed", DeliveryPredecessor(b))
        /\ request' = request
    BY <1>6 DEF ConfirmDeliveryCustody, Advance
  <2>2. /\ custody'[b] = [custody[b] EXCEPT !["delivery_confirmed"] = DeliveryPredecessor(b)]
        /\ \A y \in BookingId \ {b} : custody'[y] = custody[y]
    BY <2>1, EventSeen DEF EventType
  <2>3. /\ booking'[b].status = "delivered"
        /\ \A y \in BookingId \ {b} : booking'[y] = booking[y]
    BY <2>1, StatusSeen
  <2>4. CASE x = b
    BY <2>1, <2>2, <2>3, <2>4 DEF Delivered
  <2>5. CASE x # b
    BY <2>1, <2>2, <2>3, <2>5 DEF Unmoved
  <2> QED
    BY <2>4, <2>5
<1>7. ASSUME NEW b \in BookingId, CompleteBookingCustody(b)
      PROVE  Unmoved(x) \/ Completed(x)
  <2>1. /\ booking[b].status = "delivered"
        /\ booking' = [booking EXCEPT ![b].status = "completed"]
        /\ custody' = custody /\ request' = request
    BY <1>7 DEF CompleteBookingCustody, Advance
  <2> QED
    BY <2>1, StatusSeen DEF Unmoved, Completed
<1>8. ASSUME NEW b \in BookingId, NEW e \in {"airport_departure", "airport_arrival"},
             RecordTravelEvent(b, e)
      PROVE  Unmoved(x) \/ Travelled(x)
  <2>1. /\ Recorded(b, TravelPredecessor(e))
        /\ custody' = AppendEvent(b, e, TravelPredecessor(e))
        /\ booking' = booking /\ request' = request
    BY <1>8 DEF RecordTravelEvent
  <2>2. /\ custody'[b] = [custody[b] EXCEPT ![e] = TravelPredecessor(e)]
        /\ \A y \in BookingId \ {b} : custody'[y] = custody[y]
    BY <2>1, EventSeen DEF EventType
  <2> QED
    BY <2>1, <2>2 DEF Unmoved, Travelled
<1>9. ASSUME UNCHANGED bookingVars
      PROVE  Unmoved(x)
  BY <1>9 DEF bookingVars, Unmoved
<1> QED
  BY <1>1, <1>2, <1>3, <1>4, <1>5, <1>6, <1>7, <1>8, <1>9
     DEF Next, BookingStep, CustodyStep, HandoffStep, OperatorStep, OwnerStep, vars

-----------------------------------------------------------------------------
\* The request and the booking of one id, in step
InStep(b) ==
  request[b] = IF booking[b].status \in Committed THEN "accepted"
                                                   ELSE booking[b].status

\* Every step moves a booking and its request together.
LEMMA RequestStep ==
  ASSUME TypeOK, RequestFollowsBooking, [Next]_vars
  PROVE  RequestFollowsBooking'
<1>1. ASSUME NEW b \in BookingId
      PROVE  InStep(b)'
  <2>1. InStep(b) /\ Moved(b)
    BY StepOf DEF RequestFollowsBooking, InStep
  <2>2. CASE Unmoved(b)
    BY <2>1, <2>2 DEF Unmoved, InStep
  <2>3. CASE Created(b)
    BY <2>3 DEF Created, InStep, Committed
  <2>4. CASE Accepted(b)
    BY <2>4 DEF Accepted, InStep, Committed
  <2>5. CASE Withdrawn(b)
    BY <2>5 DEF Withdrawn, InStep, Committed
  <2>6. CASE PickedUp(b)
    BY <2>1, <2>6 DEF PickedUp, InStep, Committed
  <2>7. CASE Delivered(b)
    BY <2>1, <2>7 DEF Delivered, InStep, Committed
  <2>8. CASE Completed(b)
    BY <2>1, <2>8 DEF Completed, InStep, Committed
  <2>9. CASE Travelled(b)
    BY <2>1, <2>9 DEF Travelled, InStep
  <2> QED
    BY <2>1, <2>2, <2>3, <2>4, <2>5, <2>6, <2>7, <2>8, <2>9 DEF Moved
<1> QED
  BY <1>1 DEF RequestFollowsBooking, InStep

\* A request is open with its booking, withdrawn with it, and stays accepted
\* while the parcel travels, although the two are written by eight operations.
THEOREM RequestFollows == Spec => []RequestFollowsBooking
<1>1. Init => RequestFollowsBooking
  BY DEF Init, InitBookings, RequestFollowsBooking, Committed
<1> QED
  BY <1>1, RequestStep, TypeCorrect, PTL DEF Spec

-----------------------------------------------------------------------------
PickedUpStatus == {"in_transit", "delivered", "completed"}
DeliveredStatus == {"delivered", "completed"}

\* The chain of custody of one booking
Chained(b) ==
  /\ Recorded(b, "pickup_confirmed") <=> booking[b].status \in PickedUpStatus
  /\ Recorded(b, "delivery_confirmed") <=> booking[b].status \in DeliveredStatus
  /\ \A e \in EventType : custody[b][e] \in EventType => Recorded(b, custody[b][e])

\* The chain of each booking is the invariant of all.
LEMMA ChainedDef == CustodyFollowsStatus <=> \A b \in BookingId : Chained(b)
BY DEF CustodyFollowsStatus, Chained, PickedUpStatus, DeliveredStatus

\* An event that names no event, or a recorded one, extends the chain.
LEMMA ChainExtended ==
  ASSUME TypeOK, NEW b \in BookingId, NEW e \in EventType,
         NEW link \in EventType \cup {"first"},
         link \in EventType => Recorded(b, link),
         \A f \in EventType : custody[b][f] \in EventType => Recorded(b, custody[b][f]),
         custody'[b] = [custody[b] EXCEPT ![e] = link]
  PROVE  /\ Recorded(b, e)'
         /\ \A f \in EventType \ {e} : Recorded(b, f)' <=> Recorded(b, f)
         /\ \A f \in EventType : custody'[b][f] \in EventType => Recorded(b, custody[b][f])'
<1>1. custody[b] \in [EventType -> Link]
  BY BookingShape
<1>2. \A f \in EventType : custody'[b][f] = IF f = e THEN link ELSE custody[b][f]
  BY <1>1
<1>3. link # "absent"
  BY DEF EventType
<1> QED
  BY <1>2, <1>3 DEF Recorded

\* Every step extends the chain of a booking as its new status says.
LEMMA CustodyStepKept ==
  ASSUME TypeOK, CustodyFollowsStatus, [Next]_vars
  PROVE  CustodyFollowsStatus'
<1>1. ASSUME NEW b \in BookingId
      PROVE  Chained(b)'
  <2>1. Chained(b) /\ Moved(b)
    BY StepOf, ChainedDef
  <2> USE DEF Chained, PickedUpStatus, DeliveredStatus
  <2>2. ASSUME custody'[b] = custody[b],
               booking'[b].status \in PickedUpStatus <=> booking[b].status \in PickedUpStatus,
               booking'[b].status \in DeliveredStatus <=> booking[b].status \in DeliveredStatus
        PROVE  Chained(b)'
    BY <2>1, <2>2 DEF Recorded
  <2>3. CASE Unmoved(b) \/ Withdrawn(b) \/ Completed(b)
    BY <2>2, <2>3 DEF Unmoved, Withdrawn, Completed
  <2>4. CASE Created(b)
    <3>1. CASE custody'[b] = custody[b]
      BY <2>2, <2>4, <3>1, SMTT(30) DEF Created
    <3>2. CASE custody'[b] = [custody[b] EXCEPT !["shipment_created"] = "first"]
      BY <2>1, <2>4, <3>2, ChainExtended, ZenonT(30) DEF Created, EventType
    <3> QED
      BY <2>4, <3>1, <3>2 DEF Created
  <2>5. CASE Accepted(b)
    BY <2>1, <2>5, ChainExtended, ZenonT(30) DEF Accepted, EventType
  <2>6. CASE PickedUp(b)
    BY <2>1, <2>6, ChainExtended, ZenonT(30) DEF PickedUp, EventType
  <2>7. CASE Delivered(b)
    BY <2>1, <2>7, ChainExtended, ZenonT(30) DEF Delivered, DeliveryPredecessor, EventType
  <2>8. CASE Travelled(b)
    BY <2>1, <2>8, ChainExtended, ZenonT(30) DEF Travelled, TravelPredecessor, EventType
  <2> QED
    BY <2>1, <2>3, <2>4, <2>5, <2>6, <2>7, <2>8 DEF Moved
<1> QED
  BY <1>1 DEF CustodyFollowsStatus, Chained, PickedUpStatus, DeliveredStatus

\* The events recorded are those of the booking's status, and each follows a
\* recorded one, whichever of them the traveler skips.
THEOREM CustodyFollows == Spec => []CustodyFollowsStatus
<1>1. Init => CustodyFollowsStatus
  BY DEF Init, InitBookings, CustodyFollowsStatus, Recorded, EventType
<1> QED
  BY <1>1, CustodyStepKept, TypeCorrect, PTL DEF Spec

-----------------------------------------------------------------------------
\* The server moves a booking only as the clients' state machine expects, for
\* any number of bookings and whatever the others do.
THEOREM MachineFollowed == Spec => StatusFollowsMachine
<1>1. TypeOK /\ [Next]_vars =>
        [\A b \in BookingId :
           booking'[b].status # booking[b].status =>
             IF booking[b].status = "absent" THEN booking'[b].status = "pending"
             ELSE /\ booking[b].status \in DOMAIN AllowedTransitions
                  /\ booking'[b].status \in AllowedTransitions[booking[b].status]]_vars
  <2> SUFFICES ASSUME TypeOK, [Next]_vars, NEW b \in BookingId,
                      booking'[b].status # booking[b].status
               PROVE  IF booking[b].status = "absent" THEN booking'[b].status = "pending"
                      ELSE /\ booking[b].status \in DOMAIN AllowedTransitions
                           /\ booking'[b].status \in AllowedTransitions[booking[b].status]
    OBVIOUS
  <2>1. Moved(b)
    BY StepOf
  <2>2. Created(b) \/ Accepted(b) \/ Withdrawn(b) \/ PickedUp(b) \/ Delivered(b) \/ Completed(b)
    BY <2>1 DEF Moved, Unmoved, Travelled
  <2> QED
    BY <2>2 DEF Created, Accepted, Withdrawn, PickedUp, Delivered, Completed,
                AllowedTransitions
<1> QED
  BY <1>1, TypeCorrect, PTL DEF Spec, StatusFollowsMachine

\* No booking of a held or rejected shipment is accepted or picked up, however
\* long ago it was requested or its code verified, and whoever placed the hold.
THEOREM UnsafeNeverCarried == Spec => UnsafeNotCarried
<1>1. TypeOK /\ [Next]_vars =>
        [\A b \in BookingId :
           /\ HeldShipment(b[1]) \/ Reviewed(b[1], {"rejected"})
           /\ booking'[b].status # booking[b].status
           => booking'[b].status \notin {"accepted", "in_transit"}]_vars
  <2> SUFFICES ASSUME TypeOK, [Next]_vars, NEW b \in BookingId,
                      HeldShipment(b[1]) \/ Reviewed(b[1], {"rejected"}),
                      booking'[b].status # booking[b].status
               PROVE  booking'[b].status \notin {"accepted", "in_transit"}
    OBVIOUS
  <2>1. Moved(b)
    BY StepOf
  <2>2. ~AssertShipmentSafetyClear(b[1])
    BY DEF AssertShipmentSafetyClear
  <2> QED
    BY <2>1, <2>2 DEF Moved, Unmoved, Created, Accepted, Withdrawn, PickedUp,
                      Delivered, Completed, Travelled
<1> QED
  BY <1>1, TypeCorrect, PTL DEF Spec, UnsafeNotCarried

-----------------------------------------------------------------------------
\* The booking a step creates carries an operation id its sender never used;
\* the other bookings exist as before.
LEMMA OperationStep ==
  ASSUME TypeOK, OneBookingPerOperation, [Next]_vars
  PROVE  OneBookingPerOperation'
<1> SUFFICES ASSUME NEW x \in BookingId, NEW y \in BookingId,
                    booking'[x].status # "absent", booking'[y].status # "absent",
                    x[3] \in Operation, x[3] = y[3], Sender(x) = Sender(y)
             PROVE  x = y
  BY DEF OneBookingPerOperation, Existing, Sender
<1>1. ASSUME NEW b \in BookingId, booking[b].status = "absent", booking'[b].status # "absent"
      PROVE  Created(b)
  BY <1>1, StepOf DEF Moved, Unmoved, Accepted, Withdrawn, PickedUp, Delivered,
                      Completed, Travelled
<1>2. CASE booking[x].status # "absent" /\ booking[y].status # "absent"
  BY <1>2 DEF OneBookingPerOperation, Existing
<1>3. CASE booking[x].status = "absent"
  <2>1. Created(x)
    BY <1>1, <1>3
  <2>2. CASE y # x
    <3>1. y \in Existing
      BY <2>1, <2>2 DEF Created, Existing
    <3> QED
      BY <2>1, <3>1 DEF Created, OperationUnused, Sender
  <2> QED
    BY <2>2
<1>4. CASE booking[y].status = "absent"
  <2>1. Created(y)
    BY <1>1, <1>4
  <2>2. CASE y # x
    <3>1. x \in Existing
      BY <2>1, <2>2 DEF Created, Existing
    <3> QED
      BY <2>1, <3>1 DEF Created, OperationUnused, Sender
  <2> QED
    BY <2>2
<1> QED
  BY <1>2, <1>3, <1>4

\* A sender's operation id never stands for two bookings, on whichever of the
\* sender's shipments it is repeated and however many attempts carry none.
THEOREM OperationBooksOnce == Spec => []OneBookingPerOperation
<1>1. Init => OneBookingPerOperation
  BY DEF Init, InitBookings, OneBookingPerOperation, Existing
<1> QED
  BY <1>1, OperationStep, TypeCorrect, PTL DEF Spec
-----------------------------------------------------------------------------
\* A booking under way after a step was so before it, or the step created it.
LEMMA OpenStep ==
  ASSUME TypeOK, OneOpenBooking, DirectWrites = FALSE, [Next]_vars
  PROVE  OneOpenBooking'
<1> DEFINE Taken == Open \cup {"completed"}
<1> SUFFICES ASSUME NEW x \in BookingId, NEW y \in BookingId,
                    booking'[x].status \in Taken, booking'[y].status \in Taken,
                    x[1] = y[1]
             PROVE  x = y
  BY DEF OneOpenBooking, BookingsIn
<1>1. ASSUME NEW b \in BookingId, booking'[b].status \in Taken
      PROVE  booking[b].status \in Taken \/ Created(b)
  BY <1>1, StepOf DEF Moved, Unmoved, Accepted, Withdrawn, PickedUp, Delivered,
                      Completed, Travelled, Open
<1>2. ASSUME NEW b \in BookingId, NEW c \in BookingId, b # c, b[1] = c[1],
             Created(b), booking'[c].status \in Taken
      PROVE  FALSE
  <2>1. booking[c].status \in Taken
    BY <1>2 DEF Created
  <2> QED
    BY <1>2, <2>1 DEF Created, Rebookable, BookingsIn
<1>3. CASE booking[x].status \in Taken /\ booking[y].status \in Taken
  BY <1>3 DEF OneOpenBooking, BookingsIn
<1> QED
  BY <1>1, <1>2, <1>3

\* With every request made through the server, a shipment never has two
\* bookings under way, and none beside a completed one, for any number of
\* travelers and trips that are requested at once.
THEOREM OneBookingOpen ==
  ASSUME DirectWrites = FALSE
  PROVE  Spec => []OneOpenBooking
<1>1. Init => OneOpenBooking
  BY DEF Init, InitBookings, OneOpenBooking, BookingsIn, Open
<1>2. TypeOK /\ OneOpenBooking /\ [Next]_vars => OneOpenBooking'
  BY OpenStep
<1> QED
  BY <1>1, <1>2, TypeCorrect, PTL DEF Spec

-----------------------------------------------------------------------------
\* What CancelAcceptedBooking asks for beside the status
CancellationOpen(b) ==
  /\ ~Recorded(b, "pickup_confirmed")
  /\ snapshot[b] # None
  /\ Capacity(b[2]) > 0

\* No order of edits, codes, holds, reviews and other bookings leaves an
\* accepted booking that the cancellation refuses (BookingCancellationService),
\* unless its trip has no capacity: each condition of the action holds, which is
\* AcceptedCanBeCancelled without its ENABLED.
THEOREM CancellationStaysOpen ==
  Spec => [](\A b \in BookingsIn({"accepted"}) :
               Capacity(b[2]) > 0 => CancellationOpen(b))
<1>1. TypeOK /\ CustodyFollowsStatus /\ AgreementLocked =>
        \A b \in BookingsIn({"accepted"}) : Capacity(b[2]) > 0 => CancellationOpen(b)
  <2> SUFFICES ASSUME TypeOK, CustodyFollowsStatus, AgreementLocked,
                      NEW b \in BookingsIn({"accepted"})
               PROVE  ~Recorded(b, "pickup_confirmed") /\ snapshot[b] # None
    BY DEF CancellationOpen
  <2>1. b \in BookingId /\ booking[b].status = "accepted" /\ b \in BookingsIn(Committed)
    BY DEF BookingsIn, Committed
  <2>2. ~Recorded(b, "pickup_confirmed")
    BY <2>1 DEF CustodyFollowsStatus
  <2>3. snapshot[b] \in Snapshot
    <3>1. b[1] \in Shipment
      BY <2>1, BookingParts
    <3>2. shipment[b[1]] \in ShipmentDoc(BookingId)
      BY <3>1 DEF TypeOK, ListingTypeOK
    <3>3. [content |-> shipment[b[1]].content, weight |-> shipment[b[1]].weight,
           corridor |-> shipment[b[1]].corridor] \in Snapshot
      BY <3>2 DEF ShipmentDoc, Snapshot
    <3> QED
      BY <2>1, <3>3 DEF AgreementLocked
  <2> QED
    BY <2>2, <2>3, BookingAssumption
<1> QED
  BY <1>1, TypeCorrect, CustodyFollows, AgreementStands, PTL

-----------------------------------------------------------------------------
(***************************************************************************)
(* The operators' part inside the whole system: bookings claim and release *)
(* shipments, owners edit, open and close them, and none of it comes in    *)
(* the way of what SafetyProofs shows of holds, reviews and log.           *)
(***************************************************************************)
\* The documents of shipments as the operators' part knows them
LEMMA TypesCount == TypeOK => ContentCounts
<1> SUFFICES ASSUME TypeOK PROVE ContentCounts
  OBVIOUS
<1>1. shipment \in [Shipment -> ShipmentDoc(BookingId)]
  BY DEF TypeOK, ListingTypeOK
<1>2. ASSUME NEW s \in Shipment
      PROVE  /\ shipment[s].content \in Nat
             /\ DOMAIN shipment[s] = {"status", "weight", "corridor", "content",
                                      "activeBooking", "activeCarrier", "activeTrip"}
  <2>1. shipment[s] \in ShipmentDoc(BookingId)
    BY <1>1
  <2> QED
    BY <2>1, ListingAssumption DEF ShipmentDoc
<1> QED
  BY <1>1, <1>2 DEF ContentCounts

\* An acceptance and a cancellation write the claim and not the content.
LEMMA ClaimKeepsContent ==
  ASSUME TypeOK, NEW b \in BookingId, AcceptBooking(b) \/ CancelAcceptedBooking(b),
         NEW s \in Shipment
  PROVE  shipment'[s].content = shipment[s].content
<1>1. shipment \in [Shipment -> ShipmentDoc(BookingId)] /\ b[1] \in Shipment
  BY BookingParts DEF TypeOK, ListingTypeOK
<1>2. ASSUME NEW claim, NEW carrier, NEW t, Claim(b[1], claim, carrier, t)
      PROVE  shipment'[s].content = shipment[s].content
  <2> DEFINE claimed == [shipment[b[1]] EXCEPT !.activeBooking = claim,
                           !.activeCarrier = carrier, !.activeTrip = t]
  <2>1. shipment' = [shipment EXCEPT ![b[1]] = claimed]
    BY <1>2 DEF Claim
  <2>2. claimed.content = shipment[b[1]].content
    BY <1>1 DEF ShipmentDoc
  <2> HIDE DEF claimed
  <2> QED
    BY <1>1, <2>1, <2>2
<1> QED
  BY <1>2 DEF AcceptBooking, CancelAcceptedBooking, ReleaseClaim

\* No step takes a content version back.
LEMMA ContentNeverDrops ==
  ASSUME TypeOK, [Next]_vars, UNCHANGED safetyVars, NEW s \in Shipment
  PROVE  shipment'[s].content >= shipment[s].content
<1>1. shipment[s] \in ShipmentDoc(BookingId) /\ shipment[s].content \in Nat /\ ContentCounts
  BY TypesCount DEF TypeOK, ListingTypeOK, ContentCounts
<1>2. CASE \E b \in BookingId : AcceptBooking(b) \/ CancelAcceptedBooking(b)
  BY <1>1, <1>2, ClaimKeepsContent
<1>3. CASE OwnerStep
  <2>1. ASSUME NEW x \in Shipment, NEW w \in Weights, NEW c \in Corridor,
               NEW changed \in BOOLEAN, EditShipment(x, w, c, changed)
        PROVE  shipment'[s].content >= shipment[s].content
    BY <1>1, <2>1, EditIsEnvironment DEF EnvironmentStep
  <2>2. ASSUME NEW x \in Shipment, NEW status \in ListingStatus,
               SetShipmentStatus(x, status)
        PROVE  shipment'[s].content = shipment[s].content
    <3>1. shipment'[s] = IF s = x THEN [shipment[x] EXCEPT !.status = status]
                                  ELSE shipment[s]
      BY <2>2 DEF SetShipmentStatus, TypeOK, ListingTypeOK
    <3> QED
      BY <1>1, <3>1 DEF ShipmentDoc
  <2> QED
    BY <1>1, <1>3, <2>1, <2>2 DEF OwnerStep, EditTrip
<1>4. CASE Quiet
  BY <1>1, <1>4 DEF Quiet, listingVars
<1> QED
  BY <1>2, <1>3, <1>4, StepKinds

\* Every step of the system is one of an operator, who leaves the listings
\* alone, or one that leaves holds, reviews and log alone.
LEMMA OperatorsOrNot ==
  ASSUME [Next]_vars
  PROVE  \/ \E a \in Admin : OperatorAction(a) /\ UNCHANGED listingVars
         \/ UNCHANGED safetyVars
<1>1. ASSUME NEW s \in Shipment, NEW t \in Trip, NEW op \in Operation \cup {None},
             RequestBooking(s, t, op) \/ CreateRequestDirectly(s, t)
      PROVE  UNCHANGED safetyVars
  BY <1>1 DEF RequestBooking, CreateRequestDirectly
<1>2. ASSUME NEW b \in BookingId, BookingStep(b)
      PROVE  UNCHANGED safetyVars
  BY <1>2 DEF BookingStep, AcceptBooking, CancelPendingBooking, CancelAcceptedBooking,
              DeclineBooking, Withdraw
<1>3. ASSUME NEW b \in BookingId, CustodyStep(b) \/ HandoffStep(b)
      PROVE  UNCHANGED safetyVars
  BY <1>3 DEF CustodyStep, HandoffStep, ConfirmPickupCustody, ConfirmDeliveryCustody,
              CompleteBookingCustody, RecordTravelEvent
<1> QED
  BY <1>1, <1>2, <1>3 DEF Next, OperatorStep, OwnerStep, vars

\* Everything that senders, travelers and owners do in the booking system is
\* what the operators' part expects of its neighbours: the whole system
\* implements OperatorsSpec.
THEOREM BookingsAreNeighbours == Spec => OperatorsSpec
<1>1. Init => SafetyInit
  BY DEF Init, SafetyInit
<1>2. TypeOK /\ ContentCounts' /\ [Next]_vars => [OperatorsNext]_<<listingVars, safetyVars>>
  BY OperatorsOrNot, ContentNeverDrops DEF OperatorsNext, EnvironmentStep
<1> QED
  BY <1>1, <1>2, TypesCount, TypeCorrect, PTL DEF Spec, OperatorsSpec

\* In the whole system too, with bookings requested, accepted and withdrawn
\* around them, operators who race put at most one hold on a shipment, the
\* audit log tells the state, and a shipment gets one final decision, on a
\* content it had reached, after which its reviews stay as they are.
THEOREM OperatorsPromiseKept ==
  Spec => /\ []OneActiveHold /\ []AuditTellsState /\ []OneFinalDecision
          /\ FinalDecisionStands
BY BookingsAreNeighbours, OperatorsPromise, PTL
=============================================================================
