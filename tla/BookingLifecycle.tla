-------------------------- MODULE BookingLifecycle --------------------------
(***************************************************************************)
(* The booking system as its users drive it: senders and travelers call    *)
(* the booking, handoff and custody operations, owners edit their          *)
(* listings, and operators place holds and submit reviews, in any order.   *)
(* Each step is one committed Firestore transaction.                       *)
(***************************************************************************)
EXTENDS Custody

CONSTANT OwnerEdits    \* which listings the owners edit in this instance

ASSUME LifecycleAssumption == OwnerEdits \subseteq {"shipment", "status", "trip"}

vars == <<listingVars, safetyVars, handoffVars, bookingVars>>

-----------------------------------------------------------------------------
Init ==
  /\ InitListings
  /\ InitSafety
  /\ InitHandoff
  /\ InitBookings

BookingStep(b) ==
  \/ AcceptBooking(b)
  \/ CancelPendingBooking(b)
  \/ CancelAcceptedBooking(b)
  \/ DeclineBooking(b)

CustodyStep(b) ==
  \/ ConfirmPickupCustody(b)
  \/ ConfirmDeliveryCustody(b)
  \/ CompleteBookingCustody(b)
  \/ \E e \in {"airport_departure", "airport_arrival"} : RecordTravelEvent(b, e)

HandoffStep(b) ==
  /\ \E c \in CodeType :
       \/ IssueHandoffCode(b, c, booking[b].status)
       \/ \E match \in BOOLEAN : VerifyHandoff(b, c, booking[b].status, match)
  /\ UNCHANGED <<bookingVars, listingVars, safetyVars>>

OperatorStep(a) ==
  OperatorAction(a) /\ UNCHANGED <<bookingVars, listingVars, handoffVars>>

OwnerStep ==
  /\ \/ /\ "shipment" \in OwnerEdits
        /\ \E s \in Shipment, w \in Weights, c \in Corridor, changed \in BOOLEAN :
             EditShipment(s, w, c, changed)
     \/ /\ "status" \in OwnerEdits
        /\ \E s \in Shipment, status \in ListingStatus : SetShipmentStatus(s, status)
     \/ /\ "trip" \in OwnerEdits
        /\ \E t \in Trip, status \in ListingStatus, c \in Corridor,
              available \in Capacities :
             \E total \in {trip[t].total, None, Capacity(t)},
                reserved \in {trip[t].reserved, None, 0} :
               EditTrip(t, status, c, available, total, reserved)
  /\ UNCHANGED <<bookingVars, safetyVars, handoffVars>>

Next ==
  \/ \E s \in Shipment, t \in Trip :
       \/ \E op \in Operation \cup {None} : RequestBooking(s, t, op)
       \/ CreateRequestDirectly(s, t)
  \/ \E b \in BookingId : BookingStep(b) \/ CustodyStep(b) \/ HandoffStep(b)
  \/ \E a \in Admin : OperatorStep(a)
  \/ OwnerStep

Spec == Init /\ [][Next]_vars

-----------------------------------------------------------------------------
\* Every variable stays within its type; the attempts at a code, in
\* particular, never exceed the allowance.
TypeOK ==
  /\ ListingTypeOK(BookingId)
  /\ SafetyTypeOK
  /\ HandoffTypeOK
  /\ BookingTypeOK

\* Whatever the order of requests, acceptances and cancellations, a shipment
\* is claimed exactly while one of its bookings is committed, by that booking,
\* for that booking's traveler and trip ("Single active carrier per shipment",
\* BookingAcceptanceService).
SingleActiveCarrier ==
  \A s \in Shipment :
    LET committed == {b \in BookingsIn(Committed) : b[1] = s}
        claim == shipment[s].activeBooking
    IN IF claim = None
         THEN /\ committed = {}
              /\ shipment[s].activeCarrier = None /\ shipment[s].activeTrip = None
         ELSE /\ committed = {claim}
              /\ shipment[s].activeCarrier = Traveler(claim)
              /\ shipment[s].activeTrip = claim[2]

\* With weights in whole hundredths of a kilogram the ledger of a trip is, at
\* any time, the sum of what its committed bookings hold: a cancellation
\* restores what the acceptance took, no more and no less, and a trip without
\* a ledger has no commitments.
LedgerExact ==
  \A t \in Trip : LoadOf(CommittedOn(t)) = Default(trip[t].reserved, 0)

\* A step that adds load to a trip leaves the whole load within the trip's
\* capacity, whatever the owner did to the advertised capacity, to the ledger
\* or to the shipment between the request and the acceptance.
AcceptanceFits ==
  [][\A t \in Trip : LoadOf(CommittedOn(t))' > LoadOf(CommittedOn(t))
       => LoadOf(CommittedOn(t))' <= trip'[t].total]_vars

\* The agreement a committed booking was accepted on is the shipment as it
\* still stands and the weight its trip reserved: no edit slips in behind it.
AgreementLocked ==
  \A b \in BookingsIn(Committed) :
    /\ snapshot[b] = [content |-> shipment[b[1]].content,
                      weight |-> shipment[b[1]].weight,
                      corridor |-> shipment[b[1]].corridor]
    /\ booking[b].reserved = snapshot[b].weight

\* The request of a booking tells what became of it: it is open with it,
\* withdrawn with it, and stays accepted while the parcel travels.
RequestFollowsBooking ==
  \A b \in BookingId :
    request[b] = IF booking[b].status \in Committed THEN "accepted"
                                                    ELSE booking[b].status

\* Custody moves only on a verified code, the delivery code is not verified
\* before the pickup, and the participants are shown the outcome and the
\* count of failures that the server holds.
VerifiedHandoffs ==
  \A b \in BookingId :
    /\ \A c \in CodeType :
         /\ agreement[b][c].verified = secrets[b][c].verified
         /\ ~secrets[b][c].verified => agreement[b][c].failed = secrets[b][c].attempts
    /\ Recorded(b, "pickup_confirmed") => secrets[b]["pickup"].verified
    /\ Recorded(b, "delivery_confirmed") => secrets[b]["delivery"].verified
    /\ secrets[b]["delivery"].verified => Recorded(b, "pickup_confirmed")

\* The events recorded are those of the booking's status: a booking withdrawn
\* was never picked up, and an event never follows one that is not recorded.
CustodyFollowsStatus ==
  \A b \in BookingId :
    /\ Recorded(b, "pickup_confirmed")
         <=> booking[b].status \in {"in_transit", "delivered", "completed"}
    /\ Recorded(b, "delivery_confirmed")
         <=> booking[b].status \in {"delivered", "completed"}
    /\ \A e \in EventType : custody[b][e] \in EventType => Recorded(b, custody[b][e])

\* While a shipment is held or rejected no booking of it is accepted or picked
\* up, though the booking was requested and its code verified before.
UnsafeNotCarried ==
  [][\A b \in BookingId :
       /\ HeldShipment(b[1]) \/ Reviewed(b[1], {"rejected"})
       /\ booking'[b].status # booking[b].status
       => booking'[b].status \notin {"accepted", "in_transit"}]_vars

\* The server moves a booking only as the clients' state machine expects
AllowedTransitions ==
  [pending    |-> {"accepted", "declined", "cancelled", "expired"},
   accepted   |-> {"in_transit", "cancelled"},
   in_transit |-> {"delivered"},
   delivered  |-> {"completed"}]

StatusFollowsMachine ==
  [][\A b \in BookingId :
       booking'[b].status # booking[b].status =>
         IF booking[b].status = "absent" THEN booking'[b].status = "pending"
         ELSE /\ booking[b].status \in DOMAIN AllowedTransitions
              /\ booking'[b].status \in AllowedTransitions[booking[b].status]]_vars

\* A sender's operation id stands for one booking, on any of the sender's
\* shipments: a retry never books twice.
OneBookingPerOperation ==
  \A x, y \in Existing :
    x[3] \in Operation /\ x[3] = y[3] /\ Sender(x) = Sender(y) => x = y

\* When every client uses the server, a shipment never has two bookings under
\* way, and none after it was delivered and the booking completed.
OneOpenBooking ==
  \A x, y \in BookingsIn(Open \cup {"completed"}) : x[1] = y[1] => x = y

\* An accepted booking can always be left: nothing its participants, owners or
\* operators did to it makes the cancellation fail, short of a trip whose
\* owner gave it no capacity at all.
AcceptedCanBeCancelled ==
  \A b \in BookingsIn({"accepted"}) :
    Capacity(b[2]) > 0 => ENABLED CancelAcceptedBooking(b)

-----------------------------------------------------------------------------
\* What the comments and the documents say and the code does otherwise

\* "Exact capacity restoration" (BookingCancellationService): a trip whose
\* bookings were all cancelled has nothing reserved.
ExactRestoration ==
  \A t \in Trip : CommittedOn(t) = {} => Default(trip[t].reserved, 0) = 0

\* "Booking lifecycle actions append [...] and Completed automatically"
\* (chain-of-custody.md): the completion of a booking records an event.
CompletionRecorded ==
  [][\A b \in BookingId :
       booking[b].status = "delivered" /\ booking'[b].status = "completed"
         => custody'[b] # custody[b]]_vars

\* The transitions of the diagram in booking-state-machine.md, which "allows
\* only" these: an accepted booking goes in transit and nowhere else.
DocumentedTransitions ==
  [][\A b \in BookingId :
       booking[b].status = "accepted" =>
         booking'[b].status \in {"accepted", "in_transit"}]_vars

-----------------------------------------------------------------------------
(***************************************************************************)
(* The booking system implements ParcelPromise: the parcel is the          *)
(* shipment, its carriage is the booking that claims it, its terms are the *)
(* agreement snapshot of that booking, and a proof is a code the server    *)
(* has verified.  Requests, withdrawals, ledgers, codes issued and wrong   *)
(* codes are steps the promise does not see.                               *)
(***************************************************************************)

Claiming(s) == shipment[s].activeBooking

Offered(s) == [content |-> shipment[s].content, weight |-> shipment[s].weight,
               corridor |-> shipment[s].corridor]

StageOf(s) == IF Claiming(s) = None THEN "open" ELSE booking[Claiming(s)].status

AgreedTerms(s) == IF Claiming(s) = None THEN None ELSE snapshot[Claiming(s)]

Shown(s) == IF Claiming(s) = None THEN {}
            ELSE {c \in CodeType : secrets[Claiming(s)][c].verified}

Barred == {s \in Shipment : HeldShipment(s) \/ Reviewed(s, {"rejected"})}

Promise == INSTANCE ParcelPromise WITH
  Parcel  <- Shipment,
  Carrier <- User,
  Terms   <- Snapshot,
  Nobody  <- None,
  offer   <- [s \in Shipment |-> Offered(s)],
  stage   <- [s \in Shipment |-> StageOf(s)],
  carrier <- [s \in Shipment |-> shipment[s].activeCarrier],
  terms   <- [s \in Shipment |-> AgreedTerms(s)],
  proof   <- [s \in Shipment |-> Shown(s)],
  barred  <- Barred

\* However requests, acceptances, withdrawals, edits, codes, transitions and
\* operator decisions interleave, the sender sees a parcel that one carrier at
\* a time takes on the terms offered, that changes hands only on a verified
\* code, and that is not taken or collected while it is held or rejected.
KeepsPromise == Promise!Spec
=============================================================================
