------------------------------ MODULE Bookings ------------------------------
(***************************************************************************)
(* Bookings from the request to the acceptance or its withdrawal:          *)
(* BookingCreationService, BookingAcceptanceService and                    *)
(* BookingCancellationService.  Each operation is one Firestore            *)
(* transaction, hence one action.  A call that throws, or that finds its   *)
(* work already done, writes nothing and is not an action.                 *)
(*                                                                         *)
(* A booking is addressed by <<shipment, trip, tag>>, as its document id   *)
(* is built.  Tag 1 is the plain id, tag n the id of the n-th attempt, and *)
(* an operation id is the tag of a request that carried one.               *)
(***************************************************************************)
EXTENDS SafetyState, Handoff

CONSTANTS
  Operation,         \* operation ids the clients attach to their requests
  MaxTries,          \* bound on the attempts for a shipment and a trip
  DirectWrites       \* do clients still create bookings without the server?

\* The terms a booking is accepted on
Snapshot == [content: 1..MaxContent, weight: Weights, corridor: Corridor]

ASSUME BookingAssumption ==
  /\ BookingId = Shipment \X Trip \X (1..MaxTries \cup Operation)
  /\ IsFiniteSet(BookingId)
  /\ None \notin BookingId
  /\ None \notin Operation /\ None \notin Snapshot
  /\ Operation \cap Nat = {}
  /\ MaxTries \in Nat \ {0}
  /\ DirectWrites \in BOOLEAN

VARIABLES
  booking,           \* [BookingId -> BookingDoc]
  request,           \* [BookingId -> status of `bookingRequests/request__<id>`]
  snapshot,          \* [BookingId -> the agreement snapshot, or None]
  custody            \* [BookingId -> [EventType -> Link]], `custodyEvents`

bookingVars == <<booking, request, snapshot, custody>>

-----------------------------------------------------------------------------
Sender(b) == ShipmentOwner[b[1]]
Traveler(b) == TripOwner[b[2]]

Open == {"pending", "accepted", "in_transit", "delivered"}
Committed == {"accepted", "in_transit", "delivered", "completed"}
BookingStatus == Open \cup {"completed", "cancelled", "declined"}
RequestStatus == {"pending", "accepted", "cancelled", "declined"}

BookingDoc == [status: BookingStatus \cup {"absent"},
               reserved: Weights \cup {None}]

EventType == {"shipment_created", "traveler_accepted", "pickup_confirmed",
              "airport_departure", "airport_arrival", "delivery_confirmed"}

\* The predecessor an event names; "first" when it names none
Link == EventType \cup {"absent", "first"}

BookingTypeOK ==
  /\ booking \in [BookingId -> BookingDoc]
  /\ request \in [BookingId -> RequestStatus \cup {"absent"}]
  /\ snapshot \in [BookingId -> Snapshot \cup {None}]
  /\ custody \in [BookingId -> [EventType -> Link]]

InitBookings ==
  /\ booking = [b \in BookingId |-> [status |-> "absent", reserved |-> None]]
  /\ request = [b \in BookingId |-> "absent"]
  /\ snapshot = [b \in BookingId |-> None]
  /\ custody = [b \in BookingId |-> [e \in EventType |-> "absent"]]

-----------------------------------------------------------------------------
BookingsIn(statuses) == {b \in BookingId : booking[b].status \in statuses}
Existing == {b \in BookingId : booking[b].status # "absent"}
CommittedOn(t) == {b \in BookingsIn(Committed) : b[2] = t}

\* The weight a committed booking holds on its trip
HeldWeight(b) == Default(booking[b].reserved, shipment[b[1]].weight)

\* The sum of the weights held, as a count: one token per unit and booking
LoadOf(bookings) ==
  Cardinality(UNION {{b} \X (1..HeldWeight(b)) : b \in bookings})

Recorded(b, e) == custody[b][e] # "absent"
AppendEvent(b, e, link) == [custody EXCEPT ![b][e] = link]

-----------------------------------------------------------------------------
\* What the request checks of the two listings, and the rules with it
MatchingListings(s, t) ==
  /\ shipment[s].status = "active" /\ trip[t].status = "active"
  /\ ShipmentOwner[s] # TripOwner[t]
  /\ shipment[s].corridor = trip[t].corridor
  /\ shipment[s].weight <= trip[t].available

CreatePending(b) ==
  /\ booking' = [booking EXCEPT ![b] = [status |-> "pending", reserved |-> None]]
  /\ request' = [request EXCEPT ![b] = "pending"]

Attempts(s, t) == Cardinality({b \in Existing : b[1] = s /\ b[2] = t})

\* No booking of the shipment is under way, and none was completed
RebookableMutant(s) == shipment[s].activeBooking = None
Rebookable(s) == ~\E x \in BookingsIn(Open \cup {"completed"}) : x[1] = s

\* The sender has not used the operation id before
OperationUnusedMutant(s, op) == ~\E x \in Existing : x[1] = s /\ x[3] = op
OperationUnused(s, op) ==
  ~\E x \in Existing : Sender(x) = ShipmentOwner[s] /\ x[3] = op

\* `op` is None when the request carries no operation id
RequestBooking(s, t, op) ==
  LET b == <<s, t, IF op = None THEN Attempts(s, t) + 1 ELSE op>> IN
  /\ b \in BookingId
  /\ MatchingListings(s, t)
  /\ AssertShipmentSafetyClear(s)
  /\ Rebookable(s)
  /\ OperationUnused(s, op)
  /\ booking[b].status = "absent"
  /\ CreatePending(b)
  /\ custody' = AppendEvent(b, "shipment_created", "first")
  /\ UNCHANGED <<snapshot, listingVars, safetyVars, handoffVars>>

\* A client that predates the server operations writes the booking and its
\* request itself; the rules check the listings and nothing else.
CreateRequestDirectly(s, t) ==
  /\ DirectWrites
  /\ MatchingListings(s, t)
  /\ booking[<<s, t, 1>>].status = "absent"
  /\ CreatePending(<<s, t, 1>>)
  /\ UNCHANGED <<snapshot, custody, listingVars, safetyVars, handoffVars>>

-----------------------------------------------------------------------------
Capacity(t) == Default(trip[t].total, trip[t].available)

\* The ledger of a trip that has none is derived from its other commitments
CurrentReserved(b) ==
  Default(trip[b[2]].reserved, RoundKg(LoadOf(CommittedOn(b[2]) \ {b})))

\* No other booking, and no other traveler, has claimed the shipment
ClaimFreeMutant(b) == shipment[b[1]].activeBooking # b
ClaimFree(b) ==
  /\ shipment[b[1]].activeBooking \in {None, b}
  /\ shipment[b[1]].activeCarrier \in {None, Traveler(b)}

FitsTripMutant(b) == shipment[b[1]].weight <= trip[b[2]].available
FitsTrip(b) ==
  /\ Capacity(b[2]) > 0
  /\ trip[b[2]].reserved = None => CurrentReserved(b) <= Capacity(b[2])
  /\ shipment[b[1]].weight <= RoundKg(Capacity(b[2]) - CurrentReserved(b))

\* The ledger of a trip after a change of what is reserved on it
SetLedger(t, reserved, available) ==
  trip' = [trip EXCEPT ![t].total = Capacity(t), ![t].reserved = reserved,
                       ![t].available = available]

ReserveCapacity(b) ==
  LET reserved == RoundKg(CurrentReserved(b) + shipment[b[1]].weight)
      available == RoundKg(Capacity(b[2]) - reserved)
  IN SetLedger(b[2], reserved, IF available < 0 THEN 0 ELSE available)

Claim(s, b, carrier, t) ==
  shipment' = [shipment EXCEPT ![s].activeBooking = b,
                 ![s].activeCarrier = carrier, ![s].activeTrip = t]

WriteSnapshotMutant(b) == UNCHANGED snapshot
WriteSnapshot(b) ==
  snapshot' = [snapshot EXCEPT ![b] =
    IF @ = None THEN [content |-> shipment[b[1]].content,
                      weight |-> shipment[b[1]].weight,
                      corridor |-> shipment[b[1]].corridor]
                ELSE @]

AcceptBooking(b) ==
  /\ booking[b].status = "pending" /\ request[b] = "pending"
  /\ shipment[b[1]].status = "active"
  /\ AssertShipmentSafetyClear(b[1])
  /\ ClaimFree(b)
  /\ trip[b[2]].status = "active"
  /\ FitsTrip(b)
  /\ ReserveCapacity(b)
  /\ Claim(b[1], b, Traveler(b), b[2])
  /\ booking' = [booking EXCEPT ![b] = [status |-> "accepted",
                                       reserved |-> shipment[b[1]].weight]]
  /\ request' = [request EXCEPT ![b] = "accepted"]
  /\ custody' = AppendEvent(b, "traveler_accepted", "first")
  /\ CreateInitialHandoffRecords(b)
  /\ WriteSnapshot(b)
  /\ UNCHANGED safetyVars

-----------------------------------------------------------------------------
\* The booking and its request are withdrawn together.  The rules let clients
\* write the withdrawal of a pending booking themselves, to the same effect.
WithdrawMutant(b, status) ==
  /\ booking' = [booking EXCEPT ![b].status = status]
  /\ UNCHANGED <<request, snapshot, custody, safetyVars, handoffVars>>
Withdraw(b, status) ==
  /\ booking' = [booking EXCEPT ![b].status = status]
  /\ request' = [request EXCEPT ![b] = status]
  /\ UNCHANGED <<snapshot, custody, safetyVars, handoffVars>>

CancelPendingBooking(b) ==
  /\ booking[b].status = "pending"
  /\ ~Recorded(b, "pickup_confirmed")
  /\ Withdraw(b, "cancelled")
  /\ UNCHANGED listingVars

RestoreCapacityMutant(b) ==
  SetLedger(b[2], Default(trip[b[2]].reserved, 0), Capacity(b[2]))
RestoreCapacity(b) ==
  LET difference == RoundKg(Default(trip[b[2]].reserved, 0) - HeldWeight(b))
      reserved == IF difference < 0 THEN 0 ELSE difference
      available == RoundKg(Capacity(b[2]) - reserved)
  IN SetLedger(b[2], reserved,
               IF available > Capacity(b[2]) THEN Capacity(b[2]) ELSE available)

ReleaseClaim(b) ==
  IF shipment[b[1]].activeBooking = b THEN Claim(b[1], None, None, None)
                                      ELSE UNCHANGED shipment

\* By the sender while pending, by either participant once accepted
CancelAcceptedBooking(b) ==
  /\ booking[b].status = "accepted"
  /\ ~Recorded(b, "pickup_confirmed")
  /\ snapshot[b] # None
  /\ Capacity(b[2]) > 0
  /\ RestoreCapacity(b)
  /\ ReleaseClaim(b)
  /\ Withdraw(b, "cancelled")

DeclineBooking(b) ==
  /\ booking[b].status = "pending"
  /\ Withdraw(b, "declined")
  /\ UNCHANGED listingVars
=============================================================================
