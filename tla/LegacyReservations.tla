------------------------- MODULE LegacyReservations -------------------------
(***************************************************************************)
(* Bookings from before the server operations, and the reconciler that     *)
(* brings them under the ledger (LegacyReservationReconciler): it reads    *)
(* trips, shipments and bookings, one collection after the other, plans    *)
(* ledgers and claims from what it read, and writes the plan in batches.   *)
(* It may die between two batches and be run again.  A dry run stops at    *)
(* the plan and changes nothing.                                           *)
(***************************************************************************)
EXTENDS BookingLifecycle

CONSTANTS
  BatchSize,   \* writes the reconciler puts in one batch, 400 in the code
  Quiesced     \* do users wait while the reconciler runs?

LegacyAssumption == BatchSize \in Nat \ {0} /\ Quiesced \in BOOLEAN

VARIABLES
  phase,       \* "idle", what has been read so far, or "write"
  readTrips,   \* the trips as the reconciler read them, until it has a plan
  readShipments,
  plan,        \* updates still to be written
  conflicts,   \* trips and shipments the run reports as in conflict
  reported,    \* history: the conflicts of the last complete run
  upgraded     \* history: a run has written its whole plan

reconcilerVars == <<phase, readTrips, readShipments, plan, conflicts, reported, upgraded>>

-----------------------------------------------------------------------------
TripUpdate == [trip: Trip, total: Nat, reserved: Nat, available: Nat]
ShipmentUpdate == [shipment: Shipment, booking: BookingId]

LegacyTypeOK ==
  /\ TypeOK
  /\ phase \in {"idle", "trips", "shipments", "write"}
  /\ readTrips \in [Trip -> TripDoc] \cup {None}
  /\ readShipments \in [Shipment -> ShipmentDoc(BookingId)] \cup {None}
  /\ plan \subseteq TripUpdate \cup ShipmentUpdate
  /\ \A u \in plan \cap TripUpdate : u.reserved <= u.total
  /\ conflicts \subseteq Trip \cup Shipment /\ reported \subseteq Trip \cup Shipment
  /\ upgraded \in BOOLEAN

\* An earlier client wrote a booking and its request, and accepted it, with no
\* ledger, claim, snapshot or custody event.  A trip that has a ledger was
\* never used that way.
LegacyInit ==
  /\ InitListings /\ InitSafety /\ InitHandoff
  /\ booking \in [BookingId -> [status: {"absent", "pending", "accepted"}, reserved: {None}]]
  /\ request = [b \in BookingId |-> booking[b].status]
  /\ snapshot = [b \in BookingId |-> None]
  /\ custody = [b \in BookingId |-> [e \in EventType |-> "absent"]]
  /\ \A b \in BookingsIn({"accepted"}) : trip[b[2]].reserved = None
  /\ phase = "idle" /\ plan = {} /\ conflicts = {} /\ reported = {} /\ upgraded = FALSE
  /\ readTrips = None /\ readShipments = None

-----------------------------------------------------------------------------
ReadTrips ==
  /\ phase = "idle" /\ phase' = "trips"
  /\ readTrips' = trip
  /\ UNCHANGED <<vars, readShipments, plan, conflicts, reported, upgraded>>

ReadShipments ==
  /\ phase = "trips" /\ phase' = "shipments"
  /\ readShipments' = shipment
  /\ UNCHANGED <<vars, readTrips, plan, conflicts, reported, upgraded>>

\* What was reserved on a trip, by the bookings and the shipments read
DerivedReservationMutant(t) ==
  RoundKg(Cardinality(UNION {{b} \X (1..Default(booking[b].reserved, 0)) : b \in CommittedOn(t)}))
DerivedReservation(t) ==
  RoundKg(Cardinality(UNION
    {{b} \X (1..Default(booking[b].reserved, readShipments[b[1]].weight)) : b \in CommittedOn(t)}))

ReadCapacity(t) == Default(readTrips[t].total, readTrips[t].available)

\* A trip without a ledger gets one, unless it has no capacity or is overbooked
NeedsLedger(t) ==
  /\ readTrips[t].reserved = None
  /\ ReadCapacity(t) > 0
  /\ DerivedReservation(t) <= ReadCapacity(t)

CommittedFor(s) == {b \in BookingsIn(Committed) : b[1] = s}

\* A shipment with one committed booking and no claim gets the claim; one with
\* several is left to the operator.
NeedsClaim(s) ==
  Cardinality(CommittedFor(s)) = 1 /\ readShipments[s].activeBooking = None

\* Bookings are read last, and the plan is made of what they and the earlier
\* readings say.
Plan ==
  {[trip |-> t, total |-> ReadCapacity(t), reserved |-> DerivedReservation(t),
    available |-> IF DerivedReservation(t) > ReadCapacity(t) THEN 0
                  ELSE RoundKg(ReadCapacity(t) - DerivedReservation(t))]
     : t \in {x \in Trip : NeedsLedger(x)}}
  \cup {[shipment |-> b[1], booking |-> b]
     : b \in {x \in BookingsIn(Committed) : NeedsClaim(x[1])}}

\* What is reported to the operator instead
Conflicts ==
  {t \in Trip : readTrips[t].reserved = None /\ ~NeedsLedger(t)}
  \cup {s \in Shipment : Cardinality(CommittedFor(s)) > 1}

PlanUpdates ==
  /\ phase = "shipments" /\ phase' = "write"
  /\ plan' = Plan /\ conflicts' = Conflicts
  /\ readTrips' = None /\ readShipments' = None
  /\ UNCHANGED <<vars, reported, upgraded>>

\* The next batch: full but for the last, and trips before shipments
IsBatch(S) ==
  /\ S \subseteq plan
  /\ Cardinality(S) = IF Cardinality(plan) < BatchSize THEN Cardinality(plan) ELSE BatchSize
  /\ S \cap ShipmentUpdate # {} => plan \cap TripUpdate \subseteq S

\* A batch is written without looking at what the documents hold by now
CommitBatch ==
  /\ phase = "write" /\ plan # {}
  /\ \E S \in SUBSET plan :
       /\ IsBatch(S)
       /\ trip' = [t \in Trip |->
            IF \E u \in S \cap TripUpdate : u.trip = t
            THEN LET u == CHOOSE x \in S \cap TripUpdate : x.trip = t
                 IN [trip[t] EXCEPT !.total = u.total, !.reserved = u.reserved,
                                    !.available = u.available]
            ELSE trip[t]]
       /\ shipment' = [s \in Shipment |->
            IF \E u \in S \cap ShipmentUpdate : u.shipment = s
            THEN LET b == (CHOOSE x \in S \cap ShipmentUpdate : x.shipment = s).booking
                 IN [shipment[s] EXCEPT !.activeBooking = b, !.activeCarrier = Traveler(b),
                                        !.activeTrip = b[2]]
            ELSE shipment[s]]
       /\ plan' = plan \ S
  /\ UNCHANGED <<safetyVars, handoffVars, bookingVars, phase, readTrips, readShipments,
                 conflicts, reported, upgraded>>

FinishRun ==
  /\ phase = "write" /\ plan = {}
  /\ phase' = "idle" /\ upgraded' = TRUE /\ reported' = conflicts /\ conflicts' = {}
  /\ UNCHANGED <<vars, readTrips, readShipments, plan>>

\* The script dies, or a batch fails
Crash ==
  /\ phase # "idle" /\ phase' = "idle"
  /\ readTrips' = None /\ readShipments' = None
  /\ plan' = {} /\ conflicts' = {}
  /\ UNCHANGED <<vars, reported, upgraded>>

ReconcilerStep ==
  ReadTrips \/ ReadShipments \/ PlanUpdates \/ CommitBatch \/ FinishRun \/ Crash

UserStep ==
  /\ Quiesced => phase = "idle"
  /\ \/ \E s \in Shipment, t \in Trip : RequestBooking(s, t, None) \/ CreateRequestDirectly(s, t)
     \/ \E b \in BookingId : BookingStep(b)
     \/ OwnerStep
  /\ UNCHANGED reconcilerVars

LegacyNext == ReconcilerStep \/ UserStep

-----------------------------------------------------------------------------
\* When users wait for the reconciler, however often it dies on the way, one
\* complete run leaves every ledger exact and every shipment with a single
\* carrier claimed for it, and they stay so as bookings go on.  What is left
\* over was reported: trips without a ledger and shipments carried twice.
UpgradeComplete ==
  upgraded =>
    /\ \A t \in Trip :
         \/ trip[t].reserved = None /\ (CommittedOn(t) # {} => t \in reported)
         \/ LoadOf(CommittedOn(t)) = trip[t].reserved
    /\ \A s \in Shipment : \A b \in CommittedFor(s) :
         s \in reported \/ (CommittedFor(s) = {b} /\ shipment[s].activeBooking = b)

\* "Rerun idempotency: second run produces zero planned updates"
\* (bookingAcceptance.test.ts): whatever was booked and cancelled since, a run
\* after a complete one touches nothing but what that one reported.
NothingPlanned ==
  upgraded =>
    /\ \A u \in plan' \cap TripUpdate : u.trip \in reported
    /\ \A u \in plan' \cap ShipmentUpdate : u.shipment \in reported

\* LegacyReservationReconciler, however often it dies and is run again: one
\* complete run leaves every ledger exact and every shipment with a single
\* carrier claimed for it, and they stay so; the rest it reports, and no later
\* run touches anything else.
UpgradeKept ==
  [](LegacyTypeOK /\ UpgradeComplete) /\ [][NothingPlanned]_<<vars, reconcilerVars>>
=============================================================================
