------------------------------ MODULE Listings ------------------------------
(***************************************************************************)
(* The `shipments` and `trips` collections: what their owners publish and  *)
(* may still edit, and the fields of them that only the booking            *)
(* transactions write (the claim of a shipment, the capacity ledger of a   *)
(* trip).  Owner edits are the writes firestore.rules accepts.             *)
(*                                                                         *)
(* Kilograms are counted in units of five grams, so that a weight that is  *)
(* a whole number of hundredths of a kilogram is an even number and one    *)
(* that falls half-way between two hundredths is odd.  This is the         *)
(* coarsest grain at which the rounding of the ledger can be seen.         *)
(***************************************************************************)
EXTENDS Integers, FiniteSets

CONSTANTS
  User,              \* accounts
  Shipment, Trip,    \* published listings
  Corridor,          \* origin/destination pairs
  ShipmentOwner,     \* [Shipment -> User]
  TripOwner,         \* [Trip -> User]
  Weights,           \* weights a shipment may declare, in units
  Capacities,        \* capacities a trip may advertise, in units
  MaxContent,        \* bound on packageContentVersion
  None               \* null, or a field the document does not have

MaxUnits == 20000    \* 100 kg, the largest weight and capacity accepted

ASSUME ListingAssumption ==
  /\ ShipmentOwner \in [Shipment -> User]
  /\ TripOwner \in [Trip -> User]
  /\ Weights \subseteq 1..MaxUnits
  /\ Capacities \subseteq 0..MaxUnits
  /\ MaxContent \in Nat \ {0}
  /\ None \notin User /\ None \notin Trip
  /\ None \notin Int

VARIABLES
  shipment,          \* [Shipment -> ShipmentDoc(...)]
  trip               \* [Trip -> TripDoc]

listingVars == <<shipment, trip>>

-----------------------------------------------------------------------------
\* "closed" stands for every listing status that is not active
ListingStatus == {"active", "closed"}

ShipmentDoc(Booking) ==
  [status: ListingStatus, weight: Weights, corridor: Corridor,
   content: 1..MaxContent,
   activeBooking: Booking \cup {None},
   activeCarrier: User \cup {None},
   activeTrip: Trip \cup {None}]

TripDoc ==
  [status: ListingStatus, corridor: Corridor, available: Int,
   total: Int \cup {None}, reserved: Int \cup {None}]

ListingTypeOK(Booking) ==
  /\ shipment \in [Shipment -> ShipmentDoc(Booking)]
  /\ trip \in [Trip -> TripDoc]

\* `value ?? fallback`
Default(value, fallback) == IF value = None THEN fallback ELSE value

\* Math.round(kg * 100) / 100.  Exact on whole hundredths.  Half-way values
\* go up, as they do in the code when kg * 100 is exact (0.005, 0.015, 0.025);
\* a half-way value whose product is inexact may go down there (1.005).
RoundKg(units) == 2 * ((units + 1) \div 2)

\* The premise of what is claimed of the ledger
WholeHundredths == \A units \in Weights \cup Capacities : units % 2 = 0

\* Listings as their owners create them: no claim, and nothing reserved.  An
\* owner may declare a total that differs from what is advertised.
InitListings ==
  /\ shipment \in [Shipment ->
       [status: {"active"}, weight: Weights, corridor: Corridor, content: {1},
        activeBooking: {None}, activeCarrier: {None}, activeTrip: {None}]]
  /\ trip \in [Trip ->
       [status: {"active"}, corridor: Corridor, available: Capacities,
        total: (Capacities \ {0}) \cup {None}, reserved: {None, 0}]]

-----------------------------------------------------------------------------
\* While a booking claims a shipment the agreed fields are frozen
FrozenMutant(s) == FALSE
Frozen(s) == shipment[s].activeBooking # None

\* The owner edits the shipment.  A change of content, weight included, raises
\* the content version; a change of corridor does not.
EditShipment(s, w, c, contentChanged) ==
  /\ ~Frozen(s)
  /\ w # shipment[s].weight => contentChanged
  /\ contentChanged => shipment[s].content < MaxContent
  /\ shipment' = [shipment EXCEPT
        ![s].weight = w, ![s].corridor = c,
        ![s].content = IF contentChanged THEN @ + 1 ELSE @]
  /\ UNCHANGED trip

\* The listing status is not one of the frozen fields
SetShipmentStatus(s, status) ==
  /\ shipment' = [shipment EXCEPT ![s].status = status]
  /\ UNCHANGED trip

\* The owner of a trip may rewrite everything but the value of the ledger:
\* the advertised `available` is free, `total` may be kept, dropped, or made
\* explicit where it was implied by `available`, and a missing `reserved`
\* counts as zero.
EditTrip(t, status, c, available, total, reserved) ==
  LET capacity == Default(trip[t].total, trip[t].available) IN
  /\ Default(total, capacity) = capacity
  /\ total # 0
  /\ Default(reserved, 0) = Default(trip[t].reserved, 0)
  /\ trip' = [trip EXCEPT ![t] =
        [status |-> status, corridor |-> c, available |-> available,
         total |-> total, reserved |-> reserved]]
  /\ UNCHANGED shipment
=============================================================================
