----------------------- MODULE BookingLifecycleProofs -----------------------
(***************************************************************************)
(* The safety of BookingLifecycle, for any sets of users, listings,        *)
(* operators and keys and any bounds: types, the claim of a shipment, the  *)
(* agreement a booking was accepted on, and the capacity ledger of a trip. *)
(*                                                                         *)
(* Only the acceptance and the cancellation of an accepted booking change  *)
(* the commitments. Every other step either leaves them and the listings   *)
(* alone (Quiet) or is an owner's edit, so each invariant is shown over    *)
(* these four kinds of step.                                               *)
(*                                                                         *)
(* What a trip has reserved is the sum of what its committed bookings hold *)
(* when weights and capacities are whole hundredths of a kilogram. The sum *)
(* is the number of tokens <<booking, unit>>, so that adding a booking     *)
(* adds a disjoint set of tokens.                                          *)
(***************************************************************************)
EXTENDS BookingLifecycle, TLAPS, FiniteSetTheorems

(***************************************************************************)
(* Type correctness.                                                       *)
(***************************************************************************)
\* The units held by a set of bookings, one token per unit and booking
Tokens(bookings) == UNION {{b} \X (1..HeldWeight(b)) : b \in bookings}

\* A booking identifies its shipment and its trip.
LEMMA BookingParts ==
  ASSUME NEW b \in BookingId
  PROVE  b[1] \in Shipment /\ b[2] \in Trip
BY BookingAssumption

\* The bound on weights and capacities is a number.
LEMMA MaxUnitsIsNat == MaxUnits \in Nat
BY DEF MaxUnits

\* Weights and capacities are numbers, and versions start at one.
LEMMA ConstantTypes ==
  /\ Weights \subseteq Int /\ Capacities \subseteq Int
  /\ 1 \in 1..MaxContent /\ 0 \in 0..MaxContent
  /\ 0 \in 0..MaxAttempts
BY MaxUnitsIsNat, ListingAssumption, HandoffAssumption

\* What a booking holds is a weight, whether it was recorded or is the
\* shipment's.
LEMMA HeldWeightType ==
  ASSUME TypeOK, NEW b \in BookingId
  PROVE  HeldWeight(b) \in Weights /\ HeldWeight(b) \in 1..MaxUnits
BY BookingParts, ListingAssumption
   DEF TypeOK, ListingTypeOK, ShipmentDoc, BookingTypeOK, BookingDoc,
       HeldWeight, Default

\* The load of any set of bookings is a natural number.
LEMMA LoadType ==
  ASSUME TypeOK, NEW B \in SUBSET BookingId
  PROVE  /\ IsFiniteSet(Tokens(B))
         /\ LoadOf(B) = Cardinality(Tokens(B))
         /\ LoadOf(B) \in Nat
<1>1. IsFiniteSet(1..MaxUnits)
  BY MaxUnitsIsNat, FS_Interval
<1>2. IsFiniteSet(BookingId \X (1..MaxUnits))
  BY <1>1, FS_Product, BookingAssumption
<1>3. Tokens(B) \subseteq BookingId \X (1..MaxUnits)
  <2>1. SUFFICES ASSUME NEW b \in B, NEW n \in 1..HeldWeight(b)
                 PROVE  <<b, n>> \in BookingId \X (1..MaxUnits)
    BY DEF Tokens
  <2>2. HeldWeight(b) \in 1..MaxUnits
    BY HeldWeightType
  <2>3. n \in 1..MaxUnits
    BY <2>2, MaxUnitsIsNat
  <2> QED
    BY <2>3
<1>4. IsFiniteSet(Tokens(B))
  BY <1>2, <1>3, FS_Subset
<1>5. LoadOf(B) = Cardinality(Tokens(B))
  BY DEF LoadOf, Tokens
<1> QED
  BY <1>4, <1>5, FS_CardinalityType

\* Rounding an integer number of units gives one.
LEMMA RoundKgType ==
  ASSUME NEW n \in Int
  PROVE  RoundKg(n) \in Int
BY DEF RoundKg

\* The capacity and the reservation the ledger works with are integers.
LEMMA LedgerTypes ==
  ASSUME TypeOK, NEW b \in BookingId
  PROVE  /\ Capacity(b[2]) \in Int
         /\ CurrentReserved(b) \in Int
         /\ Default(trip[b[2]].reserved, 0) \in Int
         /\ HeldWeight(b) \in Int
         /\ shipment[b[1]].weight \in Weights
         /\ shipment[b[1]].weight \in Int
<1>1. trip[b[2]] \in TripDoc /\ shipment[b[1]] \in ShipmentDoc(BookingId)
  BY BookingParts DEF TypeOK, ListingTypeOK
<1>2. LoadOf(CommittedOn(b[2]) \ {b}) \in Int
  BY LoadType DEF CommittedOn, BookingsIn
<1>3. CurrentReserved(b) \in Int
  BY <1>1, <1>2, RoundKgType DEF TripDoc, CurrentReserved, Default
<1>4. HeldWeight(b) \in Int
  BY HeldWeightType
<1>5. shipment[b[1]].weight \in Weights
  BY <1>1 DEF ShipmentDoc
<1>6. Capacity(b[2]) \in Int /\ Default(trip[b[2]].reserved, 0) \in Int
  BY <1>1 DEF TripDoc, Capacity, Default
<1> QED
  BY <1>3, <1>4, <1>5, <1>6, ConstantTypes

-----------------------------------------------------------------------------
\* Listings as their owners create them are well typed.
LEMMA ListingTypeInit == ASSUME InitListings PROVE ListingTypeOK(BookingId)
<1>1. shipment \in [Shipment -> ShipmentDoc(BookingId)]
  BY ConstantTypes DEF InitListings, ShipmentDoc, ListingStatus
<1>2. ASSUME NEW total \in (Capacities \ {0}) \cup {None}
      PROVE  total \in Int \cup {None}
  BY ConstantTypes
<1>3. ASSUME NEW d \in [status: {"active"}, corridor: Corridor,
                       available: Capacities,
                       total: (Capacities \ {0}) \cup {None},
                       reserved: {None, 0}]
      PROVE  d \in TripDoc
  <2>1. /\ d = [status |-> d.status, corridor |-> d.corridor,
                available |-> d.available, total |-> d.total,
                reserved |-> d.reserved]
        /\ d.status = "active" /\ d.corridor \in Corridor
        /\ d.available \in Capacities
        /\ d.total \in (Capacities \ {0}) \cup {None}
        /\ d.reserved \in {None, 0}
    OBVIOUS
  <2>2. d.status \in ListingStatus
    BY <2>1 DEF ListingStatus
  <2>3. d.available \in Int
    BY <2>1, ConstantTypes
  <2>4. d.total \in Int \cup {None}
    BY <1>2, <2>1
  <2>5. d.reserved \in Int \cup {None}
    BY <2>1
  <2> QED
    BY <2>1, <2>2, <2>3, <2>4, <2>5 DEF TripDoc
<1>4. trip \in [Trip -> TripDoc]
  BY <1>3 DEF InitListings
<1> QED
  BY <1>1, <1>4 DEF ListingTypeOK

\* The initial states are well typed.
LEMMA TypeInit == Init => TypeOK
<1> SUFFICES ASSUME Init PROVE TypeOK
  OBVIOUS
<1>1. ListingTypeOK(BookingId)
  BY ListingTypeInit DEF Init
<1>2. SafetyTypeOK
  BY ConstantTypes DEF Init, InitSafety, SafetyTypeOK, NoReview, Review
<1>3. HandoffTypeOK
  BY ConstantTypes
     DEF Init, InitHandoff, HandoffTypeOK, NewSecret, Secret, NewVerification,
         Verification
<1>4. BookingTypeOK
  BY DEF Init, InitBookings, BookingTypeOK, BookingDoc, BookingStatus, Link
<1> QED
  BY <1>1, <1>2, <1>3, <1>4 DEF TypeOK

-----------------------------------------------------------------------------
\* What a step leaves alone keeps its type.
LEMMA TypeUnchanged ==
  ASSUME TypeOK
  PROVE  /\ UNCHANGED listingVars => ListingTypeOK(BookingId)'
         /\ UNCHANGED safetyVars => SafetyTypeOK'
         /\ UNCHANGED handoffVars => HandoffTypeOK'
         /\ UNCHANGED bookingVars => BookingTypeOK'
<1>1. UNCHANGED listingVars => ListingTypeOK(BookingId)'
  BY DEF TypeOK, ListingTypeOK, listingVars
<1>2. UNCHANGED safetyVars => SafetyTypeOK'
  BY DEF TypeOK, SafetyTypeOK, safetyVars
<1>3. UNCHANGED handoffVars => HandoffTypeOK'
  BY DEF TypeOK, HandoffTypeOK, handoffVars
<1>4. UNCHANGED bookingVars => BookingTypeOK'
  BY DEF TypeOK, BookingTypeOK, bookingVars
<1> QED
  BY <1>1, <1>2, <1>3, <1>4

\* The operators' actions keep the types of holds, reviews and audit log.
LEMMA OperatorActionType ==
  ASSUME SafetyTypeOK, NEW a \in Admin, OperatorAction(a)
  PROVE  SafetyTypeOK'
<1>1. ASSUME NEW s \in Shipment, NEW k \in HoldKey, PlaceHold(a, s, k)
      PROVE  SafetyTypeOK'
  <2>1. hold' \in [HoldId -> {"absent", "active", "released"}]
    BY <1>1 DEF SafetyTypeOK, PlaceHold
  <2>2. audit' \subseteq AuditRecord
    BY <1>1 DEF SafetyTypeOK, PlaceHold, RecordAuditLog, AuditRecord
  <2> QED
    BY <1>1, <2>1, <2>2 DEF SafetyTypeOK, PlaceHold
<1>2. ASSUME NEW h \in HoldId, NEW k \in HoldKey, ReleaseHold(a, h, k)
      PROVE  SafetyTypeOK'
  BY <1>2 DEF SafetyTypeOK, ReleaseHold, RecordAuditLog, AuditRecord
<1>3. ASSUME NEW s \in Shipment, NEW k \in ReviewKey, NEW decision \in Decision,
             NEW content \in 1..MaxContent,
             SubmitSafetyReview(a, s, k, decision, content)
      PROVE  SafetyTypeOK'
  <2>1. content \in 0..MaxContent
    BY ListingAssumption
  <2> QED
    <3>1. [decision |-> decision, content |-> content] \in Review
      BY <2>1 DEF Review
    <3>2. review' \in [ReviewId -> Review]
      BY <1>3, <3>1 DEF SafetyTypeOK, SubmitSafetyReview
    <3>3. audit' \subseteq AuditRecord
      BY <1>3 DEF SafetyTypeOK, SubmitSafetyReview, RecordAuditLog, AuditRecord
    <3> QED
      BY <1>3, <3>2, <3>3 DEF SafetyTypeOK, SubmitSafetyReview
<1> QED
  BY <1>1, <1>2, <1>3 DEF OperatorAction

\* Creating the two codes of a booking keeps their types.
LEMMA CreateHandoffType ==
  ASSUME HandoffTypeOK, NEW b \in BookingId, CreateInitialHandoffRecords(b)
  PROVE  HandoffTypeOK'
<1>1. NewSecret \in Secret /\ NewVerification \in Verification
  BY ConstantTypes DEF NewSecret, Secret, NewVerification, Verification
<1>2. CASE b \in handoffs
  <2>1. UNCHANGED handoffVars
    BY <1>2 DEF CreateInitialHandoffRecords
  <2> QED
    BY <2>1 DEF HandoffTypeOK, handoffVars
<1>3. CASE b \notin handoffs
  <2>1. /\ [c \in CodeType |-> NewSecret] \in [CodeType -> Secret]
        /\ [c \in CodeType |-> NewVerification] \in [CodeType -> Verification]
    BY <1>1
  <2>2. /\ handoffs' = handoffs \cup {b}
        /\ secrets' = [secrets EXCEPT ![b] = [c \in CodeType |-> NewSecret]]
        /\ agreement' = [agreement EXCEPT ![b] = [c \in CodeType |-> NewVerification]]
    BY <1>3 DEF CreateInitialHandoffRecords
  <2> QED
    BY <2>1, <2>2 DEF HandoffTypeOK
<1> QED
  BY <1>2, <1>3

\* So does issuing a code.
LEMMA IssueHandoffCodeType ==
  ASSUME HandoffTypeOK, NEW b \in BookingId, NEW c \in CodeType, NEW status,
         IssueHandoffCode(b, c, status)
  PROVE  HandoffTypeOK'
<1> DEFINE issued == [secrets[b][c] EXCEPT !.issued = TRUE, !.usable = TRUE,
                                           !.attempts = 0]
<1>1. issued \in Secret
  <2>1. secrets[b][c] \in Secret
    BY DEF HandoffTypeOK
  <2> QED
    BY <2>1, ConstantTypes DEF Secret
<1>2. secrets' = [secrets EXCEPT ![b][c] = issued]
  BY DEF IssueHandoffCode
<1>3. secrets' \in [BookingId -> [CodeType -> Secret]]
  BY <1>1, <1>2 DEF HandoffTypeOK
<1>4. agreement' \in [BookingId -> [CodeType -> Verification]]
  <2>1. agreement[b][c] \in Verification
    BY DEF HandoffTypeOK
  <2>2. [agreement[b][c] EXCEPT !.failed = 0] \in Verification
    BY <2>1, ConstantTypes DEF Verification
  <2>3. agreement' = [agreement EXCEPT ![b][c] = [agreement[b][c] EXCEPT !.failed = 0]]
    BY DEF IssueHandoffCode
  <2> QED
    BY <2>2, <2>3 DEF HandoffTypeOK
<1> QED
  BY <1>3, <1>4 DEF HandoffTypeOK, IssueHandoffCode

\* Verifying one does too, the attempts staying within the allowance.
LEMMA VerifyHandoffType ==
  ASSUME HandoffTypeOK, NEW b \in BookingId, NEW c \in CodeType, NEW status,
         NEW match \in BOOLEAN, VerifyHandoff(b, c, status, match)
  PROVE  HandoffTypeOK'
<1>1. secrets[b][c].attempts + 1 \in 0..MaxAttempts
  BY HandoffAssumption
     DEF HandoffTypeOK, VerifyHandoff, AttemptsLeft, Secret
<1>2. secrets[b][c] \in Secret
  BY DEF HandoffTypeOK
<1>3. CASE match
  <2> DEFINE verified == [secrets[b][c] EXCEPT !.verified = TRUE, !.usable = FALSE]
  <2>1. verified \in Secret
    BY <1>2 DEF Secret
  <2>2. /\ secrets' = [secrets EXCEPT ![b][c].verified = TRUE, ![b][c].usable = FALSE]
        /\ agreement' = [agreement EXCEPT ![b][c] = [verified |-> TRUE, failed |-> 0]]
        /\ handoffs' = handoffs
    BY <1>3, Zenon DEF VerifyHandoff
  <2>3. secrets' \in [BookingId -> [CodeType -> Secret]]
    <3>1. secrets' = [secrets EXCEPT ![b][c] = verified]
      BY <2>2
    <3> QED
      BY <2>1, <3>1 DEF HandoffTypeOK
  <2>4. [verified |-> TRUE, failed |-> 0] \in Verification
    BY ConstantTypes DEF Verification
  <2>5. agreement' \in [BookingId -> [CodeType -> Verification]]
    BY <2>2, <2>4 DEF HandoffTypeOK
  <2> QED
    BY <2>2, <2>3, <2>5 DEF HandoffTypeOK
<1>4. CASE ~match
  <2> DEFINE attempts == secrets[b][c].attempts + 1
             counted == [secrets[b][c] EXCEPT !.attempts = attempts]
  <2>1. counted \in Secret
    BY <1>1, <1>2 DEF Secret
  <2>2. /\ secrets' = [secrets EXCEPT ![b][c].attempts = attempts]
        /\ agreement' = [agreement EXCEPT ![b][c] =
                           [verified |-> FALSE, failed |-> attempts]]
        /\ handoffs' = handoffs
    BY <1>4, Zenon DEF VerifyHandoff
  <2>3. secrets' \in [BookingId -> [CodeType -> Secret]]
    <3>1. secrets' = [secrets EXCEPT ![b][c] = counted]
      BY <2>2
    <3> QED
      BY <2>1, <3>1 DEF HandoffTypeOK
  <2>4. [verified |-> FALSE, failed |-> attempts] \in Verification
    BY <1>1 DEF Verification
  <2>5. agreement' \in [BookingId -> [CodeType -> Verification]]
    BY <2>2, <2>4 DEF HandoffTypeOK
  <2> QED
    BY <2>2, <2>3, <2>5 DEF HandoffTypeOK
<1> QED
  BY <1>3, <1>4

\* The owners' edits keep the types of the listings.
LEMMA OwnerStepType ==
  ASSUME TypeOK, OwnerStep
  PROVE  ListingTypeOK(BookingId)'
<1>1. ASSUME NEW s \in Shipment, NEW w \in Weights, NEW c \in Corridor,
             NEW changed \in BOOLEAN, EditShipment(s, w, c, changed)
      PROVE  ListingTypeOK(BookingId)'
  <2>1. shipment[s].content \in 1..MaxContent
    BY DEF TypeOK, ListingTypeOK, ShipmentDoc
  <2>2. changed => shipment[s].content + 1 \in 1..MaxContent
    BY <1>1, <2>1, ListingAssumption DEF EditShipment
  <2> DEFINE version == IF changed THEN shipment[s].content + 1 ELSE shipment[s].content
             edited == [shipment[s] EXCEPT !.weight = w, !.corridor = c,
                                           !.content = version]
  <2>3. edited \in ShipmentDoc(BookingId)
    <3>1. shipment[s] \in ShipmentDoc(BookingId)
      BY DEF TypeOK, ListingTypeOK
    <3>2. version \in 1..MaxContent
      BY <2>1, <2>2
    <3> QED
      BY <3>1, <3>2 DEF ShipmentDoc
  <2>4. shipment' = [shipment EXCEPT ![s] = edited]
    BY <1>1 DEF EditShipment
  <2> QED
    BY <1>1, <2>3, <2>4 DEF TypeOK, ListingTypeOK, EditShipment
<1>2. ASSUME NEW s \in Shipment, NEW status \in ListingStatus,
             SetShipmentStatus(s, status)
      PROVE  ListingTypeOK(BookingId)'
  BY <1>2 DEF TypeOK, ListingTypeOK, ShipmentDoc, SetShipmentStatus
<1>3. ASSUME NEW t \in Trip, NEW status \in ListingStatus, NEW c \in Corridor,
             NEW available \in Capacities,
             NEW total \in {trip[t].total, None, Capacity(t)},
             NEW reserved \in {trip[t].reserved, None, 0},
             EditTrip(t, status, c, available, total, reserved)
      PROVE  ListingTypeOK(BookingId)'
  <2>1. /\ available \in Int
        /\ total \in Int \cup {None}
        /\ reserved \in Int \cup {None}
    BY ConstantTypes DEF TypeOK, ListingTypeOK, TripDoc, Capacity, Default
  <2> QED
    BY <1>3, <2>1 DEF TypeOK, ListingTypeOK, TripDoc, EditTrip
<1> QED
  BY <1>1, <1>2, <1>3 DEF OwnerStep

\* A ledger set to integers keeps the types of the trips.
LEMMA SetLedgerType ==
  ASSUME TypeOK, NEW b \in BookingId, NEW reserved \in Int, NEW available \in Int,
         SetLedger(b[2], reserved, available)
  PROVE  trip' \in [Trip -> TripDoc]
<1>1. b[2] \in Trip /\ Capacity(b[2]) \in Int
  BY BookingParts, LedgerTypes
<1> QED
  BY <1>1 DEF TypeOK, ListingTypeOK, TripDoc, SetLedger

\* So does the claim of a shipment by a booking, or its release.
LEMMA ClaimType ==
  ASSUME TypeOK, NEW s \in Shipment, NEW b \in BookingId \cup {None},
         NEW carrier \in User \cup {None}, NEW t \in Trip \cup {None},
         Claim(s, b, carrier, t)
  PROVE  shipment' \in [Shipment -> ShipmentDoc(BookingId)]
<1> DEFINE claimed == [shipment[s] EXCEPT !.activeBooking = b,
                         !.activeCarrier = carrier, !.activeTrip = t]
<1>1. shipment[s] \in ShipmentDoc(BookingId)
  BY DEF TypeOK, ListingTypeOK
<1>2. claimed \in ShipmentDoc(BookingId)
  BY <1>1 DEF ShipmentDoc
<1>3. shipment' = [shipment EXCEPT ![s] = claimed]
  BY DEF Claim
<1> QED
  BY <1>2, <1>3 DEF TypeOK, ListingTypeOK

-----------------------------------------------------------------------------
\* A change of status keeps the types of the bookings.
LEMMA StatusType ==
  ASSUME TypeOK, NEW b \in BookingId, NEW status \in BookingStatus,
         booking' = [booking EXCEPT ![b].status = status]
  PROVE  booking' \in [BookingId -> BookingDoc]
<1>1. booking[b] \in BookingDoc
  BY DEF TypeOK, BookingTypeOK
<1>2. [booking[b] EXCEPT !.status = status] \in BookingDoc
  BY <1>1 DEF BookingDoc
<1>3. booking' = [booking EXCEPT ![b] = [booking[b] EXCEPT !.status = status]]
  OBVIOUS
<1> QED
  BY <1>2, <1>3 DEF TypeOK, BookingTypeOK

\* A new custody event keeps the types of the events.
LEMMA AppendEventType ==
  ASSUME TypeOK, NEW b \in BookingId, NEW e \in EventType, NEW link \in Link,
         custody' = AppendEvent(b, e, link)
  PROVE  custody' \in [BookingId -> [EventType -> Link]]
BY DEF TypeOK, BookingTypeOK, AppendEvent

\* A booking created pending, with its request, is well typed.
LEMMA CreatePendingType ==
  ASSUME TypeOK, NEW b \in BookingId, CreatePending(b)
  PROVE  /\ booking' \in [BookingId -> BookingDoc]
         /\ request' \in [BookingId -> RequestStatus \cup {"absent"}]
<1>1. [status |-> "pending", reserved |-> None] \in BookingDoc
  BY DEF BookingDoc, BookingStatus, Open
<1>2. booking' \in [BookingId -> BookingDoc]
  BY <1>1 DEF TypeOK, BookingTypeOK, CreatePending
<1>3. request' \in [BookingId -> RequestStatus \cup {"absent"}]
  BY DEF TypeOK, BookingTypeOK, CreatePending, RequestStatus
<1> QED
  BY <1>2, <1>3

\* A request through the server keeps the types.
LEMMA RequestBookingType ==
  ASSUME TypeOK, NEW s \in Shipment, NEW t \in Trip,
         NEW op \in Operation \cup {None}, RequestBooking(s, t, op)
  PROVE  TypeOK'
<1> DEFINE b == <<s, t, IF op = None THEN Attempts(s, t) + 1 ELSE op>>
<1>1. /\ b \in BookingId
      /\ CreatePending(b)
      /\ custody' = AppendEvent(b, "shipment_created", "first")
      /\ UNCHANGED <<snapshot, listingVars, safetyVars, handoffVars>>
  BY DEF RequestBooking
<1>2. custody' \in [BookingId -> [EventType -> Link]]
  BY <1>1, AppendEventType DEF EventType, Link
<1>3. BookingTypeOK'
  BY <1>1, <1>2, CreatePendingType DEF TypeOK, BookingTypeOK
<1> QED
  BY <1>1, <1>3, TypeUnchanged DEF TypeOK

\* So does a request written by the client itself.
LEMMA CreateRequestDirectlyType ==
  ASSUME TypeOK, NEW s \in Shipment, NEW t \in Trip, CreateRequestDirectly(s, t)
  PROVE  TypeOK'
<1>1. <<s, t, 1>> \in BookingId
  BY BookingAssumption
<1>2. BookingTypeOK'
  BY <1>1, CreatePendingType DEF TypeOK, BookingTypeOK, CreateRequestDirectly
<1> QED
  BY <1>2, TypeUnchanged DEF TypeOK, CreateRequestDirectly

\* The acceptance writes eight documents, each within its type.
LEMMA AcceptBookingType ==
  ASSUME TypeOK, NEW b \in BookingId, AcceptBooking(b)
  PROVE  TypeOK'
<1>1. ListingTypeOK(BookingId)'
  <2>1. trip' \in [Trip -> TripDoc]
    <3> DEFINE reserved == RoundKg(CurrentReserved(b) + shipment[b[1]].weight)
               available == RoundKg(Capacity(b[2]) - reserved)
               advertised == IF available < 0 THEN 0 ELSE available
    <3>1. reserved \in Int /\ available \in Int /\ advertised \in Int
      BY LedgerTypes, RoundKgType
    <3>2. SetLedger(b[2], reserved, advertised)
      BY DEF AcceptBooking, ReserveCapacity
    <3> QED
      BY <3>1, <3>2, SetLedgerType
  <2>2. shipment' \in [Shipment -> ShipmentDoc(BookingId)]
    BY BookingParts, ClaimType, ListingAssumption DEF AcceptBooking, Traveler
  <2> QED
    BY <2>1, <2>2 DEF ListingTypeOK
<1>2. SafetyTypeOK'
  BY TypeUnchanged DEF AcceptBooking
<1>3. HandoffTypeOK'
  BY CreateHandoffType DEF AcceptBooking, TypeOK
<1>4. BookingTypeOK'
  <2>1. booking' \in [BookingId -> BookingDoc]
    <3>1. [status |-> "accepted", reserved |-> shipment[b[1]].weight] \in BookingDoc
      BY LedgerTypes DEF BookingDoc, BookingStatus, Open
    <3> QED
      BY <3>1 DEF TypeOK, BookingTypeOK, AcceptBooking
  <2>2. request' \in [BookingId -> RequestStatus \cup {"absent"}]
    BY DEF TypeOK, BookingTypeOK, AcceptBooking, RequestStatus
  <2>3. snapshot' \in [BookingId -> Snapshot \cup {None}]
    <3>1. shipment[b[1]] \in ShipmentDoc(BookingId)
      BY BookingParts DEF TypeOK, ListingTypeOK
    <3>2. [content |-> shipment[b[1]].content, weight |-> shipment[b[1]].weight,
           corridor |-> shipment[b[1]].corridor] \in Snapshot
      BY <3>1 DEF ShipmentDoc, Snapshot
    <3> QED
      BY <3>2 DEF TypeOK, BookingTypeOK, AcceptBooking, WriteSnapshot
  <2>4. custody' \in [BookingId -> [EventType -> Link]]
    BY AppendEventType DEF AcceptBooking, EventType, Link
  <2> QED
    BY <2>1, <2>2, <2>3, <2>4 DEF BookingTypeOK
<1> QED
  BY <1>1, <1>2, <1>3, <1>4 DEF TypeOK

\* A withdrawal touches the booking and its request alone.
LEMMA WithdrawType ==
  ASSUME TypeOK, NEW b \in BookingId, NEW status \in {"cancelled", "declined"},
         Withdraw(b, status)
  PROVE  SafetyTypeOK' /\ HandoffTypeOK' /\ BookingTypeOK'
<1>1. booking' \in [BookingId -> BookingDoc]
  BY StatusType DEF Withdraw, BookingStatus
<1>2. request' \in [BookingId -> RequestStatus \cup {"absent"}]
  BY DEF TypeOK, BookingTypeOK, Withdraw, RequestStatus
<1>3. BookingTypeOK'
  BY <1>1, <1>2 DEF TypeOK, BookingTypeOK, Withdraw
<1> QED
  BY <1>3, TypeUnchanged DEF Withdraw

\* Cancelling an accepted booking keeps the types of the ledger and the claim.
LEMMA CancelAcceptedBookingType ==
  ASSUME TypeOK, NEW b \in BookingId, CancelAcceptedBooking(b)
  PROVE  TypeOK'
<1>1. trip' \in [Trip -> TripDoc]
  <2> DEFINE difference == RoundKg(Default(trip[b[2]].reserved, 0) - HeldWeight(b))
             reserved == IF difference < 0 THEN 0 ELSE difference
             available == RoundKg(Capacity(b[2]) - reserved)
             advertised == IF available > Capacity(b[2]) THEN Capacity(b[2])
                                                         ELSE available
  <2>1. reserved \in Int /\ advertised \in Int
    BY LedgerTypes, RoundKgType
  <2>2. SetLedger(b[2], reserved, advertised)
    BY DEF CancelAcceptedBooking, RestoreCapacity
  <2> QED
    BY <2>1, <2>2, SetLedgerType
<1>2. shipment' \in [Shipment -> ShipmentDoc(BookingId)]
  <2>1. CASE shipment[b[1]].activeBooking = b
    BY <2>1, BookingParts, ClaimType DEF CancelAcceptedBooking, ReleaseClaim
  <2>2. CASE shipment[b[1]].activeBooking # b
    BY <2>2 DEF CancelAcceptedBooking, ReleaseClaim, TypeOK, ListingTypeOK
  <2> QED
    BY <2>1, <2>2
<1>3. SafetyTypeOK' /\ HandoffTypeOK' /\ BookingTypeOK'
  BY WithdrawType DEF CancelAcceptedBooking
<1> QED
  BY <1>1, <1>2, <1>3 DEF TypeOK, ListingTypeOK

\* Every step of the booking services keeps the types.
LEMMA BookingStepType ==
  ASSUME TypeOK, NEW b \in BookingId, BookingStep(b)
  PROVE  TypeOK'
<1>1. CASE AcceptBooking(b)
  BY <1>1, AcceptBookingType
<1>2. CASE CancelPendingBooking(b)
  BY <1>2, WithdrawType, TypeUnchanged DEF CancelPendingBooking, TypeOK
<1>3. CASE CancelAcceptedBooking(b)
  BY <1>3, CancelAcceptedBookingType
<1>4. CASE DeclineBooking(b)
  BY <1>4, WithdrawType, TypeUnchanged DEF DeclineBooking, TypeOK
<1> QED
  BY <1>1, <1>2, <1>3, <1>4 DEF BookingStep

\* Every custody transition keeps the types.
LEMMA CustodyStepType ==
  ASSUME TypeOK, NEW b \in BookingId, CustodyStep(b)
  PROVE  TypeOK'
<1>1. CASE ConfirmPickupCustody(b)
  <2>1. booking' \in [BookingId -> BookingDoc]
    BY <1>1, StatusType DEF ConfirmPickupCustody, Advance, BookingStatus, Open
  <2>2. custody' \in [BookingId -> [EventType -> Link]]
    BY <1>1, AppendEventType DEF ConfirmPickupCustody, EventType, Link
  <2>3. BookingTypeOK'
    BY <1>1, <2>1, <2>2 DEF ConfirmPickupCustody, TypeOK, BookingTypeOK
  <2> QED
    BY <1>1, <2>3, TypeUnchanged DEF ConfirmPickupCustody, TypeOK
<1>2. CASE ConfirmDeliveryCustody(b)
  <2>1. booking' \in [BookingId -> BookingDoc]
    BY <1>2, StatusType DEF ConfirmDeliveryCustody, Advance, BookingStatus, Open
  <2>2. DeliveryPredecessor(b) \in Link
    BY DEF DeliveryPredecessor, EventType, Link
  <2>3. custody' \in [BookingId -> [EventType -> Link]]
    BY <1>2, <2>2, AppendEventType DEF ConfirmDeliveryCustody, EventType
  <2>4. BookingTypeOK'
    BY <1>2, <2>1, <2>3 DEF ConfirmDeliveryCustody, TypeOK, BookingTypeOK
  <2> QED
    BY <1>2, <2>4, TypeUnchanged DEF ConfirmDeliveryCustody, TypeOK
<1>3. CASE CompleteBookingCustody(b)
  <2>1. booking' \in [BookingId -> BookingDoc]
    BY <1>3, StatusType DEF CompleteBookingCustody, Advance, BookingStatus
  <2>2. BookingTypeOK'
    BY <1>3, <2>1 DEF CompleteBookingCustody, TypeOK, BookingTypeOK
  <2> QED
    BY <1>3, <2>2, TypeUnchanged DEF CompleteBookingCustody, TypeOK
<1>4. ASSUME NEW e \in {"airport_departure", "airport_arrival"},
             RecordTravelEvent(b, e)
      PROVE  TypeOK'
  <2>1. TravelPredecessor(e) \in Link /\ e \in EventType
    BY DEF TravelPredecessor, EventType, Link
  <2>2. custody' \in [BookingId -> [EventType -> Link]]
    BY <1>4, <2>1, AppendEventType DEF RecordTravelEvent
  <2>3. BookingTypeOK'
    BY <1>4, <2>2 DEF RecordTravelEvent, TypeOK, BookingTypeOK
  <2> QED
    BY <1>4, <2>3, TypeUnchanged DEF RecordTravelEvent, TypeOK
<1> QED
  BY <1>1, <1>2, <1>3, <1>4 DEF CustodyStep

\* Every step on a handoff code keeps the types.
LEMMA HandoffStepType ==
  ASSUME TypeOK, NEW b \in BookingId, HandoffStep(b)
  PROVE  TypeOK'
<1>1. PICK c \in CodeType :
         \/ IssueHandoffCode(b, c, booking[b].status)
         \/ \E match \in BOOLEAN : VerifyHandoff(b, c, booking[b].status, match)
  BY DEF HandoffStep
<1>2. HandoffTypeOK
  BY DEF TypeOK
<1>3. ASSUME IssueHandoffCode(b, c, booking[b].status)
      PROVE  HandoffTypeOK'
  BY <1>2, <1>3, IssueHandoffCodeType
<1>4. ASSUME NEW match \in BOOLEAN, VerifyHandoff(b, c, booking[b].status, match)
      PROVE  HandoffTypeOK'
  BY <1>2, <1>4, VerifyHandoffType, Zenon
<1>5. HandoffTypeOK'
  BY <1>1, <1>3, <1>4, Zenon
<1> QED
  BY <1>5, TypeUnchanged DEF HandoffStep, TypeOK

\* Every step of the system keeps the types.
LEMMA TypeStep == TypeOK /\ [Next]_vars => TypeOK'
<1> SUFFICES ASSUME TypeOK, [Next]_vars PROVE TypeOK'
  OBVIOUS
<1>1. ASSUME NEW s \in Shipment, NEW t \in Trip, NEW op \in Operation \cup {None},
             RequestBooking(s, t, op)
      PROVE  TypeOK'
  BY <1>1, RequestBookingType
<1>2. ASSUME NEW s \in Shipment, NEW t \in Trip, CreateRequestDirectly(s, t)
      PROVE  TypeOK'
  BY <1>2, CreateRequestDirectlyType
<1>3. ASSUME NEW b \in BookingId, BookingStep(b)
      PROVE  TypeOK'
  BY <1>3, BookingStepType
<1>4. ASSUME NEW b \in BookingId, CustodyStep(b)
      PROVE  TypeOK'
  BY <1>4, CustodyStepType
<1>5. ASSUME NEW b \in BookingId, HandoffStep(b)
      PROVE  TypeOK'
  BY <1>5, HandoffStepType
<1>6. ASSUME NEW a \in Admin, OperatorStep(a)
      PROVE  TypeOK'
  BY <1>6, OperatorActionType, TypeUnchanged DEF OperatorStep, TypeOK
<1>7. CASE OwnerStep
  BY <1>7, OwnerStepType, TypeUnchanged DEF OwnerStep, TypeOK
<1>8. CASE UNCHANGED vars
  BY <1>8, TypeUnchanged DEF vars, TypeOK
<1> QED
  BY <1>1, <1>2, <1>3, <1>4, <1>5, <1>6, <1>7, <1>8 DEF Next

\* Whatever the order of the operations, every document stays within its type,
\* and the wrong attempts at a code within MAX_VERIFICATION_ATTEMPTS.
THEOREM TypeCorrect == Spec => []TypeOK
BY TypeInit, TypeStep, PTL DEF Spec

(***************************************************************************)
(* Claims and agreements.                                                  *)
(***************************************************************************)
NotYetAccepted == {"absent", "pending"}

\* A step that neither commits a booking nor releases one
Quiet ==
  /\ UNCHANGED <<listingVars, snapshot>>
  /\ \A b \in BookingId :
       /\ booking'[b].status \in Committed <=> booking[b].status \in Committed
       /\ booking'[b].status \in Committed => booking'[b].reserved = booking[b].reserved
       /\ booking'[b].status \in NotYetAccepted => booking[b].status \in NotYetAccepted

\* Creating a pending booking commits nothing.
LEMMA CreatePendingIsQuiet ==
  ASSUME TypeOK, NEW b \in BookingId, booking[b].status = "absent", CreatePending(b),
         UNCHANGED <<listingVars, snapshot>>
  PROVE  Quiet
<1>1. booking' = [booking EXCEPT ![b] = [status |-> "pending", reserved |-> None]]
  BY DEF CreatePending
<1>2. booking \in [BookingId -> BookingDoc]
  BY DEF TypeOK, BookingTypeOK
<1> QED
  BY <1>1, <1>2 DEF Quiet, NotYetAccepted, Committed

\* Nor does a change of status between two committed statuses, or from
\* pending to a withdrawn one.
LEMMA StatusChangeIsQuiet ==
  ASSUME TypeOK, NEW b \in BookingId, NEW status,
         booking' = [booking EXCEPT ![b].status = status],
         UNCHANGED <<listingVars, snapshot>>,
         \/ booking[b].status \in Committed /\ status \in Committed
         \/ booking[b].status = "pending" /\ status \in {"cancelled", "declined"}
  PROVE  Quiet
<1>1. booking \in [BookingId -> BookingDoc]
  BY DEF TypeOK, BookingTypeOK
<1>2. \A x \in BookingId :
         booking'[x] = IF x = b THEN [booking[b] EXCEPT !.status = status] ELSE booking[x]
  BY <1>1
<1>3. booking[b] \in BookingDoc
  BY <1>1
<1>4. booking'[b].status = status /\ booking'[b].reserved = booking[b].reserved
  BY <1>2, <1>3 DEF BookingDoc
<1> QED
  BY <1>2, <1>4 DEF Quiet, NotYetAccepted, Committed

\* A step that leaves the bookings alone is quiet unless it edits a listing.
LEMMA UnchangedIsQuiet ==
  ASSUME UNCHANGED <<bookingVars, listingVars>>
  PROVE  Quiet
BY DEF Quiet, bookingVars

\* Every step is an acceptance, the cancellation of an accepted booking, an
\* owner's edit, or quiet.
LEMMA StepKinds ==
  ASSUME TypeOK, [Next]_vars
  PROVE  \/ \E b \in BookingId : AcceptBooking(b)
         \/ \E b \in BookingId : CancelAcceptedBooking(b)
         \/ OwnerStep
         \/ Quiet
<1>1. ASSUME NEW s \in Shipment, NEW t \in Trip, NEW op \in Operation \cup {None},
             RequestBooking(s, t, op)
      PROVE  Quiet
  <2> DEFINE b == <<s, t, IF op = None THEN Attempts(s, t) + 1 ELSE op>>
  <2>1. /\ b \in BookingId /\ booking[b].status = "absent"
        /\ CreatePending(b)
        /\ UNCHANGED <<listingVars, snapshot>>
    BY <1>1 DEF RequestBooking
  <2> QED
    BY <2>1, CreatePendingIsQuiet
<1>2. ASSUME NEW s \in Shipment, NEW t \in Trip, CreateRequestDirectly(s, t)
      PROVE  Quiet
  <2>1. <<s, t, 1>> \in BookingId
    BY BookingAssumption
  <2> QED
    BY <1>2, <2>1, CreatePendingIsQuiet DEF CreateRequestDirectly
<1>3. ASSUME NEW b \in BookingId,
             CancelPendingBooking(b) \/ DeclineBooking(b)
      PROVE  Quiet
  BY <1>3, StatusChangeIsQuiet DEF CancelPendingBooking, DeclineBooking, Withdraw
<1>4. ASSUME NEW b \in BookingId, CustodyStep(b)
      PROVE  Quiet
  <2>1. CASE ConfirmPickupCustody(b)
    BY <2>1, StatusChangeIsQuiet DEF ConfirmPickupCustody, Advance, Committed
  <2>2. CASE ConfirmDeliveryCustody(b)
    BY <2>2, StatusChangeIsQuiet DEF ConfirmDeliveryCustody, Advance, Committed
  <2>3. CASE CompleteBookingCustody(b)
    BY <2>3, StatusChangeIsQuiet DEF CompleteBookingCustody, Advance, Committed
  <2>4. ASSUME NEW e \in {"airport_departure", "airport_arrival"},
               RecordTravelEvent(b, e)
        PROVE  Quiet
    BY <2>4 DEF RecordTravelEvent, Quiet
  <2> QED
    BY <1>4, <2>1, <2>2, <2>3, <2>4 DEF CustodyStep
<1>5. ASSUME NEW b \in BookingId, HandoffStep(b)
      PROVE  Quiet
  BY <1>5, UnchangedIsQuiet DEF HandoffStep
<1>6. ASSUME NEW a \in Admin, OperatorStep(a)
      PROVE  Quiet
  BY <1>6, UnchangedIsQuiet DEF OperatorStep
<1>7. CASE UNCHANGED vars
  BY <1>7, UnchangedIsQuiet DEF vars
<1> QED
  BY <1>1, <1>2, <1>3, <1>4, <1>5, <1>6, <1>7 DEF Next, BookingStep

-----------------------------------------------------------------------------
\* No agreement is recorded before the acceptance: were one there, the
\* acceptance would keep it instead of the shipment as it stands.
NotYetAgreed ==
  \A b \in BookingId : booking[b].status \in NotYetAccepted => snapshot[b] = None

CommitmentInv == TypeOK /\ SingleActiveCarrier /\ AgreementLocked /\ NotYetAgreed

\* The invariant of one shipment, which names it
Claimed(s) ==
  LET committed == {b \in BookingsIn(Committed) : b[1] = s}
      claim == shipment[s].activeBooking
  IN IF claim = None
       THEN /\ committed = {}
            /\ shipment[s].activeCarrier = None /\ shipment[s].activeTrip = None
       ELSE /\ committed = {claim}
            /\ shipment[s].activeCarrier = Traveler(claim)
            /\ shipment[s].activeTrip = claim[2]

\* No shipment is missed by the invariant of one.
LEMMA ClaimedDef == SingleActiveCarrier <=> \A s \in Shipment : Claimed(s)
BY DEF SingleActiveCarrier, Claimed

\* Where neither the commitments nor the claim change, the claim still holds.
LEMMA ClaimKept ==
  ASSUME NEW s \in Shipment, Claimed(s),
         shipment'[s].activeBooking = shipment[s].activeBooking,
         shipment'[s].activeCarrier = shipment[s].activeCarrier,
         shipment'[s].activeTrip = shipment[s].activeTrip,
         \A b \in BookingId : b[1] = s =>
           (booking'[b].status \in Committed <=> booking[b].status \in Committed)
  PROVE  Claimed(s)'
<1>1. {b \in BookingsIn(Committed) : b[1] = s}'
        = {b \in BookingsIn(Committed) : b[1] = s}
  BY DEF BookingsIn
<1> QED
  BY <1>1 DEF Claimed, Traveler

\* Who commits a shipment that has a claim is the claim itself.
LEMMA CommittedIsClaim ==
  ASSUME SingleActiveCarrier, NEW b \in BookingId, booking[b].status \in Committed,
         TypeOK
  PROVE  /\ shipment[b[1]].activeBooking = b
         /\ \A x \in BookingId :
              x[1] = b[1] /\ booking[x].status \in Committed => x = b
<1>1. Claimed(b[1])
  BY BookingParts, ClaimedDef
<1>2. b \in {x \in BookingsIn(Committed) : x[1] = b[1]}
  BY DEF BookingsIn
<1> QED
  BY <1>1, <1>2 DEF Claimed, BookingsIn

\* What the acceptance does to bookings, claim and agreement
LEMMA AcceptEffect ==
  ASSUME TypeOK, NEW b \in BookingId, AcceptBooking(b)
  PROVE  /\ booking[b].status = "pending"
         /\ booking'[b] = [status |-> "accepted", reserved |-> shipment[b[1]].weight]
         /\ \A x \in BookingId \ {b} : booking'[x] = booking[x]
         /\ shipment'[b[1]].activeBooking = b
         /\ shipment'[b[1]].activeCarrier = Traveler(b)
         /\ shipment'[b[1]].activeTrip = b[2]
         /\ shipment'[b[1]].weight = shipment[b[1]].weight
         /\ shipment'[b[1]].content = shipment[b[1]].content
         /\ shipment'[b[1]].corridor = shipment[b[1]].corridor
         /\ \A s \in Shipment \ {b[1]} : shipment'[s] = shipment[s]
         /\ \A x \in BookingId \ {b} : snapshot'[x] = snapshot[x]
         /\ snapshot[b] = None =>
              snapshot'[b] = [content |-> shipment[b[1]].content,
                              weight |-> shipment[b[1]].weight,
                              corridor |-> shipment[b[1]].corridor]
<1>1. /\ booking \in [BookingId -> BookingDoc]
      /\ snapshot \in [BookingId -> Snapshot \cup {None}]
      /\ shipment \in [Shipment -> ShipmentDoc(BookingId)]
  BY DEF TypeOK, BookingTypeOK, ListingTypeOK
<1>2. b[1] \in Shipment /\ shipment[b[1]] \in ShipmentDoc(BookingId)
  BY <1>1, BookingParts
<1>3. /\ booking[b].status = "pending"
      /\ booking' = [booking EXCEPT ![b] = [status |-> "accepted",
                                            reserved |-> shipment[b[1]].weight]]
      /\ Claim(b[1], b, Traveler(b), b[2])
      /\ WriteSnapshot(b)
  BY DEF AcceptBooking
<1> DEFINE claimed == [shipment[b[1]] EXCEPT !.activeBooking = b,
                         !.activeCarrier = Traveler(b), !.activeTrip = b[2]]
<1>4. shipment' = [shipment EXCEPT ![b[1]] = claimed]
  BY <1>3 DEF Claim
<1>5. /\ shipment'[b[1]] = claimed
      /\ \A s \in Shipment \ {b[1]} : shipment'[s] = shipment[s]
  BY <1>1, <1>2, <1>4
<1>6. /\ claimed.activeBooking = b /\ claimed.activeCarrier = Traveler(b)
      /\ claimed.activeTrip = b[2] /\ claimed.weight = shipment[b[1]].weight
      /\ claimed.content = shipment[b[1]].content
      /\ claimed.corridor = shipment[b[1]].corridor
  BY <1>2 DEF ShipmentDoc
<1>7. /\ \A x \in BookingId \ {b} : snapshot'[x] = snapshot[x]
      /\ snapshot[b] = None =>
           snapshot'[b] = [content |-> shipment[b[1]].content,
                           weight |-> shipment[b[1]].weight,
                           corridor |-> shipment[b[1]].corridor]
  BY <1>1, <1>3 DEF WriteSnapshot
<1>8. /\ booking'[b] = [status |-> "accepted", reserved |-> shipment[b[1]].weight]
      /\ \A x \in BookingId \ {b} : booking'[x] = booking[x]
  BY <1>1, <1>3
<1> QED
  BY <1>3, <1>5, <1>6, <1>7, <1>8

\* What the cancellation of an accepted booking does to them
LEMMA CancelEffect ==
  ASSUME TypeOK, NEW b \in BookingId, CancelAcceptedBooking(b)
  PROVE  /\ booking[b].status = "accepted"
         /\ booking'[b].status = "cancelled"
         /\ \A x \in BookingId \ {b} : booking'[x] = booking[x]
         /\ shipment[b[1]].activeBooking = b =>
              /\ shipment'[b[1]].activeBooking = None
              /\ shipment'[b[1]].activeCarrier = None
              /\ shipment'[b[1]].activeTrip = None
         /\ \A s \in Shipment \ {b[1]} : shipment'[s] = shipment[s]
         /\ UNCHANGED snapshot
<1>1. /\ booking \in [BookingId -> BookingDoc]
      /\ shipment \in [Shipment -> ShipmentDoc(BookingId)]
  BY DEF TypeOK, BookingTypeOK, ListingTypeOK
<1>2. b[1] \in Shipment /\ shipment[b[1]] \in ShipmentDoc(BookingId)
  BY <1>1, BookingParts
<1>3. /\ booking[b].status = "accepted"
      /\ booking' = [booking EXCEPT ![b].status = "cancelled"]
      /\ ReleaseClaim(b)
      /\ UNCHANGED snapshot
  BY DEF CancelAcceptedBooking, Withdraw
<1>4. /\ booking'[b].status = "cancelled"
      /\ \A x \in BookingId \ {b} : booking'[x] = booking[x]
  BY <1>1, <1>3 DEF BookingDoc
<1> DEFINE released == [shipment[b[1]] EXCEPT !.activeBooking = None,
                          !.activeCarrier = None, !.activeTrip = None]
<1>5. CASE shipment[b[1]].activeBooking = b
  <2>1. shipment' = [shipment EXCEPT ![b[1]] = released]
    BY <1>3, <1>5 DEF ReleaseClaim, Claim
  <2>2. /\ released.activeBooking = None /\ released.activeCarrier = None
        /\ released.activeTrip = None
    BY <1>2 DEF ShipmentDoc
  <2>3. /\ shipment'[b[1]] = released
        /\ \A s \in Shipment \ {b[1]} : shipment'[s] = shipment[s]
    BY <1>1, <1>2, <2>1
  <2> QED
    BY <1>3, <1>4, <2>2, <2>3
<1>6. CASE shipment[b[1]].activeBooking # b
  BY <1>3, <1>4, <1>6 DEF ReleaseClaim
<1> QED
  BY <1>5, <1>6

\* What an owner's edit does: bookings, agreements and claims stay, and a
\* shipment under a claim keeps what was agreed.
LEMMA OwnerEffect ==
  ASSUME TypeOK, OwnerStep
  PROVE  /\ UNCHANGED bookingVars
         /\ \A s \in Shipment :
              /\ shipment'[s].activeBooking = shipment[s].activeBooking
              /\ shipment'[s].activeCarrier = shipment[s].activeCarrier
              /\ shipment'[s].activeTrip = shipment[s].activeTrip
              /\ shipment[s].activeBooking # None =>
                   /\ shipment'[s].weight = shipment[s].weight
                   /\ shipment'[s].content = shipment[s].content
                   /\ shipment'[s].corridor = shipment[s].corridor
<1> DEFINE Kept(s) ==
      /\ shipment'[s].activeBooking = shipment[s].activeBooking
      /\ shipment'[s].activeCarrier = shipment[s].activeCarrier
      /\ shipment'[s].activeTrip = shipment[s].activeTrip
      /\ shipment[s].activeBooking # None =>
           /\ shipment'[s].weight = shipment[s].weight
           /\ shipment'[s].content = shipment[s].content
           /\ shipment'[s].corridor = shipment[s].corridor
<1>1. shipment \in [Shipment -> ShipmentDoc(BookingId)]
  BY DEF TypeOK, ListingTypeOK
<1>2. ASSUME NEW x \in Shipment, NEW w \in Weights, NEW c \in Corridor,
             NEW changed \in BOOLEAN, EditShipment(x, w, c, changed),
             NEW s \in Shipment
      PROVE  Kept(s)
  <2> DEFINE version == IF changed THEN shipment[x].content + 1 ELSE shipment[x].content
             edited == [shipment[x] EXCEPT !.weight = w, !.corridor = c,
                                           !.content = version]
  <2>1. shipment' = [shipment EXCEPT ![x] = edited]
    BY <1>2 DEF EditShipment
  <2>2. shipment[x].activeBooking = None
    BY <1>2 DEF EditShipment, Frozen
  <2>3. /\ edited.activeBooking = shipment[x].activeBooking
        /\ edited.activeCarrier = shipment[x].activeCarrier
        /\ edited.activeTrip = shipment[x].activeTrip
    <3>1. shipment[x] \in ShipmentDoc(BookingId)
      BY <1>1
    <3> QED
      BY <3>1 DEF ShipmentDoc
  <2>4. CASE s = x
    BY <1>1, <2>1, <2>2, <2>3, <2>4
  <2>5. CASE s # x
    BY <1>1, <2>1, <2>5
  <2> QED
    BY <2>4, <2>5
<1>3. ASSUME NEW x \in Shipment, NEW status \in ListingStatus,
             SetShipmentStatus(x, status), NEW s \in Shipment
      PROVE  Kept(s)
  <2>1. shipment'[s] = IF s = x THEN [shipment[x] EXCEPT !.status = status]
                                ELSE shipment[s]
    BY <1>1, <1>3 DEF SetShipmentStatus
  <2>2. shipment[s] \in ShipmentDoc(BookingId)
    BY <1>1
  <2> QED
    BY <2>1, <2>2 DEF ShipmentDoc
<1>4. ASSUME UNCHANGED shipment, NEW s \in Shipment
      PROVE  Kept(s)
  BY <1>4
<1>5. \A s \in Shipment : Kept(s)
  BY <1>2, <1>3, <1>4 DEF OwnerStep, EditTrip
<1>6. UNCHANGED bookingVars
  BY DEF OwnerStep, bookingVars
<1> QED
  BY <1>5, <1>6

-----------------------------------------------------------------------------
\* At the start nothing is claimed, committed or agreed.
LEMMA CommitmentInit == Init => CommitmentInv
<1> SUFFICES ASSUME Init PROVE CommitmentInv
  OBVIOUS
<1>1. TypeOK
  BY TypeInit
<1>2. \A b \in BookingId : booking[b].status = "absent" /\ snapshot[b] = None
  BY DEF Init, InitBookings
<1>3. BookingsIn(Committed) = {}
  BY <1>2 DEF BookingsIn, Committed
<1>4. \A s \in Shipment :
        /\ shipment[s].activeBooking = None
        /\ shipment[s].activeCarrier = None
        /\ shipment[s].activeTrip = None
  BY DEF Init, InitListings
<1>5. SingleActiveCarrier
  BY <1>3, <1>4 DEF SingleActiveCarrier
<1>6. AgreementLocked /\ NotYetAgreed
  BY <1>2, <1>3 DEF AgreementLocked, NotYetAgreed
<1> QED
  BY <1>1, <1>5, <1>6 DEF CommitmentInv

\* Every step keeps the claims in step with the commitments: the acceptance
\* finds its shipment without a claim, hence without a commitment, and the
\* cancellation finds its own.
LEMMA ClaimStep ==
  ASSUME TypeOK, SingleActiveCarrier, [Next]_vars
  PROVE  SingleActiveCarrier'
<1>1. ASSUME NEW b \in BookingId, AcceptBooking(b), NEW s \in Shipment
      PROVE  Claimed(s)'
  <2>1. Claimed(s)
    BY ClaimedDef
  <2>2. CASE s # b[1]
    <3>1. \A x \in BookingId : x[1] = s => booking'[x] = booking[x]
      BY <1>1, <2>2, AcceptEffect
    <3>2. shipment'[s] = shipment[s]
      BY <1>1, <2>2, AcceptEffect
    <3> QED
      BY <2>1, <3>1, <3>2, ClaimKept
  <2>3. CASE s = b[1]
    <3>1. b \notin BookingsIn(Committed)
      BY <1>1 DEF AcceptBooking, BookingsIn, Committed
    <3>2. shipment[s].activeBooking = None
      BY <1>1, <2>1, <2>3, <3>1 DEF Claimed, AcceptBooking, ClaimFree
    <3>3. \A x \in BookingId : x[1] = s => booking[x].status \notin Committed
      BY <2>1, <3>2 DEF Claimed, BookingsIn
    <3>4. \A x \in BookingId : x[1] = s =>
             (booking'[x].status \in Committed <=> x = b)
      <4>1. booking'[b] = [status |-> "accepted", reserved |-> shipment[b[1]].weight]
        BY <1>1, AcceptEffect
      <4>2. \A x \in BookingId \ {b} : booking'[x] = booking[x]
        BY <1>1, AcceptEffect
      <4> QED
        BY <3>3, <4>1, <4>2 DEF Committed
    <3>5. {x \in BookingsIn(Committed) : x[1] = s}' = {b}
      BY <2>3, <3>4 DEF BookingsIn
    <3>6. b # None
      BY BookingAssumption
    <3>7. /\ shipment'[s].activeBooking = b
          /\ shipment'[s].activeCarrier = Traveler(b)
          /\ shipment'[s].activeTrip = b[2]
      BY <1>1, <2>3, AcceptEffect
    <3> QED
      BY <3>5, <3>6, <3>7 DEF Claimed, Traveler
  <2> QED
    BY <2>2, <2>3
<1>2. ASSUME NEW b \in BookingId, CancelAcceptedBooking(b), NEW s \in Shipment
      PROVE  Claimed(s)'
  <2>1. Claimed(s)
    BY ClaimedDef
  <2>2. CASE s # b[1]
    <3>1. \A x \in BookingId : x[1] = s => booking'[x] = booking[x]
      BY <1>2, <2>2, CancelEffect
    <3>2. shipment'[s] = shipment[s]
      BY <1>2, <2>2, CancelEffect
    <3> QED
      BY <2>1, <3>1, <3>2, ClaimKept
  <2>3. CASE s = b[1]
    <3>1. booking[b].status \in Committed
      BY <1>2 DEF CancelAcceptedBooking, Committed
    <3>2. /\ shipment[s].activeBooking = b
          /\ \A x \in BookingId : x[1] = s /\ booking[x].status \in Committed => x = b
      BY <2>3, <3>1, CommittedIsClaim
    <3>3. {x \in BookingsIn(Committed) : x[1] = s}' = {}
      BY <1>2, <3>2, CancelEffect DEF BookingsIn, Committed
    <3> QED
      BY <1>2, <2>3, <3>2, <3>3, CancelEffect DEF Claimed
  <2> QED
    BY <2>2, <2>3
<1>3. ASSUME OwnerStep, NEW s \in Shipment
      PROVE  Claimed(s)'
  BY <1>3, ClaimedDef, OwnerEffect, ClaimKept DEF bookingVars
<1>4. ASSUME Quiet, NEW s \in Shipment
      PROVE  Claimed(s)'
  BY <1>4, ClaimedDef, ClaimKept DEF Quiet, listingVars
<1>5. \A s \in Shipment : Claimed(s)'
  BY <1>1, <1>2, <1>3, <1>4, StepKinds
<1> QED
  BY <1>5 DEF SingleActiveCarrier, Claimed

\* The agreement of one booking
Agreed(b) ==
  /\ snapshot[b] = [content |-> shipment[b[1]].content,
                    weight |-> shipment[b[1]].weight,
                    corridor |-> shipment[b[1]].corridor]
  /\ booking[b].reserved = snapshot[b].weight

\* Every step keeps the agreements: the acceptance records what it finds, and
\* the shipment of a committed booking is claimed, hence frozen.
LEMMA AgreementStep ==
  ASSUME CommitmentInv, [Next]_vars
  PROVE  AgreementLocked' /\ NotYetAgreed'
<1> USE DEF CommitmentInv
<1> DEFINE Kept(b) == booking'[b].status \in Committed => Agreed(b)'
           New(b) == booking'[b].status \in NotYetAccepted => snapshot'[b] = None
<1>1. \A b \in BookingId : booking[b].status \in Committed => Agreed(b)
  BY DEF AgreementLocked, BookingsIn, Agreed
<1>2. ASSUME NEW b \in BookingId, AcceptBooking(b), NEW x \in BookingId
      PROVE  Kept(x) /\ New(x)
  <2>1. snapshot[b] = None
    BY <1>2 DEF AcceptBooking, NotYetAgreed, NotYetAccepted
  <2>2. CASE x = b
    <3>1. /\ snapshot'[b] = [content |-> shipment'[b[1]].content,
                             weight |-> shipment'[b[1]].weight,
                             corridor |-> shipment'[b[1]].corridor]
          /\ booking'[b] = [status |-> "accepted", reserved |-> shipment'[b[1]].weight]
      BY <1>2, <2>1, AcceptEffect, ZenonT(30)
    <3> QED
      BY <2>2, <3>1 DEF Agreed, NotYetAccepted
  <2>3. CASE x # b
    <3>1. booking'[x] = booking[x] /\ snapshot'[x] = snapshot[x]
      BY <1>2, <2>3, AcceptEffect
    <3>2. /\ shipment'[x[1]].weight = shipment[x[1]].weight
          /\ shipment'[x[1]].content = shipment[x[1]].content
          /\ shipment'[x[1]].corridor = shipment[x[1]].corridor
      BY <1>2, AcceptEffect, BookingParts
    <3> QED
      BY <1>1, <3>1, <3>2 DEF Agreed, NotYetAgreed
  <2> QED
    BY <2>2, <2>3
<1>3. ASSUME NEW b \in BookingId, CancelAcceptedBooking(b), NEW x \in BookingId
      PROVE  Kept(x) /\ New(x)
  <2>1. CASE x = b
    BY <1>3, <2>1, CancelEffect DEF Committed, NotYetAccepted
  <2>2. CASE x # b
    <3>1. booking'[x] = booking[x] /\ snapshot'[x] = snapshot[x]
      BY <1>3, <2>2, CancelEffect
    <3>2. booking[b].status \in Committed
      BY <1>3 DEF CancelAcceptedBooking, Committed
    <3>3. booking[x].status \in Committed => x[1] # b[1]
      BY <2>2, <3>2, CommittedIsClaim
    <3>4. booking[x].status \in Committed => shipment'[x[1]] = shipment[x[1]]
      BY <1>3, <3>3, CancelEffect, BookingParts
    <3> QED
      BY <1>1, <3>1, <3>4 DEF Agreed, NotYetAgreed
  <2> QED
    BY <2>1, <2>2
<1>4. ASSUME OwnerStep, NEW x \in BookingId
      PROVE  Kept(x) /\ New(x)
  <2>1. booking' = booking /\ snapshot' = snapshot
    BY <1>4, OwnerEffect DEF bookingVars
  <2>2. booking[x].status \in Committed => shipment[x[1]].activeBooking # None
    BY CommittedIsClaim, BookingAssumption
  <2>3. booking[x].status \in Committed =>
          /\ shipment'[x[1]].weight = shipment[x[1]].weight
          /\ shipment'[x[1]].content = shipment[x[1]].content
          /\ shipment'[x[1]].corridor = shipment[x[1]].corridor
    BY <1>4, <2>2, OwnerEffect, BookingParts
  <2> QED
    BY <1>1, <2>1, <2>3 DEF Agreed, NotYetAgreed
<1>5. ASSUME Quiet, NEW x \in BookingId
      PROVE  Kept(x) /\ New(x)
  BY <1>1, <1>5 DEF Quiet, listingVars, Agreed, NotYetAgreed
<1>6. \A x \in BookingId : Kept(x) /\ New(x)
  BY <1>2, <1>3, <1>4, <1>5, StepKinds
<1> QED
  BY <1>6 DEF AgreementLocked, NotYetAgreed, BookingsIn, Agreed

\* The commitments' invariant holds in every reachable state.
LEMMA CommitmentInvariant == Spec => []CommitmentInv
<1>1. CommitmentInv /\ [Next]_vars => CommitmentInv'
  BY TypeStep, ClaimStep, AgreementStep DEF CommitmentInv
<1> QED
  BY CommitmentInit, <1>1, PTL DEF Spec

\* "Single active carrier per shipment": however many requests, acceptances
\* and cancellations race, with however many shipments, trips and clients that
\* bypass the server, a claim and its one committed booking come and go together.
THEOREM SingleCarrier == Spec => []SingleActiveCarrier
<1>1. CommitmentInv => SingleActiveCarrier
  BY DEF CommitmentInv
<1> QED
  BY CommitmentInvariant, <1>1, PTL

\* The agreement of a committed booking is the shipment as it stands and the
\* weight reserved on the trip, whatever the owners write.
THEOREM AgreementStands == Spec => []AgreementLocked
<1>1. CommitmentInv => AgreementLocked
  BY DEF CommitmentInv
<1> QED
  BY CommitmentInvariant, <1>1, PTL

(***************************************************************************)
(* The capacity ledger.                                                    *)
(***************************************************************************)
TokensOf(h, bookings) == UNION {{b} \X (1..h[b]) : b \in bookings}

\* The weights held, as a function
Held == [b \in BookingId |-> HeldWeight(b)]

\* A finite number of bookings hold a finite number of units.
LEMMA TokensFinite ==
  ASSUME NEW h \in [BookingId -> 1..MaxUnits], NEW B \in SUBSET BookingId
  PROVE  /\ IsFiniteSet(TokensOf(h, B))
         /\ Cardinality(TokensOf(h, B)) \in Nat
<1>1. IsFiniteSet(BookingId \X (1..MaxUnits))
  <2>1. IsFiniteSet(1..MaxUnits)
    BY MaxUnitsIsNat, FS_Interval
  <2> QED
    BY <2>1, FS_Product, BookingAssumption
<1>2. TokensOf(h, B) \subseteq BookingId \X (1..MaxUnits)
  <2>1. SUFFICES ASSUME NEW b \in B, NEW n \in 1..h[b]
                 PROVE  <<b, n>> \in BookingId \X (1..MaxUnits)
    BY DEF TokensOf
  <2>2. h[b] \in 1..MaxUnits
    OBVIOUS
  <2>3. n \in 1..MaxUnits
    BY <2>2, MaxUnitsIsNat
  <2> QED
    BY <2>3
<1>3. IsFiniteSet(TokensOf(h, B))
  BY <1>1, <1>2, FS_Subset
<1> QED
  BY <1>3, FS_CardinalityType

\* One more booking adds what it holds.
LEMMA TokensAdd ==
  ASSUME NEW h \in [BookingId -> 1..MaxUnits], NEW B \in SUBSET BookingId,
         NEW b \in BookingId \ B
  PROVE  Cardinality(TokensOf(h, B \cup {b})) = Cardinality(TokensOf(h, B)) + h[b]
<1> DEFINE own == {b} \X (1..h[b])
<1>1. TokensOf(h, B \cup {b}) = TokensOf(h, B) \cup own
  BY DEF TokensOf
<1>2. h[b] \in Nat /\ h[b] >= 1
  BY MaxUnitsIsNat
<1>3. IsFiniteSet(1..h[b]) /\ Cardinality(1..h[b]) = h[b]
  BY <1>2, FS_Interval
<1>4. IsFiniteSet({b}) /\ Cardinality({b}) = 1
  BY FS_Singleton
<1>5. IsFiniteSet(own) /\ Cardinality(own) = h[b]
  <2>1. IsFiniteSet(own) /\ Cardinality(own) = Cardinality({b}) * Cardinality(1..h[b])
    BY <1>3, <1>4, FS_Product
  <2> QED
    BY <1>2, <1>3, <1>4, <2>1
<1>6. TokensOf(h, B) \cap own = {}
  BY DEF TokensOf
<1>7. /\ IsFiniteSet(TokensOf(h, B))
      /\ Cardinality(TokensOf(h, B)) \in Nat
  BY TokensFinite
<1>8. Cardinality(TokensOf(h, B) \cup own)
        = Cardinality(TokensOf(h, B)) + Cardinality(own)
            - Cardinality(TokensOf(h, B) \cap own)
  BY <1>5, <1>7, FS_Union
<1>9. Cardinality(TokensOf(h, B) \cap own) = 0
  BY <1>6, FS_EmptySet
<1> HIDE DEF own
<1>10. Cardinality(TokensOf(h, B) \cup own) = Cardinality(TokensOf(h, B)) + h[b]
  BY <1>2, <1>5, <1>7, <1>8, <1>9
<1> QED
  BY <1>1, <1>10

\* The load is the number of tokens, now and after a step.
LEMMA LoadIsTokens ==
  ASSUME NEW t \in Trip
  PROVE  /\ LoadOf(CommittedOn(t)) = Cardinality(TokensOf(Held, CommittedOn(t)))
         /\ LoadOf(CommittedOn(t))' = Cardinality(TokensOf(Held', CommittedOn(t)'))
<1>1. CommittedOn(t) \subseteq BookingId /\ CommittedOn(t)' \subseteq BookingId
  BY DEF CommittedOn, BookingsIn
<1>2. {{b} \X (1..HeldWeight(b)) : b \in CommittedOn(t)}
        = {{b} \X (1..Held[b]) : b \in CommittedOn(t)}
  BY <1>1 DEF Held
<1>3. {{b} \X (1..HeldWeight(b)') : b \in CommittedOn(t)'}
        = {{b} \X (1..Held'[b]) : b \in CommittedOn(t)'}
  BY <1>1 DEF Held
<1> QED
  BY <1>2, <1>3 DEF LoadOf, TokensOf

\* The weights held are weights, now and after a step.
LEMMA HeldType ==
  /\ TypeOK => Held \in [BookingId -> 1..MaxUnits]
  /\ TypeOK' => Held' \in [BookingId -> 1..MaxUnits]
<1>1. TypeOK => Held \in [BookingId -> 1..MaxUnits]
  BY HeldWeightType DEF Held
<1>2. ASSUME TypeOK', NEW b \in BookingId
      PROVE  HeldWeight(b)' \in 1..MaxUnits
  BY <1>2, BookingParts, ListingAssumption
     DEF TypeOK, ListingTypeOK, ShipmentDoc, BookingTypeOK, BookingDoc,
         HeldWeight, Default
<1>3. TypeOK' => Held' \in [BookingId -> 1..MaxUnits]
  BY <1>2 DEF Held
<1> QED
  BY <1>1, <1>3

\* Rounding gives whole hundredths and leaves them alone.
LEMMA RoundWhole ==
  ASSUME NEW n \in Int
  PROVE  /\ RoundKg(n) \in Int /\ RoundKg(n) % 2 = 0
         /\ n % 2 = 0 => RoundKg(n) = n
BY DEF RoundKg

-----------------------------------------------------------------------------
\* Every amount on a trip is a whole number of hundredths.
EvenTrip(t) ==
  /\ trip[t].available % 2 = 0
  /\ trip[t].total # None => trip[t].total % 2 = 0
  /\ trip[t].reserved # None => trip[t].reserved % 2 = 0
EvenLedger == \A t \in Trip : EvenTrip(t)

LedgerInv == CommitmentInv /\ LedgerExact /\ EvenLedger

\* The capacity of a trip is whole, and so is what it has reserved.
LEMMA EvenAmounts ==
  ASSUME TypeOK, NEW t \in Trip, EvenTrip(t)
  PROVE  /\ Capacity(t) \in Int /\ Capacity(t) % 2 = 0
         /\ Default(trip[t].reserved, 0) \in Int
         /\ Default(trip[t].reserved, 0) % 2 = 0
<1>1. trip[t] \in TripDoc
  BY DEF TypeOK, ListingTypeOK
<1> QED
  BY <1>1 DEF TripDoc, Capacity, Default, EvenTrip

\* What a change of the ledger does to the trips
LEMMA SetLedgerEffect ==
  ASSUME TypeOK, NEW t \in Trip, NEW reserved \in Int, NEW available \in Int,
         SetLedger(t, reserved, available)
  PROVE  /\ trip'[t].total = Capacity(t)
         /\ trip'[t].reserved = reserved
         /\ trip'[t].available = available
         /\ \A u \in Trip \ {t} : trip'[u] = trip[u]
<1> DEFINE set == [trip[t] EXCEPT !.total = Capacity(t), !.reserved = reserved,
                                  !.available = available]
<1>1. trip \in [Trip -> TripDoc] /\ trip[t] \in TripDoc
  BY DEF TypeOK, ListingTypeOK
<1>2. trip' = [trip EXCEPT ![t] = set]
  BY DEF SetLedger
<1>3. trip'[t] = set /\ \A u \in Trip \ {t} : trip'[u] = trip[u]
  BY <1>1, <1>2
<1>4. /\ set.total = Capacity(t) /\ set.reserved = reserved
      /\ set.available = available
  BY <1>1 DEF TripDoc
<1> QED
  BY <1>3, <1>4

\* Under the invariant a committed booking holds what it recorded, which no
\* edit of the shipment changes.
LEMMA CommittedHolds ==
  ASSUME CommitmentInv, NEW b \in BookingId, booking[b].status \in Committed
  PROVE  booking[b].reserved \in Weights /\ HeldWeight(b) = booking[b].reserved
<1>1. shipment[b[1]] \in ShipmentDoc(BookingId)
  BY BookingParts DEF CommitmentInv, TypeOK, ListingTypeOK
<1>2. booking[b].reserved = shipment[b[1]].weight
  <2>1. b \in BookingsIn(Committed)
    BY DEF BookingsIn
  <2>2. /\ snapshot[b] = [content |-> shipment[b[1]].content,
                         weight |-> shipment[b[1]].weight,
                         corridor |-> shipment[b[1]].corridor]
        /\ booking[b].reserved = snapshot[b].weight
    BY <2>1, Zenon DEF CommitmentInv, AgreementLocked
  <2>3. snapshot[b].weight = shipment[b[1]].weight
    BY <2>2
  <2> QED
    BY <2>2, <2>3
<1>3. booking[b].reserved \in Weights
  BY <1>1, <1>2 DEF ShipmentDoc
<1>4. booking[b].reserved # None
  BY <1>3, ConstantTypes, ListingAssumption
<1> QED
  BY <1>3, <1>4 DEF HeldWeight, Default

\* Where neither the commitments of a trip nor what they hold change, its load
\* does not.
LEMMA LoadKept ==
  ASSUME CommitmentInv, NEW t \in Trip, CommittedOn(t)' = CommittedOn(t),
         \A b \in CommittedOn(t) : booking'[b].reserved = booking[b].reserved
  PROVE  LoadOf(CommittedOn(t))' = LoadOf(CommittedOn(t))
<1>1. \A b \in CommittedOn(t) : b \in BookingId /\ booking[b].status \in Committed
  BY DEF CommittedOn, BookingsIn
<1>2. \A b \in CommittedOn(t) : HeldWeight(b)' = HeldWeight(b)
  <2> SUFFICES ASSUME NEW b \in CommittedOn(t)
               PROVE  HeldWeight(b)' = HeldWeight(b)
    OBVIOUS
  <2>1. booking[b].reserved \in Weights /\ HeldWeight(b) = booking[b].reserved
    BY <1>1, CommittedHolds
  <2>2. booking[b].reserved # None
    BY <2>1, ConstantTypes, ListingAssumption
  <2> QED
    BY <2>1, <2>2 DEF HeldWeight, Default
<1>3. \A b \in CommittedOn(t) : Held'[b] = Held[b]
  BY <1>1, <1>2 DEF Held
<1>4. TokensOf(Held', CommittedOn(t)') = TokensOf(Held, CommittedOn(t))
  BY <1>3 DEF TokensOf
<1> QED
  BY <1>4, LoadIsTokens

\* The acceptance adds the weight of the shipment to the load of its trip, and
\* leaves the other trips alone.
LEMMA LoadAfterAccept ==
  ASSUME CommitmentInv, TypeOK', NEW b \in BookingId, AcceptBooking(b)
  PROVE  /\ LoadOf(CommittedOn(b[2]))' =
              LoadOf(CommittedOn(b[2])) + shipment[b[1]].weight
         /\ \A t \in Trip \ {b[2]} :
              LoadOf(CommittedOn(t))' = LoadOf(CommittedOn(t))
<1> USE DEF CommitmentInv
<1>1. b[2] \in Trip /\ shipment[b[1]].weight \in Weights
  BY BookingParts, LedgerTypes
<1>2. /\ booking[b].status = "pending"
      /\ booking'[b] = [status |-> "accepted", reserved |-> shipment[b[1]].weight]
      /\ \A x \in BookingId \ {b} : booking'[x] = booking[x]
  BY AcceptEffect
<1>3. b \notin CommittedOn(b[2])
  BY <1>2 DEF CommittedOn, BookingsIn, Committed
<1>4. CommittedOn(b[2])' = CommittedOn(b[2]) \cup {b}
  BY <1>2 DEF CommittedOn, BookingsIn, Committed
<1>5. Held'[b] = shipment[b[1]].weight
  <2>1. shipment[b[1]].weight # None
    BY <1>1, ConstantTypes, ListingAssumption
  <2> QED
    BY <1>2, <2>1 DEF Held, HeldWeight, Default
<1>6. \A x \in CommittedOn(b[2]) : Held'[x] = Held[x]
  <2> SUFFICES ASSUME NEW x \in CommittedOn(b[2])
               PROVE  Held'[x] = Held[x]
    OBVIOUS
  <2>1. x \in BookingId /\ x # b /\ booking[x].status \in Committed
    BY <1>3 DEF CommittedOn, BookingsIn
  <2>2. booking[x].reserved \in Weights /\ HeldWeight(x) = booking[x].reserved
    BY <2>1, CommittedHolds
  <2>3. booking[x].reserved # None
    BY <2>2, ConstantTypes, ListingAssumption
  <2>4. booking'[x] = booking[x]
    BY <1>2, <2>1
  <2> QED
    BY <2>1, <2>2, <2>3, <2>4 DEF Held, HeldWeight, Default
<1>7. TokensOf(Held', CommittedOn(b[2])) = TokensOf(Held, CommittedOn(b[2]))
  BY <1>6 DEF TokensOf
<1>8. CommittedOn(b[2]) \in SUBSET BookingId /\ b \in BookingId \ CommittedOn(b[2])
  BY <1>3 DEF CommittedOn, BookingsIn
<1>9. Held' \in [BookingId -> 1..MaxUnits]
  BY HeldType
<1>10. Cardinality(TokensOf(Held', CommittedOn(b[2]) \cup {b}))
         = Cardinality(TokensOf(Held', CommittedOn(b[2]))) + Held'[b]
  BY <1>8, <1>9, TokensAdd
<1>11. LoadOf(CommittedOn(b[2]))' =
         LoadOf(CommittedOn(b[2])) + shipment[b[1]].weight
  BY <1>1, <1>4, <1>5, <1>7, <1>10, LoadIsTokens
<1>12. ASSUME NEW t \in Trip \ {b[2]}
       PROVE  LoadOf(CommittedOn(t))' = LoadOf(CommittedOn(t))
  <2>1. CommittedOn(t)' = CommittedOn(t)
    BY <1>2 DEF CommittedOn, BookingsIn
  <2>2. \A x \in CommittedOn(t) : booking'[x].reserved = booking[x].reserved
    BY <1>2 DEF CommittedOn, BookingsIn
  <2> QED
    BY <2>1, <2>2, LoadKept
<1> QED
  BY <1>11, <1>12

\* The cancellation takes what the booking holds off the load of its trip.
LEMMA LoadAfterCancel ==
  ASSUME CommitmentInv, TypeOK', NEW b \in BookingId, CancelAcceptedBooking(b)
  PROVE  /\ LoadOf(CommittedOn(b[2])) =
              LoadOf(CommittedOn(b[2]))' + HeldWeight(b)
         /\ \A t \in Trip \ {b[2]} :
              LoadOf(CommittedOn(t))' = LoadOf(CommittedOn(t))
<1> USE DEF CommitmentInv
<1>1. b[2] \in Trip
  BY BookingParts
<1>2. /\ booking[b].status = "accepted" /\ booking'[b].status = "cancelled"
      /\ \A x \in BookingId \ {b} : booking'[x] = booking[x]
  BY CancelEffect
<1>3. b \in CommittedOn(b[2])
  BY <1>2 DEF CommittedOn, BookingsIn, Committed
<1>4. CommittedOn(b[2])' = CommittedOn(b[2]) \ {b}
  BY <1>2 DEF CommittedOn, BookingsIn, Committed
<1>5. \A x \in CommittedOn(b[2])' : Held'[x] = Held[x]
  <2> SUFFICES ASSUME NEW x \in CommittedOn(b[2])'
               PROVE  Held'[x] = Held[x]
    OBVIOUS
  <2>1. x \in BookingId /\ x # b /\ booking[x].status \in Committed
    BY <1>4 DEF CommittedOn, BookingsIn
  <2>2. booking[x].reserved \in Weights /\ HeldWeight(x) = booking[x].reserved
    BY <2>1, CommittedHolds
  <2>3. booking[x].reserved # None
    BY <2>2, ConstantTypes, ListingAssumption
  <2>4. booking'[x] = booking[x]
    BY <1>2, <2>1
  <2> QED
    BY <2>1, <2>2, <2>3, <2>4 DEF Held, HeldWeight, Default
<1>6. TokensOf(Held', CommittedOn(b[2])') = TokensOf(Held, CommittedOn(b[2])')
  BY <1>5 DEF TokensOf
<1>7. /\ CommittedOn(b[2])' \in SUBSET BookingId
      /\ b \in BookingId \ CommittedOn(b[2])'
      /\ CommittedOn(b[2]) = CommittedOn(b[2])' \cup {b}
  BY <1>3, <1>4 DEF CommittedOn, BookingsIn
<1>8. Held \in [BookingId -> 1..MaxUnits]
  BY HeldType
<1>9. Cardinality(TokensOf(Held, CommittedOn(b[2])' \cup {b}))
         = Cardinality(TokensOf(Held, CommittedOn(b[2])')) + Held[b]
  BY <1>7, <1>8, TokensAdd
<1>10. Held[b] = HeldWeight(b)
  BY DEF Held
<1>11. LoadOf(CommittedOn(b[2])) = LoadOf(CommittedOn(b[2]))' + HeldWeight(b)
  BY <1>1, <1>6, <1>7, <1>9, <1>10, LoadIsTokens
<1>12. ASSUME NEW t \in Trip \ {b[2]}
       PROVE  LoadOf(CommittedOn(t))' = LoadOf(CommittedOn(t))
  <2>1. CommittedOn(t)' = CommittedOn(t)
    BY <1>2 DEF CommittedOn, BookingsIn
  <2>2. \A x \in CommittedOn(t) : booking'[x].reserved = booking[x].reserved
    BY <1>2 DEF CommittedOn, BookingsIn
  <2> QED
    BY <2>1, <2>2, LoadKept
<1> QED
  BY <1>11, <1>12

-----------------------------------------------------------------------------
\* Nothing is committed at the start, and every amount is a capacity.
LEMMA LedgerInit ==
  ASSUME WholeHundredths, Init
  PROVE  LedgerInv
<1>1. CommitmentInv
  BY CommitmentInit
<1>2. ASSUME NEW t \in Trip
      PROVE  LoadOf(CommittedOn(t)) = 0
  <2>1. CommittedOn(t) = {}
    BY DEF Init, InitBookings, CommittedOn, BookingsIn, Committed
  <2>2. TokensOf(Held, CommittedOn(t)) = {}
    BY <2>1 DEF TokensOf
  <2> QED
    BY <2>2, LoadIsTokens, FS_EmptySet
<1>3. ASSUME NEW t \in Trip
      PROVE  /\ trip[t].available \in Capacities
             /\ trip[t].total \in Capacities \cup {None}
             /\ trip[t].reserved \in {None, 0}
  BY DEF Init, InitListings
<1>4. LedgerExact
  BY <1>2, <1>3 DEF LedgerExact, Default
<1>5. EvenLedger
  BY <1>3 DEF EvenLedger, EvenTrip, WholeHundredths
<1> QED
  BY <1>1, <1>4, <1>5 DEF LedgerInv

\* What the acceptance does to the ledger: it adds the weight exactly, and
\* only where the sum fits the capacity.
LEMMA AcceptLedger ==
  ASSUME WholeHundredths, LedgerInv, NEW b \in BookingId, AcceptBooking(b)
  PROVE  /\ trip'[b[2]].total = Capacity(b[2])
         /\ trip'[b[2]].reserved =
              Default(trip[b[2]].reserved, 0) + shipment[b[1]].weight
         /\ trip'[b[2]].reserved <= Capacity(b[2])
         /\ EvenTrip(b[2])'
         /\ \A u \in Trip \ {b[2]} : trip'[u] = trip[u]
<1> DEFINE t == b[2]
           held == Default(trip[t].reserved, 0)
           weight == shipment[b[1]].weight
           capacity == Capacity(t)
<1>1. TypeOK /\ t \in Trip
  BY BookingParts DEF LedgerInv, CommitmentInv
<1>2. /\ capacity \in Int /\ capacity % 2 = 0
      /\ held \in Int /\ held % 2 = 0
  BY <1>1, EvenAmounts DEF LedgerInv, EvenLedger
<1>3. weight \in Int /\ weight % 2 = 0
  BY <1>1, LedgerTypes DEF WholeHundredths
<1>4. CurrentReserved(b) = held
  <2>1. CASE trip[t].reserved = None
    <3>1. CommittedOn(t) \ {b} = CommittedOn(t)
      BY <1>1, AcceptEffect DEF CommittedOn, BookingsIn, Committed
    <3>2. LoadOf(CommittedOn(t)) = 0
      BY <1>1, <2>1 DEF LedgerInv, LedgerExact, Default
    <3>3. LoadOf(CommittedOn(t) \ {b}) = 0
      BY <3>1, <3>2, Zenon
    <3>4. RoundKg(0) = 0
      BY DEF RoundKg
    <3> QED
      BY <2>1, <3>3, <3>4 DEF CurrentReserved, Default
  <2>2. CASE trip[t].reserved # None
    BY <2>2 DEF CurrentReserved, Default
  <2> QED
    BY <2>1, <2>2
<1>5. FitsTrip(b) /\ ReserveCapacity(b)
  BY DEF AcceptBooking
<1> HIDE DEF held, weight, capacity
<1>6. RoundKg(capacity - held) = capacity - held
  BY <1>2, RoundWhole
<1>7. RoundKg(held + weight) = held + weight
  BY <1>2, <1>3, RoundWhole
<1>8. weight <= capacity - held
  BY <1>4, <1>5, <1>6 DEF FitsTrip, capacity, weight
<1> DEFINE reserved == held + weight
           available == RoundKg(capacity - reserved)
           advertised == IF available < 0 THEN 0 ELSE available
<1>9. SetLedger(t, reserved, advertised)
  BY <1>4, <1>5, <1>7 DEF ReserveCapacity, capacity, weight
<1>10. /\ reserved \in Int /\ reserved % 2 = 0 /\ reserved <= capacity
       /\ advertised \in Int /\ advertised % 2 = 0
  <2>1. reserved \in Int /\ reserved % 2 = 0 /\ reserved <= capacity
    BY <1>2, <1>3, <1>8
  <2>2. capacity - reserved \in Int
    BY <1>2, <2>1
  <2>3. available \in Int /\ available % 2 = 0
    BY <2>2, RoundWhole
  <2> QED
    BY <2>1, <2>3
<1> HIDE DEF reserved, available, advertised, t
<1>11. /\ trip'[t].total = Capacity(t) /\ trip'[t].reserved = reserved
       /\ trip'[t].available = advertised
       /\ \A u \in Trip \ {t} : trip'[u] = trip[u]
  BY <1>1, <1>9, <1>10, SetLedgerEffect
<1>12. EvenTrip(t)'
  BY <1>2, <1>10, <1>11 DEF EvenTrip, capacity
<1> QED
  BY <1>10, <1>11, <1>12 DEF reserved, held, weight, capacity, t

\* What the cancellation does to the ledger: it takes off exactly what the
\* booking holds.
LEMMA CancelLedger ==
  ASSUME WholeHundredths, LedgerInv, TypeOK', NEW b \in BookingId,
         CancelAcceptedBooking(b)
  PROVE  /\ Default(trip[b[2]].reserved, 0) = trip'[b[2]].reserved + HeldWeight(b)
         /\ trip'[b[2]].reserved \in Int
         /\ EvenTrip(b[2])'
         /\ \A u \in Trip \ {b[2]} : trip'[u] = trip[u]
<1> DEFINE t == b[2]
           held == Default(trip[t].reserved, 0)
           weight == HeldWeight(b)
           capacity == Capacity(t)
<1>1. TypeOK /\ t \in Trip
  BY BookingParts DEF LedgerInv, CommitmentInv
<1>2. /\ capacity \in Int /\ capacity % 2 = 0
      /\ held \in Int /\ held % 2 = 0
  BY <1>1, EvenAmounts DEF LedgerInv, EvenLedger
<1>3. weight \in Int /\ weight % 2 = 0
  BY <1>1, HeldWeightType, ConstantTypes DEF WholeHundredths
<1>4. weight <= held
  <2>1. held = LoadOf(CommittedOn(t))
    BY <1>1 DEF LedgerInv, LedgerExact
  <2>2. LoadOf(CommittedOn(t)) = LoadOf(CommittedOn(t))' + weight
    BY LoadAfterCancel DEF LedgerInv
  <2>3. LoadOf(CommittedOn(t))' \in Nat
    <3>1. CommittedOn(t)' \in SUBSET BookingId
      BY DEF CommittedOn, BookingsIn
    <3>2. Cardinality(TokensOf(Held', CommittedOn(t)')) \in Nat
      BY <3>1, HeldType, TokensFinite
    <3> QED
      BY <1>1, <3>2, LoadIsTokens
  <2> HIDE DEF held, weight
  <2> QED
    BY <1>2, <1>3, <2>1, <2>2, <2>3
<1>5. RestoreCapacity(b)
  BY DEF CancelAcceptedBooking
<1> HIDE DEF held, weight, capacity
<1> DEFINE reserved == held - weight
           available == RoundKg(capacity - reserved)
           advertised == IF available > capacity THEN capacity ELSE available
<1>6. /\ reserved \in Int /\ reserved % 2 = 0 /\ reserved >= 0
      /\ RoundKg(reserved) = reserved
  <2>1. reserved \in Int /\ reserved % 2 = 0 /\ reserved >= 0
    BY <1>2, <1>3, <1>4
  <2> HIDE DEF reserved
  <2> QED
    BY <2>1, RoundWhole
<1>7. SetLedger(t, reserved, advertised)
  BY <1>5, <1>6 DEF RestoreCapacity, held, weight, capacity
<1>8. advertised \in Int /\ advertised % 2 = 0
  <2>1. capacity - reserved \in Int
    BY <1>2, <1>6
  <2>2. available \in Int /\ available % 2 = 0
    BY <2>1, RoundWhole
  <2> HIDE DEF available
  <2> QED
    BY <1>2, <2>2
<1> HIDE DEF reserved, available, advertised, t
<1>9. /\ trip'[t].total = Capacity(t) /\ trip'[t].reserved = reserved
      /\ trip'[t].available = advertised
      /\ \A u \in Trip \ {t} : trip'[u] = trip[u]
  BY <1>1, <1>6, <1>7, <1>8, SetLedgerEffect
<1>10. EvenTrip(t)'
  BY <1>2, <1>6, <1>8, <1>9 DEF EvenTrip, capacity
<1>11. held = reserved + weight
  BY <1>2, <1>3, SMTT(30) DEF reserved
<1> QED
  BY <1>6, <1>9, <1>10, <1>11 DEF held, weight, t

\* An owner's edit of a trip keeps what is reserved on it, and writes whole
\* amounts.
LEMMA OwnerLedger ==
  ASSUME WholeHundredths, LedgerInv, OwnerStep, NEW t \in Trip
  PROVE  /\ Default(trip'[t].reserved, 0) = Default(trip[t].reserved, 0)
         /\ EvenTrip(t)'
<1>1. TypeOK /\ trip \in [Trip -> TripDoc] /\ EvenTrip(t)
  BY DEF LedgerInv, CommitmentInv, TypeOK, ListingTypeOK, EvenLedger
<1>2. CASE UNCHANGED trip
  BY <1>1, <1>2 DEF EvenTrip
<1>3. ASSUME NEW u \in Trip, NEW status \in ListingStatus, NEW c \in Corridor,
             NEW available \in Capacities,
             NEW total \in {trip[u].total, None, Capacity(u)},
             NEW reserved \in {trip[u].reserved, None, 0},
             EditTrip(u, status, c, available, total, reserved)
      PROVE  /\ Default(trip'[t].reserved, 0) = Default(trip[t].reserved, 0)
             /\ EvenTrip(t)'
  <2> DEFINE edited == [status |-> status, corridor |-> c, available |-> available,
                        total |-> total, reserved |-> reserved]
  <2>1. /\ trip' = [trip EXCEPT ![u] = edited]
        /\ Default(reserved, 0) = Default(trip[u].reserved, 0)
    BY <1>3 DEF EditTrip
  <2>2. CASE t # u
    BY <1>1, <2>1, <2>2 DEF EvenTrip
  <2>3. CASE t = u
    <3>1. trip'[t] = edited
      BY <1>1, <2>1, <2>3
    <3>2. available % 2 = 0
      BY DEF WholeHundredths
    <3>3. total # None => total % 2 = 0
      BY <1>1, <2>3, EvenAmounts DEF EvenTrip
    <3>4. reserved # None => reserved % 2 = 0
      BY <1>1, <2>3 DEF EvenTrip
    <3> QED
      BY <2>1, <2>3, <3>1, <3>2, <3>3, <3>4 DEF EvenTrip
  <2> QED
    BY <2>2, <2>3
<1> QED
  BY <1>2, <1>3, ZenonT(30) DEF OwnerStep, EditShipment, SetShipmentStatus

-----------------------------------------------------------------------------
\* Every step keeps the ledgers exact.
LEMMA LedgerStep ==
  ASSUME WholeHundredths, LedgerInv, [Next]_vars
  PROVE  LedgerInv'
<1> DEFINE Kept(t) ==
      /\ LoadOf(CommittedOn(t))' = Default(trip'[t].reserved, 0)
      /\ EvenTrip(t)'
<1>1. TypeOK /\ CommitmentInv
  BY DEF LedgerInv, CommitmentInv
<1>2. TypeOK' /\ CommitmentInv'
  BY <1>1, TypeStep, ClaimStep, AgreementStep DEF CommitmentInv
<1>3. \A t \in Trip :
         LoadOf(CommittedOn(t)) = Default(trip[t].reserved, 0) /\ EvenTrip(t)
  BY DEF LedgerInv, LedgerExact, EvenLedger
<1>4. ASSUME NEW t \in Trip, trip'[t] = trip[t],
             LoadOf(CommittedOn(t))' = LoadOf(CommittedOn(t))
      PROVE  Kept(t)
  BY <1>3, <1>4 DEF EvenTrip
<1>5. ASSUME NEW b \in BookingId, AcceptBooking(b), NEW t \in Trip
      PROVE  Kept(t)
  <2>1. CASE t = b[2]
    <3>1. LoadOf(CommittedOn(t))' = trip'[t].reserved
      BY <1>1, <1>2, <1>3, <1>5, <2>1, LoadAfterAccept, AcceptLedger
    <3>2. trip'[t].reserved # None
      <4>1. Default(trip[t].reserved, 0) \in Int
        BY <1>1, <1>3, EvenAmounts
      <4>2. shipment[b[1]].weight \in Int
        BY <1>1, LedgerTypes
      <4>3. trip'[t].reserved \in Int
        BY <1>5, <2>1, <4>1, <4>2, AcceptLedger
      <4> QED
        BY <4>3, ListingAssumption
    <3> QED
      BY <1>5, <2>1, <3>1, <3>2, AcceptLedger DEF Default
  <2>2. CASE t # b[2]
    BY <1>1, <1>2, <1>4, <1>5, <2>2, LoadAfterAccept, AcceptLedger
  <2> QED
    BY <2>1, <2>2
<1>6. ASSUME NEW b \in BookingId, CancelAcceptedBooking(b), NEW t \in Trip
      PROVE  Kept(t)
  <2>1. CASE t = b[2]
    <3>1. /\ LoadOf(CommittedOn(t)) = LoadOf(CommittedOn(t))' + HeldWeight(b)
          /\ LoadOf(CommittedOn(t)) = trip'[t].reserved + HeldWeight(b)
      BY <1>1, <1>2, <1>3, <1>6, <2>1, LoadAfterCancel, CancelLedger
    <3>2. trip'[t].reserved \in Int /\ trip'[t].reserved # None
      BY <1>2, <1>6, <2>1, CancelLedger, ListingAssumption
    <3>3. LoadOf(CommittedOn(t))' \in Int /\ HeldWeight(b) \in Int
      <4>1. CommittedOn(t)' \in SUBSET BookingId
        BY DEF CommittedOn, BookingsIn
      <4>2. Cardinality(TokensOf(Held', CommittedOn(t)')) \in Nat
        BY <1>2, <4>1, HeldType, TokensFinite
      <4>3. LoadOf(CommittedOn(t))' \in Nat
        BY <4>2, LoadIsTokens
      <4> QED
        BY <1>1, <4>3, LedgerTypes
    <3>4. ASSUME NEW after \in Int, NEW reserved \in Int, NEW weight \in Int,
                 after + weight = reserved + weight
          PROVE  after = reserved
      BY <3>4
    <3>5. LoadOf(CommittedOn(t))' = trip'[t].reserved
      BY <3>1, <3>2, <3>3, <3>4, Zenon
    <3> QED
      BY <1>2, <1>6, <2>1, <3>2, <3>5, CancelLedger DEF Default
  <2>2. CASE t # b[2]
    BY <1>1, <1>2, <1>4, <1>6, <2>2, LoadAfterCancel, CancelLedger
  <2> QED
    BY <2>1, <2>2
<1>7. ASSUME OwnerStep, NEW t \in Trip
      PROVE  Kept(t)
  <2>1. booking' = booking
    BY <1>1, <1>7, OwnerEffect DEF bookingVars
  <2>2. CommittedOn(t)' = CommittedOn(t)
    BY <2>1 DEF CommittedOn, BookingsIn
  <2>3. LoadOf(CommittedOn(t))' = LoadOf(CommittedOn(t))
    BY <1>1, <2>1, <2>2, LoadKept
  <2> QED
    BY <1>3, <1>7, <2>3, OwnerLedger
<1>8. ASSUME Quiet, NEW t \in Trip
      PROVE  Kept(t)
  <2>1. CommittedOn(t)' = CommittedOn(t)
    BY <1>8 DEF Quiet, CommittedOn, BookingsIn
  <2>2. \A b \in CommittedOn(t) : booking'[b].reserved = booking[b].reserved
    BY <1>8 DEF Quiet, CommittedOn, BookingsIn
  <2>3. LoadOf(CommittedOn(t))' = LoadOf(CommittedOn(t))
    BY <1>1, <2>1, <2>2, LoadKept
  <2> QED
    BY <1>4, <1>8, <2>3 DEF Quiet, listingVars
<1>9. \A t \in Trip : Kept(t)
  BY <1>1, <1>5, <1>6, <1>7, <1>8, StepKinds
<1> QED
  BY <1>2, <1>9 DEF LedgerInv, LedgerExact, EvenLedger

\* The ledger's invariant holds in every reachable state.
LEMMA LedgerInvariant ==
  ASSUME WholeHundredths
  PROVE  Spec => []LedgerInv
<1>1. LedgerInv /\ [Next]_vars => LedgerInv'
  BY LedgerStep
<1>2. Init => LedgerInv
  BY LedgerInit
<1> QED
  BY <1>1, <1>2, PTL DEF Spec

\* When weights and capacities are whole hundredths of a kilogram, what a trip
\* has reserved is what its committed bookings hold: acceptances and
\* cancellations, in any number and order, with the owners' edits between
\* them, neither lose nor gain a unit.
THEOREM LedgerIsExact ==
  ASSUME WholeHundredths
  PROVE  Spec => []LedgerExact
<1>1. LedgerInv => LedgerExact
  BY DEF LedgerInv
<1> QED
  BY LedgerInvariant, <1>1, PTL

\* When weights are whole hundredths, a trip whose bookings were all cancelled
\* has nothing reserved, which the comment of BookingCancellationService says of
\* all weights: that smaller parts of a kilogram are rounded twice is the only
\* reason why it fails.
THEOREM RestorationIsExact ==
  ASSUME WholeHundredths
  PROVE  Spec => []ExactRestoration
<1>1. LoadOf({}) = 0
  BY FS_EmptySet DEF LoadOf
<1>2. LedgerExact => ExactRestoration
  BY <1>1 DEF LedgerExact, ExactRestoration
<1> QED
  BY <1>2, LedgerIsExact, PTL

\* Only the acceptance adds to the load of a trip.
LEMMA LoadGrows ==
  ASSUME WholeHundredths, LedgerInv, [Next]_vars, NEW t \in Trip,
         LoadOf(CommittedOn(t))' > LoadOf(CommittedOn(t))
  PROVE  \E b \in BookingId : AcceptBooking(b) /\ t = b[2]
<1>1. TypeOK /\ TypeOK' /\ CommitmentInv
  BY TypeStep DEF LedgerInv, CommitmentInv
<1>2. LoadOf(CommittedOn(t)) \in Int /\ LoadOf(CommittedOn(t))' \in Int
  <2>1. CommittedOn(t) \in SUBSET BookingId /\ CommittedOn(t)' \in SUBSET BookingId
    BY DEF CommittedOn, BookingsIn
  <2>2. /\ Cardinality(TokensOf(Held, CommittedOn(t))) \in Nat
        /\ Cardinality(TokensOf(Held', CommittedOn(t)')) \in Nat
    BY <1>1, <2>1, HeldType, TokensFinite
  <2> QED
    BY <2>2, LoadIsTokens
<1>3. LoadOf(CommittedOn(t))' # LoadOf(CommittedOn(t))
  BY <1>2
<1>4. ASSUME NEW b \in BookingId, AcceptBooking(b)
      PROVE  t = b[2]
  BY <1>1, <1>3, <1>4, LoadAfterAccept
<1>5. ASSUME NEW b \in BookingId, CancelAcceptedBooking(b)
      PROVE  FALSE
  <2>1. HeldWeight(b) \in Nat
    BY <1>1, HeldWeightType, MaxUnitsIsNat
  <2>2. CASE t = b[2]
    BY <1>1, <1>2, <1>5, <2>1, <2>2, LoadAfterCancel
  <2>3. CASE t # b[2]
    BY <1>1, <1>3, <1>5, <2>3, LoadAfterCancel
  <2> QED
    BY <2>2, <2>3
<1>6. ASSUME OwnerStep \/ Quiet
      PROVE  FALSE
  <2>1. /\ CommittedOn(t)' = CommittedOn(t)
        /\ \A b \in CommittedOn(t) : booking'[b].reserved = booking[b].reserved
    <3>1. CASE OwnerStep
      BY <1>1, <3>1, OwnerEffect DEF bookingVars, CommittedOn, BookingsIn
    <3>2. CASE Quiet
      BY <3>2 DEF Quiet, CommittedOn, BookingsIn
    <3> QED
      BY <1>6, <3>1, <3>2
  <2> QED
    BY <1>1, <1>3, <2>1, LoadKept
<1> QED
  BY <1>1, <1>4, <1>5, <1>6, StepKinds

\* No acceptance overloads a trip, whatever its owner advertised meanwhile and
\* however many acceptances raced for the same capacity.
THEOREM AcceptancesFit ==
  ASSUME WholeHundredths
  PROVE  Spec => AcceptanceFits
<1> DEFINE Fits == \A t \in Trip :
      LoadOf(CommittedOn(t))' > LoadOf(CommittedOn(t))
        => LoadOf(CommittedOn(t))' <= trip'[t].total
<1>1. LedgerInv /\ [Next]_vars => [Fits]_vars
  <2> SUFFICES ASSUME LedgerInv, [Next]_vars, NEW t \in Trip,
                      LoadOf(CommittedOn(t))' > LoadOf(CommittedOn(t))
               PROVE  LoadOf(CommittedOn(t))' <= trip'[t].total
    OBVIOUS
  <2>1. PICK b \in BookingId : AcceptBooking(b) /\ t = b[2]
    BY LoadGrows
  <2>2. TypeOK /\ TypeOK' /\ CommitmentInv
    BY TypeStep DEF LedgerInv, CommitmentInv
  <2>3. LoadOf(CommittedOn(t))' = LoadOf(CommittedOn(t)) + shipment[b[1]].weight
    BY <2>1, <2>2, LoadAfterAccept
  <2>4. LoadOf(CommittedOn(t)) = Default(trip[t].reserved, 0)
    BY DEF LedgerInv, LedgerExact
  <2>5. /\ trip'[t].total = Capacity(t)
        /\ Default(trip[t].reserved, 0) + shipment[b[1]].weight <= Capacity(t)
    BY <2>1, AcceptLedger
  <2> QED
    BY <2>3, <2>4, <2>5
<1>2. Spec => [][Fits]_vars
  BY LedgerInvariant, <1>1, PTL DEF Spec
<1> QED
  BY <1>2 DEF AcceptanceFits
=============================================================================
