------------------------------ MODULE MCLegacy ------------------------------
(***************************************************************************)
(* The operators' tools over the bookings, for TLC: the reconciler over    *)
(* bookings of an earlier client, with two shipments and two trips, and    *)
(* the two audits over bookings of the server, for one shipment.  A        *)
(* behaviour has one of the tools run, beside the users; the bookings of   *)
(* the other tools stay as they are.                                       *)
(***************************************************************************)
EXTENDS LegacyReservations, LegacyAudits, TLC

CONSTANTS s1, s2, audited, trip1, trip2

VARIABLE tool

MCUser == {"sender", "traveler1", "traveler2"}
MCShipment == {s1, s2, audited}
MCTrip == {trip1, trip2}
MCShipmentOwner == [s \in MCShipment |-> "sender"]
MCTripOwner == trip1 :> "traveler1" @@ trip2 :> "traveler2"
MCBookingId == MCShipment \X MCTrip \X {1}

ShipmentSymmetry == Permutations({s1, s2})

-----------------------------------------------------------------------------
\* The audits see the bookings of one shipment: the custody audit those of both
\* trips, the safety audit those of one, under holds and reviews.
Used ==
  [reconciler   |-> {s1, s2} \X {trip1, trip2} \X {1},
   custodyAudit |-> {audited} \X {trip1, trip2} \X {1},
   safetyAudit  |-> {audited} \X {trip1} \X {1}]

Plain == [status |-> "absent", reserved |-> None]

\* What the tool does not see is fixed: such a shipment weighs 2, and the audits
\* have one trip.
ListingsUsed ==
  /\ \A s \in Shipment : tool # "reconciler" \/ s = audited => shipment[s].weight = 2
  /\ tool # "reconciler" => trip[trip2].total = None /\ trip[trip2].reserved = None

ReconcilerInit ==
  /\ tool = "reconciler"
  /\ \E old \in [Used.reconciler -> [status : {"absent", "pending", "accepted"}, reserved : {None}]] :
       booking = [b \in BookingId |-> IF b \in Used.reconciler THEN old[b] ELSE Plain]
  /\ LegacyInit
  /\ bookingsRead = None /\ safetyRead = NothingRead
  /\ custodyReport = {} /\ safetyReport = {}

AuditsInit ==
  /\ tool \in {"custodyAudit", "safetyAudit"}
  /\ AuditInit
  /\ phase = "idle" /\ plan = {} /\ conflicts = {} /\ reported = {} /\ upgraded = FALSE
  /\ readTrips = None /\ readShipments = None

MCInit == (ReconcilerInit \/ AuditsInit) /\ ListingsUsed

-----------------------------------------------------------------------------
OthersStay ==
  /\ tool' = tool
  /\ \A b \in BookingId \ Used[tool] : booking'[b] = booking[b]

NoOperators == UNCHANGED <<hold, review, audit>>

OperatorsSeeAudited ==
  /\ \A h \in HoldId : h[2] # audited => hold'[h] = hold[h]
  /\ \A r \in ReviewId : r[2] # audited => review'[r] = review[r]

ReconcilerMoves ==
  tool = "reconciler" /\ LegacyNext /\ UNCHANGED auditVars /\ OthersStay
CustodyAuditMoves ==
  tool = "custodyAudit" /\ CustodyAuditNext /\ UNCHANGED reconcilerVars /\ OthersStay /\ NoOperators
SafetyAuditMoves ==
  /\ tool = "safetyAudit" /\ SafetyAuditNext /\ UNCHANGED reconcilerVars /\ OthersStay
  /\ OperatorsSeeAudited

MCNext == ReconcilerMoves \/ CustodyAuditMoves \/ SafetyAuditMoves

MCSpec == MCInit /\ [][MCNext]_<<vars, reconcilerVars, auditVars, tool>>

ASSUME ReconcilerAssumption == LegacyAssumption
=============================================================================
