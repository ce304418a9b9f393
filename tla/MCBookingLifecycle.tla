------------------------- MODULE MCBookingLifecycle -------------------------
(***************************************************************************)
(* Instances of BookingLifecycle: one sender owns every shipment, and the  *)
(* trips belong to two travelers.                                          *)
(***************************************************************************)
EXTENDS BookingLifecycle, TLC

CONSTANTS sender, traveler1, traveler2, trip1

MCUser == {sender, traveler1, traveler2}
MCShipmentOwner == [s \in Shipment |-> sender]
MCTripOwner == [t \in Trip |-> IF t = trip1 THEN traveler1 ELSE traveler2]
MCBookingId == Shipment \X Trip \X (1..MaxTries \cup Operation)

ShipmentSymmetry == Permutations(Shipment)

\* The contention for shipments and trips alone: bookings are requested,
\* accepted and withdrawn, and go no further than the acceptance.
ReservationNext ==
  \/ \E s \in Shipment, t \in Trip :
       \/ \E op \in Operation \cup {None} : RequestBooking(s, t, op)
       \/ CreateRequestDirectly(s, t)
  \/ \E b \in BookingId : BookingStep(b)
  \/ OwnerStep

ReservationSpec == Init /\ [][ReservationNext]_vars
=============================================================================
