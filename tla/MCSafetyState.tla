--------------------------- MODULE MCSafetyState ----------------------------
(***************************************************************************)
(* An instance of SafetyState: two operators and one owner's shipments.    *)
(***************************************************************************)
EXTENDS SafetyState

CONSTANT sender

MCShipmentOwner == [s \in Shipment |-> sender]
MCTripOwner == [t \in Trip |-> sender]
=============================================================================
