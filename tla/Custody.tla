------------------------------- MODULE Custody ------------------------------
(***************************************************************************)
(* Custody of an accepted booking: CustodyTransitionService.  The parcel   *)
(* passes to the traveler at pickup and to the receiver at delivery, each  *)
(* time against a verified handoff code, and the sender acknowledges the   *)
(* completion.  Every event names the event it follows.                    *)
(***************************************************************************)
EXTENDS Bookings

Advance(b, status) == booking' = [booking EXCEPT ![b].status = status]

\* The traveler declares the content version of the agreement snapshot and a
\* complete inspection; a declaration that does not is refused.  The accepted
\* declaration is filed with the pickup and read by no operation.
ConfirmPickupCustody(b) ==
  /\ booking[b].status = "accepted"
  /\ Recorded(b, "traveler_accepted")
  /\ b \in handoffs /\ agreement[b]["pickup"].verified
  /\ AssertShipmentSafetyClear(b[1])
  /\ shipment[b[1]].activeBooking \in {None, b}
  /\ snapshot[b] # None
  /\ Advance(b, "in_transit")
  /\ custody' = AppendEvent(b, "pickup_confirmed", "traveler_accepted")
  /\ UNCHANGED <<request, snapshot, listingVars, safetyVars, handoffVars>>

\* The arrival if the traveler recorded it, else the pickup
DeliveryPredecessorMutant(b) ==
  IF Recorded(b, "airport_departure") THEN "airport_arrival" ELSE "pickup_confirmed"
DeliveryPredecessor(b) ==
  IF Recorded(b, "airport_arrival") THEN "airport_arrival" ELSE "pickup_confirmed"

ConfirmDeliveryCustody(b) ==
  /\ booking[b].status = "in_transit"
  /\ Recorded(b, "pickup_confirmed")
  /\ b \in handoffs /\ agreement[b]["delivery"].verified
  /\ Advance(b, "delivered")
  /\ custody' = AppendEvent(b, "delivery_confirmed", DeliveryPredecessor(b))
  /\ UNCHANGED <<request, snapshot, listingVars, safetyVars, handoffVars>>

\* No event is recorded; the shipment stays claimed and its weight reserved
CompleteBookingCustody(b) ==
  /\ booking[b].status = "delivered"
  /\ Recorded(b, "delivery_confirmed")
  /\ Advance(b, "completed")
  /\ UNCHANGED <<request, snapshot, custody, listingVars, safetyVars,
                 handoffVars>>

TravelPredecessor(e) ==
  IF e = "airport_departure" THEN "pickup_confirmed" ELSE "airport_departure"

RecordTravelEvent(b, e) ==
  /\ booking[b].status = "in_transit"
  /\ ~Recorded(b, e)
  /\ Recorded(b, TravelPredecessor(e))
  /\ custody' = AppendEvent(b, e, TravelPredecessor(e))
  /\ UNCHANGED <<booking, request, snapshot, listingVars, safetyVars,
                 handoffVars>>
=============================================================================
