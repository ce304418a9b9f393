\* The whole system, and what the sender of a parcel is promised: a shipment, two
\* travelers, clients with and without the server operations, holds and reviews
SPECIFICATION Spec
CONSTANTS
  sender = sender
  traveler1 = traveler1
  traveler2 = traveler2
  trip1 = trip1
  None = None
  User <- MCUser
  ShipmentOwner <- MCShipmentOwner
  TripOwner <- MCTripOwner
  BookingId <- MCBookingId
  Shipment = {s1}
  Trip = {trip1, trip2}
  Corridor = {c1}
  Weights = {2}
  Capacities = {2}
  MaxContent = 2
  Admin = {a1}
  HoldKey = {k1}
  ReviewKey = {k1}
  MaxAttempts = 1
  Operation = {}
  MaxTries = 1
  DirectWrites = TRUE
  OwnerEdits = {"shipment", "status"}
INVARIANTS TypeOK RequestFollowsBooking CustodyFollowsStatus
  SingleActiveCarrier AgreementLocked
PROPERTY KeepsPromise
CHECK_DEADLOCK FALSE
