\* One booking through codes, custody, holds and reviews
SPECIFICATION Spec
CONSTANTS
  sender = sender
  traveler1 = traveler1
  traveler2 = traveler2
  trip1 = trip1
  None = None
  User <- MCUser
  ShipmentOwner <- MCShipmentOwner
  TripOwner <- MCTripOwner
  BookingId <- MCBookingId
  Shipment = {s1}
  Trip = {trip1}
  Corridor = {c1}
  Weights = {2}
  Capacities = {2}
  MaxContent = 1
  Admin = {a1}
  HoldKey = {k1}
  ReviewKey = {r1, r2}
  MaxAttempts = 2
  Operation = {}
  MaxTries = 2
  DirectWrites = FALSE
  OwnerEdits = {"trip"}
INVARIANTS VerifiedHandoffs AcceptedCanBeCancelled OneOpenBooking
PROPERTY UnsafeNotCarried
CHECK_DEADLOCK FALSE
