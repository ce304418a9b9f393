\* Three shipments compete for one trip whose owner keeps editing it, and requests are repeated
SPECIFICATION ReservationSpec
CONSTANTS
  sender = sender
  traveler1 = traveler1
  traveler2 = traveler2
  trip1 = trip1
  None = None
  User <- MCUser
  ShipmentOwner <- MCShipmentOwner
  TripOwner <- MCTripOwner
  BookingId <- MCBookingId
  Shipment = {s1, s2, s3}
  Trip = {trip1}
  Corridor = {c1}
  Weights = {2, 4}
  Capacities = {4, 6}
  MaxContent = 1
  Admin = {}
  HoldKey = {}
  ReviewKey = {}
  MaxAttempts = 1
  Operation = {op1}
  MaxTries = 1
  DirectWrites = FALSE
  OwnerEdits = {"trip"}
SYMMETRY ShipmentSymmetry
INVARIANTS LedgerExact OneBookingPerOperation
PROPERTY AcceptanceFits
CHECK_DEADLOCK FALSE
