\* The events the documents promise for the completion
SPECIFICATION Spec
CONSTANTS
  sender = sender
  traveler1 = traveler1
  traveler2 = traveler2
  trip1 = trip1
  None = None
  User <- MCUser
  ShipmentOwner <- MCShipmentOwner
  TripOwner <- MCTripOwner
  BookingId <- MCBookingId
  Shipment = {s1}
  Trip = {trip1}
  Corridor = {c1}
  Weights = {2}
  Capacities = {4}
  MaxContent = 2
  Admin = {a1}
  HoldKey = {}
  ReviewKey = {}
  MaxAttempts = 1
  Operation = {}
  MaxTries = 1
  DirectWrites = FALSE
  OwnerEdits = {"shipment"}
PROPERTY CompletionRecorded
CHECK_DEADLOCK FALSE
