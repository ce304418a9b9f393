\* The reconciler dies and runs again over bookings from before the ledger; the
\* audits read bookings of the server while they go on
SPECIFICATION MCSpec
CONSTANTS
  s1 = s1
  s2 = s2
  audited = audited
  trip1 = trip1
  trip2 = trip2
  None = None
  User <- MCUser
  Shipment <- MCShipment
  Trip <- MCTrip
  ShipmentOwner <- MCShipmentOwner
  TripOwner <- MCTripOwner
  BookingId <- MCBookingId
  Corridor = {c1}
  Weights = {2, 4}
  Capacities = {4}
  MaxContent = 1
  Admin = {"operator"}
  HoldKey = {1}
  ReviewKey = {1}
  MaxAttempts = 1
  Operation = {}
  MaxTries = 1
  DirectWrites = FALSE
  OwnerEdits = {}
  BatchSize = 1
  Quiesced = TRUE
SYMMETRY ShipmentSymmetry
INVARIANT AuditsClean
PROPERTY UpgradeKept
CHECK_DEADLOCK FALSE
