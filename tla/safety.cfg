\* Two operators race to hold, release and review a shipment its owner edits
SPECIFICATION SafetySpec
CONSTANTS
  sender = sender
  None = None
  User = {sender}
  Shipment = {s1}
  Trip = {}
  Corridor = {c1}
  ShipmentOwner <- MCShipmentOwner
  TripOwner <- MCTripOwner
  Weights = {2}
  Capacities = {}
  MaxContent = 2
  Admin = {a1, a2}
  HoldKey = {k1, k2}
  ReviewKey = {k1, k2}
INVARIANTS OneActiveHold AuditTellsState OneFinalDecision
CHECK_DEADLOCK FALSE
