\* Listings, matches, handover, notifications and reviews
SPECIFICATION Spec
CONSTANTS
  Blank = Blank
  MaxRestarts = 1
  Texts = {"bags", "books", "endless"}
  TooLong = {"endless"}
  MissingReadable = TRUE
  Persistent = FALSE
  StorageFails = FALSE
  SlowStorage = FALSE
  MaxOps = 4
  MaxStarts = 3
  Shipments <- Parcels
  Journeys <- Flights
  CardChoices <- Cards
  DefaultChoice <- OneBest
  EvidenceSet <- Regulars
  MaxQueries = 2
  MaxChanges = 1
  Routes <- AllRoutes
  ShipmentRoute <- Here
  Windows <- SomeWindows
  Dates <- SomeDates
  Capacities = {1, 3}
  Weight = 2
  Identities = {"unverified", "verified"}
  Filters <- SomeFilters
  Stars = {100, 500}
  MaxCompleted = 3
  MaxCancelled = 1
  MaxReviews = 2
  Trip = {"t1", "t2"}
  Tap = {"p1"}
  MaxRequests = 3
  MaxPresses = 1
  BookingId = {"b1"}
  MaxAttempts = 1
  Booking = "b1"
  Entries = {"entry"}
  Meetings = {"airport"}
  MaxSaves = 1
  Users = {"ann", "ben"}
  Devices = {"phone", "tablet"}
  Owner <- DeviceOwner
  Bookings = {"b1"}
  SenderOf <- ReviewedSender
  TravelerOf <- ReviewedTraveler
  Ratings = {5}
  Sought = {"ben"}
  MaxCrashes = 0
INVARIANTS RecommendedAsFiltered ReconciledAll RequestedOnce ReviewedOnce
PROPERTIES ListedOnce BetterScoresNoLess AgreementKept
CHECK_DEADLOCK FALSE
