\* What users wait for comes to an end
SPECIFICATION FairSpec
CONSTANTS
  ann = ann
  bob = bob
  anon = anon
  nobody = nobody
PROPERTIES WaitsEnd ReviewsGetCounted
CHECK_DEADLOCK FALSE
