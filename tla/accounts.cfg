\* The user of an installation, and the administrators
SPECIFICATION Spec
CONSTANTS
  User = {ann, bob}
  Nobody = nobody
  MaxPresses = 2
  MaxSessions = 3
  MaxRestarts = 1
  Email = {work, home}
  NoEmail = none
  MaxUid = 3
  MaxLinks = 2
  Device = {"phone", "tablet"}
  DocumentId = {"passport", "licence"}
  MaxDocuments = 2
  MaxEvents = 9
  MaxQueue = 2
  LocalWrite = {"w1", "w2", "w3"}
  \* The third choice is refused: quiet hours that begin when they end.
  Value = {"off", "on", "sameTimes"}
  Default = "off"
  Invalid = {"sameTimes"}
  MaxRequests = 9
  Screens = {"phone", "laptop"}
  Text = {"long"}
  Blank = ""
  MaxTrust = 1
  MaxSignIns = 3
  Grantee = {ann, anon}
  Operator = {"op1", "op2"}
  PasswordUser = {ann}
  MaxCommands = 2
  Visitor = {ann, bob, anon}
  Anonymous = {anon}
  Given = {"user", "moderator"}
  MaxGeneration = 7
  MaxRoleChanges = 2
SYMMETRY EmailSymmetry
INVARIANTS AccountKept SyncTold OldRolesRevoked ConsoleAfterFreshRole SmokeLeavesNothing
PROPERTIES SignedOutClean ReviewedAsSubmitted OwnDataStored
CHECK_DEADLOCK FALSE
