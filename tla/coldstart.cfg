\* A link that starts the application, opened over an anonymous account
SPECIFICATION Spec
CONSTANTS
  User = {ann, bob}
  Nobody = nobody
  MaxPresses = 1
  MaxSessions = 1
  MaxRestarts = 1
  Email = {"work"}
  NoEmail = "none"
  MaxUid = 2
  MaxLinks = 1
  Device = {"phone", "tablet"}
  DocumentId = {"passport", "licence"}
  MaxDocuments = 1
  MaxEvents = 3
  MaxQueue = 1
  LocalWrite = {"w1", "w2", "w3"}
  \* The third choice is refused: quiet hours that begin when they end.
  Value = {"off", "on", "sameTimes"}
  Default = "off"
  Invalid = {"sameTimes"}
  MaxRequests = 3
  Screens = {"phone", "laptop"}
  Text = {"long"}
  Blank = ""
  MaxTrust = 1
  MaxSignIns = 1
  Grantee = {ann, anon}
  Operator = {"op1", "op2"}
  PasswordUser = {ann}
  MaxCommands = 1
  Visitor = {ann, bob, anon}
  Anonymous = {anon}
  Given = {"user", "moderator"}
  MaxGeneration = 3
  MaxRoleChanges = 1
INVARIANT AccountStays
CHECK_DEADLOCK FALSE
