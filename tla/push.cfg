\* A dispatcher and two retry runs that may die deliver a push to a device that
\* registers anew: what they left behind is settled
SPECIFICATION FairSpec
CONSTANTS
  None = None
  Event = {e1}
  Redelivered = {}
  Dispatcher = {p1}
  Retrier = {r1, r2}
  Device = {1}
  Token = {t1, t2}
  MaxVersion = 2
  MaxAttempts = 3
  Limit = 1
  MaxCrashes = 2
  LongCalls = FALSE
  EffectRank <- MCEffectRank
INVARIANTS RepeatsNeedLoss OnlyRejectedEnds SendsWithinAttempts
PROPERTIES AcceptedStands DeliveriesSettle
CHECK_DEADLOCK FALSE
