CONSTANTS
  Managers = {m1, m2}
  Requests = {r1}
  MaxCrashes = 1
  None = None
SPECIFICATION FairSpec
INVARIANTS
  OneWatchdog
  NoLostWakeup
  LeaderServes
PROPERTY RequestsAnswered
