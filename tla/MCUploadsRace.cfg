\* No faults: the interleaving alone is enough.
SPECIFICATION Spec
CONSTANTS
  Transfer = {t1}
  Session = {s1}
  Request = {r1}
  Choice <- MCChoice
  Oversized = {}
  Deploy <- MCDeploy
  MaxActive = 1
  MaxJobs = 2
  MaxDaily = 3
  MaxFaults = 0
  DevTrigger = FALSE
  NoRow = NoRow
  NoTransfer = NoTransfer
  NoSession = NoSession
  NoChoice = NoChoice
INVARIANT AllOffMeansNoJob
\* Nothing has to happen once every upload has ended.
CHECK_DEADLOCK FALSE
