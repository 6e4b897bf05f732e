\* The development stack's inline trigger; three uploads against a ceiling of
\* one, so that two initiates at once overshoot it; one fault.
SPECIFICATION FairSpec
CONSTANTS
  Transfer = {t1, t2, t3}
  Session = {s1}
  Request = {r1, r2}
  Choice <- OneChoice
  Oversized = {}
  Deploy <- MCDeploy
  MaxActive = 1
  MaxJobs = 2
  MaxDaily = 3
  MaxFaults = 1
  DevTrigger = TRUE
  NoRow = NoRow
  NoTransfer = NoTransfer
  NoSession = NoSession
  NoChoice = NoChoice
INVARIANT ExposureBounded
PROPERTY UnfaultedCompletes
\* Nothing has to happen once every upload has ended.
CHECK_DEADLOCK FALSE
