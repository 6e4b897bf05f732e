\* Notifications from the store; one fault at any point.
SPECIFICATION Spec
CONSTANTS
  Transfer = {t1, t2}
  Session = {s1, s2}
  Request = {r1, r2}
  Choice <- MCChoice
  Oversized = {t2}
  Deploy <- MCDeploy
  MaxActive = 1
  MaxJobs = 2
  MaxDaily = 3
  MaxFaults = 1
  DevTrigger = FALSE
  NoRow = NoRow
  NoTransfer = NoTransfer
  NoSession = NoSession
  NoChoice = NoChoice
SYMMETRY Symmetric
INVARIANT OneAssembler
INVARIANT WriteOrder
PROPERTY FirstCallWins
PROPERTY JobsFollowTheRecord
\* Nothing has to happen once every upload has ended.
CHECK_DEADLOCK FALSE
