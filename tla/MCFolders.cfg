\* One path sent twice, two requests, seals with and without a password.
SPECIFICATION FairSpec
CONSTANTS
  Path = {p1}
  Member = {m1, m2}
  Request = {r1, r2}
  Password = {w1}
  Deploy <- MCDeploy
  NoMember = NoMember
  NoPath = NoPath
  NoPassword = NoPassword
  NoRow = NoRow
INVARIANT EveryPathWasSent
PROPERTY SealedTermsFixed
PROPERTY QcOnlyByOvertaking
PROPERTY PurgeSparesLiveFolder
PROPERTY EveryMemberReclaimed
\* Nothing has to happen once the folder's files are gone.
CHECK_DEADLOCK FALSE
