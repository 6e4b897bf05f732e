\* The stronger promise of the documentation, which does not hold.
SPECIFICATION Spec
CONSTANTS
  m1 = m1
  m2 = m2
  e1 = e1
  e2 = e2
  image = image
  caption = caption
  Model = {m1, m2}
  NoModel = NoModel
  Foreign = Foreign
  NoSource = NoSource
  Evidence = {e1, e2}
  Risk <- MCRisk
  Rule <- MCRule
  Reported <- MCReported
  Answer <- MCAnswer
  Config <- MCConfig
  MaxAttempts = 2
INVARIANT ProviderFailureNeverReady
\* Every run ends.
CHECK_DEADLOCK FALSE
