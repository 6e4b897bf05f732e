\* Every order; the poster and the report written by two runs; one fault.
SPECIFICATION FairSpec
CONSTANTS
  j1 = j1
  j2 = j2
  Job = {j1, j2}
  Order <- MCOrder
  Duplicated <- MCDuplicated
  DetResult <- MCDetResult
  AiResult <- MCAiResult
  MaxFaults = 1
  NoReport = NoReport
  NoResult = NoResult
  Nobody = Nobody
INVARIANT InstrumentsDecide
INVARIANT ManifestIsExact
INVARIANT DocumentsAgree
PROPERTY EveryJobDelivers
\* Every job ends.
CHECK_DEADLOCK FALSE
