\* One run, no faults: the instruments were not asked for.
SPECIFICATION Spec
CONSTANTS
  j1 = j1
  j2 = j2
  Job = {j1}
  Order <- MCOrder
  Duplicated = {}
  DetResult <- MCDetResult
  AiResult <- MCAiResult
  MaxFaults = 0
  NoReport = NoReport
  NoResult = NoResult
  Nobody = Nobody
INVARIANT AiNeverClears
\* Every job ends.
CHECK_DEADLOCK FALSE
