\* The inputs of MCRules: the sweep over budget.
SPECIFICATION Spec
CONSTANTS
  image = image
  NoSource = NoSource
  Raised = Raised
  Unread = Unread
  Failed = Failed
  Malformed = Malformed
  Blank = Blank
  NoJuror = NoJuror
  MaxCrops = 4
  Risk <- MCRisk
  Rule <- MCRule
  Catalog <- MCCatalog
  PlanInput <- MCPlanInput
  ReportInput <- MCReportInput
  JudgeInput <- MCJudgeInput
  AssetInput <- MCAssetInput
  FrameInput <- MCFrameInput
  RawBodies <- MCRawBodies
INVARIANT AnchorsRetained
\* A rule is applied once.
CHECK_DEADLOCK FALSE
