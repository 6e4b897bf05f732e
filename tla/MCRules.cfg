\* Every rule on a set of inputs that reaches its branches.
SPECIFICATION Spec
CONSTANTS
  image = image
  NoSource = NoSource
  Raised = Raised
  Unread = Unread
  Failed = Failed
  Malformed = Malformed
  Blank = Blank
  NoJuror = NoJuror
  MaxCrops = 4
  Risk <- MCRisk
  Rule <- MCRule
  Catalog <- MCCatalog
  PlanInput <- MCPlanInput
  ReportInput <- MCReportInput
  JudgeInput <- MCJudgeInput
  AssetInput <- MCAssetInput
  FrameInput <- MCFrameInput
  RawBodies <- MCRawBodies
INVARIANT ContinuityIsSampled
INVARIANT InstrumentsOutrankModels
INVARIANT SilenceClearsNothing
INVARIANT OnlySupportedRejects
INVARIANT SuspicionSurvives
INVARIANT SamplesStayInside
INVARIANT WithheldNeverRuns
INVARIANT GateAgreesWithWorker
INVARIANT ToldExactlyTheLoss
INVARIANT NothingAdded
\* A rule is applied once.
CHECK_DEADLOCK FALSE
