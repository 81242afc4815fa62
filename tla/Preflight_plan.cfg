SPECIFICATION LaunchedSpec
CONSTANTS
  Node <- AskingNodes
  Body <- AskingBody
  Scales = {}
  State <- PlanStates
  Initial = "implement"
  Terminal = {"complete"}
  Phases <- PlanPhases
  Transitions <- AskingTransitions
  SetId = {1, 2, 3, 4, 5, 6, 7, 8}
  Sets <- AskingSets
  StateRequires <- AskingStates
  Obligations <- AskingObligations
  Completion = 8
  PrincipleEvidence <- AskingPrinciples
  PrincipleVerification = {"test-runner"}
  PlanFacts <- NoFacts
  Kind = {"test", "deploy", "approval", "spec"}
  Submissions <- WithPerson
  Graphs <- Situations
  MaxClock = 1
  MaxEvidence = 3
  MaxEntries = 3
  MaxRestores = 0
  None = None
  StepKinds = {"test", "deploy"}
  PersonReviews = {"design-review"}
INVARIANTS DemandsBlock RefusalsAreReal ScanIsComplete
CHECK_DEADLOCK FALSE
