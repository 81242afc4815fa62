SPECIFICATION LaunchedSpec
CONSTANTS
  Node <- AskingNodes
  Body <- AskingBody
  Scales = {}
  State <- PlanStates
  Initial = "implement"
  Terminal = {"complete"}
  Phases <- PlanPhases
  Transitions <- AskingTransitions
  SetId = {1, 2, 3, 4, 5, 6, 7, 8}
  Sets <- GatedSets
  StateRequires <- AskingStates
  Obligations <- GatedObligations
  Completion = 8
  PrincipleEvidence <- PlanPrincipleEvidence
  PrincipleVerification = {"test-runner"}
  PlanFacts <- NoFacts
  Kind = {"test", "deploy", "approval", "spec"}
  Submissions <- WithPerson
  Graphs <- Situations
  MaxClock = 2
  MaxEvidence = 3
  MaxEntries = 3
  MaxRestores = 0
  None = None
  StepKinds = {"test", "deploy"}
  PersonReviews = {"design-review"}
INVARIANT HeadlessMeetsNobody
CHECK_DEADLOCK FALSE
