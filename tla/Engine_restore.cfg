SPECIFICATION Spec
CONSTANTS
  Node <- PlanNodes
  Body <- PlanBody
  Scales = {}
  State <- PlanStates
  Initial = "implement"
  Terminal = {"complete"}
  Phases <- PlanPhases
  Transitions <- PlanTransitions
  SetId = {1, 2, 3, 4, 5}
  Sets <- TheSets
  StateRequires <- PlanStateRequires
  Obligations <- PlanObligations
  Completion = 4
  PrincipleEvidence <- PlanPrincipleEvidence
  PrincipleVerification = {"test-runner"}
  PlanFacts <- NoFacts
  Kind = {"test", "deploy"}
  Submissions <- SuiteRuns
  Graphs <- Risks
  MaxClock = 4
  MaxEvidence = 1
  MaxEntries = 4
  MaxRestores = 1
  None = None
INVARIANTS EntryPointsReadTheClock
CHECK_DEADLOCK FALSE
