SPECIFICATION Spec
CONSTANTS
  Node <- PlanNodes
  Body <- PlanBody
  Scales = {}
  State <- PlanStates
  Initial = "implement"
  Terminal = {"complete"}
  Phases <- PlanPhases
  Transitions <- PlanTransitions
  SetId = {1, 2, 3, 4, 5}
  Sets <- TheSets
  StateRequires <- PlanStateRequires
  Obligations <- PlanObligations
  Completion = 4
  PrincipleEvidence <- PlanPrincipleEvidence
  PrincipleVerification = {"test-runner"}
  PlanFacts <- NoFacts
  Kind = {"test", "deploy"}
  Submissions <- AllRuns
  Graphs <- OneGraph
  MaxClock = 4
  MaxEvidence = 2
  MaxEntries = 4
  MaxRestores = 0
  None = None
INVARIANTS GatesStandOnLiveEvidence MissingAgreesWithTheReport
PROPERTIES TimeOpensNothing ResubmissionRestoresNothing
CHECK_DEADLOCK FALSE
