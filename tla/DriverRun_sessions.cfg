SPECIFICATION FairSpec
CONSTANTS
  State <- PlanStates
  Initial = "work"
  Terminal = {"done"}
  Transitions <- PlanTransitions
  Completion <- PlanCompletion
  Kind = {"test"}
  Steps <- PlanSteps
  VisitBudget <- PlanVisits
  MaxIterations = 10
  Pausing = {1, 2}
  Editable = {"workflow"}
  Nothing = Nothing
  MaxSessions = 3
  MaxCrashes = 1
  RanCap = 2
INVARIANTS StepsWithinVisitBudget DuplicatesBoundedByCrashes
PROPERTIES AskedOnce SessionEnds ImplementsTask
CHECK_DEADLOCK FALSE
