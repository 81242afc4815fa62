SPECIFICATION Spec
CONSTANTS
  Request <- MCRequest
  Declared <- MCDeclared
  Floor <- MCFloor
  Principle <- MCPrinciple
  Chains <- MCChains
  Tasks <- MCTasks
  State <- MCState
  Initial = "build"
  None = None
INVARIANTS DeniedStaysDenied NothingGatedWithoutApproval PlanKeepsTheFloor
PROPERTIES ApprovalOpensWhatItNames
CHECK_DEADLOCK FALSE
