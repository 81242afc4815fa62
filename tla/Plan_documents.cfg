SPECIFICATION PlanSpec
CONSTANTS
  ArtifactId <- MCArtifactId
  Kind <- MCKind
  Parent <- MCParent
  Lifecycles <- MCLifecycles
  Fallback = {}
  Relation <- MCRelation
  NoVersion = NoVersion
  KindOf <- MCKindOf
  NewEdges <- MCNewEdges
  Requirements <- MCRequirements
  Reviews <- MCReviews
  MaxRevision = 4
  MaxReviews = 1
INVARIANTS StatusesStayDeclared FactsAgreeWithRequirements
PROPERTIES ContradictionNeedsNewWork ChangeEndsReview OnlyNewBreaksThePlan
CHECK_DEADLOCK FALSE
