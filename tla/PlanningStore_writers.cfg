SPECIFICATION Spec
CONSTANTS
  ArtifactId <- MCArtifactId
  Kind <- MCKind
  Parent <- MCParent
  Lifecycles <- MCLifecycles
  Fallback = {}
  Relation <- MCRelation
  NoVersion = NoVersion
  KindOf <- MCKindOf
  MaxRevision = 3
  Process = {p1, p2}
  Jobs <- MCJobs
  Apart = TRUE
  NoFile = NoFile
  Torn = Torn
SYMMETRY Symmetry
INVARIANTS BrokenReadsMissedADocument
PROPERTY ImplementsPlan
CHECK_DEADLOCK FALSE
