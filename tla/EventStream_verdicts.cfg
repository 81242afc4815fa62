SPECIFICATION Spec
CONSTANTS
  Absent = Absent
  Calls <- AllCalls
  Results <- SomeResults
  Documents <- AllDocuments
  MaxEvents = 4
  MaxUnread = 1
  MaxListed = 2
  MaxLate = 1
INVARIANTS
  UnreadNeverTurnsAVerdict
  EvidenceIsEarned
  DenialsAddUp
PROPERTY
  VerdictsUnderDoubtAreFinal
CHECK_DEADLOCK FALSE
