SPECIFICATION SeedSpec
CONSTANTS
  Envelope <- Everything
  Seeded <- MCSeeded
  NoAnswer = NoAnswer
  MaxAudit = 4
  Callers <- Usual
  Manifests <- Corrected
  MaxRuns = 2
INVARIANTS
  HistoryAccountsForRevisions
  AuditTellsTheHistory
  SeededIsTheManifest
PROPERTIES
  RecordsKeepTheirWords
  ImplementsContract
CHECK_DEADLOCK FALSE
