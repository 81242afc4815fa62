SPECIFICATION FactsSpec
CONSTANTS
  Node = {1, 2, 3, 4, 5, 6, 7, 8, 9, 10, 11, 12, 13, 14, 15, 16, 17, 18}
  Body <- MCBody
  Scales <- MCScales
  Observable <- MCObservable
INVARIANTS RepairingTheCausesSatisfies
PROPERTIES InformationNeverReverses
