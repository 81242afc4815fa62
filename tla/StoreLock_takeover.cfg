SPECIFICATION AtomicTakeoverSpec
CONSTANTS
  p1 = p1
  p2 = p2
  p3 = p3
  Proc = {p1, p2, p3}
  Resuming = {p1}
  Forcing = {p2, p3}
  Host <- TwoHosts
  ProcFs = {"here"}
  MaxRun = 4
  NoFile = NoFile
  Empty = Empty
  Garbled = Garbled
  NoRun = NoRun
  NoCursor = NoCursor
  Nobody = Nobody
  Lost = Lost
CHECK_DEADLOCK FALSE
INVARIANT OneDriver
INVARIANT LockNamesDriver
PROPERTY DirectoryNeverReused
PROPERTY StolenFromTheDead
PROPERTY ImplementsMutex
