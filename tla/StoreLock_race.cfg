SPECIFICATION Spec
CONSTANTS
  p1 = p1
  p2 = p2
  p3 = p3
  Proc = {p1, p2, p3}
  Resuming = {p1}
  Forcing = {p2}
  Host <- OneHost
  ProcFs = {"here"}
  MaxRun = 4
  NoFile = NoFile
  Empty = Empty
  Garbled = Garbled
  NoRun = NoRun
  NoCursor = NoCursor
  Nobody = Nobody
  Lost = Lost
CHECK_DEADLOCK FALSE
INVARIANT OneDriver
