SPECIFICATION Spec
CONSTANTS
  Controls = {c1, c2}
  None = None
  Stale = Stale
  Ops = {"submit", "read", "refused", "tab"}
  MaxStarts = 2
  MaxCrashes = 1
  MaxConns = 2
  MaxEvents = 3
  SockCap = 1
  ReadMax = 2
  NavCap = 4
  NavMax = 2
  MaxItems = 2
  RespMax = 2
INVARIANTS AnswerWhole StreamWhole RecordedOnce
PROPERTIES WorkerKept ImplementsColdRequest ConnectionsEnd
CHECK_DEADLOCK FALSE
