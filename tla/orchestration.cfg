SPECIFICATION Spec
CONSTANTS
  Tasks = {t1, t2}
  First = t1
  Tags = {"approval", "question", "thinking"}
  Decisions = {"Approved", "Cancelled"}
  Prompts = {p}
  MaxSections = 3
  MaxQueue = 1
  MaxMark = 1
  MaxOps = 5
  Targets = {a, b}
  Cap = 2
  MinDwell = 250
  MaxRaised = 4
INVARIANTS IndexedLog NoSilentApproval RestartExact AttentionKept
PROPERTIES ClosedKept
CHECK_DEADLOCK FALSE
