CONSTANTS
  parent = parent
  tip = tip
  Sid = {parent, tip, n1}
  Live = {l1, l2}
  Rec = {o1, o2}
  Req = {r1, r2}
  None = None
  Foreign = Foreign
  OldRows <- MCOldRows
  TipOf <- MCTipOf
  Habits = {}
  Faults = {"close", "lost", "own", "keyless"}
SPECIFICATION Spec
SYMMETRY Symmetry
INVARIANTS
  IndexConsistent
  TurnInv
  PromptsKeepTheirSession
  TurnsAreRoutable
  OneTurnPerSession
  ForkExcludesTurns
  FlagsMatchRequests
