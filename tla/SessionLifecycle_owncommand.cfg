CONSTANTS
  parent = parent
  tip = tip
  Sid = {parent, tip, n1}
  Live = {l1, l2}
  Rec = {o1, o2}
  Req = {r1, r2}
  None = None
  Foreign = Foreign
  OldRows <- MCOldRows
  TipOf <- MCTipOf
  Habits = {"command"}
  Faults = {"own"}
SPECIFICATION Spec
SYMMETRY Symmetry
INVARIANT
  NoTurnOnClosing
