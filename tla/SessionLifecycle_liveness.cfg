CONSTANTS
  parent = parent
  tip = tip
  Sid = {tip}
  Live = {l1, l2}
  Rec = {o1, o2}
  Req = {r1, r2}
  None = None
  Foreign = Foreign
  OldRows <- MCTipRow
  TipOf <- MCSelfTip
  Habits = {}
  Faults = {"close", "lost", "reclaim", "own", "keyless"}
SPECIFICATION FairSpec
PROPERTY RequestsAnswered
