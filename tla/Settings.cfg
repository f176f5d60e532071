CONSTANTS
  s1 = s1
  s2 = s2
  r1 = r1
  r2 = r2
  cheap = cheap
  dear = dear
  alias = alias
  None = None
  Session = {s1, s2}
  Standing = {s2}
  Req = {r1, r2}
  Asks <- MCAsks
  Starts <- MCStarts
  Model = {cheap, dear}
  Expensive = {dear}
  Spelling = {cheap, dear, alias}
  CanonicalOf <- MCCanonicalOf
  Habits = {}
SPECIFICATION Spec
CHECK_DEADLOCK FALSE
INVARIANTS
  TypeOK
  ShownIsEffective
  NoUnconfirmedModel
