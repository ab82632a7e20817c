SPECIFICATION Spec
CONSTANTS
  p = p
  q = q
  r = r
  s = s
  old = old
  new = new
  Nobody = Nobody
  NoResult = NoResult
  Outcomes = {pass, fail}
  Clients = {p, q, s}
  Configs = {old, new}
  Caching = {old, new}
  MaxTries = 5
CHECK_DEADLOCK FALSE
INVARIANTS OutputMatchesAlways
