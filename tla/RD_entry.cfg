SPECIFICATION FairSpec
CONSTANTS
  p = p
  q = q
  r = r
  s = s
  old = old
  new = new
  Nobody = Nobody
  NoResult = NoResult
  Outcomes = {pass}
  Clients = {p, q, r, s}
  Configs = {old, new}
  Caching = {old}
  MaxTries = 2
CHECK_DEADLOCK FALSE
INVARIANTS TypeOK OutputMatches SecondRoundFinds
PROPERTIES StoreContract LookupEnds
