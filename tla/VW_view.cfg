SPECIFICATION Spec
CONSTANTS
  a = a
  b = b
  Commit <- MCCommit
  Ranges <- MCRanges
  First <- MCFirst
  Invalid = Invalid
  Unread = Unread
  Starting = Starting
  Browser = {w}
  MaxChanges = 2
  MaxNoise = 1
  MaxRevs = 1
  Cap = 1
INVARIANTS
  NoUpdateMissed
  StatusFollows
  BrowserCurrent
PROPERTIES RangeFollows
