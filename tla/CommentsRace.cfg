CONSTANTS
  d1 = d1  d2 = d2  d3 = d3  summary = summary  line = line
  Workers <- MCWorkers
  Keys <- MCKeys
  KeyOf <- MCKeyOf
  NoKey = NoKey
  Nobody = Nobody
  MaxActive = 2
  RepliesGetLost = FALSE
  Chatter = 0
  PageSize = 4
  MaxRetries = 0
SPECIFICATION Spec
INVARIANTS SingleComment
CHECK_DEADLOCK FALSE
