CONSTANTS
  d1 = d1  d2 = d2  d3 = d3  summary = summary  line = line
  Workers <- MCWorkers
  Keys <- MCKeys
  KeyOf <- MCKeyOf
  NoKey = NoKey
  Nobody = Nobody
  MaxActive = 3
  RepliesGetLost = TRUE
  Chatter = 1
  PageSize = 2
  MaxRetries = 1
SPECIFICATION Spec
INVARIANTS TypeOK FloodBounded PostedMeansWritten
PROPERTIES OthersUntouched
CHECK_DEADLOCK FALSE
