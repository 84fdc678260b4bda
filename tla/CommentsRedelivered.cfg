CONSTANTS
  d1 = d1  d2 = d2  d3 = d3  summary = summary  line = line
  Workers <- MCWorkers
  Keys <- MCKeys
  KeyOf <- MCKeyOf
  NoKey = NoKey
  Nobody = Nobody
  MaxActive = 1
  RepliesGetLost = TRUE
  Chatter = 1
  PageSize = 4
  MaxRetries = 1
SPECIFICATION FairSpec
INVARIANTS DuplicatesHaveOneAuthor
PROPERTIES KeepsOneNote UpsertEnds
CHECK_DEADLOCK FALSE
