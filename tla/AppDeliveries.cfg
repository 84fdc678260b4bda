CONSTANTS
  d1 = d1  d2 = d2
  Deliveries <- MCDeliveries
  Events <- MCEvents
  Async = TRUE
  Surfaces <- Everywhere
  Findings <- MCFindings
  Nobody = Nobody
SPECIFICATION FairSpec
INVARIANTS TypeOK OnlyFailuresAnswered OkMeansDelivered
PROPERTIES AcceptedEnds ImplementsDelivery
CHECK_DEADLOCK FALSE
