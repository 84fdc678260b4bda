CONSTANTS
  d1 = d1  d2 = d2
  Deliveries <- MCDeliveries
  Events <- MCEvents
  Async = FALSE
  Surfaces <- Everywhere
  Findings <- MCFindings
  Nobody = Nobody
SYMMETRY Interchangeable
SPECIFICATION Spec
INVARIANTS OkMeansCompleted
CHECK_DEADLOCK FALSE
