CONSTANTS
  Bare <- MCBare
  Backslashed <- MCBackslashed
  MinusLike <- MCMinusLike
  PlusLike <- MCPlusLike
  PlusPlus <- MCPlusPlus
  Ignoring <- MCIgnoring
  Repaired <- MCRepaired
  NoisyStages <- MCNoisyStages
  Logs <- MCLogs
  Comparisons <- MCComparisons
  Settings <- MCSettings
  Proposals <- MCProposals
  MaxRetries = 1
  MaxAttempts = 2
  MinComment = 5000
SPECIFICATION Spec
INVARIANT ExhaustionReported
CHECK_DEADLOCK FALSE
