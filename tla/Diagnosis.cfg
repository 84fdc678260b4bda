CONSTANTS
  Bare <- MCBare
  Backslashed <- MCBackslashed
  MinusLike <- MCMinusLike
  PlusLike <- MCPlusLike
  PlusPlus <- MCPlusPlus
  Ignoring <- MCIgnoring
  Repaired <- MCRepaired
  NoisyStages <- MCNoisyStages
  Logs <- MCLogs
  Comparisons <- MCComparisons
  Settings <- MCSettings
  Proposals <- MCProposals
  MaxRetries = 1
  MaxAttempts = 2
  MinComment = 5000
SPECIFICATION FairSpec
INVARIANTS
  TypeOK GivesUpOnlyAfterRetries ConfidentMeansChanged RecoversChangedFiles
  EvidenceIsPrinted InlineLandsOnShownLine PatchIsHonest RefusalsExplained FallsBack
PROPERTIES ImplementsAnalysis DiagnosisEnds
CHECK_DEADLOCK FALSE
