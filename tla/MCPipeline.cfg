CONSTANTS
  a = "log_ingest"  b = "fix_planner"  c = "reporter"
  Names <- AgentNames
  Plans <- MCPlans
SPECIFICATION FairSpec
INVARIANTS
  TypeOK SettledSoundly SkipsTraceToFailure StuckNeverRuns VerdictTruthful
  CallsBounded OrderIsReference ReadsOfCompleted FailedMeansNothingIngested
PROPERTIES
  FailFastStops Terminates RunsTheDag
CHECK_DEADLOCK FALSE
