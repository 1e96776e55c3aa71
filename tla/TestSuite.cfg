CONSTANTS
  None = None
  N = 2
  Langs = {"zig", "py", "c", "rust", "go", "ts"}
  Lookups <- MCLookups
  Writes = 2
  Keep = 2
SPECIFICATION SuiteSpec
INVARIANTS OneResultPerTest TimedOutSuiteIsWhole FailureIsExplained SummaryAgrees
CHECK_DEADLOCK FALSE
