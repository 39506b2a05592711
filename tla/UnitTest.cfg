CONSTANTS
  NFixtures = 2
  NTests = 2
  NGroups = 2
  NCases = 2
  MaxFailures = 2
SPECIFICATION SuiteSpec
INVARIANTS
  ReportedOnce
  SuiteSound
CHECK_DEADLOCK FALSE
