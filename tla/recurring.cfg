SPECIFICATION Spec
CONSTANTS
  Months = 4
  FirstDay <- SmallCalendar
  Week = 2
  Plans <- ThePlans
  Rejections = {"AML_BLOCK"}
  Threshold = 2
  MaxRetries = 1
  Funds = 1
  Time = {0, 3, 9}
  Start = 0
  MaxCalls = 2
  MaxRuns = 2
  MaxJobs = 2
  MaxFaults = 1
INVARIANTS TypeOK PaidAsRecorded OncePerSlot LocalEndIsTrue ActiveBelowThreshold
PROPERTIES EndIsFinal DueRunsHappen
CHECK_DEADLOCK FALSE
