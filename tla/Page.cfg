\* Two submissions; one cancel request under way at a time.
CONSTANTS
  MaxRuns = 2
  Cancels = {c1}
  MaxTroubles = 2
SPECIFICATION HSpec
CHECK_DEADLOCK FALSE
INVARIANTS TypeOK ReportIsGenuine ButtonsAtRest OnlyMishapsMislead
PROPERTIES ConsentGiven RunReturns
