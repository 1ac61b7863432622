CONSTANTS
  Tabs = {t1, t2}
  Grace = 1
  Stale = 2
  Idle = 5
SPECIFICATION HSpec
CONSTRAINT UntilCanceled
SYMMETRY TabSymmetry
CHECK_DEADLOCK FALSE
INVARIANTS QuietClock QuitIsJustified LeavesInTime
