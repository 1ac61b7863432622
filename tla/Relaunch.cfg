\* Three launches: one that crashes, its successor, one that is denied.
CONSTANTS
  Procs = {p1, p2, p3}
  NoProc = NoProc
SPECIFICATION Spec
SYMMETRY LaunchSymmetry
CHECK_DEADLOCK FALSE

PROPERTIES RelaunchOpensRunning
