\* Four launches: one that crashes, one that succeeds it, two that are denied.
CONSTANTS
  Procs = {p1, p2, p3, p4}
  NoProc = NoProc
SPECIFICATION Spec
SYMMETRY LaunchSymmetry
CHECK_DEADLOCK FALSE
INVARIANTS SingleInstance
PROPERTIES FileKeepsServer 
