\* One tab, so that the liveness check stays small.
CONSTANTS
  Tabs = {t1}
  Grace = 1
  Stale = 1
  Idle = 3
SPECIFICATION Spec
CHECK_DEADLOCK FALSE
PROPERTIES ShutdownEnds EndsWhenAbandoned
