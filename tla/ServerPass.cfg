\* Two workers, three hosts: hosts outnumber workers, so that requests wait,
\* and workers can still be busy when the caller collects.
CONSTANTS
  w1 = w1
  w2 = w2
  Workers <- MCWorkers
  Size <- MCSize
  Hosts = 3
SPECIFICATION Spec
INVARIANTS NeverBlocked ExactlyOnce PassIsolation
PROPERTIES PassReturns WorkersExit ImplementsContract
