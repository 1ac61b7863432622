\* Two submissions and one click on Cancel; every request is answered,
\* nobody shuts down.
CONSTANTS
  MaxRuns = 2
  Cancels = {c1}
  MaxTroubles = 1
SPECIFICATION HSpec
CHECK_DEADLOCK FALSE
CONSTRAINT Undisturbed
PROPERTIES CancelWhileWatched
