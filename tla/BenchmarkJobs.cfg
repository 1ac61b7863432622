\* Two submissions, two resolvers, two hosts, two probes.
CONSTANTS
  Jobs = {j1, j2}
  Servers = 2
  Hosts = 2
  Probes = 2
SPECIFICATION Spec
CHECK_DEADLOCK FALSE
INVARIANTS OneActiveRun ActiveJobIsRegistered ProgressAccounted
PROPERTIES VerdictIsFinal CancelStopsNewWork SlotReleased ImplementsContract
