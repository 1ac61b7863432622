\* One submission, one resolver, one host, two probes.
CONSTANTS
  Jobs = {j1}
  Servers = 1
  Hosts = 1
  Probes = 2
SPECIFICATION Spec
CHECK_DEADLOCK FALSE
PROPERTIES CancelAnyTime
