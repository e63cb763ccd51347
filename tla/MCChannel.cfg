\* Three clients, every job, the daemon's thread scheduled fairly.
SPECIFICATION OrderedSpec
CONSTANTS
  c1 = c1
  c2 = c2
  c3 = c3
  Clients <- ThreeClients
  Nobody = Nobody
  Jobs = {"command", "endless", "kill", "restart", "start", "status"}
INVARIANTS
  Accounted
  GoneForAReason
PROPERTIES
  QueueSpec
  CommandServed
CHECK_DEADLOCK FALSE
