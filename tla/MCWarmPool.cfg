SPECIFICATION Spec
CONSTANTS
  Sandboxes = {s1, s2}
  Clients = {c1, c2}
  NoClient = NoClient
  Replicas = {r1, r2}
  NoSandbox = NoSandbox
  Desired = 1
  Concurrency = 1
  SlowPulls = TRUE
  MaxEvents = 1
  MaxClaims = 2
SYMMETRY Symmetry
INVARIANTS TypeOK NoPhantomReservations HandoffExclusive
PROPERTIES HandoffIsFinal
