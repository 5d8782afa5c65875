SPECIFICATION Spec
CONSTANTS
  Sandboxes = {s1, s2, s3}
  Clients = {c1}
  NoClient = NoClient
  Replicas = {r1}
  NoSandbox = NoSandbox
  Desired = 2
  Concurrency = 1
  SlowPulls = FALSE
  MaxEvents = 0
  MaxClaims = 0
INVARIANTS ReadyRowsBootstrapped
