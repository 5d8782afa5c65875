SPECIFICATION FairSpec
CONSTANTS
  Sandboxes = {s1, s2, s3}
  Clients = {c1}
  NoClient = NoClient
  Replicas = {r1}
  NoSandbox = NoSandbox
  Desired = 1
  Concurrency = 1
  SlowPulls = FALSE
  MaxEvents = 1
  MaxClaims = 1
INVARIANTS OverProvisionBounded
PROPERTIES Converges
