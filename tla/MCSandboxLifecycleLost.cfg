SPECIFICATION Spec
CONSTANTS
  Sandboxes = {s1}
  Clients = {c1}
  NoClient = NoClient
  NoSandbox = NoSandbox
  Handlers = {h1}
  Maintainers = {m1}
  MaxOps = 2
  MaxFaults = 0
INVARIANTS LostOnlyIfDied
CHECK_DEADLOCK FALSE
