SPECIFICATION FairSpec
CONSTANTS
  Sandboxes = {s1}
  Clients = {c1}
  NoClient = NoClient
  NoSandbox = NoSandbox
  Handlers = {h1}
  Maintainers = {m1}
  MaxOps = 3
  MaxFaults = 2
PROPERTIES DeadIsNoticed LeaseEnforced AbandonedIsReclaimed
CHECK_DEADLOCK FALSE
