SPECIFICATION Spec
CONSTANTS
  Sandboxes = {s1}
  Clients = {c1}
  NoClient = NoClient
  NoSandbox = NoSandbox
  Handlers = {h1, h2}
  Maintainers = {m1}
  MaxOps = 3
  MaxFaults = 2
SYMMETRY Symmetry
INVARIANTS NoSilentOrphan
PROPERTIES DeletionFinal
CHECK_DEADLOCK FALSE
