SPECIFICATION Spec
CONSTANTS
  Gateways = {g1}
  None = None
  Direct = {d1}
  Stream = {}
  E2b = {}
  Base = {b1}
  Asked = {}
  Workers = {w1}
  RegistryOn = TRUE
  OneAtATime = TRUE
  MaxRequests = 2
  MaxImages = 3
  MaxFaults = 0
INVARIANT LastRegistrationCounts
CHECK_DEADLOCK FALSE
