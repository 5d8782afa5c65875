SPECIFICATION Spec
CONSTANTS
  Gateways = {g1}
  None = None
  Direct = {}
  Stream = {s1}
  E2b = {e1}
  Base = {b1}
  Asked = {}
  Workers = {w1}
  RegistryOn = TRUE
  OneAtATime = FALSE
  MaxRequests = 2
  MaxImages = 2
  MaxFaults = 1
 
PROPERTIES PruneSparesReferenced
CHECK_DEADLOCK FALSE
