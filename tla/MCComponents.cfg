SPECIFICATION Spec
CONSTANTS
  None = None
  NoSandbox = s2
  Nobody = q1
  Replicas = {r1, r2}
  PoolReplicas = {r1}
  Gateways = {g1, g2}
  Callers = {t1, t2}
  Workers = {r1}
  Handlers = {t1, t2}
  Maintainers = {r1}
  Writers = {t1, t2}
  Sandboxes = {s1, s2}
  Documents = {s1}
  Sources = {s1}
  Names = {s1}
  Addresses = {i1}
  Clients = {q1, q2}
  Owners = {q1}
  ApiRequests = {q1, q2}
  GuestRequests = {q1}
  Agents = {q1, q2}
  Streams = {q1, q2}
  Handles = {q1, q2}
  Shells = {s1}
  Terminals = {s2}
  Tokens = {i1}
  Refs = {i1, i2}
  PoolImages = {i1, i2}
  Labels = {i1, i2}
  Tags = {i1}
  DockerNames = {s1, s2}
  Literals = {i1, i2}
  DirectBuilds = {q1, q2}
  AskedTags = {i2}
  Stream = {}
  E2b = {}
  Modes = {"r", "a", "w"}
  Odd = {2}
  Registry = TRUE
  RegistryOn = TRUE
  OneAtATime = FALSE
  TTL = 2
  LeaseTTL = 3
  LockTTL = 5
  LeaseRefresh = 1
  ConfigSize = 1
  MaxSize = 2
  Concurrency = 1
  Hops = 2
  Tries = 2
  MaxTries = 2
  Chunks = 2
  MaxFaults = 2
  FewFaults = 1
  MaxCall = 2
  MaxTime = 4
  MaxLook = 1
  MaxOps = 1
  MaxMoves = 2
  MaxRequests = 2
  MoreRequests = 3
  MaxRestarts = 1
  MaxCrashes = 1
  MaxPids = 2
  MaxAsked = 1
  MaxSent = 2
  MaxEdits = 2
  MaxTyped = 2
  MaxOthers = 1
  MaxChunks = 1
  MaxLines = 2
  MaxImages = 2
  MaxSets = 2
  MaxWrites = 2
  MaxSaves = 1
INVARIANT TypesOK
INVARIANT RevocationHolds
INVARIANT NormalEndIsWhole
INVARIANT ReachesItsOwn
INVARIANT ReadyWasSeen
INVARIANT LeavesNoShell
INVARIANT ContextIsWhole
INVARIANT ShownAsSaid
INVARIANT SnapshotsRestorable
INVARIANT BuiltAsWritten
INVARIANT OneLoop
INVARIANT LeadersExclusive
INVARIANT SingleRunHonest
INVARIANT NoLeftovers
INVARIANT StreamsWhole
PROPERTY SessionsKept
PROPERTY FilesAsTold
PROPERTY HandedOutOnce
CHECK_DEADLOCK FALSE
