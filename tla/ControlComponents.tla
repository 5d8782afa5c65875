------------------------- MODULE ControlComponents --------------------------
(***************************************************************************)
(* Components of the control plane: keys, rows on MongoDB, snapshots, the  *)
(* pool's segments, the leader's lease, uploads, Dockerfiles, and the      *)
(* sandboxes and toolbox sessions of the Daytona API.                      *)
(***************************************************************************)
EXTENDS Components

cache == x1
store == x1
children == x1
source == x1
pc == x1
pool == x1
meta == x2
call == x2
th == x2
handoffs == x3
image == x3
mongo == x3
lock == x4
restarts == x4
chunk == x4
rows == x4
said == x4
pushed == x4
requests == x4
spoilt == x5
moves == x5
old == x5
desired == x5
lease == x5
look == x6
task == x6
lines == x6
loops == x6
conn == x6
revoking == x7
from == x7
given == x7
holder == x7
belief == x7
since == x8
prune == x8
args == x8
crashes == x8
accepted == x9
env == x9
overlap == x10
context == x10
cleared == x11

Keys == INSTANCE ApiKeys WITH Threads <- Callers
Toolbox == INSTANCE ToolboxSessions WITH MaxRequests <- MoreRequests
Context == INSTANCE BuildContext
Mongo == INSTANCE MongoRows WITH Sandboxes <- Documents, Threads <- Callers
Daytona == INSTANCE DaytonaSandboxes WITH MaxFaults <- FewFaults, Requests <- ApiRequests
Snap == INSTANCE Snapshots
Docker == INSTANCE ParsedDockerfile WITH Names <- DockerNames
Pool == INSTANCE PoolSegments WITH
  Replicas <- PoolReplicas, Images <- PoolImages, Requests <- ApiRequests
Lease == INSTANCE LeaderLease WITH Gone <- Nobody, Refresh <- LeaseRefresh
=============================================================================
