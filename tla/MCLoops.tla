------------------------------ MODULE MCLoops -------------------------------
(***************************************************************************)
(* The components that have loops or calls which must come to an end, each *)
(* on a small instance of its own.  A behaviour of this module is a        *)
(* behaviour of one of them, named by which; its variables are the first   *)
(* of x1, x2, ... in the order in which its module declares them.          *)
(***************************************************************************)
EXTENDS Naturals

CONSTANTS
  None, a1, i1, i2, q1, q2, r1, r2

VARIABLES
  which,  \* the component that moves
  x1, x2, x3, x4, x5, x6, x7, x8, x9, x10, x11, x12, x13, x14

vars == <<which, x1, x2, x3, x4, x5, x6, x7, x8, x9, x10, x11, x12, x13, x14>>

Pool == INSTANCE PoolSegments WITH
  Replicas <- {r1}, Requests <- {q1}, Images <- {i1, i2}, MaxSize <- 2, ConfigSize <- 1,
  MaxRequests <- 3, MaxCrashes <- 1,
  desired <- x1, image <- x2, pool <- x3, loops <- x4, holder <- x5, th <- x6,
  requests <- x7, crashes <- x8
Lease == INSTANCE LeaderLease WITH
  Replicas <- {r1, r2}, Gone <- q1, LeaseTTL <- 3, LockTTL <- 5, Refresh <- 1,
  MaxCall <- 2, MaxFaults <- 1,
  mongo <- x1, lease <- x2, lock <- x3, conn <- x4, call <- x5, belief <- x6, faults <- x7
Agent == INSTANCE AgentRuntime WITH
  Agents <- {a1},
  spawn <- x1, loop <- x2, state <- x3, single <- x4, stop <- x5, runs <- x6, raised <- x7,
  early <- x8, registered <- x9, killing <- x10, sandbox <- x11, listed <- x12,
  process <- x13
Envd == INSTANCE EnvdProcess WITH
  Streams <- {q1}, MaxChunks <- 1,
  isPty <- x1, written <- x2, shut <- x3, emitted <- x4, reading <- x5, exited <- x6,
  waiter <- x7, history <- x8, kind <- x9, at <- x10, upto <- x11, sent <- x12,
  queue <- x13, joined <- x14
Image == INSTANCE TemplateImages WITH
  Gateways <- {i1}, Direct <- {q1}, Stream <- {}, E2b <- {}, Base <- {}, Asked <- {},
  Workers <- {r1}, RegistryOn <- TRUE, OneAtATime <- FALSE, MaxRequests <- 2,
  MaxImages <- 2, MaxFaults <- 2,
  row <- x1, image <- x2, registry <- x3, made <- x4, old <- x5, rec <- x6, task <- x7,
  wk <- x8, keep <- x9, starts <- x10, last <- x11, requests <- x12, revived <- x13,
  faults <- x14
Built == INSTANCE TemplateImages WITH
  Gateways <- {i1}, Direct <- {q1}, Stream <- {q2}, E2b <- {a1}, Base <- {}, Asked <- {},
  Workers <- {}, RegistryOn <- TRUE, OneAtATime <- FALSE, MaxRequests <- 2, MaxImages <- 1,
  MaxFaults <- 1,
  row <- x1, image <- x2, registry <- x3, made <- x4, old <- x5, rec <- x6, task <- x7,
  wk <- x8, keep <- x9, starts <- x10, last <- x11, requests <- x12, revived <- x13,
  faults <- x14

Init ==
  \/ which = "pool" /\ Pool!Init
     /\ x9 = None /\ x10 = None /\ x11 = None /\ x12 = None /\ x13 = None /\ x14 = None
  \/ which = "lease" /\ Lease!Init
     /\ x8 = None /\ x9 = None /\ x10 = None /\ x11 = None /\ x12 = None /\ x13 = None
     /\ x14 = None
  \/ which = "agents" /\ Agent!Init
     /\ x14 = None
  \/ which = "envd" /\ Envd!Init
  \/ which = "images" /\ Image!Init
  \/ which = "builds" /\ Built!Init

Next ==
  \/ which = "pool" /\ Pool!Next /\ UNCHANGED <<which, x9, x10, x11, x12, x13, x14>>
  \/ which = "lease" /\ Lease!Next /\ UNCHANGED <<which, x8, x9, x10, x11, x12, x13, x14>>
  \/ which = "agents" /\ Agent!Next /\ UNCHANGED <<which, x14>>
  \/ which = "envd" /\ Envd!Next /\ UNCHANGED which
  \/ which = "images" /\ Image!Next /\ UNCHANGED which
  \/ which = "builds" /\ Built!Next /\ UNCHANGED which

Spec == Init /\ [][Next]_vars

poolVars == Pool!vars
leaseVars == Lease!vars
agentsVars == Agent!vars
envdVars == Envd!vars
imagesVars == Image!vars
buildsVars == Built!vars

\* The fairness that each module states, of the component that moves.
Fairness ==
  /\ WF_poolVars(which = "pool" /\ Pool!Sync(r1))
  /\ \A t \in {r1, q1} : WF_poolVars(which = "pool" /\ Pool!Step(t))
  /\ WF_leaseVars(which = "lease" /\ Lease!Tick)
  /\ \A r \in {r1, r2} : WF_leaseVars(which = "lease" /\ Lease!Call(r))
  /\ WF_agentsVars(which = "agents" /\ Agent!Thread(a1))
  /\ WF_agentsVars(which = "agents" /\ Agent!Killed(a1))
  /\ WF_envdVars(which = "envd" /\ Envd!WaitProcess) /\ WF_envdVars(which = "envd" /\ Envd!WaitReader)
  /\ \A p \in {"pty", "stdout", "stderr"} :
       /\ WF_envdVars(which = "envd" /\ Envd!ReadChunk(p))
       /\ WF_envdVars(which = "envd" /\ Envd!ReadEnds(p))
  /\ WF_envdVars(which = "envd" /\ Envd!Replay(q1))
  /\ WF_envdVars(which = "envd" /\ Envd!Follow(q1))
  /\ \A t \in Image!Tasks : WF_imagesVars(which = "images" /\ Image!TaskStep(t))
  /\ WF_imagesVars(which = "images" /\ Image!StartReconcile(r1))
  /\ WF_imagesVars(which = "images" /\ Image!Ensure(r1))
  /\ \A t \in Built!Tasks : WF_buildsVars(which = "builds" /\ Built!TaskStep(t))

FairSpec == Spec /\ Fairness

-----------------------------------------------------------------------------
(* Properties, each the component's own *)

\* A size that stays in the row, with an image that stays, reaches every replica's pool.
PoolsFollow ==
  \A n \in 1..2, i \in {i1, i2} :
    <>[](which = "pool" /\ Pool!Asked(n, i)) => <>[](which = "pool" /\ Pool!Follows(r1, n, i))

\* Some replica leads again and again once the faults end.
SomeoneLeads == []<>(which = "lease" => Lease!SomeLead)

\* An agent that was killed ends.
KilledEnds ==
  (which = "agents" /\ Agent!Stopped(a1)) ~> (which = "agents" /\ Agent!Ended(a1))

\* Once the process has exited every stream ends, or its client leaves.
StreamsEnd ==
  (which = "envd" /\ Envd!Waits(q1)) ~> (which = "envd" /\ Envd!WaitEnds(q1))

\* A build's record does not stay running, for any of the three ways to ask for one, unless
\* its request was cut off.
RecordsEnd ==
  \A r \in Built!Builds :
    (which = "builds" /\ Built!Runs(r)) ~> (which = "builds" /\ Built!RunEnds(r))

\* A template whose image has gone everywhere gets one again or says that it has none.
UnservedIsNoticed ==
  (which = "images" /\ Image!Unserved) ~> (which = "images" /\ Image!Noticed)
=============================================================================
