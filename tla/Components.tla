----------------------------- MODULE Components -----------------------------
(***************************************************************************)
(* The state of the components that share none with the others, each of    *)
(* which has the variables of its module.  Two variables that no component *)
(* has both of are the same x, so that a state has no more of them than    *)
(* the largest component.                                                  *)
(***************************************************************************)
EXTENDS Naturals

CONSTANTS
  None, NoSandbox, Nobody, Replicas, PoolReplicas, Gateways, Callers, Workers, Handlers,
  Maintainers, Writers, Sandboxes, Documents, Sources, Names, Addresses, Clients, Owners,
  ApiRequests, GuestRequests, Agents, Streams, Handles, Shells, Terminals, Tokens, Refs,
  PoolImages, Labels, Tags, DockerNames, Literals, DirectBuilds, AskedTags, Stream, E2b,
  Modes, Odd, Registry, RegistryOn, OneAtATime, TTL, LeaseTTL, LockTTL, LeaseRefresh,
  ConfigSize, MaxSize, Concurrency, Hops, Tries, MaxTries, Chunks, MaxFaults, FewFaults,
  MaxCall, MaxTime, MaxLook, MaxOps, MaxMoves, MaxRequests, MoreRequests, MaxRestarts,
  MaxCrashes, MaxPids, MaxAsked, MaxSent, MaxEdits, MaxTyped, MaxOthers, MaxChunks,
  MaxLines, MaxImages, MaxSets, MaxWrites, MaxSaves

\* Counts are counted up to a number, everything is tried once at least, and the guest of a
\* WebSocket may send as much as its client.
ASSUME Numbers ==
  /\ MaxFaults \in Nat /\ FewFaults \in Nat /\ MaxOps \in Nat /\ MaxMoves \in Nat
  /\ MaxSets \in Nat /\ MaxLines \in Nat /\ MaxRestarts \in Nat /\ MaxWrites \in Nat
  /\ MaxTyped \in Nat /\ MaxOthers \in Nat /\ MaxEdits \in Nat
  /\ MaxAsked \in Nat /\ MaxSent \in Nat
  /\ Tries \in Nat \ {0} /\ MaxAsked <= MaxSent

VARIABLES
  which,  \* the component that moves
  x1, x2, x3, x4, x5, x6, x7, x8, x9, x10, x11, x12, x13, x14

vars == <<which, x1, x2, x3, x4, x5, x6, x7, x8, x9, x10, x11, x12, x13, x14>>

process == x1
faults == x1
row == x2
client == x3
req == x3
late == x4
boot == x5
box == x5
=============================================================================
