---------------------------- MODULE MCComponents ----------------------------
(***************************************************************************)
(* The components that share no state with the others, side by side.  A    *)
(* behaviour of this module is a behaviour of one of them, named by which. *)
(***************************************************************************)
EXTENDS Naturals, ControlComponents, GuestComponents

inflight == x4
expired == x6
saw == x6
abandoned == x7
tries == x7
registry == x7
cause == x8
owed == x8
made == x8
lost == x9
rec == x9
wk == x10
keep == x11
starts == x12
last == x13
revived == x14

Lifecycle == INSTANCE SandboxLifecycle WITH
  Sandboxes <- Documents, Clients <- Owners, NoClient <- None, MaxOps <- 2,
  MaxFaults <- FewFaults
Segment == INSTANCE MongoSegment WITH Workers <- Callers, MaxSize <- 1
Image == INSTANCE TemplateImages WITH
  MaxFaults <- 0, Direct <- DirectBuilds, Asked <- AskedTags, MaxImages <- 0, Base <- {}

Init ==
  \/ which = "keys" /\ Keys!Init
     /\ x12 = None /\ x13 = None /\ x14 = None
  \/ which = "toolbox" /\ Toolbox!Init
     /\ x5 = None /\ x6 = None /\ x7 = None /\ x8 = None /\ x9 = None /\ x10 = None
     /\ x11 = None /\ x12 = None /\ x13 = None /\ x14 = None
  \/ which = "files" /\ Files!Init
     /\ x11 = None /\ x12 = None /\ x13 = None /\ x14 = None
  \/ which = "bridge" /\ Bridge!Init
     /\ x8 = None /\ x9 = None /\ x10 = None /\ x11 = None /\ x12 = None /\ x13 = None
     /\ x14 = None
  \/ which = "routing" /\ Routing!Init
     /\ x6 = None /\ x7 = None /\ x8 = None /\ x9 = None /\ x10 = None /\ x11 = None
     /\ x12 = None /\ x13 = None /\ x14 = None
  \/ which = "boot" /\ Boot!Init
     /\ x6 = None /\ x7 = None /\ x8 = None /\ x9 = None /\ x10 = None /\ x11 = None
     /\ x12 = None /\ x13 = None /\ x14 = None
  \/ which = "ssh" /\ Ssh!Init
     /\ x7 = None /\ x8 = None /\ x9 = None /\ x10 = None /\ x11 = None /\ x12 = None
     /\ x13 = None /\ x14 = None
  \/ which = "context" /\ Context!Init
     /\ x6 = None /\ x7 = None /\ x8 = None /\ x9 = None /\ x10 = None /\ x11 = None
     /\ x12 = None /\ x13 = None /\ x14 = None
  \/ which = "mongo" /\ Mongo!Init
     /\ x6 = None /\ x7 = None /\ x8 = None /\ x9 = None /\ x10 = None /\ x11 = None
     /\ x12 = None /\ x13 = None /\ x14 = None
  \/ which = "daytona" /\ Daytona!Init
     /\ x6 = None /\ x7 = None /\ x8 = None /\ x9 = None /\ x10 = None /\ x11 = None
     /\ x12 = None /\ x13 = None /\ x14 = None
  \/ which = "snap" /\ Snap!Init
     /\ x9 = None /\ x10 = None /\ x11 = None /\ x12 = None /\ x13 = None /\ x14 = None
  \/ which = "docker" /\ Docker!Init
     /\ x11 = None /\ x12 = None /\ x13 = None /\ x14 = None
  \/ which = "pool" /\ Pool!Init
     /\ x9 = None /\ x10 = None /\ x11 = None /\ x12 = None /\ x13 = None /\ x14 = None
  \/ which = "lease" /\ Lease!Init
     /\ x8 = None /\ x9 = None /\ x10 = None /\ x11 = None /\ x12 = None /\ x13 = None
     /\ x14 = None
  \/ which = "agents" /\ Agent!Init
     /\ x14 = None
  \/ which = "host" /\ Host!Init
     /\ x10 = None /\ x11 = None /\ x12 = None /\ x13 = None /\ x14 = None
  \/ which = "envd" /\ Envd!Init
  \/ which = "lifecycle" /\ Lifecycle!Init
     /\ x9 = None /\ x10 = None /\ x11 = None /\ x12 = None /\ x13 = None /\ x14 = None
  \/ which = "segment" /\ Segment!Init
     /\ x10 = None /\ x11 = None /\ x12 = None /\ x13 = None /\ x14 = None
  \/ which = "images" /\ Image!Init
  \/ which = "modal" /\ Modal!Init
     /\ x10 = None /\ x11 = None /\ x12 = None /\ x13 = None /\ x14 = None
  \/ which = "modalfiles" /\ ModalFile!Init
     /\ x7 = None /\ x8 = None /\ x9 = None /\ x10 = None /\ x11 = None /\ x12 = None
     /\ x13 = None /\ x14 = None

Next ==
  \/ which = "keys" /\ Keys!Next /\ UNCHANGED <<which, x12, x13, x14>>
  \/ which = "toolbox" /\ Toolbox!Next /\ UNCHANGED <<which, x5, x6, x7, x8, x9, x10, x11, x12, x13, x14>>
  \/ which = "files" /\ Files!Next /\ UNCHANGED <<which, x11, x12, x13, x14>>
  \/ which = "bridge" /\ Bridge!Next /\ UNCHANGED <<which, x8, x9, x10, x11, x12, x13, x14>>
  \/ which = "routing" /\ Routing!Next /\ UNCHANGED <<which, x6, x7, x8, x9, x10, x11, x12, x13, x14>>
  \/ which = "boot" /\ Boot!Next /\ UNCHANGED <<which, x6, x7, x8, x9, x10, x11, x12, x13, x14>>
  \/ which = "ssh" /\ Ssh!Next /\ UNCHANGED <<which, x7, x8, x9, x10, x11, x12, x13, x14>>
  \/ which = "context" /\ Context!Next /\ UNCHANGED <<which, x6, x7, x8, x9, x10, x11, x12, x13, x14>>
  \/ which = "mongo" /\ Mongo!Next /\ UNCHANGED <<which, x6, x7, x8, x9, x10, x11, x12, x13, x14>>
  \/ which = "daytona" /\ Daytona!Next /\ UNCHANGED <<which, x6, x7, x8, x9, x10, x11, x12, x13, x14>>
  \/ which = "snap" /\ Snap!Next /\ UNCHANGED <<which, x9, x10, x11, x12, x13, x14>>
  \/ which = "docker" /\ Docker!Next /\ UNCHANGED <<which, x11, x12, x13, x14>>
  \/ which = "pool" /\ Pool!Next /\ UNCHANGED <<which, x9, x10, x11, x12, x13, x14>>
  \/ which = "lease" /\ Lease!Next /\ UNCHANGED <<which, x8, x9, x10, x11, x12, x13, x14>>
  \/ which = "agents" /\ Agent!Next /\ UNCHANGED <<which, x14>>
  \/ which = "host" /\ Host!Next /\ UNCHANGED <<which, x10, x11, x12, x13, x14>>
  \/ which = "envd" /\ Envd!Next /\ UNCHANGED which
  \/ which = "lifecycle" /\ Lifecycle!Next /\ UNCHANGED <<which, x9, x10, x11, x12, x13, x14>>
  \/ which = "segment" /\ Segment!Next /\ UNCHANGED <<which, x10, x11, x12, x13, x14>>
  \/ which = "images" /\ Image!Next /\ UNCHANGED which
  \/ which = "modal" /\ Modal!Next /\ UNCHANGED <<which, x10, x11, x12, x13, x14>>
  \/ which = "modalfiles" /\ ModalFile!Next /\ UNCHANGED <<which, x7, x8, x9, x10, x11, x12, x13, x14>>

ASSUME Bounds ==
  /\ Pool!SegmentBounds /\ Lease!LeaseBounds /\ Envd!ProcessBounds /\ Keys!KeyBounds
  /\ Context!ContextBounds /\ Bridge!BridgeBounds /\ Daytona!DaytonaBounds
  /\ Toolbox!ToolboxBounds /\ Routing!RouteBounds /\ Modal!ModalBounds /\ ModalFile!FileBounds /\ Files!FilesBounds

Spec == Init /\ [][Next]_vars

-----------------------------------------------------------------------------
(* Properties, each the component's own *)

\* Each component's state has its types, and the images that a row of a template names are
\* one, on two gateways too (sandbox_template_build_ops.py).
TypesOK ==
  /\ which = "keys" => Keys!TypeOK
  /\ which = "toolbox" => Toolbox!TypeOK
  /\ which = "files" => Files!TypeOK
  /\ which = "bridge" => Bridge!TypeOK
  /\ which = "routing" => Routing!TypeOK
  /\ which = "boot" => Boot!TypeOK
  /\ which = "ssh" => Ssh!TypeOK
  /\ which = "context" => Context!TypeOK
  /\ which = "mongo" => Mongo!TypeOK
  /\ which = "daytona" => Daytona!TypeOK
  /\ which = "snap" => Snap!TypeOK
  /\ which = "docker" => Docker!TypeOK
  /\ which = "pool" => Pool!TypeOK
  /\ which = "lease" => Lease!TypeOK
  /\ which = "agents" => Agent!TypeOK
  /\ which = "host" => Host!TypeOK
  /\ which = "envd" => Envd!TypeOK
  /\ which = "lifecycle" => Lifecycle!TypeOK
  /\ which = "segment" => Segment!TypeOK
  /\ which = "images" => Image!TypeOK
  /\ which = "modal" => Modal!TypeOK
  /\ which = "modalfiles" => ModalFile!TypeOK
  /\ which = "images" => Image!RefsAgree

\* A revoked API key is accepted no longer than one cached answer lives, and in the process
\* that revoked it no longer at all but for lookups under way (middleware/auth.py).
RevocationHolds == which = "keys" => Keys!RevocationHolds

\* The Daytona toolbox's sessions and the processes they name keep up with each other,
\* unless requests overlap, the answer to a start is lost, a kill fails, or envd takes an
\* earlier process for the session's (handlers/daytona_compat.py).
SessionsKept == [][which = "toolbox" => Toolbox!Kept]_vars

\* The answers to writes of a guest's files, and the events of a watcher, are true, but for
\* commands whose failure is not looked at (handlers/daytona_compat_support.py, envd); a save of
\* a file a Modal client opened takes away only cells of plain text that it wrote over or never
\* saw, unless its read had failed or met another process's save, or the call that was to
\* write the cell failed (handlers/modal_compat_gateway.py, container_manager.py).
FilesAsTold ==
  [][/\ which = "files" => Files!Told
     /\ which = "modalfiles" => ModalFile!WritesKept]_vars

\* A WebSocket that ends with 1000 has passed on all that the guest sent, unless a link broke
\* or a client's message met a closed guest (runtime-gateway/ws_bridge.py).
NormalEndIsWhole == which = "bridge" => Bridge!NormalEndIsWhole

\* A request to a guest reaches the guest of its own sandbox, unless its container ended
\* after the api-service had last found it to run (handlers/internal_routing.py, runtime-gateway).
ReachesItsOwn == which = "routing" => Routing!ReachesItsOwn

\* A sandbox that is said to be ready had its services up, as the gateway or the bootstrap
\* saw them (orchestrator/sandbox_guest_ops.py).
ReadyWasSeen == which = "boot" => Boot!ReadyWasSeen

\* A terminal over SSH leaves no shell behind, unless its channel goes while the shell starts
\* or the kill fails (handlers/daytona_ssh_gateway.py).
LeavesNoShell == which = "ssh" => Ssh!LeavesNoShell

\* A build gets the context that one client uploaded, whatever puts that all succeeded
\* overlapped before it, unless one overtook a longer one and missed its chunks (database/mongo.py, handlers/build_context.py).
ContextIsWhole == which = "context" => Context!ContextIsWhole

\* On MongoDB a sandbox of the pool is handed out once and stays out of the pool
\* (database/mongo.py).
HandedOutOnce == [][which = "mongo" => Mongo!TakenOnce]_vars

\* A Daytona client sees the settings and the state it was told last, unless moves overlap or
\* old metadata is written back from elsewhere (handlers/daytona_compat.py); a Modal client
\* sees the tags and results of its sandbox, unless settings overlap, one fails, or a snapshot
\* writes back what it had read (handlers/modal_compat_gateway.py).
ShownAsSaid ==
  /\ which = "daytona" => Daytona!ShownAsSaid
  /\ which = "modal" => Modal!ToldSo

\* A listed snapshot has its image, whatever a prune was doing (create_filesystem_snapshot,
\* prune_generated_images).
SnapshotsRestorable == which = "snap" => Snap!SnapshotsRestorable

\* In a template's image every line of its stored Dockerfile was done before the next began,
\* in one environment (orchestrator/template_dockerfile_builder.py).
BuiltAsWritten == which = "docker" => Docker!BuiltAsWritten

\* A replica fills a segment with one thread, however its sync thread and its requests meet
\* in ensure_pool_for (orchestrator/warm_sandbox_pool.py).
OneLoop == which = "pool" => Pool!OneLoop

\* Two replicas lead at once only by a fallback to the database lock or a lost session
\* (orchestrator/k8s_leader_election.py, sandbox_gateway_ops.py).
LeadersExclusive == which = "lease" => Lease!LeadersExclusive

\* A single run is begun again only after it raised, and is not shown as running when it has
\* ended, unless it ended before start() set the state (agents/runtime.py).
SingleRunHonest == which = "agents" => Agent!SingleRunHonest

\* What a failed create or a successful kill leaves in the engine had a failed clean-up or a
\* request nobody waited for (orchestrator/container_manager.py).
NoLeftovers == which = "host" => Host!NoLeftovers

\* A stream of a guest's process is what the process wrote, but for one window between replay
\* and subscription (envd_guest/server.py).
StreamsWhole == which = "envd" => Envd!StreamsWhole
=============================================================================
