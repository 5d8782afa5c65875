-------------------------- MODULE ComponentProofs --------------------------
(***************************************************************************)
(* The properties of the components, proved in ControlProofs and in        *)
(* GuestProofs of each alone, for their composition.  A component that     *)
(* moves at first moves for ever, and its steps are those of its module    *)
(* (the lemmas named ...Alone); what is proved of it alone then holds of   *)
(* the composition.                                                        *)
(***************************************************************************)
EXTENDS MCComponents, ControlProofs, GuestProofs

KeysMove == which = "keys"

\* Where API keys are what moves, they are as their module says.
LEMMA KeysAlone == Spec => ([]KeysMove /\ Keys!Spec) \/ []~KeysMove
<1>1. UNCHANGED vars => UNCHANGED <<which, Keys!vars>>
  BY DEF vars, Keys!vars, client, boot, row, cache, look, lock, revoking, since, accepted,
         overlap, cleared
<1>2. Init /\ KeysMove => Keys!Init
  BY DEF Init, KeysMove
<1>3. [Next]_vars /\ KeysMove => KeysMove' /\ [Keys!Next]_(Keys!vars)
  BY <1>1 DEF Next, KeysMove
<1>4. [Next]_vars /\ ~KeysMove => ~KeysMove'
  BY <1>1 DEF Next, KeysMove
<1> QED BY <1>1, <1>2, <1>3, <1>4, PTL DEF Spec, Keys!Spec

\* A revoked API key is accepted no longer than one cached answer lives, and in the process
\* that revoked it no longer at all but for lookups under way (middleware/auth.py).
THEOREM KeysInTheRun == Spec => []RevocationHolds
<1>1. Keys!Spec => []Keys!RevocationHolds
  BY KeyRevocation, Bounds
<1>2. Keys!RevocationHolds => RevocationHolds
  BY DEF RevocationHolds
<1>3. ~KeysMove => RevocationHolds
  BY DEF RevocationHolds, KeysMove
<1> QED BY <1>1, <1>2, <1>3, KeysAlone, PTL

RowsMove == which = "mongo"

\* Where MongoDB's rows are what moves, they are as their module says.
LEMMA RowsAlone == Spec => ([]RowsMove /\ Mongo!Spec) \/ []~RowsMove
<1>1. UNCHANGED vars => UNCHANGED <<which, Mongo!vars>>
  BY DEF vars, Mongo!vars, rows, children, handoffs, call, moves
<1>2. Init /\ RowsMove => Mongo!Init
  BY DEF Init, RowsMove
<1>3. [Next]_vars /\ RowsMove => RowsMove' /\ [Mongo!Next]_(Mongo!vars)
  BY <1>1 DEF Next, RowsMove
<1>4. [Next]_vars /\ ~RowsMove => ~RowsMove'
  BY <1>1 DEF Next, RowsMove
<1> QED BY <1>1, <1>2, <1>3, <1>4, PTL DEF Spec, Mongo!Spec

\* On MongoDB a sandbox of the pool is handed out once and stays out of the pool
\* (database/mongo.py).
THEOREM RowsInTheRun == Spec => HandedOutOnce
<1>1. Mongo!Spec => Mongo!HandedOutOnce
  BY MongoHandsOutOnce
<1>2. [Next]_vars /\ RowsMove /\ [Mongo!TakenOnce]_(Mongo!vars) => [which = "mongo" => Mongo!TakenOnce]_vars
  <2>1. [Next]_vars /\ RowsMove /\ UNCHANGED Mongo!vars => UNCHANGED vars
    BY DEF Next, RowsMove, vars, Mongo!vars, rows, children, handoffs, call, moves
  <2> QED BY <2>1 DEF RowsMove
<1>3. [Next]_vars /\ ~RowsMove => [which = "mongo" => Mongo!TakenOnce]_vars
  BY DEF RowsMove
<1> QED BY <1>1, <1>2, <1>3, RowsAlone, PTL DEF Spec, HandedOutOnce, Mongo!HandedOutOnce

SnapshotsMove == which = "snap"

\* Where snapshots are what moves, they are as their module says.
LEMMA SnapshotsAlone == Spec => ([]SnapshotsMove /\ Snap!Spec) \/ []~SnapshotsMove
<1>1. UNCHANGED vars => UNCHANGED <<which, Snap!vars>>
  BY DEF vars, Snap!vars, source, image, pushed, old, row, task, from, prune
<1>2. Init /\ SnapshotsMove => Snap!Init
  BY DEF Init, SnapshotsMove
<1>3. [Next]_vars /\ SnapshotsMove => SnapshotsMove' /\ [Snap!Next]_(Snap!vars)
  BY <1>1 DEF Next, SnapshotsMove
<1>4. [Next]_vars /\ ~SnapshotsMove => ~SnapshotsMove'
  BY <1>1 DEF Next, SnapshotsMove
<1> QED BY <1>1, <1>2, <1>3, <1>4, PTL DEF Spec, Snap!Spec

\* A listed snapshot has its image, whatever a prune was doing (create_filesystem_snapshot,
\* prune_generated_images).
THEOREM SnapshotsInTheRun == Spec => []SnapshotsRestorable
<1>1. Snap!Spec => []Snap!SnapshotsRestorable
  BY SnapshotsSafe
<1>2. Snap!SnapshotsRestorable => SnapshotsRestorable
  BY DEF SnapshotsRestorable
<1>3. ~SnapshotsMove => SnapshotsRestorable
  BY DEF SnapshotsRestorable, SnapshotsMove
<1> QED BY <1>1, <1>2, <1>3, SnapshotsAlone, PTL

SegmentMoves == which = "pool"

\* Where the pool's segments are what moves, they are as their module says.
LEMMA SegmentAlone == Spec => ([]SegmentMoves /\ Pool!Spec) \/ []~SegmentMoves
<1>1. UNCHANGED vars => UNCHANGED <<which, Pool!vars>>
  BY DEF vars, Pool!vars, desired, image, pool, loops, holder, th, requests, crashes
<1>2. Init /\ SegmentMoves => Pool!Init
  BY DEF Init, SegmentMoves
<1>3. [Next]_vars /\ SegmentMoves => SegmentMoves' /\ [Pool!Next]_(Pool!vars)
  BY <1>1 DEF Next, SegmentMoves
<1>4. [Next]_vars /\ ~SegmentMoves => ~SegmentMoves'
  BY <1>1 DEF Next, SegmentMoves
<1> QED BY <1>1, <1>2, <1>3, <1>4, PTL DEF Spec, Pool!Spec

\* A replica fills a segment with one thread, however its sync thread and its requests meet
\* in ensure_pool_for (orchestrator/warm_sandbox_pool.py).
THEOREM LoopsInTheRun == Spec => []OneLoop
<1>1. Pool!Spec => []Pool!OneLoop
  BY OneLoopEach, Bounds
<1>2. Pool!OneLoop => OneLoop
  BY DEF OneLoop
<1>3. ~SegmentMoves => OneLoop
  BY DEF OneLoop, SegmentMoves
<1> QED BY <1>1, <1>2, <1>3, SegmentAlone, PTL

LeaseMoves == which = "lease"

\* Where the lease is what moves, it is as its module says.
LEMMA LeaseAlone == Spec => ([]LeaseMoves /\ Lease!Spec) \/ []~LeaseMoves
<1>1. UNCHANGED vars => UNCHANGED <<which, Lease!vars>>
  BY DEF vars, Lease!vars, mongo, lease, lock, conn, call, belief, faults
<1>2. Init /\ LeaseMoves => Lease!Init
  BY DEF Init, LeaseMoves
<1>3. [Next]_vars /\ LeaseMoves => LeaseMoves' /\ [Lease!Next]_(Lease!vars)
  BY <1>1 DEF Next, LeaseMoves
<1>4. [Next]_vars /\ ~LeaseMoves => ~LeaseMoves'
  BY <1>1 DEF Next, LeaseMoves
<1> QED BY <1>1, <1>2, <1>3, <1>4, PTL DEF Spec, Lease!Spec

\* Two replicas lead at once only by a fallback to the database lock or a lost session
\* (orchestrator/k8s_leader_election.py, sandbox_gateway_ops.py).
THEOREM LeadersInTheRun == Spec => []LeadersExclusive
<1>1. Lease!Spec => []Lease!LeadersExclusive
  BY OneLeader, Bounds
<1>2. Lease!LeadersExclusive => LeadersExclusive
  BY DEF LeadersExclusive
<1>3. ~LeaseMoves => LeadersExclusive
  BY DEF LeadersExclusive, LeaseMoves
<1> QED BY <1>1, <1>2, <1>3, LeaseAlone, PTL

RoutesMove == which = "routing"

\* Where routes are what moves, they are as their module says.
LEMMA RoutesAlone == Spec => ([]RoutesMove /\ Routing!Spec) \/ []~RoutesMove
<1>1. UNCHANGED vars => UNCHANGED <<which, Routing!vars>>
  BY DEF vars, Routing!vars, row, container, recorded, req, faults
<1>2. Init /\ RoutesMove => Routing!Init
  BY DEF Init, RoutesMove
<1>3. [Next]_vars /\ RoutesMove => RoutesMove' /\ [Routing!Next]_(Routing!vars)
  BY <1>1 DEF Next, RoutesMove
<1>4. [Next]_vars /\ ~RoutesMove => ~RoutesMove'
  BY <1>1 DEF Next, RoutesMove
<1> QED BY <1>1, <1>2, <1>3, <1>4, PTL DEF Spec, Routing!Spec

\* A request to a guest reaches the guest of its own sandbox, unless its container ended
\* after the api-service had last found it to run (handlers/internal_routing.py, runtime-gateway).
THEOREM RoutesInTheRun == Spec => []ReachesItsOwn
<1>1. Routing!Spec => []Routing!ReachesItsOwn
  BY RoutesToItsOwn, Bounds
<1>2. Routing!ReachesItsOwn => ReachesItsOwn
  BY DEF ReachesItsOwn
<1>3. ~RoutesMove => ReachesItsOwn
  BY DEF ReachesItsOwn, RoutesMove
<1> QED BY <1>1, <1>2, <1>3, RoutesAlone, PTL

BootstrapMoves == which = "boot"

\* Where a bootstrap is what moves, it is as its module says.
LEMMA BootstrapAlone == Spec => ([]BootstrapMoves /\ Boot!Spec) \/ []~BootstrapMoves
<1>1. UNCHANGED vars => UNCHANGED <<which, Boot!vars>>
  BY DEF vars, Boot!vars, template, guest, row, boot, faults
<1>2. Init /\ BootstrapMoves => Boot!Init
  BY DEF Init, BootstrapMoves
<1>3. [Next]_vars /\ BootstrapMoves => BootstrapMoves' /\ [Boot!Next]_(Boot!vars)
  BY <1>1 DEF Next, BootstrapMoves
<1>4. [Next]_vars /\ ~BootstrapMoves => ~BootstrapMoves'
  BY <1>1 DEF Next, BootstrapMoves
<1> QED BY <1>1, <1>2, <1>3, <1>4, PTL DEF Spec, Boot!Spec

\* A sandbox that is said to be ready had its services up, as the gateway or the bootstrap
\* saw them (orchestrator/sandbox_guest_ops.py).
THEOREM BootstrapsInTheRun == Spec => []ReadyWasSeen
<1>1. Boot!Spec => []Boot!ReadyWasSeen
  BY ReadyIsSeen
<1>2. Boot!ReadyWasSeen => ReadyWasSeen
  BY DEF ReadyWasSeen
<1>3. ~BootstrapMoves => ReadyWasSeen
  BY DEF ReadyWasSeen, BootstrapMoves
<1> QED BY <1>1, <1>2, <1>3, BootstrapAlone, PTL

AgentsMove == which = "agents"

\* Where agents are what moves, they are as their module says.
LEMMA AgentsAlone == Spec => ([]AgentsMove /\ Agent!Spec) \/ []~AgentsMove
<1>1. UNCHANGED vars => UNCHANGED <<which, Agent!vars>>
  BY DEF vars, Agent!vars, spawn, loop, state, single, stop, runs, raised, early, registered,
         killing, sandbox, listed, process
<1>2. Init /\ AgentsMove => Agent!Init
  BY DEF Init, AgentsMove
<1>3. [Next]_vars /\ AgentsMove => AgentsMove' /\ [Agent!Next]_(Agent!vars)
  BY <1>1 DEF Next, AgentsMove
<1>4. [Next]_vars /\ ~AgentsMove => ~AgentsMove'
  BY <1>1 DEF Next, AgentsMove
<1> QED BY <1>1, <1>2, <1>3, <1>4, PTL DEF Spec, Agent!Spec

\* A single run is begun again only after it raised, and is not shown as running when it has
\* ended, unless it ended before start() set the state (agents/runtime.py).
THEOREM AgentsInTheRun == Spec => []SingleRunHonest
<1>1. Agent!Spec => []Agent!SingleRunHonest
  BY SingleRunsOnce
<1>2. Agent!SingleRunHonest => SingleRunHonest
  BY DEF SingleRunHonest
<1>3. ~AgentsMove => SingleRunHonest
  BY DEF SingleRunHonest, AgentsMove
<1> QED BY <1>1, <1>2, <1>3, AgentsAlone, PTL

ContainersMove == which = "host"

\* Where containers are what moves, they are as their module says.
LEMMA ContainersAlone == Spec => ([]ContainersMove /\ Host!Spec) \/ []~ContainersMove
<1>1. UNCHANGED vars => UNCHANGED <<which, Host!vars>>
  BY DEF vars, Host!vars, box, late, client, thread, held, runs, unclean, ghost, faults
<1>2. Init /\ ContainersMove => Host!Init
  BY DEF Init, ContainersMove
<1>3. [Next]_vars /\ ContainersMove => ContainersMove' /\ [Host!Next]_(Host!vars)
  BY <1>1 DEF Next, ContainersMove
<1>4. [Next]_vars /\ ~ContainersMove => ~ContainersMove'
  BY <1>1 DEF Next, ContainersMove
<1> QED BY <1>1, <1>2, <1>3, <1>4, PTL DEF Spec, Host!Spec

\* What a failed create or a successful kill leaves in the engine had a failed clean-up or a
\* request nobody waited for (orchestrator/container_manager.py).
THEOREM ContainersInTheRun == Spec => []NoLeftovers
<1>1. Host!Spec => []Host!NoLeftovers
  BY NothingLeftOver
<1>2. Host!NoLeftovers => NoLeftovers
  BY DEF NoLeftovers
<1>3. ~ContainersMove => NoLeftovers
  BY DEF NoLeftovers, ContainersMove
<1> QED BY <1>1, <1>2, <1>3, ContainersAlone, PTL

TerminalsMove == which = "ssh"

\* Where a terminal is what moves, it is as its module says.
LEMMA TerminalsAlone == Spec => ([]TerminalsMove /\ Ssh!Spec) \/ []~TerminalsMove
<1>1. UNCHANGED vars => UNCHANGED <<which, Ssh!vars>>
  BY DEF vars, Ssh!vars, row, edit, session, wire, shell, edits
<1>2. Init /\ TerminalsMove => Ssh!Init
  BY DEF Init, TerminalsMove
<1>3. [Next]_vars /\ TerminalsMove => TerminalsMove' /\ [Ssh!Next]_(Ssh!vars)
  BY <1>1 DEF Next, TerminalsMove
<1>4. [Next]_vars /\ ~TerminalsMove => ~TerminalsMove'
  BY <1>1 DEF Next, TerminalsMove
<1> QED BY <1>1, <1>2, <1>3, <1>4, PTL DEF Spec, Ssh!Spec

\* When an SSH connection is over its shell is over too, unless the connection was lost while
\* the shell was being started or the request that kills it failed.
THEOREM TerminalsInTheRun == Spec => []LeavesNoShell
<1>1. Ssh!Spec => []Ssh!LeavesNoShell
  BY NoShellLeft
<1>2. Ssh!LeavesNoShell => LeavesNoShell
  BY DEF LeavesNoShell
<1>3. ~TerminalsMove => LeavesNoShell
  BY DEF LeavesNoShell, TerminalsMove
<1> QED BY <1>1, <1>2, <1>3, TerminalsAlone, PTL

ContextMoves == which = "context"

\* Where an upload is what moves, it is as its module says.
LEMMA ContextAlone == Spec => ([]ContextMoves /\ Context!Spec) \/ []~ContextMoves
<1>1. UNCHANGED vars => UNCHANGED <<which, Context!vars>>
  BY DEF vars, Context!vars, store, meta, chunk, client, spoilt
<1>2. Init /\ ContextMoves => Context!Init
  BY DEF Init, ContextMoves
<1>3. [Next]_vars /\ ContextMoves => ContextMoves' /\ [Context!Next]_(Context!vars)
  BY <1>1 DEF Next, ContextMoves
<1>4. [Next]_vars /\ ~ContextMoves => ~ContextMoves'
  BY <1>1 DEF Next, ContextMoves
<1> QED BY <1>1, <1>2, <1>3, <1>4, PTL DEF Spec, Context!Spec

\* A build has one client's archive, all of it, whatever puts that all succeeded overlapped
\* before it began, unless one overtook a longer one and missed its chunks (database/mongo.py).
THEOREM ContextsInTheRun == Spec => []ContextIsWhole
<1>1. Context!Spec => []Context!ContextIsWhole
  BY WholeContexts, Bounds
<1>2. Context!ContextIsWhole => ContextIsWhole
  BY DEF ContextIsWhole
<1>3. ~ContextMoves => ContextIsWhole
  BY DEF ContextIsWhole, ContextMoves
<1> QED BY <1>1, <1>2, <1>3, ContextAlone, PTL

DockerfilesMove == which = "docker"

\* Where a Dockerfile is what moves, it is as its module says.
LEMMA DockerfilesAlone == Spec => ([]DockerfilesMove /\ Docker!Spec) \/ []~DockerfilesMove
<1>1. UNCHANGED vars => UNCHANGED <<which, Docker!vars>>
  BY DEF vars, Docker!vars, pc, lines, given, args, env, context, box, late, image, row
<1>2. Init /\ DockerfilesMove => Docker!Init
  BY DEF Init, DockerfilesMove
<1>3. [Next]_vars /\ DockerfilesMove => DockerfilesMove' /\ [Docker!Next]_(Docker!vars)
  BY <1>1 DEF Next, DockerfilesMove
<1>4. [Next]_vars /\ ~DockerfilesMove => ~DockerfilesMove'
  BY <1>1 DEF Next, DockerfilesMove
<1> QED BY <1>1, <1>2, <1>3, <1>4, PTL DEF Spec, Docker!Spec

\* In a template's image every line of its stored Dockerfile was done before the next began,
\* in one environment (orchestrator/template_dockerfile_builder.py).
THEOREM DockerfilesInTheRun == Spec => []BuiltAsWritten
<1>1. Docker!Spec => []Docker!BuiltAsWritten
  BY LinesAreDone
<1>2. Docker!BuiltAsWritten => BuiltAsWritten
  BY DEF BuiltAsWritten
<1>3. ~DockerfilesMove => BuiltAsWritten
  BY DEF BuiltAsWritten, DockerfilesMove
<1> QED BY <1>1, <1>2, <1>3, DockerfilesAlone, PTL

StreamsMove == which = "envd"

\* Where a process's streams are what moves, they are as their module says.
LEMMA StreamsAlone == Spec => ([]StreamsMove /\ Envd!Spec) \/ []~StreamsMove
<1>1. UNCHANGED vars => UNCHANGED <<which, Envd!vars>>
  BY DEF vars, Envd!vars, Envd!procVars, Envd!streamVars, isPty, written, shut, emitted,
         reading, exited, waiter, history, kind, at, upto, sent, joined, queue
<1>2. Init /\ StreamsMove => Envd!Init
  BY DEF Init, StreamsMove
<1>3. [Next]_vars /\ StreamsMove => StreamsMove' /\ [Envd!Next]_(Envd!vars)
  BY <1>1 DEF Next, StreamsMove
<1>4. [Next]_vars /\ ~StreamsMove => ~StreamsMove'
  BY <1>1 DEF Next, StreamsMove
<1> QED BY <1>1, <1>2, <1>3, <1>4, PTL DEF Spec, Envd!Spec

\* A stream of a guest's process is what the process wrote, but for one window between replay
\* and subscription (envd_guest/server.py).
THEOREM StreamsInTheRun == Spec => []StreamsWhole
<1>1. Envd!Spec => []Envd!StreamsWhole
  BY WholeStreams
<1>2. Envd!StreamsWhole => StreamsWhole
  BY DEF StreamsWhole
<1>3. ~StreamsMove => StreamsWhole
  BY DEF StreamsWhole, StreamsMove
<1> QED BY <1>1, <1>2, <1>3, StreamsAlone, PTL

BridgeMoves == which = "bridge"

\* Where a WebSocket is what moves, it is as its module says.
LEMMA BridgeAlone == Spec => ([]BridgeMoves /\ Bridge!Spec) \/ []~BridgeMoves
<1>1. UNCHANGED vars => UNCHANGED <<which, Bridge!vars>>
  BY DEF vars, Bridge!vars, up, down, shut, hop, client, guest, faults
<1>2. Init /\ BridgeMoves => Bridge!Init
  BY DEF Init, BridgeMoves
<1>3. [Next]_vars /\ BridgeMoves => BridgeMoves' /\ [Bridge!Next]_(Bridge!vars)
  BY <1>1 DEF Next, BridgeMoves
<1>4. [Next]_vars /\ ~BridgeMoves => ~BridgeMoves'
  BY <1>1 DEF Next, BridgeMoves
<1> QED BY <1>1, <1>2, <1>3, <1>4, PTL DEF Spec, Bridge!Spec

\* A WebSocket that ends with 1000 has passed on all that the guest sent, unless a link broke
\* or a client's message met a closed guest (runtime-gateway/ws_bridge.py).
THEOREM BridgesInTheRun == Spec => []NormalEndIsWhole
<1>1. Bridge!Spec => []Bridge!NormalEndIsWhole
  BY WholeBridges, Bounds
<1>2. Bridge!NormalEndIsWhole => NormalEndIsWhole
  BY DEF NormalEndIsWhole
<1>3. ~BridgeMoves => NormalEndIsWhole
  BY DEF NormalEndIsWhole, BridgeMoves
<1> QED BY <1>1, <1>2, <1>3, BridgeAlone, PTL

DaytonaMoves == which = "daytona"

\* Where a Daytona sandbox is what moves, it is as its module says.
LEMMA DaytonaAlone == Spec => ([]DaytonaMoves /\ Daytona!Spec) \/ []~DaytonaMoves
<1>1. UNCHANGED vars => UNCHANGED <<which, Daytona!vars>>
  BY DEF vars, Daytona!vars, row, box, req, said, faults
<1>2. Init /\ DaytonaMoves => Daytona!Init
  BY DEF Init, DaytonaMoves
<1>3. [Next]_vars /\ DaytonaMoves => DaytonaMoves' /\ [Daytona!Next]_(Daytona!vars)
  BY <1>1 DEF Next, DaytonaMoves
<1>4. [Next]_vars /\ ~DaytonaMoves => ~DaytonaMoves'
  BY <1>1 DEF Next, DaytonaMoves
<1> QED BY <1>1, <1>2, <1>3, <1>4, PTL DEF Spec, Daytona!Spec

\* A Daytona client sees the settings and the state it was told last, unless moves overlap or
\* old metadata is written back from elsewhere (handlers/daytona_compat.py).
LEMMA DaytonaInTheRun == Spec => [](which = "daytona" => Daytona!ShownAsSaid)
<1>1. Daytona!Spec => []Daytona!ShownAsSaid
  BY ShowsWhatItSaid, Bounds
<1>2. Daytona!ShownAsSaid => (which = "daytona" => Daytona!ShownAsSaid)
  OBVIOUS
<1>3. ~DaytonaMoves => (which = "daytona" => Daytona!ShownAsSaid)
  BY DEF DaytonaMoves
<1> QED BY <1>1, <1>2, <1>3, DaytonaAlone, PTL

ModalMoves == which = "modal"

\* Where a Modal sandbox is what moves, it is as its module says.
LEMMA ModalAlone == Spec => ([]ModalMoves /\ Modal!Spec) \/ []~ModalMoves
<1>1. UNCHANGED vars => UNCHANGED <<which, Modal!vars>>
  BY DEF vars, Modal!vars, row, memory, merges, commits, kills, exec, want, sets, faults
<1>2. Init /\ ModalMoves => Modal!Init
  BY DEF Init, ModalMoves
<1>3. [Next]_vars /\ ModalMoves => ModalMoves' /\ [Modal!Next]_(Modal!vars)
  BY <1>1 DEF Next, ModalMoves
<1>4. [Next]_vars /\ ~ModalMoves => ~ModalMoves'
  BY <1>1 DEF Next, ModalMoves
<1> QED BY <1>1, <1>2, <1>3, <1>4, PTL DEF Spec, Modal!Spec

\* A Modal client sees the tags and results of its sandbox, unless settings overlap, one
\* fails, or a snapshot writes back what it had read (handlers/modal_compat_gateway.py).
LEMMA ModalInTheRun == Spec => [](which = "modal" => Modal!ToldSo)
<1>1. Modal!Spec => []Modal!ToldSo
  BY ModalIsToldSo, Bounds
<1>2. Modal!ToldSo => (which = "modal" => Modal!ToldSo)
  OBVIOUS
<1>3. ~ModalMoves => (which = "modal" => Modal!ToldSo)
  BY DEF ModalMoves
<1> QED BY <1>1, <1>2, <1>3, ModalAlone, PTL

SessionsMove == which = "toolbox"

\* Where the toolbox's sessions are what moves, they are as their module says.
LEMMA SessionsAlone == Spec => ([]SessionsMove /\ Toolbox!Spec) \/ []~SessionsMove
<1>1. UNCHANGED vars => UNCHANGED <<which, Toolbox!vars>>
  BY DEF vars, Toolbox!vars, meta, process, req, restarts
<1>2. Init /\ SessionsMove => Toolbox!Init
  BY DEF Init, SessionsMove
<1>3. [Next]_vars /\ SessionsMove => SessionsMove' /\ [Toolbox!Next]_(Toolbox!vars)
  BY <1>1 DEF Next, SessionsMove
<1>4. [Next]_vars /\ ~SessionsMove => ~SessionsMove'
  BY <1>1 DEF Next, SessionsMove
<1> QED BY <1>1, <1>2, <1>3, <1>4, PTL DEF Spec, Toolbox!Spec

\* The toolbox's sessions come and go with their creation and deletion, and the processes that
\* run stay named, unless requests overlap, the answer to a start is lost, a kill fails, or
\* envd takes an earlier process for the session's (handlers/daytona_compat.py).
THEOREM SessionsInTheRun == Spec => SessionsKept
<1>1. Toolbox!Spec => Toolbox!SessionsKept
  BY SessionsAreKept, Bounds
<1>2. [Next]_vars /\ SessionsMove /\ [Toolbox!Kept]_(Toolbox!vars) => [which = "toolbox" => Toolbox!Kept]_vars
  <2>1. [Next]_vars /\ SessionsMove /\ UNCHANGED Toolbox!vars => UNCHANGED vars
    BY DEF Next, SessionsMove, vars, Toolbox!vars, meta, process, req, restarts
  <2> QED BY <2>1 DEF SessionsMove
<1>3. [Next]_vars /\ ~SessionsMove => [which = "toolbox" => Toolbox!Kept]_vars
  BY DEF SessionsMove
<1> QED BY <1>1, <1>2, <1>3, SessionsAlone, PTL DEF Spec, SessionsKept, Toolbox!SessionsKept

GuestFilesMove == which = "files"

\* Where a guest's files are what moves, they are as their module says.
LEMMA GuestFilesAlone == Spec => ([]GuestFilesMove /\ Files!Spec) \/ []~GuestFilesMove
<1>1. UNCHANGED vars => UNCHANGED <<which, Files!vars>>
  BY DEF vars, Files!vars, tree, writer, late, watching, seen, changed, known, hidden, faults,
         ops
<1>2. Init /\ GuestFilesMove => Files!Init
  BY DEF Init, GuestFilesMove
<1>3. [Next]_vars /\ GuestFilesMove => GuestFilesMove' /\ [Files!Next]_(Files!vars)
  BY <1>1 DEF Next, GuestFilesMove
<1>4. [Next]_vars /\ ~GuestFilesMove => ~GuestFilesMove'
  BY <1>1 DEF Next, GuestFilesMove
<1> QED BY <1>1, <1>2, <1>3, <1>4, PTL DEF Spec, Files!Spec

\* The answers to writes of a guest's files, and the events of a watcher, are true, but for
\* commands whose failure is not looked at (handlers/daytona_compat_support.py, envd).
LEMMA GuestFilesInTheRun == Spec => [][which = "files" => Files!Told]_vars
<1>1. Files!Spec => Files!FilesAsTold
  BY FilesToldSo, Bounds
<1>2. [Next]_vars /\ GuestFilesMove /\ [Files!Told]_(Files!vars) => [which = "files" => Files!Told]_vars
  <2>1. [Next]_vars /\ GuestFilesMove /\ UNCHANGED Files!vars => UNCHANGED vars
    BY DEF Next, GuestFilesMove, vars, Files!vars, tree, writer, late, watching, seen, changed,
           known, hidden, faults, ops
  <2> QED BY <2>1 DEF GuestFilesMove
<1>3. [Next]_vars /\ ~GuestFilesMove => [which = "files" => Files!Told]_vars
  BY DEF GuestFilesMove
<1> QED BY <1>1, <1>2, <1>3, GuestFilesAlone, PTL DEF Spec, Files!FilesAsTold

ModalFilesMove == which = "modalfiles"

\* Where a file of a Modal client is what moves, it is as its module says.
LEMMA ModalFilesAlone == Spec => ([]ModalFilesMove /\ ModalFile!Spec) \/ []~ModalFilesMove
<1>1. UNCHANGED vars => UNCHANGED <<which, ModalFile!vars>>
  BY DEF vars, ModalFile!vars, live, file, handle, saves, writes, faults
<1>2. Init /\ ModalFilesMove => ModalFile!Init
  BY DEF Init, ModalFilesMove
<1>3. [Next]_vars /\ ModalFilesMove => ModalFilesMove' /\ [ModalFile!Next]_(ModalFile!vars)
  BY <1>1 DEF Next, ModalFilesMove
<1>4. [Next]_vars /\ ~ModalFilesMove => ~ModalFilesMove'
  BY <1>1 DEF Next, ModalFilesMove
<1> QED BY <1>1, <1>2, <1>3, <1>4, PTL DEF Spec, ModalFile!Spec

\* A save of a file a Modal client opened takes away only cells of plain text that it wrote
\* over or never saw, unless its read had failed or met another process's save, or the call
\* that was to write the cell failed (handlers/modal_compat_gateway.py).
LEMMA ModalFilesInTheRun == Spec => [][which = "modalfiles" => ModalFile!WritesKept]_vars
<1>1. ModalFile!Spec => [][ModalFile!WritesKept]_(ModalFile!vars)
  BY ModalWritesKept, Bounds
<1>2. [Next]_vars /\ ModalFilesMove /\ [ModalFile!WritesKept]_(ModalFile!vars) => [which = "modalfiles" => ModalFile!WritesKept]_vars
  <2>1. [Next]_vars /\ ModalFilesMove /\ UNCHANGED ModalFile!vars => UNCHANGED vars
    BY DEF Next, ModalFilesMove, vars, ModalFile!vars, live, file, handle, saves, writes, faults
  <2> QED BY <2>1 DEF ModalFilesMove
<1>3. [Next]_vars /\ ~ModalFilesMove => [which = "modalfiles" => ModalFile!WritesKept]_vars
  BY DEF ModalFilesMove
<1> QED BY <1>1, <1>2, <1>3, ModalFilesAlone, PTL DEF Spec

\* A client of either compatible API is shown what it was told last: of its settings and its
\* sandbox's state (handlers/daytona_compat.py), and of tags and results, unless settings
\* overlap, one fails, or a snapshot writes back what it had read (handlers/modal_compat_gateway.py,
\* orchestrator/sandbox_runtime_ops.py).
THEOREM ShownInTheRun == Spec => []ShownAsSaid
<1>1. ShownAsSaid <=>
        (which = "daytona" => Daytona!ShownAsSaid) /\ (which = "modal" => Modal!ToldSo)
  BY DEF ShownAsSaid
<1> QED
  BY <1>1, DaytonaInTheRun, ModalInTheRun, PTL

\* The answers to writes of a guest's files, and the events of a watcher, are true
\* (handlers/daytona_compat_support.py, envd); the cells of plain text that a Modal client's save
\* takes away of a file it wrote over or never saw, unless its read had failed or met another
\* process's save, or the call failed that was to write them (handlers/modal_compat_gateway.py).
THEOREM FilesInTheRun == Spec => FilesAsTold
<1>1. [which = "files" => Files!Told]_vars /\ [which = "modalfiles" => ModalFile!WritesKept]_vars
        => [/\ which = "files" => Files!Told
            /\ which = "modalfiles" => ModalFile!WritesKept]_vars
  OBVIOUS
<1> QED
  BY <1>1, GuestFilesInTheRun, ModalFilesInTheRun, PTL DEF FilesAsTold

\* The types of what Keys keeps, in the composition.
LEMMA KeysTyped == Spec => [](which = "keys" => Keys!TypeOK)
<1>1. Keys!Spec => []Keys!TypeOK
  BY KeyTypesAlways, Bounds
<1>2. ~KeysMove => (which = "keys" => Keys!TypeOK)
  BY DEF KeysMove
<1> QED BY <1>1, <1>2, KeysAlone, PTL

\* The types of what Mongo keeps, in the composition.
LEMMA RowsTyped == Spec => [](which = "mongo" => Mongo!TypeOK)
<1>1. Mongo!Spec => []Mongo!TypeOK
  BY MongoTypesAlways
<1>2. ~RowsMove => (which = "mongo" => Mongo!TypeOK)
  BY DEF RowsMove
<1> QED BY <1>1, <1>2, RowsAlone, PTL

\* The types of what Snap keeps, in the composition.
LEMMA SnapshotsTyped == Spec => [](which = "snap" => Snap!TypeOK)
<1>1. Snap!Spec => []Snap!TypeOK
  BY SnapTypesAlways
<1>2. ~SnapshotsMove => (which = "snap" => Snap!TypeOK)
  BY DEF SnapshotsMove
<1> QED BY <1>1, <1>2, SnapshotsAlone, PTL

\* The types of what Pool keeps, in the composition.
LEMMA SegmentTyped == Spec => [](which = "pool" => Pool!TypeOK)
<1>1. Pool!Spec => []Pool!TypeOK
  BY PoolTypeInvariance, Bounds
<1>2. ~SegmentMoves => (which = "pool" => Pool!TypeOK)
  BY DEF SegmentMoves
<1> QED BY <1>1, <1>2, SegmentAlone, PTL

\* The types of what Lease keeps, in the composition.
LEMMA LeaseTyped == Spec => [](which = "lease" => Lease!TypeOK)
<1>1. Lease!Spec => []Lease!TypeOK
  BY LeaseTypeInvariance, Bounds
<1>2. ~LeaseMoves => (which = "lease" => Lease!TypeOK)
  BY DEF LeaseMoves
<1> QED BY <1>1, <1>2, LeaseAlone, PTL

\* The types of what Routing keeps, in the composition.
LEMMA RoutesTyped == Spec => [](which = "routing" => Routing!TypeOK)
<1>1. Routing!Spec => []Routing!TypeOK
  BY RoutingTypesAlways, Bounds
<1>2. ~RoutesMove => (which = "routing" => Routing!TypeOK)
  BY DEF RoutesMove
<1> QED BY <1>1, <1>2, RoutesAlone, PTL

\* The types of what Boot keeps, in the composition.
LEMMA BootstrapTyped == Spec => [](which = "boot" => Boot!TypeOK)
<1>1. Boot!Spec => []Boot!TypeOK
  BY BootTypesAlways
<1>2. ~BootstrapMoves => (which = "boot" => Boot!TypeOK)
  BY DEF BootstrapMoves
<1> QED BY <1>1, <1>2, BootstrapAlone, PTL

\* The types of what Agent keeps, in the composition.
LEMMA AgentsTyped == Spec => [](which = "agents" => Agent!TypeOK)
<1>1. Agent!Spec => []Agent!TypeOK
  BY AgentTypesAlways
<1>2. ~AgentsMove => (which = "agents" => Agent!TypeOK)
  BY DEF AgentsMove
<1> QED BY <1>1, <1>2, AgentsAlone, PTL

\* The types of what Host keeps, in the composition.
LEMMA ContainersTyped == Spec => [](which = "host" => Host!TypeOK)
<1>1. Host!Spec => []Host!TypeOK
  BY HostTypesAlways
<1>2. ~ContainersMove => (which = "host" => Host!TypeOK)
  BY DEF ContainersMove
<1> QED BY <1>1, <1>2, ContainersAlone, PTL

\* The types of what Ssh keeps, in the composition.
LEMMA TerminalsTyped == Spec => [](which = "ssh" => Ssh!TypeOK)
<1>1. Ssh!Spec => []Ssh!TypeOK
  BY SshTypesAlways
<1>2. ~TerminalsMove => (which = "ssh" => Ssh!TypeOK)
  BY DEF TerminalsMove
<1> QED BY <1>1, <1>2, TerminalsAlone, PTL

\* The types of what Context keeps, in the composition.
LEMMA ContextTyped == Spec => [](which = "context" => Context!TypeOK)
<1>1. Context!Spec => []Context!TypeOK
  BY ContextTypesAlways, Bounds
<1>2. ~ContextMoves => (which = "context" => Context!TypeOK)
  BY DEF ContextMoves
<1> QED BY <1>1, <1>2, ContextAlone, PTL

\* The types of what Docker keeps, in the composition.
LEMMA DockerfilesTyped == Spec => [](which = "docker" => Docker!TypeOK)
<1>1. Docker!Spec => []Docker!TypeOK
  BY DockerTypesAlways
<1>2. ~DockerfilesMove => (which = "docker" => Docker!TypeOK)
  BY DEF DockerfilesMove
<1> QED BY <1>1, <1>2, DockerfilesAlone, PTL

\* The types of what Envd keeps, in the composition.
LEMMA StreamsTyped == Spec => [](which = "envd" => Envd!TypeOK)
<1>1. Envd!Spec => []Envd!TypeOK
  BY EnvdTypesAlways, Bounds
<1>2. ~StreamsMove => (which = "envd" => Envd!TypeOK)
  BY DEF StreamsMove
<1> QED BY <1>1, <1>2, StreamsAlone, PTL

\* The types of what Bridge keeps, in the composition.
LEMMA BridgeTyped == Spec => [](which = "bridge" => Bridge!TypeOK)
<1>1. Bridge!Spec => []Bridge!TypeOK
  BY BridgeTypesAlways, Bounds
<1>2. ~BridgeMoves => (which = "bridge" => Bridge!TypeOK)
  BY DEF BridgeMoves
<1> QED BY <1>1, <1>2, BridgeAlone, PTL

\* The types of what Daytona keeps, in the composition.
LEMMA DaytonaTyped == Spec => [](which = "daytona" => Daytona!TypeOK)
<1>1. Daytona!Spec => []Daytona!TypeOK
  BY DaytonaTypesAlways, Bounds
<1>2. ~DaytonaMoves => (which = "daytona" => Daytona!TypeOK)
  BY DEF DaytonaMoves
<1> QED BY <1>1, <1>2, DaytonaAlone, PTL

\* The types of what Modal keeps, in the composition.
LEMMA ModalTyped == Spec => [](which = "modal" => Modal!TypeOK)
<1>1. Modal!Spec => []Modal!TypeOK
  BY ModalTypesAlways, Bounds
<1>2. ~ModalMoves => (which = "modal" => Modal!TypeOK)
  BY DEF ModalMoves
<1> QED BY <1>1, <1>2, ModalAlone, PTL

\* The types of what Toolbox keeps, in the composition.
LEMMA SessionsTyped == Spec => [](which = "toolbox" => Toolbox!TypeOK)
<1>1. Toolbox!Spec => []Toolbox!TypeOK
  BY ToolboxTypesAlways, Bounds
<1>2. ~SessionsMove => (which = "toolbox" => Toolbox!TypeOK)
  BY DEF SessionsMove
<1> QED BY <1>1, <1>2, SessionsAlone, PTL

\* The types of what Files keeps, in the composition.
LEMMA GuestFilesTyped == Spec => [](which = "files" => Files!TypeOK)
<1>1. Files!Spec => []Files!TypeOK
  BY FilesTypesAlways, Bounds
<1>2. ~GuestFilesMove => (which = "files" => Files!TypeOK)
  BY DEF GuestFilesMove
<1> QED BY <1>1, <1>2, GuestFilesAlone, PTL

\* The types of what ModalFile keeps, in the composition.
LEMMA ModalFilesTyped == Spec => [](which = "modalfiles" => ModalFile!TypeOK)
<1>1. ModalFile!Spec => []ModalFile!TypeOK
  BY ModalFileTypesAlways, Bounds
<1>2. ~ModalFilesMove => (which = "modalfiles" => ModalFile!TypeOK)
  BY DEF ModalFilesMove
<1> QED BY <1>1, <1>2, ModalFilesAlone, PTL

\* The types of the rows and the records of the control plane.
LedgerTypes ==
  /\ which = "keys" => Keys!TypeOK
  /\ which = "mongo" => Mongo!TypeOK
  /\ which = "snap" => Snap!TypeOK
  /\ which = "pool" => Pool!TypeOK
  /\ which = "lease" => Lease!TypeOK

\* The types of routes, hosts, agents and terminals.
PlaceTypes ==
  /\ which = "routing" => Routing!TypeOK
  /\ which = "boot" => Boot!TypeOK
  /\ which = "agents" => Agent!TypeOK
  /\ which = "host" => Host!TypeOK
  /\ which = "ssh" => Ssh!TypeOK

\* The types of uploads, Dockerfiles, streams and bridges.
ChannelTypes ==
  /\ which = "context" => Context!TypeOK
  /\ which = "docker" => Docker!TypeOK
  /\ which = "envd" => Envd!TypeOK
  /\ which = "bridge" => Bridge!TypeOK

\* The types of the compatible APIs and the files behind them.
GatewayTypes ==
  /\ which = "daytona" => Daytona!TypeOK
  /\ which = "modal" => Modal!TypeOK
  /\ which = "toolbox" => Toolbox!TypeOK
  /\ which = "files" => Files!TypeOK
  /\ which = "modalfiles" => ModalFile!TypeOK

\* The types of the rows and the records of the control plane, whichever of them moves.
LEMMA LedgerTypesInTheRun == Spec => []LedgerTypes
<1>1. /\ (which = "keys" => Keys!TypeOK)
      /\ (which = "mongo" => Mongo!TypeOK)
      /\ (which = "snap" => Snap!TypeOK)
      /\ (which = "pool" => Pool!TypeOK)
      /\ (which = "lease" => Lease!TypeOK)
      => LedgerTypes
  BY DEF LedgerTypes
<1> QED
  BY <1>1, KeysTyped, RowsTyped, SnapshotsTyped, SegmentTyped, LeaseTyped, PTL

\* The types of routes, hosts, agents and terminals, whichever of them moves.
LEMMA PlaceTypesInTheRun == Spec => []PlaceTypes
<1>1. /\ (which = "routing" => Routing!TypeOK)
      /\ (which = "boot" => Boot!TypeOK)
      /\ (which = "agents" => Agent!TypeOK)
      /\ (which = "host" => Host!TypeOK)
      /\ (which = "ssh" => Ssh!TypeOK)
      => PlaceTypes
  BY DEF PlaceTypes
<1> QED
  BY <1>1, RoutesTyped, BootstrapTyped, AgentsTyped, ContainersTyped, TerminalsTyped, PTL

\* The types of uploads, Dockerfiles, streams and bridges, whichever of them moves.
LEMMA ChannelTypesInTheRun == Spec => []ChannelTypes
<1>1. /\ (which = "context" => Context!TypeOK)
      /\ (which = "docker" => Docker!TypeOK)
      /\ (which = "envd" => Envd!TypeOK)
      /\ (which = "bridge" => Bridge!TypeOK)
      => ChannelTypes
  BY DEF ChannelTypes
<1> QED
  BY <1>1, ContextTyped, DockerfilesTyped, StreamsTyped, BridgeTyped, PTL

\* The types of the compatible APIs and the files behind them, whichever of them moves.
LEMMA GatewayTypesInTheRun == Spec => []GatewayTypes
<1>1. /\ (which = "daytona" => Daytona!TypeOK)
      /\ (which = "modal" => Modal!TypeOK)
      /\ (which = "toolbox" => Toolbox!TypeOK)
      /\ (which = "files" => Files!TypeOK)
      /\ (which = "modalfiles" => ModalFile!TypeOK)
      => GatewayTypes
  BY DEF GatewayTypes
<1> QED
  BY <1>1, DaytonaTyped, ModalTyped, SessionsTyped, GuestFilesTyped, ModalFilesTyped, PTL

\* Whichever component moves, what it keeps has its types; the three that are left out have
\* their theorems in SandboxLifecycleProofs, MongoSegmentProofs and TemplateImagesProofs.
THEOREM TypesInTheRun ==
  Spec => [](which \notin {"lifecycle", "segment", "images"} => TypesOK)
<1>1. LedgerTypes /\ PlaceTypes /\ ChannelTypes /\ GatewayTypes
      => (which \notin {"lifecycle", "segment", "images"} => TypesOK)
  BY DEF LedgerTypes, PlaceTypes, ChannelTypes, GatewayTypes, TypesOK
<1> QED
  BY <1>1, LedgerTypesInTheRun, PlaceTypesInTheRun, ChannelTypesInTheRun, GatewayTypesInTheRun,
     PTL
=============================================================================
