# A verification project for the sandbox platform

TLA+ models of the parts of this repository that are hard to test: the warm
pool of pre-booted sandboxes with its segments and its leader, the life of a
sandbox between the database and the container runtime, templates and their
images, the ways into a guest, and the compatibility layers that keep state of
their own. TLC checks them on small instances; TLAPS proves the most important
results for every size.

Paths below are relative to `src/api-service/` unless they say otherwise.

## The system

Clients call a control plane (`api-service`, several replicas behind one
service). It keeps its state in a database, PostgreSQL or MongoDB, and runs
sandboxes as containers on pods of a data plane (`runtime-gateway`), one of
which every sandbox is pinned to. Inside a sandbox the daemon `envd` runs
processes for the client. A replica has an event loop, a pool of 64 threads for
blocking calls (`async_runner.py`), one thread per warm-pool segment with an
executor for provisioning, a thread that keeps the segments in step with the
database, and one maintenance thread.

| Component | State | Operations | Correct when |
|---|---|---|---|
| Sandboxes table (`database/postgres.py`, `mongo.py`) | rows: state, pool flag, owner, metadata, lease | insert, set state, merge metadata, claim, list, purge, delete | a statement never brings a deleted row back; a claim picks one owner |
| Warm pool (`orchestrator/warm_sandbox_pool.py`, `sandbox_gateway_ops.py`) | futures, ready count, slots; segment row with `desired_size` and `inflight_count` | drain, inventory, trim, reset, reserve, submit; acquire | a handed-out sandbox stays the client's; the counter never blocks the refill; the pool settles at its size |
| Segment counter on MongoDB | the segment document | reserve, complete, reset, resize, disable | each call looks atomic |
| Pool segments (`MultiWarmSandboxPool`) | pools by key, persisted segments | boot, ensure, resize, remove, sync | one loop per replica; pools follow the row |
| Leadership (`k8s_leader_election.py`, advisory locks) | lease, lock, cached connection, cached answer | acquire or renew, fall back | two leaders only where a fallback explains it; somebody leads again |
| Lifecycle (`sandbox_runtime_ops.py`, `sandbox_creation_ops.py`, `handlers/sandboxes.py`) | row and container of one sandbox, what each thread read | create, probe, pause, resume, refresh, kill | no live container without a row unless a named failure explains it; leases are enforced; dead containers are noticed |
| Maintenance (`sandbox_maintenance_ops.py`) | the rows and images it listed | reconcile, reap, purge, prune | works on what it listed without undoing what happened since |
| Container manager (`container_manager.py`, `runtime_gateway_execution.py`) | one Docker client, containers | create, kill, exec, pause, resume, prune | what retries leave behind is accounted for |
| Envd (`envd_guest/server.py`) | processes, history, subscribers, watchers, files | start, connect, emit, end, watch, write | streams are in order and whole, and end; events are true |
| Agents (`agents/runtime.py`) | state, thread, stop event | spawn, run, kill | the state reflects the thread; a killed agent ends |
| Templates (`handlers/templates.py`, `orchestrator/template_*.py`, `sandbox_template_build_ops.py`) | rows, build records, images, registry, uploads | build, register, repair, reconcile, prune, upload | references agree; an image in use is kept; a record ends |
| Snapshots (`sandbox_runtime_ops.py`) | images, rows | commit, push, restore, delete, prune | a listed snapshot can be restored |
| API keys (`middleware/auth.py`) | rows, cache with a TTL | look up, create, revoke | a revoked key stops working |
| Guest access (`sandbox_guest_ops.py`, `handlers/internal_routing.py`, `runtime-gateway/ws_bridge.py`) | routes, bootstrap state, connections | bootstrap, look up, forward, dial, pump | ready means ready; a request reaches its own guest; a normal end is whole |
| Compatibility (`handlers/daytona_*.py`, `e2b_compat.py`, `modal_compat_*.py`) | sessions and settings in metadata, SSH tokens, open files and tags of each process | exec, signal, set, stop, start, terminal, open, flush | what a client is told is so; nothing is lost |
| Portal, observability | little of their own | translate, render | |

They interact by calls from control plane to gateway over HTTP, which may be
refused or stay unanswered (`runtime_gateway_execution.py` turns a lost answer
into a default); by rows several threads of several replicas read and write
without holding a lock between the two; by dictionaries in a row's metadata
that are read, changed and written as a whole; and by lists that are read first
and worked through later. That is where the hard behaviours are: a decision
taken on a state that has changed, slots that must be given back exactly once,
calls whose effect is unknown, a request that has timed out while its thread
goes on, a leader that is no longer one. `PROJECT.json` lists each under
"hazards" at its line, with the properties that bear on it, and says in
"components" what is modelled and what is not.

## The modules

    SandboxStore            the sandboxes table, statement by statement
      WarmPool              one pool segment          + WarmPoolProofs
      SandboxLifecycle      one client's sandbox      + SandboxLifecycleProofs
    SegmentCounter          what the counter promises (abstract)
      MongoSegment          how MongoDB keeps it      + MongoSegmentProofs
    PoolSegments            size and image of a segment on every replica
    LeaderLease             who leads
    MongoRows               the sandboxes on MongoDB
    TemplateStore           the row of a template
      TemplateImages        builds, repairs, reconciles, prunes  + TemplateImagesProofs
    ParsedDockerfile        a Dockerfile applied line by line
    BuildContext            uploads of contexts
    Snapshots               images of sandboxes
    ContainerHost           the container manager of a gateway
    EnvdProcess             a process and its streams
    AgentRuntime            agents' threads
    ApiKeys                 keys, cache and tokens
    GuestBootstrap          from a container to services that answer
    GuestRouting            the way of a request to its guest
    GuestBridge             a WebSocket over several hops
    GuestFiles              writes by pieces, watchers
    ToolboxSessions         Daytona's shells and terminals
    ModalGateway            Modal's tags, results and commands
    ModalFiles              files a Modal client has open
    DaytonaSandboxes        Daytona's settings and states
    SshTerminal             Daytona's terminals over SSH

    Components              the variables of all components side by side
      ControlComponents     nine of the control plane   + ControlProofs
      GuestComponents       ten around a guest          + GuestProofs
        MCComponents        all of them, one at a time + ComponentProofs

`SandboxStoreProofs` has the lemmas on the table's operators. Each `MC...`
module adds what TLC needs, each `.cfg` one instance. There is no recursive
operator in any of them.

`MCComponents` puts the components that share no state beside one another: a
behaviour of it is one of a single component, which `which` names and which
never changes. `Components` declares the constants and the variables `x1` to
`x14`, as many as the largest component needs; a component's own name for a
variable is an operator (`row == x1`) that its instance picks up, and two
components use the same `x` freely since no behaviour is of both. Where two
components need a constant of different size, the instance substitutes it
(`Requests <- GuestRequests`). `ControlComponents` and `GuestComponents` are the
instances that proofs are about, apart because the prover slows down with
everything a module knows. `MCLoops` does the same with fewer components, under
fairness; it substitutes `x1`, `x2`, ... in order in its instances.

**SandboxStore** gives a row four fields (state, pool flag, whether its metadata
carries `runtime_error`, owner), and one operator per statement or per
transaction. `MarkLost` is two statements in the code, the state and the
metadata; they are one step here.

**WarmPool** follows `WarmSandboxPool._top_up` step by step: `StartRound` and
`CompleteOne` are the two halves of `_drain_completed_provisions`,
`ListInventory`/`InspectRow` the inventory pass, `CountReady`, `ListExcess`,
`TrimOne` and `TrimDone` the trim, `ResetStale` the stale reset together with
the computation of free slots, `Reserve`, `Submit` and `ReleaseUnsubmitted` the
refill. `pc`, `ready`, `slots`, `pend` and `batch` are the loop's local state.
`job` is an executor thread in `_provision_one`, from `CreateContainer` over
`InsertRow` to `BootOk` or `BootFails`. `ListForClaim` and `Claim` are an
acquire. `maint` is the row one maintenance thread has listed and not handled.
Crashes of a replica, failing calls, a pod that discovery misses, dying
containers and changes of leader cost one of `MaxEvents`.
It moves the leadership at any moment, which is more than `LeaderLease` allows.
What it leaves out: more segments and gateways than one, replacement of rows
with an outdated image (list and kill, like the trim), and clocks: a lease, the
stale window and the retention of lost rows elapse at any moment. `kill_sandbox`
is one step in it, which loses nothing a claim could see: a claim that commits
inside it ends like one that commits between the listing and the kill. Its own
steps are apart in SandboxLifecycle.

**SandboxLifecycle** has a set of request threads and a set of maintenance
threads; `th[t]` says which operation a thread runs, where it is in it, and the
row state it read before. Every database statement and every gateway call is a
step. `Ask` is a state query, whose answer may be "unknown"; `SwitchCall` and
`KillCall` may take effect with their answer lost. `GiveUp` is the timeout of
the create handler, whose thread goes on. `cause` is history: it records the
events after which a live container may be left without a row, so that
`NoSilentOrphan` can say there are no others.

**SegmentCounter** states the counter with atomic calls: reserve works with one
of the sizes the segment had during the call, complete may fail and leave its
slots in the counter. **MongoSegment** is the code: a read, a conditional update
on `inflight_count`, and a retry, at most `MaxTries` times (8 in the code).
**MongoRows** has the other statements on MongoDB: a claim is a find and a
conditional update, a merge a find and an update, a deletion three statements.

**PoolSegments** keeps the segment's row, each replica's pool object (size,
image, running or not), how many loops it has and who is inside
`ensure_pool_for`; requests resize, create, build and delete, and `Sync` is
`_sync_persisted_segments`. **LeaderLease** counts time in refresh intervals
and only as ages; a call is a get and a conditional write that may each be slow,
unanswered or replaced by the database lock, and `belief` is the answer a
replica keeps.

**TemplateImages** has the requests that build (direct, streamed, E2B's two
calls, a base image), each with its record, `Ensure`/`Repair`/`Reconcile` on
workers, and the prune with its old list. A reference is a tag, and what a gateway
or the registry holds under a tag is the request it was built from: the system's own
tags are numbered in the order they are first built, but a client may name one
(`image_tag`, `Asked`), and two gateways may then hold different images under it.
`made` is history: the requests built under each tag. **TemplateStore** has the
statements on the row. **ParsedDockerfile** reads a Dockerfile line by line, with the two
dictionaries the code keeps, executions whose answer was lost (`late`) and the
three statements that register the result.

**EnvdProcess** has the tasks of one process on envd's event loop, so that a step
is what happens between two awaits or two yields. A stream is one of two kinds:
the legacy handler iterates over the live history, `_event_stream` over a copy.
The second kind loses what is emitted while it yields its copy. That is what the
code does and no comment or test denies it, so `NothingElseMissed` and
`StreamsEnd` state exactly this exception.

In **ToolboxSessions**, **DaytonaSandboxes** and **SshTerminal** a request is
what its handler read, where it waits and what it will write; handlers of one
replica share an event loop, so a step is what one does between two awaits.
A shell is started by envd before it answers (`Starts`), and the answer may be lost
(`Fails`); `merge_sandbox_metadata` is its SELECT and its UPDATE (`Merge`, `Write`),
between which no other handler of that replica runs. The database answers them:
a save that fails, which some of the handlers suppress, is not modelled.
In **ModalGateway** and **ModalFiles** each process has a memory of its own, with
calls under way beside it (`merges`, `commits`, `kills`, `saves`). A snapshot
(`Snapshot`, `Committed`) merges back the metadata it read before the commit. A save
is a truncation and appended pieces, of which any may fail, and under gVisor is tried
once more; it holds the sandbox's lock in its process, until that process gives up
waiting for the gateway. Reading decodes the bytes as text; `Odd` are the cells that
this changes.

**BuildContext** has archives of different numbers of chunks. **GuestRouting** has the
steps of a route apart: the row, the failure, the inspection and the probe, the row
again with its recorded address, the check whether it runs, and the inspection whose
answer becomes the route.

`stale`, `overlap`, `spared` and the like are history: they mark the cases the
code does lose (see "Exceptions"), and the properties say there are no others.

## What the runs check

| Run | Instance | Shows |
|---|---|---|
| `warm_pool` | 2 replicas, 2 clients, 2 ids, target 1, one fault, 2 claims | `NoPhantomReservations`: slots that count are owed by somebody or were forgotten by a fault. `HandoffExclusive`, `HandoffIsFinal`: what was handed out stays the client's |
| `warm_pool_live` | 1 replica, 3 ids, target 1, one fault, one claim, fairness | `OverProvisionBounded`, and `Converges`: the pool settles at its target |
| `warm_pool_inflight` (violation) | target 2, concurrency 3, no fault | the counter falls below the create work it is documented to represent |
| `warm_pool_boot` (violation) | target 2, no fault | a row can be claimed before its guest is bootstrapped |
| `lifecycle` | 2 request threads, 1 maintenance thread, 3 requests, 2 faults | `NoSilentOrphan`, `DeletionFinal` |
| `lifecycle_live` | 1 request thread, 3 requests, 2 faults, fairness | `DeadIsNoticed`, `LeaseEnforced`, `AbandonedIsReclaimed` |
| `lifecycle_lost` (violation) | 1 request thread, 2 requests, no fault | a live sandbox is marked lost as died |
| `mongo_segment` | 2 workers, sizes to 2, 2 tries | `ImplementsCounter`, `SlotsAccounted` |
| `templates` | a streamed, an E2B and a base request of which two are made, 2 generated tags, 1 worker, 1 gateway, registry, a fault | `RefsAgree`, `PruneSparesReferenced` |
| `template_replace` (violation) | one request at a time | a later registration is undone by a repair |
| `components` | 22 components, below | 18 properties |
| `loops` | 5 components, one of them twice, with fairness, below | 6 liveness properties |

`components` and `loops` each check several components that share no state in
one run. A behaviour is a behaviour of exactly one component, and a property is
the component's own under `which = "..."`.

| Property (run `components`) | Component and instance | Says |
|---|---|---|
| `TypesOK` | all | each component's state has its types |
| | TemplateImages: 2 builds under one tag that both clients name (`AskedTags`, no generated ones), a worker, 2 gateways | a row's references name one tag, and one image is held under it but where both builds were made (a conjunct of `TypesOK`) |
| `RevocationHolds` | ApiKeys: 2 replicas, 2 threads | a revoked key is refused everywhere after one cached answer's life, and where it was revoked at once but for a lookup under way |
| `SessionsKept` | ToolboxSessions: 1 shell, 1 terminal, 3 requests, a restart of envd | sessions and commands' records go and come only as asked; a running shell stays named from its start on, unless the answer to its start is lost or envd still knows an earlier process that its tag names |
| `FilesAsTold` | GuestFiles: 2 writers, a fault, an operation | a success has left the file as written; watchers' clients know the tree |
| | ModalFiles: 2 open files of one process, 2 cells, one of them odd, a save waited for, a fault | a save by pieces takes away only plain text that its handle wrote over or had not seen, or that it had still to write when it failed |
| `NormalEndIsWhole` | GuestBridge: 2 hops, 2 tries, a fault | a connection that ends with 1000 has delivered everything |
| `ReachesItsOwn` | GuestRouting: 1 request, 2 sandboxes, 2 gateways, 1 address, 2 faults | a request reaches the guest of its sandbox |
| `ReadyWasSeen` | GuestBootstrap: 2 faults | ready was seen; the command was started once |
| `LeavesNoShell` | SshTerminal: 2 replicas, 1 token, 2 messages | a closed terminal has no shell |
| `ContextIsWhole` | BuildContext: 2 clients, archives of 1 and 2 chunks, either store | a build has one client's whole archive |
| `HandedOutOnce` | MongoRows: 2 threads, 2 clients, crashes | a pooled row is claimed once, and stays out of the pool |
| `ShownAsSaid` | DaytonaSandboxes: 2 requests, a fault | settings and state are shown as told |
| | ModalGateway: 2 replicas, 1 tag, 2 settings or snapshots, a fault | tags are shown as set, results as they were |
| `SnapshotsRestorable` | Snapshots: 2 references, 2 gateways, registry | a listed snapshot's image is there |
| `BuiltAsWritten` | ParsedDockerfile: 2 lines, 2 names, 2 literals | each line was done before the next began; one environment for text and process |
| `OneLoop` | PoolSegments: 1 replica, 2 requests, 2 images, a crash | no two loops for a segment in a replica |
| `LeadersExclusive` | LeaderLease: 2 replicas, 2 faults, either database | the lease has one leader |
| `SingleRunHonest` | AgentRuntime: 2 agents | a single run runs once unless it raised, and does not end as running |
| `NoLeftovers` | ContainerHost: 2 threads, 1 name | what a failed create or a kill leaves is accounted for |
| `StreamsWhole` | EnvdProcess: 2 streams | order, completeness, a terminal's end event last |

| Property (run `loops`) | Component | Says |
|---|---|---|
| `PoolsFollow` | PoolSegments: 3 requests, a crash | a size and image that stay in the row reach the pool |
| `SomeoneLeads` | LeaderLease: 2 replicas, a fault | some replica leads again and again |
| `KilledEnds` | AgentRuntime | a killed agent's thread ends |
| `StreamsEnd` | EnvdProcess | a stream ends, or its client leaves, after the process |
| `RecordsEnd` | TemplateImages (`builds`): a direct, a streamed and an E2B request, two made, a fault | a build record does not stay running unless its request was cut off |
| `UnservedIsNoticed` | TemplateImages (`images`): a direct build, a worker, 2 faults | a template whose image is gone gets one again or says it has none |

The four violations are "findings" in `PROJECT.json`, with the line of the
repository each contradicts.

**Exceptions.** Several properties name a case in which the code does lose
something that neither its comments nor its tests promise to keep; the history
variable in the property marks that case, and the property says that nothing
else goes wrong. They are: metadata written back by an overlapping request, by
a snapshot or by another replica (`SessionsKept`, `ShownAsSaid`); a session whose
tag still names an earlier process in envd, ended or not, and a shell whose start
was not answered, which runs on without a session (`SessionsKept`); a tag under which
two different requests were built (`RefsAgree`); a piece of an
upload that failed, ran twice or ran late (`FilesAsTold`); a message of the
client that meets a closed guest (`NormalEndIsWhole`); a container that ends
between lookup and dial (`ReachesItsOwn`); a gateway that does not answer and a
template whose marker is lost (`ReadyWasSeen`); a channel that goes while its
shell starts, or whose kill failed (`LeavesNoShell`); a put that ended half-way
or overlaps the read, or whose deletion met a longer archive's put past its own
length, so that both are answered with success and their chunks mixed
(`ContextIsWhole`); a clean-up that failed or a late
request (`NoLeftovers`); a fallback to the database lock (`LeadersExclusive`); a
run that ends before `start` set the state (`SingleRunHonest`); a lookup under
way (`RevocationHolds`); settings of tags that overlap, do not get into the row, or get there
while a snapshot has read the row and not written it back (`ShownAsSaid`); an open
file whose read failed or met another process's save, writes of others since it was
opened, the pieces a failed save had still to write, and what is not plain text
(`FilesAsTold`).

Three hazards have no property. Rows that stay pausing, paused or resuming keep their
container for ever: `LeaseEnforced` and `AbandonedIsReclaimed` speak of running rows,
as the maintenance passes do. A terminal whose channel goes while its shell starts, or
whose kill fails, leaves the shell: `LeavesNoShell` says that it is no other. And a
kill need not end: `kill_sandbox` deletes the row when the look after an unanswered
kill is not answered either, and then nobody kills the container again
(`sandbox_runtime_ops.py:516-537`); `NoSilentOrphan` and `NoLeftovers` name what is
left, and no property says that a container that is to go goes.

**Bounds.** `MaxEvents`, `MaxFaults`, `MaxOps`, `MaxClaims`, `MaxChunks`,
`MaxRequests`, `MaxCrashes`, `MaxMoves`, `MaxEdits` and the like bound what the
environment does, never what the code does in response. Two replicas are the
least that gives a deposed leader beside a new one, two clients the least for a
double handoff, and the second id lets a row be replaced while the first is in a
client's hands. The runs with a target of one keep one row ready; the
over-provisioning of the two violations needs a target of two. Ids are reused
when nothing refers to them any more, which stands for fresh ones. Two faults
are a lost answer and the lost look after it, the case in which a kill drops a
row. Two tries of a conditional update or of a call show both a retry and giving
up. The sandbox of `lifecycle` is one, since no operation there touches two.
Two hops are the api-service before the owning gateway; one address for two
sandboxes makes it be used again. Two requests on one row, one dictionary or
one file overlap in every way a pair can; three on the toolbox leave one more to
meet what two left. That three were not enough there came out in the proof (see
"What is proved"): what the property now excepts needs five requests, too many
for the run, and the theorem covers them. PoolSegments has one replica in both runs because replicas
meet only in the row, which the other requests change as another replica would;
its lines for several replicas are there for larger instances. It leaves out that the
provisioner rewrites the reference a pool provisions from
(`warm_sandbox_pool.py:308-310`), which changes neither the size nor the number of
loops; `PoolsFollow` speaks of the image the pool was given. The lease ages
stand for 15 seconds against a refresh of 5, and two requests with a timeout of
5 seconds each. That timeout is httpx's, which is one per phase of a request
(connect, write, read, pool), and the ages of the lease are by each replica's own
clock as the code reads them: a request whose phases each take seconds, or clocks
that differ by as much, are outside `LeaseBounds`, and there two replicas may lead.
The clock of `ApiKeys` stops a while after the revocation, when every cached answer
has died. `CHECK_DEADLOCK FALSE` stands where the requests or the process's output
run out and everything may come to rest.

**Fairness.** Threads and tasks that are running go on (weak fairness of each
loop, executor thread, operation and task). The maintenance loop calls
reconcile and the reaper in every cycle and each goes over all rows, but the
thread may be busy with another row when this one becomes listable: hence
strong fairness of listing it. The sync thread comes round every 1.5 seconds, leaders
ask again and again and time passes (`SomeoneLeads`), a command ends by its
timeout (that of the gateway's HTTP call) and a kill waits five seconds
(`KilledEnds`). A build, and each statement of its request, comes to an end
(`RecordsEnd`). Clocks advance
(`SlotsAge`, `Purge`) and a pod that is missed is found again (`DiscoveryBack`);
a lease may be as long as its client likes, so that a dead container has to be
noticed by reconcile and not by the reaper. No fairness is assumed of clients,
crashes or faults. `Converges` holds under `SlowPulls = FALSE`, the assumption
the stale window makes of provisioning.

## What is proved

For all values of the constants (assumptions: the named `ASSUME`s only).

The warm pool (`WarmPoolProofs`):

- `TypeInvariance`: `TypeOK` is inductive. The counter stays within
  `0..Desired` because reserve clamps before it adds and complete has a floor
  (`ReserveRange`, `CompleteRange`).
- `HandoffSafety` and `HandoffFinality`: `HandoffExclusive` is not inductive.
  `OwnershipInv` adds what excludes the late writers: only a row in the pool or
  an absent one is without an owner, an id whose provisioner has not inserted
  its row yet has none and is held by nobody, and a row with an owner is out of
  the pool. Steps other than a claim, a submit and an insert are "quiet"
  (`Quiet`): they keep each row's owner and flag, or delete it, and one lemma
  shows that quiet steps keep `OwnershipInv`.
- `SlotsHaveOwners`: `NoPhantomReservations`. The counter is compared with the
  size of a union over replicas, and a replica may know a future that another
  one knows too (a row's id is used again). The invariant `SlotInv` adds only
  that a batch is empty outside the drain; the work is in the lemmas that say
  by how much the two sets grow and shrink (`KnownLoses`, `UnsubmittedChange`).
- `OvershootBounded`: `OverProvisionBounded` for one replica with one executor
  slot, which is the default, for any target and any number of sandboxes and
  faults. The count of ready rows is stale when it is used; `SizeInv` bounds
  what it may miss by the faults that stranded rows, `FuturesInv` says that with
  one slot who works is in a future the loop still knows. For two slots the
  bound is false, and TLC shows why (`Concurrency = 2`, target 2, no fault): a
  row is ready before its future is taken out, so the reservation's clamp
  subtracts live provisions that the counter has forgotten, as in the run
  `warm_pool_inflight`.

The life of a sandbox (`SandboxLifecycleProofs`), for any number of request and
maintenance threads:

- `TypeInvariance` and `DeletionIsFinal` (the action property `DeletionFinal`):
  a row appears by an insert only (`RowAppears`), and a thread that inserts is in
  a create of that sandbox.
- `OrphansExplained`: `NoSilentOrphan`. `OrphanInv` adds that a create that
  waits for its container has the sandbox to itself, that a kill that goes on
  to the row saw the container end or noted a cause, and that a live container
  without a row has a cause or a create about to insert its row.

The counter on MongoDB (`MongoSegmentProofs`):

- `Refinement`: MongoSegment implements SegmentCounter. The invariant `Inv` says
  what a worker knows between its read and its update: it read a size that the
  segment has had during the call, and if the counter still has the value it
  read, the grant it computed fits. Reads and retries map to stuttering, the
  update to the atomic call, giving up to `Fail`. `TypeInvariance` comes from
  the same invariant.
- `SlotsStayAccounted`: `SlotsAccounted`, over the slots the workers owe as a
  finite set of pairs.

Templates (`TemplateImagesProofs`): `TypeInvariance` and `ReferencesAgree`
(`RefsAgree`) from `TemplateInv`, which says of every copy of a row that some
worker read, and of every tag that some request built under, what it says of the
row itself, and that what is held under a tag is one of the images made under it;
`ReferencesAgree` then holds for every tag with one maker, asked for or generated.
`PruneIsSafe` (the action property `PruneSparesReferenced`) from `PruneInv` besides:
what is built and not stored yet is not old, and during a pass the row's warm image
is on the list, came back since, or is too new.

The components that share no state: `ControlProofs` and `GuestProofs` prove each
for its own specification, `ComponentProofs` for the composition that the run
`components` checks. Its argument is the same for each: the component that
moves at first moves for ever, so that its initial states and its steps are
those of its module, and what holds of it alone holds of the composition.

| Theorem | Property | Inductive invariant, and what it adds |
|---|---|---|
| `KeyRevocation` | `RevocationHolds` | `KeyInv`: what is cached ends in time; a thread that still has the row it read has had it since before the revocation |
| `MongoHandsOutOnce` | `HandedOutOnce` (action) | `MongoInv`: a document in the pool has no owner; each statement of a call finds only what its filter admits |
| `SnapshotsSafe` | `SnapshotsRestorable` | `SnapInv`: the image is there from the commit on; a pass keeps old images that have rows |
| `OneLeader` | `LeadersExclusive` | `LeaseInv`: an answer in use is no older than its call, who leads by the lease has it, and has not had it for longer than it leads; who may write it over saw it expire in that version |
| `OneLoopEach` | `OneLoop` | `SegmentInv`: who is inside `ensure_pool_for` has the lock, and knows whether the pool is on and has a loop |
| `LinesAreDone` | `BuiltAsWritten` | `DockerInv`: while the container is worked on, each line that was read was done in it in its turn, and what was lost sight of is one of them, so that its late end only repeats a line; then the same of the image, and of the row step by step |
| `WholeContexts` | `ContextIsWhole` | `ContextInv`: unless it is spoilt, the store has nothing, one client's archive that every put still has to meet (`Meets`), or a put's first chunks with one in its way or with every other put to meet it (`Partly`); what an undisturbed reader has is the beginning of one client's archive |
| `RoutesToItsOwn` | `ReachesItsOwn` | `RouteInv`: running containers have different addresses, a sandbox has one in its life, and a request whose sandbox did not end since the check knows its address |
| `NothingLeftOver` | `NoLeftovers` | `HostInv`: one create or kill has a name at a time; what has the name before an attempt is excused |
| `SingleRunsOnce` | `SingleRunHonest` | `AgentInv`: a thread begins once, a run that did not raise is the only one |
| `ReadyIsSeen` | `ReadyWasSeen` | `BootInv`: the row says that a bootstrap is open, the command is started by hand only where the template was not marked |
| `NoShellLeft` | `LeavesNoShell` | `ShellInv`: a shell is asked for once, a session kills only what it knows, and the kill of a channel that is gone is under way, was served or missed |
| `WholeStreams` | `StreamsWhole` | `StreamInv`: what was sent and what is queued are consecutive in the history, up to its end (`Streaming`) |
| `ShowsWhatItSaid` | `ShownAsSaid` (Daytona) | `DaytonaInv`: at most one request moves the sandbox while its state is told (`OneMoves`), and the state such a request would restore was shown as told, which one that failed has restored (`Restores`) |
| `ModalIsToldSo` | `ShownAsSaid` (Modal) | `ModalInv`: a kill that succeeded is of a sandbox that is gone (`KillsEnd`); the process that ran the command, and no other, remembers its end (`CommandKnown`); tags that are not in doubt are on their way to the row, or there and in what snapshots have read (`TagsKnown`) |
| `ModalWritesKept` | `FilesAsTold` (Modal; action) | `ModalFileInv`: a copy of a file, open or being saved, still has the plain text it saw and did not write over, unless its read had failed or met another process's save (`StillHas`), and a save has written no more pieces than it has |
| `FilesToldSo` | `FilesAsTold` (guest; action) | `FilesInv`: an upload that nothing disturbed has its pieces in the file as far as it came (`FilesWriters`); what the watcher has seen, and its client knows, is the tree but for changes not polled yet (`FilesWatcher`) |
| `SessionsAreKept` | `SessionsKept` (action) | `ToolboxInv`: a session's pid is of its own process (`PidsOwned`) and pids are given in order; a request beside which nothing was written has what the row has (`SessionsInStep`); and while nothing overlapped and no kill failed (`WhenCalm`), a deletion, a shell that begins again and a connection each find the session as they left it, and the first running process of a terminal is known to a request or to the row, or the answer to its start was lost (`TerminalsNamed`) |
| `WholeBridges` | `NormalEndIsWhole` | `BridgeInv`: with no fault there is a number of messages that came to each node, link after link has just those between its ends, with a close only behind them (`Flowing`); a hop that is not connected was not used (`Early`) |

`ShownAsSaid` and `FilesAsTold` speak of two components each; `ShownInTheRun` and
`FilesInTheRun` put their theorems together.

`SessionsAreKept` found the model's property wrong. Envd finds a process by its tag
and takes the first one that has it, ended ones included
(`envd_guest/server.py:310-317`). A terminal is created, opened and deleted, then
created again under the same id and opened, and the client leaves before envd has
said which pid the new shell has: the row names it by its tag, and envd takes the
killed shell of before for it. No request overlapped and no kill failed, and the
shell that runs cannot be reached or ended. This takes five requests; with three, the
bound of the run, TLC had seen nothing. `ShellsNamed` now names this case and nothing
wider, and holds for any number of requests.

Types: each of these components has a theorem for its `TypeOK`
(`LeaseTypeInvariance`, `PoolTypeInvariance`, and `...TypesAlways` for the others),
and `TypesInTheRun` states `TypesOK` of the composition whichever of those nineteen
moves. The other three (the lifecycle, the segment on MongoDB, templates) have
`TypeInvariance` in their own proof modules, and templates `ReferencesAgree`; they
are not in the theorem about the composition because the prover cannot cite a
theorem of a module that is only instantiated, and those three modules cannot be
extended beside one another (each has its own `Spec`).

**Assumptions.** They are on constants, named, and evaluated by TLC in every
run: numbers are natural, None and the like are not elements of the sets they
are told from (`DaytonaBounds`, `ModalBounds`, `FileBounds`, `FilesBounds`,
`ToolboxBounds` and the like), there is a hop (`BridgeBounds`), the composition's
bounds are numbers and its guest may send as much as its client (`Numbers`), and the
settings of the lease (`LeaseBounds`): an answer is renewed within a lease's life, a call's two
requests of 5 seconds end before 15 seconds are over, and an answer and the
call that replaces it before the database lock expires. In `GuestBridge` a close
is told from a message by its sign (1000 is `-1000`), since messages are numbered
without a bound there.

**Only model-checked.** Liveness (`Converges`, `DeadIsNoticed`, `LeaseEnforced`,
`AbandonedIsReclaimed`, the six of `loops`): TLAPS cannot reason about
fairness or ENABLED here. `OverProvisionBounded` beyond one replica and one slot:
false for two slots, as said. What `TypesOK` says of the lifecycle, the segment and
the templates inside `components` is proved in those components' own modules and not
for the composition, as said. Every other safety property of a passing run is stated
by a theorem.

## Not modelled

`PROJECT.json` has the reasons per component. In short:

- Portal, documentation, observability, schemas, settings and deployment: pages,
  reports and wiring without state that anything decides on.
- Modal's wire format, images and listings: they decode calls and map
  them to operations that are modelled elsewhere. Reading or seeking past the
  end of an open file (it is filled with zeros) is left out too.
- What Docker, Kubernetes, the registry, asyncssh and websockets do inside: they
  are the environment, with the failures the code handles.
- Strings: hashing, tokens, host names, request and response shapes, log lines.
- Placement over several gateways and resizing of a running sandbox's resources:
  arithmetic on a status that is read once, and a single call.

## Plan

1. Done: the modules above with their runs, and the proofs listed.
2. Done: every safety property of the passing runs has a theorem. Left to proofs:
   a bound on over-provisioning with several slots, which has to be found first,
   since the present one is false there.
3. Models, if more is wanted: the drain of stale images beside a resize, and
   several segments sharing one executor.
