--------------------------- MODULE TemplateImages ---------------------------
(***************************************************************************)
(* One template: the requests that build and register an image for it,     *)
(* their build records, the passes that keep the row's image references in *)
(* step with what the gateways and the registry hold, and the pruning of   *)
(* images that nothing refers to.                                          *)
(*                                                                         *)
(* A step is one statement or one call to a gateway; the handlers await    *)
(* each of them, so anything may happen between two.  An image is what a   *)
(* place holds under a tag; it is known by the request whose Dockerfile or *)
(* base image it was built from.  Tags of the system's own are numbered in *)
(* the order they are first built; a client may name others.               *)
(***************************************************************************)
EXTENDS Naturals, FiniteSets

CONSTANTS
  Gateways, None,
  Direct,      \* requests to POST /templates/from-dockerfile
  Stream,      \* requests to its streaming variant
  E2b,         \* builds of the E2B API: requested first, started by a second call
  Base,        \* requests to POST /templates: a base image, no Dockerfile
  Asked,       \* tags that clients name, which do not look like the system's own
  Workers,     \* threads of different replicas that reconcile or create
  RegistryOn,  \* TEMPLATE_REGISTRY_PUSH_ENABLED
  OneAtATime,  \* TRUE: nothing starts before everything else has ended
  MaxRequests, \* bound: requests made
  MaxImages,   \* bound: tags of the system's own
  MaxFaults    \* bound: faults

Builds == Direct \cup Stream \cup E2b
Regs   == Builds \cup Base
Generated == 1..MaxImages
Images == Generated \cup Asked
\* A task runs a request; the second call may come twice.
Tasks  == (Regs \X {1}) \cup (E2b \X {2})

INSTANCE TemplateStore

ASSUME TemplateAssumption ==
  /\ None \notin Images \cup Gateways \cup Regs
  /\ Images \cap Regs = {} /\ Generated \cap Asked = {}
  /\ RegistryOn \in BOOLEAN /\ OneAtATime \in BOOLEAN
  /\ MaxRequests \in Nat /\ MaxImages \in Nat /\ MaxFaults \in Nat

VARIABLES
  row,       \* the template's row
  image,     \* image[g][v]: the image that gateway g holds under tag v
  registry,  \* registry[v]: the copy the registry holds
  made,      \* history: the requests of which images were built under each tag
  old,       \* tags of each gateway's images that are past TEMPLATE_IMAGE_RETENTION_SEC
  rec,       \* the status of each build record
  task,      \* where each request is, and the result of its build
  wk,        \* where each worker is, with the row it read
  keep,      \* the prune pass under way and its keep_refs
  starts,    \* history: how often each E2B build was started
  last,      \* history: the request that registered last
  requests,  \* history: requests made
  revived,   \* history: tags of old images that were referred to again during the prune
  faults     \* history: faults so far

imageVars == <<image, registry, made, old>>
taskVars  == <<rec, task, starts, last, requests>>
vars == <<row, imageVars, taskVars, wk, keep, revived, faults>>

Ended == {"success", "failed"}
IdleTask == [pc |-> "idle", img |-> None, reg |-> None, gw |-> None]
IdleWorker == [pc |-> "idle", seen |-> NoRow, at |-> None, inReg |-> FALSE,
               img |-> None, kind |-> "reconcile"]

TypeOK ==
  /\ row \in Row /\ (row.exists \/ row = NoRow)
  /\ image \in [Gateways -> [Images -> Regs \cup {None}]]
  /\ registry \in [Images -> Regs \cup {None}] /\ made \in [Images -> SUBSET Regs]
  /\ old \in [Gateways -> SUBSET Generated]
  /\ rec \in [Builds -> {"none", "waiting", "running"} \cup Ended]
  /\ task \in [Tasks -> [pc : {"idle", "building", "upsert", "source", "snapshot",
                               "finish", "done", "lost"},
                         img : Images \cup {None}, reg : Images \cup {None},
                         gw : Gateways \cup {None}]]
  /\ wk \in [Workers -> [pc : {"idle", "probe", "settle", "reread", "repair",
                             "snapread", "snapbuild", "store", "check"},
                       seen : Row, at : Gateways \cup {None}, inReg : BOOLEAN,
                       img : Images \cup {None},
                       kind : {"reconcile", "create", "repair"}]]
  /\ keep \in [on : BOOLEAN, refs : SUBSET Images] /\ revived \subseteq Images
  /\ starts \in [E2b -> 0..2] /\ last \in Regs \cup {None}
  /\ faults \in 0..MaxFaults /\ requests \in 0..MaxRequests

Init ==
  /\ row = NoRow
  /\ image = [g \in Gateways |-> [v \in Images |-> None]]
  /\ registry = [v \in Images |-> None] /\ made = [v \in Images |-> {}]
  /\ old = [g \in Gateways |-> {}]
  /\ rec = [r \in Builds |-> "none"] /\ task = [t \in Tasks |-> IdleTask]
  /\ wk = [w \in Workers |-> IdleWorker] /\ keep = [on |-> FALSE, refs |-> {}]
  /\ starts = [r \in E2b |-> 0] /\ last = None /\ requests = 0
  /\ revived = {} /\ faults = 0

Active(t) == task[t].pc \notin {"idle", "done", "lost"}
Quiet == (\A t \in Tasks : ~Active(t)) /\ (\A w \in Workers : wk[w].pc = "idle")
MayStart == OneAtATime => Quiet
Room == MayStart /\ requests < MaxRequests /\ requests' = requests + 1
Fault == faults < MaxFaults /\ faults' = faults + 1

SetRec(t, s) == rec' = [rec EXCEPT ![t[1]] = s]
TaskTo(t, pc) ==
  task' = [task EXCEPT ![t] = IF pc \in {"done", "lost"} THEN [IdleTask EXCEPT !.pc = pc]
                              ELSE [@ EXCEPT !.pc = pc]]

-----------------------------------------------------------------------------
(* Requests and their records *)

\* The record is created as running before anything is built.
Request(t) ==
  /\ t[1] \in Direct \cup Stream /\ task[t].pc = "idle" /\ Room
  /\ SetRec(t, "running") /\ TaskTo(t, "building")
  /\ UNCHANGED <<row, imageVars, starts, last, wk, keep, revived, faults>>

\* The E2B API makes a record that waits for the call that starts the build.
E2bRequest(r) ==
  /\ rec[r] = "none" /\ rec' = [rec EXCEPT ![r] = "waiting"]
  /\ UNCHANGED <<row, imageVars, task, starts, last, requests, wk, keep, revived, faults>>

\* That call looks at the owner of the record, not at its status, and starts a
\* background task; an upload it misses fails the record.
E2bStart(t) ==
  /\ t[1] \in E2b /\ task[t].pc = "idle" /\ rec[t[1]] # "none" /\ Room
  /\ starts' = [starts EXCEPT ![t[1]] = @ + 1]
  /\ \/ SetRec(t, "running") /\ TaskTo(t, "building")
     \/ SetRec(t, "failed") /\ TaskTo(t, "done")
  /\ UNCHANGED <<row, imageVars, last, wk, keep, revived, faults>>

\* Each log line that is flushed writes the status as well.
LogLine(t) ==
  /\ task[t].pc = "building" /\ SetRec(t, "running")
  /\ UNCHANGED <<row, imageVars, task, starts, last, requests, wk, keep, revived, faults>>

\* The next tag of the system's own.
Fresh(v) == v \in Generated /\ made[v] = {} /\ \A u \in 1..(v - 1) : made[u] # {}

\* A client of Direct or Stream may name the tag, one that was built before too.
TagOf(t, v) == Fresh(v) \/ (t[1] \in Direct \cup Stream /\ v \in Asked)

\* A gateway builds an image under a tag, in place of the one it had.
Make(g, v, r) ==
  /\ image' = [image EXCEPT ![g][v] = r] /\ made' = [made EXCEPT ![v] = @ \cup {r}]
  /\ old' = [old EXCEPT ![g] = @ \ {v}]
\* It pushes a copy, if it is to; the name of the copy is a function of the tag.
Build(g, v, r) ==
  Make(g, v, r) /\ registry' = IF RegistryOn THEN [registry EXCEPT ![v] = r] ELSE registry

Built(t, g, v) ==
  /\ task[t].pc = "building" /\ TagOf(t, v) /\ Build(g, v, t[1])
  /\ task' = [task EXCEPT ![t] = [pc |-> "upsert", img |-> v, gw |-> g,
                                  reg |-> IF RegistryOn THEN v ELSE None]]
  /\ rec' = IF t[1] \in E2b THEN rec ELSE [rec EXCEPT ![t[1]] = "running"]
  /\ UNCHANGED <<row, starts, last, requests, wk, keep, revived, faults>>

\* An error event, a refused or broken request, no result or no tag: the record
\* fails.  A push that failed leaves the image behind.
FailedBuild(t) ==
  /\ task[t].pc = "building" /\ TaskTo(t, "done")
  /\ \/ UNCHANGED <<image, made, old>>
     \/ RegistryOn /\ \E g \in Gateways, v \in Images : TagOf(t, v) /\ Make(g, v, t[1])
  /\ UNCHANGED <<row, registry, starts, last, requests, wk, keep, revived, faults>>
\* mutant: the branch of the error returns without finishing the record
BuildFailsUnrecorded(t) == FailedBuild(t) /\ UNCHANGED rec
BuildFails(t) == FailedBuild(t) /\ SetRec(t, "failed")

\* The streaming handler does not notice a stream that ends without a result.
StreamEnds(t) ==
  /\ t[1] \in Stream /\ task[t].pc = "building" /\ TaskTo(t, "lost")
  /\ UNCHANGED <<row, imageVars, rec, starts, last, requests, wk, keep, revived, faults>>

RegisterImage(t) ==
  /\ task[t].pc = "upsert" /\ TaskTo(t, "source")
  /\ row' = Upsert(row, task[t].img) /\ last' = t[1]
  /\ UNCHANGED <<imageVars, rec, starts, requests, wk, keep, revived, faults>>

StoreSource(t) ==
  /\ task[t].pc = "source" /\ TaskTo(t, "snapshot")
  /\ row' = SetBuildSource(row, t[1])
  /\ UNCHANGED <<imageVars, rec, starts, last, requests, wk, keep, revived, faults>>

StoreSnapshot(t) ==
  /\ task[t].pc = "snapshot" /\ TaskTo(t, "finish")
  /\ row' = SetWarmSnapshot(row, task[t].img, task[t].reg, task[t].gw)
  /\ UNCHANGED <<imageVars, rec, starts, last, requests, wk, keep, revived, faults>>

Finish(t) ==
  /\ task[t].pc = "finish" /\ TaskTo(t, "done") /\ SetRec(t, "success")
  /\ UNCHANGED <<row, imageVars, starts, last, requests, wk, keep, revived, faults>>

Register(t) ==
  RegisterImage(t) \/ StoreSource(t) \/ StoreSnapshot(t) \/ Finish(t)

\* A statement after the build raises: the streaming handler and the background
\* task catch everything, the other one only RuntimeError.
Raised(t) ==
  IF t[1] \in Direct THEN UNCHANGED rec /\ TaskTo(t, "lost")
                     ELSE SetRec(t, "failed") /\ TaskTo(t, "done")
StatementFails(t) ==
  /\ task[t].pc \in {"upsert", "source", "snapshot", "finish"} /\ Fault /\ Raised(t)
  /\ UNCHANGED <<row, imageVars, starts, last, requests, wk, keep, revived>>

\* The client of the stream goes away: the generator is cancelled where it awaits.
Disconnect(t) ==
  /\ t[1] \in Stream /\ Active(t) /\ TaskTo(t, "lost")
  /\ UNCHANGED <<row, imageVars, rec, starts, last, requests, wk, keep, revived, faults>>

\* The replica that runs the task ends.
Crash(t) ==
  /\ Active(t) /\ Fault /\ TaskTo(t, "lost")
  /\ UNCHANGED <<row, imageVars, rec, starts, last, requests, wk, keep, revived>>

\* register_template without a snapshot of the client's own.
RegisterBase(t) ==
  /\ t[1] \in Base /\ task[t].pc = "idle" /\ Room /\ TaskTo(t, "done")
  /\ row' = Upsert(row, t[1]) /\ last' = t[1]
  /\ UNCHANGED <<imageVars, rec, starts, wk, keep, revived, faults>>

DeleteTemplate ==
  /\ row.exists /\ Room /\ row' = NoRow /\ last' = None
  /\ UNCHANGED <<imageVars, rec, task, starts, wk, keep, revived, faults>>

-----------------------------------------------------------------------------
(* Keeping the references in step with the images *)

Start(w, k) ==
  /\ wk[w].pc = "idle" /\ row.exists /\ MayStart
  /\ wk' = [wk EXCEPT ![w] = [IdleWorker EXCEPT !.pc = "probe", !.seen = row, !.kind = k]]
  /\ UNCHANGED <<row, imageVars, taskVars, keep, revived, faults>>

\* mutant: rows of which only the registry has a copy are left alone
StartReconcileWarm(w) == (row.warm # None \/ row.source # None) /\ row.reg = None /\ Start(w, "reconcile")
\* reconcile takes rows with references or with a Dockerfile to build from.
StartReconcile(w) == (HasRefs(row) \/ row.source # None) /\ Start(w, "reconcile")

\* A create does the same for its template, unless the registry has a copy.
StartCreate(w) == row.reg = None /\ Start(w, "create")

Held(g) == {v \in Images : image[g][v] # None}
Holders(v) == {g \in Gateways : v \in Held(g)}
Copied == {v \in Images : registry[v] # None}

\* Ask the gateways for the warm image and the registry for its copy.  A call that
\* gets no answer reads as "not there".
Probe(w) ==
  LET s == wk[w].seen IN
  /\ wk[w].pc = "probe"
  /\ \E at \in Holders(s.warm) \cup {None}, inReg \in {s.reg \in Copied, FALSE} :
       /\ IF (at = None) = (Holders(s.warm) = {}) /\ inReg = (s.reg \in Copied)
          THEN UNCHANGED faults ELSE Fault
       /\ wk' = [wk EXCEPT ![w].pc = "settle", ![w].at = at, ![w].inReg = inReg]
  /\ UNCHANGED <<row, imageVars, taskVars, keep, revived>>

\* What ensure does next, by what it read and saw.
MovedTo(w) ==    \* the registry has it: forget a lost warm image, follow a moved one
  LET s == wk[w].seen IN
  IF wk[w].at = None /\ s.warm # None THEN SetImageRefs(row, None, s.reg, None, FALSE)
  ELSE IF wk[w].at \notin {None, s.owner}
       THEN SetImageRefs(row, s.warm, s.reg, wk[w].at, FALSE)
       ELSE row
WithCopy(w, copy) ==    \* only a gateway has it: push a copy
  SetImageRefs(row, wk[w].seen.warm, copy, wk[w].at, copy = None)
Rebuildable(s) == s.source # None \/ (s.error /\ s.base # None)

Next1(w, pc) == wk' = [wk EXCEPT ![w].pc = pc]
Back(w) == wk' = [wk EXCEPT ![w] = IdleWorker]
\* A snapshot made for a repair is followed by a look at the row.
Leave(w) == IF wk[w].kind = "repair" THEN Next1(w, "check") ELSE Back(w)

\* History: the row refers again to a tag of which some gateway has an old image.
Revives == revived' = IF row'.warm # row.warm /\ \E g \in Gateways : row'.warm \in old[g]
                      THEN revived \cup {row'.warm} ELSE revived

Settle(w) ==
  LET s == wk[w].seen IN
  /\ wk[w].pc = "settle"
  /\ \/ wk[w].inReg /\ row' = MovedTo(w) /\ UNCHANGED registry /\ Back(w)
     \/ /\ ~wk[w].inReg /\ wk[w].at # None /\ Back(w)
        /\ \/ /\ RegistryOn /\ s.warm \in Held(wk[w].at) /\ row' = WithCopy(w, s.warm)
              /\ registry' = [registry EXCEPT ![s.warm] = image[wk[w].at][s.warm]]
           \/ row' = WithCopy(w, None) /\ UNCHANGED registry
     \/ /\ ~wk[w].inReg /\ wk[w].at = None /\ HasRefs(s)
        /\ row' = SetImageRefs(row, None, None, None, TRUE)
        /\ UNCHANGED registry /\ Next1(w, "reread")
     \/ /\ ~wk[w].inReg /\ wk[w].at = None /\ ~HasRefs(s) /\ UNCHANGED <<row, registry>>
        /\ IF Rebuildable(s) THEN Next1(w, "repair")
           ELSE IF wk[w].kind = "create" THEN Next1(w, "snapread") ELSE Back(w)
  /\ Revives
  /\ UNCHANGED <<image, made, old, taskVars, keep, faults>>

\* The row is read again before the repair; a row that is gone is kept as it was.
Reread(w) ==
  /\ wk[w].pc = "reread"
  /\ wk' = [wk EXCEPT ![w].pc = "repair", ![w].seen = IF row.exists THEN row ELSE @]
  /\ UNCHANGED <<row, imageVars, taskVars, keep, revived, faults>>

\* The tag of a rebuild: the warm reference, the base image if it is a tag of the
\* system's own, or a fresh one.
RepairTag(s, v) == IF s.warm # None THEN v = s.warm
                   ELSE IF s.base \in Generated THEN v = s.base ELSE Fresh(v)

\* A template with a Dockerfile is built again from the one that was read.
Rebuild(w) ==
  LET s == wk[w].seen IN
  /\ wk[w].pc = "repair" /\ s.source # None
  /\ \/ \E g \in Gateways, v \in Images :
          /\ RepairTag(s, v) /\ Build(g, v, s.source) /\ UNCHANGED row
          /\ wk' = [wk EXCEPT ![w].pc = "store", ![w].img = v, ![w].at = g]
     \/ row' = SetBuildError(row) /\ Back(w) /\ UNCHANGED imageVars
  /\ UNCHANGED <<taskVars, keep, revived, faults>>

\* One without is materialised from its base image.
RebuildFromBase(w) ==
  LET s == wk[w].seen IN
  /\ wk[w].pc = "repair" /\ s.source = None
  /\ \/ /\ s.base = None /\ row' = SetBuildError(row) /\ Back(w)
     \/ /\ s.base # None
        /\ row' = IF HasRefs(s) THEN SetImageRefs(row, None, None, None, TRUE) ELSE row
        /\ wk' = [wk EXCEPT ![w].pc = "snapread", ![w].kind = "repair"]
  /\ UNCHANGED <<imageVars, taskVars, keep, revived, faults>>

\* _build_registered_template_snapshot reads the row itself and does nothing when
\* it has a warm image by now.
SnapshotRead(w) ==
  /\ wk[w].pc = "snapread"
  /\ IF row.exists /\ row.warm = None
     THEN wk' = [wk EXCEPT ![w].pc = "snapbuild", ![w].seen = row]
     ELSE Leave(w)
  /\ UNCHANGED <<row, imageVars, taskVars, keep, revived, faults>>

\* What a container made from base image b on gateway g starts with.
MadeFrom(g, b) == IF b \in Images THEN image[g][b] ELSE b

SnapshotBuild(w) ==
  LET s == wk[w].seen IN
  /\ wk[w].pc = "snapbuild"
  /\ \/ \E g \in Gateways, v \in Images :
          /\ Fresh(v) /\ MadeFrom(g, s.base) # None /\ Build(g, v, MadeFrom(g, s.base))
          /\ wk' = [wk EXCEPT ![w].pc = "store", ![w].img = v, ![w].at = g]
          /\ UNCHANGED row
     \/ /\ row' = SetBuildError(row) /\ UNCHANGED imageVars
        /\ Leave(w)
  /\ UNCHANGED <<taskVars, keep, revived, faults>>

Store(w) ==
  LET v == wk[w].img IN
  /\ wk[w].pc = "store"
  /\ row' = SetWarmSnapshot(row, v, IF RegistryOn THEN v ELSE None, wk[w].at)
  /\ Leave(w) /\ Revives
  /\ UNCHANGED <<imageVars, taskVars, keep, faults>>

\* A repair from the base image looks whether the row has references now.
Check(w) ==
  /\ wk[w].pc = "check" /\ Back(w)
  /\ row' = IF HasRefs(row) THEN row ELSE SetBuildError(row)
  /\ UNCHANGED <<imageVars, taskVars, keep, revived, faults>>

Ensure(w) == \/ Probe(w) \/ Settle(w) \/ Reread(w) \/ Rebuild(w) \/ RebuildFromBase(w)
             \/ SnapshotRead(w) \/ SnapshotBuild(w) \/ Store(w) \/ Check(w)

\* The replica ends with its thread.
WorkerDies(w) ==
  /\ wk[w].pc # "idle" /\ Fault /\ Back(w)
  /\ UNCHANGED <<row, imageVars, taskVars, keep, revived>>

-----------------------------------------------------------------------------
(* Pruning, age and loss of images *)

ListKeep ==
  /\ ~keep.on /\ revived' = {}
  /\ keep' = [on |-> TRUE, refs |-> {row.warm, row.reg, row.base} \cap Images]
  /\ UNCHANGED <<row, imageVars, taskVars, wk, faults>>

\* mutant: the age of an image is not looked at
PrunableAnyAge(g) == (Held(g) \cap Generated) \ keep.refs
\* Only names that look like the system's own are pruned.
Prunable(g) == old[g] \ keep.refs

Drop(g, v) ==
  image' = [image EXCEPT ![g][v] = None] /\ old' = [old EXCEPT ![g] = @ \ {v}]

PruneImage(g) ==
  /\ keep.on
  /\ \E v \in Prunable(g) : Drop(g, v)
  /\ UNCHANGED <<row, registry, made, taskVars, wk, keep, revived, faults>>

PruneDone ==
  /\ keep.on /\ keep' = [on |-> FALSE, refs |-> {}]
  /\ UNCHANGED <<row, imageVars, taskVars, wk, revived, faults>>

\* The retention is longer than a prune pass and than the time from the end of a
\* build to its registration.
Age(g, v) ==
  /\ v \in (Held(g) \cap Generated) \ old[g] /\ ~keep.on
  /\ old' = [old EXCEPT ![g] = @ \cup {v}]
  /\ \A t \in Tasks : Active(t) => task[t].img # v
  /\ \A w \in Workers : wk[w].img = v => wk[w].at # g
  /\ UNCHANGED <<row, image, registry, made, taskVars, wk, keep, revived, faults>>

LoseGateway(g) ==
  /\ Held(g) # {} /\ Fault /\ image' = [image EXCEPT ![g] = [v \in Images |-> None]]
  /\ old' = [old EXCEPT ![g] = {}]
  /\ UNCHANGED <<row, registry, made, taskVars, wk, keep, revived>>

LoseRegistry(v) ==
  /\ v \in Copied /\ Fault /\ registry' = [registry EXCEPT ![v] = None]
  /\ UNCHANGED <<row, image, made, old, taskVars, wk, keep, revived>>

-----------------------------------------------------------------------------
TaskStep(t) ==
  (\E g \in Gateways, v \in Images : Built(t, g, v)) \/ BuildFails(t) \/ Register(t)

Next ==
  \/ \E t \in Tasks : \/ Request(t) \/ E2bStart(t) \/ LogLine(t) \/ TaskStep(t)
                      \/ StreamEnds(t) \/ StatementFails(t) \/ Disconnect(t)
                      \/ Crash(t) \/ RegisterBase(t)
  \/ \E r \in E2b : E2bRequest(r)
  \/ DeleteTemplate
  \/ \E w \in Workers : \/ StartReconcile(w) \/ StartCreate(w) \/ Ensure(w)
                        \/ WorkerDies(w)
  \/ ListKeep \/ PruneDone
  \/ \E g \in Gateways : PruneImage(g) \/ LoseGateway(g)
  \/ \E g \in Gateways, v \in Images : Age(g, v)
  \/ \E v \in Images : LoseRegistry(v)

\* Builds end (they have a timeout) and the maintenance loops go on.
Fairness ==
  /\ \A t \in Tasks : WF_vars(TaskStep(t))
  /\ \A w \in Workers : WF_vars(StartReconcile(w)) /\ WF_vars(Ensure(w))

Spec == Init /\ [][Next]_vars
FairSpec == Spec /\ Fairness

-----------------------------------------------------------------------------
(* Properties *)

\* However builds, repairs and reconciles of several replicas interleave, the warm and
\* the registry reference of a row name one tag, and all that gateways and registry hold
\* under it is the same image: whichever a create picks, it gets that.  But for a tag
\* under which two different requests were built: one that clients named twice, or one
\* of a registration that was cut short, which a repair took for an older Dockerfile.
Shared(v) == \E p, q \in made[v] : p # q
Copies(v) == {image[g][v] : g \in Holders(v)} \cup ({registry[v]} \ {None})
RefsAgree ==
  row.warm # None /\ row.reg # None =>
    /\ row.warm = row.reg
    /\ Shared(row.warm) \/ \A c, d \in Copies(row.warm) : c = d

\* A prune pass works through a list of references it made before; still it never
\* takes away the warm image of the row, unless a worker wrote back, during the pass, a
\* reference that it had read earlier or built again under a tag with an old image.
PruneSparesReferenced ==
  [][\A g \in Gateways : \A v \in Held(g) \ Held(g)' :
       keep.on /\ faults' = faults => v # row.warm \/ v \in revived]_vars

\* A record of a build does not stay "running", unless the request was cut off: by a
\* crash, a client that went away, an exception nothing catches or a stream that ended
\* without a result.
Lost(r) == \E t \in Tasks : t[1] = r /\ task[t].pc = "lost"
Runs(r) == rec[r] = "running"
RunEnds(r) == rec[r] \in Ended \/ Lost(r)
RecordsEnd == \A r \in Builds : Runs(r) ~> RunEnds(r)

\* A template whose image has gone from every gateway and from the registry does not
\* stay so: it gets an image again or says that it has none.
Served == Holders(row.warm) # {} \/ row.reg \in Copied
Unserved == row.exists /\ ~Served /\ (HasRefs(row) \/ row.source # None)
Noticed == Served \/ row.error \/ ~row.exists
UnservedIsNoticed == Unserved ~> Noticed

\* "Register or replace a logical template": what is registered last is what the
\* template's image was built from, once nothing is under way.
LastRegistrationCounts ==
  Quiet /\ row.warm # None /\ row.owner \in Holders(row.warm) =>
    image[row.owner][row.warm] = last
=============================================================================
