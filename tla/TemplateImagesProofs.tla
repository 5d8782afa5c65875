------------------------ MODULE TemplateImagesProofs ------------------------
(***************************************************************************)
(* What holds of TemplateImages for any requests, workers, gateways,       *)
(* images and faults: the types, that a row's references are to one image  *)
(* but under a tag that two requests shared, and that a prune pass spares  *)
(* the warm image of the row.                                              *)
(***************************************************************************)
EXTENDS TemplateImages, TLAPS

-----------------------------------------------------------------------------
(* The inductive invariant                                                 *)

TaskRecord == [pc : {"idle", "building", "upsert", "source", "snapshot",
                     "finish", "done", "lost"},
               img : Images \cup {None}, reg : Images \cup {None},
               gw : Gateways \cup {None}]
WorkerRecord == [pc : {"idle", "probe", "settle", "reread", "repair",
                       "snapread", "snapbuild", "store", "check"},
                 seen : Row, at : Gateways \cup {None}, inReg : BOOLEAN,
                 img : Images \cup {None}, kind : {"reconcile", "create", "repair"}]

\* What is so of the row and of every reading of it.
RowOK(r) == r \in Row /\ (r.warm # None /\ r.reg # None => r.warm = r.reg)

\* What is so of a request: the registry copy it will store is of the image it built.
TaskOK(x) == x \in TaskRecord /\ (x.reg # None => x.reg = x.img)

\* What is so of a worker, and of what it has read.
WorkerOK(x) == x \in WorkerRecord /\ RowOK(x.seen)

RowPart == RowOK(row) /\ (row.exists \/ row = NoRow)
\* What is anywhere under a tag was built under it, and only what is held is old.
ImagePart ==
  /\ image \in [Gateways -> [Images -> Regs \cup {None}]]
  /\ registry \in [Images -> Regs \cup {None}] /\ made \in [Images -> SUBSET Regs]
  /\ old \in [Gateways -> SUBSET Generated]
  /\ \A v \in Images : registry[v] \in made[v] \cup {None}
  /\ \A g \in Gateways, v \in Images : image[g][v] \in made[v] \cup {None}
  /\ \A g \in Gateways : old[g] \subseteq Held(g)
RecordPart ==
  /\ rec \in [Builds -> {"none", "waiting", "running"} \cup Ended]
  /\ last \in Regs \cup {None} /\ requests \in 0..MaxRequests

\* Each of the two calls of an E2B build starts it once.
Idle(t) == IF task[t].pc = "idle" THEN 1 ELSE 0
TaskPart ==
  /\ task \in [Tasks -> TaskRecord] /\ \A t \in Tasks : TaskOK(task[t])
  /\ starts \in [E2b -> 0..2]
  /\ \A r \in E2b : starts[r] + Idle(<<r, 1>>) + Idle(<<r, 2>>) <= 2
WorkerPart ==
  wk \in [Workers -> WorkerRecord] /\ \A w \in Workers : WorkerOK(wk[w])
PassPart ==
  /\ keep \in [on : BOOLEAN, refs : SUBSET Images] /\ revived \subseteq Images
  /\ faults \in 0..MaxFaults

TemplateInv ==
  RowPart /\ ImagePart /\ RecordPart /\ TaskPart /\ WorkerPart /\ PassPart

\* It says more than the types and the agreement of the references.
LEMMA InvImplies ==
  ASSUME TemplateInv
  PROVE  TypeOK /\ RefsAgree
<1>1. TypeOK
  BY DEF TemplateInv, TypeOK, RowPart, RowOK, ImagePart, RecordPart, TaskPart, WorkerPart,
         PassPart, TaskRecord, WorkerRecord
<1>2. ASSUME row.warm # None, row.reg # None
      PROVE  row.warm = row.reg /\ row.warm \in Images
  BY <1>2 DEF TemplateInv, RowPart, RowOK, Row
<1>3. \A v \in Images : Copies(v) \subseteq made[v]
  BY DEF TemplateInv, ImagePart, Copies, Holders, Held
<1>4. \A v \in Images : Shared(v) \/ \A c, d \in Copies(v) : c = d
  BY <1>3 DEF Shared
<1>5. RefsAgree
  BY <1>2, <1>4 DEF RefsAgree
<1> QED
  BY <1>1, <1>5

-----------------------------------------------------------------------------
(* Images                                                                  *)

\* A gateway that makes an image holds it in place of the one it had, as new.
LEMMA Made ==
  ASSUME ImagePart, NEW g \in Gateways, NEW v \in Images, NEW r \in Regs, Make(g, v, r),
         \/ registry' = registry
         \/ registry' = [registry EXCEPT ![v] = r]
  PROVE  ImagePart'
<1>1. /\ image' = [image EXCEPT ![g][v] = r] /\ made' = [made EXCEPT ![v] = @ \cup {r}]
      /\ old' = [old EXCEPT ![g] = @ \ {v}]
  BY DEF Make
<1>2. /\ image' \in [Gateways -> [Images -> Regs \cup {None}]]
      /\ made' \in [Images -> SUBSET Regs] /\ old' \in [Gateways -> SUBSET Generated]
      /\ registry' \in [Images -> Regs \cup {None}]
  BY <1>1 DEF ImagePart
<1>3. /\ \A u \in Images : made[u] \subseteq made'[u]
      /\ r \in made'[v]
  BY <1>1 DEF ImagePart
<1>4. \A u \in Images : registry'[u] = registry[u] \/ (u = v /\ registry'[u] = r)
  BY DEF ImagePart
<1>5. \A h \in Gateways, u \in Images :
        image'[h][u] = IF h = g /\ u = v THEN r ELSE image[h][u]
  BY <1>1 DEF ImagePart
<1>6. \A h \in Gateways : old'[h] \subseteq old[h] /\ (h = g => v \notin old'[h])
  BY <1>1 DEF ImagePart
<1>7. \A u \in Images : registry'[u] \in made'[u] \cup {None}
  BY <1>3, <1>4 DEF ImagePart
<1>8. \A h \in Gateways, u \in Images : image'[h][u] \in made'[u] \cup {None}
  BY <1>3, <1>5 DEF ImagePart
<1>9. ASSUME NEW h \in Gateways, NEW u \in old'[h]
      PROVE  u \in Held(h)'
  <2>1. u \in Images /\ image[h][u] # None /\ ~(h = g /\ u = v)
    BY <1>6 DEF ImagePart, Held
  <2>2. image'[h][u] # None
    BY <1>5, <2>1
  <2> QED
    BY <2>1, <2>2 DEF Held
<1> QED
  BY <1>2, <1>7, <1>8, <1>9 DEF ImagePart

\* So for one that it also pushes, or not.
LEMMA TagBuilt ==
  ASSUME ImagePart, NEW g \in Gateways, NEW v \in Images, NEW r \in Regs, Build(g, v, r)
  PROVE  ImagePart'
BY Made DEF Build

\* A copy that is pushed is of an image that a gateway holds.
LEMMA Pushed ==
  ASSUME ImagePart, UNCHANGED <<image, made, old>>,
         NEW g \in Gateways, NEW v \in Images,
         registry' = [registry EXCEPT ![v] = image[g][v]]
  PROVE  ImagePart'
<1>1. image[g][v] \in Regs \cup {None} /\ image[g][v] \in made[v] \cup {None}
  BY DEF ImagePart
<1>2. /\ registry' \in [Images -> Regs \cup {None}]
      /\ \A u \in Images : registry'[u] \in made[u] \cup {None}
  BY <1>1 DEF ImagePart
<1> QED
  BY <1>2 DEF ImagePart, Held

\* An image is taken away.
LEMMA Dropped ==
  ASSUME ImagePart, NEW g \in Gateways, NEW v \in Images, Drop(g, v),
         UNCHANGED <<made, registry>>
  PROVE  ImagePart'
<1>1. image' = [image EXCEPT ![g][v] = None] /\ old' = [old EXCEPT ![g] = @ \ {v}]
  BY DEF Drop
<1>2. /\ image' \in [Gateways -> [Images -> Regs \cup {None}]]
      /\ old' \in [Gateways -> SUBSET Generated]
  BY <1>1 DEF ImagePart
<1>3. \A h \in Gateways, u \in Images :
        image'[h][u] = IF h = g /\ u = v THEN None ELSE image[h][u]
  BY <1>1 DEF ImagePart
<1>4. \A h \in Gateways : old'[h] \subseteq old[h] /\ (h = g => v \notin old'[h])
  BY <1>1 DEF ImagePart
<1>5. ASSUME NEW h \in Gateways, NEW u \in old'[h]
      PROVE  u \in Held(h)'
  <2>1. u \in Images /\ image[h][u] # None /\ ~(h = g /\ u = v)
    BY <1>4 DEF ImagePart, Held
  <2>2. image'[h][u] # None
    BY <1>3, <2>1
  <2> QED
    BY <2>1, <2>2 DEF Held
<1> QED
  BY <1>2, <1>3, <1>5 DEF ImagePart

\* Nothing is built, pushed or lost.
LEMMA ImagesStay ==
  ASSUME ImagePart, UNCHANGED imageVars
  PROVE  ImagePart'
BY DEF ImagePart, Held, imageVars

-----------------------------------------------------------------------------
(* The row                                                                 *)

\* A row nobody registered.
LEMMA NoRowOK == RowOK(NoRow)
BY TemplateAssumption DEF RowOK, NoRow, Row

\* Registering forgets the references.
LEMMA UpsertOK ==
  ASSUME NEW r, RowOK(r), NEW b \in Images \cup Regs \cup {None}
  PROVE  RowOK(Upsert(r, b)) /\ Upsert(r, b).exists
<1>1. Upsert(r, b) \in Row
  BY DEF RowOK, Upsert, Row
<1>2. /\ Upsert(r, b).exists /\ Upsert(r, b).warm = None /\ Upsert(r, b).base = b
  BY DEF RowOK, Upsert, Row
<1> QED
  BY <1>1, <1>2, TemplateAssumption DEF RowOK

\* Setting the references to ones that agree.
LEMMA SetRefsOK ==
  ASSUME NEW r, RowOK(r), r.exists \/ r = NoRow,
         NEW v \in Images \cup {None}, NEW c \in Images \cup {None},
         NEW g \in Gateways \cup {None}, NEW e \in BOOLEAN,
         v # None /\ c # None => v = c
  PROVE  /\ RowOK(SetImageRefs(r, v, c, g, e))
         /\ SetImageRefs(r, v, c, g, e).exists \/ SetImageRefs(r, v, c, g, e) = NoRow
<1>1. CASE r.exists
  <2> DEFINE new == [r EXCEPT !.warm = v, !.reg = c, !.owner = g, !.error = e]
  <2>1. new \in Row
    BY DEF RowOK, Row
  <2>2. new.warm = v /\ new.reg = c /\ new.base = r.base /\ new.exists = r.exists
    BY DEF RowOK, Row
  <2>3. SetImageRefs(r, v, c, g, e) = new
    BY <1>1 DEF SetImageRefs
  <2> HIDE DEF new
  <2> QED
    BY <1>1, <2>1, <2>2, <2>3 DEF RowOK
<1>2. CASE ~r.exists
  BY <1>2 DEF SetImageRefs
<1> QED
  BY <1>1, <1>2

\* A failed build forgets the warm image.
LEMMA BuildErrorOK ==
  ASSUME NEW r, RowOK(r), r.exists \/ r = NoRow
  PROVE  /\ RowOK(SetBuildError(r))
         /\ SetBuildError(r).exists \/ SetBuildError(r) = NoRow
<1>1. CASE r.exists
  <2> DEFINE new == [r EXCEPT !.warm = None, !.error = TRUE]
  <2>1. new \in Row
    BY DEF RowOK, Row
  <2>2. new.warm = None /\ new.reg = r.reg /\ new.base = r.base /\ new.exists = r.exists
    BY DEF RowOK, Row
  <2>3. SetBuildError(r) = new
    BY <1>1 DEF SetBuildError
  <2> HIDE DEF new
  <2> QED
    BY <1>1, <2>1, <2>2, <2>3 DEF RowOK
<1>2. CASE ~r.exists
  BY <1>2 DEF SetBuildError
<1> QED
  BY <1>1, <1>2

\* The stored Dockerfile is no reference.
LEMMA SourceOK ==
  ASSUME NEW r, RowOK(r), r.exists \/ r = NoRow, NEW q \in Regs
  PROVE  /\ RowOK(SetBuildSource(r, q))
         /\ SetBuildSource(r, q).exists \/ SetBuildSource(r, q) = NoRow
<1>1. CASE r.exists
  <2> DEFINE new == [r EXCEPT !.source = q]
  <2>1. new \in Row
    BY DEF RowOK, Row
  <2>2. new.warm = r.warm /\ new.reg = r.reg /\ new.base = r.base /\ new.exists = r.exists
    BY DEF RowOK, Row
  <2>3. SetBuildSource(r, q) = new
    BY <1>1 DEF SetBuildSource
  <2> HIDE DEF new
  <2> QED
    BY <1>1, <2>1, <2>2, <2>3 DEF RowOK
<1>2. CASE ~r.exists
  BY <1>2 DEF SetBuildSource
<1> QED
  BY <1>1, <1>2

-----------------------------------------------------------------------------
(* Requests and workers                                                    *)

\* A request that moves to where it is not idle any more, and may start an E2B build
\* as it leaves there.
LEMMA TaskMoves ==
  ASSUME TaskPart, NEW t \in Tasks, NEW x, TaskOK(x), x.pc # "idle",
         task' = [task EXCEPT ![t] = x],
         \/ starts' = starts
         \/ /\ t[1] \in E2b /\ task[t].pc = "idle"
            /\ starts' = [starts EXCEPT ![t[1]] = @ + 1]
  PROVE  TaskPart'
<1>1. task' \in [Tasks -> TaskRecord] /\ \A u \in Tasks : TaskOK(task'[u])
  BY DEF TaskPart, TaskOK
<1>2. \A r \in E2b : <<r, 1>> \in Tasks /\ <<r, 2>> \in Tasks
  BY DEF Tasks, Regs, Builds
<1>3. /\ \A u \in Tasks \ {t} : task'[u] = task[u]
      /\ task'[t].pc # "idle"
  BY DEF TaskPart
<1>4. \A u \in Tasks : Idle(u) \in {0, 1} /\ Idle(u)' \in {0, 1} /\ Idle(u)' <= Idle(u)
  BY <1>3 DEF Idle
<1>5. starts' \in [E2b -> 0..2] /\ \A r \in E2b : starts'[r] + Idle(<<r, 1>>)' + Idle(<<r, 2>>)' <= 2
  <2>1. CASE starts' = starts
    <3>1. starts' \in [E2b -> 0..2]
      BY <2>1 DEF TaskPart
    <3>2. ASSUME NEW r \in E2b
          PROVE  starts'[r] + Idle(<<r, 1>>)' + Idle(<<r, 2>>)' <= 2
      <4> DEFINE a == Idle(<<r, 1>>)
                 b == Idle(<<r, 2>>)
                 n == starts[r]
                 a2 == Idle(<<r, 1>>)'
                 b2 == Idle(<<r, 2>>)'
      <4>1. /\ a \in {0, 1} /\ b \in {0, 1} /\ a2 \in {0, 1} /\ b2 \in {0, 1}
            /\ a2 <= a /\ b2 <= b /\ n \in 0..2 /\ n + a + b <= 2
        BY <1>2, <1>4 DEF TaskPart
      <4>2. starts'[r] = n
        BY <2>1
      <4> HIDE DEF a, b, n, a2, b2
      <4>3. n + a2 + b2 <= 2
        BY <4>1
      <4> QED
        BY <4>2, <4>3 DEF a2, b2
    <3> QED
      BY <3>1, <3>2
  <2>2. CASE /\ t[1] \in E2b /\ task[t].pc = "idle"
             /\ starts' = [starts EXCEPT ![t[1]] = @ + 1]
    <3>1. t \in {<<t[1], 1>>, <<t[1], 2>>}
      BY DEF Tasks
    <3>2. Idle(t) = 1 /\ Idle(t)' = 0
      BY <1>3, <2>2 DEF Idle
    <3>3. ASSUME NEW r \in E2b
          PROVE  starts'[r] \in 0..2 /\ starts'[r] + Idle(<<r, 1>>)' + Idle(<<r, 2>>)' <= 2
      <4> DEFINE a == Idle(<<r, 1>>)
                 b == Idle(<<r, 2>>)
                 n == starts[r]
                 a2 == Idle(<<r, 1>>)'
                 b2 == Idle(<<r, 2>>)'
      <4>1. /\ a \in {0, 1} /\ b \in {0, 1} /\ a2 \in {0, 1} /\ b2 \in {0, 1}
            /\ a2 <= a /\ b2 <= b /\ n \in 0..2 /\ n + a + b <= 2
        BY <1>2, <1>4 DEF TaskPart
      <4>2. starts'[r] = (IF r = t[1] THEN n + 1 ELSE n)
        BY <2>2 DEF TaskPart
      <4>3. r = t[1] => (a = 1 /\ a2 = 0) \/ (b = 1 /\ b2 = 0)
        BY <3>1, <3>2
      <4> HIDE DEF a, b, n, a2, b2
      <4>4. starts'[r] \in 0..2 /\ starts'[r] + a2 + b2 <= 2
        BY <4>1, <4>2, <4>3
      <4> QED
        BY <4>4 DEF a2, b2
    <3>4. starts' \in [E2b -> 0..2]
      BY <2>2, <3>3 DEF TaskPart
    <3> QED
      BY <3>3, <3>4
  <2> QED
    BY <2>1, <2>2
<1> QED
  BY <1>1, <1>5 DEF TaskPart

\* Requests that do not move.
LEMMA TasksStay ==
  ASSUME TaskPart, task' = task, starts' = starts
  PROVE  TaskPart'
BY DEF TaskPart, Idle

\* A worker that moves.
LEMMA WorkerMoves ==
  ASSUME WorkerPart, NEW w \in Workers, NEW x, WorkerOK(x),
         wk' = [wk EXCEPT ![w] = x]
  PROVE  WorkerPart'
BY DEF WorkerPart, WorkerOK

\* Workers that do not.
LEMMA WorkersStay ==
  ASSUME WorkerPart, wk' = wk
  PROVE  WorkerPart'
BY DEF WorkerPart

\* The usual way a request moves: it keeps what it built, or ends and forgets it.
LEMMA TaskToOK ==
  ASSUME TaskPart, NEW t \in Tasks,
         NEW to \in {"building", "source", "snapshot", "finish", "done", "lost"},
         TaskTo(t, to),
         \/ starts' = starts
         \/ /\ t[1] \in E2b /\ task[t].pc = "idle"
            /\ starts' = [starts EXCEPT ![t[1]] = @ + 1]
  PROVE  TaskPart'
<1> DEFINE x == IF to \in {"done", "lost"} THEN [IdleTask EXCEPT !.pc = to]
                                           ELSE [task[t] EXCEPT !.pc = to]
<1>1. task' = [task EXCEPT ![t] = x]
  BY DEF TaskTo
<1>2. TaskOK(task[t])
  BY DEF TaskPart
<1>3. TaskOK(x) /\ x.pc = to
  <2>1. CASE to \in {"done", "lost"}
    <3>1. x = [pc |-> to, img |-> None, reg |-> None, gw |-> None]
      BY <2>1 DEF IdleTask
    <3>2. x \in TaskRecord
      BY <2>1, <3>1 DEF TaskRecord
    <3> QED
      BY <2>1, <3>1, <3>2 DEF TaskOK
  <2>2. CASE to \notin {"done", "lost"}
    <3>1. x = [task[t] EXCEPT !.pc = to]
      BY <2>2
    <3>2. x \in TaskRecord /\ x.pc = to /\ x.img = task[t].img /\ x.reg = task[t].reg
      BY <1>2, <2>2, <3>1 DEF TaskOK, TaskRecord
    <3> HIDE DEF x
    <3> QED
      BY <1>2, <3>2 DEF TaskOK
  <2> QED
    BY <2>1, <2>2
<1> HIDE DEF x
<1> QED
  BY <1>1, <1>3, TaskMoves

\* A record takes one of its states.
LEMMA RecordSet ==
  ASSUME RecordPart, NEW t \in Tasks, NEW s \in {"waiting", "running"} \cup Ended, SetRec(t, s)
  PROVE  rec' \in [Builds -> {"none", "waiting", "running"} \cup Ended]
BY DEF RecordPart, SetRec, Ended

\* A request to whose task this belongs, and its bounds.
LEMMA RoomLeft ==
  ASSUME RecordPart, Room
  PROVE  requests' \in 0..MaxRequests
BY TemplateAssumption DEF RecordPart, Room

\* So for faults.
LEMMA FaultLeft ==
  ASSUME PassPart, Fault
  PROVE  faults' \in 0..MaxFaults
BY TemplateAssumption DEF PassPart, Fault

\* Requests, records and what cuts a request off.
LEMMA RequestStep ==
  ASSUME TemplateInv, NEW t \in Tasks,
         \/ Request(t) \/ E2bStart(t) \/ LogLine(t) \/ StreamEnds(t) \/ StatementFails(t)
         \/ Disconnect(t) \/ Crash(t)
  PROVE  TemplateInv'
<1> USE DEF imageVars
<1>0. /\ RowPart /\ ImagePart /\ RecordPart /\ TaskPart /\ WorkerPart /\ PassPart
  BY DEF TemplateInv
<1>1. UNCHANGED <<row, image, registry, made, old, last, wk, keep, revived>>
  BY DEF Request, E2bStart, LogLine, StreamEnds, StatementFails, Disconnect, Crash
<1>2. RowPart' /\ ImagePart' /\ WorkerPart'
  BY <1>0, <1>1, ImagesStay DEF RowPart, WorkerPart, imageVars
<1>3. faults' \in 0..MaxFaults
  BY <1>0, FaultLeft
     DEF PassPart, Request, E2bStart, LogLine, StreamEnds, StatementFails, Disconnect, Crash
<1>4. PassPart'
  BY <1>0, <1>1, <1>3 DEF PassPart
<1>5. requests' \in 0..MaxRequests
  BY <1>0, RoomLeft
     DEF RecordPart, Request, E2bStart, LogLine, StreamEnds, StatementFails, Disconnect, Crash
<1>6. \/ rec' = rec
      \/ \E s \in {"waiting", "running"} \cup Ended : SetRec(t, s)
  BY DEF Request, E2bStart, LogLine, StreamEnds, StatementFails, Raised, Disconnect, Crash, Ended
<1>7. RecordPart'
  BY <1>0, <1>1, <1>5, <1>6, RecordSet DEF RecordPart
<1>8. \/ task' = task /\ starts' = starts
      \/ /\ \E to \in {"building", "done", "lost"} : TaskTo(t, to)
         /\ \/ starts' = starts
            \/ /\ t[1] \in E2b /\ task[t].pc = "idle"
               /\ starts' = [starts EXCEPT ![t[1]] = @ + 1]
  BY DEF Request, E2bStart, LogLine, StreamEnds, StatementFails, Raised, Disconnect, Crash
<1>9. TaskPart'
  BY <1>0, <1>1, <1>8, TaskToOK, TasksStay
<1> QED
  BY <1>2, <1>4, <1>7, <1>9 DEF TemplateInv

\* A build that succeeds: the task holds the image, and the copy if it was pushed.
LEMMA BuiltStep ==
  ASSUME TemplateInv, NEW t \in Tasks, NEW g \in Gateways, NEW v \in Images, Built(t, g, v)
  PROVE  TemplateInv'
<1> DEFINE x == [pc |-> "upsert", img |-> v, gw |-> g, reg |-> IF RegistryOn THEN v ELSE None]
<1>0. /\ RowPart /\ ImagePart /\ RecordPart /\ TaskPart /\ WorkerPart /\ PassPart
  BY DEF TemplateInv
<1>1. /\ Build(g, v, t[1])
      /\ task' = [task EXCEPT ![t] = x]
      /\ rec' = rec \/ rec' = [rec EXCEPT ![t[1]] = "running"]
      /\ UNCHANGED <<row, starts, last, requests, wk, keep, revived, faults>>
  BY DEF Built
<1>2. t[1] \in Regs
  BY DEF Tasks, Regs, Builds
<1>3. ImagePart'
  BY <1>0, <1>1, <1>2, TagBuilt
<1>4. RowPart' /\ WorkerPart' /\ PassPart'
  BY <1>0, <1>1 DEF RowPart, WorkerPart, PassPart
<1>5. RecordPart'
  <2>1. rec' \in [Builds -> {"none", "waiting", "running"} \cup Ended]
    BY <1>0, <1>1 DEF RecordPart
  <2> QED
    BY <1>0, <1>1, <2>1 DEF RecordPart
<1>6. TaskOK(x) /\ x.pc # "idle"
  BY DEF TaskOK, TaskRecord
<1> HIDE DEF x
<1>7. TaskPart'
  BY <1>0, <1>1, <1>6, TaskMoves
<1> QED
  BY <1>3, <1>4, <1>5, <1>7 DEF TemplateInv

\* A build that fails may leave an image behind.
LEMMA BuildFailsStep ==
  ASSUME TemplateInv, NEW t \in Tasks, BuildFails(t)
  PROVE  TemplateInv'
<1>0. /\ RowPart /\ ImagePart /\ RecordPart /\ TaskPart /\ WorkerPart /\ PassPart
  BY DEF TemplateInv
<1>1. /\ SetRec(t, "failed") /\ TaskTo(t, "done")
      /\ UNCHANGED <<row, registry, starts, last, requests, wk, keep, revived, faults>>
  BY DEF BuildFails, FailedBuild
<1>2. ImagePart'
  <2>1. CASE UNCHANGED <<image, made, old>>
    BY <1>0, <1>1, <2>1, ImagesStay DEF imageVars
  <2>2. ASSUME NEW g \in Gateways, NEW v \in Images, Make(g, v, t[1])
        PROVE  ImagePart'
    <3>1. t[1] \in Regs
      BY DEF Tasks, Regs, Builds
    <3> QED
      BY <1>0, <1>1, <2>2, <3>1, Made
  <2> QED
    BY <2>1, <2>2 DEF BuildFails, FailedBuild
<1>3. RowPart' /\ WorkerPart' /\ PassPart'
  BY <1>0, <1>1 DEF RowPart, WorkerPart, PassPart
<1>4. RecordPart'
  BY <1>0, <1>1, RecordSet DEF RecordPart, Ended
<1>5. TaskPart'
  BY <1>0, <1>1, TaskToOK
<1> QED
  BY <1>2, <1>3, <1>4, <1>5 DEF TemplateInv

\* Registering a built image stores one build's references, in this order: none, the
\* image as the base, and the image with its copy.
LEMMA RegisterStep ==
  ASSUME TemplateInv, NEW t \in Tasks, Register(t)
  PROVE  TemplateInv'
<1> USE DEF imageVars
<1>0. /\ RowPart /\ ImagePart /\ RecordPart /\ TaskPart /\ WorkerPart /\ PassPart
  BY DEF TemplateInv
<1>1. UNCHANGED <<image, registry, made, old, starts, requests, wk, keep, revived, faults>>
  BY DEF Register, RegisterImage, StoreSource, StoreSnapshot, Finish
<1>2. ImagePart' /\ WorkerPart' /\ PassPart'
  BY <1>0, <1>1, ImagesStay DEF WorkerPart, PassPart, imageVars
<1>3. t[1] \in Regs /\ TaskOK(task[t])
  BY <1>0 DEF TaskPart, Tasks, Regs, Builds
<1>4. \E to \in {"source", "snapshot", "finish", "done"} : TaskTo(t, to)
  BY DEF Register, RegisterImage, StoreSource, StoreSnapshot, Finish
<1>5. TaskPart'
  BY <1>0, <1>1, <1>4, TaskToOK
<1>6. RecordPart'
  <2>1. last' \in Regs \cup {None}
    BY <1>0, <1>3 DEF RecordPart, Register, RegisterImage, StoreSource, StoreSnapshot, Finish
  <2>2. rec' = rec \/ SetRec(t, "success")
    BY DEF Register, RegisterImage, StoreSource, StoreSnapshot, Finish
  <2> QED
    BY <1>0, <1>1, <2>1, <2>2, RecordSet DEF RecordPart, Ended
<1>7. RowPart'
  <2>1. CASE RegisterImage(t)
    <3>1. task[t].img \in Images \cup {None}
      BY <1>3 DEF TaskOK, TaskRecord
    <3> QED
      BY <1>0, <1>1, <2>1, <3>1, UpsertOK DEF RegisterImage, RowPart
  <2>2. CASE StoreSource(t)
    BY <1>0, <1>1, <1>3, <2>2, SourceOK DEF StoreSource, RowPart
  <2>3. CASE StoreSnapshot(t)
    <3>1. /\ task[t].img \in Images \cup {None} /\ task[t].reg \in Images \cup {None}
          /\ task[t].gw \in Gateways \cup {None}
          /\ task[t].img # None /\ task[t].reg # None => task[t].img = task[t].reg
      BY <1>3 DEF TaskOK, TaskRecord
    <3> QED
      BY <1>0, <1>1, <2>3, <3>1, SetRefsOK, ZenonT(60) DEF StoreSnapshot, SetWarmSnapshot, RowPart
  <2>4. CASE Finish(t)
    BY <1>0, <1>1, <2>4 DEF Finish, RowPart
  <2> QED
    BY <2>1, <2>2, <2>3, <2>4 DEF Register
<1> QED
  BY <1>2, <1>5, <1>6, <1>7 DEF TemplateInv

\* Requests that build nothing.
LEMMA PlainStep ==
  ASSUME TemplateInv,
         (\E t \in Tasks : RegisterBase(t)) \/ (\E r \in E2b : E2bRequest(r)) \/ DeleteTemplate
  PROVE  TemplateInv'
<1> USE DEF imageVars
<1>0. /\ RowPart /\ ImagePart /\ RecordPart /\ TaskPart /\ WorkerPart /\ PassPart
  BY DEF TemplateInv
<1>1. UNCHANGED <<image, registry, made, old, starts, wk, keep, revived, faults>>
  BY DEF RegisterBase, E2bRequest, DeleteTemplate
<1>2. ImagePart' /\ WorkerPart' /\ PassPart'
  BY <1>0, <1>1, ImagesStay DEF WorkerPart, PassPart, imageVars
<1>3. ASSUME NEW t \in Tasks, RegisterBase(t)
      PROVE  RowPart' /\ TaskPart' /\ RecordPart'
  <2>1. t[1] \in Regs /\ t[1] \notin Images
    BY <1>3, TemplateAssumption DEF RegisterBase, Regs
  <2>2. RowPart'
    BY <1>0, <1>1, <1>3, <2>1, UpsertOK DEF RegisterBase, RowPart
  <2>3. TaskPart'
    BY <1>0, <1>1, <1>3, TaskToOK DEF RegisterBase
  <2>4. RecordPart'
    BY <1>0, <1>3, <2>1, RoomLeft DEF RegisterBase, RecordPart
  <2> QED
    BY <2>2, <2>3, <2>4
<1>4. ASSUME NEW r \in E2b, E2bRequest(r)
      PROVE  RowPart' /\ TaskPart' /\ RecordPart'
  <2>1. RowPart' /\ TaskPart'
    BY <1>0, <1>1, <1>4, TasksStay DEF E2bRequest, RowPart
  <2>2. RecordPart'
    BY <1>0, <1>4 DEF E2bRequest, RecordPart
  <2> QED
    BY <2>1, <2>2
<1>5. CASE DeleteTemplate
  <2>1. RowPart' /\ TaskPart'
    BY <1>0, <1>1, <1>5, NoRowOK, TasksStay DEF DeleteTemplate, RowPart
  <2>2. RecordPart'
    BY <1>0, <1>5, RoomLeft DEF DeleteTemplate, RecordPart
  <2> QED
    BY <1>2, <2>1, <2>2 DEF TemplateInv
<1> QED
  BY <1>2, <1>3, <1>4, <1>5 DEF TemplateInv

-----------------------------------------------------------------------------
(* Reconcile, repair and prune                                             *)

\* A worker that goes on to a place that asks nothing of it, or is done.
LEMMA WorkerLeaves ==
  ASSUME WorkerPart, NEW w \in Workers,
         \/ Leave(w) \/ Back(w)
         \/ \E to \in {"reread", "repair", "snapread", "check"} : Next1(w, to)
  PROVE  WorkerPart'
<1>0. WorkerOK(wk[w])
  BY DEF WorkerPart
<1>1. CASE Back(w)
  <2>1. IdleWorker \in WorkerRecord
    BY NoRowOK DEF IdleWorker, WorkerRecord, RowOK
  <2>2. WorkerOK(IdleWorker)
    BY <2>1, NoRowOK DEF IdleWorker, WorkerOK
  <2> QED
    BY <1>1, <2>2, WorkerMoves DEF Back
<1>2. ASSUME NEW to \in {"reread", "repair", "snapread", "check"}, Next1(w, to)
      PROVE  WorkerPart'
  <2> DEFINE x == [wk[w] EXCEPT !.pc = to]
  <2>1. /\ x \in WorkerRecord /\ x.pc = to /\ x.seen = wk[w].seen /\ x.img = wk[w].img
    BY <1>0, <1>2 DEF WorkerOK, WorkerRecord
  <2>2. wk' = [wk EXCEPT ![w] = x]
    BY <1>2 DEF Next1
  <2> HIDE DEF x
  <2>3. WorkerOK(x)
    BY <1>0, <1>2, <2>1 DEF WorkerOK
  <2> QED
    BY <2>2, <2>3, WorkerMoves
<1> QED
  BY <1>1, <1>2 DEF Leave

\* What a step leaves alone stays as it was.
LEMMA RestStays ==
  ASSUME TemplateInv, UNCHANGED taskVars
  PROVE  RecordPart' /\ TaskPart'
<1>1. RecordPart'
  BY DEF TemplateInv, RecordPart, taskVars
<1>2. TaskPart'
  BY TasksStay DEF TemplateInv, taskVars
<1> QED
  BY <1>1, <1>2

\* A worker starts with the row as it is, looks at the gateways and the registry, and
\* may read the row again.
LEMMA LookStep ==
  ASSUME TemplateInv, NEW w \in Workers,
         \/ StartReconcile(w) \/ StartCreate(w) \/ Probe(w) \/ Reread(w) \/ SnapshotRead(w)
         \/ WorkerDies(w)
  PROVE  TemplateInv'
<1> USE DEF imageVars
<1>0. /\ RowPart /\ ImagePart /\ RecordPart /\ TaskPart /\ WorkerPart /\ PassPart
  BY DEF TemplateInv
<1>1. UNCHANGED <<row, imageVars, taskVars, keep, revived>>
  BY DEF StartReconcile, StartCreate, Start, Probe, Reread, SnapshotRead, WorkerDies
<1>2. RowPart' /\ ImagePart' /\ RecordPart' /\ TaskPart'
  BY <1>0, <1>1, RestStays, ImagesStay DEF RowPart
<1>3. PassPart'
  <2>1. faults' \in 0..MaxFaults
    BY <1>0, FaultLeft
       DEF PassPart, StartReconcile, StartCreate, Start, Probe, Reread, SnapshotRead, WorkerDies
  <2> QED
    BY <1>0, <1>1, <2>1 DEF PassPart
<1>4. /\ WorkerOK(wk[w]) /\ RowOK(row)
      /\ wk[w] \in WorkerRecord /\ row \in Row
  BY <1>0, <1>1 DEF WorkerPart, RowPart, RowOK
<1>5. ASSUME NEW k \in {"reconcile", "create"}, Start(w, k)
      PROVE  WorkerPart'
  <2> DEFINE x == [IdleWorker EXCEPT !.pc = "probe", !.seen = row, !.kind = k]
  <2>0. IdleWorker \in WorkerRecord
    BY NoRowOK DEF WorkerRecord, IdleWorker, RowOK
  <2>1. /\ x.pc = "probe" /\ x.seen = row /\ x.img = None
    BY DEF IdleWorker
  <2>2. x \in WorkerRecord
    BY <1>4, <2>0 DEF WorkerRecord
  <2>3. WorkerOK(x)
    BY <1>4, <2>1, <2>2 DEF WorkerOK
  <2>4. wk' = [wk EXCEPT ![w] = x]
    BY <1>5 DEF Start
  <2> HIDE DEF x
  <2> QED
    BY <1>0, <2>3, <2>4, WorkerMoves
<1>6. ASSUME Probe(w)
      PROVE  WorkerPart'
  <2> DEFINE s == wk[w].seen
  <2>1. PICK at \in Holders(s.warm) \cup {None}, inReg \in {s.reg \in Copied, FALSE} :
          wk' = [wk EXCEPT ![w].pc = "settle", ![w].at = at, ![w].inReg = inReg]
    BY <1>6 DEF Probe
  <2>2. at \in Gateways \cup {None}
    BY DEF Holders
  <2>3. inReg \in BOOLEAN
    <3>1. inReg = (s.reg \in Copied) \/ inReg = FALSE
      BY Zenon
    <3>2. (s.reg \in Copied) \in BOOLEAN
      OBVIOUS
    <3> QED
      BY <3>1, <3>2, Zenon
  <2> DEFINE x == [wk[w] EXCEPT !.pc = "settle", !.at = at, !.inReg = inReg]
  <2>4. /\ x \in WorkerRecord /\ x.pc = "settle" /\ x.at = at /\ x.inReg = inReg
        /\ x.seen = wk[w].seen /\ x.img = wk[w].img
    BY <1>4, <2>2, <2>3 DEF WorkerRecord
  <2>5. wk' = [wk EXCEPT ![w] = x]
    BY <2>1
  <2> HIDE DEF x
  <2>6. WorkerOK(x)
    BY <1>4, <2>2, <2>3, <2>4 DEF WorkerOK
  <2> QED
    BY <1>0, <2>5, <2>6, WorkerMoves
<1>7. ASSUME Reread(w)
      PROVE  WorkerPart'
  <2> DEFINE x == [wk[w] EXCEPT !.pc = "repair", !.seen = IF row.exists THEN row ELSE @]
  <2>1. /\ x \in WorkerRecord /\ x.pc = "repair" /\ x.seen \in {wk[w].seen, row}
        /\ x.img = wk[w].img
    BY <1>4 DEF WorkerRecord
  <2>2. wk' = [wk EXCEPT ![w] = x]
    BY <1>7 DEF Reread
  <2> HIDE DEF x
  <2>3. WorkerOK(x)
    BY <1>4, <2>1 DEF WorkerOK
  <2> QED
    BY <1>0, <2>2, <2>3, WorkerMoves
<1>8. ASSUME SnapshotRead(w)
      PROVE  WorkerPart'
  <2>1. CASE row.exists /\ row.warm = None
    <3> DEFINE x == [wk[w] EXCEPT !.pc = "snapbuild", !.seen = row]
    <3>1. /\ x \in WorkerRecord /\ x.pc = "snapbuild" /\ x.seen = row
          /\ x.img = wk[w].img
      BY <1>4 DEF WorkerRecord
    <3>2. wk' = [wk EXCEPT ![w] = x]
      BY <1>8, <2>1 DEF SnapshotRead
    <3> HIDE DEF x
    <3>3. WorkerOK(x)
      BY <1>4, <2>1, <3>1 DEF WorkerOK
    <3> QED
      BY <1>0, <3>2, <3>3, WorkerMoves
  <2>2. CASE ~(row.exists /\ row.warm = None)
    BY <1>0, <1>8, <2>2, WorkerLeaves DEF SnapshotRead
  <2> QED
    BY <2>1, <2>2
<1>9. ASSUME WorkerDies(w)
      PROVE  WorkerPart'
  BY <1>0, <1>9, WorkerLeaves DEF WorkerDies
<1>10. ASSUME StartReconcile(w) \/ StartCreate(w)
      PROVE  WorkerPart'
  <2>1. Start(w, "reconcile") \/ Start(w, "create")
    BY <1>10 DEF StartReconcile, StartCreate
  <2> QED
    BY <1>5, <2>1
<1>11. WorkerPart'
  BY <1>6, <1>7, <1>8, <1>9, <1>10
<1> QED
  BY <1>2, <1>3, <1>11 DEF TemplateInv

\* What a worker writes back it has read or seen itself: the references of one reading,
\* its warm image twice, or none.
LEMMA SettleStep ==
  ASSUME TemplateInv, NEW w \in Workers, Settle(w)
  PROVE  TemplateInv'
<1> USE DEF imageVars
<1> DEFINE s == wk[w].seen
           at == wk[w].at
<1>0. /\ RowPart /\ ImagePart /\ RecordPart /\ TaskPart /\ WorkerPart /\ PassPart
  BY DEF TemplateInv
<1>1. UNCHANGED <<image, made, old, taskVars, keep, faults>>
  BY DEF Settle
<1>2. RecordPart' /\ TaskPart'
  BY <1>1, RestStays
<1>3. /\ RowOK(s) /\ at \in Gateways \cup {None}
      /\ s.warm \in Images \cup {None} /\ s.reg \in Images \cup {None}
      /\ s.warm # None /\ s.reg # None => s.warm = s.reg
  BY <1>0 DEF WorkerPart, WorkerOK, WorkerRecord, Row, RowOK
<1>4. \/ row' = row
      \/ row' = SetImageRefs(row, None, s.reg, None, FALSE)
      \/ row' = SetImageRefs(row, s.warm, s.reg, at, FALSE)
      \/ row' = SetImageRefs(row, s.warm, s.warm, at, s.warm = None)
      \/ row' = SetImageRefs(row, s.warm, None, at, TRUE)
      \/ row' = SetImageRefs(row, None, None, None, TRUE)
  BY DEF Settle, MovedTo, WithCopy
<1>5. /\ \/ registry' = registry
         \/ /\ at # None /\ s.warm \in Held(at)
            /\ registry' = [registry EXCEPT ![s.warm] = image[at][s.warm]]
      /\ Back(w) \/ \E to \in {"reread", "repair", "snapread"} : Next1(w, to)
  BY DEF Settle
<1> HIDE DEF s, at
<1>6. RowPart'
  <2>0. RowOK(row) /\ (row.exists \/ row = NoRow)
    BY <1>0 DEF RowPart
  <2>a. /\ None \in Images \cup {None} /\ None \in Gateways \cup {None}
        /\ TRUE \in BOOLEAN /\ FALSE \in BOOLEAN /\ (s.warm = None) \in BOOLEAN
    OBVIOUS
  <2>b. ASSUME NEW v \in Images \cup {None}, NEW c \in Images \cup {None},
               NEW g \in Gateways \cup {None}, NEW e \in BOOLEAN,
               v # None /\ c # None => v = c,
               row' = SetImageRefs(row, v, c, g, e)
        PROVE  RowOK(row') /\ (row'.exists \/ row' = NoRow)
    <3> DEFINE n == SetImageRefs(row, v, c, g, e)
    <3>1. RowOK(n) /\ (n.exists \/ n = NoRow)
      BY <2>0, <2>b, SetRefsOK
    <3>2. row' = n
      BY <2>b
    <3> HIDE DEF n
    <3> QED BY <3>1, <3>2
  <2>1. RowOK(row') /\ (row'.exists \/ row' = NoRow)
    <3>1. CASE row' = row
      BY <2>0, <3>1
    <3>2. CASE row' = SetImageRefs(row, None, s.reg, None, FALSE)
      BY <1>3, <2>a, <2>b, <3>2
    <3>3. CASE row' = SetImageRefs(row, s.warm, s.reg, at, FALSE)
      BY <1>3, <2>a, <2>b, <3>3
    <3>4. CASE row' = SetImageRefs(row, s.warm, s.warm, at, s.warm = None)
      BY <1>3, <2>a, <2>b, <3>4
    <3>5. CASE row' = SetImageRefs(row, s.warm, None, at, TRUE)
      BY <1>3, <2>a, <2>b, <3>5
    <3>6. CASE row' = SetImageRefs(row, None, None, None, TRUE)
      BY <1>3, <2>a, <2>b, <3>6
    <3> QED
      BY <1>4, <3>1, <3>2, <3>3, <3>4, <3>5, <3>6
  <2> QED
    BY <1>1, <2>1 DEF RowPart
<1>7. ImagePart'
  <2>1. CASE registry' = registry
    BY <1>0, <1>1, <2>1, ImagesStay
  <2>2. CASE /\ at # None /\ s.warm \in Held(at)
             /\ registry' = [registry EXCEPT ![s.warm] = image[at][s.warm]]
    <3>1. at \in Gateways /\ s.warm \in Images
      BY <1>3, <2>2 DEF Held
    <3> QED
      BY <1>0, <1>1, <2>2, <3>1, Pushed
  <2> QED
    BY <1>5, <2>1, <2>2
<1>8. WorkerPart'
  BY <1>0, <1>1, <1>5, WorkerLeaves
<1>9. PassPart'
  <2>1. revived' \subseteq Images
    <3>1. row'.warm \in Images \/ revived' = revived
      BY <1>0, <1>6 DEF Settle, Revives, RowPart, RowOK, Row, ImagePart, Images
    <3> QED
      BY <1>0, <3>1 DEF PassPart, Settle, Revives
  <2> QED
    BY <1>0, <1>1, <2>1 DEF PassPart
<1> QED
  BY <1>2, <1>6, <1>7, <1>8, <1>9 DEF TemplateInv

\* A worker that has built an image goes on to store it, with nothing but that image.
LEMMA BuildsToStore ==
  ASSUME TemplateInv, NEW w \in Workers, NEW v \in Images, NEW g \in Gateways,
         wk' = [wk EXCEPT ![w].pc = "store", ![w].img = v, ![w].at = g]
  PROVE  WorkerPart'
<1> DEFINE x == [wk[w] EXCEPT !.pc = "store", !.img = v, !.at = g]
<1>0. WorkerPart /\ WorkerOK(wk[w])
  BY DEF TemplateInv, WorkerPart
<1>1. x \in WorkerRecord /\ x.seen = wk[w].seen
  BY <1>0 DEF WorkerOK, WorkerRecord
<1>2. wk' = [wk EXCEPT ![w] = x]
  OBVIOUS
<1> HIDE DEF x
<1>3. WorkerOK(x)
  BY <1>0, <1>1 DEF WorkerOK
<1> QED
  BY <1>0, <1>2, <1>3, WorkerMoves

\* Repairs build under a tag that the reading names, or under the next one.
LEMMA RepairStep ==
  ASSUME TemplateInv, NEW w \in Workers, Rebuild(w) \/ RebuildFromBase(w) \/ SnapshotBuild(w)
  PROVE  TemplateInv'
<1> USE DEF imageVars
<1> DEFINE s == wk[w].seen
<1>0. /\ RowPart /\ ImagePart /\ RecordPart /\ TaskPart /\ WorkerPart /\ PassPart
  BY DEF TemplateInv
<1>1. UNCHANGED <<taskVars, keep, revived, faults>>
  BY DEF Rebuild, RebuildFromBase, SnapshotBuild
<1>2. PassPart'
  BY <1>0, <1>1 DEF PassPart
<1>3. /\ RowOK(s) /\ s \in Row /\ WorkerOK(wk[w])
      /\ wk[w] \in WorkerRecord
  BY <1>0 DEF WorkerPart, WorkerOK, RowOK
<1>4. /\ RowOK(row) /\ (row.exists \/ row = NoRow)
      /\ RowOK(SetBuildError(row))
      /\ (SetBuildError(row).exists \/ SetBuildError(row) = NoRow)
  BY <1>0, BuildErrorOK DEF RowPart
<1>5. ASSUME NEW v \in Images, NEW r \in Regs, NEW g \in Gateways, Build(g, v, r), row' = row,
             wk' = [wk EXCEPT ![w].pc = "store", ![w].img = v, ![w].at = g]
      PROVE  TemplateInv'
  <2>1. ImagePart' /\ RowPart'
    BY <1>0, <1>5, TagBuilt DEF RowPart
  <2>2. WorkerPart'
    BY <1>5, BuildsToStore
  <2>3. RecordPart' /\ TaskPart'
    BY <1>1, RestStays
  <2> QED
    BY <1>2, <2>1, <2>2, <2>3 DEF TemplateInv
<1>6. ASSUME row' = SetBuildError(row), Back(w) \/ Leave(w), UNCHANGED imageVars
      PROVE  TemplateInv'
  <2>1. RowPart' /\ ImagePart'
    BY <1>0, <1>4, <1>6, ImagesStay DEF RowPart
  <2>2. WorkerPart'
    BY <1>0, <1>6, WorkerLeaves
  <2>3. RecordPart' /\ TaskPart'
    BY <1>1, <1>6, RestStays
  <2> QED
    BY <1>2, <2>1, <2>2, <2>3 DEF TemplateInv
<1>7. CASE Rebuild(w)
  <2>1. s.source \in Regs
    BY <1>3, <1>7 DEF Rebuild, Row
  <2>3. CASE \E g \in Gateways, v \in Images :
               /\ RepairTag(s, v) /\ Build(g, v, s.source) /\ UNCHANGED row
               /\ wk' = [wk EXCEPT ![w].pc = "store", ![w].img = v, ![w].at = g]
    BY <1>5, <2>1, <2>3
  <2>4. CASE row' = SetBuildError(row) /\ Back(w) /\ UNCHANGED imageVars
    BY <1>6, <2>4
  <2> QED
    BY <1>7, <2>3, <2>4 DEF Rebuild
<1>8. CASE RebuildFromBase(w)
  <2>1. UNCHANGED imageVars
    BY <1>8 DEF RebuildFromBase
  <2>2. CASE row' = SetBuildError(row) /\ Back(w)
    BY <1>6, <2>1, <2>2
  <2>3. CASE /\ row' = IF HasRefs(s) THEN SetImageRefs(row, None, None, None, TRUE) ELSE row
             /\ wk' = [wk EXCEPT ![w].pc = "snapread", ![w].kind = "repair"]
    <3>1. RowPart'
      <4>1. /\ RowOK(SetImageRefs(row, None, None, None, TRUE))
            /\ \/ SetImageRefs(row, None, None, None, TRUE).exists
               \/ SetImageRefs(row, None, None, None, TRUE) = NoRow
        BY <1>4, SetRefsOK
      <4> QED
        BY <1>4, <2>1, <2>3, <4>1 DEF RowPart
    <3>2. WorkerPart'
      <4> DEFINE x == [wk[w] EXCEPT !.pc = "snapread", !.kind = "repair"]
      <4>1. x \in WorkerRecord /\ x.pc = "snapread" /\ x.img = wk[w].img /\ x.seen = wk[w].seen
        BY <1>3 DEF WorkerRecord
      <4>2. wk' = [wk EXCEPT ![w] = x]
        BY <2>3
      <4> HIDE DEF x
      <4>3. WorkerOK(x)
        BY <1>3, <2>1, <4>1 DEF WorkerOK
      <4> QED
        BY <1>0, <2>1, <4>2, <4>3, WorkerMoves
    <3>3. ImagePart' /\ RecordPart' /\ TaskPart'
      BY <1>0, <1>1, <2>1, RestStays, ImagesStay
    <3> QED
      BY <1>2, <3>1, <3>2, <3>3 DEF TemplateInv
  <2> QED
    BY <1>8, <2>2, <2>3 DEF RebuildFromBase
<1>9. CASE SnapshotBuild(w)
  <2>1. ASSUME NEW g \in Gateways, MadeFrom(g, s.base) # None
        PROVE  MadeFrom(g, s.base) \in Regs
    BY <1>0, <1>3, <2>1 DEF MadeFrom, Row, ImagePart
  <2>2. CASE \E g \in Gateways, v \in Images :
               /\ Fresh(v) /\ MadeFrom(g, s.base) # None /\ Build(g, v, MadeFrom(g, s.base))
               /\ wk' = [wk EXCEPT ![w].pc = "store", ![w].img = v, ![w].at = g]
               /\ UNCHANGED row
    BY <1>5, <2>1, <2>2
  <2>3. CASE row' = SetBuildError(row) /\ UNCHANGED imageVars /\ Leave(w)
    BY <1>6, <2>3
  <2> QED
    BY <1>9, <2>2, <2>3 DEF SnapshotBuild
<1> QED
  BY <1>7, <1>8, <1>9

\* A repair ends with the references of the image that it built, or with an error.
LEMMA StoreStep ==
  ASSUME TemplateInv, NEW w \in Workers, Store(w) \/ Check(w)
  PROVE  TemplateInv'
<1> USE DEF imageVars
<1>0. /\ RowPart /\ ImagePart /\ RecordPart /\ TaskPart /\ WorkerPart /\ PassPart
  BY DEF TemplateInv
<1>1. UNCHANGED <<imageVars, taskVars, keep, faults>> /\ (Leave(w) \/ Back(w))
  BY DEF Store, Check
<1>2. ImagePart' /\ RecordPart' /\ TaskPart' /\ WorkerPart'
  BY <1>0, <1>1, RestStays, WorkerLeaves, ImagesStay
<1>3. RowPart'
  <2>0. RowOK(row) /\ (row.exists \/ row = NoRow)
    BY <1>0 DEF RowPart
  <2>1. CASE Store(w)
    <3>1. /\ wk[w].img \in Images \cup {None} /\ wk[w].at \in Gateways \cup {None}
      BY <1>0 DEF WorkerPart, WorkerOK, WorkerRecord
    <3>2. (IF RegistryOn THEN wk[w].img ELSE None) \in {wk[w].img, None}
      OBVIOUS
    <3>3. row' = SetImageRefs(row, wk[w].img, IF RegistryOn THEN wk[w].img ELSE None,
                              wk[w].at, FALSE)
      BY <2>1 DEF Store, SetWarmSnapshot
    <3>4. \A c \in {wk[w].img, None} :
            LET new == SetImageRefs(row, wk[w].img, c, wk[w].at, FALSE)
            IN  RowOK(new) /\ (new.exists \/ new = NoRow)
      <4>1. FALSE \in BOOLEAN
        OBVIOUS
      <4>2. ASSUME NEW c \in {wk[w].img, None}
            PROVE  c \in Images \cup {None} /\ (wk[w].img # None /\ c # None => wk[w].img = c)
        BY <3>1
      <4> QED
        BY <2>0, <3>1, <4>1, <4>2, SetRefsOK, ZenonT(60)
    <3> QED
      BY <1>1, <3>2, <3>3, <3>4 DEF RowPart
  <2>2. CASE Check(w)
    BY <1>1, <2>0, <2>2, BuildErrorOK DEF Check, RowPart
  <2> QED
    BY <2>1, <2>2
<1>4. PassPart'
  <2>1. row'.warm \in Images \cup {None}
    BY <1>3 DEF RowPart, RowOK, Row
  <2>2. \A g \in Gateways : None \notin old[g]
    BY <1>0, TemplateAssumption DEF ImagePart, Images
  <2>3. revived' \subseteq Images
    BY <1>0, <2>1, <2>2 DEF PassPart, Store, Check, Revives
  <2> QED
    BY <1>0, <1>1, <2>3 DEF PassPart
<1> QED
  BY <1>2, <1>3, <1>4 DEF TemplateInv

\* Pruning, age and loss take images away or touch none.
LEMMA LossStep ==
  ASSUME TemplateInv,
         \/ ListKeep \/ PruneDone
         \/ \E g \in Gateways : PruneImage(g) \/ LoseGateway(g)
         \/ \E g \in Gateways, v \in Images : Age(g, v)
         \/ \E v \in Images : LoseRegistry(v)
  PROVE  TemplateInv'
<1>0. /\ RowPart /\ ImagePart /\ RecordPart /\ TaskPart /\ WorkerPart /\ PassPart
  BY DEF TemplateInv
<1>1. UNCHANGED <<row, made, taskVars, wk>>
  BY DEF ListKeep, PruneDone, PruneImage, LoseGateway, Age, LoseRegistry, imageVars
<1>2. RowPart' /\ RecordPart' /\ TaskPart' /\ WorkerPart'
  BY <1>0, <1>1, RestStays, WorkersStay DEF RowPart
<1>3. ImagePart'
  <2>1. CASE ListKeep \/ PruneDone
    BY <1>0, <2>1, ImagesStay DEF ListKeep, PruneDone
  <2>2. ASSUME NEW g \in Gateways, NEW v \in Images, Drop(g, v), registry' = registry
        PROVE  ImagePart'
    BY <1>0, <1>1, <2>2, Dropped
  <2>3. ASSUME NEW g \in Gateways, PruneImage(g)
        PROVE  ImagePart'
    <3>1. \A v \in Prunable(g) : v \in Images
      BY <1>0 DEF Prunable, ImagePart, Images
    <3> QED
      BY <2>2, <2>3, <3>1 DEF PruneImage
  <2>4. ASSUME NEW g \in Gateways, LoseGateway(g)
        PROVE  ImagePart'
    <3>1. /\ image' = [image EXCEPT ![g] = [v \in Images |-> None]]
          /\ old' = [old EXCEPT ![g] = {}] /\ registry' = registry
      BY <2>4 DEF LoseGateway
    <3>2. \A h \in Gateways : \A v \in Images : image'[h][v] \in {image[h][v], None}
      BY <1>0, <3>1 DEF ImagePart
    <3>3. \A h \in Gateways : h # g => image'[h] = image[h] /\ old'[h] = old[h]
      BY <1>0, <3>1 DEF ImagePart
    <3>4. old'[g] = {}
      BY <1>0, <3>1 DEF ImagePart
    <3>5. \A h \in Gateways : old'[h] \subseteq Held(h)'
      BY <1>0, <3>3, <3>4 DEF ImagePart, Held
    <3>6. /\ image' \in [Gateways -> [Images -> Regs \cup {None}]]
          /\ old' \in [Gateways -> SUBSET Generated]
      BY <1>0, <3>1 DEF ImagePart
    <3> QED
      BY <1>0, <1>1, <3>1, <3>2, <3>5, <3>6 DEF ImagePart
  <2>5. ASSUME NEW g \in Gateways, NEW v \in Images, Age(g, v)
        PROVE  ImagePart'
    BY <1>0, <1>1, <2>5 DEF Age, ImagePart, Held
  <2>6. ASSUME NEW v \in Images, LoseRegistry(v)
        PROVE  ImagePart'
    BY <1>0, <1>1, <2>6 DEF LoseRegistry, ImagePart, Held
  <2> QED
    BY <2>1, <2>3, <2>4, <2>5, <2>6
<1>4. PassPart'
  <2>1. keep' \in [on : BOOLEAN, refs : SUBSET Images]
    <3>1. CASE ListKeep
      <4>1. keep' = [on |-> TRUE, refs |-> {row.warm, row.reg, row.base} \cap Images]
        BY <3>1 DEF ListKeep
      <4>2. {row.warm, row.reg, row.base} \cap Images \in SUBSET Images
        OBVIOUS
      <4> HIDE DEF Images
      <4> QED
        BY <4>1, <4>2
    <3>2. CASE PruneDone
      BY <3>2 DEF PruneDone
    <3>3. CASE keep' = keep
      BY <1>0, <3>3 DEF PassPart
    <3> QED
      BY <3>1, <3>2, <3>3 DEF PruneImage, LoseGateway, Age, LoseRegistry
  <2>2. revived' \subseteq Images
    BY <1>0 DEF PassPart, ListKeep, PruneDone, PruneImage, LoseGateway, Age, LoseRegistry
  <2>3. faults' \in 0..MaxFaults
    BY <1>0, FaultLeft
       DEF PassPart, ListKeep, PruneDone, PruneImage, LoseGateway, Age, LoseRegistry
  <2> QED
    BY <2>1, <2>2, <2>3 DEF PassPart
<1> QED
  BY <1>2, <1>3, <1>4 DEF TemplateInv

-----------------------------------------------------------------------------
(* The theorems                                                            *)

\* Nothing is built, registered or under way at first.
LEMMA InitHolds ==
  ASSUME Init
  PROVE  TemplateInv
<1>1. RowPart
  BY NoRowOK DEF Init, RowPart
<1>2. ImagePart
  BY DEF Init, ImagePart
<1>3. RecordPart
  BY TemplateAssumption DEF Init, RecordPart
<1>4. TaskPart
  <2>1. IdleTask \in TaskRecord
    BY DEF IdleTask, TaskRecord
  <2>2. TaskOK(IdleTask) /\ IdleTask.pc = "idle"
    BY <2>1 DEF IdleTask, TaskOK
  <2>3. task \in [Tasks -> TaskRecord] /\ \A t \in Tasks : TaskOK(task[t])
    BY <2>1, <2>2 DEF Init
  <2>4. \A r \in E2b : <<r, 1>> \in Tasks /\ <<r, 2>> \in Tasks
    BY DEF Tasks, Regs, Builds
  <2>5. \A r \in E2b : starts[r] + Idle(<<r, 1>>) + Idle(<<r, 2>>) <= 2
    <3>1. \A t \in Tasks : Idle(t) = 1
      BY <2>2 DEF Init, Idle
    <3>2. \A r \in E2b : starts[r] = 0
      BY DEF Init
    <3>3. ASSUME NEW r \in E2b
          PROVE  starts[r] + Idle(<<r, 1>>) + Idle(<<r, 2>>) <= 2
      <4>1. Idle(<<r, 1>>) = 1 /\ Idle(<<r, 2>>) = 1 /\ starts[r] = 0
        BY <2>4, <3>1, <3>2
      <4> QED
        BY <4>1
    <3> QED
      BY <3>3
  <2>6. starts \in [E2b -> 0..2]
    BY DEF Init
  <2> QED
    BY <2>3, <2>5, <2>6 DEF TaskPart
<1>5. WorkerPart
  <2>1. IdleWorker \in WorkerRecord
    BY NoRowOK DEF IdleWorker, WorkerRecord, RowOK
  <2>2. WorkerOK(IdleWorker)
    BY <2>1, NoRowOK DEF IdleWorker, WorkerOK
  <2> QED
    BY <2>1, <2>2 DEF Init, WorkerPart
<1>6. PassPart
  BY TemplateAssumption DEF Init, PassPart
<1> QED
  BY <1>1, <1>2, <1>3, <1>4, <1>5, <1>6 DEF TemplateInv

\* A step that changes nothing.
LEMMA Stutter ==
  ASSUME TemplateInv, UNCHANGED vars
  PROVE  TemplateInv'
BY DEF TemplateInv, RowPart, ImagePart, Held, RecordPart, TaskPart, WorkerPart, PassPart,
       Idle, vars, imageVars, taskVars

\* Every step keeps the invariant.
LEMMA InvStep ==
  ASSUME TemplateInv, [Next]_vars
  PROVE  TemplateInv'
<1>1. CASE \E t \in Tasks : \/ Request(t) \/ E2bStart(t) \/ LogLine(t) \/ TaskStep(t)
                            \/ StreamEnds(t) \/ StatementFails(t) \/ Disconnect(t)
                            \/ Crash(t) \/ RegisterBase(t)
  BY <1>1, RequestStep, BuiltStep, BuildFailsStep, RegisterStep, PlainStep DEF TaskStep
<1>2. CASE (\E r \in E2b : E2bRequest(r)) \/ DeleteTemplate
  BY <1>2, PlainStep
<1>3. CASE \E w \in Workers : \/ StartReconcile(w) \/ StartCreate(w) \/ Ensure(w)
                              \/ WorkerDies(w)
  BY <1>3, LookStep, SettleStep, RepairStep, StoreStep DEF Ensure
<1>4. CASE \/ ListKeep \/ PruneDone
           \/ \E g \in Gateways : PruneImage(g) \/ LoseGateway(g)
           \/ \E g \in Gateways, v \in Images : Age(g, v)
           \/ \E v \in Images : LoseRegistry(v)
  BY <1>4, LossStep
<1>5. CASE UNCHANGED vars
  BY <1>5, Stutter
<1> QED
  BY <1>1, <1>2, <1>3, <1>4, <1>5 DEF Next

\* So it holds in every reachable state.
LEMMA AlwaysTemplateInv == Spec => []TemplateInv
<1>1. Init => TemplateInv
  BY InitHolds
<1>2. TemplateInv /\ [Next]_vars => TemplateInv'
  BY InvStep
<1> QED
  BY <1>1, <1>2, PTL DEF Spec

\* Every variable keeps its type; in particular each call of the E2B API starts its build
\* at most once, so that a build is started at most twice.
THEOREM TypeInvariance == Spec => []TypeOK
<1>1. TemplateInv => TypeOK
  BY InvImplies
<1> QED
  BY <1>1, AlwaysTemplateInv, PTL

\* However builds, repairs and reconciles of several replicas interleave, and whatever of
\* them is cut off, the warm and the registry reference of a row name one tag, and every
\* gateway and the registry hold one image under it, unless two different requests were
\* built under that tag.
THEOREM ReferencesAgree == Spec => []RefsAgree
<1>1. TemplateInv => RefsAgree
  BY InvImplies
<1> QED
  BY <1>1, AlwaysTemplateInv, PTL

-----------------------------------------------------------------------------
(* What a prune pass spares                                                *)

\* What a request has built and not stored yet is not old on any gateway, and one that has
\* ended holds no image.
FreshTasks ==
  \A t \in Tasks : /\ \A g \in Gateways : task[t].img \notin old[g]
                   /\ Active(t) \/ task[t].img = None

\* While a pass is under way, the warm image of the row is on its list, or came back after
\* the list was made, or is too new for it.
Spared ==
  keep.on /\ row.warm # None =>
    row.warm \in keep.refs \cup revived \/ \A g \in Gateways : row.warm \notin old[g]

PruneInv == FreshTasks /\ Spared

\* No old image is None, and none has a tag that was not built under or that a client named.
LEMMA OldAreImages ==
  ASSUME TemplateInv, NEW g \in Gateways
  PROVE  /\ None \notin old[g] /\ old[g] \subseteq Generated
         /\ \A t \in Tasks, v \in Images : TagOf(t, v) => v \notin old[g]
<1>1. ImagePart
  BY DEF TemplateInv
<1>2. old[g] \subseteq Generated /\ None \notin Generated /\ Generated \cap Asked = {}
  BY <1>1, TemplateAssumption DEF ImagePart, Images
<1>3. ASSUME NEW v \in old[g]
      PROVE  made[v] # {}
  BY <1>1, <1>3 DEF ImagePart, Held
<1> QED
  BY <1>2, <1>3 DEF TagOf, Fresh

\* What a step does to the gateways' images: one is made, pruned or ages, or all of one
\* gateway's are lost.
LEMMA ImageSteps ==
  ASSUME TemplateInv, [Next]_vars
  PROVE  \/ UNCHANGED <<image, old>>
         \/ \E g \in Gateways, v \in Images, r \in Regs : Make(g, v, r)
         \/ \E g \in Gateways : PruneImage(g) \/ LoseGateway(g)
         \/ \E g \in Gateways, v \in Images : Age(g, v)
<1> USE DEF imageVars
<1>1. CASE \E t \in Tasks : \/ Request(t) \/ E2bStart(t) \/ LogLine(t) \/ TaskStep(t)
                            \/ StreamEnds(t) \/ StatementFails(t) \/ Disconnect(t)
                            \/ Crash(t) \/ RegisterBase(t)
  <2>1. \A t \in Tasks : t[1] \in Regs
    BY DEF Tasks, Regs, Builds
  <2>2. ASSUME NEW t \in Tasks, BuildFails(t) \/ \E g \in Gateways, v \in Images : Built(t, g, v)
        PROVE  \/ UNCHANGED <<image, old>>
               \/ \E g \in Gateways, v \in Images, r \in Regs : Make(g, v, r)
    BY <2>1, <2>2 DEF BuildFails, FailedBuild, Built, Build
  <2>3. ASSUME NEW t \in Tasks,
               \/ Request(t) \/ E2bStart(t) \/ LogLine(t) \/ Register(t) \/ StreamEnds(t)
               \/ StatementFails(t) \/ Disconnect(t) \/ Crash(t) \/ RegisterBase(t)
        PROVE  UNCHANGED <<image, old>>
    BY <2>3 DEF Request, E2bStart, LogLine, Register, RegisterImage, StoreSource,
                StoreSnapshot, Finish, StreamEnds, StatementFails, Disconnect, Crash, RegisterBase
  <2> QED
    BY <1>1, <2>2, <2>3 DEF TaskStep
<1>2. CASE (\E r \in E2b : E2bRequest(r)) \/ DeleteTemplate
  BY <1>2 DEF E2bRequest, DeleteTemplate
<1>3. CASE \E w \in Workers : \/ StartReconcile(w) \/ StartCreate(w) \/ Ensure(w)
                              \/ WorkerDies(w)
  <2>1. ASSUME NEW w \in Workers,
               \/ StartReconcile(w) \/ StartCreate(w) \/ Probe(w) \/ Settle(w) \/ Reread(w)
               \/ RebuildFromBase(w) \/ SnapshotRead(w) \/ Store(w) \/ Check(w) \/ WorkerDies(w)
        PROVE  UNCHANGED <<image, old>>
    BY <2>1 DEF StartReconcile, StartCreate, Start, Probe, Settle, Reread, RebuildFromBase,
                SnapshotRead, Store, Check, WorkerDies
  <2>2. ASSUME NEW w \in Workers, Rebuild(w) \/ SnapshotBuild(w)
        PROVE  \/ UNCHANGED <<image, old>>
               \/ \E g \in Gateways, v \in Images, r \in Regs : Make(g, v, r)
    <3>1. wk[w].seen \in Row /\ ImagePart
      BY DEF TemplateInv, WorkerPart, WorkerOK, RowOK
    <3>2. CASE Rebuild(w)
      <4>1. wk[w].seen.source \in Regs
        BY <3>1, <3>2 DEF Rebuild, Row
      <4> QED
        BY <3>2, <4>1 DEF Rebuild, Build
    <3>3. CASE SnapshotBuild(w)
      <4>1. \A g \in Gateways : MadeFrom(g, wk[w].seen.base) \in Regs \cup {None}
        BY <3>1 DEF MadeFrom, Row, ImagePart
      <4> QED
        BY <3>3, <4>1 DEF SnapshotBuild, Build
    <3> QED
      BY <2>2, <3>2, <3>3
  <2> QED
    BY <1>3, <2>1, <2>2 DEF Ensure
<1>4. CASE \/ ListKeep \/ PruneDone
           \/ \E g \in Gateways : PruneImage(g) \/ LoseGateway(g)
           \/ \E g \in Gateways, v \in Images : Age(g, v)
           \/ \E v \in Images : LoseRegistry(v)
  BY <1>4 DEF ListKeep, PruneDone, LoseRegistry
<1>5. CASE UNCHANGED vars
  BY <1>5 DEF vars
<1> QED
  BY <1>1, <1>2, <1>3, <1>4, <1>5 DEF Next

\* An image becomes old by age only.
LEMMA OldGrows ==
  ASSUME TemplateInv, [Next]_vars
  PROVE  \/ \A g \in Gateways : old'[g] \subseteq old[g]
         \/ \E g \in Gateways, v \in Images : Age(g, v)
<1>0. old \in [Gateways -> SUBSET Generated]
  BY DEF TemplateInv, ImagePart
<1>1. ASSUME NEW h \in Gateways, NEW v, old' = [old EXCEPT ![h] = @ \ {v}]
      PROVE  \A g \in Gateways : old'[g] \subseteq old[g]
  BY <1>0, <1>1
<1>2. CASE \E g \in Gateways, v \in Images, r \in Regs : Make(g, v, r)
  BY <1>1, <1>2 DEF Make
<1>3. CASE \E g \in Gateways : PruneImage(g)
  BY <1>1, <1>3 DEF PruneImage, Drop
<1>4. CASE \E g \in Gateways : LoseGateway(g)
  <2>1. PICK h \in Gateways : old' = [old EXCEPT ![h] = {}]
    BY <1>4 DEF LoseGateway
  <2> QED
    BY <1>0, <2>1
<1> QED
  BY <1>2, <1>3, <1>4, ImageSteps

\* A request holds the image that it held, or none, or the one it has just built.
LEMMA TaskImages ==
  ASSUME TemplateInv, [Next]_vars, NEW u \in Tasks
  PROVE  \/ task'[u] = task[u] \/ task'[u].img = None
         \/ /\ task'[u].img = task[u].img \/ \A g \in Gateways : task'[u].img \notin old[g]
            /\ task'[u].pc \notin {"idle", "done", "lost"}
<1>0. task \in [Tasks -> TaskRecord]
  BY DEF TemplateInv, TaskPart
<1>1. \/ task' = task
      \/ \E t \in Tasks : \/ \E g \in Gateways, v \in Images : Built(t, g, v)
                          \/ \E to \in {"building", "source", "snapshot", "finish", "done", "lost"} :
                               TaskTo(t, to)
  <2>1. CASE \E t \in Tasks : \/ Request(t) \/ E2bStart(t) \/ LogLine(t) \/ TaskStep(t)
                              \/ StreamEnds(t) \/ StatementFails(t) \/ Disconnect(t)
                              \/ Crash(t) \/ RegisterBase(t)
    BY <2>1 DEF Request, E2bStart, LogLine, TaskStep, BuildFails, FailedBuild, Register,
                RegisterImage, StoreSource, StoreSnapshot, Finish, StreamEnds, StatementFails,
                Raised, Disconnect, Crash, RegisterBase
  <2>2. CASE (\E r \in E2b : E2bRequest(r)) \/ DeleteTemplate
    BY <2>2 DEF E2bRequest, DeleteTemplate
  <2>3. CASE \E w \in Workers : \/ StartReconcile(w) \/ StartCreate(w) \/ Ensure(w)
                                \/ WorkerDies(w)
    BY <2>3 DEF StartReconcile, StartCreate, Start, Ensure, Probe, Settle, Reread, Rebuild,
                RebuildFromBase, SnapshotRead, SnapshotBuild, Store, Check, WorkerDies, taskVars
  <2>4. CASE \/ ListKeep \/ PruneDone
             \/ \E g \in Gateways : PruneImage(g) \/ LoseGateway(g)
             \/ \E g \in Gateways, v \in Images : Age(g, v)
             \/ \E v \in Images : LoseRegistry(v)
    BY <2>4 DEF ListKeep, PruneDone, PruneImage, LoseGateway, Age, LoseRegistry, taskVars
  <2>5. CASE UNCHANGED vars
    BY <2>5 DEF vars, taskVars
  <2> QED
    BY <2>1, <2>2, <2>3, <2>4, <2>5 DEF Next
<1>2. ASSUME NEW t \in Tasks, NEW h \in Gateways, NEW v \in Images, Built(t, h, v)
      PROVE  \/ task'[u] = task[u]
             \/ /\ \A g \in Gateways : task'[u].img \notin old[g]
                /\ task'[u].pc = "upsert"
  <2>1. \A g \in Gateways : v \notin old[g]
    BY <1>2, OldAreImages DEF Built
  <2>2. u = t => task'[u].img = v /\ task'[u].pc = "upsert"
    BY <1>0, <1>2 DEF Built
  <2>3. u # t => task'[u] = task[u]
    BY <1>0, <1>2 DEF Built
  <2> QED
    BY <2>1, <2>2, <2>3
<1>3. ASSUME NEW t \in Tasks,
             NEW to \in {"building", "source", "snapshot", "finish", "done", "lost"}, TaskTo(t, to)
      PROVE  \/ task'[u] = task[u] \/ task'[u].img = None
             \/ task'[u].img = task[u].img /\ task'[u].pc \notin {"idle", "done", "lost"}
  <2>1. CASE u # t
    BY <1>0, <1>3, <2>1 DEF TaskTo
  <2>2. CASE u = t /\ to \in {"done", "lost"}
    <3>1. task'[u] = [IdleTask EXCEPT !.pc = to]
      BY <1>0, <1>3, <2>2 DEF TaskTo
    <3> QED
      BY <3>1 DEF IdleTask
  <2>3. CASE u = t /\ to \notin {"done", "lost"}
    <3>1. task'[u] = [task[u] EXCEPT !.pc = to]
      BY <1>0, <1>3, <2>3 DEF TaskTo
    <3>2. task[u] \in TaskRecord
      BY <1>0
    <3> QED
      BY <1>3, <2>3, <3>1, <3>2 DEF TaskRecord
  <2> QED
    BY <2>1, <2>2, <2>3
<1> QED
  BY <1>1, <1>2, <1>3

\* The warm image of the row comes from the row, or from who built it, or is recorded as
\* one that came back.
LEMMA WarmImages ==
  ASSUME TemplateInv, [Next]_vars
  PROVE  \/ row'.warm \in {row.warm, None} \/ row'.warm \in revived'
         \/ \E t \in Tasks : row'.warm = task[t].img
         \/ \A g \in Gateways : row'.warm \notin old[g]
<1> USE DEF imageVars
<1>0. row \in Row
  BY DEF TemplateInv, RowPart, RowOK
<1>1. \A v, c, g, e : SetImageRefs(row, v, c, g, e).warm \in {v, row.warm}
  BY <1>0 DEF SetImageRefs, Row
<1>2. SetBuildError(row).warm \in {None, row.warm}
  BY <1>0 DEF SetBuildError, Row
<1>3. \A r : SetBuildSource(row, r).warm = row.warm
  BY <1>0 DEF SetBuildSource, Row
<1>4. \A b : Upsert(row, b).warm = None
  BY <1>0 DEF Upsert, Row
<1>5. CASE row' = row
  BY <1>5
<1>6. CASE \E t \in Tasks : Register(t) \/ RegisterBase(t)
  <2>1. CASE \E t \in Tasks : RegisterImage(t) \/ RegisterBase(t)
    BY <1>4, <2>1 DEF RegisterImage, RegisterBase
  <2>2. CASE \E t \in Tasks : StoreSource(t)
    BY <1>3, <2>2 DEF StoreSource
  <2>3. CASE \E t \in Tasks : StoreSnapshot(t)
    <3>1. PICK t \in Tasks : StoreSnapshot(t)
      BY <2>3
    <3>2. row' = SetImageRefs(row, task[t].img, task[t].reg, task[t].gw, FALSE)
      BY <3>1 DEF StoreSnapshot, SetWarmSnapshot
    <3>3. row'.warm \in {task[t].img, row.warm}
      BY <1>1, <3>2
    <3> QED
      BY <3>3
  <2>4. CASE \E t \in Tasks : Finish(t)
    BY <2>4 DEF Finish
  <2> QED
    BY <1>6, <2>1, <2>2, <2>3, <2>4 DEF Register
<1>7. CASE DeleteTemplate
  BY <1>7 DEF DeleteTemplate, NoRow
<1>8. ASSUME NEW w \in Workers, Settle(w) \/ Store(w)
      PROVE  \/ row'.warm = row.warm \/ row'.warm \in revived'
             \/ \A g \in Gateways : row'.warm \notin old[g]
  BY <1>8 DEF Settle, Store, Revives
<1>9. ASSUME NEW w \in Workers, Rebuild(w) \/ RebuildFromBase(w) \/ SnapshotBuild(w) \/ Check(w)
      PROVE  row'.warm \in {row.warm, None}
  <2>1. row' \in {row, SetBuildError(row), SetImageRefs(row, None, None, None, TRUE)}
    BY <1>9 DEF Rebuild, RebuildFromBase, SnapshotBuild, Check
  <2>2. SetImageRefs(row, None, None, None, TRUE).warm \in {None, row.warm}
    BY <1>1
  <2> QED
    BY <1>2, <2>1, <2>2
<1>10. CASE \E t \in Tasks : \/ Request(t) \/ E2bStart(t) \/ LogLine(t) \/ TaskStep(t)
                             \/ StreamEnds(t) \/ StatementFails(t) \/ Disconnect(t)
                             \/ Crash(t) \/ RegisterBase(t)
  <2>1. row' = row \/ \E t \in Tasks : Register(t) \/ RegisterBase(t)
    BY <1>10 DEF Request, E2bStart, LogLine, TaskStep, Built, BuildFails, FailedBuild, StreamEnds,
                 StatementFails, Disconnect, Crash
  <2> QED
    BY <1>5, <1>6, <2>1
<1>11. CASE \E r \in E2b : E2bRequest(r)
  BY <1>11 DEF E2bRequest
<1>12. CASE \E w \in Workers : \/ StartReconcile(w) \/ StartCreate(w) \/ Ensure(w)
                               \/ WorkerDies(w)
  <2>1. \/ row' = row
        \/ \E w \in Workers : \/ Settle(w) \/ Rebuild(w) \/ RebuildFromBase(w)
                              \/ SnapshotBuild(w) \/ Store(w) \/ Check(w)
    BY <1>12 DEF StartReconcile, StartCreate, Start, Ensure, Probe, Reread, SnapshotRead, WorkerDies
  <2> QED
    BY <1>8, <1>9, <2>1
<1>13. CASE \/ ListKeep \/ PruneDone
            \/ \E g \in Gateways : PruneImage(g) \/ LoseGateway(g)
            \/ \E g \in Gateways, v \in Images : Age(g, v)
            \/ \E v \in Images : LoseRegistry(v)
  BY <1>13 DEF ListKeep, PruneDone, PruneImage, LoseGateway, Age, LoseRegistry
<1>14. CASE UNCHANGED vars
  BY <1>14 DEF vars
<1> QED
  BY <1>7, <1>10, <1>11, <1>12, <1>13, <1>14 DEF Next

\* The list of a pass is made once, and what came back since is only added to.
LEMMA ListGrows ==
  ASSUME TemplateInv, [Next]_vars
  PROVE  \/ ListKeep \/ PruneDone
         \/ keep' = keep /\ revived \subseteq revived'
<1>1. CASE \E t \in Tasks : \/ Request(t) \/ E2bStart(t) \/ LogLine(t) \/ TaskStep(t)
                            \/ StreamEnds(t) \/ StatementFails(t) \/ Disconnect(t)
                            \/ Crash(t) \/ RegisterBase(t)
  BY <1>1 DEF Request, E2bStart, LogLine, TaskStep, Built, BuildFails, FailedBuild, Register,
              RegisterImage, StoreSource, StoreSnapshot, Finish, StreamEnds, StatementFails,
              Disconnect, Crash, RegisterBase
<1>2. CASE (\E r \in E2b : E2bRequest(r)) \/ DeleteTemplate
  BY <1>2 DEF E2bRequest, DeleteTemplate
<1>3. CASE \E w \in Workers : \/ StartReconcile(w) \/ StartCreate(w) \/ Ensure(w)
                              \/ WorkerDies(w)
  BY <1>3, ZenonT(60) DEF StartReconcile, StartCreate, Start, Ensure, Probe, Settle, Revives, Reread, Rebuild,
              RebuildFromBase, SnapshotRead, SnapshotBuild, Store, Check, WorkerDies
<1>4. CASE \/ ListKeep \/ PruneDone
           \/ \E g \in Gateways : PruneImage(g) \/ LoseGateway(g)
           \/ \E g \in Gateways, v \in Images : Age(g, v)
           \/ \E v \in Images : LoseRegistry(v)
  BY <1>4 DEF PruneImage, LoseGateway, Age, LoseRegistry
<1>5. CASE UNCHANGED vars
  BY <1>5 DEF vars
<1> QED
  BY <1>1, <1>2, <1>3, <1>4, <1>5 DEF Next

\* An image ages only while no pass is under way and no request is about to store it.
LEMMA AgeKeepsPrune ==
  ASSUME TemplateInv, PruneInv, NEW h \in Gateways, NEW v \in Images, Age(h, v)
  PROVE  PruneInv'
<1>1. /\ old' = [old EXCEPT ![h] = @ \cup {v}] /\ ~keep.on /\ UNCHANGED <<task, keep>>
      /\ \A t \in Tasks : Active(t) => task[t].img # v
  BY DEF Age, taskVars
<1>2. v # None
  BY TemplateAssumption
<1>3. \A g \in Gateways : old'[g] \subseteq old[g] \cup {v}
  BY <1>1 DEF TemplateInv, ImagePart
<1>4. FreshTasks'
  BY <1>1, <1>2, <1>3 DEF PruneInv, FreshTasks, Active
<1>5. Spared'
  BY <1>1 DEF Spared
<1> QED
  BY <1>4, <1>5 DEF PruneInv

\* Every step keeps the invariant.
LEMMA PruneInvStep ==
  ASSUME TemplateInv, PruneInv, [Next]_vars
  PROVE  PruneInv'
<1>1. CASE \E g \in Gateways, v \in Images : Age(g, v)
  BY <1>1, AgeKeepsPrune
<1>2. CASE \A g \in Gateways : old'[g] \subseteq old[g]
  <2>0. \A g \in Gateways : None \notin old[g]
    BY OldAreImages
  <2>1. FreshTasks'
    <3>1. ASSUME NEW u \in Tasks
          PROVE  /\ \A g \in Gateways : task'[u].img \notin old'[g]
                 /\ Active(u)' \/ task'[u].img = None
      <4>1. (\A g \in Gateways : task[u].img \notin old[g]) /\ (Active(u) \/ task[u].img = None)
        BY DEF PruneInv, FreshTasks
      <4>2. CASE task'[u] = task[u]
        BY <1>2, <4>1, <4>2 DEF Active
      <4>3. CASE task'[u].img = None
        BY <1>2, <2>0, <4>3
      <4>4. CASE /\ task'[u].img = task[u].img \/ \A g \in Gateways : task'[u].img \notin old[g]
                 /\ task'[u].pc \notin {"idle", "done", "lost"}
        BY <1>2, <4>1, <4>4 DEF Active
      <4> QED
        BY <4>2, <4>3, <4>4, TaskImages
    <3> QED
      BY <3>1 DEF FreshTasks
  <2>2. Spared'
    <3>1. CASE ListKeep
      <4>1. row' = row /\ keep'.refs = {row.warm, row.reg, row.base} \cap Images
        BY <3>1 DEF ListKeep
      <4>2. row.warm \in Images \cup {None}
        BY DEF TemplateInv, RowPart, RowOK, Row
      <4> QED
        BY <4>1, <4>2 DEF Spared
    <3>2. CASE PruneDone
      BY <3>2 DEF PruneDone, Spared
    <3>3. CASE keep' = keep /\ revived \subseteq revived'
      <4>1. \/ row'.warm \in {row.warm, None} \/ row'.warm \in revived'
            \/ \A g \in Gateways : row'.warm \notin old'[g]
        BY <1>2, WarmImages DEF PruneInv, FreshTasks
      <4> QED
        BY <1>2, <3>3, <4>1 DEF PruneInv, Spared
    <3> QED
      BY <3>1, <3>2, <3>3, ListGrows
  <2> QED
    BY <2>1, <2>2 DEF PruneInv
<1> QED
  BY <1>1, <1>2, OldGrows

\* Nothing is under way at first.
LEMMA PruneInvInit ==
  ASSUME Init
  PROVE  PruneInv
<1>1. /\ old = [g \in Gateways |-> {}] /\ keep = [on |-> FALSE, refs |-> {}]
      /\ task = [t \in Tasks |-> IdleTask]
  BY DEF Init
<1>2. FreshTasks
  BY <1>1 DEF FreshTasks, IdleTask
<1>3. Spared
  BY <1>1 DEF Spared
<1> QED
  BY <1>2, <1>3 DEF PruneInv

\* Without a fault, an image leaves a gateway only by being pruned.
LEMMA OnlyPruned ==
  ASSUME TemplateInv, [Next]_vars, faults' = faults,
         NEW g \in Gateways, NEW v \in Held(g) \ Held(g)'
  PROVE  v \in Prunable(g)
<1>0. /\ image \in [Gateways -> [Images -> Regs \cup {None}]] /\ faults \in Nat
      /\ v \in Images /\ image[g][v] # None /\ image'[g][v] = None
  BY DEF TemplateInv, ImagePart, PassPart, Held
<1>1. CASE image' = image
  BY <1>0, <1>1
<1>2. ASSUME NEW h \in Gateways, NEW i \in Images, NEW r \in Regs, Make(h, i, r)
      PROVE  FALSE
  <2>1. r # None
    BY TemplateAssumption
  <2> QED
    BY <1>0, <1>2, <2>1 DEF Make
<1>3. ASSUME NEW h \in Gateways, PruneImage(h)
      PROVE  v \in Prunable(g)
  <2>1. PICK i \in Prunable(h) : image' = [image EXCEPT ![h][i] = None]
    BY <1>3 DEF PruneImage, Drop
  <2>2. h = g /\ i = v
    BY <1>0, <2>1
  <2> QED
    BY <2>1, <2>2
<1>4. ASSUME NEW h \in Gateways, LoseGateway(h)
      PROVE  FALSE
  BY <1>0, <1>4 DEF LoseGateway, Fault
<1>5. ASSUME NEW h \in Gateways, NEW i \in Images, Age(h, i)
      PROVE  image' = image
  BY <1>5 DEF Age
<1> QED
  BY <1>1, <1>2, <1>3, <1>4, <1>5, ImageSteps

\* A prune pass works through a list of references that it made before.  Whatever builds,
\* repairs and reconciles do meanwhile, it takes away no image that is the warm image of
\* the row, unless a worker wrote back, during the pass, a reference read earlier, or
\* built again under a tag of which there was an old image.
THEOREM PruneIsSafe == Spec => PruneSparesReferenced
<1>1. Init => TemplateInv /\ PruneInv
  BY InitHolds, PruneInvInit
<1>2. TemplateInv /\ PruneInv /\ [Next]_vars => TemplateInv' /\ PruneInv'
  BY InvStep, PruneInvStep
<1>3. TemplateInv /\ PruneInv /\ [Next]_vars
      => [\A g \in Gateways : \A v \in Held(g) \ Held(g)' :
            keep.on /\ faults' = faults => v # row.warm \/ v \in revived]_vars
  <2> SUFFICES ASSUME TemplateInv, PruneInv, [Next]_vars,
                      NEW g \in Gateways, NEW v \in Held(g) \ Held(g)',
                      keep.on, faults' = faults, v = row.warm
               PROVE  v \in revived
    OBVIOUS
  <2>1. v \in Prunable(g)
    BY OnlyPruned
  <2>2. v \in old[g] /\ v \notin keep.refs /\ v # None
    BY <2>1, OldAreImages DEF Prunable
  <2> QED
    BY <2>2 DEF PruneInv, Spared
<1> QED
  BY <1>1, <1>2, <1>3, PTL DEF Spec, PruneSparesReferenced
=============================================================================
