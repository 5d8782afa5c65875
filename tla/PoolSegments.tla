---------------------------- MODULE PoolSegments ----------------------------
(***************************************************************************)
(* The size and the image of one warm-pool segment: the row every replica  *)
(* shares, and the pool object with its top-up loop that each replica keeps *)
(* for it.  Clients resize the segment, creates and builds set its size,   *)
(* deleting the template disables it, and a thread of every replica brings *)
(* the pool objects in step with the row.                                  *)
(*                                                                         *)
(* A step is one statement of the database or one section under a lock.    *)
(* The sandboxes of the segment, and with them every trim, are WarmPool's. *)
(***************************************************************************)
EXTENDS Naturals

CONSTANTS
  Replicas,    \* api-service processes
  Requests,    \* threads that serve requests, on any replica
  Images,      \* images the template may have
  None,
  MaxSize,     \* bound: sizes asked for
  ConfigSize,  \* SANDBOX_WARM_POOL_SIZE
  MaxRequests, \* bound: requests made
  MaxCrashes   \* bound: crashes

SegmentBounds ==
  /\ {MaxSize, MaxRequests, MaxCrashes} \subseteq Nat /\ ConfigSize \in 0..MaxSize
  /\ None \notin Images \cup Replicas \cup Requests /\ Replicas \cap Requests = {}

VARIABLES
  desired,  \* desired_size in the row of the segment; 0 as well while there is none
  image,    \* the image of the template, None if it is deleted
  pool,     \* each replica's entry in _pools
  loops,    \* top-up threads that were started and not told to stop
  holder,   \* who holds the replica's lock of this key
  th,       \* where each thread is
  requests, \* history: requests made
  crashes   \* history: crashes so far

vars == <<desired, image, pool, loops, holder, th, requests, crashes>>

Threads == Replicas \cup Requests   \* a replica stands for its sync thread
Sizes == 0..MaxSize
NoPool == [on |-> FALSE, size |-> 0, image |-> None]
IdleThread == [pc |-> "idle", on |-> None, size |-> 0, image |-> None, next |-> "idle"]

TypeOK ==
  /\ desired \in Sizes /\ image \in Images \cup {None}
  /\ pool \in [Replicas -> [on : BOOLEAN, size : Sizes, image : Images \cup {None}]]
  /\ loops \in [Replicas -> Nat]
  /\ holder \in [Replicas -> Threads \cup {None}]
  /\ th \in [Threads -> [pc : {"idle", "boot", "image", "seed", "persist", "resize", "lock",
                               "look", "renote", "stop", "note", "install", "start",
                               "disable", "delete"},
                         on : Replicas \cup {None}, size : Sizes,
                         image : Images \cup {None}, next : {"idle", "boot", "persist", "lock", "disable"}]]
  /\ requests \in 0..MaxRequests /\ crashes \in 0..MaxCrashes

Init ==
  /\ desired = 0 /\ image \in Images
  /\ pool = [r \in Replicas |-> NoPool] /\ loops = [r \in Replicas |-> 0]
  /\ holder = [r \in Replicas |-> None]
  /\ th = [t \in Threads |-> IF t \in Replicas
                             THEN [IdleThread EXCEPT !.pc = "boot", !.on = t] ELSE IdleThread]
  /\ requests = 0 /\ crashes = 0

Goto(t, pc) == th' = [th EXCEPT ![t].pc = pc]
Done(t) == th' = [th EXCEPT ![t] = [IdleThread EXCEPT !.on = IF t \in Replicas THEN t ELSE None]]
\* upsert_warm_pool_segment
Upsert(n) == desired' = n

-----------------------------------------------------------------------------
(* The sync thread: read the rows, read the images, ensure *)

\* Rows with desired_size 0 are not listed.
SyncList(r) ==
  /\ th[r].pc = "idle" /\ desired > 0
  /\ th' = [th EXCEPT ![r].pc = "image", ![r].size = desired]
  /\ UNCHANGED <<desired, image, pool, loops, holder, requests, crashes>>

\* _current_template_image_ref asks gateways and the registry as well.
SyncImage(r) ==
  /\ th[r].pc = "image" /\ th' = [th EXCEPT ![r].pc = "lock", ![r].image = image]
  /\ UNCHANGED <<desired, image, pool, loops, holder, requests, crashes>>

\* start ensures the default segment with the configured size.
Boot(r) ==
  /\ th[r].pc = "boot"
  /\ IF ConfigSize = 0 THEN Done(r)
     ELSE th' = [th EXCEPT ![r] = [pc |-> "lock", on |-> r, size |-> ConfigSize,
                                   image |-> image, next |-> "boot"]]
  /\ UNCHANGED <<desired, image, pool, loops, holder, requests, crashes>>

-----------------------------------------------------------------------------
(* The requests *)

Request(t, r, pc, n, i, next) ==
  /\ th[t].pc = "idle" /\ t \in Requests /\ requests < MaxRequests
  /\ th' = [th EXCEPT ![t] = [pc |-> pc, on |-> r, size |-> n, image |-> i, next |-> next]]
  /\ requests' = requests + 1
  /\ UNCHANGED <<pool, loops, holder, crashes>>

\* The resize endpoint, and a create that asks for a size: set_desired_size.
Resize(t, r, n) ==
  /\ Request(t, r, "persist", n, image, "idle") /\ UNCHANGED <<desired, image>>

\* A create that finds no sandbox ready writes the row first, to reserve a gateway,
\* and comes back to it when the sandbox is up.
CreateFirst(t, r, n) ==
  /\ image # None /\ n > 0
  /\ Request(t, r, "seed", n, image, "persist") /\ UNCHANGED <<desired, image>>
Seed(t) ==
  /\ th[t].pc = "seed" /\ Upsert(th[t].size) /\ Goto(t, th[t].next)
  /\ UNCHANGED <<image, pool, loops, holder, requests, crashes>>

\* A create that asks for none ensures the configured size.
CreateDefault(t, r) ==
  /\ image # None /\ ConfigSize > 0 /\ UNCHANGED <<desired, image>>
  /\ \/ Request(t, r, "lock", ConfigSize, image, "idle")
     \/ Request(t, r, "seed", ConfigSize, image, "lock")

\* sync_warm_pool_default_segment after a build: 0 counts as not configured.
Build(t, r, i) ==
  /\ i # image /\ image' = i /\ UNCHANGED desired
  /\ LET n == IF desired > 0 THEN desired ELSE ConfigSize IN
     Request(t, r, IF n > 0 THEN "lock" ELSE "idle", n, i, "idle")

\* _disable_template_warm_pool_segments works on the rows it lists.
DeleteTemplate(t, r) ==
  /\ image # None /\ UNCHANGED <<desired, image>>
  /\ Request(t, r, IF desired > 0 THEN "lock" ELSE "delete", 0, None, "disable")
Disable(t) ==
  /\ th[t].pc = "disable" /\ Upsert(0) /\ Goto(t, "delete")
  /\ UNCHANGED <<image, pool, loops, holder, requests, crashes>>
DeleteRow(t) ==
  /\ th[t].pc = "delete" /\ image' = None /\ Done(t)
  /\ UNCHANGED <<desired, pool, loops, holder, requests, crashes>>

\* set_desired_size: the row, then the replica's own pool if it has the same image.
Persist(t) ==
  /\ th[t].pc = "persist" /\ Upsert(th[t].size) /\ Goto(t, "resize")
  /\ UNCHANGED <<image, pool, loops, holder, requests, crashes>>
ResizeOwn(t) ==
  LET r == th[t].on IN
  /\ th[t].pc = "resize" /\ Done(t)
  /\ pool' = IF pool[r].on /\ pool[r].image = th[t].image
             THEN [pool EXCEPT ![r].size = th[t].size] ELSE pool
  /\ UNCHANGED <<desired, image, loops, holder, requests, crashes>>

-----------------------------------------------------------------------------
(* ensure_pool_for *)

\* Back from the call.
Return(t) ==
  /\ holder' = [holder EXCEPT ![th[t].on] = None]
  /\ IF th[t].next = "disable" THEN Goto(t, "disable") ELSE Done(t)

\* mutant: the key lock is not waited for
LockAnyway(t) ==
  /\ th[t].pc = "lock" /\ holder' = [holder EXCEPT ![th[t].on] = t] /\ Goto(t, "look")
  /\ UNCHANGED <<desired, image, pool, loops, requests, crashes>>
Lock(t) ==
  /\ th[t].pc = "lock" /\ holder[th[t].on] = None
  /\ holder' = [holder EXCEPT ![th[t].on] = t] /\ Goto(t, "look")
  /\ UNCHANGED <<desired, image, pool, loops, requests, crashes>>

\* mutant: an existing pool is taken for the right one whatever its image
SameImageAlways(t) == TRUE
SameImage(t) == pool[th[t].on].image = th[t].image

\* A pool with the same image is resized; another one, or one that is to have size 0,
\* is taken out of the table and stopped.
Look(t) ==
  LET r == th[t].on IN
  /\ th[t].pc = "look"
  /\ IF pool[r].on /\ SameImage(t) /\ th[t].size > 0
       THEN Goto(t, "renote") /\ UNCHANGED pool
     ELSE IF pool[r].on
       THEN Goto(t, "stop") /\ pool' = [pool EXCEPT ![r] = NoPool]
     ELSE Goto(t, "note") /\ UNCHANGED pool
  /\ UNCHANGED <<desired, image, loops, holder, requests, crashes>>

Renote(t) ==
  LET r == th[t].on IN
  /\ th[t].pc = "renote" /\ Upsert(th[t].size)
  /\ pool' = [pool EXCEPT ![r].size = th[t].size] /\ Return(t)
  /\ UNCHANGED <<image, loops, requests, crashes>>

\* A pool that was resized to 0 before it was started has no loop.
StopOld(t) ==
  LET r == th[t].on IN
  /\ th[t].pc = "stop" /\ Goto(t, "note")
  /\ loops' = [loops EXCEPT ![r] = IF @ > 0 THEN @ - 1 ELSE 0]
  /\ UNCHANGED <<desired, image, pool, holder, requests, crashes>>

Note(t) ==
  /\ th[t].pc = "note" /\ Upsert(th[t].size)
  /\ IF th[t].size = 0 THEN Return(t) ELSE Goto(t, "install") /\ UNCHANGED holder
  /\ UNCHANGED <<image, pool, loops, requests, crashes>>

Install(t) ==
  LET r == th[t].on IN
  /\ th[t].pc = "install" /\ Goto(t, "start")
  /\ pool' = [pool EXCEPT ![r] = [on |-> TRUE, size |-> th[t].size, image |-> th[t].image]]
  /\ UNCHANGED <<desired, image, loops, holder, requests, crashes>>

StartLoop(t) ==
  LET r == th[t].on IN
  /\ th[t].pc = "start" /\ Return(t)
  /\ loops' = IF pool[r].size > 0 THEN [loops EXCEPT ![r] = @ + 1] ELSE loops
  /\ UNCHANGED <<desired, image, pool, requests, crashes>>

Ensure(t) == \/ Lock(t) \/ Look(t) \/ Renote(t) \/ StopOld(t) \/ Note(t) \/ Install(t)
             \/ StartLoop(t)

-----------------------------------------------------------------------------
\* A replica ends with its pools and threads, and starts again.
Crash(r) ==
  /\ crashes < MaxCrashes /\ crashes' = crashes + 1
  /\ pool' = [pool EXCEPT ![r] = NoPool] /\ loops' = [loops EXCEPT ![r] = 0]
  /\ holder' = [holder EXCEPT ![r] = None]
  /\ th' = [t \in Threads |->
              IF t = r THEN [IdleThread EXCEPT !.pc = "boot", !.on = r]
              ELSE IF th[t].on = r THEN IdleThread ELSE th[t]]
  /\ UNCHANGED <<desired, image, requests>>

Step(t) == Seed(t) \/ Persist(t) \/ ResizeOwn(t) \/ Disable(t) \/ DeleteRow(t) \/ Ensure(t)
Sync(r) == Boot(r) \/ SyncList(r) \/ SyncImage(r)

Next ==
  \/ \E r \in Replicas : Sync(r) \/ Crash(r)
  \/ \E t \in Requests, r \in Replicas :
       \/ \E n \in Sizes : Resize(t, r, n) \/ CreateFirst(t, r, n)
       \/ CreateDefault(t, r) \/ DeleteTemplate(t, r)
       \/ \E i \in Images : Build(t, r, i)
  \/ \E t \in Threads : Step(t)

\* Threads run, and the sync thread comes round every 1.5 seconds.
Fairness ==
  /\ \A r \in Replicas : WF_vars(Sync(r))
  /\ \A t \in Threads : WF_vars(Step(t))

Spec == Init /\ [][Next]_vars
FairSpec == Spec /\ Fairness

-----------------------------------------------------------------------------
(* Properties *)

\* However the sync thread and the requests of a replica interleave in ensure_pool_for,
\* no two loops fill the segment from one replica, and no loop is left behind by a pool
\* that was replaced.
OneLoop == \A r \in Replicas : loops[r] <= 1 /\ (loops[r] = 1 => pool[r].on \/ holder[r] # None)

\* A size that stays in the row, with an image that stays, reaches the pool of every
\* replica, also of one that crashed or that had a pool of another image.
Asked(n, i) == desired = n /\ image = i
Follows(r, n, i) == pool[r] = [on |-> TRUE, size |-> n, image |-> i]
PoolsFollow ==
  \A n \in 1..MaxSize, i \in Images, r \in Replicas :
    <>[]Asked(n, i) => <>[]Follows(r, n, i)
=============================================================================
