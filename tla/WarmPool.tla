------------------------------ MODULE WarmPool ------------------------------
(***************************************************************************)
(* One warm-pool segment of the control plane: the rows of pre-booted      *)
(* sandboxes, the segment's in-flight counter, the top-up loop each        *)
(* api-service replica runs (WarmSandboxPool._top_up), the executor        *)
(* threads that provision, the clients that claim, and the maintenance     *)
(* thread (reconcile, lease reaper, purge) that works on the same rows.    *)
(*                                                                         *)
(* Every database call, every gateway call and every hand-over between     *)
(* threads is a step of its own; a list that is read first and worked      *)
(* through later stays in a variable (batch, work, maint) in between.      *)
(* kill_sandbox is one step: a claim that lands inside it ends like a      *)
(* claim that lands between the listing and the kill.                      *)
(*                                                                         *)
(* Abstracted: one template image (no image refresh), one gateway pod,     *)
(* wall-clock time (aged, leases and retention elapse at any moment).      *)
(***************************************************************************)
EXTENDS SandboxStore, Integers

CONSTANTS Replicas,     \* api-service processes
          NoSandbox,    \* an id that is not one
          Desired,      \* desired_size of the segment
          Concurrency,  \* SANDBOX_WARM_POOL_PROVISION_CONCURRENCY
          SlowPulls,    \* may a provision outlive INFLIGHT_STALE_SEC?
          MaxEvents,    \* bound: faults and leadership changes in a behaviour
          MaxClaims     \* bound: claims in a behaviour

ASSUME PoolAssumption ==
  /\ IsFiniteSet(Sandboxes) /\ IsFiniteSet(Replicas)
  /\ NoSandbox \notin Sandboxes
  /\ Desired \in Nat
  /\ Concurrency \in Nat \ {0}
  /\ SlowPulls \in BOOLEAN
  /\ MaxEvents \in Nat
  /\ MaxClaims \in Nat

VARIABLES
  rows,        \* the sandboxes table
  box,         \* the containers on the gateway
  discovered,  \* does gateway discovery list the pod?
  inflight,    \* warm_pool_segments.inflight_count
  aged,        \* is inflight_updated_at older than the stale window?
  leader,      \* the replica that holds the coordinator lease
  pc,          \* where each replica's top-up loop is
  ready,       \* its local ready_count
  slots,       \* its local slots_available, then what is left of reserve
  pend,        \* its _pending_futures
  batch,       \* completed futures it took out and has not completed yet
  work,        \* the rows it listed and still has to visit
  job,         \* the executor thread that provisions a sandbox
  maint,       \* the row a maintenance thread listed and has not handled yet
  cpc,         \* where each client's acquire is
  holds,       \* what the last acquire returned to each client
  leaked,      \* history: slots whose owner forgot them
  events,      \* history: faults so far
  claims       \* history: acquires so far

segVars    == <<inflight, aged, leaked>>
loopVars   == <<pc, ready, slots, pend, batch, work>>
clientVars == <<cpc, holds, claims>>
vars == <<rows, box, discovered, segVars, leader, loopVars, job, maint, clientVars, events>>

JobStates == {"none", "queued", "created", "boot", "done", "failed"}
LoopPcs   == {"idle", "drain", "inventory", "trimlist", "trim", "reset", "reserve",
              "submit"}
Listings  == [kind : {"reconcile", "reap"}, id : Sandboxes, seen : RowStates]
NoMaint   == [kind |-> "none", id |-> NoSandbox, seen |-> "absent"]

MaxOf(a, b) == IF a >= b THEN a ELSE b
MinOf(a, b) == IF a <= b THEN a ELSE b

TypeOK ==
  /\ rows \in [Sandboxes -> Row]
  /\ box \in [Sandboxes -> {"none", "up", "dead"}]
  /\ discovered \in BOOLEAN
  /\ inflight \in 0..Desired
  /\ aged \in BOOLEAN
  /\ leader \in Replicas
  /\ pc \in [Replicas -> LoopPcs]
  /\ ready \in [Replicas -> Nat]
  /\ slots \in [Replicas -> 0..Concurrency]
  /\ pend \in [Replicas -> SUBSET Sandboxes]
  /\ batch \in [Replicas -> SUBSET Sandboxes]
  /\ work \in [Replicas -> SUBSET Sandboxes]
  /\ job \in [Sandboxes -> JobStates]
  /\ maint \in {NoMaint} \cup Listings
  /\ cpc \in [Clients -> {"idle", "claim"}]
  /\ holds \in [Clients -> Sandboxes \cup {NoSandbox}]
  /\ leaked \in Nat
  /\ events \in 0..MaxEvents
  /\ claims \in 0..MaxClaims

Init ==
  /\ rows = [s \in Sandboxes |-> Absent]
  /\ box = [s \in Sandboxes |-> "none"]
  /\ discovered = TRUE
  /\ inflight = 0 /\ aged = FALSE /\ leaked = 0
  /\ leader \in Replicas
  /\ pc = [r \in Replicas |-> "idle"]
  /\ ready = [r \in Replicas |-> 0]
  /\ slots = [r \in Replicas |-> 0]
  /\ pend = [r \in Replicas |-> {}]
  /\ batch = [r \in Replicas |-> {}]
  /\ work = [r \in Replicas |-> {}]
  /\ job = [s \in Sandboxes |-> "none"]
  /\ maint = NoMaint
  /\ cpc = [c \in Clients |-> "idle"]
  /\ holds = [c \in Clients |-> NoSandbox]
  /\ events = 0 /\ claims = 0

Goto(r, where) == pc' = [pc EXCEPT ![r] = where]

\* Mutant: the counter is decremented without a floor.
CompleteSlotsUnfloored(n) == inflight' = inflight - n /\ aged' = FALSE

\* complete_warm_pool_slots / release_warm_pool_slots: max(0, inflight - count),
\* and the time stamp starts afresh.
CompleteSlots(n) ==
  /\ inflight' = MaxOf(0, inflight - n)
  /\ aged' = FALSE

Fault == events < MaxEvents /\ events' = events + 1

(***************************************************************************)
(* kill_sandbox(s): a row that is gone is left alone.  The gateway may     *)
(* kill the container; refuse, and the row stays; or not answer, which     *)
(* reads as "workload already absent": the row goes and the container      *)
(* stays.                                                                  *)
(***************************************************************************)
KillRow(s) ==
  /\ rows' = DeleteRow(rows, s)
  /\ box' = IF Exists(rows, s) /\ box[s] = "up" THEN [box EXCEPT ![s] = "dead"] ELSE box

KillUnanswered(s) ==
  /\ Fault /\ Exists(rows, s)
  /\ rows' = DeleteRow(rows, s)
  /\ UNCHANGED box

KillRefused(s) ==
  /\ Fault /\ Exists(rows, s) /\ box[s] = "up"
  /\ UNCHANGED <<rows, box>>

KillSandbox(s) ==
  \/ KillRow(s) /\ UNCHANGED events
  \/ KillUnanswered(s)
  \/ KillRefused(s)

-----------------------------------------------------------------------------
(* The top-up loop of replica r                                            *)

\* _top_up looks at the leadership once, before its loop; each round begins with
\* the first half of _drain_completed_provisions: take the finished futures out.
\* A round follows the one before when every reserved slot was submitted.
StartRound(r) ==
  /\ \/ pc[r] = "idle" /\ leader = r
     \/ pc[r] = "submit" /\ slots[r] = 0
  /\ LET finished == {s \in pend[r] : job[s] \in {"done", "failed"}} IN
       /\ batch' = [batch EXCEPT ![r] = finished]
       /\ pend' = [pend EXCEPT ![r] = @ \ finished]
  /\ Goto(r, "drain")
  /\ UNCHANGED <<rows, box, discovered, segVars, leader, ready, slots, work, job, maint,
                 clientVars, events>>

\* Second half: the finally clause of each completed future gives one slot back.
CompleteOne(r, s) ==
  /\ pc[r] = "drain" /\ s \in batch[r]
  /\ batch' = [batch EXCEPT ![r] = @ \ {s}]
  /\ job' = [job EXCEPT ![s] = "none"]
  /\ CompleteSlots(1)
  /\ UNCHANGED <<rows, box, discovered, leaked, leader, pc, ready, slots, pend, work,
                 maint, clientVars, events>>

\* _reconcile_inventory_if_due -> _live_warm_pool_rows: list the pool's rows.
ListInventory(r) ==
  /\ pc[r] = "drain" /\ batch[r] = {}
  /\ work' = [work EXCEPT ![r] = WarmRows(rows)]
  /\ Goto(r, "inventory")
  /\ UNCHANGED <<rows, box, discovered, segVars, leader, ready, slots, pend, batch, job,
                 maint, clientVars, events>>

\* One listed row: its pod is gone, or its container is not running -> lost.  A
\* row whose pod does not answer is skipped.
InspectRow(r, s) ==
  /\ pc[r] = "inventory" /\ s \in work[r]
  /\ work' = [work EXCEPT ![r] = @ \ {s}]
  /\ \/ /\ rows' = IF ~discovered \/ box[s] # "up" THEN MarkLost(rows, {s}) ELSE rows
        /\ UNCHANGED events
     \/ Fault /\ discovered /\ UNCHANGED rows
  /\ UNCHANGED <<box, discovered, segVars, leader, pc, ready, slots, pend, batch, job,
                 maint, clientVars>>

\* warm_pool_ready_count and the comparison with the target size, after the
\* inventory pass or, when its interval has not elapsed, without one.
CountReady(r) ==
  /\ \/ pc[r] = "drain" /\ batch[r] = {}
     \/ pc[r] = "inventory" /\ work[r] = {}
  /\ LET n == Cardinality(WarmRows(rows)) IN
       /\ ready' = [ready EXCEPT ![r] = n]
       /\ Goto(r, IF n > Desired THEN "trimlist" ELSE "reset")
  /\ UNCHANGED <<rows, box, discovered, segVars, leader, slots, pend, batch, work, job,
                 maint, clientVars, events>>

\* trim_warm_pool_to_size lists again and takes the excess (the oldest rows;
\* any of them here).
ListExcess(r) ==
  /\ pc[r] = "trimlist"
  /\ LET listed == WarmRows(rows) IN
     \E excess \in SUBSET listed :
       /\ Cardinality(excess) = MaxOf(0, Cardinality(listed) - Desired)
       /\ work' = [work EXCEPT ![r] = excess]
  /\ Goto(r, "trim")
  /\ UNCHANGED <<rows, box, discovered, segVars, leader, ready, slots, pend, batch, job,
                 maint, clientVars, events>>

\* Each excess row is killed, whatever became of it since the listing.
TrimOne(r, s) ==
  /\ pc[r] = "trim" /\ s \in work[r]
  /\ work' = [work EXCEPT ![r] = @ \ {s}]
  /\ KillSandbox(s)
  /\ UNCHANGED <<discovered, segVars, leader, pc, ready, slots, pend, batch, job, maint,
                 clientVars>>

TrimDone(r) ==
  /\ pc[r] = "trim" /\ work[r] = {}
  /\ ready' = [ready EXCEPT ![r] = Cardinality(WarmRows(rows))]
  /\ Goto(r, "reset")
  /\ UNCHANGED <<rows, box, discovered, segVars, leader, slots, pend, batch, work, job,
                 maint, clientVars, events>>

\* Mutant: the stale slots are never taken back.
ResetInflightNever == UNCHANGED segVars

\* reset_warm_pool_inflight: slots nobody moved for the stale window are dropped.
ResetInflight ==
  IF aged /\ inflight # 0
    THEN inflight' = 0 /\ aged' = FALSE /\ leaked' = 0
    ELSE UNCHANGED segVars

\* reset_warm_pool_inflight, then _provision_batch_slots_available and the ramp
\* that holds a segment without ready rows to one slot per round.
ResetStale(r) ==
  /\ pc[r] = "reset"
  /\ ResetInflight
  /\ LET free == MaxOf(0, Concurrency - Cardinality(pend[r]))
         n == IF ready[r] = 0 THEN MinOf(free, 1) ELSE free IN
       /\ slots' = [slots EXCEPT ![r] = n]
       /\ ready' = IF n = 0 THEN [ready EXCEPT ![r] = 0] ELSE ready
       /\ Goto(r, IF n = 0 THEN "idle" ELSE "reserve")
  /\ UNCHANGED <<rows, box, discovered, leader, pend, batch, work, job, maint,
                 clientVars, events>>

\* Mutant: rows that are ready already do not count against the target.
ReservableIgnoringReady(r, taken) == MaxOf(0, MinOf(slots[r], Desired - taken))

\* How many slots reserve_warm_pool_slots grants beside those taken.
Reservable(r, taken) == MaxOf(0, MinOf(slots[r], Desired - ready[r] - taken))

\* reserve_warm_pool_slots(ready_count, batch_max): clamp, then reserve.
Reserve(r) ==
  /\ pc[r] = "reserve"
  /\ LET useful  == MaxOf(0, Desired - ready[r])
         clamped == MinOf(inflight, useful)
         n       == Reservable(r, clamped) IN
       /\ inflight' = clamped + n
       /\ aged' = IF n > 0 \/ clamped # inflight THEN FALSE ELSE aged
       /\ slots' = [slots EXCEPT ![r] = n]
       /\ Goto(r, IF n = 0 THEN "idle" ELSE "submit")
  /\ ready' = [ready EXCEPT ![r] = 0]
  /\ UNCHANGED <<rows, box, discovered, leaked, leader, pend, batch, work, job,
                 maint, clientVars, events>>

\* An id nobody refers to: what uuid4 gives.
Unused(s) ==
  /\ ~Exists(rows, s) /\ job[s] = "none"
  /\ \A r \in Replicas : s \notin pend[r] \cup batch[r] \cup work[r]
  /\ \A c \in Clients : holds[c] # s
  /\ maint.id # s

\* _planned_target found a gateway and _submit_provision queued the future.
Submit(r, s) ==
  /\ pc[r] = "submit" /\ slots[r] > 0 /\ discovered /\ Unused(s)
  /\ pend' = [pend EXCEPT ![r] = @ \cup {s}]
  /\ job' = [job EXCEPT ![s] = "queued"]
  /\ box' = [box EXCEPT ![s] = "none"]
  /\ slots' = [slots EXCEPT ![r] = @ - 1]
  /\ UNCHANGED <<rows, discovered, segVars, leader, pc, ready, batch, work, maint,
                 clientVars, events>>

\* Mutant: the loop leaves without releasing.
ReleaseForgotten(r) ==
  /\ pc[r] = "submit" /\ slots[r] > 0 /\ ~discovered
  /\ slots' = [slots EXCEPT ![r] = 0]
  /\ Goto(r, "idle")
  /\ UNCHANGED <<rows, box, discovered, segVars, leader, ready, pend, batch, work,
                 job, maint, clientVars, events>>

\* No gateway target: the slots that were not submitted are released.
ReleaseUnsubmitted(r) ==
  /\ pc[r] = "submit" /\ slots[r] > 0 /\ ~discovered
  /\ CompleteSlots(slots[r])
  /\ slots' = [slots EXCEPT ![r] = 0]
  /\ Goto(r, "idle")
  /\ UNCHANGED <<rows, box, discovered, leaked, leader, ready, pend, batch, work, job,
                 maint, clientVars, events>>

\* _planned_target raises: _run logs it, and nobody releases the slots.
TargetRaises(r) ==
  /\ pc[r] = "submit" /\ slots[r] > 0 /\ Fault
  /\ leaked' = leaked + slots[r]
  /\ slots' = [slots EXCEPT ![r] = 0]
  /\ Goto(r, "idle")
  /\ UNCHANGED <<rows, box, discovered, inflight, aged, leader, ready, pend, batch, work,
                 job, maint, clientVars>>

TopUp(r) ==
  \/ StartRound(r) \/ ListInventory(r) \/ CountReady(r) \/ ListExcess(r) \/ TrimDone(r)
  \/ ResetStale(r) \/ Reserve(r) \/ ReleaseUnsubmitted(r)
  \/ \E s \in Sandboxes :
       CompleteOne(r, s) \/ InspectRow(r, s) \/ TrimOne(r, s) \/ Submit(r, s)

-----------------------------------------------------------------------------
(* The executor thread that provisions sandbox s: _provision_one ->        *)
(* _create_sandbox_fresh(is_warm_pool=True)                                *)

JobStep(s, from, to) == job[s] = from /\ job' = [job EXCEPT ![s] = to]

jobFrame == <<discovered, segVars, leader, loopVars, maint, clientVars>>

CreateContainer(s) ==
  /\ JobStep(s, "queued", "created")
  /\ box' = [box EXCEPT ![s] = "up"]
  /\ UNCHANGED <<rows, events, jobFrame>>

CreateFails(s) ==
  /\ JobStep(s, "queued", "failed") /\ Fault
  /\ UNCHANGED <<rows, box, jobFrame>>

\* The row goes in before the guest is bootstrapped, as a pool row.
InsertRow(s) ==
  /\ JobStep(s, "created", "boot")
  /\ rows' = CreateRow(rows, s, "starting", TRUE, NoClient)
  /\ UNCHANGED <<box, events, jobFrame>>

\* _bootstrap_guest_services returned True; the state column is set to running.
BootOk(s) ==
  /\ JobStep(s, "boot", "done") /\ box[s] = "up"
  /\ rows' = UpdateState(rows, s, "running")
  /\ UNCHANGED <<box, events, jobFrame>>

\* Bootstrap gave up (it has to when the container is dead): the workload is
\* torn down and the future returns None.
BootFails(s) ==
  /\ JobStep(s, "boot", "failed")
  /\ box[s] = "up" => events < MaxEvents
  /\ events' = IF box[s] = "up" THEN events + 1 ELSE events
  /\ KillRow(s)
  /\ UNCHANGED jobFrame

Provision(s) ==
  CreateContainer(s) \/ InsertRow(s) \/ BootOk(s) \/ BootFails(s)

-----------------------------------------------------------------------------
(* A client's acquire: acquire_warm_pool_sandbox lists, then claims         *)

clientFrame == <<box, discovered, segVars, leader, loopVars, job, maint>>

\* The listing, DB only.  Rows on a pod that discovery misses are marked lost
\* on the way; with a listed row left, the gateway's claim is tried.
ListForClaim(c) ==
  /\ cpc[c] = "idle" /\ holds[c] = NoSandbox /\ claims < MaxClaims
  /\ claims' = claims + 1
  /\ IF discovered
       THEN /\ cpc' = [cpc EXCEPT ![c] = IF WarmRows(rows) # {} THEN "claim" ELSE "idle"]
            /\ UNCHANGED rows
       ELSE /\ rows' = MarkLost(rows, WarmRows(rows))
            /\ UNCHANGED cpc
  /\ UNCHANGED <<holds, events, clientFrame>>

\* claim_warm_pool_sandbox, one transaction: candidates with a runtime_error
\* that come first by created_at (any of them here) are given up; the first
\* one without is handed off.  Rows another transaction has locked are skipped,
\* so the claim may also come back empty-handed.
Claim(c) ==
  /\ cpc[c] = "claim"
  /\ cpc' = [cpc EXCEPT ![c] = "idle"]
  /\ LET broken == ClaimCandidates(rows) \ WarmRows(rows) IN
       \/ \E D \in SUBSET broken, s \in WarmRows(rows) :
            /\ rows' = HandOff(GiveUpCandidates(rows, D), s, c)
            /\ holds' = [holds EXCEPT ![c] = s]
       \/ \E D \in SUBSET broken :
            /\ rows' = GiveUpCandidates(rows, D)
            /\ UNCHANGED holds
  /\ UNCHANGED <<claims, events, clientFrame>>

\* DELETE /sandboxes/{id} by the owner.
ClientKills(c) ==
  /\ holds[c] # NoSandbox
  /\ KillSandbox(holds[c])
  /\ holds' = [holds EXCEPT ![c] = NoSandbox]
  /\ UNCHANGED <<discovered, segVars, leader, loopVars, job, maint, cpc, claims>>

-----------------------------------------------------------------------------
(* The maintenance thread (_lease_reaper_loop), one listed row at a time    *)

maintFrame == <<discovered, segVars, leader, loopVars, job, clientVars>>

\* reconcile_persisted_state lists every row: the active ones, and the lost
\* ones that are still in the pool.
ListForReconcile(s) ==
  /\ maint = NoMaint
  /\ \/ rows[s].state \in {"starting", "running"}
     \/ rows[s].state = "lost" /\ rows[s].warm
  /\ maint' = [kind |-> "reconcile", id |-> s, seen |-> rows[s].state]
  /\ UNCHANGED <<rows, box, discovered, segVars, leader, loopVars, job, clientVars, events>>

\* What it then does depends on the state it read in the listing; the update
\* does not look at the state the row has now.
Reconcile ==
  /\ maint.kind = "reconcile"
  /\ LET s == maint.id
         runs == discovered /\ box[s] = "up" IN
     rows' = CASE runs /\ maint.seen # "running" -> UpdateState(rows, s, "running")
               [] ~runs /\ maint.seen # "lost"   -> MarkLost(rows, {s})
               [] OTHER                          -> rows
  /\ maint' = NoMaint
  /\ UNCHANGED <<box, events, maintFrame>>

\* The liveness probe came back unknown: the row is skipped.
ReconcileUnknown ==
  /\ maint.kind = "reconcile" /\ Fault
  /\ maint' = NoMaint
  /\ UNCHANGED <<rows, box, maintFrame>>

\* list_expired_sandboxes: a lease ran out (pool rows have one as well).
ListForReap(s) ==
  /\ maint = NoMaint /\ s \in Expirable(rows) /\ Fault
  /\ maint' = [kind |-> "reap", id |-> s, seen |-> "running"]
  /\ UNCHANGED <<rows, box, maintFrame>>

\* reap_expired_sandboxes kills what it listed.
Reap ==
  /\ maint.kind = "reap"
  /\ KillSandbox(maint.id)
  /\ maint' = NoMaint
  /\ UNCHANGED maintFrame

\* purge_lost_sandboxes: the row goes, whatever the container does.
Purge(s) ==
  /\ s \in Purgeable(rows)
  /\ rows' = DeleteRow(rows, s)
  /\ UNCHANGED <<box, events, maint, maintFrame>>

-----------------------------------------------------------------------------
(* The environment                                                         *)

ContainerDies(s) ==
  /\ box[s] = "up" /\ Exists(rows, s) /\ Fault
  /\ box' = [box EXCEPT ![s] = "dead"]
  /\ UNCHANGED <<rows, discovered, segVars, leader, loopVars, job, maint, clientVars>>

DiscoveryLost ==
  /\ discovered /\ Fault
  /\ discovered' = FALSE
  /\ UNCHANGED <<rows, box, segVars, leader, loopVars, job, maint, clientVars>>

DiscoveryBack ==
  /\ ~discovered
  /\ discovered' = TRUE
  /\ UNCHANGED <<rows, box, segVars, leader, loopVars, job, maint, clientVars, events>>

\* The lease moves to another replica; a loop that is running does not notice.
LeaderChanges ==
  /\ Fault
  /\ leader' \in Replicas \ {leader}
  /\ UNCHANGED <<rows, box, discovered, segVars, loopVars, job, maint, clientVars>>

Working(s) == job[s] \in {"queued", "created", "boot"}

\* Slots replica r reserved and is still going to give back.
Owed(r) == Cardinality(pend[r] \cup batch[r]) + (IF pc[r] = "submit" THEN slots[r] ELSE 0)

\* inflight_updated_at falls behind the stale window.  Unless SlowPulls, a
\* provision and the leader's next drain take less than the window.
SlotsAge ==
  /\ inflight # 0 /\ ~aged
  /\ \/ SlowPulls
     \/ Owed(leader) = 0 /\ \A s \in Sandboxes : ~Working(s)
  /\ aged' = TRUE
  /\ UNCHANGED <<rows, box, discovered, inflight, leaked, leader, loopVars, job, maint,
                 clientVars, events>>

\* The process dies and comes back: its threads and local variables are gone,
\* rows and containers stay as they are.
Crash(r) ==
  /\ Fault
  /\ leaked' = leaked + Owed(r)
  /\ pc' = [pc EXCEPT ![r] = "idle"]
  /\ ready' = [ready EXCEPT ![r] = 0]
  /\ slots' = [slots EXCEPT ![r] = 0]
  /\ pend' = [pend EXCEPT ![r] = {}]
  /\ batch' = [batch EXCEPT ![r] = {}]
  /\ work' = [work EXCEPT ![r] = {}]
  /\ job' = [s \in Sandboxes |-> IF s \in pend[r] \cup batch[r] THEN "none" ELSE job[s]]
  /\ UNCHANGED <<rows, box, discovered, inflight, aged, leader, maint, clientVars>>

-----------------------------------------------------------------------------
Next ==
  \/ \E r \in Replicas : TopUp(r) \/ TargetRaises(r) \/ Crash(r)
  \/ \E s \in Sandboxes :
       \/ Provision(s) \/ CreateFails(s)
       \/ ListForReconcile(s) \/ ListForReap(s) \/ Purge(s) \/ ContainerDies(s)
  \/ \E c \in Clients : ListForClaim(c) \/ Claim(c) \/ ClientKills(c)
  \/ Reconcile \/ ReconcileUnknown \/ Reap
  \/ DiscoveryLost \/ DiscoveryBack \/ LeaderChanges \/ SlotsAge

Spec == Init /\ [][Next]_vars

\* The top-up threads, the executor threads and the maintenance thread keep
\* running; every reconcile pass visits every row, so a row that stays listable
\* is visited; clocks advance; discovery recovers.
Fairness ==
  /\ \A r \in Replicas : WF_vars(TopUp(r))
  /\ \A s \in Sandboxes : /\ WF_vars(Provision(s))
                          /\ SF_vars(ListForReconcile(s))
                          /\ WF_vars(Purge(s))
  /\ \A c \in Clients : WF_vars(Claim(c))
  /\ WF_vars(Reconcile) /\ WF_vars(Reap)
  /\ WF_vars(DiscoveryBack) /\ WF_vars(SlotsAge)

FairSpec == Spec /\ Fairness

-----------------------------------------------------------------------------
(* Properties                                                              *)

ReservedUnsubmitted ==
  {x \in Replicas \X (1..Concurrency) : pc[x[1]] = "submit" /\ x[2] <= slots[x[1]]}

Futures == UNION {pend[r] \cup batch[r] : r \in Replicas}

\* The in-flight counter never exceeds the slots somebody will still give back
\* plus those that were forgotten since the last stale reset: reserve, release
\* and complete leave no slot that blocks the refill although nothing is being
\* provisioned (reserve/complete/reset_warm_pool_*, drain's finally clause).
NoPhantomReservations ==
  inflight <= leaked + Cardinality(Futures) + Cardinality(ReservedUnsubmitted)

\* What an acquire returned stays the caller's alone: no other client was given
\* the same sandbox, and while its row exists it names that client and is out of
\* the pool (claim_warm_pool_sandbox against bootstrap, reconcile and inventory
\* threads that still write the same row).
HandoffExclusive ==
  \A c \in Clients : holds[c] # NoSandbox =>
    /\ Exists(rows, holds[c]) => rows[holds[c]].owner = c /\ ~rows[holds[c]].warm
    /\ \A d \in Clients \ {c} : holds[d] # holds[c]

\* A row with an owner keeps that owner and never goes back to the pool until it
\* is deleted: late writes of the provisioner, of reconcile ("revived") or of
\* the inventory pass do not undo a handoff.
HandoffIsFinal ==
  [][\A s \in Sandboxes : rows[s].owner # NoClient =>
       \/ rows'[s] = Absent
       \/ rows'[s].owner = rows[s].owner /\ ~rows'[s].warm]_vars

\* With one replica and the default concurrency, ready rows and provisions under
\* way exceed the target by at most what each fault (a crash that forgets its
\* reservation, for one) can cost.
OverProvisionBounded ==
  Cardinality({s \in Sandboxes : s \in WarmRows(rows) \/ Working(s)})
    <= Desired + Concurrency * events

\* When faults and claims stop, the pool settles at its target size: leaked
\* slots are reset, dead rows are found, missing sandboxes provisioned and
\* excess ones trimmed.
Converges == <>[](Cardinality(WarmRows(rows)) = Desired)

\* The reset's docstring: "inflight_count represents create work owned by a live
\* API process", so that live pulls "do not get double-counted".
InflightCoversLiveWork ==
  Cardinality({s \in Sandboxes \ WarmRows(rows) : Working(s)}) <= inflight

\* The acquire path's comment: pool rows "are inserted after successful
\* bootstrap", so what it may hand off is bootstrapped.
ReadyRowsBootstrapped ==
  \A s \in WarmRows(rows) : job[s] \notin {"created", "boot"}
=============================================================================
