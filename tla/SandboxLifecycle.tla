-------------------------- MODULE SandboxLifecycle --------------------------
(***************************************************************************)
(* A client's sandbox from its cold create to its kill: the row in the     *)
(* database against the container on the gateway, with everything that     *)
(* works on both at once: the API requests (create, pause, resume, kill,   *)
(* timeout refresh, and the liveness probe in front of most of them) and   *)
(* the maintenance thread (reconcile, lease reaper, purge).                *)
(*                                                                         *)
(* A thread runs one operation at a time; each database statement and each *)
(* gateway call of the operation is a step, and what it read earlier stays *)
(* in its record.  No operation takes a lock on the sandbox.  A gateway    *)
(* call that gets no answer reads as "unknown" or as "not ok" (_safe), and *)
(* may have taken effect or not.                                           *)
(*                                                                         *)
(* Abstracted: lease and retention clocks (they elapse at any moment), the *)
(* guest's bootstrap and metadata other than the lost marker.              *)
(***************************************************************************)
EXTENDS SandboxStore

CONSTANTS Handlers,    \* API worker threads, over all replicas
          Maintainers, \* maintenance threads, one per replica
          NoSandbox,   \* an id that is not one
          MaxOps,      \* bound: client requests in a behaviour
          MaxFaults    \* bound: faults in a behaviour

ASSUME LifecycleAssumption ==
  /\ NoSandbox \notin Sandboxes
  /\ Handlers \cap Maintainers = {}
  /\ MaxOps \in Nat /\ MaxFaults \in Nat

VARIABLES
  rows,       \* the sandboxes table
  box,        \* the container on the gateway
  expired,    \* has the row's lease elapsed?
  th,         \* what each thread is doing
  abandoned,  \* did the create's request get a 503 while its thread went on?
  cause,      \* history: what may have left a container without a row
  ops,        \* history: client requests so far
  faults      \* history: faults so far

vars == <<rows, box, expired, th, abandoned, cause, ops, faults>>

Threads  == Handlers \cup Maintainers
Alive    == {"up", "paused"}
Boxes    == {"none", "exited", "gone"} \cup Alive
Answers  == {"running", "paused", "stopped", "missing", "unknown"}
Causes   == {"create_lost", "kill_unanswered", "kill_paused", "lost_row"}
Requests == {"probe", "pause", "resume", "refresh", "kill"}
Ops      == {"idle", "create", "reconcile", "reap"} \cup Requests
Points   == {"idle", "queued", "insert", "boot", "read", "check", "mark", "begin",
             "announce", "call", "look", "confirm", "restore", "promote", "killed",
             "delete", "extend"}

Idle == [op |-> "idle", at |-> "idle", id |-> NoSandbox, seen |-> "absent"]

TypeOK ==
  /\ rows \in [Sandboxes -> Row]
  /\ box \in [Sandboxes -> Boxes]
  /\ expired \in [Sandboxes -> BOOLEAN]
  /\ th \in [Threads -> {Idle} \cup [op : Ops, at : Points, id : Sandboxes, seen : RowStates]]
  /\ abandoned \in [Sandboxes -> BOOLEAN]
  /\ cause \in [Sandboxes -> SUBSET Causes]
  /\ ops \in 0..MaxOps
  /\ faults \in 0..MaxFaults

Init ==
  /\ rows = [s \in Sandboxes |-> Absent]
  /\ box = [s \in Sandboxes |-> "none"]
  /\ expired = [s \in Sandboxes |-> FALSE]
  /\ th = [t \in Threads |-> Idle]
  /\ abandoned = [s \in Sandboxes |-> FALSE]
  /\ cause = [s \in Sandboxes |-> {}]
  /\ ops = 0 /\ faults = 0

Fault == faults < MaxFaults /\ faults' = faults + 1

\* What get_container_state returns when the gateway answers.
StateOf(b) == CASE b = "up"     -> "running"
                [] b = "paused" -> "paused"
                [] b = "exited" -> "stopped"
                [] OTHER        -> "missing"

\* The state answer a thread gets; no answer costs a fault.
Ask(s, a) ==
  \/ a = StateOf(box[s]) /\ UNCHANGED faults
  \/ a = "unknown" /\ Fault

\* Mutant: a container that is stopped or missing passes for a running row.
MatchesDead(state, answer) ==
  \/ answer \in {"running", "stopped", "missing"} /\ state \in {"running", "starting"}
  \/ answer = "paused" /\ state \in {"paused", "pausing"}

\* _runtime_state_matches_db_state: a row that is being resumed does not match
\* its container while that is still paused.
Matches(state, answer) ==
  \/ answer = "running" /\ state \in {"running", "starting", "resuming", "pausing"}
  \/ answer \in {"paused", "stopped"} /\ state \in {"paused", "pausing"}

At(t, point) == th[t].at = point
Doing(t, op) == th[t].op = op
Move(t, point) == th' = [th EXCEPT ![t].at = point]
Forget(t, point) == th' = [th EXCEPT ![t].at = point, ![t].seen = "absent"]
Finish(t) == th' = [th EXCEPT ![t] = Idle]

\* A live container may be about to lose its row, for this reason.
Note(s, why) ==
  cause' = IF box[s] \in Alive THEN [cause EXCEPT ![s] = @ \cup {why}] ELSE cause

rest == <<expired, abandoned, ops>>

-----------------------------------------------------------------------------
(* Cold create: _create_sandbox_fresh behind the create handler             *)

Unused(s) ==
  /\ box[s] = "none" /\ ~Exists(rows, s)
  /\ \A t \in Threads : th[t].id # s

StartCreate(t, s) ==
  /\ th[t] = Idle /\ Unused(s) /\ ops < MaxOps
  /\ th' = [th EXCEPT ![t] = [op |-> "create", at |-> "queued", id |-> s, seen |-> "absent"]]
  /\ ops' = ops + 1
  /\ UNCHANGED <<rows, box, expired, abandoned, cause, faults>>

\* create_container: done; refused; or done with the answer lost, which reads
\* as refused and leaves the container behind.
CreateContainer(t, s) ==
  /\ At(t, "queued") /\ th[t].id = s
  /\ \/ /\ box' = [box EXCEPT ![s] = "up"]
        /\ Move(t, "insert")
        /\ UNCHANGED <<cause, faults>>
     \/ /\ Fault /\ Finish(t)
        /\ UNCHANGED <<box, cause>>
     \/ /\ Fault /\ Finish(t)
        /\ box' = [box EXCEPT ![s] = "up"]
        /\ cause' = [cause EXCEPT ![s] = @ \cup {"create_lost"}]
  /\ UNCHANGED <<rows, rest>>

InsertRow(t, s) ==
  /\ At(t, "insert") /\ th[t].id = s
  /\ \E c \in Clients : rows' = CreateRow(rows, s, "starting", FALSE, c)
  /\ Move(t, "boot")
  /\ UNCHANGED <<box, cause, faults, rest>>

\* The row is set to running whether or not the guest is ready in the budget.
BootDone(t, s) ==
  /\ At(t, "boot") /\ th[t].id = s
  /\ rows' = UpdateState(rows, s, "running")
  /\ Finish(t)
  /\ UNCHANGED <<box, cause, faults, rest>>

\* An image without a managed start-up is waited for; if its guest does not come
\* up the sandbox is killed again.
BootFails(t, s) ==
  /\ At(t, "boot") /\ th[t].id = s
  /\ IF box[s] \in Alive THEN Fault ELSE UNCHANGED faults
  /\ th' = [th EXCEPT ![t].op = "kill", ![t].at = "begin"]
  /\ UNCHANGED <<rows, box, cause, rest>>

\* create_sandbox_row's timeouts.  A create that has not started is cancelled;
\* one that has goes on in its thread, and the client gets a 503 without an id.
GiveUp(t, s) ==
  /\ Doing(t, "create") /\ th[t].id = s
  /\ \/ At(t, "queued") /\ Finish(t) /\ UNCHANGED abandoned
     \/ ~abandoned[s] /\ abandoned' = [abandoned EXCEPT ![s] = TRUE] /\ UNCHANGED th
  /\ UNCHANGED <<rows, box, expired, cause, ops, faults>>

-----------------------------------------------------------------------------
(* Requests on an existing row                                             *)

\* owned_sandbox_or_404 found the row; kill and timeout start with their own
\* look at it, the others with the liveness probe (ensure_live_sandbox).
StartRequest(t, s) ==
  /\ th[t] = Idle /\ Exists(rows, s) /\ ops < MaxOps
  /\ \E op \in Requests :
       th' = [th EXCEPT ![t] =
         [op |-> op, at |-> IF op \in {"kill", "refresh"} THEN "begin" ELSE "read",
          id |-> s, seen |-> "absent"]]
  /\ ops' = ops + 1
  /\ UNCHANGED <<rows, box, expired, abandoned, cause, faults>>

\* The probe found nothing wrong: the request goes on.
Passed(t) ==
  CASE Doing(t, "probe")   -> Finish(t)
    [] Doing(t, "refresh") -> Forget(t, "look")
    [] OTHER               -> Forget(t, "begin")

\* get_sandbox_runtime_failure reads the row: none is no failure; lost is one.
ProbeRead(t, s) ==
  /\ At(t, "read") /\ th[t].id = s
  /\ CASE ~Exists(rows, s)          -> Passed(t)
       [] rows[s].state = "lost"    -> Finish(t)
       [] OTHER -> th' = [th EXCEPT ![t].seen = rows[s].state, ![t].at = "check"]
  /\ UNCHANGED <<rows, box, cause, faults, rest>>

\* Then it asks the gateway, and compares with the state it read before.
ProbeCheck(t, s) ==
  /\ At(t, "check") /\ ~Doing(t, "reconcile") /\ th[t].id = s
  /\ \E a \in Answers :
       /\ Ask(s, a)
       /\ IF a = "unknown" \/ Matches(th[t].seen, a) THEN Passed(t) ELSE Forget(t, "mark")
  /\ UNCHANGED <<rows, box, cause, rest>>

\* _mark_sandbox_lost, for the probe and for reconcile.
MarkRowLost(t, s) ==
  /\ At(t, "mark") /\ th[t].id = s
  /\ rows' = MarkLost(rows, {s})
  /\ Finish(t)
  /\ UNCHANGED <<box, cause, faults, rest>>

\* pause_sandbox, resume_sandbox: remember the previous state ...
SwitchBegin(t, s) ==
  /\ At(t, "begin") /\ th[t].op \in {"pause", "resume"} /\ th[t].id = s
  /\ IF Exists(rows, s)
       THEN th' = [th EXCEPT ![t].seen = rows[s].state, ![t].at = "announce"]
       ELSE Finish(t)
  /\ UNCHANGED <<rows, box, cause, faults, rest>>

\* ... announce the change ...
SwitchAnnounce(t, s) ==
  /\ At(t, "announce") /\ th[t].id = s
  /\ rows' = UpdateState(rows, s, IF Doing(t, "pause") THEN "pausing" ELSE "resuming")
  /\ Move(t, "call")
  /\ UNCHANGED <<box, cause, faults, rest>>

From(t) == IF Doing(t, "pause") THEN "up" ELSE "paused"
To(t)   == IF Doing(t, "pause") THEN "paused" ELSE "up"

\* ... ask the gateway, which fails when the container is not in the other state
\* or gives no answer ...
SwitchCall(t, s) ==
  /\ At(t, "call") /\ th[t].op \in {"pause", "resume"} /\ th[t].id = s
  /\ \/ /\ box[s] = From(t)
        /\ box' = [box EXCEPT ![s] = To(t)]
        /\ Forget(t, "confirm") /\ UNCHANGED faults
     \/ /\ box[s] # From(t)
        /\ Move(t, "look") /\ UNCHANGED <<box, faults>>
     \/ /\ box[s] = From(t) /\ Fault
        /\ box' \in {box, [box EXCEPT ![s] = To(t)]}
        /\ Move(t, "look")
  /\ UNCHANGED <<rows, cause, rest>>

\* ... and see what the container does if that was not applied.
SwitchLook(t, s) ==
  /\ At(t, "look") /\ th[t].op \in {"pause", "resume"} /\ th[t].id = s
  /\ \E a \in Answers :
       /\ Ask(s, a)
       /\ IF a = StateOf(To(t)) THEN Forget(t, "confirm") ELSE Move(t, "restore")
  /\ UNCHANGED <<rows, box, cause, rest>>

\* Mutant: the container's word for its state goes into the row.
SwitchConfirmRaw(t, s) ==
  /\ At(t, "confirm") /\ th[t].id = s
  /\ rows' = UpdateState(rows, s, To(t))
  /\ Finish(t)
  /\ UNCHANGED <<box, cause, faults, rest>>

\* The row says what the gateway confirmed ...
SwitchConfirm(t, s) ==
  /\ At(t, "confirm") /\ th[t].id = s
  /\ rows' = UpdateState(rows, s, IF Doing(t, "pause") THEN "paused" ELSE "running")
  /\ Finish(t)
  /\ UNCHANGED <<box, cause, faults, rest>>

\* ... or goes back to what it said before.
SwitchRestore(t, s) ==
  /\ At(t, "restore") /\ th[t].id = s
  /\ rows' = UpdateState(rows, s, th[t].seen)
  /\ Finish(t)
  /\ UNCHANGED <<box, cause, faults, rest>>

\* refresh_sandbox_timeout: is_running looks at the row, probes, and asks once
\* more (the handler's own probe before it is a request of its own here).
RefreshBegin(t, s) ==
  /\ At(t, "begin") /\ Doing(t, "refresh") /\ th[t].id = s
  /\ IF rows[s].state = "running" THEN Move(t, "read") ELSE Finish(t)
  /\ UNCHANGED <<rows, box, cause, faults, rest>>

RefreshLook(t, s) ==
  /\ At(t, "look") /\ Doing(t, "refresh") /\ th[t].id = s
  /\ \E a \in Answers :
       Ask(s, a) /\ IF a = "running" THEN Move(t, "extend") ELSE Finish(t)
  /\ UNCHANGED <<rows, box, cause, rest>>

RefreshExtend(t, s) ==
  /\ At(t, "extend") /\ th[t].id = s
  /\ expired' = [expired EXCEPT ![s] = @ /\ ~Exists(rows, s)]
  /\ Finish(t)
  /\ UNCHANGED <<rows, box, abandoned, cause, ops, faults>>

-----------------------------------------------------------------------------
(* kill_sandbox, for a request, a failed create and the reaper              *)

Killing(t) == th[t].op \in {"kill", "reap"}

KillBegin(t, s) ==
  /\ At(t, "begin") /\ Killing(t) /\ th[t].id = s
  /\ IF Exists(rows, s) THEN Move(t, "call") ELSE Finish(t)
  /\ UNCHANGED <<rows, box, cause, faults, rest>>

\* kill_container kills and removes, and takes an absent container for killed.
\* It fails on one that has exited, may fail on a paused one, and the gateway
\* may refuse or not answer.
KillCall(t, s) ==
  /\ At(t, "call") /\ Killing(t) /\ th[t].id = s
  /\ \/ /\ box[s] # "exited"
        /\ box' = [box EXCEPT ![s] = "gone"]
        /\ Move(t, "killed") /\ UNCHANGED faults
     \/ /\ box[s] \in {"exited", "paused"}
        /\ Move(t, "look") /\ UNCHANGED <<box, faults>>
     \/ /\ Fault
        /\ box' \in {box, [box EXCEPT ![s] = "gone"]}
        /\ Move(t, "look")
  /\ UNCHANGED <<rows, cause, rest>>

\* Mutant: a kill that failed is not looked into.
KillLookSkipped(t, s) ==
  /\ At(t, "look") /\ Killing(t) /\ th[t].id = s
  /\ Move(t, "killed")
  /\ UNCHANGED <<rows, box, cause, faults, rest>>

\* After a failed kill only a container that is known to be running keeps its
\* row: is_container_running is False for an unknown state too, and never raises.
KillLook(t, s) ==
  /\ At(t, "look") /\ Killing(t) /\ th[t].id = s
  /\ \E a \in Answers :
       /\ Ask(s, a)
       /\ IF a = "running" THEN Finish(t) ELSE Move(t, "killed")
       /\ CASE a = "unknown" -> Note(s, "kill_unanswered")
            [] a = "paused"  -> Note(s, "kill_paused")
            [] OTHER         -> UNCHANGED cause
  /\ UNCHANGED <<rows, box, rest>>

\* _delete_sandbox_record, in two statements.
KillMark(t, s) ==
  /\ At(t, "killed") /\ th[t].id = s
  /\ rows' = UpdateState(rows, s, "killed")
  /\ Move(t, "delete")
  /\ UNCHANGED <<box, cause, faults, rest>>

KillDelete(t, s) ==
  /\ At(t, "delete") /\ th[t].id = s
  /\ rows' = DeleteRow(rows, s)
  /\ Finish(t)
  /\ UNCHANGED <<box, cause, faults, rest>>

-----------------------------------------------------------------------------
(* The maintenance thread                                                  *)

\* reconcile_persisted_state reads all rows first; a row of a gateway that the
\* discovery misses is marked lost without asking.
ListForReconcile(m, s) ==
  /\ th[m] = Idle
  /\ \/ rows[s].state \in {"running", "starting"} /\ UNCHANGED faults
        /\ th' = [th EXCEPT ![m] =
             [op |-> "reconcile", at |-> "check", id |-> s, seen |-> rows[s].state]]
     \/ rows[s].state \in {"running", "starting", "pausing", "resuming"} /\ Fault
        /\ th' = [th EXCEPT ![m] =
             [op |-> "reconcile", at |-> "mark", id |-> s, seen |-> "absent"]]
  /\ UNCHANGED <<rows, box, cause, rest>>

\* It asks for each container in turn and judges by the state it listed.
ReconcileCheck(m, s) ==
  /\ At(m, "check") /\ Doing(m, "reconcile") /\ th[m].id = s
  /\ \E a \in Answers :
       /\ Ask(s, a)
       /\ CASE a = "unknown" -> Finish(m)
            [] Matches(th[m].seen, a) ->
                 IF th[m].seen = "starting" THEN Forget(m, "promote") ELSE Finish(m)
            [] OTHER -> Forget(m, "mark")
  /\ UNCHANGED <<rows, box, cause, rest>>

ReconcilePromote(m, s) ==
  /\ At(m, "promote") /\ th[m].id = s
  /\ rows' = UpdateState(rows, s, "running")
  /\ Finish(m)
  /\ UNCHANGED <<box, cause, faults, rest>>

\* reap_expired_sandboxes lists, then kills what it listed.
ListForReap(m, s) ==
  /\ th[m] = Idle /\ s \in Expirable(rows) /\ expired[s]
  /\ th' = [th EXCEPT ![m] = [op |-> "reap", at |-> "begin", id |-> s, seen |-> "absent"]]
  /\ UNCHANGED <<rows, box, cause, faults, rest>>

\* purge_lost_sandboxes deletes the row and leaves the container alone.
Purge(s) ==
  /\ s \in Purgeable(rows)
  /\ rows' = DeleteRow(rows, s)
  /\ Note(s, "lost_row")
  /\ UNCHANGED <<box, th, faults, rest>>

-----------------------------------------------------------------------------
(* The environment                                                         *)

LeaseExpires(s) ==
  /\ Exists(rows, s) /\ ~expired[s]
  /\ expired' = [expired EXCEPT ![s] = TRUE]
  /\ UNCHANGED <<rows, box, th, abandoned, cause, ops, faults>>

ContainerDies(s) ==
  /\ box[s] \in Alive /\ Fault
  /\ box' \in {[box EXCEPT ![s] = "exited"], [box EXCEPT ![s] = "gone"]}
  /\ UNCHANGED <<rows, th, cause, rest>>

\* prune_exited_containers.
PruneExited(s) ==
  /\ box[s] = "exited"
  /\ box' = [box EXCEPT ![s] = "gone"]
  /\ UNCHANGED <<rows, th, cause, faults, rest>>

\* A thread ends in the middle: its process died, or a call raised.
Crash(t) ==
  /\ th[t] # Idle /\ Fault /\ Finish(t)
  /\ IF At(t, "insert") THEN Note(th[t].id, "create_lost") ELSE UNCHANGED cause
  /\ UNCHANGED <<rows, box, rest>>

-----------------------------------------------------------------------------
Create(t, s) ==
  CreateContainer(t, s) \/ InsertRow(t, s) \/ BootDone(t, s) \/ BootFails(t, s)

Probe(t, s) == ProbeRead(t, s) \/ ProbeCheck(t, s) \/ MarkRowLost(t, s)

Switch(t, s) ==
  \/ SwitchBegin(t, s) \/ SwitchAnnounce(t, s) \/ SwitchCall(t, s) \/ SwitchLook(t, s)
  \/ SwitchConfirm(t, s) \/ SwitchRestore(t, s)

Refresh(t, s) == RefreshBegin(t, s) \/ RefreshLook(t, s) \/ RefreshExtend(t, s)

Kill(t, s) ==
  KillBegin(t, s) \/ KillCall(t, s) \/ KillLook(t, s) \/ KillMark(t, s) \/ KillDelete(t, s)

Step(t) ==
  \E s \in Sandboxes :
    \/ Create(t, s) \/ Probe(t, s) \/ Switch(t, s) \/ Refresh(t, s) \/ Kill(t, s)
    \/ ReconcileCheck(t, s) \/ ReconcilePromote(t, s)

Next ==
  \/ \E t \in Threads : Step(t) \/ Crash(t)
  \/ \E t \in Handlers, s \in Sandboxes :
       StartCreate(t, s) \/ GiveUp(t, s) \/ StartRequest(t, s)
  \/ \E m \in Maintainers, s \in Sandboxes : ListForReconcile(m, s) \/ ListForReap(m, s)
  \/ \E s \in Sandboxes :
       Purge(s) \/ LeaseExpires(s) \/ ContainerDies(s) \/ PruneExited(s)

Spec == Init /\ [][Next]_vars

\* Threads finish what they began; every maintenance cycle lists every row; a lost
\* row's retention elapses.  A lease may be as long as the client likes.
Fairness ==
  /\ \A t \in Threads : WF_vars(Step(t))
  /\ \A s \in Sandboxes :
       /\ \A m \in Maintainers : SF_vars(ListForReconcile(m, s)) /\ SF_vars(ListForReap(m, s))
       /\ WF_vars(Purge(s)) /\ WF_vars(PruneExited(s))

FairSpec == Spec /\ Fairness

-----------------------------------------------------------------------------
(* Properties                                                              *)

Creating(s) == \E t \in Threads : th[t].id = s /\ th[t].op = "create"

\* A container that is alive and has no row is explained: its create was cut off,
\* or its row was deleted by a kill nobody answered or on a paused container, or
\* as lost.  In particular a kill that failed never drops the row of a container
\* the gateway reports running, whatever runs beside it.
NoSilentOrphan ==
  \A s \in Sandboxes :
    box[s] \in Alive /\ ~Exists(rows, s) => cause[s] # {} \/ Creating(s)

\* A deleted row never returns: the late writes of a pause, a resume, a probe or
\* a reconcile that read the row before do not bring it back.
DeletionFinal ==
  [][\A s \in Sandboxes :
       box[s] # "none" /\ ~Creating(s) /\ ~Exists(rows, s) => ~Exists(rows, s)']_vars

\* A row never stays running or starting over a dead container, however long its
\* lease: reconcile finds it, also when a late resume or create writes running over
\* its verdict.
DeadIsNoticed ==
  \A s \in Sandboxes :
    (rows[s].state \in {"running", "starting"} /\ box[s] \in {"exited", "gone"})
      ~> (rows[s].state \notin {"running", "starting"})

\* A sandbox that is running after its lease ran out is killed, unless a client
\* renews the lease or pauses it, or it is lost.
LeaseEnforced ==
  \A s \in Sandboxes :
    (rows[s].state = "running" /\ expired[s])
      ~> (rows[s].state # "running" \/ ~expired[s])

\* A create that answered 503 and completed later is reclaimed when its lease runs
\* out: its container ends, or its leak has a cause, unless a client found the row
\* and renewed the lease or froze the sandbox.
AbandonedIsReclaimed ==
  \A s \in Sandboxes :
    (abandoned[s] /\ expired[s]) ~>
      (\/ box[s] \notin Alive \/ cause[s] # {} \/ ~expired[s]
       \/ rows[s].state \in {"pausing", "paused", "resuming"})

\* "Previous sandbox container died ...; recreate the sandbox": what is marked
\* lost has no live container.
LostOnlyIfDied ==
  \A s \in Sandboxes : rows[s].state = "lost" => box[s] \notin Alive
=============================================================================
