----------------------------- MODULE LeaderLease -----------------------------
(***************************************************************************)
(* Who leads the warm pools: a Kubernetes Lease that every replica tries   *)
(* to acquire or renew, an advisory lock of the database for when the      *)
(* Lease API cannot be used, and the answer each replica keeps for a while.*)
(*                                                                         *)
(* Time is counted in units of the leader's refresh interval, and only as  *)
(* ages: of the lease, of the database lock, of a call and of an answer.   *)
(* A replica makes one call at a time (_warm_pool_leader_lock).            *)
(***************************************************************************)
EXTENDS Naturals

CONSTANTS
  Replicas,  \* api-service processes, named by their identity
  None,
  Gone,      \* the identity of a process that is no more
  LeaseTTL,  \* WARM_POOL_COORDINATOR_LEASE_TTL_SEC
  LockTTL,   \* MONGODB_ADVISORY_LOCK_TTL_SEC
  Refresh,   \* how long an answer is kept
  MaxCall,   \* how long two requests with their timeout may take
  MaxFaults  \* bound: faults

\* The settings: an answer is renewed well before the lease ends (15 s against 5 s), and
\* two requests with a timeout of 5 s each end before it.
LeaseBounds ==
  /\ {LeaseTTL, LockTTL, Refresh, MaxCall, MaxFaults} \subseteq Nat
  /\ {None, Gone} \cap Replicas = {} /\ None # Gone
  /\ Refresh \in 1..LeaseTTL /\ MaxCall + 1 \in 1..LeaseTTL
  /\ MaxCall + Refresh + 1 \in 1..LockTTL

VARIABLES
  mongo,   \* is the database MongoDB (a lock with a TTL) or PostgreSQL?
  lease,   \* the Lease: holder and age of its renewTime
  lock,    \* the database lock: holder and age; PostgreSQL's does not age
  conn,    \* PostgreSQL: does the replica keep a connection that got the lock?
  call,    \* the call a replica is in
  belief,  \* _warm_pool_leader_value, by which means, and its age
  faults   \* history: faults so far

vars == <<mongo, lease, lock, conn, call, belief, faults>>

NoCall == [pc |-> "idle", age |-> 0, fresh |-> FALSE]
NoBelief == [value |-> FALSE, by |-> "lease", age |-> Refresh, told |-> FALSE]
Free == [holder |-> None, age |-> 0]

TypeOK ==
  /\ mongo \in BOOLEAN
  /\ lease \in [holder : Replicas \cup {None, Gone}, age : 0..(LeaseTTL + MaxCall)]
  /\ lock \in [holder : Replicas \cup {None, Gone}, age : 0..LockTTL]
  /\ conn \in [Replicas -> BOOLEAN]
  /\ call \in [Replicas -> [pc : {"idle", "get", "create", "put", "db"},
                            age : 0..MaxCall, fresh : BOOLEAN]]
  /\ belief \in [Replicas -> [value : BOOLEAN, by : {"lease", "db"},
                              age : 0..LeaseTTL, told : BOOLEAN]]
  /\ faults \in 0..MaxFaults

Init ==
  /\ mongo \in BOOLEAN /\ lease = Free /\ lock = Free
  /\ conn = [r \in Replicas |-> FALSE] /\ call = [r \in Replicas |-> NoCall]
  /\ belief = [r \in Replicas |-> NoBelief] /\ faults = 0

Fault == faults < MaxFaults /\ faults' = faults + 1
Goto(r, pc) == call' = [call EXCEPT ![r].pc = pc]

\* The answer, its age counted from the start of the call; told: it is being used.
Answer(r, yes, how) ==
  /\ belief' = [belief EXCEPT ![r] = [value |-> yes, by |-> how,
                                      age |-> call[r].age, told |-> TRUE]]

-----------------------------------------------------------------------------
(* is_warm_pool_leader *)

\* The answer is kept; after that a call starts and reads the clock.  A replica that
\* has no token asks the database.
Ask(r) ==
  /\ call[r].pc = "idle" /\ belief[r].age >= Refresh
  /\ \/ call' = [call EXCEPT ![r] = [NoCall EXCEPT !.pc = "get"]] /\ UNCHANGED faults
     \/ call' = [call EXCEPT ![r] = [NoCall EXCEPT !.pc = "db"]] /\ Fault
  /\ UNCHANGED <<mongo, lease, lock, conn, belief>>

\* The Lease API cannot be reached, or answers with an error.
FallBack(r) ==
  /\ call[r].pc \in {"get", "create", "put"} /\ Goto(r, "db") /\ Fault
  /\ UNCHANGED <<mongo, lease, lock, conn, belief>>

\* mutant: a lease is its holder's for ever
ExpiredNever(r) == FALSE
\* mutant: off by one
ExpiredLate(r) == lease.age + 1 >= LeaseTTL
\* _lease_expired, by the time read before the request.
Expired(r) == lease.age >= LeaseTTL + call[r].age

\* The lease is read: there is none, it is another's and valid, or it can be taken.
Get(r) ==
  /\ call[r].pc = "get"
  /\ \/ /\ lease.holder = None
        /\ call' = [call EXCEPT ![r].pc = "create"] /\ UNCHANGED belief
     \/ /\ lease.holder \notin {None, r} /\ ~Expired(r)
        /\ Answer(r, FALSE, "lease") /\ call' = [call EXCEPT ![r] = NoCall]
     \/ /\ lease.holder = r \/ (lease.holder # None /\ Expired(r))
        /\ call' = [call EXCEPT ![r].pc = "put", ![r].fresh = TRUE] /\ UNCHANGED belief
  /\ UNCHANGED <<mongo, lease, lock, conn, faults>>

\* The lease is written with the time read before the first request, and what others
\* have read of it is out of date.
WriteLease(r, c) ==
  /\ lease' = [holder |-> r, age |-> call[r].age]
  /\ call' = [q \in Replicas |-> IF q = r THEN c ELSE [call[q] EXCEPT !.fresh = FALSE]]

\* mutant: the write is not conditional on the version
UnmovedNever(r) == TRUE
\* The server compares the resourceVersion, or finds that there is no lease yet.
Unmoved(r) == IF call[r].pc = "create" THEN lease.holder = None ELSE call[r].fresh

\* POST or PUT: done, or 409.
Write(r) ==
  /\ call[r].pc \in {"create", "put"}
  /\ IF Unmoved(r) THEN WriteLease(r, NoCall) /\ Answer(r, TRUE, "lease")
     ELSE /\ Answer(r, FALSE, "lease") /\ call' = [call EXCEPT ![r] = NoCall]
          /\ UNCHANGED lease
  /\ UNCHANGED <<mongo, lock, conn, faults>>

\* Done, but the answer is lost: the replica falls back.
WriteUnanswered(r) ==
  /\ call[r].pc \in {"create", "put"} /\ Unmoved(r) /\ Fault
  /\ WriteLease(r, [call[r] EXCEPT !.pc = "db", !.fresh = FALSE])
  /\ UNCHANGED <<mongo, lock, conn, belief>>

-----------------------------------------------------------------------------
(* acquire_advisory_lock *)

\* PostgreSQL: a session that got the lock keeps it, and its connection is kept.
LockPostgres(r) ==
  /\ call[r].pc = "db" /\ ~mongo /\ call' = [call EXCEPT ![r] = NoCall]
  /\ LET yes == conn[r] \/ lock.holder = None IN
     /\ Answer(r, yes, "db")
     /\ conn' = [conn EXCEPT ![r] = yes]
     /\ lock' = IF lock.holder = None /\ ~conn[r] THEN [lock EXCEPT !.holder = r] ELSE lock
  /\ UNCHANGED <<mongo, lease, faults>>

\* MongoDB: a document with an owner and an expiry, which the owner renews.
LockMongo(r) ==
  /\ call[r].pc = "db" /\ mongo /\ call' = [call EXCEPT ![r] = NoCall]
  /\ LET yes == lock.holder \in {None, r} \/ lock.age = LockTTL IN
     /\ Answer(r, yes, "db")
     /\ lock' = IF yes THEN [holder |-> r, age |-> 0] ELSE lock
  /\ UNCHANGED <<mongo, lease, conn, faults>>

\* The database raises too: no answer, and the old one is not renewed.
LockFails(r) ==
  /\ call[r].pc = "db" /\ Fault /\ call' = [call EXCEPT ![r] = NoCall]
  /\ UNCHANGED <<mongo, lease, lock, conn, belief>>

\* The session ends under the replica: with it the lock, but not conn.
SessionLost ==
  /\ ~mongo /\ lock.holder # None /\ Fault /\ lock' = Free
  /\ UNCHANGED <<mongo, lease, conn, call, belief>>

-----------------------------------------------------------------------------
\* A process ends and another takes its place: a container that restarts keeps its host
\* name and with it the lease, a new pod does not.  A MongoDB lock has an owner id of its
\* own, a PostgreSQL lock ends with the session.
Crash(r) ==
  /\ Fault
  /\ belief' = [belief EXCEPT ![r] = NoBelief] /\ call' = [call EXCEPT ![r] = NoCall]
  /\ conn' = [conn EXCEPT ![r] = FALSE]
  /\ lock' = IF lock.holder # r THEN lock
             ELSE IF mongo THEN [lock EXCEPT !.holder = Gone] ELSE Free
  /\ lease' \in {lease} \cup (IF lease.holder = r THEN {[lease EXCEPT !.holder = Gone]} ELSE {})
  /\ UNCHANGED mongo

Older(age, bound) == IF age < bound THEN age + 1 ELSE age

\* A unit of time; no call lasts longer than its timeouts allow.
Tick ==
  /\ \A r \in Replicas : call[r].pc # "idle" => call[r].age < MaxCall
  /\ lease' = IF lease.holder = None THEN lease
              ELSE [lease EXCEPT !.age = Older(@, LeaseTTL + MaxCall)]
  /\ lock' = IF mongo /\ lock.holder # None THEN [lock EXCEPT !.age = Older(@, LockTTL)]
             ELSE lock
  /\ call' = [r \in Replicas |-> IF call[r].pc = "idle" THEN call[r]
                                 ELSE [call[r] EXCEPT !.age = @ + 1]]
  /\ belief' = [r \in Replicas |-> [belief[r] EXCEPT !.age = Older(@, LeaseTTL),
                                                     !.told = FALSE]]
  /\ UNCHANGED <<mongo, conn, faults>>

Call(r) == Ask(r) \/ Get(r) \/ Write(r) \/ LockPostgres(r) \/ LockMongo(r)

Next ==
  \/ \E r \in Replicas : \/ Call(r) \/ FallBack(r) \/ WriteUnanswered(r)
                         \/ LockFails(r) \/ Crash(r)
  \/ SessionLost \/ Tick

\* The top-up loops and their keepalive threads ask again and again, and time passes.
Fairness == WF_vars(Tick) /\ \A r \in Replicas : WF_vars(Call(r))

Spec == Init /\ [][Next]_vars
FairSpec == Spec /\ Fairness

-----------------------------------------------------------------------------
(* Properties *)

\* Does replica r act as the leader on the strength of its latest answer?
Leads(r) == belief[r].value /\ (belief[r].told \/ belief[r].age < Refresh)

\* Two replicas lead at once only when one of them fell back to the database lock, or
\* when both did and a PostgreSQL session was lost under its holder: neither slow calls,
\* nor lost answers, nor a takeover race gives the lease to two.
LeadersExclusive ==
  \A r, q \in Replicas :
    r # q /\ Leads(r) /\ Leads(q) /\ belief[r].by = belief[q].by
      => belief[r].by = "db" /\ conn[r] /\ conn[q]

\* Whatever happened, some replica leads again and again once the faults end.
SomeLead == \E r \in Replicas : Leads(r)
SomeoneLeads == []<>SomeLead
=============================================================================
