--------------------------- MODULE WarmPoolProofs ---------------------------
(***************************************************************************)
(* What holds of WarmPool for every set of replicas, clients and           *)
(* sandboxes, every target size and every number of faults: the types,     *)
(* the exclusiveness of a handoff, its finality, that no slot of the       *)
(* in-flight counter is without an owner, and a bound of the overshoot.    *)
(***************************************************************************)
EXTENDS WarmPool, SandboxStoreProofs, FiniteSetTheorems

-----------------------------------------------------------------------------
(* Types                                                                   *)

\* The count of ready rows is a number.
LEMMA CountNat ==
  /\ IsFiniteSet(WarmRows(rows))
  /\ Cardinality(WarmRows(rows)) \in Nat
<1>1. WarmRows(rows) \subseteq Sandboxes
  BY DEF WarmRows
<1> QED
  BY <1>1, PoolAssumption, FS_Subset, FS_CardinalityType

\* So is what a replica owes the counter.
LEMMA OwedNat ==
  ASSUME TypeOK, NEW r \in Replicas
  PROVE  Owed(r) \in Nat
<1>1. pend[r] \cup batch[r] \subseteq Sandboxes
  BY DEF TypeOK
<1>2. Cardinality(pend[r] \cup batch[r]) \in Nat
  BY <1>1, PoolAssumption, FS_Subset, FS_CardinalityType
<1> QED
  BY <1>2, PoolAssumption DEF Owed, TypeOK

\* A fault keeps the fault counter within its bound.
LEMMA FaultTypes ==
  ASSUME TypeOK, Fault
  PROVE  events' \in 0..MaxEvents
BY PoolAssumption DEF TypeOK, Fault

\* Every outcome of kill_sandbox keeps the three variables it can write typed.
LEMMA KillTypes ==
  ASSUME TypeOK, NEW s \in Sandboxes, KillSandbox(s)
  PROVE  /\ rows' \in [Sandboxes -> Row]
         /\ box' \in [Sandboxes -> {"none", "up", "dead"}]
         /\ events' \in 0..MaxEvents
<1>1. CASE KillRow(s) /\ UNCHANGED events
  BY <1>1, DeleteType DEF TypeOK, KillRow
<1>2. CASE KillUnanswered(s)
  BY <1>2, DeleteType, FaultTypes DEF TypeOK, KillUnanswered
<1>3. CASE KillRefused(s)
  BY <1>3, FaultTypes DEF TypeOK, KillRefused
<1> QED
  BY <1>1, <1>2, <1>3 DEF KillSandbox

\* Giving n slots back leaves the counter within the target.
LEMMA CompleteRange ==
  ASSUME inflight \in 0..Desired, NEW n \in Nat
  PROVE  MaxOf(0, inflight - n) \in 0..Desired
BY PoolAssumption DEF MaxOf

\* Clamp and reserve: the counter stays within the target, and what is reserved
\* within what was asked for.
LEMMA ReserveRange ==
  ASSUME NEW i \in 0..Desired, NEW n \in Nat, NEW k \in 0..Concurrency
  PROVE  LET clamped == MinOf(i, MaxOf(0, Desired - n))
             got     == MaxOf(0, MinOf(k, Desired - n - clamped)) IN
         clamped + got \in 0..Desired /\ got \in 0..Concurrency
BY PoolAssumption DEF MaxOf, MinOf

\* What the maintenance thread may have in hand.
LEMMA MaintTypes ==
  ASSUME NEW s \in Sandboxes, NEW row \in Row
  PROVE  /\ [kind |-> "reconcile", id |-> s, seen |-> row.state] \in Listings
         /\ [kind |-> "reap", id |-> s, seen |-> "running"] \in Listings
BY DEF Listings, Row, RowStates

\* The row the maintenance thread works on is a sandbox.
LEMMA MaintId ==
  ASSUME maint \in {NoMaint} \cup Listings, maint.kind # "none"
  PROVE  maint.id \in Sandboxes /\ maint.kind \in {"reconcile", "reap"}
BY DEF NoMaint, Listings

\* The counters stay in their ranges (the in-flight count within the target size,
\* a replica's local slots within the concurrency limit) and every listing, future
\* and holder refers to a sandbox, under every interleaving of the pool's threads.
THEOREM TypeInvariance == Spec => []TypeOK
<1>1. ASSUME TypeOK, NEW r \in Replicas, StartRound(r)
      PROVE  TypeOK'
  BY <1>1, PoolAssumption, StoreAssumption
     DEF TypeOK, LoopPcs, JobStates, StartRound, Goto, segVars, loopVars,
         clientVars
<1>2. ASSUME TypeOK, NEW r \in Replicas, ListInventory(r)
      PROVE  TypeOK'
  BY <1>2, PoolAssumption, StoreAssumption
     DEF TypeOK, LoopPcs, JobStates, ListInventory, Goto, WarmRows, segVars,
         loopVars, clientVars
<1>3. ASSUME TypeOK, NEW r \in Replicas, CountReady(r)
      PROVE  TypeOK'
  BY <1>3, PoolAssumption, StoreAssumption, CountNat
     DEF TypeOK, LoopPcs, JobStates, CountReady, Goto, segVars, loopVars,
         clientVars
<1>4. ASSUME TypeOK, NEW r \in Replicas, ListExcess(r)
      PROVE  TypeOK'
  BY <1>4, PoolAssumption, StoreAssumption
     DEF TypeOK, LoopPcs, JobStates, ListExcess, Goto, WarmRows, segVars,
         loopVars, clientVars
<1>5. ASSUME TypeOK, NEW r \in Replicas, TrimDone(r)
      PROVE  TypeOK'
  BY <1>5, PoolAssumption, StoreAssumption, CountNat
     DEF TypeOK, LoopPcs, JobStates, TrimDone, Goto, segVars, loopVars,
         clientVars
<1>6. ASSUME TypeOK, NEW r \in Replicas, ResetStale(r)
      PROVE  TypeOK'
  <2>1. inflight' \in 0..Desired /\ leaked' \in Nat
    BY <1>6, PoolAssumption DEF TypeOK, ResetStale, ResetInflight, segVars
  <2>5. aged' \in BOOLEAN
    BY <1>6 DEF TypeOK, ResetStale, ResetInflight, segVars
  <2>6. pend[r] \subseteq Sandboxes
    BY <1>6 DEF TypeOK
  <2>2. IsFiniteSet(pend[r])
    BY <2>6, FS_Subset, PoolAssumption
  <2>3. Cardinality(pend[r]) \in Nat
    BY <2>2, FS_CardinalityType
  <2>4. LET free == MaxOf(0, Concurrency - Cardinality(pend[r])) IN
        free \in 0..Concurrency /\ MinOf(free, 1) \in 0..Concurrency
    BY <2>3, PoolAssumption DEF MaxOf, MinOf
  <2> QED
    BY <1>6, <2>1, <2>4, <2>5
       DEF TypeOK, LoopPcs, JobStates, ResetStale, ResetInflight, Goto, segVars, loopVars,
           clientVars
<1>7. ASSUME TypeOK, NEW r \in Replicas, Reserve(r)
      PROVE  TypeOK'
  <2>1. inflight' \in 0..Desired /\ slots' \in [Replicas -> 0..Concurrency]
    BY <1>7, ReserveRange DEF TypeOK, Reserve, Reservable
  <2>2. aged' \in BOOLEAN
    BY <1>7 DEF TypeOK, Reserve
  <2> QED
    BY <1>7, <2>1, <2>2
       DEF TypeOK, LoopPcs, JobStates, Reserve, Goto, segVars, loopVars,
           clientVars
<1>8. ASSUME TypeOK, NEW r \in Replicas, ReleaseUnsubmitted(r)
      PROVE  TypeOK'
  <2>1. inflight' \in 0..Desired
    BY <1>8, CompleteRange, PoolAssumption
       DEF TypeOK, ReleaseUnsubmitted, CompleteSlots
  <2>2. slots' \in [Replicas -> 0..Concurrency]
    BY <1>8, PoolAssumption DEF TypeOK, ReleaseUnsubmitted
  <2>3. aged' \in BOOLEAN
    BY <1>8 DEF ReleaseUnsubmitted, CompleteSlots
  <2> QED
    BY <1>8, <2>1, <2>2, <2>3
       DEF TypeOK, LoopPcs, JobStates, ReleaseUnsubmitted, Goto, segVars,
           loopVars, clientVars
<1>9. ASSUME TypeOK, NEW r \in Replicas, TargetRaises(r)
      PROVE  TypeOK'
  BY <1>9, PoolAssumption, StoreAssumption
     DEF TypeOK, LoopPcs, JobStates, TargetRaises, Goto, Fault, segVars,
         loopVars, clientVars
<1>10. ASSUME TypeOK, NEW r \in Replicas, Crash(r)
      PROVE  TypeOK'
  BY <1>10, PoolAssumption, StoreAssumption, OwedNat
     DEF TypeOK, LoopPcs, JobStates, Crash, Fault, segVars, loopVars, clientVars
<1>11. ASSUME TypeOK, NEW r \in Replicas, NEW s \in Sandboxes, CompleteOne(r, s)
      PROVE  TypeOK'
  <2>1. inflight' \in 0..Desired /\ aged' \in BOOLEAN
    BY <1>11, CompleteRange DEF TypeOK, CompleteOne, CompleteSlots
  <2> QED
    BY <1>11, <2>1
       DEF TypeOK, LoopPcs, JobStates, CompleteOne, segVars, loopVars,
           clientVars
<1>12. ASSUME TypeOK, NEW r \in Replicas, NEW s \in Sandboxes, InspectRow(r, s)
      PROVE  TypeOK'
  <2>1. rows' \in [Sandboxes -> Row]
    BY <1>12, MarkLostType DEF TypeOK, InspectRow
  <2>2. events' \in 0..MaxEvents
    BY <1>12, FaultTypes DEF TypeOK, InspectRow
  <2> QED
    BY <1>12, <2>1, <2>2
       DEF TypeOK, LoopPcs, JobStates, InspectRow, segVars, loopVars, clientVars
<1>13. ASSUME TypeOK, NEW r \in Replicas, NEW s \in Sandboxes, TrimOne(r, s)
      PROVE  TypeOK'
  BY <1>13, PoolAssumption, StoreAssumption, KillTypes
     DEF TypeOK, LoopPcs, JobStates, TrimOne, segVars, loopVars, clientVars
<1>14. ASSUME TypeOK, NEW r \in Replicas, NEW s \in Sandboxes, Submit(r, s)
      PROVE  TypeOK'
  BY <1>14, PoolAssumption, StoreAssumption
     DEF TypeOK, LoopPcs, JobStates, Submit, segVars, loopVars, clientVars
<1>15. ASSUME TypeOK, NEW s \in Sandboxes, CreateContainer(s)
      PROVE  TypeOK'
  BY <1>15, PoolAssumption, StoreAssumption
     DEF TypeOK, LoopPcs, JobStates, CreateContainer, JobStep, jobFrame,
         segVars, loopVars, clientVars
<1>16. ASSUME TypeOK, NEW s \in Sandboxes, InsertRow(s)
      PROVE  TypeOK'
  BY <1>16, PoolAssumption, StoreAssumption, CreateType
     DEF TypeOK, LoopPcs, JobStates, InsertRow, JobStep, jobFrame, RowStates,
         segVars, loopVars, clientVars
<1>17. ASSUME TypeOK, NEW s \in Sandboxes, BootOk(s)
      PROVE  TypeOK'
  BY <1>17, PoolAssumption, StoreAssumption, UpdateType
     DEF TypeOK, LoopPcs, JobStates, BootOk, JobStep, jobFrame, RowStates,
         segVars, loopVars, clientVars
<1>18. ASSUME TypeOK, NEW s \in Sandboxes, BootFails(s)
      PROVE  TypeOK'
  BY <1>18, PoolAssumption, StoreAssumption, DeleteType
     DEF TypeOK, LoopPcs, JobStates, BootFails, JobStep, jobFrame, KillRow,
         RowStates, segVars, loopVars, clientVars
<1>19. ASSUME TypeOK, NEW s \in Sandboxes, CreateFails(s)
      PROVE  TypeOK'
  BY <1>19, PoolAssumption, StoreAssumption
     DEF TypeOK, LoopPcs, JobStates, CreateFails, JobStep, jobFrame, Fault,
         segVars, loopVars, clientVars
<1>20. ASSUME TypeOK, NEW s \in Sandboxes, ListForReconcile(s)
      PROVE  TypeOK'
  BY <1>20, MaintTypes
     DEF TypeOK, LoopPcs, JobStates, ListForReconcile, segVars, loopVars,
         clientVars
<1>21. ASSUME TypeOK, NEW s \in Sandboxes, ListForReap(s)
      PROVE  TypeOK'
  <2>1. maint' \in {NoMaint} \cup Listings /\ events' \in 0..MaxEvents
    BY <1>21, AbsentType, MaintTypes, FaultTypes DEF ListForReap
  <2> QED
    BY <1>21, <2>1
       DEF TypeOK, ListForReap, maintFrame, segVars, loopVars, clientVars
<1>22. ASSUME TypeOK, NEW s \in Sandboxes, Purge(s)
      PROVE  TypeOK'
  BY <1>22, PoolAssumption, StoreAssumption, DeleteType
     DEF TypeOK, LoopPcs, JobStates, Purge, RowStates, maintFrame, segVars,
         loopVars, clientVars
<1>23. ASSUME TypeOK, NEW s \in Sandboxes, ContainerDies(s)
      PROVE  TypeOK'
  BY <1>23, PoolAssumption, StoreAssumption
     DEF TypeOK, LoopPcs, JobStates, ContainerDies, Fault, segVars, loopVars,
         clientVars
<1>24. ASSUME TypeOK, NEW c \in Clients, ListForClaim(c)
      PROVE  TypeOK'
  BY <1>24, PoolAssumption, StoreAssumption, MarkLostType
     DEF TypeOK, LoopPcs, JobStates, ListForClaim, clientFrame, RowStates,
         segVars, loopVars, clientVars
<1>25. ASSUME TypeOK, NEW c \in Clients, Claim(c)
      PROVE  TypeOK'
  <2>1. rows' \in [Sandboxes -> Row]
    <3>1. rows \in [Sandboxes -> Row]
      BY <1>25 DEF TypeOK
    <3>2. \A D : GiveUpCandidates(rows, D) \in [Sandboxes -> Row]
      BY <3>1, GiveUpType
    <3>3. \A D, s : s \in Sandboxes =>
            HandOff(GiveUpCandidates(rows, D), s, c) \in [Sandboxes -> Row]
      BY <3>2, <1>25, HandOffType
    <3>4. WarmRows(rows) \subseteq Sandboxes
      BY DEF WarmRows
    <3> QED
      BY <1>25, <3>2, <3>3, <3>4 DEF Claim
  <2>2. /\ holds' \in [Clients -> Sandboxes \cup {NoSandbox}]
        /\ cpc' \in [Clients -> {"idle", "claim"}]
    BY <1>25 DEF TypeOK, Claim, WarmRows
  <2> QED
    BY <1>25, <2>1, <2>2
       DEF TypeOK, LoopPcs, JobStates, Claim, clientFrame, segVars, loopVars,
           clientVars
<1>26. ASSUME TypeOK, NEW c \in Clients, ClientKills(c)
      PROVE  TypeOK'
  BY <1>26, PoolAssumption, StoreAssumption, KillTypes
     DEF TypeOK, LoopPcs, JobStates, ClientKills, segVars, loopVars, clientVars
<1>27. ASSUME TypeOK, Reconcile
      PROVE  TypeOK'
  <2>1. maint.id \in Sandboxes
    BY <1>27, MaintId DEF TypeOK, Reconcile
  <2>2. rows' \in [Sandboxes -> Row]
    BY <1>27, <2>1, UpdateType, MarkLostType DEF TypeOK, Reconcile, RowStates
  <2> QED
    BY <1>27, <2>1, <2>2
       DEF TypeOK, LoopPcs, JobStates, Reconcile, maintFrame, segVars, loopVars,
           clientVars
<1>28. ASSUME TypeOK, ReconcileUnknown
      PROVE  TypeOK'
  BY <1>28, PoolAssumption, StoreAssumption
     DEF TypeOK, LoopPcs, JobStates, ReconcileUnknown, Fault, maintFrame,
         NoMaint, RowStates, segVars, loopVars, clientVars
<1>29. ASSUME TypeOK, Reap
      PROVE  TypeOK'
  <2>1. maint.id \in Sandboxes
    BY <1>29, MaintId DEF TypeOK, Reap
  <2>2. KillSandbox(maint.id)
    BY <1>29 DEF Reap
  <2> QED
    BY <1>29, <2>1, <2>2, KillTypes
       DEF TypeOK, Reap, maintFrame, segVars, loopVars, clientVars
<1>30. ASSUME TypeOK, DiscoveryLost
      PROVE  TypeOK'
  <2>1. events' \in 0..MaxEvents
    BY <1>30, FaultTypes DEF TypeOK, DiscoveryLost
  <2>2. discovered' \in BOOLEAN
    BY <1>30 DEF DiscoveryLost
  <2> QED
    BY <1>30, <2>1, <2>2
       DEF TypeOK, LoopPcs, JobStates, DiscoveryLost, segVars, loopVars,
           clientVars
<1>31. ASSUME TypeOK, DiscoveryBack
      PROVE  TypeOK'
  BY <1>31, PoolAssumption, StoreAssumption
     DEF TypeOK, LoopPcs, JobStates, DiscoveryBack, segVars, loopVars,
         clientVars
<1>32. ASSUME TypeOK, LeaderChanges
      PROVE  TypeOK'
  BY <1>32, PoolAssumption, StoreAssumption
     DEF TypeOK, LoopPcs, JobStates, LeaderChanges, Fault, segVars, loopVars,
         clientVars
<1>33. ASSUME TypeOK, SlotsAge
      PROVE  TypeOK'
  BY <1>33, PoolAssumption, StoreAssumption
     DEF TypeOK, LoopPcs, JobStates, SlotsAge, segVars, loopVars, clientVars
<1>34. Init => TypeOK
  <2> SUFFICES ASSUME Init PROVE TypeOK
    OBVIOUS
  <2>1. /\ inflight \in 0..Desired /\ leaked \in Nat
        /\ events \in 0..MaxEvents /\ claims \in 0..MaxClaims
        /\ slots \in [Replicas -> 0..Concurrency] /\ ready \in [Replicas -> Nat]
    BY PoolAssumption DEF Init
  <2>2. discovered \in BOOLEAN /\ aged \in BOOLEAN
    BY DEF Init
  <2>3. rows \in [Sandboxes -> Row]
    BY AbsentType DEF Init
  <2> QED
    BY <2>1, <2>2, <2>3 DEF Init, TypeOK, JobStates, LoopPcs
<1>35. TypeOK /\ UNCHANGED vars => TypeOK'
  BY DEF TypeOK, LoopPcs, JobStates, vars, segVars, loopVars, clientVars, WarmRows
<1>36. TypeOK /\ [Next]_vars => TypeOK'
  BY <1>1, <1>2, <1>3, <1>4, <1>5, <1>6, <1>7, <1>8, <1>9, <1>10, <1>11, <1>12,
     <1>13, <1>14, <1>15, <1>16, <1>17, <1>18, <1>19, <1>20, <1>21, <1>22,
     <1>23, <1>24, <1>25, <1>26, <1>27, <1>28, <1>29, <1>30, <1>31, <1>32,
     <1>33, <1>35
     DEF Next, TopUp, Provision
<1> QED
  BY <1>34, <1>36, PTL DEF Spec

-----------------------------------------------------------------------------
(* Ownership                                                               *)

\* Before its row is inserted, a provision has nothing in the table.
Early(s) == job[s] \in {"queued", "created"}

\* A deleted row left nothing; a row with an owner is out of the pool; an id
\* that is still being created has no row and no holder.
OwnershipInv ==
  /\ \A s \in Sandboxes : ~Exists(rows, s) => rows[s] = Absent
  /\ \A s \in Sandboxes : rows[s].owner # NoClient => ~rows[s].warm
  /\ \A s \in Sandboxes : Early(s) => ~Exists(rows, s)
  /\ \A c \in Clients : holds[c] # NoSandbox => ~Early(holds[c])
  /\ HandoffExclusive

\* What every action but Submit, InsertRow and Claim does to rows, jobs and
\* what the clients hold.
Quiet ==
  /\ Keeps(rows, rows')
  /\ \A s \in Sandboxes : Early(s)' => Early(s)
  /\ \A c \in Clients : holds'[c] \in {holds[c], NoSandbox}

\* A table that did not change brings nothing back.
LEMMA KeepsSame ==
  ASSUME NEW db
  PROVE  Keeps(db, db)
BY DEF Keeps

\* A quiet step keeps the ownership invariant.
LEMMA QuietKeepsOwnership ==
  ASSUME TypeOK, OwnershipInv, Quiet
  PROVE  OwnershipInv'
<1> USE DEF Exists
<1>0. Absent.state = "absent" /\ Absent.owner = NoClient /\ ~Absent.warm
  BY DEF Absent
<1>1. ASSUME NEW s \in Sandboxes
      PROVE  \/ rows'[s] = rows[s]
             \/ rows'[s] = Absent
             \/ /\ Exists(rows, s) /\ Exists(rows, s)'
                /\ rows'[s].owner = rows[s].owner
                /\ rows'[s].warm => rows[s].warm
  BY DEF Quiet, Keeps
<1>2. \A s \in Sandboxes : ~Exists(rows, s)' => rows'[s] = Absent
  BY <1>1 DEF OwnershipInv
<1>3. \A s \in Sandboxes : rows'[s].owner # NoClient => ~rows'[s].warm
  BY <1>0, <1>1 DEF OwnershipInv
<1>4. \A s \in Sandboxes : Early(s)' => ~Exists(rows, s)'
  BY <1>0, <1>1 DEF OwnershipInv, Quiet
<1>5. \A c \in Clients : holds'[c] # NoSandbox =>
        holds'[c] = holds[c] /\ holds[c] \in Sandboxes
  BY DEF Quiet, TypeOK
<1>6. \A c \in Clients : holds'[c] # NoSandbox => ~Early(holds[c])'
  BY <1>5 DEF OwnershipInv, Quiet
<1>7. \A c \in Clients : holds'[c] # NoSandbox => ~Early(holds[c])
  BY <1>5 DEF OwnershipInv
<1>8. HandoffExclusive'
  BY <1>0, <1>1, <1>5 DEF OwnershipInv, HandoffExclusive
<1> QED
  BY <1>2, <1>3, <1>4, <1>5, <1>6, <1>8 DEF OwnershipInv, Early

\* A kill removes the row or leaves the table alone.
LEMMA KillQuiet ==
  ASSUME TypeOK, NEW s \in Sandboxes, KillSandbox(s)
  PROVE  Keeps(rows, rows')
BY DeleteKeeps, KeepsSame
   DEF TypeOK, KillSandbox, KillRow, KillUnanswered, KillRefused

\* The steps that touch neither the table's ownership nor the holders.
LEMMA QuietTopUp ==
  ASSUME TypeOK, NEW r \in Replicas,
         TopUp(r) \/ TargetRaises(r) \/ Crash(r),
         ~ \E s \in Sandboxes : Submit(r, s)
  PROVE  Quiet
<1> USE DEF Early, segVars, loopVars, clientVars
<1>0. rows \in [Sandboxes -> Row] /\ job \in [Sandboxes -> JobStates]
  BY DEF TypeOK
<1>1. CASE \/ StartRound(r) \/ ListInventory(r) \/ CountReady(r) \/ ListExcess(r)
           \/ TrimDone(r)
  BY <1>1, KeepsSame
     DEF Quiet, StartRound, ListInventory, CountReady, ListExcess, TrimDone
<1>2. CASE \/ ResetStale(r) \/ Reserve(r) \/ ReleaseUnsubmitted(r) \/ TargetRaises(r)
  BY <1>2, KeepsSame
     DEF Quiet, ResetStale, ResetInflight, Reserve, ReleaseUnsubmitted, TargetRaises
<1>3. CASE Crash(r)
  BY <1>0, <1>3, KeepsSame DEF Quiet, Crash
<1>4. ASSUME NEW s \in Sandboxes, CompleteOne(r, s)
      PROVE  Quiet
  BY <1>0, <1>4, KeepsSame DEF Quiet, CompleteOne
<1>5. ASSUME NEW s \in Sandboxes, InspectRow(r, s)
      PROVE  Quiet
  <2>1. Keeps(rows, rows')
    BY <1>0, <1>5, KeepsSame, MarkLostKeeps DEF InspectRow
  <2> QED
    BY <1>5, <2>1 DEF Quiet, InspectRow
<1>6. ASSUME NEW s \in Sandboxes, TrimOne(r, s)
      PROVE  Quiet
  BY <1>6, KillQuiet DEF Quiet, TrimOne
<1> QED
  BY <1>1, <1>2, <1>3, <1>4, <1>5, <1>6 DEF TopUp

\* The executor threads, except for the INSERT, are quiet.
LEMMA QuietProvision ==
  ASSUME TypeOK, NEW s \in Sandboxes,
         CreateContainer(s) \/ CreateFails(s) \/ BootOk(s) \/ BootFails(s)
  PROVE  Quiet
<1> USE DEF Early, JobStep, jobFrame, segVars, loopVars, clientVars
<1>0. rows \in [Sandboxes -> Row] /\ job \in [Sandboxes -> JobStates]
  BY DEF TypeOK
<1>1. CASE CreateContainer(s) \/ CreateFails(s)
  BY <1>0, <1>1, KeepsSame DEF Quiet, CreateContainer, CreateFails
<1>2. CASE BootOk(s)
  <2>1. Keeps(rows, rows')
    BY <1>0, <1>2, UpdateKeeps DEF BootOk, RowStates
  <2> QED
    BY <1>0, <1>2, <2>1 DEF Quiet, BootOk
<1>3. CASE BootFails(s)
  <2>1. Keeps(rows, rows')
    BY <1>0, <1>3, DeleteKeeps DEF BootFails, KillRow
  <2> QED
    BY <1>0, <1>3, <2>1 DEF Quiet, BootFails
<1> QED
  BY <1>1, <1>2, <1>3

\* The maintenance thread is quiet.
LEMMA QuietMaintenance ==
  ASSUME TypeOK,
         \/ \E s \in Sandboxes :
              ListForReconcile(s) \/ ListForReap(s) \/ Purge(s) \/ ContainerDies(s)
         \/ Reconcile \/ ReconcileUnknown \/ Reap
         \/ DiscoveryLost \/ DiscoveryBack \/ LeaderChanges \/ SlotsAge
  PROVE  Quiet
<1> USE DEF Early, maintFrame, segVars, loopVars, clientVars
<1>0. rows \in [Sandboxes -> Row]
  BY DEF TypeOK
<1>1. ASSUME NEW s \in Sandboxes, ListForReconcile(s) \/ ListForReap(s) \/ ContainerDies(s)
      PROVE  Quiet
  BY <1>1, KeepsSame DEF Quiet, ListForReconcile, ListForReap, ContainerDies
<1>2. ASSUME NEW s \in Sandboxes, Purge(s)
      PROVE  Quiet
  BY <1>0, <1>2, DeleteKeeps DEF Quiet, Purge
<1>3. CASE Reconcile
  <2>1. maint.id \in Sandboxes
    BY <1>3, MaintId DEF TypeOK, Reconcile
  <2>2. Keeps(rows, rows')
    BY <1>0, <1>3, <2>1, KeepsSame, UpdateKeeps, MarkLostKeeps
       DEF Reconcile, RowStates
  <2> QED
    BY <1>3, <2>2 DEF Quiet, Reconcile
<1>4. CASE Reap
  <2>1. maint.id \in Sandboxes /\ KillSandbox(maint.id)
    BY <1>4, MaintId DEF TypeOK, Reap
  <2>2. Keeps(rows, rows')
    BY <2>1, KillQuiet
  <2> QED
    BY <1>4, <2>2 DEF Quiet, Reap
<1>5. CASE \/ ReconcileUnknown \/ DiscoveryLost \/ DiscoveryBack \/ LeaderChanges \/ SlotsAge
  BY <1>5, KeepsSame
     DEF Quiet, ReconcileUnknown, DiscoveryLost, DiscoveryBack, LeaderChanges, SlotsAge
<1> QED
  BY <1>1, <1>2, <1>3, <1>4, <1>5

\* A client's listing and its kill are quiet.
LEMMA QuietClient ==
  ASSUME TypeOK, NEW c \in Clients, ListForClaim(c) \/ ClientKills(c)
  PROVE  Quiet
<1> USE DEF Early, clientFrame, segVars, loopVars, clientVars
<1>0. rows \in [Sandboxes -> Row] /\ holds \in [Clients -> Sandboxes \cup {NoSandbox}]
  BY DEF TypeOK
<1>1. CASE ListForClaim(c)
  <2>1. Keeps(rows, rows')
    BY <1>0, <1>1, KeepsSame, MarkLostKeeps DEF ListForClaim
  <2> QED
    BY <1>1, <2>1 DEF Quiet, ListForClaim
<1>2. CASE ClientKills(c)
  <2>1. holds[c] \in Sandboxes /\ KillSandbox(holds[c])
    BY <1>0, <1>2 DEF ClientKills
  <2>2. Keeps(rows, rows')
    BY <2>1, KillQuiet
  <2> QED
    BY <1>0, <1>2, <2>2 DEF Quiet, ClientKills
<1> QED
  BY <1>1, <1>2

\* A new future takes an id without a row and without a holder.
LEMMA SubmitKeepsOwnership ==
  ASSUME TypeOK, OwnershipInv, NEW r \in Replicas, NEW s \in Sandboxes, Submit(r, s)
  PROVE  OwnershipInv' /\ Keeps(rows, rows')
<1>1. rows' = rows /\ holds' = holds /\ job' = [job EXCEPT ![s] = "queued"]
  BY DEF Submit, clientVars
<1>2. ~Exists(rows, s) /\ \A c \in Clients : holds[c] # s
  BY DEF Submit, Unused
<1>3. job \in [Sandboxes -> JobStates]
      /\ holds \in [Clients -> Sandboxes \cup {NoSandbox}]
  BY DEF TypeOK
<1>4. \A t \in Sandboxes \ {s} : Early(t)' <=> Early(t)
  BY <1>1, <1>3 DEF Early
<1>5. HandoffExclusive'
  BY <1>1 DEF OwnershipInv, HandoffExclusive
<1>6. /\ \A t \in Sandboxes : Early(t)' => ~Exists(rows, t)'
      /\ \A c \in Clients : holds'[c] # NoSandbox => ~Early(holds[c])'
  BY <1>1, <1>2, <1>3, <1>4 DEF OwnershipInv
<1> QED
  BY <1>1, <1>5, <1>6, KeepsSame DEF OwnershipInv, Early

\* The row goes in without an owner, where there was none.
LEMMA InsertKeepsOwnership ==
  ASSUME TypeOK, OwnershipInv, NEW s \in Sandboxes, InsertRow(s)
  PROVE  /\ OwnershipInv'
         /\ \A t \in Sandboxes : rows'[t] = rows[t] \/ rows[t].owner = NoClient
<1>1. ~Exists(rows, s) /\ rows[s] = Absent
  BY DEF InsertRow, JobStep, OwnershipInv, Early
<1>2. /\ rows'[s].state = "starting" /\ rows'[s].owner = NoClient
      /\ \A t \in Sandboxes \ {s} : rows'[t] = rows[t]
  BY DEF InsertRow, CreateRow, TypeOK
<1>3. holds' = holds /\ job' = [job EXCEPT ![s] = "boot"]
  BY DEF InsertRow, JobStep, jobFrame, clientVars
<1>4. \A t \in Sandboxes : Early(t)' => Early(t) /\ t # s
  BY <1>3 DEF Early, TypeOK
<1>5. \A c \in Clients : holds[c] # NoSandbox => holds[c] # s /\ holds[c] \in Sandboxes
  BY DEF OwnershipInv, InsertRow, JobStep, Early, TypeOK
<1>6. HandoffExclusive'
  BY <1>2, <1>3, <1>5 DEF OwnershipInv, HandoffExclusive, Exists
<1>7. /\ \A t \in Sandboxes : ~Exists(rows, t)' => rows'[t] = Absent
      /\ \A t \in Sandboxes : rows'[t].owner # NoClient => ~rows'[t].warm
      /\ \A t \in Sandboxes : Early(t)' => ~Exists(rows, t)'
  BY <1>2, <1>4 DEF OwnershipInv, Exists
<1>8. \A c \in Clients : holds'[c] # NoSandbox => ~Early(holds[c])'
  BY <1>3, <1>4, <1>5 DEF OwnershipInv, Early
<1>9. OwnershipInv'
  BY <1>6, <1>7, <1>8 DEF OwnershipInv, Early
<1>10. \A t \in Sandboxes : rows'[t] = rows[t] \/ rows[t].owner = NoClient
  BY <1>1, <1>2 DEF Absent
<1> QED
  BY <1>9, <1>10

\* The claim takes a row of the pool, which no client holds, and gives the
\* broken candidates before it up.
LEMMA ClaimKeepsOwnership ==
  ASSUME TypeOK, OwnershipInv, NEW c \in Clients, Claim(c)
  PROVE  /\ OwnershipInv'
         /\ \A t \in Sandboxes : rows[t].owner # NoClient =>
              \/ rows'[t] = rows[t]
              \/ rows'[t] = Absent
              \/ rows'[t].owner = rows[t].owner /\ ~rows'[t].warm
<1> DEFINE broken == ClaimCandidates(rows) \ WarmRows(rows)
<1>0. /\ rows \in [Sandboxes -> Row]
      /\ holds \in [Clients -> Sandboxes \cup {NoSandbox}]
      /\ job' = job
  BY DEF TypeOK, Claim, clientFrame
<1>1. ASSUME NEW D \in SUBSET broken,
             rows' = GiveUpCandidates(rows, D), holds' = holds
      PROVE  Quiet
  BY <1>0, <1>1, GiveUpKeeps DEF Quiet, Early
<1>2. ASSUME NEW D \in SUBSET broken, NEW s \in WarmRows(rows),
             rows' = HandOff(GiveUpCandidates(rows, D), s, c),
             holds' = [holds EXCEPT ![c] = s]
      PROVE  /\ OwnershipInv'
             /\ \A t \in Sandboxes : rows[t].owner # NoClient =>
                  \/ rows'[t] = rows[t]
                  \/ rows'[t].owner = rows[t].owner /\ ~rows'[t].warm
  <2> DEFINE mid == GiveUpCandidates(rows, D)
  <2>1. s \in Sandboxes /\ s \notin D /\ rows[s].warm /\ Exists(rows, s)
    BY <1>2 DEF WarmRows, Exists
  <2>2. mid \in [Sandboxes -> Row] /\ mid[s] = rows[s]
    BY <1>0, <2>1, GiveUpType DEF GiveUpCandidates
  <2>3. \A t \in Sandboxes :
          \/ mid[t] = rows[t]
          \/ /\ Exists(rows, t) /\ Exists(mid, t)
             /\ mid[t].owner = rows[t].owner /\ ~mid[t].warm
    BY <1>0, <1>2 DEF GiveUpCandidates, ClaimCandidates, Row, Exists
  <2>4. /\ rows'[s].state = "running" /\ rows'[s].owner = c /\ ~rows'[s].warm
        /\ \A t \in Sandboxes \ {s} : rows'[t] = mid[t]
    <3> HIDE DEF mid
    <3>1. rows' = [mid EXCEPT ![s] = [mid[s] EXCEPT !.owner = c, !.warm = FALSE]]
      BY <1>2, <2>2 DEF HandOff, mid
    <3>2. mid[s].state = "running" /\ mid[s] \in Row
      BY <1>2, <2>1, <2>2 DEF WarmRows
    <3> QED
      BY <2>1, <2>2, <3>1, <3>2 DEF Row
  <2> HIDE DEF mid
  <2>5. rows[s].owner = NoClient /\ ~Early(s)
    BY <2>1 DEF OwnershipInv
  <2>6. \A d \in Clients : holds[d] # s
    BY <2>1, PoolAssumption DEF OwnershipInv, HandoffExclusive
  <2>7. /\ holds'[c] = s
        /\ \A d \in Clients \ {c} : holds'[d] = holds[d]
    BY <1>0, <1>2
  <2>8. /\ \A t \in Sandboxes : ~Exists(rows, t)' => rows'[t] = Absent
        /\ \A t \in Sandboxes : Early(t) => ~Exists(rows, t)'
    BY <2>3, <2>4, <2>5 DEF OwnershipInv, Exists
  <2>9. \A t \in Sandboxes : rows'[t].owner # NoClient => ~rows'[t].warm
    BY <2>3, <2>4 DEF OwnershipInv
  <2>10. HandoffExclusive'
    <3>1. ASSUME NEW d \in Clients \ {c}, holds'[d] # NoSandbox
          PROVE  /\ Exists(rows', holds'[d]) =>
                      rows'[holds'[d]].owner = d /\ ~rows'[holds'[d]].warm
                 /\ \A e \in Clients \ {d} : holds'[e] # holds'[d]
      <4>1. holds[d] \in Sandboxes \ {s} /\ holds'[d] = holds[d]
        BY <1>0, <2>6, <2>7, <3>1
      <4>2. Exists(rows', holds[d]) =>
              rows'[holds[d]].owner = d /\ ~rows'[holds[d]].warm
        BY <2>3, <2>4, <4>1, PoolAssumption
           DEF OwnershipInv, HandoffExclusive, Exists
      <4> QED
        BY <2>6, <2>7, <4>1, <4>2, PoolAssumption DEF OwnershipInv, HandoffExclusive
    <3> QED
      BY <2>4, <2>6, <2>7, <3>1 DEF HandoffExclusive
  <2>11. \A d \in Clients : holds'[d] # NoSandbox => ~Early(holds[d])'
    BY <1>0, <2>5, <2>7 DEF OwnershipInv, Early
  <2>12. \A t \in Sandboxes : rows[t].owner # NoClient =>
           \/ rows'[t] = rows[t]
           \/ rows'[t].owner = rows[t].owner /\ ~rows'[t].warm
    BY <2>3, <2>4, <2>5
  <2> QED
    BY <1>0, <2>8, <2>9, <2>10, <2>11, <2>12 DEF OwnershipInv, Early
<1>3. CASE \E D \in SUBSET broken :
              rows' = GiveUpCandidates(rows, D) /\ holds' = holds
  <2>1. Quiet
    BY <1>1, <1>3
  <2> QED
    BY <2>1, QuietKeepsOwnership DEF Quiet, Keeps, OwnershipInv
<1> QED
  BY <1>2, <1>3 DEF Claim

\* The ownership invariant, and what a step does to a row that has an owner.
LEMMA StepKeepsOwnership ==
  ASSUME TypeOK, OwnershipInv, Next
  PROVE  /\ OwnershipInv'
         /\ \A s \in Sandboxes : rows[s].owner # NoClient =>
              \/ rows'[s] = Absent
              \/ rows'[s].owner = rows[s].owner /\ ~rows'[s].warm
<1>0. \A s \in Sandboxes : rows[s].owner # NoClient => ~rows[s].warm
  BY DEF OwnershipInv
<1>1. CASE Quiet
  BY <1>0, <1>1, QuietKeepsOwnership DEF Quiet, Keeps
<1>2. ASSUME NEW r \in Replicas, NEW s \in Sandboxes, Submit(r, s)
      PROVE  OwnershipInv' /\ rows' = rows
  BY <1>2, SubmitKeepsOwnership DEF Submit
<1>3. CASE \E s \in Sandboxes : InsertRow(s)
  BY <1>0, <1>3, InsertKeepsOwnership
<1>4. CASE \E c \in Clients : Claim(c)
  BY <1>0, <1>4, ClaimKeepsOwnership
<1>5. CASE \E r \in Replicas, s \in Sandboxes : Submit(r, s)
  BY <1>0, <1>2, <1>5
<1> QED
  BY <1>1, <1>3, <1>4, <1>5, QuietTopUp, QuietProvision, QuietMaintenance, QuietClient
     DEF Next, Provision

\* Initially nobody holds anything.
LEMMA InitOwnership == Init => OwnershipInv
<1> SUFFICES ASSUME Init PROVE OwnershipInv
  OBVIOUS
<1>1. \A s \in Sandboxes : rows[s] = Absent /\ job[s] = "none"
  BY DEF Init
<1>2. Absent.state = "absent" /\ Absent.owner = NoClient
  BY DEF Absent
<1>3. \A c \in Clients : holds[c] = NoSandbox
  BY DEF Init
<1> QED
  BY <1>1, <1>2, <1>3 DEF OwnershipInv, HandoffExclusive, Exists, Early

\* The claim transaction, the provisioner, reconcile, the inventory pass, the
\* trim and the reaper write the same rows in any order: what a client acquired
\* is still its own and nobody else's, whatever the sizes of the pool.
THEOREM HandoffSafety == Spec => []HandoffExclusive
<1>1. OwnershipInv /\ UNCHANGED vars => OwnershipInv'
  BY DEF OwnershipInv, HandoffExclusive, Early, Exists, vars, clientVars
<1>2. TypeOK /\ OwnershipInv /\ [Next]_vars => OwnershipInv'
  BY <1>1, StepKeepsOwnership
<1>3. OwnershipInv => HandoffExclusive
  BY DEF OwnershipInv
<1> QED
  BY <1>2, <1>3, InitOwnership, TypeInvariance, PTL DEF Spec

\* No late write of a thread that listed the row earlier takes it from its owner
\* or puts it back into the pool; deletion is the only end of an ownership.
THEOREM HandoffFinality == Spec => HandoffIsFinal
<1>1. OwnershipInv /\ UNCHANGED vars => OwnershipInv'
  BY DEF OwnershipInv, HandoffExclusive, Early, Exists, vars, clientVars
<1>2. TypeOK /\ OwnershipInv /\ [Next]_vars => OwnershipInv'
  BY <1>1, StepKeepsOwnership
<1> DEFINE Final == \A s \in Sandboxes : rows[s].owner # NoClient =>
                      \/ rows'[s] = Absent
                      \/ rows'[s].owner = rows[s].owner /\ ~rows'[s].warm
<1>3. TypeOK /\ OwnershipInv /\ [Next]_vars => [Final]_vars
  BY StepKeepsOwnership
<1> HIDE DEF Final
<1>4. Spec => [][Final]_vars
  BY <1>2, <1>3, InitOwnership, TypeInvariance, PTL DEF Spec
<1> QED
  BY <1>4 DEF Final, HandoffIsFinal

-----------------------------------------------------------------------------
(* No slot of the in-flight counter without an owner                       *)

\* The slots replica r reserved and has not submitted, and all of them, for loops at p
\* with the local counts a.
UnsubmittedOf(p, a, r) == IF p[r] = "submit" THEN a[r] ELSE 0
Unsubmitted(p, a) ==
  {x \in Replicas \X (1..Concurrency) : p[x[1]] = "submit" /\ x[2] <= a[x[1]]}

UnsubmittedElsewhere(p, a, r) == {x \in Unsubmitted(p, a) : x[1] # r}

\* The replicas' reserved slots are counted apart.
LEMMA UnsubmittedSplit ==
  ASSUME NEW p \in [Replicas -> LoopPcs], NEW a \in [Replicas -> 0..Concurrency],
         NEW r \in Replicas
  PROVE  /\ Cardinality(Unsubmitted(p, a)) \in Nat
         /\ Cardinality(UnsubmittedElsewhere(p, a, r)) \in Nat
         /\ UnsubmittedOf(p, a, r) \in Nat
         /\ Cardinality(Unsubmitted(p, a))
              = Cardinality(UnsubmittedElsewhere(p, a, r)) + UnsubmittedOf(p, a, r)
<1> DEFINE k      == UnsubmittedOf(p, a, r)
           others == UnsubmittedElsewhere(p, a, r)
           mine   == {r} \X (1..k)
<1>1. k \in 0..Concurrency /\ Concurrency \in Nat
  BY PoolAssumption DEF UnsubmittedOf
<1>2. IsFiniteSet(Unsubmitted(p, a))
  <2>1. IsFiniteSet(1..Concurrency)
    BY <1>1, FS_Interval
  <2>2. IsFiniteSet(Replicas \X (1..Concurrency))
    BY <2>1, PoolAssumption, FS_Product
  <2> QED
    BY <2>2, FS_Subset DEF Unsubmitted
<1>3. IsFiniteSet(others)
  BY <1>2, FS_Subset DEF UnsubmittedElsewhere
<1>4. IsFiniteSet(mine) /\ Cardinality(mine) = k
  <2>1. IsFiniteSet(1..k) /\ Cardinality(1..k) = k
    BY <1>1, FS_Interval
  <2>2. IsFiniteSet({r}) /\ Cardinality({r}) = 1
    BY FS_Singleton
  <2> QED
    BY <1>1, <2>1, <2>2, FS_Product
<1>5. Unsubmitted(p, a) = others \cup mine /\ others \cap mine = {}
  BY <1>1 DEF Unsubmitted, UnsubmittedOf, UnsubmittedElsewhere
<1>7. Cardinality(others \cap mine) = 0
  BY <1>5, FS_EmptySet
<1>8. Cardinality(others) \in Nat /\ Cardinality(Unsubmitted(p, a)) \in Nat
  BY <1>2, <1>3, FS_CardinalityType
<1> HIDE DEF mine, others, k
<1>9. Cardinality(others \cup mine) = Cardinality(others) + k
  <2>1. Cardinality(others \cup mine)
          = Cardinality(others) + Cardinality(mine) - Cardinality(others \cap mine)
    BY <1>3, <1>4, FS_Union
  <2> QED
    BY <1>1, <1>4, <1>7, <1>8, <2>1
<1> QED
  BY <1>1, <1>5, <1>8, <1>9 DEF others, k

\* A step of replica r changes the number of reserved slots by what it changes of its own.
LEMMA UnsubmittedChange ==
  ASSUME NEW p \in [Replicas -> LoopPcs], NEW a \in [Replicas -> 0..Concurrency],
         NEW q \in [Replicas -> LoopPcs], NEW b \in [Replicas -> 0..Concurrency],
         NEW r \in Replicas, \A x \in Replicas \ {r} : q[x] = p[x] /\ b[x] = a[x]
  PROVE  Cardinality(Unsubmitted(q, b)) + UnsubmittedOf(p, a, r)
           = Cardinality(Unsubmitted(p, a)) + UnsubmittedOf(q, b, r)
<1>1. UnsubmittedElsewhere(q, b, r) = UnsubmittedElsewhere(p, a, r)
  BY DEF Unsubmitted, UnsubmittedElsewhere
<1> QED
  BY <1>1, UnsubmittedSplit

\* The futures the replicas know of.
Known(pe, ba) == UNION {pe[r] \cup ba[r] : r \in Replicas}

\* There are finitely many.
LEMMA KnownFinite ==
  ASSUME NEW pe \in [Replicas -> SUBSET Sandboxes], NEW ba \in [Replicas -> SUBSET Sandboxes]
  PROVE  IsFiniteSet(Known(pe, ba)) /\ Cardinality(Known(pe, ba)) \in Nat
<1>1. Known(pe, ba) \subseteq Sandboxes
  BY DEF Known
<1> QED
  BY <1>1, PoolAssumption, FS_Subset, FS_CardinalityType

\* Forgetting some futures lowers their number by at most as many.
LEMMA KnownLoses ==
  ASSUME NEW pe \in [Replicas -> SUBSET Sandboxes], NEW ba \in [Replicas -> SUBSET Sandboxes],
         NEW qe \in [Replicas -> SUBSET Sandboxes], NEW qa \in [Replicas -> SUBSET Sandboxes],
         NEW S \in SUBSET Sandboxes, Known(pe, ba) \ S \subseteq Known(qe, qa)
  PROVE  Cardinality(Known(pe, ba)) <= Cardinality(Known(qe, qa)) + Cardinality(S)
<1> DEFINE K == Known(pe, ba)
<1>1. /\ IsFiniteSet(K) /\ Cardinality(K) \in Nat
      /\ IsFiniteSet(Known(qe, qa)) /\ Cardinality(Known(qe, qa)) \in Nat
  BY KnownFinite
<1>2. IsFiniteSet(S) /\ Cardinality(S) \in Nat
  BY PoolAssumption, FS_Subset, FS_CardinalityType
<1> HIDE DEF K
<1>3. /\ IsFiniteSet(K \ S) /\ Cardinality(K \ S) \in Nat
      /\ Cardinality(K \ S) = Cardinality(K) - Cardinality(K \cap S)
  BY <1>1, FS_Difference, FS_CardinalityType
<1>4. Cardinality(K \cap S) <= Cardinality(S) /\ Cardinality(K \cap S) \in Nat
  BY <1>2, FS_Intersection, FS_CardinalityType
<1>5. Cardinality(K \ S) <= Cardinality(Known(qe, qa))
  BY <1>1, FS_Subset DEF K
<1>6. Cardinality(K) <= Cardinality(Known(qe, qa)) + Cardinality(S)
  BY <1>1, <1>2, <1>3, <1>4, <1>5
<1> QED
  BY <1>6 DEF K

\* The completed futures of a round are worked off before the loop goes on.
BatchInDrain == \A r \in Replicas : pc[r] # "drain" => batch[r] = {}

SlotsOwned ==
  inflight <= leaked + Cardinality(Known(pend, batch)) + Cardinality(Unsubmitted(pc, slots))

SlotInv == BatchInDrain /\ SlotsOwned

\* It is the property, by another name for its two sets.
LEMMA SlotsOwnedIsIt == SlotsOwned <=> NoPhantomReservations
BY DEF SlotsOwned, NoPhantomReservations, Known, Unsubmitted, Futures, ReservedUnsubmitted

\* What the lemmas below need of the types.
LEMMA SlotTypes ==
  ASSUME TypeOK
  PROVE  /\ pc \in [Replicas -> LoopPcs] /\ slots \in [Replicas -> 0..Concurrency]
         /\ pend \in [Replicas -> SUBSET Sandboxes] /\ batch \in [Replicas -> SUBSET Sandboxes]
         /\ inflight \in Nat /\ leaked \in Nat
         /\ Cardinality(Known(pend, batch)) \in Nat
         /\ Cardinality(Unsubmitted(pc, slots)) \in Nat
<1>1. /\ pc \in [Replicas -> LoopPcs] /\ slots \in [Replicas -> 0..Concurrency]
      /\ pend \in [Replicas -> SUBSET Sandboxes] /\ batch \in [Replicas -> SUBSET Sandboxes]
      /\ inflight \in Nat /\ leaked \in Nat /\ leader \in Replicas
  BY PoolAssumption DEF TypeOK
<1> QED
  BY <1>1, KnownFinite, UnsubmittedSplit

\* A step that moves none of the counted things keeps them in balance.
LEMMA BalanceKept ==
  ASSUME TypeOK, SlotInv, inflight' = inflight, leaked' = leaked,
         pend' = pend, batch' = batch, pc' = pc, slots' = slots
  PROVE  SlotInv'
BY DEF SlotInv, BatchInDrain, SlotsOwned

\* A step of a loop that neither comes to nor leaves the submitting of its slots.
LEMMA LoopKept ==
  ASSUME TypeOK, TypeOK', SlotInv, NEW r \in Replicas,
         inflight' <= inflight, leaked' = leaked, Known(pend', batch') = Known(pend, batch),
         \A x \in Replicas \ {r} : pc'[x] = pc[x] /\ slots'[x] = slots[x] /\ batch'[x] = batch[x],
         UnsubmittedOf(pc', slots', r) = UnsubmittedOf(pc, slots, r),
         pc'[r] # "drain" => batch'[r] = {}
  PROVE  SlotInv'
<1>1. /\ pc' \in [Replicas -> LoopPcs] /\ slots' \in [Replicas -> 0..Concurrency]
      /\ inflight' \in Nat
  BY PoolAssumption DEF TypeOK
<1>2. /\ UnsubmittedOf(pc, slots, r) \in Nat
      /\ Cardinality(Unsubmitted(pc', slots')) \in Nat
      /\ Cardinality(Unsubmitted(pc, slots)) \in Nat
  BY <1>1, SlotTypes, UnsubmittedSplit
<1>3. Cardinality(Unsubmitted(pc', slots')) = Cardinality(Unsubmitted(pc, slots))
  BY <1>1, <1>2, SlotTypes, UnsubmittedChange
<1>4. SlotsOwned'
  BY <1>1, <1>3, SlotTypes DEF SlotInv, SlotsOwned
<1>5. BatchInDrain'
  BY DEF SlotInv, BatchInDrain
<1> QED
  BY <1>4, <1>5 DEF SlotInv

\* Taking the finished futures out moves them, it does not lose them; the stages of a
\* round between two drains leave futures and slots alone, or drop stale slots.
LEMMA RoundBalance ==
  ASSUME TypeOK, TypeOK', SlotInv, NEW r \in Replicas,
         \/ StartRound(r) \/ ListInventory(r) \/ CountReady(r) \/ ListExcess(r) \/ TrimDone(r)
  PROVE  SlotInv'
<1>0. /\ pc \in [Replicas -> LoopPcs] /\ slots \in [Replicas -> 0..Concurrency]
      /\ pend \in [Replicas -> SUBSET Sandboxes] /\ batch \in [Replicas -> SUBSET Sandboxes]
      /\ inflight \in Nat
  BY SlotTypes
<1>1. CASE StartRound(r)
  <2> DEFINE finished == {s \in pend[r] : job[s] \in {"done", "failed"}}
  <2>1. /\ batch' = [batch EXCEPT ![r] = finished]
        /\ pend' = [pend EXCEPT ![r] = @ \ finished]
        /\ pc' = [pc EXCEPT ![r] = "drain"] /\ slots' = slots
        /\ inflight' = inflight /\ leaked' = leaked
        /\ pc[r] = "idle" \/ (pc[r] = "submit" /\ slots[r] = 0)
    BY <1>1 DEF StartRound, Goto, segVars
  <2>2. batch[r] = {}
    BY <2>1 DEF SlotInv, BatchInDrain
  <2>3. \A x \in Replicas : pend'[x] \cup batch'[x] = pend[x] \cup batch[x]
    BY <1>0, <2>1, <2>2
  <2>4. Known(pend', batch') = Known(pend, batch)
    BY <2>3 DEF Known
  <2>5. UnsubmittedOf(pc', slots', r) = UnsubmittedOf(pc, slots, r)
    BY <1>0, <2>1 DEF UnsubmittedOf
  <2> QED
    <3>1. \A x \in Replicas \ {r} :
            pc'[x] = pc[x] /\ slots'[x] = slots[x] /\ batch'[x] = batch[x]
      BY <1>0, <2>1
    <3>2. pc'[r] = "drain" /\ inflight' <= inflight
      BY <1>0, <2>1
    <3> QED
      BY <2>1, <2>4, <2>5, <3>1, <3>2, LoopKept
<1>2. CASE ListInventory(r) \/ CountReady(r) \/ ListExcess(r) \/ TrimDone(r)
  <2>1. /\ \E where \in LoopPcs \ {"submit", "drain"} : pc' = [pc EXCEPT ![r] = where]
        /\ slots' = slots /\ pend' = pend /\ batch' = batch
        /\ inflight' = inflight /\ leaked' = leaked
        /\ pc[r] # "submit" /\ batch[r] = {}
    BY <1>2 DEF ListInventory, CountReady, ListExcess, TrimDone, Goto, segVars, LoopPcs,
                SlotInv, BatchInDrain
  <2>2. UnsubmittedOf(pc', slots', r) = UnsubmittedOf(pc, slots, r)
    BY <1>0, <2>1 DEF UnsubmittedOf
  <2> QED
    <3>1. \A x \in Replicas \ {r} :
            pc'[x] = pc[x] /\ slots'[x] = slots[x] /\ batch'[x] = batch[x]
      BY <1>0, <2>1
    <3>2. batch'[r] = {} /\ inflight' <= inflight
      BY <1>0, <2>1
    <3>3. Known(pend', batch') = Known(pend, batch)
      BY <2>1
    <3> QED
      BY <2>1, <2>2, <3>1, <3>2, <3>3, LoopKept
<1> QED
  BY <1>1, <1>2

\* The reset drops every slot and every forgotten one with them.
LEMMA ResetBalance ==
  ASSUME TypeOK, TypeOK', SlotInv, NEW r \in Replicas, ResetStale(r)
  PROVE  SlotInv'
<1>0. /\ pc \in [Replicas -> LoopPcs] /\ slots \in [Replicas -> 0..Concurrency]
      /\ pend' = pend /\ batch' = batch
      /\ \E where \in {"idle", "reserve"} : pc' = [pc EXCEPT ![r] = where]
      /\ pc[r] = "reset" /\ batch[r] = {}
      /\ \A x \in Replicas \ {r} : slots'[x] = slots[x]
  BY SlotTypes DEF ResetStale, Goto, SlotInv, BatchInDrain
<1>1. CASE inflight' = inflight /\ leaked' = leaked
  <2>1. UnsubmittedOf(pc', slots', r) = UnsubmittedOf(pc, slots, r)
    BY <1>0 DEF UnsubmittedOf
  <2>2. inflight \in Nat
    BY SlotTypes
  <2> QED
    <3>1. \A x \in Replicas \ {r} :
            pc'[x] = pc[x] /\ slots'[x] = slots[x] /\ batch'[x] = batch[x]
      BY <1>0
    <3>2. batch'[r] = {} /\ inflight' <= inflight
      BY <1>0, <1>1, <2>2
    <3>3. Known(pend', batch') = Known(pend, batch)
      BY <1>0
    <3> QED
      BY <1>1, <2>1, <3>1, <3>2, <3>3, LoopKept
<1>2. CASE inflight' = 0 /\ leaked' = 0
  <2>1. /\ pc' \in [Replicas -> LoopPcs] /\ slots' \in [Replicas -> 0..Concurrency]
        /\ Cardinality(Known(pend, batch)) \in Nat
    BY SlotTypes DEF TypeOK
  <2>2. Cardinality(Unsubmitted(pc', slots')) \in Nat
    BY <2>1, UnsubmittedSplit
  <2>3. SlotsOwned'
    BY <1>0, <1>2, <2>1, <2>2 DEF SlotsOwned
  <2>4. BatchInDrain'
    BY <1>0 DEF SlotInv, BatchInDrain
  <2> QED
    BY <2>3, <2>4 DEF SlotInv
<1> QED
  BY <1>1, <1>2 DEF ResetStale, ResetInflight, segVars

\* What a reserve adds to the counter it adds to the replica's local slots.
LEMMA ReserveBalance ==
  ASSUME TypeOK, TypeOK', SlotInv, NEW r \in Replicas, Reserve(r)
  PROVE  SlotInv'
<1> DEFINE useful  == MaxOf(0, Desired - ready[r])
           clamped == MinOf(inflight, useful)
           n       == Reservable(r, clamped)
<1>1. /\ inflight' = clamped + n /\ leaked' = leaked
      /\ slots' = [slots EXCEPT ![r] = n]
      /\ pc' = [pc EXCEPT ![r] = IF n = 0 THEN "idle" ELSE "submit"]
      /\ pc[r] = "reserve" /\ pend' = pend /\ batch' = batch
  BY DEF Reserve, Goto
<1>2. /\ pc \in [Replicas -> LoopPcs] /\ slots \in [Replicas -> 0..Concurrency]
      /\ pc' \in [Replicas -> LoopPcs] /\ slots' \in [Replicas -> 0..Concurrency]
      /\ inflight \in Nat /\ leaked \in Nat /\ ready[r] \in Nat /\ Desired \in Nat
      /\ Cardinality(Known(pend, batch)) \in Nat
  BY SlotTypes, PoolAssumption DEF TypeOK
<1>3. clamped \in Int /\ clamped <= inflight /\ n \in Nat
  <2>1. useful \in Nat
    BY <1>2 DEF MaxOf
  <2>2. clamped \in Int /\ clamped <= inflight
    BY <1>2, <2>1 DEF MinOf
  <2>3. n \in Nat
    BY <1>1, <1>2
  <2> QED
    BY <2>2, <2>3
<1> HIDE DEF n, clamped
<1>4. UnsubmittedOf(pc, slots, r) = 0 /\ UnsubmittedOf(pc', slots', r) = n
  BY <1>1, <1>2, <1>3 DEF UnsubmittedOf
<1>5. /\ Cardinality(Unsubmitted(pc', slots')) \in Nat /\ Cardinality(Unsubmitted(pc, slots)) \in Nat
      /\ Cardinality(Unsubmitted(pc', slots')) = Cardinality(Unsubmitted(pc, slots)) + n
  <2>1. \A x \in Replicas \ {r} : pc'[x] = pc[x] /\ slots'[x] = slots[x]
    BY <1>1, <1>2
  <2> QED
    BY <1>2, <1>3, <1>4, <2>1, UnsubmittedSplit, UnsubmittedChange
<1>6. SlotsOwned'
  BY <1>1, <1>2, <1>3, <1>5 DEF SlotInv, SlotsOwned
<1>7. BatchInDrain'
  BY <1>1, <1>2 DEF SlotInv, BatchInDrain
<1> QED
  BY <1>6, <1>7 DEF SlotInv

\* A completed future gives back the slot that it held.
LEMMA CompleteBalance ==
  ASSUME TypeOK, TypeOK', SlotInv, NEW r \in Replicas, NEW s \in Sandboxes, CompleteOne(r, s)
  PROVE  SlotInv'
<1>1. /\ inflight' = MaxOf(0, inflight - 1) /\ leaked' = leaked
      /\ batch' = [batch EXCEPT ![r] = @ \ {s}] /\ pend' = pend
      /\ pc' = pc /\ slots' = slots /\ pc[r] = "drain" /\ s \in batch[r]
  BY DEF CompleteOne, CompleteSlots
<1>2. /\ pend \in [Replicas -> SUBSET Sandboxes] /\ batch \in [Replicas -> SUBSET Sandboxes]
      /\ batch' \in [Replicas -> SUBSET Sandboxes]
      /\ inflight \in Nat /\ leaked \in Nat
      /\ Cardinality(Known(pend, batch)) \in Nat
      /\ Cardinality(Unsubmitted(pc, slots)) \in Nat
  BY SlotTypes DEF TypeOK
<1>3. Known(pend, batch) \ {s} \subseteq Known(pend, batch')
  <2>1. \A x \in Replicas : (pend[x] \cup batch[x]) \ {s} \subseteq pend[x] \cup batch'[x]
    BY <1>1, <1>2
  <2> QED
    BY <2>1 DEF Known
<1>4. Cardinality({s}) = 1
  BY FS_Singleton
<1>5. /\ Cardinality(Known(pend, batch)) <= Cardinality(Known(pend, batch')) + 1
      /\ Cardinality(Known(pend, batch')) \in Nat
  BY <1>2, <1>3, <1>4, KnownLoses, KnownFinite
<1>6. SlotsOwned'
  BY <1>1, <1>2, <1>5 DEF SlotInv, SlotsOwned, MaxOf
<1>7. BatchInDrain'
  BY <1>1, <1>2 DEF SlotInv, BatchInDrain
<1> QED
  BY <1>6, <1>7 DEF SlotInv

\* Submitting turns a reserved slot into a future; a sandbox that is submitted was not
\* known before.
LEMMA SubmitBalance ==
  ASSUME TypeOK, TypeOK', SlotInv, NEW r \in Replicas, NEW s \in Sandboxes, Submit(r, s)
  PROVE  SlotInv'
<1>1. /\ inflight' = inflight /\ leaked' = leaked /\ batch' = batch
      /\ pend' = [pend EXCEPT ![r] = @ \cup {s}] /\ pc' = pc
      /\ slots' = [slots EXCEPT ![r] = @ - 1] /\ pc[r] = "submit" /\ slots[r] > 0
      /\ \A x \in Replicas : s \notin pend[x] \cup batch[x]
  BY DEF Submit, Unused, segVars
<1>2. /\ pc \in [Replicas -> LoopPcs] /\ slots \in [Replicas -> 0..Concurrency]
      /\ slots' \in [Replicas -> 0..Concurrency] /\ slots[r] \in Nat
      /\ pend \in [Replicas -> SUBSET Sandboxes] /\ batch \in [Replicas -> SUBSET Sandboxes]
      /\ pend' \in [Replicas -> SUBSET Sandboxes]
      /\ inflight \in Nat /\ leaked \in Nat
      /\ Cardinality(Known(pend, batch)) \in Nat
  BY SlotTypes DEF TypeOK
<1>3. s \notin Known(pend, batch) /\ Known(pend', batch) = Known(pend, batch) \cup {s}
  BY <1>1, <1>2 DEF Known
<1>4. Cardinality(Known(pend', batch)) = Cardinality(Known(pend, batch)) + 1
  BY <1>2, <1>3, KnownFinite, FS_AddElement
<1>5. UnsubmittedOf(pc, slots, r) = UnsubmittedOf(pc, slots', r) + 1
  BY <1>1, <1>2 DEF UnsubmittedOf
<1>6. /\ Cardinality(Unsubmitted(pc, slots')) \in Nat /\ Cardinality(Unsubmitted(pc, slots)) \in Nat
      /\ Cardinality(Unsubmitted(pc, slots)) = Cardinality(Unsubmitted(pc, slots')) + 1
  <2>1. \A x \in Replicas \ {r} : slots'[x] = slots[x]
    BY <1>1, <1>2
  <2>2. Cardinality(Unsubmitted(pc, slots')) + UnsubmittedOf(pc, slots, r)
          = Cardinality(Unsubmitted(pc, slots)) + UnsubmittedOf(pc, slots', r)
    BY <1>2, <2>1, UnsubmittedChange
  <2>3. /\ Cardinality(Unsubmitted(pc, slots')) \in Nat
        /\ Cardinality(Unsubmitted(pc, slots)) \in Nat
        /\ UnsubmittedOf(pc, slots', r) \in Nat
    BY <1>2, UnsubmittedSplit
  <2> QED
    BY <1>5, <2>2, <2>3
<1>7. SlotsOwned'
  BY <1>1, <1>2, <1>4, <1>6 DEF SlotInv, SlotsOwned
<1>8. BatchInDrain'
  BY <1>1 DEF SlotInv, BatchInDrain
<1> QED
  BY <1>7, <1>8 DEF SlotInv

\* Slots that are not submitted are released, or forgotten by a raise and counted so.
LEMMA LeaveBalance ==
  ASSUME TypeOK, TypeOK', SlotInv, NEW r \in Replicas, ReleaseUnsubmitted(r) \/ TargetRaises(r)
  PROVE  SlotInv'
<1>1. /\ \/ inflight' = MaxOf(0, inflight - slots[r]) /\ leaked' = leaked
         \/ inflight' = inflight /\ leaked' = leaked + slots[r]
      /\ pend' = pend /\ batch' = batch /\ pc[r] = "submit"
      /\ slots' = [slots EXCEPT ![r] = 0] /\ pc' = [pc EXCEPT ![r] = "idle"]
  BY DEF ReleaseUnsubmitted, TargetRaises, CompleteSlots, Goto
<1>2. /\ pc \in [Replicas -> LoopPcs] /\ slots \in [Replicas -> 0..Concurrency]
      /\ pc' \in [Replicas -> LoopPcs] /\ slots' \in [Replicas -> 0..Concurrency]
      /\ inflight \in Nat /\ leaked \in Nat /\ slots[r] \in Nat
      /\ Cardinality(Known(pend, batch)) \in Nat
  BY SlotTypes DEF TypeOK
<1>3. UnsubmittedOf(pc, slots, r) = slots[r] /\ UnsubmittedOf(pc', slots', r) = 0
  BY <1>1, <1>2 DEF UnsubmittedOf
<1>4. /\ Cardinality(Unsubmitted(pc', slots')) \in Nat /\ Cardinality(Unsubmitted(pc, slots)) \in Nat
      /\ Cardinality(Unsubmitted(pc, slots)) = Cardinality(Unsubmitted(pc', slots')) + slots[r]
  <2>1. \A x \in Replicas \ {r} : pc'[x] = pc[x] /\ slots'[x] = slots[x]
    BY <1>1, <1>2
  <2> QED
    BY <1>2, <1>3, <2>1, UnsubmittedSplit, UnsubmittedChange, SMTT(30)
<1>5. SlotsOwned'
  BY <1>1, <1>2, <1>4 DEF SlotInv, SlotsOwned, MaxOf
<1>6. BatchInDrain'
  BY <1>1, <1>2 DEF SlotInv, BatchInDrain
<1> QED
  BY <1>5, <1>6 DEF SlotInv

\* What a crash forgets is counted as forgotten.
LEMMA CrashBalance ==
  ASSUME TypeOK, TypeOK', SlotInv, NEW r \in Replicas, Crash(r)
  PROVE  SlotInv'
<1> DEFINE own == pend[r] \cup batch[r]
<1>1. /\ inflight' = inflight /\ leaked' = leaked + Owed(r)
      /\ pend' = [pend EXCEPT ![r] = {}] /\ batch' = [batch EXCEPT ![r] = {}]
      /\ slots' = [slots EXCEPT ![r] = 0] /\ pc' = [pc EXCEPT ![r] = "idle"]
  BY DEF Crash
<1>2. /\ pc \in [Replicas -> LoopPcs] /\ slots \in [Replicas -> 0..Concurrency]
      /\ pc' \in [Replicas -> LoopPcs] /\ slots' \in [Replicas -> 0..Concurrency]
      /\ pend \in [Replicas -> SUBSET Sandboxes] /\ batch \in [Replicas -> SUBSET Sandboxes]
      /\ pend' \in [Replicas -> SUBSET Sandboxes] /\ batch' \in [Replicas -> SUBSET Sandboxes]
      /\ inflight \in Nat /\ leaked \in Nat
      /\ Cardinality(Known(pend, batch)) \in Nat
  BY SlotTypes DEF TypeOK
<1>3. own \in SUBSET Sandboxes /\ Cardinality(own) \in Nat
  <2>1. own \in SUBSET Sandboxes
    BY <1>2
  <2> QED
    BY <2>1, PoolAssumption, FS_Subset, FS_CardinalityType
<1>4. Owed(r) = Cardinality(own) + UnsubmittedOf(pc, slots, r)
  BY DEF Owed, UnsubmittedOf
<1> HIDE DEF own
<1>5. Known(pend, batch) \ own \subseteq Known(pend', batch')
  <2>1. \A x \in Replicas : (pend[x] \cup batch[x]) \ own \subseteq pend'[x] \cup batch'[x]
    BY <1>1, <1>2 DEF own
  <2> QED
    BY <2>1 DEF Known
<1>6. /\ Cardinality(Known(pend, batch)) <= Cardinality(Known(pend', batch')) + Cardinality(own)
      /\ Cardinality(Known(pend', batch')) \in Nat
  BY <1>2, <1>3, <1>5, KnownLoses, KnownFinite
<1>7. UnsubmittedOf(pc', slots', r) = 0
  BY <1>1, <1>2 DEF UnsubmittedOf
<1>8. /\ Cardinality(Unsubmitted(pc', slots')) \in Nat /\ Cardinality(Unsubmitted(pc, slots)) \in Nat
      /\ UnsubmittedOf(pc, slots, r) \in Nat
      /\ Cardinality(Unsubmitted(pc, slots))
           = Cardinality(Unsubmitted(pc', slots')) + UnsubmittedOf(pc, slots, r)
  <2>1. \A x \in Replicas \ {r} : pc'[x] = pc[x] /\ slots'[x] = slots[x]
    BY <1>1, <1>2
  <2> QED
    <3>1. Cardinality(Unsubmitted(pc', slots')) + UnsubmittedOf(pc, slots, r)
            = Cardinality(Unsubmitted(pc, slots)) + UnsubmittedOf(pc', slots', r)
      BY <1>2, <2>1, UnsubmittedChange
    <3>2. /\ Cardinality(Unsubmitted(pc', slots')) \in Nat
          /\ Cardinality(Unsubmitted(pc, slots)) \in Nat
          /\ UnsubmittedOf(pc, slots, r) \in Nat
      BY <1>2, UnsubmittedSplit
    <3> QED
      BY <1>7, <3>1, <3>2
<1>9. SlotsOwned'
  BY <1>1, <1>2, <1>3, <1>4, <1>6, <1>8 DEF SlotInv, SlotsOwned
<1>10. BatchInDrain'
  BY <1>1, <1>2 DEF SlotInv, BatchInDrain
<1> QED
  BY <1>9, <1>10 DEF SlotInv

\* SlotInv is inductive, given the types.
LEMMA SlotStep ==
  ASSUME TypeOK, TypeOK', SlotInv, [Next]_vars
  PROVE  SlotInv'
<1>1. ASSUME NEW r \in Replicas, TopUp(r) \/ TargetRaises(r) \/ Crash(r)
      PROVE  SlotInv'
  <2>1. ASSUME NEW s \in Sandboxes, InspectRow(r, s) \/ TrimOne(r, s)
        PROVE  SlotInv'
    BY <2>1, BalanceKept DEF InspectRow, TrimOne, segVars
  <2> QED
    BY <1>1, <2>1, RoundBalance, ResetBalance, ReserveBalance, CompleteBalance, SubmitBalance,
       LeaveBalance, CrashBalance DEF TopUp
<1>2. ASSUME NEW s \in Sandboxes,
             \/ Provision(s) \/ CreateFails(s)
             \/ ListForReconcile(s) \/ ListForReap(s) \/ Purge(s) \/ ContainerDies(s)
      PROVE  SlotInv'
  BY <1>2, BalanceKept
     DEF Provision, CreateContainer, CreateFails, InsertRow, BootOk, BootFails, jobFrame,
         ListForReconcile, ListForReap, Purge, ContainerDies, maintFrame, segVars, loopVars
<1>3. ASSUME NEW c \in Clients, ListForClaim(c) \/ Claim(c) \/ ClientKills(c)
      PROVE  SlotInv'
  BY <1>3, BalanceKept DEF ListForClaim, Claim, ClientKills, clientFrame, segVars, loopVars
<1>4. CASE \/ Reconcile \/ ReconcileUnknown \/ Reap
           \/ DiscoveryLost \/ DiscoveryBack \/ LeaderChanges \/ SlotsAge
  BY <1>4, BalanceKept
     DEF Reconcile, ReconcileUnknown, Reap, DiscoveryLost, DiscoveryBack, LeaderChanges,
         SlotsAge, maintFrame, segVars, loopVars
<1>5. CASE UNCHANGED vars
  BY <1>5, BalanceKept DEF vars, segVars, loopVars
<1> QED
  BY <1>1, <1>2, <1>3, <1>4, <1>5 DEF Next

\* Every slot the counter says is in flight is one that a replica will give back or one
\* that was forgotten since the last stale reset: no interleaving of reserve, submit,
\* release, complete and reset, and no crash, leaves a slot that blocks the refill
\* although nothing is being provisioned and nothing was lost.
THEOREM SlotsHaveOwners == Spec => []NoPhantomReservations
<1>1. ASSUME Init PROVE SlotInv
  <2>1. BatchInDrain
    BY <1>1 DEF Init, BatchInDrain
  <2>2. /\ pc \in [Replicas -> LoopPcs] /\ slots \in [Replicas -> 0..Concurrency]
        /\ pend \in [Replicas -> SUBSET Sandboxes] /\ batch \in [Replicas -> SUBSET Sandboxes]
        /\ inflight = 0 /\ leaked = 0 /\ leader \in Replicas
    BY <1>1, PoolAssumption DEF Init, LoopPcs
  <2>3. Cardinality(Known(pend, batch)) \in Nat /\ Cardinality(Unsubmitted(pc, slots)) \in Nat
    BY <2>2, KnownFinite, UnsubmittedSplit
  <2> QED
    BY <2>1, <2>2, <2>3 DEF SlotInv, SlotsOwned
<1>2. SlotInv => NoPhantomReservations
  BY SlotsOwnedIsIt DEF SlotInv
<1> QED
  BY <1>1, <1>2, SlotStep, TypeInvariance, PTL DEF Spec

-----------------------------------------------------------------------------
(* How far the pool can overshoot                                          *)

\* Rows that are in the pool whatever their state column says, and that a reconcile may
\* still find running; executor threads at work; both together; and the rows whose
\* executor is gone before they were running.
Pooled(db) == {s \in Sandboxes : db[s].warm /\ ~db[s].err /\ Exists(db, s)}
Busy(jb) == {s \in Sandboxes : jb[s] \in {"queued", "created", "boot"}}
Potential(db, jb) == Pooled(db) \cup Busy(jb)
Stranded(db, jb) == {s \in Pooled(db) : db[s].state # "running"} \ Busy(jb)

\* With one executor slot: who is at work is in the futures the loop still knows, and
\* there is at most one of those, the slot it is about to submit included.
FuturesInv(r) ==
  /\ Busy(job) \subseteq pend[r]
  /\ Busy(job) \cap batch[r] = {}
  /\ Cardinality(pend[r]) <= 1
  /\ pc[r] \in {"reserve", "submit"} => Cardinality(pend[r]) + slots[r] <= 1

\* Only faults strand rows; from the count of ready rows to the reservation, what may
\* become a ready row is a counted row, a stranded one or a known future; and all of it,
\* with the slots that are about to be submitted, stays near the target.
SizeInv(r) ==
  /\ Cardinality(Stranded(rows, job)) <= events
  /\ pc[r] \in {"reset", "reserve"} =>
       Cardinality(Potential(rows, job)) <= ready[r] + events + Cardinality(pend[r])
  /\ Cardinality(Potential(rows, job)) + UnsubmittedOf(pc, slots, r) <= Desired + events

\* Sets of sandboxes have sizes, and a subset is no larger.
LEMMA Sizes ==
  ASSUME NEW T \in SUBSET Sandboxes, NEW S \in SUBSET T
  PROVE  /\ IsFiniteSet(S) /\ IsFiniteSet(T)
         /\ Cardinality(S) \in Nat /\ Cardinality(T) \in Nat
         /\ Cardinality(S) <= Cardinality(T)
<1>1. IsFiniteSet(T)
  BY PoolAssumption, FS_Subset
<1> QED
  BY <1>1, FS_Subset, FS_CardinalityType

\* So have the union of two.
LEMMA UnionSize ==
  ASSUME NEW S \in SUBSET Sandboxes, NEW T \in SUBSET Sandboxes
  PROVE  /\ S \cup T \in SUBSET Sandboxes
         /\ Cardinality(S \cup T) <= Cardinality(S) + Cardinality(T)
<1>1. /\ IsFiniteSet(S) /\ IsFiniteSet(T) /\ Cardinality(S) \in Nat /\ Cardinality(T) \in Nat
      /\ Cardinality(S \cap T) \in Nat
  BY Sizes
<1>2. Cardinality(S \cup T) = Cardinality(S) + Cardinality(T) - Cardinality(S \cap T)
  BY <1>1, FS_Union
<1> QED
  BY <1>1, <1>2

\* The sets above are sets of sandboxes.
LEMMA PotentialTypes ==
  ASSUME NEW db, NEW jb
  PROVE  /\ Pooled(db) \in SUBSET Sandboxes
         /\ Busy(jb) \in SUBSET Sandboxes
         /\ Potential(db, jb) \in SUBSET Sandboxes
         /\ Stranded(db, jb) \in SUBSET Sandboxes
BY DEF Pooled, Busy, Potential, Stranded

\* What the size argument needs of the variables' types.
LEMMA SizeTypes ==
  ASSUME TypeOK, NEW r \in Replicas
  PROVE  /\ rows \in [Sandboxes -> Row] /\ job \in [Sandboxes -> JobStates]
         /\ pc \in [Replicas -> LoopPcs] /\ slots \in [Replicas -> 0..Concurrency]
         /\ pend \in [Replicas -> SUBSET Sandboxes] /\ batch \in [Replicas -> SUBSET Sandboxes]
         /\ ready \in [Replicas -> Nat]
         /\ events \in Nat /\ ready[r] \in Nat /\ slots[r] \in Nat /\ Desired \in Nat
         /\ Cardinality(pend[r]) \in Nat
         /\ Cardinality(Potential(rows, job)) \in Nat /\ Cardinality(Stranded(rows, job)) \in Nat
         /\ UnsubmittedOf(pc, slots, r) \in Nat
<1>1. pend[r] \in SUBSET Sandboxes
  BY DEF TypeOK
<1>2. Cardinality(pend[r]) \in Nat
  BY <1>1, Sizes
<1>3. Cardinality(Potential(rows, job)) \in Nat /\ Cardinality(Stranded(rows, job)) \in Nat
  BY PotentialTypes, Sizes
<1>4. events \in Nat /\ slots[r] \in Nat
  BY PoolAssumption DEF TypeOK
<1> QED
  BY <1>2, <1>3, <1>4, PoolAssumption DEF TypeOK, UnsubmittedOf

\* No row enters the pool, and none stops running in it.
Drains(db, new) ==
  \A s \in Pooled(new) :
    s \in Pooled(db) /\ (new[s].state # "running" => db[s].state # "running")

\* DELETE does that.
LEMMA DeleteDrains ==
  ASSUME NEW db \in [Sandboxes -> Row], NEW s \in Sandboxes
  PROVE  Drains(db, DeleteRow(db, s)) /\ s \notin Pooled(DeleteRow(db, s))
BY DEF Drains, Pooled, DeleteRow, Exists, Absent

\* So does the update of the state column to running.
LEMMA RunningDrains ==
  ASSUME NEW db \in [Sandboxes -> Row], NEW s \in Sandboxes
  PROVE  /\ Drains(db, UpdateState(db, s, "running"))
         /\ s \in Pooled(UpdateState(db, s, "running"))
              => UpdateState(db, s, "running")[s].state = "running"
<1>1. CASE Exists(db, s)
  <2>1. UpdateState(db, s, "running") = [db EXCEPT ![s] = [db[s] EXCEPT !.state = "running"]]
    BY <1>1 DEF UpdateState
  <2>2. \A x \in Sandboxes \ {s} : UpdateState(db, s, "running")[x] = db[x]
    BY <2>1
  <2>3. /\ UpdateState(db, s, "running")[s].state = "running"
        /\ UpdateState(db, s, "running")[s].warm = db[s].warm
        /\ UpdateState(db, s, "running")[s].err = db[s].err
    BY <2>1 DEF Row
  <2> QED
    BY <1>1, <2>2, <2>3 DEF Drains, Pooled, Exists
<1>2. CASE ~Exists(db, s)
  BY <1>2 DEF UpdateState, Drains, Pooled
<1> QED
  BY <1>1, <1>2

\* A lost row has its runtime_error for good.
LEMMA MarkLostDrains ==
  ASSUME NEW db \in [Sandboxes -> Row], NEW S
  PROVE  Drains(db, MarkLost(db, S))
<1>1. ASSUME NEW s \in Sandboxes
      PROVE  \/ MarkLost(db, S)[s] = db[s]
             \/ MarkLost(db, S)[s].err
  BY DEF MarkLost, Row
<1> QED
  BY <1>1 DEF Drains, Pooled, Exists

\* The two updates of the claim take rows out of the pool.
LEMMA ClaimDrains ==
  ASSUME NEW db \in [Sandboxes -> Row], NEW D, NEW s \in Sandboxes, NEW c \in Clients
  PROVE  /\ Drains(db, GiveUpCandidates(db, D))
         /\ Drains(db, HandOff(GiveUpCandidates(db, D), s, c))
<1> DEFINE given == GiveUpCandidates(db, D)
           new   == HandOff(given, s, c)
<1>1. ASSUME NEW x \in Sandboxes
      PROVE  given[x] = db[x] \/ ~given[x].warm
  BY DEF GiveUpCandidates, Row
<1>2. ASSUME NEW x \in Sandboxes
      PROVE  new[x] = given[x] \/ ~new[x].warm
  <2>1. given \in [Sandboxes -> Row]
    BY GiveUpType
  <2>2. new = [given EXCEPT ![s] = [given[s] EXCEPT !.owner = c, !.warm = FALSE]]
    BY <2>1 DEF HandOff
  <2>3. [given[s] EXCEPT !.owner = c, !.warm = FALSE].warm = FALSE
    BY <2>1 DEF Row
  <2>4. (x = s => new[x] = [given[s] EXCEPT !.owner = c, !.warm = FALSE])
        /\ (x # s => new[x] = given[x])
    BY <2>1, <2>2
  <2> QED
    BY <2>3, <2>4
<1> HIDE DEF given, new
<1>3. Drains(db, given)
  BY <1>1 DEF Drains, Pooled, Exists
<1>4. Drains(db, new)
  BY <1>1, <1>2 DEF Drains, Pooled, Exists
<1> QED
  BY <1>3, <1>4 DEF given, new

\* Every outcome of a kill drains.
LEMMA KillDrains ==
  ASSUME TypeOK, NEW s \in Sandboxes, KillSandbox(s)
  PROVE  Drains(rows, rows') /\ events' \in Nat /\ events' >= events
<1>1. rows \in [Sandboxes -> Row] /\ events \in Nat
  BY PoolAssumption DEF TypeOK
<1>2. Drains(rows, rows)
  BY DEF Drains
<1> QED
  BY <1>1, <1>2, DeleteDrains
     DEF KillSandbox, KillRow, KillUnanswered, KillRefused, Fault

\* A step that leaves the loop's variables alone, brings nothing into the pool, starts no
\* executor and strands no row keeps both parts.
LEMMA CalmStep ==
  ASSUME TypeOK, TypeOK', NEW r \in Replicas, FuturesInv(r), SizeInv(r),
         Potential(rows', job') \subseteq Potential(rows, job),
         Stranded(rows', job') \subseteq Stranded(rows, job),
         Busy(job') \subseteq Busy(job),
         events' >= events,
         pc' = pc, ready' = ready, slots' = slots, pend' = pend, batch' = batch
  PROVE  FuturesInv(r)' /\ SizeInv(r)'
<1>1. FuturesInv(r)'
  BY DEF FuturesInv
<1>2. /\ Cardinality(Potential(rows', job')) <= Cardinality(Potential(rows, job))
      /\ Cardinality(Stranded(rows', job')) <= Cardinality(Stranded(rows, job))
      /\ Cardinality(Potential(rows', job')) \in Nat /\ Cardinality(Stranded(rows', job')) \in Nat
  BY PotentialTypes, Sizes
<1>3. events' \in Nat /\ ready'[r] = ready[r] /\ pend'[r] = pend[r]
      /\ UnsubmittedOf(pc', slots', r) = UnsubmittedOf(pc, slots, r)
  BY PoolAssumption DEF TypeOK
<1>4. SizeInv(r)'
  BY <1>2, <1>3, SizeTypes DEF SizeInv
<1> QED
  BY <1>1, <1>4

\* The usual case: the table drains and the same executors are at work.
LEMMA DrainStep ==
  ASSUME TypeOK, TypeOK', NEW r \in Replicas, FuturesInv(r), SizeInv(r),
         Drains(rows, rows'), Busy(job') = Busy(job), events' >= events,
         pc' = pc, ready' = ready, slots' = slots, pend' = pend, batch' = batch
  PROVE  FuturesInv(r)' /\ SizeInv(r)'
<1>1. Potential(rows', job') \subseteq Potential(rows, job)
  BY DEF Drains, Potential
<1>2. Stranded(rows', job') \subseteq Stranded(rows, job)
  BY DEF Drains, Stranded
<1> QED
  BY <1>1, <1>2, CalmStep

\* A round takes finished futures out; none of them is at work.
LEMMA StartSize ==
  ASSUME TypeOK, NEW r \in Replicas, FuturesInv(r), SizeInv(r), StartRound(r)
  PROVE  FuturesInv(r)' /\ SizeInv(r)'
<1> DEFINE finished == {s \in pend[r] : job[s] \in {"done", "failed"}}
<1>1. /\ pend' = [pend EXCEPT ![r] = @ \ finished] /\ batch' = [batch EXCEPT ![r] = finished]
      /\ pc' = [pc EXCEPT ![r] = "drain"]
      /\ UNCHANGED <<rows, job, ready, slots, events>>
      /\ pc[r] = "submit" => slots[r] = 0
  BY DEF StartRound, Goto
<1>2. /\ pend'[r] = pend[r] \ finished /\ batch'[r] = finished /\ pc'[r] = "drain"
      /\ pend[r] \in SUBSET Sandboxes
  BY <1>1, SizeTypes
<1>3. Busy(job) \cap finished = {}
  BY DEF Busy
<1>4. Cardinality(pend'[r]) <= Cardinality(pend[r]) /\ Cardinality(pend'[r]) \in Nat
  BY <1>2, Sizes
<1>5. FuturesInv(r)'
  BY <1>1, <1>2, <1>3, <1>4, SizeTypes DEF FuturesInv
<1>6. UnsubmittedOf(pc', slots', r) = 0 /\ UnsubmittedOf(pc, slots, r) = 0
  BY <1>1, <1>2 DEF UnsubmittedOf
<1>7. SizeInv(r)'
  BY <1>1, <1>2, <1>6, SizeTypes DEF SizeInv
<1> QED
  BY <1>5, <1>7

\* At the count of ready rows, what may become ready is a counted row, a stranded one, or
\* the work of a known future.
LEMMA CountedSize ==
  ASSUME TypeOK, NEW r \in Replicas, FuturesInv(r), SizeInv(r)
  PROVE  Cardinality(Potential(rows, job))
           <= Cardinality(WarmRows(rows)) + events + Cardinality(pend[r])
<1>1. /\ WarmRows(rows) \in SUBSET Sandboxes /\ Stranded(rows, job) \in SUBSET Sandboxes
      /\ pend[r] \in SUBSET Sandboxes
  BY SizeTypes, PotentialTypes DEF WarmRows
<1>2. Potential(rows, job) \subseteq (WarmRows(rows) \cup Stranded(rows, job)) \cup pend[r]
  BY DEF FuturesInv, Potential, Pooled, Stranded, WarmRows
<1>3. /\ WarmRows(rows) \cup Stranded(rows, job) \in SUBSET Sandboxes
      /\ Cardinality(WarmRows(rows) \cup Stranded(rows, job))
           <= Cardinality(WarmRows(rows)) + Cardinality(Stranded(rows, job))
  BY <1>1, UnionSize
<1>4. /\ (WarmRows(rows) \cup Stranded(rows, job)) \cup pend[r] \in SUBSET Sandboxes
      /\ Cardinality((WarmRows(rows) \cup Stranded(rows, job)) \cup pend[r])
           <= Cardinality(WarmRows(rows) \cup Stranded(rows, job)) + Cardinality(pend[r])
  BY <1>1, <1>3, UnionSize
<1>5. Cardinality(Potential(rows, job))
        <= Cardinality((WarmRows(rows) \cup Stranded(rows, job)) \cup pend[r])
  BY <1>2, <1>4, Sizes
<1>6. /\ Cardinality(WarmRows(rows)) \in Nat
      /\ Cardinality(WarmRows(rows) \cup Stranded(rows, job)) \in Nat
      /\ Cardinality((WarmRows(rows) \cup Stranded(rows, job)) \cup pend[r]) \in Nat
  BY <1>1, <1>3, <1>4, Sizes
<1> QED
  BY <1>3, <1>4, <1>5, <1>6, SizeTypes DEF SizeInv

\* The inventory, the count and the trim end with a fresh count or without a reservation.
LEMMA ListSize ==
  ASSUME TypeOK, NEW r \in Replicas, FuturesInv(r), SizeInv(r),
         ListInventory(r) \/ CountReady(r) \/ ListExcess(r) \/ TrimDone(r)
  PROVE  FuturesInv(r)' /\ SizeInv(r)'
<1>1. /\ UNCHANGED <<rows, job, slots, events, pend, batch>>
      /\ pc[r] \notin {"reserve", "submit"}
      /\ \/ /\ \E where \in {"inventory", "trimlist", "trim"} : pc' = [pc EXCEPT ![r] = where]
            /\ pc'[r] \in {"inventory", "trimlist", "trim"}
         \/ /\ pc' = [pc EXCEPT ![r] = "reset"]
            /\ ready' = [ready EXCEPT ![r] = Cardinality(WarmRows(rows))]
            /\ pc'[r] = "reset" /\ ready'[r] = Cardinality(WarmRows(rows))
  BY SizeTypes DEF ListInventory, CountReady, ListExcess, TrimDone, Goto
<1>2. pc'[r] \in {"inventory", "trimlist", "trim", "reset"}
  BY <1>1
<1>3. FuturesInv(r)'
  BY <1>1, <1>2 DEF FuturesInv
<1>4. UnsubmittedOf(pc', slots', r) = 0 /\ UnsubmittedOf(pc, slots, r) = 0
  BY <1>1, <1>2 DEF UnsubmittedOf
<1>5. SizeInv(r)'
  BY <1>1, <1>4, CountedSize DEF SizeInv
<1> QED
  BY <1>3, <1>5

\* After the reset the loop asks for no more slots than the executor has free.
LEMMA ResetSize ==
  ASSUME TypeOK, NEW r \in Replicas, FuturesInv(r), SizeInv(r), Concurrency = 1, ResetStale(r)
  PROVE  FuturesInv(r)' /\ SizeInv(r)'
<1> DEFINE free == MaxOf(0, Concurrency - Cardinality(pend[r]))
           n    == IF ready[r] = 0 THEN MinOf(free, 1) ELSE free
<1>1. /\ UNCHANGED <<rows, job, events, pend, batch>>
      /\ slots' = [slots EXCEPT ![r] = n]
      /\ ready' = IF n = 0 THEN [ready EXCEPT ![r] = 0] ELSE ready
      /\ pc' = [pc EXCEPT ![r] = IF n = 0 THEN "idle" ELSE "reserve"]
      /\ pc[r] = "reset"
  BY DEF ResetStale, Goto
<1>2. n \in Nat /\ (n # 0 => Cardinality(pend[r]) + n <= 1)
  BY SizeTypes DEF MaxOf, MinOf
<1> HIDE DEF n
<1>3. slots'[r] = n /\ pc'[r] = (IF n = 0 THEN "idle" ELSE "reserve")
  BY <1>1, SizeTypes
<1>4. FuturesInv(r)'
  BY <1>1, <1>2, <1>3 DEF FuturesInv
<1>5. UnsubmittedOf(pc', slots', r) = 0 /\ UnsubmittedOf(pc, slots, r) = 0
  BY <1>1, <1>3 DEF UnsubmittedOf
<1>6. SizeInv(r)'
  BY <1>1, <1>3, <1>5 DEF SizeInv
<1> QED
  BY <1>4, <1>6

\* A slot is only granted without a known future, and then within the target.
LEMMA ReserveSize ==
  ASSUME TypeOK, NEW r \in Replicas, FuturesInv(r), SizeInv(r), Reserve(r)
  PROVE  FuturesInv(r)' /\ SizeInv(r)'
<1> DEFINE useful  == MaxOf(0, Desired - ready[r])
           clamped == MinOf(inflight, useful)
           n       == Reservable(r, clamped)
<1>1. /\ UNCHANGED <<rows, job, events, pend, batch>>
      /\ slots' = [slots EXCEPT ![r] = n]
      /\ pc' = [pc EXCEPT ![r] = IF n = 0 THEN "idle" ELSE "submit"]
      /\ pc[r] = "reserve"
  BY DEF Reserve, Goto
<1>2. inflight \in Nat
  BY PoolAssumption DEF TypeOK
<1>3. clamped \in Nat
  BY <1>2, SizeTypes DEF MaxOf, MinOf
<1>4. n \in Nat /\ n <= slots[r] /\ (n # 0 => n <= Desired - ready[r] - clamped)
  BY <1>3, SizeTypes DEF Reservable, MaxOf, MinOf
<1> HIDE DEF n, clamped
<1>5. slots'[r] = n /\ pc'[r] = (IF n = 0 THEN "idle" ELSE "submit")
  BY <1>1, SizeTypes
<1>6. FuturesInv(r)'
  BY <1>1, <1>4, <1>5, SizeTypes DEF FuturesInv
<1>7. UnsubmittedOf(pc', slots', r) = n /\ UnsubmittedOf(pc, slots, r) = 0
  BY <1>1, <1>5 DEF UnsubmittedOf
<1>8. n # 0 => Cardinality(pend[r]) = 0
  BY <1>1, <1>4, SizeTypes DEF FuturesInv
<1>9. Cardinality(Potential(rows, job)) + n <= Desired + events
  BY <1>1, <1>3, <1>4, <1>7, <1>8, SizeTypes DEF SizeInv
<1>10. SizeInv(r)'
  BY <1>1, <1>5, <1>7, <1>9 DEF SizeInv
<1> QED
  BY <1>6, <1>10

\* Slots that are released or forgotten are no longer going to be submitted.
LEMMA LeaveSize ==
  ASSUME TypeOK, NEW r \in Replicas, FuturesInv(r), SizeInv(r),
         ReleaseUnsubmitted(r) \/ TargetRaises(r)
  PROVE  FuturesInv(r)' /\ SizeInv(r)'
<1>1. /\ UNCHANGED <<rows, job, pend, batch>>
      /\ events' \in Nat /\ events' >= events
      /\ pc' = [pc EXCEPT ![r] = "idle"]
      /\ pc'[r] = "idle"
  BY SizeTypes DEF ReleaseUnsubmitted, TargetRaises, Goto, Fault, clientVars
<1>2. FuturesInv(r)'
  BY <1>1 DEF FuturesInv
<1>3. UnsubmittedOf(pc', slots', r) = 0
  BY <1>1 DEF UnsubmittedOf
<1>4. SizeInv(r)'
  BY <1>1, <1>3, SizeTypes DEF SizeInv
<1> QED
  BY <1>2, <1>4

\* A completed future was not at work any more.
LEMMA CompleteSize ==
  ASSUME TypeOK, TypeOK', NEW r \in Replicas, FuturesInv(r), SizeInv(r),
         NEW s \in Sandboxes, CompleteOne(r, s)
  PROVE  FuturesInv(r)' /\ SizeInv(r)'
<1>1. /\ UNCHANGED <<rows, events, pc, ready, slots, pend>>
      /\ job' = [job EXCEPT ![s] = "none"]
      /\ batch' = [batch EXCEPT ![r] = @ \ {s}] /\ s \in batch[r]
  BY DEF CompleteOne, clientVars
<1>2. s \notin Busy(job)
  BY <1>1 DEF FuturesInv
<1>3. Busy(job') = Busy(job)
  BY <1>1, <1>2, SizeTypes DEF Busy
<1>4. batch'[r] \subseteq batch[r]
  BY <1>1, SizeTypes
<1>5. FuturesInv(r)'
  BY <1>1, <1>3, <1>4 DEF FuturesInv
<1>6. SizeInv(r)'
  BY <1>1, <1>3 DEF SizeInv, Potential, Stranded
<1> QED
  BY <1>5, <1>6

\* A submitted slot becomes a future at work.
LEMMA SubmitSize ==
  ASSUME TypeOK, TypeOK', NEW r \in Replicas, FuturesInv(r), SizeInv(r),
         NEW s \in Sandboxes, Submit(r, s)
  PROVE  FuturesInv(r)' /\ SizeInv(r)'
<1>1. /\ UNCHANGED <<rows, events, pc, ready, batch>>
      /\ job' = [job EXCEPT ![s] = "queued"]
      /\ pend' = [pend EXCEPT ![r] = @ \cup {s}]
      /\ slots' = [slots EXCEPT ![r] = @ - 1] /\ slots[r] > 0 /\ pc[r] = "submit"
      /\ s \notin pend[r] /\ s \notin batch[r] /\ ~Exists(rows, s)
  BY DEF Submit, Unused, clientVars
<1>2. Busy(job') = Busy(job) \cup {s}
  BY <1>1, SizeTypes DEF Busy
<1>3. /\ pend'[r] = pend[r] \cup {s} /\ slots'[r] = slots[r] - 1
      /\ pend[r] \in SUBSET Sandboxes
  BY <1>1, SizeTypes
<1>4. IsFiniteSet(pend[r])
  BY <1>3, Sizes
<1>5. Cardinality(pend'[r]) = Cardinality(pend[r]) + 1
  BY <1>1, <1>3, <1>4, FS_AddElement
<1>6. FuturesInv(r)'
  <2>1. Busy(job') \subseteq pend'[r] /\ Busy(job') \cap batch[r] = {}
    BY <1>1, <1>2, <1>3 DEF FuturesInv
  <2>2. Cardinality(pend[r]) + slots[r] <= 1 /\ Cardinality(pend[r]) \in Nat /\ slots[r] \in Nat
    BY <1>1, SizeTypes DEF FuturesInv
  <2>3. Cardinality(pend'[r]) <= 1 /\ Cardinality(pend'[r]) + slots'[r] <= 1
    BY <1>1, <1>3, <1>5, <2>2
  <2> QED
    BY <1>1, <2>1, <2>3 DEF FuturesInv
<1>7. Potential(rows, job') = Potential(rows, job) \cup {s}
  BY <1>2 DEF Potential
<1>8. IsFiniteSet(Potential(rows, job)) /\ Cardinality(Potential(rows, job)) \in Nat
  BY PotentialTypes, Sizes
<1>9. /\ Cardinality(Potential(rows, job')) <= Cardinality(Potential(rows, job)) + 1
      /\ Cardinality(Potential(rows, job')) \in Nat
  BY <1>7, <1>8, FS_AddElement
<1>10. Stranded(rows, job') \subseteq Stranded(rows, job)
  BY <1>2 DEF Stranded
<1>11. /\ Cardinality(Stranded(rows, job')) <= Cardinality(Stranded(rows, job))
       /\ Cardinality(Stranded(rows, job')) \in Nat
  BY <1>10, PotentialTypes, Sizes
<1>12. UnsubmittedOf(pc', slots', r) = UnsubmittedOf(pc, slots, r) - 1
  BY <1>1, <1>3 DEF UnsubmittedOf
<1>13. SizeInv(r)'
  BY <1>1, <1>9, <1>11, <1>12, SizeTypes DEF SizeInv
<1> QED
  BY <1>6, <1>13

\* A crash strands at most the row of the one known future, and is a fault.
LEMMA CrashSize ==
  ASSUME TypeOK, TypeOK', NEW r \in Replicas, FuturesInv(r), SizeInv(r), Crash(r)
  PROVE  FuturesInv(r)' /\ SizeInv(r)'
<1>1. /\ rows' = rows /\ events' = events + 1
      /\ pc'[r] = "idle" /\ pend'[r] = {} /\ batch'[r] = {}
      /\ job' = [s \in Sandboxes |-> IF s \in pend[r] \cup batch[r] THEN "none" ELSE job[s]]
  BY SizeTypes DEF Crash, Fault
<1>2. Busy(job') = {}
  BY <1>1 DEF FuturesInv, Busy
<1>3. Cardinality({}) = 0
  BY FS_EmptySet
<1>4. FuturesInv(r)'
  BY <1>1, <1>2, <1>3 DEF FuturesInv
<1>5. Potential(rows, job') \subseteq Potential(rows, job)
  BY <1>2 DEF Potential
<1>6. /\ Cardinality(Potential(rows, job')) <= Cardinality(Potential(rows, job))
      /\ Cardinality(Potential(rows, job')) \in Nat
  BY <1>5, PotentialTypes, Sizes
<1>7. pend[r] \in SUBSET Sandboxes
  BY SizeTypes
<1>8. Stranded(rows, job') \subseteq Stranded(rows, job) \cup pend[r]
  BY <1>2 DEF Stranded, FuturesInv
<1>9. /\ Stranded(rows, job) \cup pend[r] \in SUBSET Sandboxes
      /\ Cardinality(Stranded(rows, job) \cup pend[r])
           <= Cardinality(Stranded(rows, job)) + Cardinality(pend[r])
  BY <1>7, PotentialTypes, UnionSize
<1>10. /\ Cardinality(Stranded(rows, job')) <= Cardinality(Stranded(rows, job) \cup pend[r])
       /\ Cardinality(Stranded(rows, job')) \in Nat
       /\ Cardinality(Stranded(rows, job) \cup pend[r]) \in Nat
  BY <1>8, <1>9, Sizes
<1>11. Cardinality(Stranded(rows, job')) <= events'
  BY <1>1, <1>9, <1>10, SizeTypes DEF SizeInv, FuturesInv
<1>12. UnsubmittedOf(pc', slots', r) = 0
  BY <1>1 DEF UnsubmittedOf
<1>13. SizeInv(r)'
  BY <1>1, <1>6, <1>11, <1>12, SizeTypes DEF SizeInv
<1> QED
  BY <1>4, <1>13

\* An executor thread brings in a row it is at work on, leaves a running one, or cleans up;
\* a failed create, which is a fault, leaves at most what it found.
LEMMA ProvisionSize ==
  ASSUME TypeOK, TypeOK', NEW r \in Replicas, FuturesInv(r), SizeInv(r),
         NEW s \in Sandboxes, Provision(s) \/ CreateFails(s)
  PROVE  FuturesInv(r)' /\ SizeInv(r)'
<1> USE DEF jobFrame, loopVars
<1>0. rows \in [Sandboxes -> Row] /\ job \in [Sandboxes -> JobStates] /\ events \in Nat
  BY SizeTypes
<1>1. CASE CreateContainer(s)
  <2>1. rows' = rows /\ events' = events /\ Busy(job') = Busy(job)
    BY <1>0, <1>1 DEF CreateContainer, JobStep, Busy
  <2>2. Drains(rows, rows')
    BY <2>1 DEF Drains
  <2> QED
    BY <1>0, <1>1, <2>1, <2>2, DrainStep DEF CreateContainer
<1>2. CASE InsertRow(s)
  <2>1. /\ events' = events /\ Busy(job') = Busy(job) /\ s \in Busy(job)
        /\ \A x \in Sandboxes \ {s} : rows'[x] = rows[x]
    BY <1>0, <1>2 DEF InsertRow, JobStep, Busy, CreateRow
  <2>2. Potential(rows', job') \subseteq Potential(rows, job)
    BY <2>1 DEF Potential, Pooled, Exists
  <2>3. Stranded(rows', job') \subseteq Stranded(rows, job)
    BY <2>1 DEF Stranded, Pooled, Exists
  <2>4. UNCHANGED <<pc, ready, slots, pend, batch>>
    BY <1>2 DEF InsertRow
  <2>5. Busy(job') \subseteq Busy(job) /\ events' >= events
    BY <1>0, <2>1
  <2> QED
    BY <2>2, <2>3, <2>4, <2>5, CalmStep
<1>3. CASE BootOk(s)
  <2>1. /\ rows' = UpdateState(rows, s, "running") /\ events' = events
        /\ Busy(job') = Busy(job) \ {s}
    BY <1>0, <1>3 DEF BootOk, JobStep, Busy
  <2>2. Drains(rows, rows') /\ (s \in Pooled(rows') => rows'[s].state = "running")
    BY <1>0, <2>1, RunningDrains
  <2>3. Potential(rows', job') \subseteq Potential(rows, job)
    BY <2>1, <2>2 DEF Potential, Drains
  <2>4. Stranded(rows', job') \subseteq Stranded(rows, job)
    BY <2>1, <2>2 DEF Stranded, Drains
  <2> QED
    BY <1>0, <1>3, <2>1, <2>3, <2>4, CalmStep DEF BootOk
<1>4. CASE BootFails(s)
  <2>1. /\ rows' = DeleteRow(rows, s) /\ events' >= events
        /\ Busy(job') = Busy(job) \ {s}
    BY <1>0, <1>4 DEF BootFails, JobStep, Busy, KillRow
  <2>2. Drains(rows, rows') /\ s \notin Pooled(rows')
    BY <1>0, <2>1, DeleteDrains
  <2>3. Potential(rows', job') \subseteq Potential(rows, job)
    BY <2>1, <2>2 DEF Potential, Drains
  <2>4. Stranded(rows', job') \subseteq Stranded(rows, job)
    BY <2>1, <2>2 DEF Stranded, Drains
  <2> QED
    BY <1>0, <1>4, <2>1, <2>3, <2>4, CalmStep DEF BootFails
<1>5. CASE CreateFails(s)
  <2>1. /\ rows' = rows /\ events' = events + 1 /\ Busy(job') = Busy(job) \ {s}
        /\ UNCHANGED <<pc, ready, slots, pend, batch>>
    BY <1>0, <1>5 DEF CreateFails, JobStep, Busy, Fault
  <2>2. FuturesInv(r)'
    BY <2>1 DEF FuturesInv
  <2>3. Potential(rows', job') \subseteq Potential(rows, job)
    BY <2>1 DEF Potential
  <2>4. /\ Cardinality(Potential(rows', job')) <= Cardinality(Potential(rows, job))
        /\ Cardinality(Potential(rows', job')) \in Nat
    BY <2>3, PotentialTypes, Sizes
  <2>5. Stranded(rows', job') \subseteq Stranded(rows, job) \cup {s}
    BY <2>1 DEF Stranded
  <2>6. IsFiniteSet(Stranded(rows, job)) /\ Stranded(rows, job) \cup {s} \in SUBSET Sandboxes
    BY PotentialTypes, Sizes
  <2>7. /\ Cardinality(Stranded(rows, job) \cup {s}) <= Cardinality(Stranded(rows, job)) + 1
        /\ Cardinality(Stranded(rows, job) \cup {s}) \in Nat
    <3>1. Cardinality(Stranded(rows, job)) \in Nat
      BY SizeTypes
    <3> QED
      BY <2>6, <3>1, FS_AddElement
  <2>8. /\ Cardinality(Stranded(rows', job')) <= Cardinality(Stranded(rows, job) \cup {s})
        /\ Cardinality(Stranded(rows', job')) \in Nat
    BY <2>5, <2>6, Sizes
  <2>9. Cardinality(Stranded(rows', job')) <= events'
    BY <2>1, <2>7, <2>8, SizeTypes DEF SizeInv
  <2>10. UnsubmittedOf(pc', slots', r) = UnsubmittedOf(pc, slots, r)
    BY <2>1 DEF UnsubmittedOf
  <2>11. SizeInv(r)'
    BY <2>1, <2>4, <2>9, <2>10, SizeTypes DEF SizeInv
  <2> QED
    BY <2>2, <2>11
<1> QED
  BY <1>1, <1>2, <1>3, <1>4, <1>5 DEF Provision

\* Clients, the maintenance thread and the environment only drain the table.
LEMMA OtherSize ==
  ASSUME TypeOK, TypeOK', NEW r \in Replicas, FuturesInv(r), SizeInv(r),
         \/ \E s \in Sandboxes :
              \/ InspectRow(r, s) \/ TrimOne(r, s)
              \/ ListForReconcile(s) \/ ListForReap(s) \/ Purge(s) \/ ContainerDies(s)
         \/ \E c \in Clients : ListForClaim(c) \/ Claim(c) \/ ClientKills(c)
         \/ Reconcile \/ ReconcileUnknown \/ Reap
         \/ DiscoveryLost \/ DiscoveryBack \/ LeaderChanges \/ SlotsAge
         \/ UNCHANGED vars
  PROVE  FuturesInv(r)' /\ SizeInv(r)'
<1> USE DEF loopVars, clientVars, maintFrame, clientFrame
<1>0. /\ rows \in [Sandboxes -> Row] /\ events \in Nat /\ Drains(rows, rows)
      /\ holds \in [Clients -> Sandboxes \cup {NoSandbox}]
      /\ maint \in {NoMaint} \cup Listings
  BY SizeTypes DEF Drains, TypeOK
<1>1. UNCHANGED <<job, pc, ready, slots, pend, batch>>
  BY DEF InspectRow, TrimOne, ListForReconcile, ListForReap, Purge, ContainerDies,
         ListForClaim, Claim, ClientKills, Reconcile, ReconcileUnknown, Reap,
         DiscoveryLost, DiscoveryBack, LeaderChanges, SlotsAge, vars
<1>2. ASSUME NEW s \in Sandboxes,
             InspectRow(r, s) \/ TrimOne(r, s) \/ Purge(s)
      PROVE  Drains(rows, rows') /\ events' >= events
  BY <1>0, <1>2, KillDrains, MarkLostDrains, DeleteDrains DEF InspectRow, TrimOne, Purge, Fault
<1>3. ASSUME NEW s \in Sandboxes,
             ListForReconcile(s) \/ ListForReap(s) \/ ContainerDies(s)
      PROVE  Drains(rows, rows') /\ events' >= events
  BY <1>0, <1>3 DEF ListForReconcile, ListForReap, ContainerDies, Fault
<1>4. ASSUME NEW c \in Clients, ListForClaim(c) \/ ClientKills(c)
      PROVE  Drains(rows, rows') /\ events' >= events
  BY <1>0, <1>4, KillDrains, MarkLostDrains DEF ListForClaim, ClientKills
<1>5. ASSUME NEW c \in Clients, Claim(c)
      PROVE  Drains(rows, rows') /\ events' >= events
  <2>1. events' = events
    BY <1>5 DEF Claim
  <2>2. \/ \E D \in SUBSET (ClaimCandidates(rows) \ WarmRows(rows)), s \in WarmRows(rows) :
             rows' = HandOff(GiveUpCandidates(rows, D), s, c)
        \/ \E D \in SUBSET (ClaimCandidates(rows) \ WarmRows(rows)) :
             rows' = GiveUpCandidates(rows, D)
    BY <1>5 DEF Claim
  <2>3. CASE \E D \in SUBSET (ClaimCandidates(rows) \ WarmRows(rows)), s \in WarmRows(rows) :
               rows' = HandOff(GiveUpCandidates(rows, D), s, c)
    <3>1. PICK D \in SUBSET (ClaimCandidates(rows) \ WarmRows(rows)), s \in WarmRows(rows) :
            rows' = HandOff(GiveUpCandidates(rows, D), s, c)
      BY <2>3
    <3>2. s \in Sandboxes
      BY DEF WarmRows
    <3> QED
      BY <1>0, <2>1, <3>1, <3>2, ClaimDrains
  <2>4. CASE \E D \in SUBSET (ClaimCandidates(rows) \ WarmRows(rows)) :
               rows' = GiveUpCandidates(rows, D)
    <3>1. PICK D : rows' = GiveUpCandidates(rows, D)
      BY <2>4
    <3>2. CASE Sandboxes = {}
      BY <1>0, <2>1, <3>2 DEF Drains, Pooled
    <3>3. CASE Sandboxes # {}
      <4>1. PICK s \in Sandboxes : TRUE
        BY <3>3
      <4>2. Drains(rows, GiveUpCandidates(rows, D))
        BY <1>0, <4>1, ClaimDrains
      <4> QED
        BY <1>0, <2>1, <3>1, <4>2
    <3> QED
      BY <3>2, <3>3
  <2> QED
    BY <2>2, <2>3, <2>4
<1>6. CASE Reconcile \/ Reap
  <2>1. maint.id \in Sandboxes
    BY <1>0, <1>6, MaintId DEF Reconcile, Reap
  <2>2. ASSUME Reconcile
        PROVE  Drains(rows, rows') /\ events' >= events
    <3>1. \/ rows' = UpdateState(rows, maint.id, "running")
          \/ rows' = MarkLost(rows, {maint.id})
          \/ rows' = rows
      BY <2>2 DEF Reconcile
    <3>2. events' = events
      BY <2>2 DEF Reconcile
    <3>3. /\ Drains(rows, UpdateState(rows, maint.id, "running"))
          /\ Drains(rows, MarkLost(rows, {maint.id}))
      BY <1>0, <2>1, RunningDrains, MarkLostDrains
    <3> QED
      BY <1>0, <3>1, <3>2, <3>3
  <2>3. ASSUME Reap
        PROVE  Drains(rows, rows') /\ events' >= events
    BY <1>0, <2>1, <2>3, KillDrains DEF Reap
  <2>4. Drains(rows, rows') /\ events' >= events
    BY <1>6, <2>2, <2>3
  <2> QED
    BY <1>1, <2>4, DrainStep
<1>7. CASE \/ ReconcileUnknown \/ DiscoveryLost \/ DiscoveryBack \/ LeaderChanges \/ SlotsAge
           \/ UNCHANGED vars
  <2>1. Drains(rows, rows') /\ events' >= events
    BY <1>0, <1>7
       DEF ReconcileUnknown, DiscoveryLost, DiscoveryBack, LeaderChanges, SlotsAge, vars, Fault
  <2> QED
    BY <1>1, <2>1, DrainStep
<1> QED
  BY <1>1, <1>2, <1>3, <1>4, <1>5, <1>6, <1>7, DrainStep

\* Both parts are inductive where there is one replica with one executor slot.
LEMMA SizeStep ==
  ASSUME NEW r, Replicas = {r}, Concurrency = 1,
         TypeOK, TypeOK', FuturesInv(r), SizeInv(r), [Next]_vars
  PROVE  FuturesInv(r)' /\ SizeInv(r)'
<1>0. r \in Replicas
  OBVIOUS
<1>1. CASE \/ StartRound(r)
           \/ ListInventory(r) \/ CountReady(r) \/ ListExcess(r) \/ TrimDone(r)
           \/ ResetStale(r) \/ Reserve(r) \/ ReleaseUnsubmitted(r) \/ TargetRaises(r)
           \/ Crash(r)
  BY <1>0, <1>1, StartSize, ListSize, ResetSize, ReserveSize, LeaveSize, CrashSize
<1>2. ASSUME NEW s \in Sandboxes,
             CompleteOne(r, s) \/ Submit(r, s) \/ Provision(s) \/ CreateFails(s)
      PROVE  FuturesInv(r)' /\ SizeInv(r)'
  BY <1>0, <1>2, CompleteSize, SubmitSize, ProvisionSize
<1>3. CASE \/ \E s \in Sandboxes :
                \/ InspectRow(r, s) \/ TrimOne(r, s)
                \/ ListForReconcile(s) \/ ListForReap(s) \/ Purge(s) \/ ContainerDies(s)
           \/ \E c \in Clients : ListForClaim(c) \/ Claim(c) \/ ClientKills(c)
           \/ Reconcile \/ ReconcileUnknown \/ Reap
           \/ DiscoveryLost \/ DiscoveryBack \/ LeaderChanges \/ SlotsAge
           \/ UNCHANGED vars
  BY <1>0, <1>3, OtherSize
<1> QED
  BY <1>1, <1>2, <1>3 DEF Next, TopUp

\* One replica with the default concurrency of one overshoots the target by no more than
\* one row or provision for each fault, however long provisions take, whatever is claimed,
\* killed, marked lost or revived in between, and wherever the count of ready rows is stale
\* by the time it is used.  (For two executor slots the bound is false: see the README.)
THEOREM OvershootBounded ==
  ASSUME NEW r, Replicas = {r}, Concurrency = 1
  PROVE  Spec => []OverProvisionBounded
<1>1. ASSUME Init, TypeOK PROVE FuturesInv(r) /\ SizeInv(r)
  <2>1. /\ Pooled(rows) = {} /\ Busy(job) = {} /\ pend[r] = {} /\ pc[r] = "idle" /\ events = 0
    BY <1>1 DEF Init, Pooled, Busy, Exists, Absent
  <2>2. Potential(rows, job) = {} /\ Stranded(rows, job) = {}
    BY <2>1 DEF Potential, Stranded
  <2>3. Cardinality({}) = 0
    BY FS_EmptySet
  <2> QED
    BY <2>1, <2>2, <2>3, PoolAssumption DEF FuturesInv, SizeInv, UnsubmittedOf
<1>2. ASSUME TypeOK, SizeInv(r) PROVE OverProvisionBounded
  <2>1. {s \in Sandboxes : s \in WarmRows(rows) \/ Working(s)} \subseteq Potential(rows, job)
    BY DEF WarmRows, Working, Potential, Pooled, Busy, Exists
  <2>2. /\ Cardinality({s \in Sandboxes : s \in WarmRows(rows) \/ Working(s)})
             <= Cardinality(Potential(rows, job))
        /\ Cardinality({s \in Sandboxes : s \in WarmRows(rows) \/ Working(s)}) \in Nat
    BY <2>1, PotentialTypes, Sizes
  <2>3. /\ Cardinality(Potential(rows, job)) \in Nat /\ UnsubmittedOf(pc, slots, r) \in Nat
        /\ events \in Nat /\ Desired \in Nat
    BY <1>2, SizeTypes
  <2>4. Concurrency * events = events
    BY <2>3
  <2>5. Cardinality(Potential(rows, job)) <= Desired + events
    BY <1>2, <2>3 DEF SizeInv
  <2>6. Cardinality({s \in Sandboxes : s \in WarmRows(rows) \/ Working(s)}) <= Desired + events
    BY <2>2, <2>3, <2>5
  <2> QED
    BY <2>4, <2>6 DEF OverProvisionBounded
<1> QED
  BY <1>1, <1>2, SizeStep, TypeInvariance, PTL DEF Spec
=============================================================================
