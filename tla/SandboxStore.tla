---------------------------- MODULE SandboxStore ----------------------------
(***************************************************************************)
(* The sandboxes table of the control-plane database, as every other       *)
(* module of this project uses it: the shape of a row and the single       *)
(* statements (or single transactions) that read or write it.              *)
(*                                                                         *)
(* A row keeps what the properties tell apart: its state column, the       *)
(* is_warm_pool flag, whether its metadata carries a runtime_error, and    *)
(* its owner.  A deleted row and one that was never inserted are both      *)
(* Absent.  Each operator below is one statement, or one transaction that   *)
(* locks the row, and so one atomic step.  The exception in the code is    *)
(* merge_sandbox_metadata, a SELECT and an UPDATE that only an in-process  *)
(* lock keeps together: it is taken as atomic here too.                    *)
(***************************************************************************)
EXTENDS Naturals, FiniteSets

CONSTANTS Sandboxes,   \* sandbox ids (uuid4 in the code, so never reused)
          Clients,     \* owner_client_id values
          NoClient     \* a row without an owner (NULL)

ASSUME StoreAssumption == NoClient \notin Clients

RowStates == {"absent", "starting", "running", "pausing", "paused",
              "resuming", "lost", "killed"}

Row == [state : RowStates, warm : BOOLEAN, err : BOOLEAN,
        owner : Clients \cup {NoClient}]

Absent == [state |-> "absent", warm |-> FALSE, err |-> FALSE, owner |-> NoClient]

Exists(db, s) == db[s].state # "absent"

\* create_sandbox: INSERT with an explicit state, warm flag and owner.
CreateRow(db, s, st, isWarm, who) ==
  [db EXCEPT ![s] = [state |-> st, warm |-> isWarm, err |-> FALSE, owner |-> who]]

\* Mutant: an upsert instead of an update.
UpsertState(db, s, st) ==
  [db EXCEPT ![s] = [(IF Exists(db, s) THEN db[s] ELSE Absent) EXCEPT !.state = st]]

\* update_sandbox_state: UPDATE ... WHERE sandbox_id = ?, unconditional on the
\* previous state; it leaves is_warm_pool, owner and metadata alone, and
\* touches nothing when the row is gone.
UpdateState(db, s, st) ==
  IF Exists(db, s) THEN [db EXCEPT ![s].state = st] ELSE db

\* _mark_sandbox_lost: state := lost, then merge_sandbox_metadata with a
\* runtime_error.  is_warm_pool stays, and since the merge is
\* {**current, **updates} no later merge removes the error.
MarkLost(db, S) ==
  [s \in Sandboxes |-> IF s \in S /\ Exists(db, s)
                         THEN [db[s] EXCEPT !.state = "lost", !.err = TRUE]
                         ELSE db[s]]

DeleteRow(db, s) == [db EXCEPT ![s] = Absent]

\* Mutant: a row that is out of the pool counts as well.
RunningRows(db) == {s \in Sandboxes : db[s].state = "running" /\ ~db[s].err}

\* list_warm_pool_sandboxes: running, in the pool, and no runtime_error.
WarmRows(db) ==
  {s \in Sandboxes : db[s].state = "running" /\ db[s].warm /\ ~db[s].err}

\* What the claim's SELECT ... FOR UPDATE SKIP LOCKED ranges over.  Unlike
\* WarmRows it does not look at the metadata.
ClaimCandidates(db) ==
  {s \in Sandboxes : db[s].state = "running" /\ db[s].warm}

\* The claim gives up on a candidate that carries a runtime_error.
GiveUpCandidates(db, D) ==
  [s \in Sandboxes |-> IF s \in D THEN [db[s] EXCEPT !.state = "lost", !.warm = FALSE]
                                  ELSE db[s]]

\* Mutant: the claim leaves the row in the pool.
HandOffInPool(db, s, c) == [db EXCEPT ![s].owner = c]

\* The claim hands a candidate to its new owner.
HandOff(db, s, c) == [db EXCEPT ![s].owner = c, ![s].warm = FALSE]

\* Mutant: only sandboxes of the pool expire.
ExpirablePoolOnly(db) == {s \in Sandboxes : db[s].state = "running" /\ db[s].warm}

\* list_expired_sandboxes and purge_lost_sandboxes select by state; the lease
\* and retention clocks are left to the modules that use these.
Expirable(db) == {s \in Sandboxes : db[s].state = "running"}
Purgeable(db) == {s \in Sandboxes : db[s].state = "lost"}
=============================================================================
