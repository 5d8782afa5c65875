------------------------------ MODULE MongoRows ------------------------------
(***************************************************************************)
(* The sandboxes of the control-plane database on MongoDB.  A document is  *)
(* changed atomically, nothing else is: the claim finds a row and updates  *)
(* it under a condition, a merge of metadata reads and writes, a deletion  *)
(* is three statements.                                                    *)
(*                                                                         *)
(* Each thread belongs to a replica of its own, so that the lock which a   *)
(* replica takes around its inserts and merges never makes one wait.       *)
(***************************************************************************)
EXTENDS Naturals

CONSTANTS
  Threads, Sandboxes, Clients, None,
  Tries,      \* how often a claim looks for a row: 8
  MaxMoves    \* bound: changes of states and leases from outside

VARIABLES
  rows,       \* sandboxes
  children,   \* sandboxes with commands_history and sandbox_snapshots documents
  handoffs,   \* handoff_count of the segment
  call,       \* what each thread is doing
  moves

vars == <<rows, children, handoffs, call, moves>>

States == {"starting", "running", "paused", "lost", "killed"}
Keys == {"error", "boot", "owner"}
NoRow == [st |-> "absent", pool |-> FALSE, owner |-> None, md |-> {}, due |-> FALSE]
Kinds == {"history", "snapshots"}
NoCall == [pc |-> "idle", row |-> None, who |-> None, md |-> {}, tries |-> 0]

TypeOK ==
  /\ rows \in [Sandboxes -> [st : States \cup {"absent"}, pool : BOOLEAN,
                             owner : Clients \cup {None}, md : SUBSET Keys, due : BOOLEAN]]
  /\ children \in [Kinds -> SUBSET Sandboxes]
  /\ handoffs \in Nat /\ moves \in 0..MaxMoves
  /\ call \in [Threads -> [pc : {"idle", "pick", "give_up", "hand", "count", "merge", "write",
                                 "lost", "expired", "purge", "history", "snapshots", "delete"},
                           row : Sandboxes \cup {None}, who : Clients \cup {None},
                           md : SUBSET Keys, tries : 0..Tries]]

Init ==
  /\ rows = [s \in Sandboxes |-> NoRow]
  /\ children = [k \in Kinds |-> {}]
  /\ handoffs = 0 /\ moves = 0
  /\ call = [t \in Threads |-> NoCall]

There(s) == rows[s].st # "absent"
At(t, pc) == call[t].pc = pc
Does(t, c) == call' = [call EXCEPT ![t] = c]
Goes(t, pc) == Does(t, [call[t] EXCEPT !.pc = pc])
Row(t) == rows[call[t].row]

\* An update by _id changes nothing when the document is gone.
Update(s, doc) == rows' = IF There(s) THEN [rows EXCEPT ![s] = doc] ELSE rows
Moved == moves < MaxMoves /\ moves' = moves + 1

-----------------------------------------------------------------------------
(* Single statements *)

Create(s, st, pool) ==
  /\ ~There(s) /\ \A t \in Threads : call[t].row # s
  /\ Moved
  /\ rows' = [rows EXCEPT ![s] = [NoRow EXCEPT !.st = st, !.pool = pool]]
  /\ UNCHANGED <<children, handoffs, call>>

\* Whatever the state was before.
UpdateState(s, st) ==
  /\ There(s) /\ st # rows[s].st /\ Moved
  /\ Update(s, [rows[s] EXCEPT !.st = st]) /\ UNCHANGED <<children, handoffs, call>>

UpdateTimeout(s) ==
  /\ rows[s].due /\ Update(s, [rows[s] EXCEPT !.due = FALSE])
  /\ UNCHANGED <<children, handoffs, call, moves>>

LeaseEnds(s) ==
  /\ There(s) /\ ~rows[s].due /\ Moved /\ Update(s, [rows[s] EXCEPT !.due = TRUE])
  /\ UNCHANGED <<children, handoffs, call>>

\* A command's history or a snapshot; the sandbox's row is not looked at.
AddChild(s, kind) ==
  /\ s \notin children[kind] /\ Moved
  /\ children' = [children EXCEPT ![kind] = @ \cup {s}]
  /\ UNCHANGED <<rows, handoffs, call>>

-----------------------------------------------------------------------------
(* claim_warm_pool_sandbox *)

Claim(t, c) ==
  /\ At(t, "idle") /\ Does(t, [NoCall EXCEPT !.pc = "pick", !.who = c])
  /\ UNCHANGED <<rows, children, handoffs, moves>>

Pooled(s) == rows[s].st = "running" /\ rows[s].pool

Pick(t) ==
  /\ At(t, "pick")
  /\ IF call[t].tries = Tries \/ ~(\E s \in Sandboxes : Pooled(s)) THEN Does(t, NoCall)
     ELSE \E s \in Sandboxes :
            /\ Pooled(s)
            /\ Does(t, [call[t] EXCEPT !.pc = IF "error" \in rows[s].md THEN "give_up" ELSE "hand",
                                       !.row = s, !.md = rows[s].md, !.tries = @ + 1])
  /\ UNCHANGED <<rows, children, handoffs, moves>>

GiveUp(t) ==
  /\ At(t, "give_up")
  /\ Goes(t, "pick")
  /\ IF Row(t).pool
     THEN Update(call[t].row, [Row(t) EXCEPT !.st = "lost", !.pool = FALSE])
     ELSE UNCHANGED rows
  /\ UNCHANGED <<children, handoffs, moves>>

\* The condition of find_one_and_update.
\* Mutants: the row's state is not in it, or only its id is.
StillPooledStateless(s) == rows[s].pool
StillPooledById(s) == There(s)
StillPooled(s) == Pooled(s)

\* The metadata that was read with the row is written back with the claim's own.
HandOff(t) ==
  /\ At(t, "hand")
  /\ IF StillPooled(call[t].row)
     THEN /\ Goes(t, "count")
          /\ Update(call[t].row, [Row(t) EXCEPT !.owner = call[t].who, !.pool = FALSE,
                                                !.md = call[t].md \cup {"owner"}, !.due = FALSE])
     ELSE Goes(t, "pick") /\ UNCHANGED rows
  /\ UNCHANGED <<children, handoffs, moves>>

\* A statement of its own: the count is short of a claim whose replica goes down here.
Count(t) ==
  /\ At(t, "count") /\ Does(t, NoCall) /\ handoffs' = handoffs + 1
  /\ UNCHANGED <<rows, children, moves>>

-----------------------------------------------------------------------------
(* merge_sandbox_metadata, and the loss of a sandbox, which is an update and a merge *)
(* of all the metadata that was read before the update                               *)

FindToMerge(t, s, key) ==
  /\ At(t, "idle") /\ There(s) /\ key # "error"
  /\ Does(t, [NoCall EXCEPT !.pc = "write", !.row = s, !.md = rows[s].md \cup {key}])
  /\ UNCHANGED <<rows, children, handoffs, moves>>

WriteMerged(t) ==
  /\ At(t, "write") /\ Does(t, NoCall)
  /\ Update(call[t].row, [Row(t) EXCEPT !.md = call[t].md])
  /\ UNCHANGED <<children, handoffs, moves>>

MarkLost(t, s) ==
  /\ At(t, "idle") /\ rows[s].st \in {"starting", "running", "paused"}
  /\ Does(t, [NoCall EXCEPT !.pc = "merge", !.row = s, !.md = rows[s].md \cup {"error"}])
  /\ Update(s, [rows[s] EXCEPT !.st = "lost"]) /\ UNCHANGED <<children, handoffs, moves>>

FindToMark(t) ==
  /\ At(t, "merge")
  /\ Does(t, IF There(call[t].row)
             THEN [call[t] EXCEPT !.pc = "write", !.md = Row(t).md \cup @] ELSE NoCall)
  /\ UNCHANGED <<rows, children, handoffs, moves>>

-----------------------------------------------------------------------------
(* Deletions *)

\* list_expired_sandboxes or purge_lost_sandboxes has found the row, or a kill begins.
FindToDelete(t, s, why) ==
  /\ At(t, "idle")
  /\ CASE why = "expired" -> rows[s].st = "running" /\ rows[s].due
       [] why = "purge" -> rows[s].st = "lost"
       [] why = "history" -> There(s)
  /\ Does(t, [NoCall EXCEPT !.pc = why, !.row = s])
  /\ UNCHANGED <<rows, children, handoffs, moves>>

\* What was found is deleted without another look, first its children.
Listed(t) ==
  /\ call[t].pc \in {"expired", "purge"} /\ Goes(t, "history")
  /\ UNCHANGED <<rows, children, handoffs, moves>>

DeleteChildren(t, kind, next) ==
  /\ At(t, kind) /\ Goes(t, next)
  /\ children' = [children EXCEPT ![kind] = @ \ {call[t].row}]
  /\ UNCHANGED <<rows, handoffs, moves>>

DeleteRow(t) ==
  /\ At(t, "delete") /\ Does(t, NoCall)
  /\ rows' = [rows EXCEPT ![call[t].row] = NoRow]
  /\ UNCHANGED <<children, handoffs, moves>>

\* A replica goes down.
Crash(t) ==
  /\ ~At(t, "idle") /\ Moved /\ Does(t, NoCall) /\ UNCHANGED <<rows, children, handoffs>>

Next ==
  \/ \E s \in Sandboxes :
       \/ \E st \in {"starting", "running"}, pool \in BOOLEAN : Create(s, st, pool)
       \/ \E st \in States : UpdateState(s, st)
       \/ UpdateTimeout(s) \/ LeaseEnds(s)
       \/ \E kind \in Kinds : AddChild(s, kind)
  \/ \E t \in Threads :
       \/ \E c \in Clients : Claim(t, c)
       \/ Pick(t) \/ GiveUp(t) \/ HandOff(t) \/ Count(t)
       \/ \E s \in Sandboxes :
            \/ \E key \in Keys : FindToMerge(t, s, key)
            \/ \E why \in {"expired", "purge", "history"} : FindToDelete(t, s, why)
            \/ MarkLost(t, s)
       \/ WriteMerged(t) \/ FindToMark(t) \/ Listed(t)
       \/ DeleteChildren(t, "history", "snapshots") \/ DeleteChildren(t, "snapshots", "delete")
       \/ DeleteRow(t) \/ Crash(t)

Spec == Init /\ [][Next]_vars

-----------------------------------------------------------------------------
(* Property *)

\* A sandbox of the pool is handed out once, and while it runs, though the claim picks
\* it in one statement and takes it in another; what has left the pool stays out of it.
TakenOnce ==
  \A s \in Sandboxes :
    /\ rows'[s].owner \notin {rows[s].owner, None} => rows[s].owner = None /\ Pooled(s)
    /\ ~rows[s].pool /\ There(s) => ~rows'[s].pool
HandedOutOnce == [][TakenOnce]_vars
=============================================================================
