------------------------------ MODULE Snapshots ------------------------------
(***************************************************************************)
(* Snapshots of a sandbox's file system: an image that the sandbox's       *)
(* gateway commits, a row that refers to it, sandboxes created from it,    *)
(* and the pruning of images that nothing refers to.                       *)
(*                                                                         *)
(* A step is one statement of the database or one request to a gateway.    *)
(* With a registry the image is pushed there and the row has its reference *)
(* in the registry; the image keeps both names on the gateway.             *)
(***************************************************************************)
EXTENDS Naturals

CONSTANTS
  Refs,          \* image references; each has a tag of its own
  Sources, Gateways, None,
  Registry       \* are snapshots pushed to a registry?

VARIABLES
  source,   \* the sandboxes that snapshots are taken of: gateway, or None when deleted
  image,    \* the generated images of each gateway
  pushed,   \* the references that the registry has
  old,      \* images that are older than the retention
  row,      \* sandbox_snapshots: what each reference was taken of, or None
  task,     \* the call that takes a snapshot, by reference
  from,     \* the create that starts from a snapshot: its image, where it runs
  prune     \* the pass: the references to keep, the gateways it still has to do

vars == <<source, image, pushed, old, row, task, from, prune>>

TypeOK ==
  /\ source \in [Sources -> Gateways \cup {None}]
  /\ image \in [Gateways -> SUBSET Refs] /\ pushed \subseteq Refs /\ old \subseteq Refs
  /\ row \in [Refs -> Sources \cup {None}]
  /\ task \in [Refs -> [pc : {"idle", "commit", "push", "insert", "merge", "done"},
                        of : Sources \cup {None}, at : Gateways \cup {None}]]
  /\ from \in [pc : {"idle", "resolved", "running", "failed"}, ref : Refs \cup {None},
               at : Gateways \cup {None}]
  /\ prune \in [pc : {"idle", "images"}, keep : SUBSET Refs, left : SUBSET Gateways]

Init ==
  /\ source \in [Sources -> Gateways]
  /\ image = [g \in Gateways |-> {}] /\ pushed = {} /\ old = {}
  /\ row = [x \in Refs |-> None]
  /\ task = [x \in Refs |-> [pc |-> "idle", of |-> None, at |-> None]]
  /\ from = [pc |-> "idle", ref |-> None, at |-> None]
  /\ prune = [pc |-> "idle", keep |-> {}, left |-> {}]

At(x, pc) == task[x].pc = pc
Goes(x, pc) == task' = [task EXCEPT ![x].pc = pc]

-----------------------------------------------------------------------------
(* create_filesystem_snapshot *)

Begin(x, s) ==
  /\ At(x, "idle") /\ source[s] # None
  /\ task' = [task EXCEPT ![x] = [pc |-> "commit", of |-> s, at |-> source[s]]]
  /\ UNCHANGED <<source, image, pushed, old, row, from, prune>>

\* Without the container there is no image, and the client is told so.
Commit(x) ==
  /\ At(x, "commit")
  /\ IF source[task[x].of] = None THEN Goes(x, "done") /\ UNCHANGED image
     ELSE /\ Goes(x, IF Registry THEN "push" ELSE "insert")
          /\ image' = [image EXCEPT ![task[x].at] = @ \cup {x}]
  /\ UNCHANGED <<source, pushed, old, row, from, prune>>

\* A push that fails fails the call; the image is left for the prune.
Push(x) ==
  /\ At(x, "push")
  /\ \/ Goes(x, "insert") /\ pushed' = pushed \cup {x}
     \/ Goes(x, "done") /\ UNCHANGED pushed
  /\ UNCHANGED <<source, image, old, row, from, prune>>

\* Whether or not the sandbox is still there.
Insert(x) ==
  /\ At(x, "insert") /\ Goes(x, "merge") /\ row' = [row EXCEPT ![x] = task[x].of]
  /\ UNCHANGED <<source, image, pushed, old, from, prune>>

\* The metadata that was read at the beginning is written back (see DaytonaSandboxes).
Merge(x) ==
  /\ At(x, "merge") /\ Goes(x, "done")
  /\ UNCHANGED <<source, image, pushed, old, row, from, prune>>

\* The replica goes down, or the answer of the gateway is lost.
Interrupted(x) ==
  /\ task[x].pc \notin {"idle", "done"} /\ Goes(x, "done")
  /\ UNCHANGED <<source, image, pushed, old, row, from, prune>>

-----------------------------------------------------------------------------
(* Deletions, and creating from a snapshot *)

DeleteSnapshot(x) ==
  /\ row[x] # None /\ row' = [row EXCEPT ![x] = None]
  /\ UNCHANGED <<source, image, pushed, old, task, from, prune>>

\* The snapshots' rows go with the sandbox's.
DeleteSandbox(s) ==
  /\ source[s] # None /\ source' = [source EXCEPT ![s] = None]
  /\ row' = [x \in Refs |-> IF row[x] = s THEN None ELSE row[x]]
  /\ UNCHANGED <<image, pushed, old, task, from, prune>>

Resolve(x) ==
  /\ from.pc = "idle" /\ row[x] # None
  /\ from' = [from EXCEPT !.pc = "resolved", !.ref = x]
  /\ UNCHANGED <<source, image, pushed, old, row, task, prune>>

\* A gateway is chosen by its load, and by its having the image.
Run(g) ==
  /\ from.pc = "resolved"
  /\ IF from.ref \in image[g] \cup pushed
     THEN /\ from' = [from EXCEPT !.pc = "running", !.at = g]
          /\ image' = [image EXCEPT ![g] = @ \cup {from.ref}]
     ELSE from' = [from EXCEPT !.pc = "failed"] /\ UNCHANGED image
  /\ UNCHANGED <<source, pushed, old, row, task, prune>>

Stop ==
  /\ from.pc \in {"running", "failed"} /\ from' = [pc |-> "idle", ref |-> None, at |-> None]
  /\ UNCHANGED <<source, image, pushed, old, row, task, prune>>

-----------------------------------------------------------------------------
(* The prune *)

\* A call, and a pass, takes minutes and the retention is hours or days: an image is
\* not old yet while the call that made it, or a pass that did not see its row, goes on.
GrowOld(x) ==
  /\ x \notin old /\ task[x].pc \in {"merge", "done"} /\ prune.pc = "idle"
  /\ old' = old \cup {x}
  /\ UNCHANGED <<source, image, pushed, row, task, from, prune>>

ListKeep ==
  /\ prune.pc = "idle"
  /\ prune' = [pc |-> "images", keep |-> {x \in Refs : row[x] # None}, left |-> Gateways]
  /\ UNCHANGED <<source, image, pushed, old, row, task, from>>

InUse(x, g) == from.pc = "running" /\ from.ref = x /\ from.at = g

\* Mutant: an image may go whatever its age.
PrunableYoung(x, g) == x \in image[g] \ prune.keep /\ ~InUse(x, g)
Prunable(x, g) == x \in image[g] \cap old /\ x \notin prune.keep /\ ~InUse(x, g)

RemoveImage(x, g) ==
  /\ prune.pc = "images" /\ g \in prune.left /\ Prunable(x, g)
  /\ image' = [image EXCEPT ![g] = @ \ {x}]
  /\ UNCHANGED <<source, pushed, old, row, task, from, prune>>

GatewayDone(g) ==
  /\ prune.pc = "images" /\ g \in prune.left
  /\ prune' = IF prune.left = {g} THEN [pc |-> "idle", keep |-> {}, left |-> {}]
              ELSE [prune EXCEPT !.left = @ \ {g}]
  /\ UNCHANGED <<source, image, pushed, old, row, task, from>>

Next ==
  \/ \E x \in Refs :
       \/ \E s \in Sources : Begin(x, s)
       \/ Commit(x) \/ Push(x) \/ Insert(x) \/ Merge(x) \/ Interrupted(x)
       \/ DeleteSnapshot(x) \/ Resolve(x) \/ GrowOld(x)
       \/ \E g \in Gateways : RemoveImage(x, g)
  \/ \E s \in Sources : DeleteSandbox(s)
  \/ \E g \in Gateways : Run(g) \/ GatewayDone(g)
  \/ Stop \/ ListKeep

Spec == Init /\ [][Next]_vars

-----------------------------------------------------------------------------
(* Property *)

\* A snapshot that is listed can be restored: its image is on the gateway that made it,
\* though rows come and go between what a prune reads and what it removes.
SnapshotsRestorable == \A x \in Refs : row[x] # None => x \in image[task[x].at]
=============================================================================
