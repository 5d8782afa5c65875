------------------------- MODULE SandboxStoreProofs -------------------------
(***************************************************************************)
(* Lemmas about the statements of SandboxStore: each keeps the table       *)
(* well-typed, none of them resurrects a deleted row, and what each does   *)
(* to the owner and the warm flag.                                         *)
(***************************************************************************)
EXTENDS SandboxStore, TLAPS

\* A deleted row is a row (of the table's type) like any other.
LEMMA AbsentType == Absent \in Row
BY StoreAssumption DEF Absent, Row, RowStates

\* DELETE FROM sandboxes keeps the table well-typed.
LEMMA DeleteType ==
  ASSUME NEW db \in [Sandboxes -> Row], NEW s \in Sandboxes
  PROVE  DeleteRow(db, s) \in [Sandboxes -> Row]
BY AbsentType DEF DeleteRow

\* So does the unconditional update of the state column.
LEMMA UpdateType ==
  ASSUME NEW db \in [Sandboxes -> Row], NEW s \in Sandboxes, NEW st \in RowStates
  PROVE  UpdateState(db, s, st) \in [Sandboxes -> Row]
<1>1. [db[s] EXCEPT !.state = st] \in Row
  BY DEF Row
<1> QED
  BY <1>1 DEF UpdateState

\* So does marking rows lost.
LEMMA MarkLostType ==
  ASSUME NEW db \in [Sandboxes -> Row], NEW S
  PROVE  MarkLost(db, S) \in [Sandboxes -> Row]
<1>1. \A s \in Sandboxes : [db[s] EXCEPT !.state = "lost", !.err = TRUE] \in Row
  BY DEF Row, RowStates
<1> QED
  BY <1>1 DEF MarkLost

\* So does inserting a pool row.
LEMMA CreateType ==
  ASSUME NEW db \in [Sandboxes -> Row], NEW s \in Sandboxes, NEW st \in RowStates,
         NEW w \in BOOLEAN, NEW c \in Clients \cup {NoClient}
  PROVE  CreateRow(db, s, st, w, c) \in [Sandboxes -> Row]
BY DEF CreateRow, Row

\* So do the two updates of the claim.
LEMMA GiveUpType ==
  ASSUME NEW db \in [Sandboxes -> Row], NEW D
  PROVE  GiveUpCandidates(db, D) \in [Sandboxes -> Row]
<1>1. \A s \in Sandboxes : [db[s] EXCEPT !.state = "lost", !.warm = FALSE] \in Row
  BY DEF Row, RowStates
<1> QED
  BY <1>1 DEF GiveUpCandidates

\* The second of them: owner and warm flag.
LEMMA HandOffType ==
  ASSUME NEW db \in [Sandboxes -> Row], NEW s \in Sandboxes, NEW c \in Clients
  PROVE  HandOff(db, s, c) \in [Sandboxes -> Row]
<1>1. [db[s] EXCEPT !.owner = c, !.warm = FALSE] \in Row
  BY DEF Row
<1> QED
  BY <1>1 DEF HandOff

-----------------------------------------------------------------------------
(* What no statement but CreateRow and HandOff does: bring a row back, give *)
(* it another owner, or return it to the pool.                             *)

Keeps(db, new) ==
  \A s \in Sandboxes :
    \/ new[s] = db[s]
    \/ new[s] = Absent
    \/ /\ Exists(db, s) /\ Exists(new, s)
       /\ new[s].owner = db[s].owner
       /\ new[s].warm => db[s].warm

\* delete_sandbox.
LEMMA DeleteKeeps ==
  ASSUME NEW db \in [Sandboxes -> Row], NEW s \in Sandboxes
  PROVE  Keeps(db, DeleteRow(db, s))
BY DEF DeleteRow, Keeps

\* update_sandbox_state, with any state a row can have.
LEMMA UpdateKeeps ==
  ASSUME NEW db \in [Sandboxes -> Row], NEW s \in Sandboxes,
         NEW st \in RowStates \ {"absent"}
  PROVE  Keeps(db, UpdateState(db, s, st))
<1> DEFINE new == UpdateState(db, s, st)
<1>1. CASE ~Exists(db, s)
  BY <1>1 DEF UpdateState, Keeps
<1>2. CASE Exists(db, s)
  <2>1. new = [db EXCEPT ![s] = [db[s] EXCEPT !.state = st]]
    BY <1>2 DEF UpdateState
  <2>2. /\ new[s].state = st
        /\ new[s].owner = db[s].owner
        /\ new[s].warm => db[s].warm
    BY <2>1 DEF Row
  <2>3. \A t \in Sandboxes \ {s} : new[t] = db[t]
    BY <2>1
  <2> HIDE DEF new
  <2>4. Keeps(db, new)
    BY <1>2, <2>2, <2>3 DEF Keeps, Exists
  <2> QED
    BY <2>4 DEF new
<1> QED
  BY <1>1, <1>2

\* _mark_sandbox_lost.
LEMMA MarkLostKeeps ==
  ASSUME NEW db \in [Sandboxes -> Row], NEW S
  PROVE  Keeps(db, MarkLost(db, S))
<1> DEFINE new == MarkLost(db, S)
<1>1. ASSUME NEW t \in Sandboxes
      PROVE  \/ new[t] = db[t]
             \/ /\ Exists(db, t) /\ new[t].state = "lost"
                /\ new[t].owner = db[t].owner /\ (new[t].warm => db[t].warm)
  BY DEF MarkLost, Row
<1> HIDE DEF new
<1>2. Keeps(db, new)
  BY <1>1 DEF Keeps, Exists
<1> QED
  BY <1>2 DEF new

\* The claim's update of the candidates it gives up.
LEMMA GiveUpKeeps ==
  ASSUME NEW db \in [Sandboxes -> Row], NEW D \in SUBSET ClaimCandidates(db)
  PROVE  Keeps(db, GiveUpCandidates(db, D))
<1> DEFINE new == GiveUpCandidates(db, D)
<1>1. ASSUME NEW t \in Sandboxes
      PROVE  \/ new[t] = db[t]
             \/ /\ Exists(db, t) /\ new[t].state = "lost"
                /\ new[t].owner = db[t].owner /\ ~new[t].warm
  BY DEF GiveUpCandidates, ClaimCandidates, Row, Exists
<1> HIDE DEF new
<1>2. Keeps(db, new)
  BY <1>1 DEF Keeps, Exists
<1> QED
  BY <1>2 DEF new
-----------------------------------------------------------------------------
(* Which rows there are after a statement.                                 *)

\* An update of the state column neither inserts nor deletes.
LEMMA UpdateExists ==
  ASSUME NEW db \in [Sandboxes -> Row], NEW s \in Sandboxes,
         NEW st \in RowStates \ {"absent"}, NEW x \in Sandboxes
  PROVE  Exists(UpdateState(db, s, st), x) <=> Exists(db, x)
<1>1. CASE Exists(db, s)
  <2>1. UpdateState(db, s, st) = [db EXCEPT ![s] = [db[s] EXCEPT !.state = st]]
    BY <1>1 DEF UpdateState
  <2>2. [db[s] EXCEPT !.state = st].state = st
    BY DEF Row
  <2> QED
    BY <1>1, <2>1, <2>2 DEF Exists
<1>2. CASE ~Exists(db, s)
  BY <1>2 DEF UpdateState
<1> QED
  BY <1>1, <1>2

\* Nor does marking rows lost.
LEMMA MarkLostExists ==
  ASSUME NEW db \in [Sandboxes -> Row], NEW S, NEW x \in Sandboxes
  PROVE  Exists(MarkLost(db, S), x) <=> Exists(db, x)
BY DEF MarkLost, Exists, Row
=============================================================================
