----------------------- MODULE SandboxLifecycleProofs -----------------------
(***************************************************************************)
(* What holds of SandboxLifecycle for every set of sandboxes and threads   *)
(* and every number of requests and faults: the types, that a deleted row  *)
(* stays deleted, and that a live container without a row is explained.    *)
(***************************************************************************)
EXTENDS SandboxLifecycle, SandboxStoreProofs

-----------------------------------------------------------------------------
(* Threads: what the record of one may be, and how a step changes it       *)

Busy == [op : Ops, at : Points, id : Sandboxes, seen : RowStates]

\* Where an operation can be; a pause or resume that may have to put a state back
\* has read one.
InPlace(r) ==
  /\ r.op # "idle"
  /\ r.op = "create"    => r.at \in {"queued", "insert", "boot"}
  /\ r.op = "reconcile" => r.at \in {"check", "mark", "promote"}
  /\ r.op = "probe"     => r.at \in {"read", "check", "mark"}
  /\ r.op = "refresh"   => r.at \in {"begin", "read", "check", "mark", "look", "extend"}
  /\ r.op \in {"kill", "reap"} => r.at \in {"begin", "call", "look", "killed", "delete"}
  /\ r.op \in {"pause", "resume"} =>
       /\ r.at \in {"read", "check", "mark", "begin", "announce", "call", "look",
                    "confirm", "restore"}
       /\ r.at \in {"announce", "call", "look", "restore"} => r.seen # "absent"

ThreadOK(r) == r = Idle \/ (r \in Busy /\ InPlace(r))

ThreadsOK ==
  /\ th \in [Threads -> {Idle} \cup Busy]
  /\ \A t \in Threads : ThreadOK(th[t])

\* A thread that works on a sandbox is not idle.
LEMMA BusyThread ==
  ASSUME ThreadsOK, NEW t \in Threads, NEW s \in Sandboxes, th[t].id = s
  PROVE  th[t] \in Busy /\ InPlace(th[t])
BY LifecycleAssumption DEF ThreadsOK, ThreadOK, Idle

\* A thread that goes on to another point of its operation.
LEMMA MoveThread ==
  ASSUME ThreadsOK, NEW t \in Threads, th[t].id \in Sandboxes,
         NEW p \in Points, Move(t, p), InPlace([th[t] EXCEPT !.at = p])
  PROVE  ThreadsOK' /\ th' = [th EXCEPT ![t] = [th[t] EXCEPT !.at = p]]
<1>1. th[t] \in Busy
  BY BusyThread
<1>2. [th[t] EXCEPT !.at = p] \in Busy
  BY <1>1 DEF Busy
<1>3. th' = [th EXCEPT ![t] = [th[t] EXCEPT !.at = p]]
  BY DEF Move, ThreadsOK
<1> QED
  BY <1>2, <1>3 DEF ThreadsOK, ThreadOK

\* One that also drops what it read.
LEMMA ForgetThread ==
  ASSUME ThreadsOK, NEW t \in Threads, th[t].id \in Sandboxes,
         NEW p \in Points, Forget(t, p),
         InPlace([th[t] EXCEPT !.at = p, !.seen = "absent"])
  PROVE  /\ ThreadsOK'
         /\ th' = [th EXCEPT ![t] = [th[t] EXCEPT !.at = p, !.seen = "absent"]]
<1>1. th[t] \in Busy
  BY BusyThread
<1>2. [th[t] EXCEPT !.at = p, !.seen = "absent"] \in Busy
  BY <1>1 DEF Busy, RowStates
<1>3. th' = [th EXCEPT ![t] = [th[t] EXCEPT !.at = p, !.seen = "absent"]]
  BY DEF Forget, ThreadsOK
<1> QED
  BY <1>2, <1>3 DEF ThreadsOK, ThreadOK

\* One that reads a row's state and goes on.
LEMMA ReadThread ==
  ASSUME ThreadsOK, NEW t \in Threads, th[t].id \in Sandboxes,
         NEW p \in Points, NEW st \in RowStates,
         th' = [th EXCEPT ![t].seen = st, ![t].at = p],
         InPlace([th[t] EXCEPT !.seen = st, !.at = p])
  PROVE  ThreadsOK' /\ th' = [th EXCEPT ![t] = [th[t] EXCEPT !.seen = st, !.at = p]]
<1>1. th[t] \in Busy
  BY BusyThread
<1>2. [th[t] EXCEPT !.seen = st, !.at = p] \in Busy
  BY <1>1 DEF Busy
<1>3. th' = [th EXCEPT ![t] = [th[t] EXCEPT !.seen = st, !.at = p]]
  BY DEF ThreadsOK
<1> QED
  BY <1>2, <1>3 DEF ThreadsOK, ThreadOK

\* One that ends, whatever it did.
LEMMA FinishThread ==
  ASSUME ThreadsOK, NEW t \in Threads, Finish(t)
  PROVE  ThreadsOK'
BY DEF ThreadsOK, ThreadOK, Finish

\* One that begins an operation.
LEMMA BeginThread ==
  ASSUME ThreadsOK, NEW t \in Threads, NEW r \in Busy, InPlace(r),
         th' = [th EXCEPT ![t] = r]
  PROVE  ThreadsOK'
BY DEF ThreadsOK, ThreadOK

-----------------------------------------------------------------------------
(* Types                                                                   *)

\* Everything but the threads.
RestOK ==
  /\ rows \in [Sandboxes -> Row]
  /\ box \in [Sandboxes -> Boxes]
  /\ expired \in [Sandboxes -> BOOLEAN]
  /\ abandoned \in [Sandboxes -> BOOLEAN]
  /\ cause \in [Sandboxes -> SUBSET Causes]
  /\ ops \in 0..MaxOps
  /\ faults \in 0..MaxFaults

TypeInv == RestOK /\ ThreadsOK

\* A fault, and an answer that never came, keep the fault counter in its bound.
LEMMA FaultType ==
  ASSUME RestOK, Fault
  PROVE  faults' \in 0..MaxFaults
BY LifecycleAssumption DEF RestOK, Fault

\* The same for a question to the gateway.
LEMMA AskType ==
  ASSUME RestOK, NEW s \in Sandboxes, NEW a, Ask(s, a)
  PROVE  faults' \in 0..MaxFaults
BY FaultType DEF RestOK, Ask

\* Writing down a cause keeps the history typed, and takes nothing out of it.
LEMMA NoteType ==
  ASSUME RestOK, NEW s \in Sandboxes, NEW why \in Causes, Note(s, why)
  PROVE  /\ cause' \in [Sandboxes -> SUBSET Causes]
         /\ \A x \in Sandboxes : cause[x] \subseteq cause'[x]
         /\ box[s] \in Alive => cause'[s] # {}
BY DEF RestOK, Note

\* The cold create keeps the types.
LEMMA CreateTypes ==
  ASSUME TypeInv, NEW t \in Threads, NEW s \in Sandboxes, Create(t, s)
  PROVE  TypeInv'
<1> USE DEF TypeInv
<1>1. ASSUME th[t].id = s PROVE th[t] \in Busy /\ InPlace(th[t])
  BY <1>1, BusyThread
<1>2. CASE CreateContainer(t, s)
  <2>1. CASE Move(t, "insert") /\ UNCHANGED <<cause, faults>>
             /\ box' = [box EXCEPT ![s] = "up"]
    <3>1. InPlace([th[t] EXCEPT !.at = "insert"])
      BY <1>1, <1>2 DEF CreateContainer, InPlace, Busy, At
    <3> QED
      BY <2>1, <3>1, <1>2, MoveThread DEF RestOK, Boxes, Alive, CreateContainer, rest, Points
  <2>2. CASE Fault /\ Finish(t) /\ UNCHANGED <<box, cause>>
    BY <2>2, <1>2, FinishThread, FaultType DEF RestOK, CreateContainer, rest
  <2>3. CASE /\ Fault /\ Finish(t)
             /\ box' = [box EXCEPT ![s] = "up"]
             /\ cause' = [cause EXCEPT ![s] = @ \cup {"create_lost"}]
    BY <2>3, <1>2, FinishThread, FaultType
       DEF RestOK, CreateContainer, rest, Boxes, Alive, Causes
  <2> QED
    BY <1>2, <2>1, <2>2, <2>3 DEF CreateContainer
<1>3. CASE InsertRow(t, s)
  <2>1. InPlace([th[t] EXCEPT !.at = "boot"])
    BY <1>1, <1>3 DEF InsertRow, InPlace, Busy, At
  <2>2. rows' \in [Sandboxes -> Row]
    <3>1. PICK c \in Clients : rows' = CreateRow(rows, s, "starting", FALSE, c)
      BY <1>3 DEF InsertRow
    <3>2. c \in Clients \cup {NoClient} /\ "starting" \in RowStates /\ FALSE \in BOOLEAN
      BY DEF RowStates
    <3>3. CreateRow(rows, s, "starting", FALSE, c) \in [Sandboxes -> Row]
      BY <3>2, CreateType DEF RestOK
    <3> QED
      BY <3>1, <3>3
  <2> QED
    BY <2>1, <2>2, <1>3, MoveThread DEF RestOK, InsertRow, rest, Points
<1>4. CASE BootDone(t, s)
  <2>1. rows' \in [Sandboxes -> Row]
    BY <1>4, UpdateType DEF BootDone, RestOK, RowStates
  <2> QED
    BY <2>1, <1>4, FinishThread DEF RestOK, BootDone, rest
<1>5. CASE BootFails(t, s)
  <2>1. th' = [th EXCEPT ![t] = [th[t] EXCEPT !.op = "kill", !.at = "begin"]]
    BY <1>5 DEF BootFails, ThreadsOK
  <2>2. /\ [th[t] EXCEPT !.op = "kill", !.at = "begin"] \in Busy
        /\ InPlace([th[t] EXCEPT !.op = "kill", !.at = "begin"])
    BY <1>1, <1>5 DEF BootFails, Busy, InPlace, Ops, Requests, Points
  <2>3. faults' \in 0..MaxFaults
    BY <1>5, FaultType DEF BootFails, RestOK
  <2> QED
    BY <2>1, <2>2, <2>3, <1>5, BeginThread DEF RestOK, BootFails, rest
<1> QED
  BY <1>2, <1>3, <1>4, <1>5 DEF Create

\* The probe, of requests and of reconcile, keeps them.
LEMMA ProbeTypes ==
  ASSUME TypeInv, NEW t \in Threads, NEW s \in Sandboxes, Probe(t, s)
  PROVE  TypeInv'
<1> USE DEF TypeInv
<1>1. ASSUME th[t].id = s PROVE th[t] \in Busy /\ InPlace(th[t])
  BY <1>1, BusyThread
<1>2. ASSUME th[t].id = s, th[t].at \in {"read", "check"}, ~Doing(t, "reconcile"), Passed(t)
      PROVE  ThreadsOK'
  <2>1. th[t].op \in {"probe", "refresh", "pause", "resume"}
    BY <1>1, <1>2 DEF InPlace, Busy, Ops, Requests, Doing
  <2>2. CASE Doing(t, "probe")
    <3>1. Finish(t)
      BY <1>2, <2>2 DEF Passed, Doing
    <3> QED
      BY <3>1, FinishThread
  <2>3. CASE Doing(t, "refresh")
    <3>1. InPlace([th[t] EXCEPT !.at = "look", !.seen = "absent"]) /\ Forget(t, "look")
      BY <1>1, <1>2, <2>3 DEF Passed, InPlace, Busy, Doing
    <3> QED
      BY <3>1, <1>2, ForgetThread DEF Points
  <2>4. CASE th[t].op \in {"pause", "resume"}
    <3>1. InPlace([th[t] EXCEPT !.at = "begin", !.seen = "absent"]) /\ Forget(t, "begin")
      BY <1>1, <1>2, <2>4 DEF Passed, InPlace, Busy, Doing
    <3> QED
      BY <3>1, <1>2, ForgetThread DEF Points
  <2> QED
    BY <2>1, <2>2, <2>3, <2>4 DEF Doing
<1>3. CASE ProbeRead(t, s)
  <2>0. ~Doing(t, "reconcile")
    BY <1>1, <1>3 DEF ProbeRead, InPlace, At, Doing
  <2>1. CASE ~Exists(rows, s)
    <3>1. Passed(t) /\ th[t].id = s /\ th[t].at \in {"read", "check"}
      <4>1. Passed(t)
        BY <1>3, <2>1 DEF ProbeRead, Exists
      <4> QED
        BY <1>3, <4>1 DEF ProbeRead, At
    <3>2. ThreadsOK'
      BY <1>2, <2>0, <3>1
    <3> QED
      BY <1>3, <3>2 DEF ProbeRead, RestOK, rest
  <2>2. CASE Exists(rows, s) /\ rows[s].state = "lost"
    BY <1>3, <2>2, FinishThread DEF ProbeRead, RestOK, rest
  <2>3. CASE Exists(rows, s) /\ rows[s].state # "lost"
    <3>1. th' = [th EXCEPT ![t].seen = rows[s].state, ![t].at = "check"]
      BY <1>3, <2>3 DEF ProbeRead
    <3>2. rows[s].state \in RowStates
      BY DEF RestOK, Row
    <3>3. InPlace([th[t] EXCEPT !.seen = rows[s].state, !.at = "check"])
      BY <1>1, <1>3, <2>0 DEF ProbeRead, InPlace, Busy, At, Doing
    <3>4. ThreadsOK'
      BY <3>1, <3>2, <3>3, <1>3, ReadThread DEF ProbeRead, Points
    <3> QED
      BY <3>4, <1>3 DEF ProbeRead, RestOK, rest
  <2> QED
    BY <2>1, <2>2, <2>3
<1>4. CASE ProbeCheck(t, s)
  <2>1. PICK a \in Answers :
          /\ Ask(s, a)
          /\ IF a = "unknown" \/ Matches(th[t].seen, a) THEN Passed(t) ELSE Forget(t, "mark")
    BY <1>4 DEF ProbeCheck
  <2>2. faults' \in 0..MaxFaults
    BY <2>1, AskType
  <2>3. CASE Passed(t)
    BY <1>2, <1>4, <2>2, <2>3 DEF ProbeCheck, At, RestOK, rest
  <2>4. CASE Forget(t, "mark")
    <3>1. InPlace([th[t] EXCEPT !.at = "mark", !.seen = "absent"])
      BY <1>1, <1>4 DEF ProbeCheck, InPlace, Busy, At, Doing
    <3> QED
      BY <1>4, <2>2, <2>4, <3>1, ForgetThread DEF ProbeCheck, Points, RestOK, rest
  <2> QED
    BY <2>1, <2>3, <2>4
<1>5. CASE MarkRowLost(t, s)
  <2>1. rows' \in [Sandboxes -> Row]
    BY <1>5, MarkLostType DEF MarkRowLost, RestOK
  <2> QED
    BY <2>1, <1>5, FinishThread DEF RestOK, MarkRowLost, rest
<1> QED
  BY <1>3, <1>4, <1>5 DEF Probe

\* A thread at a step that only pause and resume have.
LEMMA SwitchOp ==
  ASSUME ThreadsOK, NEW t \in Threads, NEW s \in Sandboxes, th[t].id = s,
         th[t].at \in {"announce", "confirm", "restore"}
  PROVE  /\ th[t].op \in {"pause", "resume"}
         /\ th[t].at # "confirm" => th[t].seen \in RowStates \ {"absent"}
BY BusyThread DEF InPlace, Busy, Ops, Requests

\* Pause and resume keep the types; what is written back is a state the row had.
LEMMA SwitchTypes ==
  ASSUME TypeInv, NEW t \in Threads, NEW s \in Sandboxes, Switch(t, s)
  PROVE  TypeInv'
<1> USE DEF TypeInv
<1>1. ASSUME th[t].id = s PROVE th[t] \in Busy /\ InPlace(th[t])
  BY <1>1, BusyThread
<1>2. CASE SwitchBegin(t, s)
  <2>1. CASE Exists(rows, s)
    <3>1. th' = [th EXCEPT ![t].seen = rows[s].state, ![t].at = "announce"]
      BY <1>2, <2>1 DEF SwitchBegin
    <3>2. rows[s].state \in RowStates
      BY DEF RestOK, Row
    <3>3. InPlace([th[t] EXCEPT !.seen = rows[s].state, !.at = "announce"])
      BY <1>1, <1>2, <2>1 DEF SwitchBegin, InPlace, Busy, Exists
    <3>4. ThreadsOK'
      BY <3>1, <3>2, <3>3, <1>2, ReadThread DEF SwitchBegin, Points
    <3> QED
      BY <3>4, <1>2 DEF SwitchBegin, RestOK, rest
  <2>2. CASE ~Exists(rows, s)
    BY <1>2, <2>2, FinishThread DEF SwitchBegin, RestOK, rest
  <2> QED
    BY <2>1, <2>2
<1>3. CASE SwitchAnnounce(t, s)
  <2>1. InPlace([th[t] EXCEPT !.at = "call"])
    BY <1>1, <1>3, SwitchOp DEF SwitchAnnounce, InPlace, Busy, At
  <2>2. rows' \in [Sandboxes -> Row]
    BY <1>3, UpdateType DEF SwitchAnnounce, RestOK, RowStates
  <2> QED
    BY <1>3, <2>1, <2>2, MoveThread DEF SwitchAnnounce, RestOK, rest, Points
<1>4. CASE SwitchCall(t, s)
  <2>1. box' \in [Sandboxes -> Boxes]
    BY <1>4 DEF SwitchCall, RestOK, To, Boxes, Alive
  <2>2. faults' \in 0..MaxFaults
    BY <1>4, FaultType DEF SwitchCall, RestOK
  <2>3. /\ InPlace([th[t] EXCEPT !.at = "confirm", !.seen = "absent"])
        /\ InPlace([th[t] EXCEPT !.at = "look"])
    BY <1>1, <1>4 DEF SwitchCall, InPlace, Busy, At
  <2>4. Forget(t, "confirm") \/ Move(t, "look")
    BY <1>4 DEF SwitchCall
  <2>5. ThreadsOK'
    BY <1>4, <2>3, <2>4, MoveThread, ForgetThread DEF SwitchCall, Points
  <2> QED
    BY <1>4, <2>1, <2>2, <2>5 DEF SwitchCall, RestOK, rest
<1>5. CASE SwitchLook(t, s)
  <2>1. PICK a \in Answers :
          /\ Ask(s, a)
          /\ IF a = StateOf(To(t)) THEN Forget(t, "confirm") ELSE Move(t, "restore")
    BY <1>5 DEF SwitchLook
  <2>2. faults' \in 0..MaxFaults
    BY <2>1, AskType
  <2>3. /\ InPlace([th[t] EXCEPT !.at = "confirm", !.seen = "absent"])
        /\ InPlace([th[t] EXCEPT !.at = "restore"])
    BY <1>1, <1>5 DEF SwitchLook, InPlace, Busy, At
  <2>5. ThreadsOK'
    BY <1>5, <2>1, <2>3, MoveThread, ForgetThread DEF SwitchLook, Points
  <2> QED
    BY <1>5, <2>2, <2>5 DEF SwitchLook, RestOK, rest
<1>6. CASE SwitchConfirm(t, s)
  <2>1. rows' \in [Sandboxes -> Row]
    BY <1>6, UpdateType DEF SwitchConfirm, RestOK, RowStates
  <2> QED
    BY <2>1, <1>6, FinishThread DEF RestOK, SwitchConfirm, rest
<1>7. CASE SwitchRestore(t, s)
  <2>1. rows' \in [Sandboxes -> Row]
    BY <1>7, SwitchOp, UpdateType DEF SwitchRestore, RestOK, At
  <2> QED
    BY <2>1, <1>7, FinishThread DEF RestOK, SwitchRestore, rest
<1> QED
  BY <1>2, <1>3, <1>4, <1>5, <1>6, <1>7 DEF Switch

\* The timeout refresh keeps the types.
LEMMA RefreshTypes ==
  ASSUME TypeInv, NEW t \in Threads, NEW s \in Sandboxes, Refresh(t, s)
  PROVE  TypeInv'
<1> USE DEF TypeInv
<1>1. ASSUME th[t].id = s PROVE th[t] \in Busy /\ InPlace(th[t])
  BY <1>1, BusyThread
<1>2. CASE RefreshBegin(t, s)
  <2>1. InPlace([th[t] EXCEPT !.at = "read"])
    BY <1>1, <1>2 DEF RefreshBegin, InPlace, Busy, At, Doing
  <2>2. ThreadsOK'
    BY <1>2, <2>1, MoveThread, FinishThread DEF RefreshBegin, Points
  <2> QED
    BY <1>2, <2>2 DEF RefreshBegin, RestOK, rest
<1>3. CASE RefreshLook(t, s)
  <2>1. PICK a \in Answers :
          Ask(s, a) /\ IF a = "running" THEN Move(t, "extend") ELSE Finish(t)
    BY <1>3 DEF RefreshLook
  <2>2. InPlace([th[t] EXCEPT !.at = "extend"])
    BY <1>1, <1>3 DEF RefreshLook, InPlace, Busy, At, Doing
  <2>3. ThreadsOK'
    BY <1>3, <2>1, <2>2, MoveThread, FinishThread DEF RefreshLook, Points
  <2>4. faults' \in 0..MaxFaults
    BY <2>1, AskType
  <2> QED
    BY <1>3, <2>3, <2>4 DEF RefreshLook, RestOK, rest
<1>4. CASE RefreshExtend(t, s)
  BY <1>4, FinishThread DEF RefreshExtend, RestOK, Exists
<1> QED
  BY <1>2, <1>3, <1>4 DEF Refresh

\* What a kill may have done to the container.
LEMMA KillBox ==
  ASSUME TypeInv, NEW t \in Threads, NEW s \in Sandboxes, KillCall(t, s)
  PROVE  /\ box' = box \/ box' = [box EXCEPT ![s] = "gone"]
         /\ Move(t, "killed") \/ Move(t, "look")
         /\ faults' \in 0..MaxFaults
<1>1. box \in [Sandboxes -> Boxes] /\ faults \in 0..MaxFaults
  BY DEF TypeInv, RestOK
<1> QED
  BY <1>1, FaultType DEF KillCall, TypeInv

\* The kill keeps the types.
LEMMA KillTypes ==
  ASSUME TypeInv, NEW t \in Threads, NEW s \in Sandboxes, Kill(t, s)
  PROVE  TypeInv'
<1> USE DEF TypeInv
<1>1. ASSUME th[t].id = s PROVE th[t] \in Busy /\ InPlace(th[t])
  BY <1>1, BusyThread
<1>2. CASE KillBegin(t, s)
  <2>1. InPlace([th[t] EXCEPT !.at = "call"])
    BY <1>1, <1>2 DEF KillBegin, Killing, InPlace, Busy, At
  <2>2. Move(t, "call") \/ Finish(t)
    BY <1>2 DEF KillBegin
  <2>3. ThreadsOK'
    BY <1>2, <2>1, <2>2, MoveThread, FinishThread DEF KillBegin, Points
  <2> QED
    BY <1>2, <2>3 DEF KillBegin, RestOK, rest
<1>3. CASE KillCall(t, s)
  <2>1. /\ InPlace([th[t] EXCEPT !.at = "killed"])
        /\ InPlace([th[t] EXCEPT !.at = "look"])
    BY <1>1, <1>3 DEF KillCall, Killing, InPlace, Busy, At
  <2>2. ThreadsOK'
    BY <1>3, <2>1, KillBox, MoveThread DEF KillCall, Points
  <2>3. box' \in [Sandboxes -> Boxes]
    BY <1>3, KillBox DEF RestOK, Boxes
  <2> QED
    BY <1>3, <2>2, <2>3, KillBox DEF KillCall, RestOK, rest
<1>4. CASE KillLook(t, s)
  <2>1. PICK a \in Answers :
          /\ Ask(s, a)
          /\ IF a = "running" THEN Finish(t) ELSE Move(t, "killed")
          /\ CASE a = "unknown" -> Note(s, "kill_unanswered")
               [] a = "paused"  -> Note(s, "kill_paused")
               [] OTHER         -> UNCHANGED cause
    BY <1>4 DEF KillLook
  <2>2. InPlace([th[t] EXCEPT !.at = "killed"])
    BY <1>1, <1>4 DEF KillLook, Killing, InPlace, Busy, At
  <2>3. ThreadsOK'
    BY <1>4, <2>1, <2>2, MoveThread, FinishThread DEF KillLook, Points
  <2>4. faults' \in 0..MaxFaults
    BY <2>1, AskType
  <2>5. cause' \in [Sandboxes -> SUBSET Causes]
    BY <2>1, NoteType DEF Causes, RestOK, Note
  <2> QED
    BY <1>4, <2>3, <2>4, <2>5 DEF KillLook, RestOK, rest
<1>5. CASE KillMark(t, s)
  <2>1. rows' \in [Sandboxes -> Row]
    BY <1>5, UpdateType DEF KillMark, RestOK, RowStates
  <2>2. InPlace([th[t] EXCEPT !.at = "delete"])
    BY <1>1, <1>5 DEF KillMark, InPlace, Busy, At, Ops, Requests
  <2> QED
    BY <1>5, <2>1, <2>2, MoveThread DEF KillMark, Points, RestOK, rest
<1>6. CASE KillDelete(t, s)
  <2>1. rows' \in [Sandboxes -> Row]
    BY <1>6, DeleteType DEF KillDelete, RestOK
  <2> QED
    BY <1>6, <2>1, FinishThread DEF KillDelete, RestOK, rest
<1> QED
  BY <1>2, <1>3, <1>4, <1>5, <1>6 DEF Kill

\* The two steps of reconcile that the probe does not have keep them.
LEMMA ReconcileTypes ==
  ASSUME TypeInv, NEW t \in Threads, NEW s \in Sandboxes,
         ReconcileCheck(t, s) \/ ReconcilePromote(t, s)
  PROVE  TypeInv'
<1> USE DEF TypeInv
<1>1. ASSUME th[t].id = s PROVE th[t] \in Busy /\ InPlace(th[t])
  BY <1>1, BusyThread
<1>2. CASE ReconcileCheck(t, s)
  <2>1. PICK a \in Answers :
          /\ Ask(s, a)
          /\ CASE a = "unknown" -> Finish(t)
               [] Matches(th[t].seen, a) ->
                    IF th[t].seen = "starting" THEN Forget(t, "promote") ELSE Finish(t)
               [] OTHER -> Forget(t, "mark")
    BY <1>2 DEF ReconcileCheck
  <2>2. Finish(t) \/ Forget(t, "promote") \/ Forget(t, "mark")
    BY <2>1 DEF Matches, Finish, Forget
  <2>3. /\ InPlace([th[t] EXCEPT !.at = "promote", !.seen = "absent"])
        /\ InPlace([th[t] EXCEPT !.at = "mark", !.seen = "absent"])
    BY <1>1, <1>2 DEF ReconcileCheck, InPlace, Busy, At, Doing
  <2>4. ThreadsOK'
    BY <1>2, <2>2, <2>3, ForgetThread, FinishThread DEF ReconcileCheck, Points
  <2>5. faults' \in 0..MaxFaults
    BY <2>1, AskType
  <2> QED
    BY <1>2, <2>4, <2>5 DEF ReconcileCheck, RestOK, rest
<1>3. CASE ReconcilePromote(t, s)
  <2>1. rows' \in [Sandboxes -> Row]
    BY <1>3, UpdateType DEF ReconcilePromote, RestOK, RowStates
  <2> QED
    BY <1>3, <2>1, FinishThread DEF ReconcilePromote, RestOK, rest
<1> QED
  BY <1>2, <1>3

\* A request, or a pass of the maintenance thread, that begins keeps them.
LEMMA BeginTypes ==
  ASSUME TypeInv, NEW t \in Threads, NEW s \in Sandboxes,
         \/ StartCreate(t, s) \/ GiveUp(t, s) \/ StartRequest(t, s)
         \/ ListForReconcile(t, s) \/ ListForReap(t, s)
  PROVE  TypeInv'
<1> USE DEF TypeInv
<1>0. rows[s].state \in RowStates /\ "absent" \in RowStates
  BY DEF RestOK, Row, RowStates
<1>1. CASE StartCreate(t, s)
  <2> DEFINE r == [op |-> "create", at |-> "queued", id |-> s, seen |-> "absent"]
  <2>1. r \in Busy /\ InPlace(r)
    BY <1>0 DEF Busy, InPlace, Ops, Points
  <2>2. ThreadsOK'
    BY <1>1, <2>1, BeginThread DEF StartCreate
  <2>3. ops' \in 0..MaxOps
    BY <1>1, LifecycleAssumption DEF StartCreate, RestOK
  <2> QED
    BY <1>1, <2>2, <2>3 DEF StartCreate, RestOK
<1>2. CASE GiveUp(t, s)
  <2>1. CASE UNCHANGED th
    BY <1>2, <2>1, ZenonT(60) DEF GiveUp, RestOK, ThreadsOK
  <2>2. CASE Finish(t) /\ UNCHANGED abandoned
    BY <1>2, <2>2, FinishThread DEF GiveUp, RestOK
  <2> QED
    BY <1>2, <2>1, <2>2 DEF GiveUp
<1>3. CASE StartRequest(t, s)
  <2>1. PICK op \in Requests :
          th' = [th EXCEPT ![t] =
            [op |-> op, at |-> IF op \in {"kill", "refresh"} THEN "begin" ELSE "read",
             id |-> s, seen |-> "absent"]]
    BY <1>3 DEF StartRequest
  <2> DEFINE r == [op |-> op, at |-> IF op \in {"kill", "refresh"} THEN "begin" ELSE "read",
                   id |-> s, seen |-> "absent"]
  <2>2. r \in Busy /\ InPlace(r)
    BY <1>0 DEF Busy, InPlace, Ops, Requests, Points
  <2>3. ThreadsOK'
    BY <2>1, <2>2, BeginThread
  <2>4. ops' \in 0..MaxOps
    BY <1>3, LifecycleAssumption DEF StartRequest, RestOK
  <2> QED
    BY <1>3, <2>3, <2>4 DEF StartRequest, RestOK
<1>4. CASE ListForReconcile(t, s)
  <2>1. /\ [op |-> "reconcile", at |-> "check", id |-> s, seen |-> rows[s].state] \in Busy
        /\ InPlace([op |-> "reconcile", at |-> "check", id |-> s, seen |-> rows[s].state])
        /\ [op |-> "reconcile", at |-> "mark", id |-> s, seen |-> "absent"] \in Busy
        /\ InPlace([op |-> "reconcile", at |-> "mark", id |-> s, seen |-> "absent"])
    BY <1>0 DEF Busy, InPlace, Ops, Points
  <2>2. ThreadsOK'
    BY <1>4, <2>1, BeginThread DEF ListForReconcile
  <2>3. faults' \in 0..MaxFaults
    BY <1>4, FaultType DEF ListForReconcile, RestOK
  <2> QED
    BY <1>4, <2>2, <2>3 DEF ListForReconcile, RestOK, rest
<1>5. CASE ListForReap(t, s)
  <2> DEFINE r == [op |-> "reap", at |-> "begin", id |-> s, seen |-> "absent"]
  <2>1. r \in Busy /\ InPlace(r)
    BY <1>0 DEF Busy, InPlace, Ops, Points
  <2>2. ThreadsOK'
    BY <1>5, <2>1, BeginThread DEF ListForReap
  <2> QED
    BY <1>5, <2>2 DEF ListForReap, RestOK, rest
<1> QED
  BY <1>1, <1>2, <1>3, <1>4, <1>5

\* So do crashes, the purge and what happens to leases and containers.
LEMMA WorldTypes ==
  ASSUME TypeInv,
         \/ \E t \in Threads : Crash(t)
         \/ \E s \in Sandboxes :
              Purge(s) \/ LeaseExpires(s) \/ ContainerDies(s) \/ PruneExited(s)
  PROVE  TypeInv'
<1> USE DEF TypeInv
<1>1. ASSUME NEW t \in Threads, Crash(t) PROVE TypeInv'
  <2>1. ThreadsOK'
    BY <1>1, FinishThread DEF Crash
  <2>2. faults' \in 0..MaxFaults
    BY <1>1, FaultType DEF Crash
  <2>3. cause' \in [Sandboxes -> SUBSET Causes]
    BY <1>1 DEF Crash, Note, RestOK, Causes
  <2> QED
    BY <1>1, <2>1, <2>2, <2>3 DEF Crash, RestOK, rest
<1>2. ASSUME NEW s \in Sandboxes, Purge(s) PROVE TypeInv'
  <2>1. rows' \in [Sandboxes -> Row]
    BY <1>2, DeleteType DEF Purge, RestOK
  <2>2. cause' \in [Sandboxes -> SUBSET Causes]
    BY <1>2 DEF Purge, Note, RestOK, Causes
  <2> QED
    BY <1>2, <2>1, <2>2 DEF Purge, RestOK, rest, ThreadsOK
<1>3. ASSUME NEW s \in Sandboxes, LeaseExpires(s) PROVE TypeInv'
  BY <1>3 DEF LeaseExpires, RestOK, ThreadsOK
<1>4. ASSUME NEW s \in Sandboxes, ContainerDies(s) PROVE TypeInv'
  <2>1. box' \in [Sandboxes -> Boxes]
    BY <1>4 DEF ContainerDies, RestOK, Boxes
  <2> QED
    BY <1>4, <2>1, FaultType DEF ContainerDies, RestOK, rest, ThreadsOK
<1>5. ASSUME NEW s \in Sandboxes, PruneExited(s) PROVE TypeInv'
  BY <1>5 DEF PruneExited, RestOK, Boxes, rest, ThreadsOK
<1> QED
  BY <1>1, <1>2, <1>3, <1>4, <1>5

\* TypeInv is inductive.
LEMMA TypeStep ==
  ASSUME TypeInv, [Next]_vars
  PROVE  TypeInv'
<1>1. ASSUME NEW t \in Threads, NEW s \in Sandboxes,
             \/ Create(t, s) \/ Probe(t, s) \/ Switch(t, s) \/ Refresh(t, s) \/ Kill(t, s)
             \/ ReconcileCheck(t, s) \/ ReconcilePromote(t, s)
      PROVE  TypeInv'
  BY <1>1, CreateTypes, ProbeTypes, SwitchTypes, RefreshTypes, KillTypes, ReconcileTypes
<1>2. CASE UNCHANGED vars
  BY <1>2 DEF vars, TypeInv, RestOK, ThreadsOK
<1>3. Handlers \subseteq Threads /\ Maintainers \subseteq Threads
  BY DEF Threads
<1> QED
  BY <1>1, <1>2, <1>3, BeginTypes, WorldTypes DEF Next, Step

\* The first state is well-typed.
LEMMA TypeInit == Init => TypeInv
BY AbsentType, LifecycleAssumption
   DEF Init, TypeInv, RestOK, ThreadsOK, ThreadOK, Boxes, Causes

\* Rows, containers, threads and history stay in their ranges; no thread is ever at a
\* point that its operation does not have.
THEOREM TypeInvariance == Spec => []TypeOK
<1>1. TypeInv => TypeOK
  BY DEF TypeInv, RestOK, ThreadsOK, TypeOK, Busy
<1> QED
  BY <1>1, TypeInit, TypeStep, PTL DEF Spec

-----------------------------------------------------------------------------
(* A deleted row stays deleted                                             *)

\* Only the insert of a cold create brings a row, and it brings its own.
LEMMA RowAppears ==
  ASSUME TypeInv, [Next]_vars, NEW x \in Sandboxes, ~Exists(rows, x), Exists(rows, x)'
  PROVE  \E t \in Threads : InsertRow(t, x)
<1> SUFFICES ASSUME \A t \in Threads : ~InsertRow(t, x)
             PROVE  FALSE
  OBVIOUS
<1>0. rows \in [Sandboxes -> Row] /\ ThreadsOK
  BY DEF TypeInv, RestOK
<1>1. CASE Keeps(rows, rows')
  BY <1>1 DEF Keeps, Exists, Absent
<1>2. ASSUME NEW t \in Threads, NEW s \in Sandboxes, InsertRow(t, s)
      PROVE  FALSE
  <2>1. PICK c \in Clients : rows' = CreateRow(rows, s, "starting", FALSE, c)
    BY <1>2 DEF InsertRow
  <2>2. s # x
    BY <1>2
  <2> QED
    BY <1>0, <2>1, <2>2 DEF CreateRow, Exists
<1>3. CASE UNCHANGED rows
  BY <1>3 DEF Exists
<1>4. ASSUME NEW s \in Sandboxes, NEW st \in RowStates \ {"absent"},
             rows' = UpdateState(rows, s, st)
      PROVE  FALSE
  BY <1>0, <1>1, <1>4, UpdateKeeps
<1>5. ASSUME NEW t \in Threads, NEW s \in Sandboxes,
             \/ Create(t, s) \/ Probe(t, s) \/ Switch(t, s) \/ Refresh(t, s) \/ Kill(t, s)
             \/ ReconcileCheck(t, s) \/ ReconcilePromote(t, s)
      PROVE  FALSE
  <2>0. {"starting", "running", "pausing", "paused", "resuming", "killed"}
          \subseteq RowStates \ {"absent"}
    BY DEF RowStates
  <2>1. CASE Create(t, s)
    BY <1>2, <1>3, <1>4, <2>0, <2>1 DEF Create, CreateContainer, BootDone, BootFails
  <2>2. CASE Probe(t, s)
    BY <1>0, <1>1, <1>3, <2>2, MarkLostKeeps DEF Probe, ProbeRead, ProbeCheck, MarkRowLost
  <2>3. CASE Switch(t, s)
    <3>1. CASE SwitchRestore(t, s)
      BY <1>0, <1>4, <3>1, SwitchOp DEF SwitchRestore, At
    <3> QED
      BY <1>3, <1>4, <2>0, <2>3, <3>1
         DEF Switch, SwitchBegin, SwitchAnnounce, SwitchCall, SwitchLook, SwitchConfirm
  <2>4. CASE Refresh(t, s)
    BY <1>3, <2>4 DEF Refresh, RefreshBegin, RefreshLook, RefreshExtend
  <2>5. CASE Kill(t, s)
    BY <1>0, <1>1, <1>3, <1>4, <2>0, <2>5, DeleteKeeps
       DEF Kill, KillBegin, KillCall, KillLook, KillMark, KillDelete
  <2>6. CASE ReconcileCheck(t, s) \/ ReconcilePromote(t, s)
    BY <1>3, <1>4, <2>0, <2>6 DEF ReconcileCheck, ReconcilePromote
  <2> QED
    BY <1>5, <2>1, <2>2, <2>3, <2>4, <2>5, <2>6
<1>6. ASSUME NEW s \in Sandboxes, Purge(s)
      PROVE  FALSE
  BY <1>0, <1>1, <1>6, DeleteKeeps DEF Purge
<1> QED
  BY <1>3, <1>5, <1>6
     DEF Next, Step, Crash, StartCreate, GiveUp, StartRequest, ListForReconcile, ListForReap,
         LeaseExpires, ContainerDies, PruneExited, vars

\* A row that was deleted never returns, whatever a pause, a resume, a probe, a kill or a
\* reconcile that read it before still has to write.
THEOREM DeletionIsFinal == Spec => DeletionFinal
<1>1. ASSUME TypeInv, [Next]_vars, NEW s \in Sandboxes,
             box[s] # "none", ~Creating(s), ~Exists(rows, s)
      PROVE  ~Exists(rows, s)'
  <2> SUFFICES ASSUME Exists(rows, s)' PROVE FALSE
    OBVIOUS
  <2>1. PICK t \in Threads : InsertRow(t, s)
    BY <1>1, RowAppears
  <2>2. th[t].id = s /\ th[t].at = "insert"
    BY <2>1 DEF InsertRow, At
  <2>3. InPlace(th[t]) /\ th[t] \in Busy
    BY <1>1, <2>2, BusyThread DEF TypeInv
  <2>4. th[t].op = "create"
    BY <2>2, <2>3 DEF InPlace, Busy, Ops, Requests
  <2> QED
    BY <1>1, <2>2, <2>4 DEF Creating
<1>2. TypeInv /\ [Next]_vars =>
        [\A s \in Sandboxes :
           box[s] # "none" /\ ~Creating(s) /\ ~Exists(rows, s) => ~Exists(rows, s)']_vars
  BY <1>1
<1> QED
  BY <1>2, TypeInit, TypeStep, PTL DEF Spec, DeletionFinal

-----------------------------------------------------------------------------
(* No container is orphaned without a reason                               *)

\* A create that waits for its container has the sandbox to itself.
QueuedAlone ==
  \A t \in Threads : At(t, "queued") =>
    /\ box[th[t].id] = "none" /\ ~Exists(rows, th[t].id)
    /\ \A u \in Threads \ {t} : th[u].id # th[t].id

\* A kill that goes on to the row has seen the container end, or its cause is noted.
KilledIsDead ==
  \A t \in Threads : th[t].at \in {"killed", "delete"} =>
    box[th[t].id] \notin Alive \/ cause[th[t].id] # {}

\* A live container without a row has a cause, or its create is about to insert the row.
OrphanKnown ==
  \A s \in Sandboxes : box[s] \in Alive /\ ~Exists(rows, s) =>
    cause[s] # {} \/ \E t \in Threads : th[t].id = s /\ At(t, "insert")

OrphanInv == TypeInv /\ QueuedAlone /\ KilledIsDead /\ OrphanKnown

\* What most steps have in common: no row appears or goes, no container comes to life,
\* no cause is forgotten ...
TablesKept ==
  \A s \in Sandboxes :
    /\ Exists(rows', s) <=> Exists(rows, s)
    /\ box'[s] \in Alive => box[s] \in Alive
    /\ box[s] = "none" => box'[s] = "none"
    /\ cause[s] \subseteq cause'[s]

\* ... and no thread comes to or leaves the points the invariant is about, unless it
\* ends, or begins on a sandbox that has a row.
ThreadsKept ==
  \A t \in Threads :
    /\ th'[t].at \in {"queued", "killed", "delete"} \/ th[t].at = "insert" => th'[t] = th[t]
    /\ th'[t] = Idle \/ th'[t].id = th[t].id \/ Exists(rows, th'[t].id)

\* Such a step keeps the invariant.
LEMMA PlainKeeps ==
  ASSUME OrphanInv, TypeInv', TablesKept, ThreadsKept
  PROVE  OrphanInv'
<1>1. \A u \in Threads : th[u] = Idle \/ th[u].id \in Sandboxes
  BY DEF OrphanInv, TypeInv, ThreadsOK, Busy
<1>3. QueuedAlone'
  <2>1. SUFFICES ASSUME NEW u \in Threads, th'[u].at = "queued"
                 PROVE  /\ box'[th'[u].id] = "none" /\ ~Exists(rows', th'[u].id)
                        /\ \A v \in Threads \ {u} : th'[v].id # th'[u].id
    BY DEF QueuedAlone, At
  <2>2. th'[u] = th[u]
    BY <2>1 DEF ThreadsKept
  <2>3. th[u].id \in Sandboxes
    BY <1>1, <2>1, <2>2 DEF Idle
  <2>4. /\ box[th[u].id] = "none" /\ ~Exists(rows, th[u].id)
        /\ \A v \in Threads \ {u} : th[v].id # th[u].id
    BY <2>1, <2>2 DEF OrphanInv, QueuedAlone, At
  <2>5. \A v \in Threads \ {u} : th'[v].id # th[u].id
    BY <2>3, <2>4, LifecycleAssumption DEF ThreadsKept, Idle
  <2> QED
    BY <2>2, <2>3, <2>4, <2>5 DEF TablesKept
<1>4. KilledIsDead'
  <2>1. SUFFICES ASSUME NEW u \in Threads, th'[u].at \in {"killed", "delete"}
                 PROVE  box'[th'[u].id] \notin Alive \/ cause'[th'[u].id] # {}
    BY DEF KilledIsDead
  <2>2. th'[u] = th[u]
    BY <2>1 DEF ThreadsKept
  <2>3. th[u].id \in Sandboxes
    BY <1>1, <2>1, <2>2 DEF Idle
  <2> QED
    BY <2>1, <2>2, <2>3 DEF OrphanInv, KilledIsDead, TablesKept
<1>5. OrphanKnown'
  <2>1. SUFFICES ASSUME NEW s \in Sandboxes, box'[s] \in Alive, ~Exists(rows', s)
                 PROVE  cause'[s] # {} \/ \E u \in Threads : th'[u].id = s /\ th'[u].at = "insert"
    BY DEF OrphanKnown, At
  <2>2. box[s] \in Alive /\ ~Exists(rows, s) /\ cause[s] \subseteq cause'[s]
    BY <2>1 DEF TablesKept
  <2>3. CASE cause[s] # {}
    BY <2>2, <2>3
  <2>4. ASSUME NEW u \in Threads, th[u].id = s, th[u].at = "insert"
        PROVE  th'[u].id = s /\ th'[u].at = "insert"
    BY <2>4 DEF ThreadsKept
  <2> QED
    BY <2>2, <2>3, <2>4 DEF OrphanInv, OrphanKnown, At
<1> QED
  BY <1>3, <1>4, <1>5 DEF OrphanInv

\* A thread that goes on or ends, at points the invariant is not about.
LEMMA ThreadMoves ==
  ASSUME TypeInv, NEW t \in Threads, th[t].id \in Sandboxes, th[t].at # "insert",
         NEW p \in Points \ {"queued", "killed", "delete"}, NEW st \in RowStates,
         \/ Move(t, p) \/ Forget(t, p) \/ Finish(t)
         \/ th' = [th EXCEPT ![t].seen = st, ![t].at = p]
  PROVE  ThreadsKept
<1>1. th[t] \in Busy /\ th \in [Threads -> {Idle} \cup Busy]
  BY BusyThread DEF TypeInv, ThreadsOK
<1>2. CASE Finish(t)
  BY <1>1, <1>2 DEF Finish, ThreadsKept, Idle
<1>3. CASE Move(t, p) \/ Forget(t, p) \/ th' = [th EXCEPT ![t].seen = st, ![t].at = p]
  <2>1. th'[t].at = p /\ th'[t].id = th[t].id
    BY <1>1, <1>3 DEF Move, Forget, Busy
  <2>2. \A u \in Threads \ {t} : th'[u] = th[u]
    BY <1>1, <1>3 DEF Move, Forget
  <2> QED
    BY <2>1, <2>2 DEF ThreadsKept
<1> QED
  BY <1>2, <1>3

\* Statements and calls that leave every row in place and wake no container.
LEMMA TablesStay ==
  ASSUME TypeInv, cause' = cause,
         \/ rows' = rows
         \/ \E s \in Sandboxes, st \in RowStates \ {"absent"} : rows' = UpdateState(rows, s, st)
         \/ \E S \in SUBSET Sandboxes : rows' = MarkLost(rows, S),
         \/ box' = box
         \/ \E s \in Sandboxes, b \in Boxes :
              /\ box' = [box EXCEPT ![s] = b]
              /\ box[s] # "none" /\ (b \in Alive => box[s] \in Alive)
  PROVE  TablesKept
<1>1. rows \in [Sandboxes -> Row] /\ box \in [Sandboxes -> Boxes]
  BY DEF TypeInv, RestOK
<1>2. ASSUME NEW x \in Sandboxes
      PROVE  Exists(rows', x) <=> Exists(rows, x)
  BY <1>1, UpdateExists, MarkLostExists
<1> QED
  BY <1>1, <1>2 DEF TablesKept

\* The boot of a created sandbox is such a step.
LEMMA BootPlain ==
  ASSUME TypeInv, NEW t \in Threads, NEW s \in Sandboxes, BootDone(t, s) \/ BootFails(t, s)
  PROVE  TablesKept /\ ThreadsKept
<1>0. "running" \in RowStates \ {"absent"} /\ "boot" \in Points \ {"queued", "killed", "delete"}
  BY DEF RowStates, Points
<1>1. CASE BootDone(t, s)
  BY <1>0, <1>1, ThreadMoves, TablesStay DEF BootDone, At
<1>2. CASE BootFails(t, s)
  <2>1. th[t] \in Busy /\ th \in [Threads -> {Idle} \cup Busy]
    BY <1>2, BusyThread DEF BootFails, TypeInv, ThreadsOK
  <2>2. th'[t].at = "begin" /\ th'[t].id = th[t].id
    BY <1>2, <2>1 DEF BootFails, Busy
  <2>3. \A u \in Threads \ {t} : th'[u] = th[u]
    BY <1>2, <2>1 DEF BootFails
  <2> QED
    BY <1>2, <2>2, <2>3, TablesStay DEF BootFails, ThreadsKept, At
<1> QED
  BY <1>1, <1>2

\* So is every step of the probe and of reconcile ...
LEMMA ProbePlain ==
  ASSUME TypeInv, NEW t \in Threads, NEW s \in Sandboxes,
         Probe(t, s) \/ ReconcileCheck(t, s) \/ ReconcilePromote(t, s)
  PROVE  TablesKept /\ ThreadsKept
<1>0. /\ "running" \in RowStates \ {"absent"} /\ rows[s].state \in RowStates
      /\ {"look", "begin", "check", "mark", "promote"} \subseteq Points \ {"queued", "killed", "delete"}
      /\ {s} \in SUBSET Sandboxes
  BY DEF RowStates, Points, TypeInv, RestOK, Row
<1>1. ASSUME Passed(t)
      PROVE  Finish(t) \/ Forget(t, "look") \/ Forget(t, "begin")
  BY <1>1 DEF Passed, Doing
<1>2. CASE ProbeRead(t, s)
  <2>1. \/ Finish(t) \/ Forget(t, "look") \/ Forget(t, "begin")
        \/ th' = [th EXCEPT ![t].seen = rows[s].state, ![t].at = "check"]
    BY <1>1, <1>2 DEF ProbeRead, Exists
  <2> QED
    BY <1>0, <1>2, <2>1, ThreadMoves, TablesStay DEF ProbeRead, At
<1>3. CASE ProbeCheck(t, s)
  <2>1. \/ Finish(t) \/ Forget(t, "look") \/ Forget(t, "begin") \/ Forget(t, "mark")
    BY <1>1, <1>3 DEF ProbeCheck
  <2> QED
    BY <1>0, <1>3, <2>1, ThreadMoves, TablesStay DEF ProbeCheck, At
<1>4. CASE MarkRowLost(t, s)
  BY <1>0, <1>4, ThreadMoves, TablesStay DEF MarkRowLost, At
<1>5. CASE ReconcileCheck(t, s)
  <2>1. \/ Finish(t) \/ Forget(t, "promote") \/ Forget(t, "mark")
    BY <1>5 DEF ReconcileCheck, Matches
  <2> QED
    BY <1>0, <1>5, <2>1, ThreadMoves, TablesStay DEF ReconcileCheck, At
<1>6. CASE ReconcilePromote(t, s)
  BY <1>0, <1>6, ThreadMoves, TablesStay DEF ReconcilePromote, At
<1> QED
  BY <1>2, <1>3, <1>4, <1>5, <1>6 DEF Probe

\* ... of a pause, a resume and a timeout refresh, and the first look of a kill.
LEMMA SwitchPlain ==
  ASSUME TypeInv, NEW t \in Threads, NEW s \in Sandboxes,
         Switch(t, s) \/ Refresh(t, s) \/ KillBegin(t, s)
  PROVE  TablesKept /\ ThreadsKept
<1>0. /\ {"running", "paused", "pausing", "resuming"} \subseteq RowStates \ {"absent"}
      /\ rows[s].state \in RowStates
      /\ {"announce", "call", "look", "confirm", "restore", "read", "extend"}
           \subseteq Points \ {"queued", "killed", "delete"}
      /\ {"up", "paused"} \subseteq Boxes
      /\ box \in [Sandboxes -> Boxes]
  BY DEF RowStates, Points, TypeInv, RestOK, Row, Boxes, Alive
<1>1. CASE SwitchBegin(t, s)
  BY <1>0, <1>1, ThreadMoves, TablesStay DEF SwitchBegin, At
<1>2. CASE SwitchAnnounce(t, s)
  BY <1>0, <1>2, ThreadMoves, TablesStay DEF SwitchAnnounce, At
<1>3. CASE SwitchCall(t, s)
  <2>1. Forget(t, "confirm") \/ Move(t, "look")
    BY <1>3 DEF SwitchCall
  <2>2. ThreadsKept
    BY <1>0, <1>3, <2>1, ThreadMoves DEF SwitchCall, At
  <2>3. \/ box' = box
        \/ box' = [box EXCEPT ![s] = To(t)] /\ box[s] = From(t)
    BY <1>3 DEF SwitchCall
  <2>4. To(t) \in Boxes /\ From(t) \in Alive
    BY <1>0 DEF To, From, Alive
  <2>5. TablesKept
    BY <1>3, <2>3, <2>4, TablesStay DEF SwitchCall, Alive
  <2> QED
    BY <2>2, <2>5
<1>4. CASE SwitchLook(t, s)
  <2>1. Forget(t, "confirm") \/ Move(t, "restore")
    BY <1>4 DEF SwitchLook
  <2> QED
    BY <1>0, <1>4, <2>1, ThreadMoves, TablesStay DEF SwitchLook, At
<1>5. CASE SwitchConfirm(t, s)
  BY <1>0, <1>5, ThreadMoves, TablesStay DEF SwitchConfirm, At
<1>6. CASE SwitchRestore(t, s)
  <2>1. th[t].seen \in RowStates \ {"absent"}
    BY <1>6, SwitchOp DEF SwitchRestore, At, TypeInv
  <2> QED
    BY <1>0, <1>6, <2>1, ThreadMoves, TablesStay DEF SwitchRestore, At
<1>7. CASE Refresh(t, s)
  <2>1. Move(t, "read") \/ Move(t, "extend") \/ Finish(t)
    BY <1>7 DEF Refresh, RefreshBegin, RefreshLook, RefreshExtend
  <2> QED
    BY <1>0, <1>7, <2>1, ThreadMoves, TablesStay
       DEF Refresh, RefreshBegin, RefreshLook, RefreshExtend, At
<1>8. CASE KillBegin(t, s)
  BY <1>0, <1>8, ThreadMoves, TablesStay DEF KillBegin, At
<1> QED
  BY <1>1, <1>2, <1>3, <1>4, <1>5, <1>6, <1>7, <1>8 DEF Switch

\* Requests and passes that begin, a create that is given up, and what happens to
\* leases and containers by themselves.
LEMMA WorldPlain ==
  ASSUME TypeInv, NEW s \in Sandboxes,
         \/ \E t \in Threads : \/ GiveUp(t, s) \/ StartRequest(t, s)
                               \/ ListForReconcile(t, s) \/ ListForReap(t, s)
         \/ LeaseExpires(s) \/ ContainerDies(s) \/ PruneExited(s)
  PROVE  TablesKept /\ ThreadsKept
<1>0. /\ rows \in [Sandboxes -> Row] /\ box \in [Sandboxes -> Boxes] /\ ThreadsOK
      /\ "exited" \in Boxes \ Alive /\ "gone" \in Boxes \ Alive
      /\ th \in [Threads -> {Idle} \cup Busy]
  BY DEF TypeInv, RestOK, Boxes, Alive, ThreadsOK
<1>1. ASSUME NEW t \in Threads, GiveUp(t, s) PROVE TablesKept /\ ThreadsKept
  <2>1. CASE UNCHANGED th
    BY <1>1, <2>1, TablesStay DEF GiveUp, ThreadsKept
  <2>2. CASE Finish(t) /\ At(t, "queued")
    BY <1>0, <1>1, <2>2, TablesStay DEF GiveUp, ThreadsKept, At, Finish, Idle
  <2> QED
    BY <1>1, <2>1, <2>2 DEF GiveUp
<1>2. ASSUME NEW t \in Threads, th[t] = Idle, Exists(rows, s), NEW r, r.id = s,
             r.at \in {"begin", "read", "check", "mark"}, th' = [th EXCEPT ![t] = r]
      PROVE  ThreadsKept
  BY <1>0, <1>2 DEF ThreadsKept, Idle
<1>3. ASSUME NEW t \in Threads, StartRequest(t, s) PROVE TablesKept /\ ThreadsKept
  <2>1. PICK op \in Requests :
          th' = [th EXCEPT ![t] =
            [op |-> op, at |-> IF op \in {"kill", "refresh"} THEN "begin" ELSE "read",
             id |-> s, seen |-> "absent"]]
    BY <1>3 DEF StartRequest
  <2>2. ThreadsKept
    BY <1>2, <1>3, <2>1 DEF StartRequest
  <2> QED
    BY <1>3, <2>2, TablesStay DEF StartRequest
<1>4. ASSUME NEW t \in Threads, ListForReconcile(t, s) PROVE TablesKept /\ ThreadsKept
  <2>1. Exists(rows, s) /\ th[t] = Idle
    BY <1>4 DEF ListForReconcile, Exists
  <2>2. ThreadsKept
    <3>1. CASE th' = [th EXCEPT ![t] =
                   [op |-> "reconcile", at |-> "check", id |-> s, seen |-> rows[s].state]]
      BY <1>2, <2>1, <3>1
    <3>2. CASE th' = [th EXCEPT ![t] =
                   [op |-> "reconcile", at |-> "mark", id |-> s, seen |-> "absent"]]
      BY <1>2, <2>1, <3>2
    <3> QED
      BY <1>4, <3>1, <3>2 DEF ListForReconcile
  <2> QED
    BY <1>4, <2>2, TablesStay DEF ListForReconcile
<1>5. ASSUME NEW t \in Threads, ListForReap(t, s) PROVE TablesKept /\ ThreadsKept
  <2>1. Exists(rows, s) /\ th[t] = Idle
    BY <1>5 DEF ListForReap, Exists, Expirable
  <2>2. th' = [th EXCEPT ![t] = [op |-> "reap", at |-> "begin", id |-> s, seen |-> "absent"]]
    BY <1>5 DEF ListForReap
  <2>3. ThreadsKept
    BY <1>2, <2>1, <2>2
  <2> QED
    BY <1>5, <2>3, TablesStay DEF ListForReap
<1>6. CASE LeaseExpires(s)
  BY <1>6, TablesStay DEF LeaseExpires, ThreadsKept
<1>7. CASE ContainerDies(s)
  <2>1. \E b \in Boxes : box' = [box EXCEPT ![s] = b] /\ b \notin Alive
    BY <1>0, <1>7 DEF ContainerDies
  <2> QED
    BY <1>7, <2>1, TablesStay DEF ContainerDies, ThreadsKept, Alive
<1>8. CASE PruneExited(s)
  BY <1>0, <1>8, TablesStay DEF PruneExited, ThreadsKept
<1> QED
  BY <1>1, <1>3, <1>4, <1>5, <1>6, <1>7, <1>8

-----------------------------------------------------------------------------
(* The steps the invariant is about                                        *)

\* A create that begins picks a sandbox nobody works on.
LEMMA StartCreateOrphan ==
  ASSUME OrphanInv, TypeInv', NEW t \in Threads, NEW s \in Sandboxes, StartCreate(t, s)
  PROVE  OrphanInv'
<1>0. th \in [Threads -> {Idle} \cup Busy]
  BY DEF OrphanInv, TypeInv, ThreadsOK
<1>1. /\ th'[t].at = "queued" /\ th'[t].id = s
      /\ \A u \in Threads \ {t} : th'[u] = th[u]
      /\ th[t].at = "idle"
      /\ rows' = rows /\ box' = box /\ cause' = cause
      /\ box[s] = "none" /\ ~Exists(rows, s)
      /\ \A u \in Threads : th[u].id # s
  BY <1>0 DEF StartCreate, Unused, Idle
<1>2. QueuedAlone'
  BY <1>1 DEF OrphanInv, QueuedAlone, At
<1>3. KilledIsDead'
  BY <1>1 DEF OrphanInv, KilledIsDead
<1>4. OrphanKnown'
  BY <1>1 DEF OrphanInv, OrphanKnown, At
<1> QED
  BY <1>2, <1>3, <1>4 DEF OrphanInv

\* The container comes to life with a thread that will insert its row, or with a cause;
\* no kill of that sandbox is under way.
LEMMA CreateContainerOrphan ==
  ASSUME OrphanInv, TypeInv', NEW t \in Threads, NEW s \in Sandboxes, CreateContainer(t, s)
  PROVE  OrphanInv'
<1>0. /\ th \in [Threads -> {Idle} \cup Busy] /\ th[t] \in Busy
      /\ box \in [Sandboxes -> Boxes] /\ cause \in [Sandboxes -> SUBSET Causes]
  BY BusyThread DEF OrphanInv, TypeInv, ThreadsOK, RestOK, CreateContainer
<1>1. /\ th[t].at = "queued" /\ th[t].id = s /\ rows' = rows
      /\ ~Exists(rows, s) /\ box[s] = "none"
      /\ \A u \in Threads \ {t} : th[u].id # s
  BY DEF CreateContainer, At, OrphanInv, QueuedAlone
<1>2. /\ \A u \in Threads \ {t} : th'[u] = th[u]
      /\ th'[t].at \notin {"queued", "killed", "delete"}
      /\ th'[t].id \in {s, NoSandbox}
  BY <1>0, <1>1 DEF CreateContainer, Move, Finish, Idle, Busy
<1>3. \A x \in Sandboxes \ {s} : box'[x] = box[x] /\ cause'[x] = cause[x]
  BY <1>0 DEF CreateContainer
<1>4. \/ box'[s] = box[s] \/ cause'[s] # {}
      \/ th'[t].at = "insert" /\ th'[t].id = s
  <2>1. CASE Move(t, "insert")
    <3>1. th' = [th EXCEPT ![t].at = "insert"]
      BY <2>1 DEF Move
    <3>2. th'[t] = [th[t] EXCEPT !.at = "insert"]
      BY <1>0, <3>1
    <3> QED
      BY <1>0, <1>1, <3>2 DEF Busy
  <2>2. CASE box' = box
    BY <2>2
  <2>3. CASE cause' = [cause EXCEPT ![s] = cause[s] \cup {"create_lost"}]
    BY <1>0, <2>3
  <2> QED
    BY <2>1, <2>2, <2>3 DEF CreateContainer
<1>5. \A u \in Threads : th[u].at # "idle" => th[u].id \in Sandboxes
  BY DEF OrphanInv, TypeInv, ThreadsOK, Busy, Idle
<1>6. QueuedAlone'
  <2>1. SUFFICES ASSUME NEW u \in Threads, th'[u].at = "queued"
                 PROVE  /\ box'[th'[u].id] = "none" /\ ~Exists(rows', th'[u].id)
                        /\ \A v \in Threads \ {u} : th'[v].id # th'[u].id
    BY DEF QueuedAlone, At
  <2>2. u # t /\ th'[u] = th[u] /\ th[u].id \in Sandboxes \ {s}
    BY <1>1, <1>2, <1>5, <2>1
  <2> QED
    BY <1>1, <1>2, <1>3, <2>1, <2>2, LifecycleAssumption DEF OrphanInv, QueuedAlone, At
<1>7. KilledIsDead'
  BY <1>1, <1>2, <1>3, <1>5 DEF OrphanInv, KilledIsDead
<1>8. OrphanKnown'
  <2>1. SUFFICES ASSUME NEW x \in Sandboxes, box'[x] \in Alive, ~Exists(rows', x)
                 PROVE  cause'[x] # {} \/ \E u \in Threads : th'[u].id = x /\ th'[u].at = "insert"
    BY DEF OrphanKnown, At
  <2>2. CASE x = s
    BY <1>1, <1>4, <2>1, <2>2 DEF Alive
  <2>3. CASE x # s
    BY <1>1, <1>2, <1>3, <2>1, <2>3 DEF OrphanInv, OrphanKnown, At
  <2> QED
    BY <2>2, <2>3
<1> QED
  BY <1>6, <1>7, <1>8 DEF OrphanInv

\* From then on the container has its row.
LEMMA InsertRowOrphan ==
  ASSUME OrphanInv, TypeInv', NEW t \in Threads, NEW s \in Sandboxes, InsertRow(t, s)
  PROVE  OrphanInv'
<1>0. /\ th \in [Threads -> {Idle} \cup Busy] /\ th[t] \in Busy
      /\ rows \in [Sandboxes -> Row]
  BY BusyThread DEF OrphanInv, TypeInv, ThreadsOK, RestOK, InsertRow
<1>1. /\ th[t].at = "insert" /\ th[t].id = s /\ box' = box /\ cause' = cause
      /\ th'[t].at = "boot" /\ th'[t].id = s
      /\ \A u \in Threads \ {t} : th'[u] = th[u]
  BY <1>0 DEF InsertRow, At, Move, Busy
<1>2. Exists(rows', s) /\ \A x \in Sandboxes \ {s} : rows'[x] = rows[x]
  BY <1>0 DEF InsertRow, CreateRow, Exists
<1>5. \A u \in Threads : th[u].at # "idle" => th[u].id \in Sandboxes
  BY DEF OrphanInv, TypeInv, ThreadsOK, Busy, Idle
<1>6. QueuedAlone'
  <2>1. SUFFICES ASSUME NEW u \in Threads, th'[u].at = "queued"
                 PROVE  /\ box'[th'[u].id] = "none" /\ ~Exists(rows', th'[u].id)
                        /\ \A v \in Threads \ {u} : th'[v].id # th'[u].id
    BY DEF QueuedAlone, At
  <2>2. u # t /\ th'[u] = th[u] /\ th[u].at = "queued"
    BY <1>1, <2>1
  <2>3. th[u].id \in Sandboxes \ {s}
    BY <1>1, <1>5, <2>2 DEF OrphanInv, QueuedAlone, At
  <2> QED
    BY <1>1, <1>2, <2>2, <2>3 DEF OrphanInv, QueuedAlone, At, Exists
<1>7. KilledIsDead'
  BY <1>1 DEF OrphanInv, KilledIsDead
<1>8. OrphanKnown'
  BY <1>1, <1>2 DEF OrphanInv, OrphanKnown, At, Exists
<1> QED
  BY <1>6, <1>7, <1>8 DEF OrphanInv

\* A kill that may end the container, or drop the row of one that ended or has a cause.
LEMMA KillOrphan ==
  ASSUME OrphanInv, TypeInv', NEW t \in Threads, NEW s \in Sandboxes,
         KillCall(t, s) \/ KillLook(t, s) \/ KillMark(t, s) \/ KillDelete(t, s)
  PROVE  OrphanInv'
<1>0. /\ th \in [Threads -> {Idle} \cup Busy] /\ th[t] \in Busy /\ th[t].id = s
      /\ box \in [Sandboxes -> Boxes] /\ rows \in [Sandboxes -> Row]
      /\ cause \in [Sandboxes -> SUBSET Causes]
  BY BusyThread
     DEF OrphanInv, TypeInv, ThreadsOK, RestOK, KillCall, KillLook, KillMark, KillDelete
<1>1. /\ th[t].at \notin {"insert", "queued"}
      /\ \A u \in Threads \ {t} : th'[u] = th[u]
      /\ th'[t].at \notin {"insert", "queued"}
      /\ th'[t] = Idle \/ th'[t].id = s
  BY <1>0 DEF KillCall, KillLook, KillMark, KillDelete, At, Move, Finish, Idle, Busy
<1>2. \A x \in Sandboxes \ {s} :
        /\ box'[x] = box[x]
        /\ Exists(rows', x) <=> Exists(rows, x)
        /\ cause'[x] = cause[x]
  <2>1. CASE KillCall(t, s) \/ KillLook(t, s)
    BY <1>0, <2>1, KillBox DEF OrphanInv, KillCall, KillLook, Note, Exists
  <2>2. CASE KillMark(t, s)
    BY <1>0, <2>2, UpdateExists DEF KillMark, RowStates
  <2>3. CASE KillDelete(t, s)
    BY <1>0, <2>3 DEF KillDelete, DeleteRow, Exists
  <2> QED
    BY <2>1, <2>2, <2>3
<1>3. /\ box'[s] \in Alive => box[s] \in Alive
      /\ cause[s] \subseteq cause'[s]
  BY <1>0 DEF KillCall, KillLook, KillMark, KillDelete, Note, Alive
<1>4. th'[t].at \in {"killed", "delete"} => box'[s] \notin Alive \/ cause'[s] # {}
  <2>1. CASE KillCall(t, s)
    BY <1>0, <2>1 DEF KillCall, Move, Busy, Alive
  <2>2. CASE KillLook(t, s)
    <3>1. PICK a \in Answers :
            /\ Ask(s, a)
            /\ IF a = "running" THEN Finish(t) ELSE Move(t, "killed")
            /\ CASE a = "unknown" -> Note(s, "kill_unanswered")
                 [] a = "paused"  -> Note(s, "kill_paused")
                 [] OTHER         -> UNCHANGED cause
      BY <2>2 DEF KillLook
    <3>2. CASE a = "running"
      BY <1>0, <3>1, <3>2 DEF Finish, Idle
    <3>3. CASE a = "unknown"
      <4>1. Note(s, "kill_unanswered")
        BY <3>1, <3>3 DEF Note
      <4> QED
        BY <1>0, <2>2, <4>1 DEF KillLook, Note
    <3>4. CASE a = "paused"
      <4>1. Note(s, "kill_paused")
        BY <3>1, <3>4 DEF Note
      <4> QED
        BY <1>0, <2>2, <4>1 DEF KillLook, Note
    <3>5. CASE a \in {"stopped", "missing"}
      <4>1. StateOf(box[s]) \in {"stopped", "missing"}
        BY <3>1, <3>5 DEF Ask
      <4>2. box[s] \notin Alive
        BY <4>1 DEF StateOf, Alive
      <4> QED
        BY <2>2, <4>2 DEF KillLook
    <3> QED
      BY <3>2, <3>3, <3>4, <3>5 DEF Answers
  <2>3. CASE KillMark(t, s)
    BY <1>0, <2>3 DEF KillMark, At, OrphanInv, KilledIsDead
  <2>4. CASE KillDelete(t, s)
    BY <1>0, <2>4 DEF KillDelete, Finish, Idle
  <2> QED
    BY <2>1, <2>2, <2>3, <2>4
<1>5. ~Exists(rows', s) => ~Exists(rows, s) \/ box'[s] \notin Alive \/ cause'[s] # {}
  <2>1. CASE KillDelete(t, s)
    BY <1>0, <2>1 DEF KillDelete, At, OrphanInv, KilledIsDead
  <2>2. CASE KillMark(t, s)
    BY <1>0, <2>2, UpdateExists DEF KillMark, RowStates
  <2> QED
    BY <2>1, <2>2 DEF KillCall, KillLook
<1>6. \A u \in Threads : th[u].at # "idle" => th[u].id \in Sandboxes
  BY DEF OrphanInv, TypeInv, ThreadsOK, Busy, Idle
<1>7. QueuedAlone'
  <2>1. SUFFICES ASSUME NEW u \in Threads, th'[u].at = "queued"
                 PROVE  /\ box'[th'[u].id] = "none" /\ ~Exists(rows', th'[u].id)
                        /\ \A v \in Threads \ {u} : th'[v].id # th'[u].id
    BY DEF QueuedAlone, At
  <2>2. u # t /\ th'[u] = th[u] /\ th[u].at = "queued"
    BY <1>1, <2>1
  <2>3. th[u].id \in Sandboxes \ {s}
    BY <1>0, <1>6, <2>2 DEF OrphanInv, QueuedAlone, At
  <2>4. \A v \in Threads \ {u} : th'[v].id # th[u].id
    BY <1>1, <2>2, <2>3, LifecycleAssumption DEF OrphanInv, QueuedAlone, At, Idle
  <2> QED
    BY <1>2, <2>2, <2>3, <2>4 DEF OrphanInv, QueuedAlone, At
<1>8. KilledIsDead'
  <2>1. SUFFICES ASSUME NEW u \in Threads, th'[u].at \in {"killed", "delete"}
                 PROVE  box'[th'[u].id] \notin Alive \/ cause'[th'[u].id] # {}
    BY DEF KilledIsDead
  <2>2. CASE u = t
    BY <1>1, <1>4, <2>1, <2>2 DEF Idle
  <2>3. CASE u # t
    <3>1. th'[u] = th[u] /\ th[u].id \in Sandboxes
      BY <1>1, <1>6, <2>1, <2>3
    <3> QED
      BY <1>2, <1>3, <2>1, <3>1 DEF OrphanInv, KilledIsDead
  <2> QED
    BY <2>2, <2>3
<1>9. OrphanKnown'
  <2>1. SUFFICES ASSUME NEW x \in Sandboxes, box'[x] \in Alive, ~Exists(rows', x)
                 PROVE  cause'[x] # {} \/ \E u \in Threads : th'[u].id = x /\ th'[u].at = "insert"
    BY DEF OrphanKnown, At
  <2>2. \A u \in Threads : th[u].at = "insert" => th'[u] = th[u]
    BY <1>1
  <2>3. box[x] \in Alive /\ (cause'[x] # {} \/ ~Exists(rows, x)) /\ cause[x] \subseteq cause'[x]
    BY <1>2, <1>3, <1>5, <2>1
  <2>4. cause[x] # {} => cause'[x] # {}
    BY <2>3
  <2>5. cause'[x] # {} \/ \E u \in Threads : th[u].id = x /\ th[u].at = "insert"
    BY <2>3, <2>4 DEF OrphanInv, OrphanKnown, At
  <2> QED
    BY <2>2, <2>5
<1> QED
  BY <1>7, <1>8, <1>9 DEF OrphanInv

\* The purge of a lost row, and a create that dies before its insert, note the cause.
LEMMA NotedOrphan ==
  ASSUME OrphanInv, TypeInv',
         (\E s \in Sandboxes : Purge(s)) \/ (\E t \in Threads : Crash(t))
  PROVE  OrphanInv'
<1>0. /\ th \in [Threads -> {Idle} \cup Busy] /\ rows \in [Sandboxes -> Row]
      /\ box \in [Sandboxes -> Boxes] /\ cause \in [Sandboxes -> SUBSET Causes]
  BY DEF OrphanInv, TypeInv, ThreadsOK, RestOK
<1>1. ASSUME NEW s \in Sandboxes, Purge(s) PROVE OrphanInv'
  <2>1. th' = th /\ box' = box
    BY <1>1 DEF Purge
  <2>2. /\ ~Exists(rows', s) /\ Exists(rows, s)
        /\ \A x \in Sandboxes \ {s} : Exists(rows', x) <=> Exists(rows, x)
    BY <1>0, <1>1 DEF Purge, DeleteRow, Exists, Absent, Purgeable
  <2>3. /\ box[s] \in Alive => cause'[s] # {}
        /\ \A x \in Sandboxes : cause[x] \subseteq cause'[x]
    BY <1>0, <1>1 DEF Purge, Note
  <2>4. \A u \in Threads : th[u].at # "idle" => th[u].id \in Sandboxes
    BY DEF OrphanInv, TypeInv, ThreadsOK, Busy, Idle
  <2>5. QueuedAlone'
    BY <2>1, <2>2, <2>4 DEF OrphanInv, QueuedAlone, At
  <2>6. KilledIsDead'
    <3>1. SUFFICES ASSUME NEW u \in Threads, th[u].at \in {"killed", "delete"}
                   PROVE  box[th[u].id] \notin Alive \/ cause'[th[u].id] # {}
      BY <2>1 DEF KilledIsDead
    <3> QED
      BY <2>3, <2>4, <3>1 DEF OrphanInv, KilledIsDead
  <2>7. OrphanKnown'
    <3>1. SUFFICES ASSUME NEW x \in Sandboxes, box[x] \in Alive, ~Exists(rows', x)
                   PROVE  cause'[x] # {} \/ \E u \in Threads : th[u].id = x /\ th[u].at = "insert"
      BY <2>1 DEF OrphanKnown, At
    <3>2. CASE x = s
      BY <2>3, <3>1, <3>2
    <3>3. CASE x # s
      <4>1. cause[x] # {} \/ \E u \in Threads : th[u].id = x /\ th[u].at = "insert"
        BY <2>2, <3>1, <3>3 DEF OrphanInv, OrphanKnown, At
      <4>2. cause[x] # {} => cause'[x] # {}
        BY <2>3
      <4> QED
        BY <4>1, <4>2
    <3> QED
      BY <3>2, <3>3
  <2> QED
    BY <2>5, <2>6, <2>7 DEF OrphanInv
<1>2. ASSUME NEW t \in Threads, Crash(t) PROVE OrphanInv'
  <2>1. th[t] \in Busy /\ th[t].id \in Sandboxes
    BY <1>0, <1>2 DEF Crash, Busy
  <2>2. /\ th' = [th EXCEPT ![t] = Idle] /\ rows' = rows /\ box' = box
        /\ \A x \in Sandboxes : cause[x] \subseteq cause'[x]
        /\ th[t].at = "insert" /\ box[th[t].id] \in Alive => cause'[th[t].id] # {}
    BY <1>0, <1>2, <2>1 DEF Crash, Note, Finish, At
  <2>3. CASE th[t].at # "insert"
    <3>1. TablesKept /\ ThreadsKept
      BY <1>0, <2>2, <2>3 DEF TablesKept, ThreadsKept, Idle, Exists
    <3> QED
      BY <3>1, PlainKeeps
  <2>4. CASE th[t].at = "insert"
    <3>1. th'[t] = Idle /\ \A u \in Threads \ {t} : th'[u] = th[u]
      BY <1>0, <2>2
    <3>2. \A u \in Threads : th[u].at # "idle" => th[u].id \in Sandboxes
      BY DEF OrphanInv, TypeInv, ThreadsOK, Busy, Idle
    <3>3. QueuedAlone'
      BY <2>2, <3>1, <3>2, LifecycleAssumption DEF OrphanInv, QueuedAlone, At, Idle
    <3>4. KilledIsDead'
      <4>1. SUFFICES ASSUME NEW u \in Threads, th'[u].at \in {"killed", "delete"}
                     PROVE  box[th'[u].id] \notin Alive \/ cause'[th'[u].id] # {}
        BY <2>2 DEF KilledIsDead
      <4>2. th'[u] = th[u] /\ th[u].id \in Sandboxes
        BY <3>1, <3>2, <4>1 DEF Idle
      <4> QED
        BY <2>2, <4>1, <4>2 DEF OrphanInv, KilledIsDead
    <3>5. OrphanKnown'
      <4>1. SUFFICES ASSUME NEW x \in Sandboxes, box[x] \in Alive, ~Exists(rows, x)
                     PROVE  cause'[x] # {} \/ \E u \in Threads : th'[u].id = x /\ th'[u].at = "insert"
        BY <2>2 DEF OrphanKnown, At
      <4>2. CASE x = th[t].id
        BY <2>2, <2>4, <4>1, <4>2
      <4>3. CASE x # th[t].id
        <5>1. cause[x] # {} \/ \E u \in Threads \ {t} : th[u].id = x /\ th[u].at = "insert"
          BY <4>1, <4>3 DEF OrphanInv, OrphanKnown, At
        <5>2. cause[x] # {} => cause'[x] # {}
          BY <2>2
        <5> QED
          BY <3>1, <5>1, <5>2
      <4> QED
        BY <4>2, <4>3
    <3> QED
      BY <3>3, <3>4, <3>5 DEF OrphanInv
  <2> QED
    BY <2>3, <2>4
<1> QED
  BY <1>1, <1>2

\* OrphanInv is inductive.
LEMMA OrphanStep ==
  ASSUME OrphanInv, [Next]_vars
  PROVE  OrphanInv'
<1>0. TypeInv /\ TypeInv'
  BY TypeStep DEF OrphanInv
<1>1. ASSUME NEW t \in Threads, NEW s \in Sandboxes,
             \/ Create(t, s) \/ Probe(t, s) \/ Switch(t, s) \/ Refresh(t, s) \/ Kill(t, s)
             \/ ReconcileCheck(t, s) \/ ReconcilePromote(t, s)
      PROVE  OrphanInv'
  <2>1. CASE Create(t, s)
    BY <1>0, <2>1, CreateContainerOrphan, InsertRowOrphan, BootPlain, PlainKeeps DEF Create
  <2>2. CASE Kill(t, s)
    BY <1>0, <2>2, KillOrphan, SwitchPlain, PlainKeeps DEF Kill
  <2>3. CASE Probe(t, s) \/ ReconcileCheck(t, s) \/ ReconcilePromote(t, s)
    BY <1>0, <2>3, ProbePlain, PlainKeeps
  <2>4. CASE Switch(t, s) \/ Refresh(t, s)
    BY <1>0, <2>4, SwitchPlain, PlainKeeps
  <2> QED
    BY <1>1, <2>1, <2>2, <2>3, <2>4
<1>2. ASSUME NEW t \in Threads, NEW s \in Sandboxes,
             \/ StartCreate(t, s) \/ GiveUp(t, s) \/ StartRequest(t, s)
             \/ ListForReconcile(t, s) \/ ListForReap(t, s)
      PROVE  OrphanInv'
  BY <1>0, <1>2, StartCreateOrphan, WorldPlain, PlainKeeps
<1>3. ASSUME NEW s \in Sandboxes,
             Purge(s) \/ LeaseExpires(s) \/ ContainerDies(s) \/ PruneExited(s)
      PROVE  OrphanInv'
  BY <1>0, <1>3, NotedOrphan, WorldPlain, PlainKeeps
<1>4. ASSUME NEW t \in Threads, Crash(t)
      PROVE  OrphanInv'
  BY <1>0, <1>4, NotedOrphan
<1>5. CASE UNCHANGED vars
  <2>1. TablesKept /\ ThreadsKept
    BY <1>5 DEF vars, TablesKept, ThreadsKept
  <2> QED
    BY <1>0, <2>1, PlainKeeps
<1>6. Handlers \subseteq Threads /\ Maintainers \subseteq Threads
  BY DEF Threads
<1> QED
  BY <1>1, <1>2, <1>3, <1>4, <1>5, <1>6 DEF Next, Step

\* A container that is alive and has no row is explained: by a create that was cut off
\* or is about to insert the row, by a kill that was not answered or met a paused
\* container, or by the purge of a row marked lost.  No interleaving of requests, probes,
\* reaper and reconcile adds another reason.
THEOREM OrphansExplained == Spec => []NoSilentOrphan
<1>1. Init => OrphanInv
  BY TypeInit DEF Init, OrphanInv, QueuedAlone, KilledIsDead, OrphanKnown, At, Idle, Alive
<1>2. OrphanInv => NoSilentOrphan
  <2>1. SUFFICES ASSUME OrphanInv, NEW s \in Sandboxes, box[s] \in Alive, ~Exists(rows, s),
                        cause[s] = {}
                 PROVE  Creating(s)
    BY DEF NoSilentOrphan
  <2>2. PICK t \in Threads : th[t].id = s /\ th[t].at = "insert"
    BY <2>1 DEF OrphanInv, OrphanKnown, At
  <2>3. InPlace(th[t]) /\ th[t] \in Busy
    BY <2>1, <2>2, BusyThread DEF OrphanInv, TypeInv
  <2>4. th[t].op = "create"
    BY <2>2, <2>3 DEF InPlace, Busy, Ops, Requests
  <2> QED
    BY <2>2, <2>4 DEF Creating
<1> QED
  BY <1>1, <1>2, OrphanStep, PTL DEF Spec
=============================================================================
