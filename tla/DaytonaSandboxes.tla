--------------------------- MODULE DaytonaSandboxes ---------------------------
(***************************************************************************)
(* The sandbox routes of the Daytona-compatible API: what a client sets    *)
(* and what it is shown.  Settings are kept in the row's metadata, which   *)
(* every handler reads, changes and writes as a whole; whether a paused    *)
(* sandbox counts as stopped is one of them.                               *)
(*                                                                         *)
(* The handlers of a replica share one event loop: what one does between   *)
(* two awaits is one step.  Pausing, resuming and snapshots run in threads *)
(* beside it.  "remote" is a handler in another replica.                   *)
(***************************************************************************)
EXTENDS Naturals

CONSTANTS
  Requests, None,
  Labels,        \* values of a setting
  MaxFaults      \* bound: calls to the runtime that fail

VARIABLES
  row,    \* state and metadata of the sandbox
  box,    \* its container
  req,
  said,   \* history: what the client was told last
  faults

vars == <<row, box, req, said, faults>>

Settings == {"labels", "public"}
Moving == {"start", "stop", "pause"}
Kinds == Moving \cup {"labels", "snapshot", "remote"}
States == {"running", "pausing", "paused", "resuming", "lost", "gone"}
Shows == {"started", "pausing", "resuming", "paused", "stopped", "unknown"}
Metadata == [labels : Labels, public : Labels, override : {"", "paused", "stopped"}]
\* None is no kind of request.
DaytonaBounds == None \notin Kinds /\ MaxFaults \in Nat
Idle == [what |-> None, pc |-> "idle", value |-> None, md |-> None, prev |-> None]

TypeOK ==
  /\ row \in [st : States, md : Metadata]
  /\ box \in {"running", "paused"}
  /\ \A q \in Requests :
       /\ req[q].what \in Kinds \cup {None} /\ req[q].value \in Labels \cup {None}
       /\ req[q].pc \in {"idle", "begun", "acting", "failed", "acted"}
       /\ req[q].prev \in States \cup {None} /\ (req[q].md # None => req[q].md \in Metadata)
  /\ said \in [labels : Labels, public : Labels, state : Shows \cup {None}]
  /\ faults \in 0..MaxFaults

\* A sandbox that was just created, with what the request gave.
Init ==
  /\ row \in [st : {"running"}, md : [labels : Labels, public : Labels, override : {""}]]
  /\ box = "running" /\ req = [q \in Requests |-> Idle]
  /\ said = [labels |-> row.md.labels, public |-> row.md.public, state |-> "started"]
  /\ faults = 0

\* _daytona_state
Shown(st, md) ==
  CASE st = "running" -> "started"
    [] st \in {"pausing", "resuming"} -> st
    [] st = "paused" -> IF md.override = "" THEN "paused" ELSE md.override
    [] OTHER -> "unknown"

Does(q, call) == req' = [req EXCEPT ![q] = call]
At(q, pc) == req[q].pc = pc
Moves(q) == req[q].what \in Moving
Answered(q) == Does(q, Idle)
Owned == row.st # "gone"

\* _runtime_state_matches_db_state
Matches(st) ==
  IF box = "running" THEN st \in {"running", "resuming", "pausing"} ELSE st \in {"paused", "pausing"}

Update(st) == IF Owned THEN [row EXCEPT !.st = st] ELSE row

-----------------------------------------------------------------------------
(* Requests that change a setting *)

\* One that does not wait: public access, an interval, the network's settings.
Set(value) ==
  /\ Owned /\ row' = [row EXCEPT !.md.public = value] /\ said' = [said EXCEPT !.public = value]
  /\ UNCHANGED <<box, req, faults>>

\* The labels come with the body, which is awaited.
BeginLabels(q, value) ==
  /\ At(q, "idle") /\ Owned
  /\ Does(q, [Idle EXCEPT !.what = "labels", !.pc = "begun", !.value = value, !.md = row.md])
  /\ UNCHANGED <<row, box, said, faults>>

\* The row is read again once the body is there.
\* Mutant: the row of before is used.
ReadBefore(q) == req[q].md
ReadAgain(q) == row.md

SetLabels(q) ==
  /\ At(q, "begun") /\ req[q].what = "labels" /\ Answered(q)
  /\ IF Owned
     THEN /\ row' = [row EXCEPT !.md = [ReadAgain(q) EXCEPT !.labels = req[q].value]]
          /\ said' = [said EXCEPT !.labels = req[q].value]
     ELSE UNCHANGED <<row, said>>
  /\ UNCHANGED <<box, faults>>

\* A snapshot's thread, or a handler in another replica, has read the metadata ...
BeginElsewhere(q, what, value) ==
  /\ At(q, "idle") /\ Owned
  /\ Does(q, [Idle EXCEPT !.what = what, !.pc = "begun", !.md =
                IF what = "remote" THEN [row.md EXCEPT !.labels = value] ELSE row.md])
  /\ UNCHANGED <<row, box, said, faults>>

\* ... and writes all of it back: what was set since is undone, whoever was told of it.
WriteElsewhere(q) ==
  /\ At(q, "begun") /\ req[q].what \in {"snapshot", "remote"} /\ Answered(q)
  /\ IF Owned
     THEN /\ row' = [row EXCEPT !.md = req[q].md]
          /\ said' = [labels |-> req[q].md.labels, public |-> req[q].md.public,
                      state |-> IF row.md.override = req[q].md.override THEN said.state
                                ELSE None]
     ELSE UNCHANGED <<row, said>>
  /\ UNCHANGED <<box, faults>>

-----------------------------------------------------------------------------
(* start, stop and pause *)

Others(q) == \E p \in Requests \ {q} : Moves(p)

\* ensure_live_sandbox, which marks a sandbox lost whose container is not as the row
\* says; start does not ask.  The thread notes the row's state as the one to restore
\* (SandboxLifecycle has its statements one by one).
BeginMove(q, what) ==
  /\ At(q, "idle") /\ Owned
  /\ IF what # "start" /\ ~Matches(row.st)
     THEN row' = Update("lost") /\ UNCHANGED <<req, said>>
     ELSE /\ Does(q, [Idle EXCEPT !.what = what, !.pc = "acting", !.prev = row.st])
          /\ row' = Update(IF what = "start" THEN "resuming" ELSE "pausing")
          /\ said' = [said EXCEPT !.state = IF Others(q) THEN None ELSE @]
  /\ UNCHANGED <<box, faults>>

Target(q) == IF req[q].what = "start" THEN "running" ELSE "paused"

Acts(q) ==
  /\ At(q, "acting") /\ box' = Target(q)
  /\ Does(q, [req[q] EXCEPT !.pc = "acted"]) /\ row' = Update(Target(q))
  /\ UNCHANGED <<said, faults>>

\* The runtime refused: a container that is where it should be, or a failure.
ActFails(q) ==
  /\ At(q, "acting")
  /\ IF box = Target(q)
     THEN /\ Does(q, [req[q] EXCEPT !.pc = "acted"]) /\ row' = Update(Target(q))
          /\ UNCHANGED faults
     ELSE /\ faults < MaxFaults /\ faults' = faults + 1
          /\ Does(q, [req[q] EXCEPT !.pc = "failed"]) /\ row' = Update(req[q].prev)
  /\ UNCHANGED <<box, said>>

Override(q) ==
  CASE req[q].what = "stop" -> "stopped"
    [] req[q].what = "pause" -> "paused"
    [] req[q].what = "start" -> ""

\* Back in the event loop: the override is written, after a start that failed as well,
\* and the sandbox is shown.  A stop or a pause that failed is answered with an error.
AnswerMove(q) ==
  /\ Answered(q)
  /\ \/ /\ At(q, "acted") \/ (At(q, "failed") /\ req[q].what = "start")
        /\ row' = IF ~Owned THEN row
                  ELSE [row EXCEPT !.md.override = Override(q),
                                   !.st = IF req[q].what = "start" /\ ~Matches(@) THEN "lost" ELSE @]
        /\ said' = [said EXCEPT !.state = IF Others(q) THEN None ELSE Shown(row'.st, row'.md)]
     \/ /\ At(q, "failed") /\ req[q].what # "start" /\ UNCHANGED <<row, said>>
  /\ UNCHANGED <<box, faults>>

Delete ==
  /\ Owned /\ row' = [row EXCEPT !.st = "gone"] /\ UNCHANGED <<box, req, said, faults>>

Next ==
  \/ \E value \in Labels : Set(value)
  \/ \E q \in Requests :
       \/ \E value \in Labels :
            BeginLabels(q, value) \/ BeginElsewhere(q, "remote", value)
       \/ BeginElsewhere(q, "snapshot", None)
       \/ SetLabels(q) \/ WriteElsewhere(q)
       \/ \E what \in Moving : BeginMove(q, what)
       \/ Acts(q) \/ ActFails(q) \/ AnswerMove(q)
  \/ Delete

Spec == Init /\ [][Next]_vars

-----------------------------------------------------------------------------
(* Property *)

\* A sandbox is shown as its client was told last, and as stopped after a stop though
\* its row says paused, unless requests that move it overlapped, or a snapshot or
\* another replica wrote back metadata of before.
ShownAsSaid ==
  Owned =>
    /\ row.md.labels = said.labels /\ row.md.public = said.public
    /\ said.state # None /\ row.st # "lost" /\ (\A q \in Requests : ~Moves(q)) =>
         Shown(row.st, row.md) = said.state
=============================================================================
