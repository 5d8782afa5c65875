--------------------------- MODULE ToolboxSessions ---------------------------
(***************************************************************************)
(* Shell and terminal sessions of one sandbox, as the Daytona toolbox      *)
(* keeps them: two dictionaries in the metadata of the sandbox's row, and  *)
(* a process in the guest for each session.  A request reads a dictionary, *)
(* waits for envd, and then writes the whole dictionary back, in a row it  *)
(* reads again.                                                            *)
(*                                                                         *)
(* Requests of one api-service process run on one event loop: between      *)
(* reading the row again and writing it (no await) no other of them moves. *)
(* Those of another may, between any two statements.  The database answers.*)
(* Of a session its process, its commands and whether it was started are   *)
(* kept, of a process its tag and whether it lives, ended or was forgotten *)
(* by an envd that started anew.                                           *)
(***************************************************************************)
EXTENDS Integers

CONSTANTS
  Replicas, Shells, Terminals,  \* the ids of sessions
  None,
  MaxRequests,  \* bound: requests, numbered as they arrive
  MaxPids,      \* bound: processes started
  MaxRestarts   \* bound: times envd starts anew

VARIABLES
  meta,      \* the two dictionaries in the row's metadata, None when not written yet
  process,   \* the processes envd started, in the order of their pids
  req,       \* the requests
  restarts

vars == <<meta, process, req, restarts>>

Requests == 1..MaxRequests
Ids == Shells \cup Terminals
Kinds == {"shell", "terminal"}
KindOf(id) == IF id \in Shells THEN "shell" ELSE "terminal"
Pids == 1..MaxPids
Session == [pid : 0..MaxPids, started : BOOLEAN, commands : SUBSET Requests]
Ops == {"create", "delete", "execute", "input", "resize", "connect"}

\* None is no dictionary.
ToolboxBounds == MaxPids \in Nat /\ \A S \in SUBSET Ids : None \notin [S -> Session]

IsDict(d) == DOMAIN d \subseteq Ids /\ d \in [DOMAIN d -> Session]
IsMeta(md) == DOMAIN md = Kinds /\ \A k \in Kinds : md[k] # None => IsDict(md[k])

Empty == [i \in {} |-> 0]
With(dict, id, session) ==
  [i \in DOMAIN dict \cup {id} |-> IF i = id THEN session ELSE dict[i]]

TypeOK ==
  /\ IsMeta(meta)
  /\ process \in [Pids -> [of : Ids \cup {None}, st : {"none", "alive", "ended", "gone"}]]
  /\ \A q \in Requests :
       /\ req[q].pc \in {"idle", "start", "open", "answer", "kill", "send", "collect", "resize",
                         "event", "live", "load", "merge", "write", "done"}
       /\ req[q].then \in {"send", "event", "live", "done"}
       /\ req[q].op \in Ops \cup {None} /\ req[q].id \in Ids \cup {None}
       /\ IsDict(req[q].mine) /\ IsMeta(req[q].loaded)
       /\ req[q].at \in Replicas \cup {None}
       /\ req[q].pid \in 0..MaxPids /\ req[q].lost \in 0..MaxPids
       /\ req[q].again \in BOOLEAN /\ req[q].stale \in BOOLEAN /\ req[q].killed \in BOOLEAN
  /\ restarts \in 0..MaxRestarts

Nothing == [k \in Kinds |-> None]
Fresh == [pc |-> "idle", then |-> "done", op |-> None, id |-> None, at |-> None,
          mine |-> Empty, loaded |-> Nothing, pid |-> 0, again |-> FALSE,
          stale |-> FALSE, killed |-> TRUE, lost |-> 0]

Init ==
  /\ meta = Nothing /\ restarts = 0
  /\ process = [p \in Pids |-> [of |-> None, st |-> "none"]]
  /\ req = [q \in Requests |-> Fresh]

-----------------------------------------------------------------------------
(* Sessions and the processes they name *)

Dict(md, k) == IF md[k] = None THEN Empty ELSE md[k]
Mine(q) == req[q].mine[req[q].id]
Has(session) == session.pid > 0 \/ session.started

Tagged(p, id) == process[p].of = id /\ process[p].st \in {"alive", "ended"}
First(p, id) == Tagged(p, id) /\ \A o \in Pids : o < p => ~Tagged(o, id)

\* By its pid, else the first process envd knows with that tag, whether it lives or not.
Selected(session, id) ==
  IF session.pid > 0 THEN session.pid
  ELSE IF \E p \in Pids : First(p, id) THEN CHOOSE p \in Pids : First(p, id) ELSE 0

Its(q) == Selected(Mine(q), req[q].id)
Is(p, st) == p > 0 /\ process[p].st = st

\* envd answers 404.
Unknown(p) == p = 0 \/ Is(p, "gone")

\* Where no request of the process is reading and writing the row.
Free(r) == \A o \in Requests : req[o].pc \in {"merge", "write"} => req[o].at # r

Moves(q, pc) == req[q].pc = pc /\ Free(req[q].at)
Becomes(q, new) == req' = [req EXCEPT ![q] = new]
At(q, pc) ==
  IF pc = "done" THEN [Fresh EXCEPT !.pc = pc, !.stale = req[q].stale, !.killed = req[q].killed,
                                    !.lost = IF req[q].pc = "answer" THEN req[q].pid ELSE 0]
  ELSE [req[q] EXCEPT !.pc = pc, !.loaded = Nothing]
Goto(q, pc) == Becomes(q, At(q, pc))
SaveThen(q, mine, next) ==
  Becomes(q, [req[q] EXCEPT !.mine = mine, !.pc = "load", !.then = next])

-----------------------------------------------------------------------------
(* The row is read; a request that cannot go on ends *)

\* What a request does first, with the dictionary it read; "done" is an answer at once.
FirstStep(op, id, there) ==
  CASE op = "create"  -> IF there THEN "done" ELSE IF id \in Shells THEN "start" ELSE "load"
    [] op = "delete"  -> IF there THEN "kill" ELSE IF id \in Shells THEN "load" ELSE "done"
    [] op = "execute" -> IF there THEN "send" ELSE "done"
    [] op = "input"   -> IF there THEN "send" ELSE "done"
    [] op = "resize"  -> IF there THEN "resize" ELSE "done"
    [] op = "connect" -> IF there THEN "open" ELSE "done"

New == [pid |-> 0, started |-> FALSE, commands |-> {}]

Read(q, r, op, id) ==
  /\ req[q].pc = "idle" /\ Free(r)
  /\ \A o \in Requests : o < q => req[o].pc # "idle"
  /\ op \in (IF id \in Shells THEN {"execute", "input"} ELSE {"resize", "connect"})
            \cup {"create", "delete"}
  /\ LET dict == Dict(meta, KindOf(id)) IN
     Becomes(q, [Fresh EXCEPT
       !.pc = FirstStep(op, id, id \in DOMAIN dict), !.op = op, !.id = id, !.at = r,
       !.mine = IF op = "create" /\ id \notin DOMAIN dict THEN With(dict, id, New) ELSE dict])
  /\ UNCHANGED <<meta, process, restarts>>

-----------------------------------------------------------------------------
(* What the requests wait for *)

\* The session is kept with the new pid and the commands it had.
Restarted(session, p) == [session EXCEPT !.pid = p]

Started(q, p) ==
  /\ process[p].st = "none" /\ \A o \in Pids : o < p => process[o].st # "none"
  /\ process' = [process EXCEPT ![p] = [of |-> req[q].id, st |-> "alive"]]

\* A shell for a new session, or again for a session envd no longer knows, and that of a
\* terminal, with its WebSocket; envd has started it when it answers.
Starts(q) ==
  /\ Moves(q, "start") \/ (Moves(q, "open") /\ ~Has(Mine(q)))
  /\ \E p \in Pids : Started(q, p) /\ Becomes(q, [req[q] EXCEPT !.pc = "answer", !.pid = p])
  /\ UNCHANGED <<meta, restarts>>

StartShell(q) ==
  /\ Moves(q, "answer") /\ req[q].op # "connect"
  /\ Becomes(q, [req[q] EXCEPT
       !.mine = [req[q].mine EXCEPT ![req[q].id] = Restarted(Mine(q), req[q].pid)], !.pid = 0,
       !.pc = "load", !.then = IF req[q].again THEN "send" ELSE "done"])
  /\ UNCHANGED <<meta, process, restarts>>

\* Mutant: the signal has no effect.
SignalledNot(p) == process
Signalled(p) == IF Is(p, "alive") THEN [process EXCEPT ![p].st = "ended"] ELSE process

Popped(q) == [i \in DOMAIN req[q].mine \ {req[q].id} |-> req[q].mine[i]]
DeleteSession(q, killed) ==
  Becomes(q, [req[q] EXCEPT !.mine = Popped(q), !.pc = "load", !.then = "done",
                            !.killed = killed])

Kill(q) ==
  /\ Moves(q, "kill") /\ DeleteSession(q, TRUE)
  /\ process' = IF Has(Mine(q)) THEN Signalled(Its(q)) ELSE process
  /\ UNCHANGED <<meta, restarts>>

\* An error of the kill is suppressed.
KillFails(q) ==
  /\ Moves(q, "kill") /\ Has(Mine(q)) /\ DeleteSession(q, FALSE)
  /\ UNCHANGED <<meta, process, restarts>>

\* Input for a shell it does not know envd refuses with 404, for one that ended with
\* another error.
Send(q) ==
  /\ Moves(q, "send")
  /\ \/ Is(Its(q), "alive") /\
        IF req[q].op = "input" THEN SaveThen(q, req[q].mine, "done") ELSE Goto(q, "collect")
     \/ Is(Its(q), "ended") /\ Goto(q, "done")
  /\ UNCHANGED <<meta, process, restarts>>

\* The command's end marker came, if only with what an ended shell had written; its record
\* is saved and the result returned.
Collected(q) ==
  /\ Moves(q, "collect") /\ ~Unknown(Its(q))
  /\ SaveThen(q, [req[q].mine EXCEPT ![req[q].id].commands = @ \cup {q}], "done")
  /\ UNCHANGED <<meta, process, restarts>>

\* A 404 while it sends or connects: the first time the shell is started again.
NotFound(q) ==
  /\ Moves(q, "send") \/ Moves(q, "collect")
  /\ Unknown(Its(q))
  /\ IF req[q].op = "execute" /\ ~req[q].again
     THEN Becomes(q, [req[q] EXCEPT !.pc = "start", !.again = TRUE])
     ELSE Goto(q, "done")
  /\ UNCHANGED <<meta, process, restarts>>

\* The shell exits, the stream closes, the marker does not come in time, or envd does not
\* answer: neither is a shell that it may have started killed, nor does a session name it.
Fails(q) ==
  /\ \E pc \in {"start", "open", "answer", "send", "collect", "resize"} : Moves(q, pc)
  /\ Goto(q, "done") /\ UNCHANGED <<meta, process, restarts>>

Resize(q) ==
  /\ Moves(q, "resize") /\ SaveThen(q, req[q].mine, "done")
  /\ Has(Mine(q)) => ~Unknown(Its(q))
  /\ UNCHANGED <<meta, process, restarts>>

-----------------------------------------------------------------------------
(* The WebSocket of a terminal keeps its copy of the session and saves it  *)
(* when the stream opens, when a pid arrives and when the process ends.    *)

Opened(q) == [req[q].mine EXCEPT ![req[q].id].started = TRUE]

Connect(q) ==
  /\ Moves(q, "open") /\ Has(Mine(q)) /\ ~Unknown(Its(q))
  /\ Becomes(q, [req[q] EXCEPT !.mine = Opened(q), !.pc = "load", !.then = "event",
                               !.pid = Its(q)])
  /\ UNCHANGED <<meta, process, restarts>>

\* The answer begins; the event with the pid is still to come.
StartTerminal(q) ==
  /\ Moves(q, "answer") /\ req[q].op = "connect" /\ SaveThen(q, Opened(q), "event")
  /\ UNCHANGED <<meta, process, restarts>>

StartEvent(q) ==
  /\ Moves(q, "event")
  /\ IF Mine(q).pid = req[q].pid THEN Goto(q, "live")
     ELSE SaveThen(q, [req[q].mine EXCEPT ![req[q].id].pid = req[q].pid], "live")
  /\ UNCHANGED <<meta, process, restarts>>

EndEvent(q) ==
  /\ Moves(q, "live") /\ Is(req[q].pid, "ended") /\ SaveThen(q, req[q].mine, "done")
  /\ UNCHANGED <<meta, process, restarts>>

\* The client goes, or the stream to envd breaks.
Leave(q) ==
  /\ Moves(q, "event") \/ Moves(q, "live")
  /\ Goto(q, "done") /\ UNCHANGED <<meta, process, restarts>>

-----------------------------------------------------------------------------
(* The row is read again and its metadata written back with the request's dictionary *)

Load(q) ==
  /\ Moves(q, "load") /\ Becomes(q, [req[q] EXCEPT !.pc = "merge", !.loaded = meta])
  /\ UNCHANGED <<meta, process, restarts>>

\* A WebSocket puts its session into the dictionary that is there, the others put
\* their dictionary in its place.
Written(q) ==
  LET k == KindOf(req[q].id) IN
  [req[q].loaded EXCEPT ![k] =
     IF req[q].op = "connect" THEN With(Dict(req[q].loaded, k), req[q].id, Mine(q))
     ELSE req[q].mine]

\* merge_sandbox_metadata: a key that is not among the updates stays as it is.
Merged(md) == [k \in Kinds |-> IF md[k] = None THEN meta[k] ELSE md[k]]

\* On PostgreSQL a SELECT and an UPDATE.
Merge(q) ==
  /\ req[q].pc = "merge"
  /\ Becomes(q, [req[q] EXCEPT !.pc = "write", !.loaded = Merged(Written(q))])
  /\ UNCHANGED <<meta, process, restarts>>

Write(q) ==
  /\ req[q].pc = "write" /\ meta' = req[q].loaded
  /\ req' = [o \in Requests |->
               IF o = q THEN At(q, req[q].then)
               ELSE [req[o] EXCEPT !.stale = @ \/ (req[o].pc \notin {"idle", "done"}
                                                   /\ meta' # meta)]]
  /\ UNCHANGED <<process, restarts>>

-----------------------------------------------------------------------------
(* The guest *)

Exits(p) ==
  /\ Is(p, "alive") /\ process' = [process EXCEPT ![p].st = "ended"]
  /\ UNCHANGED <<meta, req, restarts>>

\* envd starts anew: it knows none of the processes, which end with their input closed.
EnvdRestarts ==
  /\ restarts < MaxRestarts /\ restarts' = restarts + 1
  /\ process' = [p \in Pids |-> IF process[p].st = "none" THEN process[p]
                                ELSE [process[p] EXCEPT !.st = "gone"]]
  /\ UNCHANGED <<meta, req>>

Next ==
  \/ \E q \in Requests :
       \/ \E r \in Replicas, op \in Ops, id \in Ids : Read(q, r, op, id)
       \/ Starts(q) \/ StartShell(q) \/ Kill(q) \/ KillFails(q) \/ Send(q)
       \/ Collected(q) \/ NotFound(q) \/ Fails(q) \/ Resize(q)
       \/ Connect(q) \/ StartTerminal(q) \/ StartEvent(q) \/ EndEvent(q) \/ Leave(q)
       \/ Load(q) \/ Merge(q) \/ Write(q)
  \/ \E p \in Pids : Exits(p)
  \/ EnvdRestarts

Spec == Init /\ [][Next]_vars

-----------------------------------------------------------------------------
(* Properties *)

\* The write of a request that another write came between since it read.
StaleWrite == \E q \in Requests : req[q].pc = "write" /\ req'[q].pc # "write" /\ req[q].stale
Writes(op, id) ==
  \E q \in Requests : /\ req[q].pc = "write" /\ req'[q].pc # "write"
                      /\ req[q].op = op /\ req[q].id = id

CommandsOf(md, id) ==
  LET dict == Dict(md, KindOf(id)) IN IF id \in DOMAIN dict THEN dict[id].commands ELSE {}
Known(md, id) == id \in DOMAIN Dict(md, KindOf(id))

\* A session goes only with its deletion and comes only with its creation, and a
\* command's record only goes with its session, unless requests overlapped.
Recorded ==
  \A id \in Ids :
    /\ Known(meta, id) /\ ~Known(meta', id) => StaleWrite \/ Writes("delete", id)
    /\ ~Known(meta, id) /\ Known(meta', id) => StaleWrite \/ Writes("create", id)
    /\ ~(CommandsOf(meta, id) \subseteq CommandsOf(meta', id))
         => StaleWrite \/ Writes("delete", id)

\* The processes that a session of the row names, or a request that goes on.
Named ==
  {Selected(Dict(meta, KindOf(id))[id], id) :
     id \in {i \in Ids : Known(meta, i) /\ Has(Dict(meta, KindOf(i))[i])}}
  \cup {req[q].pid : q \in {o \in Requests : req[o].pc # "done"}}
  \cup {Its(q) : q \in {o \in Requests : /\ req[o].pc \in {"load", "merge", "write"}
                                         /\ req[o].id \in DOMAIN req[o].mine
                                         /\ Has(Mine(o))}}

\* From its start on a shell that runs is named by a session, so that it can be used and
\* ended, unless the answer to its start was lost, a kill failed, requests have overlapped, if
\* only on the other dictionary, or envd still knows an earlier process of that session, which
\* it takes for the one that the tag names.
ShellsNamed ==
  \A p \in Pids :
    Is(p, "alive") /\ process'[p].st = "alive" /\ p \in Named /\ p \notin Named'
      => \/ \E q \in Requests : req[q].stale \/ ~req[q].killed \/ req'[q].lost = p
         \/ ~First(p, process[p].of)

\* The row's dictionaries and envd's processes keep up with each other.
Kept == Recorded /\ ShellsNamed
SessionsKept == [][Kept]_vars
=============================================================================
