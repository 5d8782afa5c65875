---------------------------- MODULE ContainerHost ----------------------------
(***************************************************************************)
(* The container manager of a runtime gateway: worker threads that create, *)
(* kill, run commands in and look at containers of one Docker engine, all  *)
(* through one client object, which each of them drops after a transient   *)
(* error and makes again before a call.  A call may fail before the engine *)
(* did anything, after it did, or while the engine still holds it.         *)
(*                                                                         *)
(* The caller is the api-service: it names a container once, learns its id *)
(* from a create that succeeds, and may kill it again as long as no kill   *)
(* has succeeded.                                                          *)
(***************************************************************************)
EXTENDS Naturals

CONSTANTS
  Threads, Names, None,
  Tries,     \* attempts of a call
  MaxFaults  \* bound: calls that fail and containers that do not start

VARIABLES
  box,      \* the engine: the state of the container of a name
  late,     \* the engine: a request to run the name that nobody waits for any more
  client,   \* is self.client set?
  thread,   \* the threads: operation, container, step, attempt
  held,     \* the caller: fresh, made, wanted gone, killed, or lost (create failed)
  runs,     \* history: how often the command of an exec was begun
  unclean,  \* history: did a failed run leave the container because the clean-up failed?
  ghost,    \* history: did the engine run a late request?
  faults

vars == <<box, late, client, thread, held, runs, unclean, ghost, faults>>
History == <<runs, unclean, ghost>>

Idle == [op |-> None, n |-> None, pc |-> "idle", try |-> 0]
Ops == {"create", "kill", "exec", "state", "pause", "resume"}

TypeOK ==
  /\ box \in [Names -> {"none", "created", "running", "paused", "exited"}]
  /\ late \in [Names -> BOOLEAN] /\ client \in BOOLEAN
  /\ thread \in [Threads -> [op : Ops \cup {None}, n : Names \cup {None},
                             pc : {"idle", "ensure", "call", "clean", "cleanLost", "remove"},
                             try : 0..(Tries - 1)]]
  /\ held \in [Names -> {"fresh", "making", "made", "wanted", "killed", "lost"}]
  /\ runs \in [Names -> 0..2]
  /\ unclean \in [Names -> BOOLEAN] /\ ghost \in [Names -> BOOLEAN]
  /\ faults \in 0..MaxFaults

Init ==
  /\ box = [n \in Names |-> "none"] /\ late = [n \in Names |-> FALSE] /\ client \in BOOLEAN
  /\ thread = [t \in Threads |-> Idle] /\ held = [n \in Names |-> "fresh"]
  /\ runs = [n \in Names |-> 0] /\ unclean = [n \in Names |-> FALSE]
  /\ ghost = [n \in Names |-> FALSE] /\ faults = 0

Fault == faults < MaxFaults /\ faults' = faults + 1
In(t, op, pc) == thread[t].op = op /\ thread[t].pc = pc
Goto(t, pc) == thread' = [thread EXCEPT ![t].pc = pc]
End(t) == thread' = [thread EXCEPT ![t] = Idle]
N(t) == thread[t].n
Hold(t, h) == held' = [held EXCEPT ![N(t)] = h]
Failed(t) == IF thread[t].op = "create" THEN Hold(t, "lost") ELSE UNCHANGED held

\* The operation fails: without an attempt more, or because the error is not transient.
Fail(t) == End(t) /\ Failed(t) /\ UNCHANGED client
\* A transient error: the client is dropped, for all, and there is another attempt.
Retries == {"create", "kill", "exec", "state"}
\* mutant: off by one
AttemptsLeftOne(t) == thread[t].try < Tries
AttemptsLeft(t) == thread[t].try < Tries - 1
Again(t) ==
  IF AttemptsLeft(t) /\ thread[t].op \in Retries
  THEN /\ thread' = [thread EXCEPT ![t].pc = "ensure", ![t].try = @ + 1]
       /\ client' = FALSE /\ UNCHANGED held
  ELSE Fail(t)

-----------------------------------------------------------------------------
(* The caller *)

Begin(t, op, n) ==
  /\ thread[t] = Idle
  /\ \/ op = "create" /\ held[n] = "fresh" /\ held' = [held EXCEPT ![n] = "making"]
     \/ /\ op = "kill" /\ held[n] \in {"made", "wanted"}
        /\ \A u \in Threads : thread[u].n = n => thread[u].op # "kill"
        /\ held' = [held EXCEPT ![n] = "wanted"]
     \/ op \in {"exec", "pause", "resume"} /\ held[n] = "made" /\ UNCHANGED held
     \/ op = "state" /\ UNCHANGED held
  /\ thread' = [thread EXCEPT ![t] = [op |-> op, n |-> n, pc |-> "ensure", try |-> 0]]
  /\ UNCHANGED <<box, late, client, History, faults>>

\* _ensure_docker_client: the client is there or is made, or the attempt is spent.
Ensure(t) ==
  /\ thread[t].pc = "ensure" /\ client' = TRUE /\ Goto(t, "call")
  /\ UNCHANGED <<box, late, held, History, faults>>

EnsureFails(t) ==
  /\ thread[t].pc = "ensure" /\ ~client /\ Fault /\ Again(t)
  /\ UNCHANGED <<box, late, History>>

\* Another thread dropped the client in the meantime: an AttributeError.
NoClient(t) ==
  /\ thread[t].pc \in {"call", "remove"} /\ ~client
  /\ IF thread[t].op = "create" THEN Goto(t, "clean") /\ UNCHANGED <<client, held>> ELSE Fail(t)
  /\ UNCHANGED <<box, late, History, faults>>

\* The call fails with a transient error before the engine did anything.
CallFails(t) ==
  /\ thread[t].pc \in {"call", "remove"} /\ client /\ Fault
  /\ IF thread[t].op = "create" THEN Goto(t, "cleanLost") /\ UNCHANGED <<client, held>>
     ELSE Again(t)
  /\ UNCHANGED <<box, late, History>>

-----------------------------------------------------------------------------
(* create_container *)

\* containers.run: done, or the name is taken.
Run(t) ==
  /\ In(t, "create", "call") /\ client /\ UNCHANGED <<late, client, History, faults>>
  /\ IF box[N(t)] = "none"
     THEN /\ box' = [box EXCEPT ![N(t)] = "running"] /\ Hold(t, "made") /\ End(t)
     ELSE Goto(t, "clean") /\ UNCHANGED <<box, held>>

\* The container is created and does not start.
RunNotStarted(t) ==
  /\ In(t, "create", "call") /\ client /\ Fault /\ box[N(t)] = "none"
  /\ box' = [box EXCEPT ![N(t)] = "created"] /\ Goto(t, "clean")
  /\ UNCHANGED <<late, client, held, History>>

\* Done, or still to be done, and the answer is lost.
RunUnanswered(t) ==
  /\ In(t, "create", "call") /\ client /\ Fault /\ box[N(t)] = "none" /\ Goto(t, "cleanLost")
  /\ \/ box' = [box EXCEPT ![N(t)] = "running"] /\ UNCHANGED late
     \/ late' = [late EXCEPT ![N(t)] = TRUE] /\ UNCHANGED box
  /\ UNCHANGED <<client, held, History>>

LateRun(n) ==
  /\ late[n] /\ late' = [late EXCEPT ![n] = FALSE]
  /\ IF box[n] = "none" THEN /\ box' = [box EXCEPT ![n] = "running"]
                             /\ ghost' = [ghost EXCEPT ![n] = TRUE]
     ELSE UNCHANGED <<box, ghost>>
  /\ UNCHANGED <<client, thread, held, runs, unclean, faults>>

\* mutant: only a container that did not start is removed
CleanedStart(n) == [box EXCEPT ![n] = IF @ = "created" THEN "none" ELSE @]
\* After a failed run whatever has the name is removed; how that ends is not looked at.
Cleaned(n) == [box EXCEPT ![n] = "none"]

Clean(t) ==
  /\ thread[t].pc \in {"clean", "cleanLost"} /\ client /\ UNCHANGED <<late, runs, ghost, faults>>
  /\ box' = Cleaned(N(t))
  /\ unclean' = [unclean EXCEPT ![N(t)] = FALSE]
  /\ IF thread[t].pc = "clean" THEN Fail(t) ELSE Again(t)

CleanFails(t) ==
  /\ thread[t].pc \in {"clean", "cleanLost"} /\ UNCHANGED <<box, late, runs, ghost>>
  /\ IF client THEN Fault ELSE UNCHANGED faults
  /\ unclean' = [unclean EXCEPT ![N(t)] = box[N(t)] # "none"]
  /\ IF thread[t].pc = "clean" THEN Fail(t) ELSE Again(t)

-----------------------------------------------------------------------------
(* kill_container *)

\* mutant: a container that is not there cannot be killed
AbsentFails(t) == Fail(t)
Absent(t) == End(t) /\ Hold(t, "killed") /\ UNCHANGED client

\* kill(): a container that does not run cannot be killed, an error like others.
Kill(t) ==
  /\ In(t, "kill", "call") /\ client /\ UNCHANGED <<late, History, faults>>
  /\ IF box[N(t)] = "none" THEN Absent(t) /\ UNCHANGED box
     ELSE IF box[N(t)] \in {"running", "paused"}
     THEN /\ box' = [box EXCEPT ![N(t)] = "exited"] /\ Goto(t, "remove")
          /\ UNCHANGED <<client, held>>
     ELSE Fail(t) /\ UNCHANGED box

Remove(t) ==
  /\ In(t, "kill", "remove") /\ client /\ End(t) /\ Hold(t, "killed")
  /\ box' = [box EXCEPT ![N(t)] = "none"]
  /\ UNCHANGED <<late, client, History, faults>>

\* Done by the engine, and the answer is lost.
Unanswered(t) ==
  /\ In(t, "kill", "call") \/ In(t, "kill", "remove")
  /\ client /\ Fault /\ box[N(t)] # "none" /\ Again(t)
  /\ box' = [box EXCEPT ![N(t)] = IF thread[t].pc = "remove" THEN "none" ELSE "exited"]
  /\ UNCHANGED <<late, History>>

-----------------------------------------------------------------------------
(* run_command, pause_instance, resume_instance, get_container_state *)

Began(t) == runs' = [runs EXCEPT ![N(t)] = IF @ < 2 THEN @ + 1 ELSE @]

\* A command that is run, whatever its exit code; 124 when it takes too long.
Exec(t) ==
  /\ In(t, "exec", "call") /\ client /\ End(t)
  /\ IF box[N(t)] = "running" THEN Began(t) ELSE UNCHANGED runs
  /\ UNCHANGED <<box, late, client, held, unclean, ghost, faults>>

\* It is begun, the answer is lost, and the next attempt begins it again.
ExecUnanswered(t) ==
  /\ In(t, "exec", "call") /\ client /\ Fault /\ box[N(t)] = "running" /\ Began(t) /\ Again(t)
  /\ UNCHANGED <<box, late, unclean, ghost>>

Pause(t) ==
  /\ In(t, "pause", "call") /\ client /\ End(t)
  /\ box' = IF box[N(t)] = "running" THEN [box EXCEPT ![N(t)] = "paused"] ELSE box
  /\ UNCHANGED <<late, client, held, History, faults>>

Resume(t) ==
  /\ In(t, "resume", "call") /\ client /\ End(t)
  /\ box' = IF box[N(t)] = "paused" THEN [box EXCEPT ![N(t)] = "running"] ELSE box
  /\ UNCHANGED <<late, client, held, History, faults>>

State(t) ==
  In(t, "state", "call") /\ client /\ End(t) /\ UNCHANGED <<box, late, client, held, History, faults>>

\* The container's process ends.
Exit(n) ==
  /\ box[n] = "running" /\ box' = [box EXCEPT ![n] = "exited"]
  /\ UNCHANGED <<late, client, thread, held, History, faults>>

Prunable(n) == box[n] = "exited"

\* prune_exited_containers: of a sandbox's container the age does not matter.
Prune(n) ==
  /\ Prunable(n) /\ box' = [box EXCEPT ![n] = "none"]
  /\ UNCHANGED <<late, client, thread, held, History, faults>>

Call(t) == Run(t) \/ Kill(t) \/ Remove(t) \/ Exec(t) \/ Pause(t) \/ Resume(t) \/ State(t)
Step(t) == Ensure(t) \/ Call(t) \/ NoClient(t) \/ Clean(t) \/ CleanFails(t)

Next ==
  \/ \E t \in Threads :
       \/ Step(t) \/ EnsureFails(t) \/ CallFails(t) \/ RunNotStarted(t) \/ RunUnanswered(t)
       \/ Unanswered(t) \/ ExecUnanswered(t)
       \/ \E op \in Ops, n \in Names : Begin(t, op, n)
  \/ \E n \in Names : LateRun(n) \/ Exit(n) \/ Prune(n)

Spec == Init /\ [][Next]_vars

-----------------------------------------------------------------------------
(* Properties *)

\* What a failed create or a successful kill leaves behind is a container whose clean-up
\* failed or that the engine made after its caller had given up.
NoLeftovers ==
  \A n \in Names :
    held[n] \in {"lost", "killed"} /\ box[n] # "none" => unclean[n] \/ ghost[n]
=============================================================================
