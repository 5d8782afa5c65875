----------------------------- MODULE AgentRuntime -----------------------------
(***************************************************************************)
(* Agents of one sandbox in one api-service process: a thread per agent    *)
(* runs its script in the sandbox, once or again and again, until a kill   *)
(* sets its stop event.  Spawning runs in a worker thread; the routes that *)
(* look at an agent or kill it run on the event loop, one at a time, and   *)
(* only while the sandbox is there.                                        *)
(***************************************************************************)
EXTENDS Naturals

CONSTANTS Agents, None

VARIABLES
  spawn,       \* where start() of the agent is
  loop,        \* where the agent's thread is
  state,       \* Agent.state
  single,      \* config.single_run
  stop,        \* _stop_event
  runs,        \* history: commands begun, counted to 2, and did one of them raise?
  raised,
  early,       \* history: did the thread finish before start() set the state?
  registered,  \* AgentRuntime.agents
  killing,     \* the agent whose kill occupies the event loop
  sandbox,     \* is the sandbox there?
  listed,      \* the agents the shutdown has still to kill
  process      \* "up", "stopping" or "exited"

vars == <<spawn, loop, state, single, stop, runs, raised, early, registered, killing,
          sandbox, listed, process>>
History == <<runs, raised, early>>

TypeOK ==
  /\ spawn \in [Agents -> {"none", "write", "thread", "state", "register", "up", "failed"}]
  /\ loop \in [Agents -> {"none", "head", "command", "sleep", "mark", "drop", "done"}]
  /\ state \in [Agents -> {"idle", "running", "stopped", "failed"}]
  /\ single \in [Agents -> BOOLEAN] /\ stop \in [Agents -> BOOLEAN]
  /\ runs \in [Agents -> 0..2] /\ raised \in [Agents -> BOOLEAN]
  /\ early \in [Agents -> BOOLEAN]
  /\ registered \subseteq Agents /\ listed \subseteq Agents
  /\ killing \in Agents \cup {None}
  /\ sandbox \in BOOLEAN /\ process \in {"up", "stopping", "exited"}

Init ==
  /\ spawn = [a \in Agents |-> "none"] /\ loop = [a \in Agents |-> "none"]
  /\ state = [a \in Agents |-> "idle"] /\ single \in [Agents -> BOOLEAN]
  /\ stop = [a \in Agents |-> FALSE] /\ runs = [a \in Agents |-> 0]
  /\ raised = [a \in Agents |-> FALSE] /\ early = [a \in Agents |-> FALSE]
  /\ registered = {} /\ killing = None /\ sandbox = TRUE
  /\ listed = {} /\ process = "up"

Spawning(a, from, to) ==
  spawn[a] = from /\ process # "exited" /\ spawn' = [spawn EXCEPT ![a] = to]
Looping(a, from, to) ==
  loop[a] = from /\ process # "exited" /\ loop' = [loop EXCEPT ![a] = to]
LoopOnly == UNCHANGED <<spawn, state, single, stop, registered, killing, sandbox, listed, process>>

-----------------------------------------------------------------------------
(* POST /sandboxes/{id}/agents/spawn *)

Spawn(a) ==
  /\ process = "up" /\ killing = None /\ sandbox /\ Spawning(a, "none", "write")
  /\ UNCHANGED <<loop, state, single, stop, History, registered, killing, sandbox, listed, process>>

\* The script is written into the sandbox.
WriteScript(a) ==
  /\ Spawning(a, "write", "thread") /\ sandbox
  /\ UNCHANGED <<loop, state, single, stop, History, registered, killing, sandbox, listed, process>>

WriteFails(a) ==
  /\ Spawning(a, "write", "failed") /\ state' = [state EXCEPT ![a] = "failed"]
  /\ UNCHANGED <<loop, single, stop, History, registered, killing, sandbox, listed, process>>

StartThread(a) ==
  /\ Spawning(a, "thread", "state") /\ loop' = [loop EXCEPT ![a] = "head"]
  /\ UNCHANGED <<state, single, stop, History, registered, killing, sandbox, listed, process>>

\* The state is set after the thread was started.
SetRunning(a) ==
  /\ Spawning(a, "state", "register") /\ state' = [state EXCEPT ![a] = "running"]
  /\ early' = [early EXCEPT ![a] = loop[a] \in {"drop", "done"}]
  /\ UNCHANGED <<loop, single, stop, runs, raised, registered, killing, sandbox, listed, process>>

Register(a) ==
  /\ Spawning(a, "register", "up") /\ registered' = registered \cup {a}
  /\ UNCHANGED <<loop, state, single, stop, History, killing, sandbox, listed, process>>

-----------------------------------------------------------------------------
(* _run_agent_loop *)

\* mutant: the event ends only a single run
StopSeenSingle(a) == stop[a] /\ single[a]
StopSeen(a) == stop[a]

Head(a) ==
  /\ Looping(a, "head", IF StopSeen(a) THEN "mark" ELSE "command")
  /\ runs' = IF StopSeen(a) \/ runs[a] = 2 THEN runs ELSE [runs EXCEPT ![a] = @ + 1]
  /\ LoopOnly /\ UNCHANGED <<raised, early>>

\* mutant: a single run goes on as the others do
AfterCommandAlways(a) == "sleep"
AfterCommand(a) == IF single[a] THEN "mark" ELSE "sleep"

\* The command ended, in time or not, with any exit code.
CommandEnds(a) ==
  /\ Looping(a, "command", AfterCommand(a)) /\ LoopOnly /\ UNCHANGED History

\* run_command raised: the loop waits and tries again, a single run too.
CommandRaises(a) ==
  /\ Looping(a, "command", "sleep") /\ raised' = [raised EXCEPT ![a] = TRUE]
  /\ LoopOnly /\ UNCHANGED <<runs, early>>

Sleep(a) == Looping(a, "sleep", "head") /\ LoopOnly /\ UNCHANGED History

\* mutant: the state is left as it is
MarkedNot(a) == state[a]
Marked(a) == IF single[a] /\ state[a] = "running" THEN "stopped" ELSE state[a]

Mark(a) ==
  /\ Looping(a, "mark", "drop") /\ state' = [state EXCEPT ![a] = Marked(a)]
  /\ UNCHANGED <<spawn, single, stop, History, registered, killing, sandbox, listed, process>>

\* The script is deleted from the sandbox, if that can be done.
Drop(a) == Looping(a, "drop", "done") /\ LoopOnly /\ UNCHANGED History

-----------------------------------------------------------------------------
(* POST .../agents/{agent_id}/kill, and the end of the process *)

Stop(a) ==
  /\ killing = None /\ a \in registered /\ killing' = a
  /\ stop' = [stop EXCEPT ![a] = TRUE]
  /\ UNCHANGED <<spawn, loop, state, single, History, registered, sandbox, process>>

Kill(a) == process = "up" /\ sandbox /\ Stop(a) /\ UNCHANGED listed

\* The thread has ended or five seconds have passed.
Killed(a) ==
  /\ killing = a /\ process # "exited" /\ killing' = None
  /\ state' = [state EXCEPT ![a] = "stopped"] /\ registered' = registered \ {a}
  /\ UNCHANGED <<spawn, loop, single, stop, History, sandbox, listed, process>>

Shutdown ==
  /\ process = "up" /\ killing = None /\ process' = "stopping" /\ listed' = registered
  /\ UNCHANGED <<spawn, loop, state, single, stop, History, registered, killing, sandbox>>

ShutdownKill(a) ==
  process = "stopping" /\ a \in listed /\ Stop(a) /\ listed' = listed \ {a}

\* The threads end with the process.
Exit ==
  /\ process = "stopping" /\ listed = {} /\ killing = None /\ process' = "exited"
  /\ loop' = [a \in Agents |-> "done"]
  /\ UNCHANGED <<spawn, state, single, stop, History, registered, killing, sandbox, listed>>

\* Nothing tells the agents (cleanup_sandbox_agents is never called).
DeleteSandbox ==
  /\ sandbox /\ sandbox' = FALSE
  /\ UNCHANGED <<spawn, loop, state, single, stop, History, registered, killing, listed, process>>

Thread(a) ==
  \/ Head(a) \/ CommandEnds(a) \/ CommandRaises(a) \/ Sleep(a) \/ Mark(a) \/ Drop(a)

Next ==
  \/ \E a \in Agents :
       \/ Spawn(a) \/ WriteScript(a) \/ WriteFails(a) \/ StartThread(a) \/ SetRunning(a)
       \/ Register(a) \/ Thread(a) \/ Kill(a) \/ Killed(a) \/ ShutdownKill(a)
  \/ Shutdown \/ Exit \/ DeleteSandbox

\* A thread runs on, a command ends by its timeout, and a kill waits five seconds.
Fairness == \A a \in Agents : WF_vars(Thread(a)) /\ WF_vars(Killed(a))

Spec == Init /\ [][Next]_vars
FairSpec == Spec /\ Fairness

-----------------------------------------------------------------------------
(* Properties *)

\* A single run begins a second command only after one that raised; one that has ended
\* is shown as running only when it ended before start() set the state.
SingleRunHonest ==
  \A a \in Agents : single[a] =>
    /\ runs[a] = 2 => raised[a]
    /\ loop[a] \in {"drop", "done"} /\ state[a] = "running" /\ process # "exited" => early[a]

\* An agent that was killed ends, also when the kill did not wait for it.
Stopped(a) == stop[a]
Ended(a) == loop[a] = "done"
KilledEnds == \A a \in Agents : Stopped(a) ~> Ended(a)
=============================================================================
