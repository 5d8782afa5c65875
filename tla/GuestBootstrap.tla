---------------------------- MODULE GuestBootstrap ----------------------------
(***************************************************************************)
(* From a created container to a sandbox whose guest services answer: envd *)
(* and the template's command, started by the container's startup command  *)
(* where the template is marked as having envd baked in, and by commands   *)
(* run in the guest where it is not.                                       *)
(*                                                                         *)
(* A step is one call into the guest, one answer of the gateway's probe or *)
(* one statement of the database.  The guest's services go their own way.  *)
(***************************************************************************)
EXTENDS Naturals

CONSTANTS MaxFaults   \* bound: failures, deaths of services, changes of the template

VARIABLES
  template,  \* is it marked as baked, has it a command with a port?
  guest,     \* the envd in the image, the services, how often the command was started
  row,       \* the sandbox's row with sandbox_bootstrap_pending and _error
  boot,      \* the thread that creates the sandbox, or the one it leaves behind
  faults

vars == <<template, guest, row, boot, faults>>

Pcs == {"idle", "create", "first", "told", "specs", "gate", "again", "envd", "agent",
        "daemon", "bake", "start", "command", "done"}

TypeOK ==
  /\ template \in [marked : BOOLEAN, command : BOOLEAN, unmarked : BOOLEAN]
  /\ guest \in [baked : {"none", "old", "new"}, envd : {"down", "starting", "old", "new"},
                agent : {"down", "starting", "up"}, started : 0..2]
  /\ row \in [st : {"none", "starting", "running", "gone"}, pending : BOOLEAN, error : BOOLEAN]
  /\ boot \in [pc : Pcs, pool : BOOLEAN, background : BOOLEAN, managed : BOOLEAN,
               trusted : BOOLEAN, back : {"again", "agent", "command"}, blind : BOOLEAN,
               seen : SUBSET {"envd", "agent", "listens"}]
  /\ faults \in 0..MaxFaults

Init ==
  /\ template \in [marked : BOOLEAN, command : BOOLEAN, unmarked : {FALSE}]
  /\ guest \in [baked : {"none", "old", "new"}, envd : {"down"}, agent : {"down"}, started : {0}]
  /\ row = [st |-> "none", pending |-> FALSE, error |-> FALSE]
  /\ boot \in [pc : {"idle"}, pool : BOOLEAN, background : {FALSE}, managed : {FALSE},
               trusted : {FALSE}, back : {"again"}, blind : {FALSE}, seen : {{}}]
  /\ faults = 0

Fault == faults < MaxFaults /\ faults' = faults + 1
At(pc) == boot.pc = pc
To(pc) == boot' = [boot EXCEPT !.pc = pc]
Needed == {"envd"} \cup (IF template.command THEN {"agent"} ELSE {})
Started == IF guest.started < 2 THEN guest.started + 1 ELSE 2

-----------------------------------------------------------------------------
(* The guest's services, and the template's marker *)

\* What was started listens in time, envd as the version that is in the image.
Listens(x) ==
  /\ guest[x] = "starting"
  /\ guest' = [guest EXCEPT ![x] = IF x = "agent" THEN "up"
                                   ELSE IF guest.baked = "none" THEN "down" ELSE guest.baked]
  /\ UNCHANGED <<template, row, boot, faults>>

Dies(x) ==
  /\ guest[x] # "down" /\ Fault /\ guest' = [guest EXCEPT ![x] = "down"]
  /\ UNCHANGED <<template, row, boot>>

\* A build marks the template; a registration takes the marker away.
Marks ==
  /\ Fault
  /\ template' = [template EXCEPT !.marked = ~@, !.unmarked = @ \/ template.marked]
  /\ UNCHANGED <<guest, row, boot>>

-----------------------------------------------------------------------------
(* _create_sandbox_fresh *)

\* _startup_managed_bootstrap_spec decides on the marker how the container starts.
Create ==
  /\ At("idle") /\ row' = [row EXCEPT !.st = "starting"]
  /\ guest' = IF template.marked
              THEN [guest EXCEPT !.envd = "starting",
                                 !.agent = IF template.command THEN "starting" ELSE "down",
                                 !.started = IF template.command THEN 1 ELSE 0]
              ELSE guest
  /\ boot' = [boot EXCEPT !.managed = template.marked,
                          !.pc = IF template.marked /\ ~boot.pool THEN "first" ELSE "specs"]
  /\ UNCHANGED <<template, faults>>

\* A client's sandbox is waited for a short time only.
Ready == boot.seen = Needed
FirstLook ==
  /\ At("first") /\ To("told")
  /\ \E answer \in {Ready, FALSE} : row' = [row EXCEPT !.pending = ~answer, !.error = ~answer]
  /\ UNCHANGED <<template, guest, faults>>

Told ==
  /\ At("told") /\ row' = [row EXCEPT !.st = "running"]
  /\ boot' = IF row.pending THEN [boot EXCEPT !.pc = "specs", !.background = TRUE]
             ELSE [boot EXCEPT !.pc = "done"]
  /\ UNCHANGED <<template, guest, faults>>

\* The bootstrap ends: in the background the row is told, else the sandbox is up or gone.
Ends(ok) ==
  /\ boot' = [boot EXCEPT !.pc = "done"]
  /\ row' = IF boot.background THEN [row EXCEPT !.pending = FALSE, !.error = ~ok]
            ELSE [row EXCEPT !.st = IF ok THEN "running" ELSE "gone"]

\* An exception, or the end of the process: only a background thread writes the error.
Raises ==
  /\ boot.pc \notin {"idle", "done"} /\ Fault
  /\ \/ boot.background /\ Ends(FALSE)
     \/ To("done") /\ UNCHANGED row
  /\ UNCHANGED <<template, guest>>

-----------------------------------------------------------------------------
(* _bootstrap_guest_services *)

\* The marker is read anew.
Specs ==
  /\ At("specs")
  /\ boot' = [boot EXCEPT !.managed = template.marked, !.seen = {}, !.back = "command",
                          !.pc = IF template.marked THEN "gate" ELSE "daemon"]
  /\ UNCHANGED <<template, guest, row, faults>>

\* A probe, or a loop in the guest, meets a service that is up: envd by its /health.
Sees(x) ==
  /\ \/ boot.pc \in {"first", "gate", "again"} \/ At(x)
  /\ guest[x] = (IF x = "agent" THEN "up" ELSE "new") /\ x \in Needed
  /\ boot' = [boot EXCEPT !.seen = @ \cup {x}]
  /\ UNCHANGED <<template, guest, row, faults>>

\* Mutant: a probe that is not answered counts as one that is.
UnansweredAsReady(next) == Ends(TRUE)
Unanswered(next) ==
  boot' = [boot EXCEPT !.pc = next, !.blind = TRUE, !.seen = {}] /\ UNCHANGED row

\* The gateway's probe: all are up, some are not, or there is no answer.  What is not up
\* is laid to envd, which is started anew; at the second look it is given up.
Gate ==
  /\ boot.pc \in {"gate", "again"}
  /\ \/ Ready /\ Ends(TRUE) /\ UNCHANGED faults
     \/ ~Ready /\ At("gate") /\ UNCHANGED <<row, faults>>
        /\ boot' = [boot EXCEPT !.pc = "daemon", !.back = "again"]
     \/ ~Ready /\ At("again") /\ Ends(FALSE) /\ UNCHANGED faults
     \/ Fault /\ Unanswered("envd")
  /\ UNCHANGED <<template, guest>>

\* Without the gateway's answer loops in the guest wait for one service after the other.
WaitEnvd ==
  /\ At("envd")
  /\ boot' = IF "envd" \in boot.seen THEN [boot EXCEPT !.pc = "agent"]
             ELSE [boot EXCEPT !.pc = "daemon", !.back = "agent"]
  /\ UNCHANGED <<template, guest, row, faults>>

WaitAgent ==
  /\ At("agent") /\ Ends("agent" \in boot.seen \/ ~template.command)
  /\ UNCHANGED <<template, guest, faults>>

-----------------------------------------------------------------------------
(* _bootstrap_envd_daemon *)

\* Where the template is marked, envd is taken to be there and started at once.
Daemon ==
  /\ At("daemon")
  /\ boot' = [boot EXCEPT !.trusted = template.marked,
                          !.pc = IF template.marked THEN "start" ELSE "bake"]
  /\ UNCHANGED <<template, guest, row, faults>>

\* bake_envd_guest_into_container: the marker file's version is looked at first.
Bake ==
  /\ At("bake")
  /\ \/ /\ guest' = [guest EXCEPT !.baked = "new"]
        /\ boot' = [boot EXCEPT !.pc = "start", !.trusted = FALSE] /\ UNCHANGED <<row, faults>>
     \/ guest.baked # "new" /\ Fault /\ Ends(FALSE) /\ UNCHANGED guest
  /\ UNCHANGED template

\* What a start that went well leads to.  Only where it is waited for has envd been seen
\* to listen, whatever it answers.
Return ==
  /\ boot' = [boot EXCEPT !.pc = boot.back,
                          !.seen = IF boot.back = "agent" THEN {"listens"} ELSE {}]
  /\ UNCHANGED row
NotStarted == IF boot.trusted THEN To("bake") /\ UNCHANGED row ELSE Ends(FALSE)

\* An envd that runs is killed first.
Start ==
  /\ At("start")
  /\ LET waits == boot.back # "command" IN
     \/ /\ waits /\ guest.baked # "none" /\ Return /\ UNCHANGED faults
        /\ guest' = [guest EXCEPT !.envd = guest.baked]
     \/ /\ waits /\ guest.baked = "none" /\ NotStarted /\ UNCHANGED faults
        /\ guest' = [guest EXCEPT !.envd = "down"]
     \/ /\ ~waits /\ Return /\ UNCHANGED faults
        /\ guest' = [guest EXCEPT !.envd = "starting"]
     \/ /\ Fault /\ NotStarted
        /\ guest' = [guest EXCEPT !.envd = "down"]
  /\ UNCHANGED template

\* _bootstrap_template_start_cmd: its failure is not looked at.
StartCommand ==
  /\ At("command") /\ Ends(TRUE)
  /\ guest' = IF template.command
              THEN [guest EXCEPT !.agent = "starting", !.started = Started] ELSE guest
  /\ UNCHANGED <<template, faults>>

\* The client deletes the sandbox: what the bootstrap still does fails, and there is no
\* row for it to write to.
Delete ==
  /\ row.st = "running" /\ row' = [row EXCEPT !.st = "gone"]
  /\ guest' = [guest EXCEPT !.envd = "down", !.agent = "down", !.baked = "none"]
  /\ To("done") /\ UNCHANGED <<template, faults>>

Next ==
  \/ \E x \in {"envd", "agent"} : Listens(x) \/ Dies(x) \/ Sees(x)
  \/ Marks \/ Create \/ FirstLook \/ Told \/ Raises \/ Specs \/ Gate \/ WaitEnvd \/ WaitAgent
  \/ Daemon \/ Bake \/ Start \/ StartCommand \/ Delete

Spec == Init /\ [][Next]_vars

-----------------------------------------------------------------------------
(* Properties *)

\* A running sandbox that is said to be ready, with neither an open bootstrap nor an
\* error, of a template that starts its services itself, had them all up: the bootstrap
\* saw each of them after it had last touched it, and envd in the right version unless
\* the gateway had not answered.  Its command was started once, unless the template lost
\* its marker in between.
ReadyWasSeen ==
  row.st = "running" /\ ~row.pending /\ ~row.error =>
    /\ boot.managed => /\ "envd" \in boot.seen \/ (boot.blind /\ "listens" \in boot.seen)
                       /\ template.command => "agent" \in boot.seen
    /\ guest.started > 1 => template.unmarked
=============================================================================
