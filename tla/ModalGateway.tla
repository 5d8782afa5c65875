---------------------------- MODULE ModalGateway ----------------------------
(***************************************************************************)
(* The Modal-compatible gateway: every api-service process has a gRPC      *)
(* server of its own that remembers, in memory, a sandbox's tags, how its  *)
(* termination ended, the results of commands and the tokens of its        *)
(* command router.                                                         *)
(*                                                                         *)
(* One sandbox and one command.  What a handler does between two awaits is *)
(* one step; calls run in threads beside it.                               *)
(***************************************************************************)
EXTENDS Naturals

CONSTANTS
  Replicas, Tags, None,
  MaxSets,    \* bound: settings of tags and snapshots
  MaxFaults   \* bound: calls that fail and processes that start anew

VARIABLES
  row,     \* the sandbox's row, and its tags in the row's metadata
  memory,  \* ModalCompatState of each process
  merges,  \* settings of tags that are merged into the row, each by a thread
  commits, \* snapshots under way, each with the row's metadata read before
  kills,   \* calls of kill_sandbox under way, by process
  exec,    \* the command
  want,    \* history: the tags that were set last, where, and is that in doubt?
  sets,    \* settings and snapshots so far
  faults   \* faults so far

vars == <<row, memory, merges, commits, kills, exec, want, sets, faults>>

Forgotten == [tags |-> None, term |-> None, code |-> None, token |-> FALSE]

\* None is no process, and nothing that is remembered of a call.
ModalBounds == None \notin Replicas /\ None \notin {0, 1} /\ None # "killed"

TypeOK ==
  /\ row \in [st : {"none", "live", "gone"}, tags : SUBSET Tags]
  /\ memory \in [Replicas -> [tags : (SUBSET Tags) \cup {None}, term : {None, 0, 1},
                              code : {None, 0, 1}, token : BOOLEAN]]
  /\ merges \subseteq [at : Replicas, tags : SUBSET Tags]
  /\ commits \subseteq [at : Replicas, tags : SUBSET Tags]
  /\ kills \in [Replicas -> {None, "asked", "killed", "failed"}]
  /\ exec \in [st : {"none", "running", "answered"}, at : Replicas \cup {None}, code : {0, 1}]
  /\ want \in [tags : SUBSET Tags, at : Replicas \cup {None}, doubt : BOOLEAN]
  /\ sets \in 0..MaxSets /\ faults \in 0..MaxFaults

Init ==
  /\ row = [st |-> "none", tags |-> {}] /\ memory = [r \in Replicas |-> Forgotten]
  /\ merges = {} /\ commits = {} /\ kills = [r \in Replicas |-> None]
  /\ exec = [st |-> "none", at |-> None, code |-> 0]
  /\ want = [tags |-> {}, at |-> None, doubt |-> FALSE] /\ sets = 0 /\ faults = 0

Live == row.st = "live"
Fault == faults < MaxFaults /\ faults' = faults + 1

-----------------------------------------------------------------------------
(* The sandbox and its tags *)

Create(r, tags) ==
  /\ row.st = "none" /\ row' = [st |-> "live", tags |-> tags]
  /\ memory' = [memory EXCEPT ![r].tags = tags]
  /\ want' = [tags |-> tags, at |-> r, doubt |-> FALSE]
  /\ UNCHANGED <<merges, commits, kills, exec, sets, faults>>

\* The tags are remembered at once and merged into the row by a thread.
TagsSet(r, tags) ==
  /\ Live /\ sets < MaxSets /\ sets' = sets + 1
  /\ memory' = [memory EXCEPT ![r].tags = tags]
  /\ merges' = merges \cup {[at |-> r, tags |-> tags]}
  /\ want' = [tags |-> tags, at |-> r, doubt |-> merges # {}]
  /\ UNCHANGED <<row, commits, kills, exec, faults>>

MergeTags(m) ==
  /\ m \in merges /\ merges' = merges \ {m}
  /\ row' = [row EXCEPT !.tags = IF Live THEN m.tags ELSE @]
  /\ want' = [want EXCEPT !.doubt = @ \/ commits # {}]
  /\ UNCHANGED <<memory, commits, kills, exec, sets, faults>>

\* That is only logged.
MergeFails(m) ==
  /\ m \in merges /\ Fault /\ merges' = merges \ {m} /\ want' = [want EXCEPT !.doubt = TRUE]
  /\ UNCHANGED <<row, memory, commits, kills, exec, sets>>

\* create_filesystem_snapshot reads the row, commits the container and merges the metadata
\* that it read, whole, with the snapshot's names.
Snapshot(r) ==
  /\ Live /\ sets < MaxSets /\ sets' = sets + 1
  /\ commits' = commits \cup {[at |-> r, tags |-> row.tags]}
  /\ UNCHANGED <<row, memory, merges, kills, exec, want, faults>>

Committed(c) ==
  /\ c \in commits /\ commits' = commits \ {c}
  /\ row' = [row EXCEPT !.tags = IF Live THEN c.tags ELSE @]
  /\ UNCHANGED <<memory, merges, kills, exec, want, sets, faults>>

CommitFails(c) ==
  /\ c \in commits /\ commits' = commits \ {c}
  /\ UNCHANGED <<row, memory, merges, kills, exec, want, sets, faults>>

\* _tags_for_sandbox
Remembered(r) == IF memory[r].tags = None THEN {} ELSE memory[r].tags
Shown(r) == row.tags \cup Remembered(r)

Terminate(r) ==
  /\ row.st # "none" /\ kills[r] = None /\ kills' = [kills EXCEPT ![r] = "asked"]
  /\ UNCHANGED <<row, memory, merges, commits, exec, want, sets, faults>>

\* A sandbox that is gone cannot be killed once more.
Kill(r) ==
  /\ kills[r] = "asked" /\ row' = [row EXCEPT !.st = "gone"]
  /\ kills' = [kills EXCEPT ![r] = IF Live THEN "killed" ELSE "failed"]
  /\ UNCHANGED <<memory, merges, commits, exec, want, sets, faults>>

KillFails(r) ==
  /\ kills[r] = "asked" /\ Fault /\ kills' = [kills EXCEPT ![r] = "failed"]
  /\ UNCHANGED <<row, memory, merges, commits, exec, want, sets>>

Terminated(r) ==
  /\ kills[r] \in {"killed", "failed"}
  /\ memory' = [memory EXCEPT ![r].term = IF kills[r] = "killed" THEN 0 ELSE 1]
  /\ kills' = [kills EXCEPT ![r] = None]
  /\ UNCHANGED <<row, merges, commits, exec, want, sets, faults>>

\* SandboxWait: what is remembered counts before the row.
SaysTerminated(r) == memory[r].term # None

-----------------------------------------------------------------------------
(* The command *)

RouterAccess(r) ==
  /\ Live /\ memory' = [memory EXCEPT ![r].token = TRUE]
  /\ UNCHANGED <<row, merges, commits, kills, exec, want, sets, faults>>

ExecStart(r) ==
  /\ Live /\ memory[r].token /\ exec.st = "none"
  /\ exec' = [st |-> "running", at |-> r, code |-> 0]
  /\ UNCHANGED <<row, memory, merges, commits, kills, want, sets, faults>>

\* The start is answered when the command has ended; 1 stands for every failure.
ExecEnds(code) ==
  /\ exec.st = "running" /\ exec' = [exec EXCEPT !.st = "answered", !.code = code]
  /\ memory' = [memory EXCEPT ![exec.at].code = code]
  /\ UNCHANGED <<row, merges, commits, kills, want, sets, faults>>

\* TaskExecPoll and TaskExecWait, where the token is known: 0 if there is no record.
Polled(r) == IF memory[r].code = None THEN 0 ELSE memory[r].code

-----------------------------------------------------------------------------
\* A process forgets everything; its calls may have had their effect before.
Restart(r) ==
  /\ Fault /\ memory' = [memory EXCEPT ![r] = Forgotten]
  /\ kills' = [kills EXCEPT ![r] = None] /\ merges' = {m \in merges : m.at # r}
  /\ commits' = {c \in commits : c.at # r}
  /\ want' = [want EXCEPT !.doubt = @ \/ merges' # merges]
  /\ exec' = IF exec.at = r THEN [exec EXCEPT !.st = "answered", !.at = None] ELSE exec
  /\ UNCHANGED <<row, sets>>

Next ==
  \/ \E r \in Replicas :
       \/ \E tags \in SUBSET Tags : Create(r, tags) \/ TagsSet(r, tags)
       \/ Terminate(r) \/ Kill(r) \/ KillFails(r) \/ Terminated(r)
       \/ Snapshot(r) \/ RouterAccess(r) \/ ExecStart(r) \/ Restart(r)
  \/ \E m \in merges : MergeTags(m) \/ MergeFails(m)
  \/ \E c \in commits : Committed(c) \/ CommitFails(c)
  \/ \E code \in {0, 1} : ExecEnds(code)

Spec == Init /\ [][Next]_vars

-----------------------------------------------------------------------------
(* Properties *)

\* The tags set last, and no others, are shown by the process that set them and by those
\* that never did, unless the last setting began while another was under way, did not get
\* into the row, or got there while a snapshot was taken that had read the row before.
TagsAsSet ==
  Live /\ merges = {} /\ ~want.doubt =>
    \A r \in Replicas : r = want.at \/ memory[r].tags = None => Shown(r) = want.tags

\* A sandbox that lives is said to be terminated only after a failed termination, and a
\* command that failed is reported so by the process that ran it, and by no other.
ResultsAreSo ==
  /\ Live => \A r \in Replicas : SaysTerminated(r) => memory[r].term = 1
  /\ exec.st = "answered" => \A r \in Replicas : Polled(r) = IF r = exec.at THEN exec.code ELSE 0

\* What a Modal client is shown of its sandbox is what it set and what happened.
ToldSo == TagsAsSet /\ ResultsAreSo
=============================================================================
