----------------------------- MODULE SshTerminal -----------------------------
(***************************************************************************)
(* A terminal over SSH: the tokens that a sandbox's row keeps, the search  *)
(* for a token when a client comes, and the session that joins the         *)
(* client's channel to a shell which envd starts in the guest.             *)
(*                                                                         *)
(* What the session sends to envd is under way until it arrives; a session *)
(* waits for an answer only where the code awaits it.                      *)
(***************************************************************************)
EXTENDS Integers, Sequences

CONSTANTS
  Replicas, Tokens, None,
  MaxEdits,   \* bound: changes of the row's tokens
  MaxTyped,   \* bound: messages of the client
  MaxOthers   \* bound: rows of other sandboxes

VARIABLES
  row,      \* the tokens in the sandbox's row, those past their time, the rows before it
  edit,     \* a handler that read the row and has not written it, by replica
  session,
  wire,     \* requests that are on their way to envd
  shell,
  edits

vars == <<row, edit, session, wire, shell, edits>>

Start == 0
CommandLine == -1
Kill == -2
Requests == 1..MaxTyped \cup {Start, CommandLine, Kill}
NoEdit == [what |-> "none", token |-> None, seen |-> {}]

TypeOK ==
  /\ row \in [there : BOOLEAN, tokens : SUBSET Tokens, expired : SUBSET Tokens,
              before : 0..MaxOthers]
  /\ edit \in [Replicas -> [what : {"none", "create", "revoke", "revoke_all"},
                            token : Tokens \cup {None}, seen : SUBSET Tokens]]
  /\ session.pc \in {"none", "auth", "refused", "admitted", "start", "flush", "command",
                     "connect", "pump", "ended"}
  /\ session.token \in Tokens \cup {None} /\ session.at \in 0..(MaxOthers + 1)
  /\ session.known \in BOOLEAN /\ session.exec \in BOOLEAN /\ session.spared \in BOOLEAN
  /\ session.chan \in {"open", "exited", "failed", "gone"}
  /\ session.pending \in Seq(1..MaxTyped) /\ session.typed \in 0..MaxTyped
  /\ wire \subseteq Requests
  /\ shell.st \in {"none", "live", "dead"} /\ shell.got \in Seq(Requests)
  /\ edits \in 0..MaxEdits

Init ==
  /\ row \in [there : {TRUE}, tokens : {{}}, expired : {{}}, before : 0..MaxOthers]
  /\ edit = [r \in Replicas |-> NoEdit]
  /\ session \in [pc : {"none"}, token : {None}, at : {0}, known : {FALSE}, exec : BOOLEAN,
                  spared : {FALSE}, chan : {"open"}, pending : {<< >>}, typed : {0}]
  /\ wire = {} /\ shell = [st |-> "none", got |-> << >>] /\ edits = 0

At(pc) == session.pc = pc
Awaited(pc) == session' = [session EXCEPT !.pc = pc]

-----------------------------------------------------------------------------
(* The tokens of the sandbox, and the other rows *)

\* The handler has the row before it builds the records that it will save.
Reads(r, what, token) ==
  /\ row.there /\ edit[r].what = "none" /\ edits < MaxEdits /\ edits' = edits + 1
  /\ edit' = [edit EXCEPT ![r] = [what |-> what, token |-> token,
                                  seen |-> row.tokens \ row.expired]]
  /\ UNCHANGED <<row, session, wire, shell>>

Records(e) ==
  CASE e.what = "create" -> e.seen \cup {e.token}
    [] e.what = "revoke" -> e.seen \ {e.token}
    [] e.what = "revoke_all" -> {}

\* The records are saved as one value of the row's metadata.
Saves(r) ==
  /\ edit[r].what # "none"
  /\ row' = IF row.there THEN [row EXCEPT !.tokens = Records(edit[r])] ELSE row
  /\ edit' = [edit EXCEPT ![r] = NoEdit]
  /\ UNCHANGED <<session, wire, shell, edits>>

Expires(token) ==
  /\ token \in row.tokens \ row.expired
  /\ row' = [row EXCEPT !.expired = @ \cup {token}]
  /\ UNCHANGED <<edit, session, wire, shell, edits>>

OtherRows(n) ==
  /\ n # row.before /\ row' = [row EXCEPT !.before = n]
  /\ UNCHANGED <<edit, session, wire, shell, edits>>

-----------------------------------------------------------------------------
(* The search for the token: page after page of the table, one row each *)

BeginAuth(token) ==
  /\ At("none") /\ session' = [session EXCEPT !.pc = "auth", !.token = token]
  /\ UNCHANGED <<row, edit, wire, shell, edits>>

Here == row.there /\ session.at = row.before

FindByToken ==
  /\ At("auth")
  /\ session' = [session EXCEPT
                   !.pc = IF Here /\ session.token \in row.tokens \ row.expired THEN "admitted"
                          ELSE IF session.at <= row.before THEN "auth" ELSE "refused",
                   !.at = IF session.at <= row.before THEN @ + 1 ELSE @]
  /\ UNCHANGED <<row, edit, wire, shell, edits>>

-----------------------------------------------------------------------------
(* The session *)

\* shell_requested or exec_requested: the task starts a shell.
Requested ==
  /\ At("admitted") /\ session.chan = "open" /\ Awaited("start")
  /\ wire' = wire \cup {Start} /\ UNCHANGED <<row, edit, shell, edits>>

Started ==
  /\ At("start") /\ shell.st # "none"
  /\ session' = [session EXCEPT !.pc = "flush", !.known = TRUE]
  /\ UNCHANGED <<row, edit, wire, shell, edits>>

\* A message goes to the shell by a task of its own once the shell is known, and to the
\* list of pending input until then.  The client's end of file is a message as well, but
\* one that is not kept.
DataReceived(eof) ==
  /\ session.pc \notin {"none", "auth", "refused", "admitted"} /\ session.chan = "open"
  /\ session.typed < MaxTyped
  /\ LET message == session.typed + 1 IN
     /\ session' = [session EXCEPT !.typed = message,
                      !.pending = IF session.known \/ eof THEN @ ELSE Append(@, message)]
     /\ wire' = IF session.known THEN wire \cup {message} ELSE wire
  /\ UNCHANGED <<row, edit, shell, edits>>

Hears(message) == IF shell.st = "live" THEN [shell EXCEPT !.got = Append(@, message)] ELSE shell

\* The pending input, one message after the other, then the command.
Flush ==
  /\ At("flush")
  /\ IF session.pending # << >>
     THEN /\ session' = [session EXCEPT !.pending = Tail(@)]
          /\ shell' = Hears(Head(session.pending))
     ELSE Awaited(IF session.exec THEN "command" ELSE "connect") /\ UNCHANGED shell
  /\ UNCHANGED <<row, edit, wire, edits>>

Command ==
  /\ At("command") /\ Awaited("connect") /\ shell' = Hears(CommandLine)
  /\ UNCHANGED <<row, edit, wire, edits>>

Connect ==
  /\ At("connect") /\ Awaited("pump") /\ UNCHANGED <<row, edit, wire, shell, edits>>

\* The shell's end is passed on as the channel's exit status.
PumpEnds ==
  /\ At("pump") /\ shell.st = "dead" /\ session.chan = "open"
  /\ session' = [session EXCEPT !.pc = "ended", !.chan = "exited"]
  /\ UNCHANGED <<row, edit, wire, shell, edits>>

\* envd's stream ended without saying that the shell did: the channel stays open.
PumpStops ==
  /\ At("pump") /\ Awaited("ended") /\ UNCHANGED <<row, edit, wire, shell, edits>>

\* A request failed: the client is told, and the channel closed with status 1.
Fails ==
  /\ session.pc \in {"start", "flush", "command", "connect", "pump"}
  /\ session' = [session EXCEPT !.pc = "ended", !.chan = IF @ = "open" THEN "failed" ELSE @]
  /\ UNCHANGED <<row, edit, wire, shell, edits>>

\* Mutant: the kill is left to the task, which only the pump would do.
KillsPumped == IF At("pump") THEN {Kill} ELSE {}
Kills == IF session.known THEN {Kill} ELSE {}

\* The client left, or its channel was closed: the task is cancelled where it waits.
ConnectionLost ==
  /\ session.pc \notin {"none", "auth", "refused"} /\ session.chan # "gone"
  /\ session' = [session EXCEPT !.pc = "ended", !.chan = "gone"]
  /\ wire' = wire \cup Kills
  /\ UNCHANGED <<row, edit, shell, edits>>

-----------------------------------------------------------------------------
(* envd and the sandbox *)

Arrives(request) ==
  /\ request \in wire /\ wire' = wire \ {request}
  /\ shell' = CASE request = Start -> [shell EXCEPT !.st = IF row.there THEN "live" ELSE @]
                [] request = Kill -> [shell EXCEPT !.st = "dead"]
                [] OTHER -> Hears(request)
  /\ UNCHANGED <<row, edit, session, edits>>

\* Its error is not looked at.
Misses(request) ==
  /\ request \in wire \ {Start} /\ wire' = wire \ {request}
  /\ session' = [session EXCEPT !.spared = @ \/ request = Kill]
  /\ UNCHANGED <<row, edit, shell, edits>>

ShellExits ==
  /\ shell.st = "live" /\ shell' = [shell EXCEPT !.st = "dead"]
  /\ UNCHANGED <<row, edit, session, wire, edits>>

Delete ==
  /\ row.there /\ row' = [row EXCEPT !.there = FALSE, !.tokens = {}]
  /\ shell' = [shell EXCEPT !.st = IF @ = "live" THEN "dead" ELSE @]
  /\ UNCHANGED <<edit, session, wire, edits>>

Next ==
  \/ \E r \in Replicas :
       \/ \E token \in Tokens, what \in {"create", "revoke", "revoke_all"} : Reads(r, what, token)
       \/ Saves(r)
  \/ \E token \in Tokens : Expires(token) \/ BeginAuth(token)
  \/ \E n \in 0..MaxOthers : OtherRows(n)
  \/ FindByToken \/ Requested \/ Started
  \/ \E eof \in BOOLEAN : DataReceived(eof)
  \/ Flush \/ Command \/ Connect \/ PumpEnds \/ PumpStops \/ Fails \/ ConnectionLost
  \/ \E request \in Requests : Arrives(request) \/ Misses(request)
  \/ ShellExits \/ Delete

Spec == Init /\ [][Next]_vars

-----------------------------------------------------------------------------
(* Property *)

\* When the connection is over and nothing is under way, its shell is over too, unless
\* the connection was lost while the shell was being started, or the one request that
\* kills it failed.
LeavesNoShell ==
  session.chan = "gone" /\ wire = {} /\ session.known => shell.st # "live" \/ session.spared
=============================================================================
