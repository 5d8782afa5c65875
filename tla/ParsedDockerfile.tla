---------------------------- MODULE ParsedDockerfile ----------------------------
(***************************************************************************)
(* A template built from a Dockerfile without `docker build`: the          *)
(* instructions are applied one by one inside a container, which is then   *)
(* committed and killed, and the image is stored as the template's.        *)
(*                                                                         *)
(* The lines of the Dockerfile are chosen as they are read.  A value is a  *)
(* literal or a reference `$name`, written as the name itself.  What a     *)
(* line does to the container's files is the number of the line.           *)
(***************************************************************************)
EXTENDS Naturals, Sequences

CONSTANTS Names, Literals, None,
          MaxLines   \* bound: lines of the Dockerfile after FROM

VARIABLES
  pc,       \* what the build does next
  lines,    \* the lines read: [op, name, val]
  given,    \* the environment of the request, which the container is created with
  args,     \* arg_map: starts as the request's build_args
  env,      \* env_map
  context,  \* did the request come with a build context?
  box,      \* the build container: None, or the lines that were done in it
  late,     \* executions that were lost sight of and may still be going on in it
  image,    \* what was committed, or None
  row       \* the template's row: the image, its environment, what was stored

vars == <<pc, lines, given, args, env, context, box, late, image, row>>

Values == Literals \cup Names
Unset == [n \in Names |-> None]
NoTemplate == [warm |-> None, env |-> Unset, source |-> None]

TypeOK ==
  /\ pc \in {"idle", "create", "walk", "bake", "start", "ready", "commit", "kill",
             "upsert", "source", "warm", "done", "giveup", "failed"}
  /\ \A i \in DOMAIN lines : lines[i].op \in {"ARG", "ENV", "WORKDIR", "USER", "RUN", "COPY", "other"}
  /\ {given, args, env} \subseteq [Names -> Values \cup {None}]
  /\ context \in BOOLEAN /\ late \subseteq 1 .. MaxLines

Init ==
  /\ pc = "idle" /\ lines = <<>> /\ given = Unset /\ args = Unset /\ env = Unset
  /\ context = FALSE /\ box = None /\ late = {} /\ image = None /\ row = NoTemplate

-----------------------------------------------------------------------------
(* What a line sees *)

\* _expand_vars over {**arg_map, **env_map}: a name that neither knows stays as it is.
KnownArgsFirst(n) == IF args[n] # None THEN args[n] ELSE env[n]
Known(n) == IF env[n] # None THEN env[n] ELSE args[n]
Expand(v) == IF v \in Names /\ Known(v) # None THEN Known(v) ELSE v

\* merged_exec_env, over the environment that the container was created with.
Process(n) ==
  IF env[n] # None THEN env[n] ELSE IF args[n] # None THEN args[n] ELSE given[n]

\* The text of a command after _expand_vars; the shell replaces what is left.
Text(n) ==
  IF Known(n) = None THEN Process(n)
  ELSE IF Known(n) \in Names THEN Process(Known(n)) ELSE Known(n)

\* merged_template_env: the Dockerfile's ENV over the request's.
StoredGivenFirst == [n \in Names |-> IF given[n] # None THEN given[n] ELSE env[n]]
Stored == [n \in Names |-> IF env[n] # None THEN env[n] ELSE given[n]]

-----------------------------------------------------------------------------
(* build_template_from_dockerfile_parsed *)

\* The handler has merged the Dockerfile's ENV under the request's env before.
Begin ==
  /\ pc = "idle" /\ pc' = "create"
  /\ \E n \in Names, a, g \in Literals \cup {None} :
       args' = [Unset EXCEPT ![n] = a] /\ given' = [Unset EXCEPT ![n] = g]
  /\ context' \in BOOLEAN
  /\ UNCHANGED <<lines, env, box, late, image, row>>

Create ==
  /\ pc = "create"
  /\ \/ pc' = "walk" /\ box' = <<>>
     \/ pc' = "failed" /\ UNCHANGED box
  /\ UNCHANGED <<lines, given, args, env, context, late, image, row>>

Reads(op, n, v) ==
  /\ pc = "walk" /\ Len(lines) < MaxLines
  /\ lines' = Append(lines, [op |-> op, name |-> n, val |-> v])

\* A build argument, or an earlier ARG, wins over the default.
ReadArg(n, v) ==
  /\ Reads("ARG", n, v)
  /\ args' = IF args[n] = None THEN [args EXCEPT ![n] = Expand(v)] ELSE args
  /\ UNCHANGED <<pc, given, env, context, box, late, image, row>>

ReadEnv(n, v) ==
  /\ Reads("ENV", n, v) /\ env' = [env EXCEPT ![n] = Expand(v)]
  /\ UNCHANGED <<pc, given, args, context, box, late, image, row>>

\* USER, and the lines that are logged and passed over.
ReadOther(op) ==
  /\ op \in {"USER", "other"} /\ Reads(op, None, None)
  /\ UNCHANGED <<pc, given, args, env, context, box, late, image, row>>

\* A line that fails raises.  One whose connection was lost is executed again,
\* and one that took too long fails; neither is stopped in the container.
CheckedNot(ok) == TRUE
Checked(ok) == ok
Does(op) ==
  \E done, lost, ok \in BOOLEAN :
    /\ ok => done
    /\ box' = IF done THEN Append(box, Len(lines) + 1) ELSE box
    /\ late' = IF lost THEN late \cup {Len(lines) + 1} ELSE late
    /\ pc' = IF Checked(ok) THEN "walk" ELSE "giveup"
Executes(op) ==
  /\ op \in {"RUN", "WORKDIR", "COPY"} /\ Reads(op, None, None)
  /\ IF op = "COPY" /\ ~context THEN pc' = "giveup" /\ UNCHANGED <<box, late>> ELSE Does(op)
  /\ UNCHANGED <<given, args, env, context, image, row>>

\* What was lost sight of does its work after all.
LateEnd(i) ==
  /\ i \in late /\ box # None
  /\ late' = late \ {i} /\ box' = Append(box, i)
  /\ UNCHANGED <<pc, lines, given, args, env, context, image, row>>

EndOfFile ==
  /\ pc = "walk" /\ pc' = "bake"
  /\ UNCHANGED <<lines, given, args, env, context, box, late, image, row>>

\* Baking that fails leaves the template without its mark; a start command
\* that fails is logged.
Bake ==
  /\ pc = "bake" /\ pc' = "start"
  /\ UNCHANGED <<lines, given, args, env, context, box, late, image, row>>

StartCmd ==
  /\ pc = "start" /\ pc' = "ready"
  /\ UNCHANGED <<lines, given, args, env, context, box, late, image, row>>

\* The ready command is asked until its deadline.
Ready ==
  /\ pc = "ready" /\ pc' \in {"commit", "giveup"}
  /\ UNCHANGED <<lines, given, args, env, context, box, late, image, row>>

Commit ==
  /\ pc = "commit"
  /\ \/ pc' = "kill" /\ image' = box
     \/ pc' = "giveup" /\ UNCHANGED image
  /\ UNCHANGED <<lines, given, args, env, context, box, late, row>>

\* finally: a kill that raises is passed over and leaves the container behind.
Kill ==
  /\ pc \in {"kill", "giveup"} /\ pc' = IF pc = "kill" THEN "upsert" ELSE "failed"
  /\ box' \in {None, box}
  /\ UNCHANGED <<lines, given, args, env, context, late, image, row>>

\* The three statements; registering clears the warm snapshot.
Upsert ==
  /\ pc = "upsert" /\ pc' = "source"
  /\ row' = [row EXCEPT !.env = Stored, !.warm = None]
  /\ UNCHANGED <<lines, given, args, env, context, box, late, image>>

SetSource ==
  /\ pc = "source" /\ pc' = "warm" /\ row' = [row EXCEPT !.source = lines]
  /\ UNCHANGED <<lines, given, args, env, context, box, late, image>>

SetWarm ==
  /\ pc = "warm" /\ pc' = "done" /\ row' = [row EXCEPT !.warm = image]
  /\ UNCHANGED <<lines, given, args, env, context, box, late, image>>

\* The replica goes down: nothing kills the container then.
Crash ==
  /\ pc \notin {"idle", "done", "failed"} /\ pc' = "failed"
  /\ UNCHANGED <<lines, given, args, env, context, box, late, image, row>>

Next ==
  \/ Begin \/ Create \/ EndOfFile \/ Bake \/ StartCmd \/ Ready \/ Commit \/ Kill
  \/ Upsert \/ SetSource \/ SetWarm \/ Crash
  \/ \E n \in Names, v \in Values : ReadArg(n, v) \/ ReadEnv(n, v)
  \/ \E op \in {"USER", "other"} : ReadOther(op)
  \/ \E op \in {"RUN", "WORKDIR", "COPY"} : Executes(op)
  \/ \E i \in late : LateEnd(i)

Spec == Init /\ [][Next]_vars

-----------------------------------------------------------------------------
(* What it promises *)

\* A template's sandboxes start from an image in which every line of the stored
\* Dockerfile that works on the container was done, each before the next began.
Works(line) == line.op \in {"RUN", "WORKDIR", "COPY"}
DoneInTurn(done, ls) ==
  \A j \in DOMAIN ls : Works(ls[j]) =>
    \E m \in DOMAIN done :
      /\ done[m] = j /\ \A k \in 1..(m - 1) : done[k] # j
      /\ \A i \in 1..(j - 1) : Works(ls[i]) => \E k \in 1..(m - 1) : done[k] = i
RegisteredWhole == row.warm # None => DoneInTurn(row.warm, row.source)

\* A name whose value has no reference left in it means the same in the text of
\* a command and to the process that it starts; and a name that is no argument
\* means the same to the sandboxes as it did to the last command of the build.
OneEnvironment ==
  \A n \in Names :
    /\ Process(n) \notin Names => Text(n) = Process(n)
    /\ row.warm # None /\ args[n] = None => row.env[n] = Process(n)

\* Both, for the builder of template_dockerfile_builder.
BuiltAsWritten == RegisteredWhole /\ OneEnvironment
=============================================================================
