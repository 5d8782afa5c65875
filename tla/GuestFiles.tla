----------------------------- MODULE GuestFiles -----------------------------
(***************************************************************************)
(* Files of a sandbox: requests that write a file in pieces, each piece a  *)
(* command in the container, the single-step operations of envd and of the *)
(* toolbox, and a watcher of envd that compares the tree with what it saw  *)
(* when it last looked.                                                    *)
(*                                                                         *)
(* The tree is a directory, a file in it and a file beside it.  Of a file  *)
(* its pieces and its mode are kept; its time of change only as whether it *)
(* was changed since the watcher looked.                                   *)
(***************************************************************************)
EXTENDS Integers, Sequences

CONSTANTS
  Writers, None,
  MaxFaults,  \* bound: commands that fail, run twice or late, and lost answers
  MaxOps      \* bound: operations beside the first writer's

Dir == "d"
Inner == "d/f"
Outer == "g"
Paths == {Dir, Inner, Outer}

VARIABLES
  tree,     \* None, or the pieces and the mode of a path
  writer,   \* the requests that write Inner
  late,     \* pieces that a command nobody waits for will still append
  watching, \* what the watcher watches
  seen,     \* its snapshot: the mode of a path, or None
  changed,  \* the paths that changed since it looked
  known,    \* what its client knows of a path: None, "current" or "old"
  hidden,   \* the paths whose change its client was not told of
  faults, ops

vars == <<tree, writer, late, watching, seen, changed, known, hidden, faults, ops>>
watchVars == <<watching, seen, hidden>>

Piece == Writers \X {1, 2}
Data(w) == << <<w, 1>>, <<w, 2>> >>
Old == << <<None, 1>> >>

\* What is kept of a file.
Contents == [pieces : Seq(Piece \cup {<<None, 1>>}), mode : {0, 1}]

\* None is no file, no mode, and nothing that a client knows.
FilesBounds == None \notin Contents /\ None \notin {0, 1} /\ None \notin {"current", "old"}

TypeOK ==
  /\ \A p \in Paths : tree[p] # None =>
       /\ tree[p].pieces \in Seq(Piece \cup {<<None, 1>>}) /\ tree[p].mode \in {0, 1}
  /\ \A w \in Writers :
       /\ writer[w].pc \in {"idle", "read", "mkdir", "cut", "append", "whole", "verify", "done"}
       /\ writer[w].op \in {"upload", "write", "replace", None} /\ writer[w].i \in {1, 2}
       /\ writer[w].answer \in {"none", "ok", "failed"}
       /\ writer[w].overlap \in BOOLEAN /\ writer[w].unnoticed \in BOOLEAN
  /\ late \subseteq Piece /\ watching \in {"nothing", "all", "top", "dir"}
  /\ seen \in [Paths -> {0, 1, None}] /\ changed \subseteq Paths
  /\ known \in [Paths -> {"current", "old", None}] /\ hidden \subseteq Paths
  /\ faults \in 0..MaxFaults /\ ops \in 0..MaxOps

New == [pc |-> "idle", op |-> None, i |-> 1, answer |-> "none", overlap |-> FALSE,
        unnoticed |-> FALSE]

Init ==
  /\ tree \in {[p \in Paths |-> None],
               [p \in Paths |-> [pieces |-> IF p = Inner THEN Old ELSE << >>, mode |-> 0]]}
  /\ writer = [w \in Writers |-> New] /\ late = {}
  /\ watching = "nothing" /\ seen = [p \in Paths |-> None] /\ changed = {}
  /\ known = [p \in Paths |-> None] /\ hidden = {} /\ faults = 0 /\ ops = 0

-----------------------------------------------------------------------------
(* Steps on the tree *)

There(p) == tree[p] # None
Mode(p) == IF There(p) THEN tree[p].mode ELSE 0
Pieces(p) == IF There(p) THEN tree[p].pieces ELSE << >>

Changes(new) ==
  {p \in Paths : new[p] # tree[p]}
  \cup {p \in {Dir} : There(Dir) /\ (There(Inner) # (new[Inner] # None))}

\* Paths that were written are changed even when what was written is what was there.
Becomes(new, written) ==
  /\ tree' = new
  /\ changed' = changed \cup Changes(new) \cup written
  /\ known' = [p \in Paths |-> IF known[p] # None /\ p \in Changes(new) \cup written
                               THEN "old" ELSE known[p]]

Write(p, pieces) ==
  Becomes([tree EXCEPT ![p] = [pieces |-> pieces, mode |-> Mode(p)]], {p})

\* mkdir -p
MakeDir == Becomes([tree EXCEPT ![Dir] = [pieces |-> << >>, mode |-> Mode(Dir)]], {})
TreeSame == UNCHANGED <<tree, changed, known>>

Fault == faults < MaxFaults /\ faults' = faults + 1

-----------------------------------------------------------------------------
(* Writers: toolbox upload (_write_bytes), write_file, replace *)

\* Where a writer goes; the others learn that it was under way.
Goto(w, new) ==
  writer' = [v \in Writers |->
    IF v = w THEN new
    ELSE IF writer[v].pc \notin {"idle", "done"} THEN [writer[v] EXCEPT !.overlap = TRUE]
    ELSE writer[v]]

At(w, pc) == writer[w].pc = pc
To(w, pc) == Goto(w, [writer[w] EXCEPT !.pc = pc])
Answer(w, how) ==
  Goto(w, [writer[w] EXCEPT !.pc = "done",
                            !.answer = IF @ = "none" THEN how ELSE @])
Uploads(w) == writer[w].op = "upload"

Begin(w, op) ==
  /\ At(w, "idle")
  /\ Goto(w, [New EXCEPT !.pc = IF op = "replace" THEN "read" ELSE "mkdir", !.op = op,
                         !.overlap = \E v \in Writers : writer[v].pc \notin {"idle", "done"}])
  /\ \/ (\A v \in Writers : At(v, "idle")) /\ UNCHANGED ops
     \/ (\E v \in Writers : ~At(v, "idle")) /\ ops < MaxOps /\ ops' = ops + 1
  /\ TreeSame /\ UNCHANGED <<late, watchVars, faults>>

\* replace_in_files: the file is read and, if it is there, written anew.
ReadFile(w) ==
  /\ At(w, "read")
  /\ IF There(Inner) THEN To(w, "mkdir") ELSE Answer(w, "failed")
  /\ TreeSame /\ UNCHANGED <<late, watchVars, faults, ops>>

\* write_file writes in pieces where the runtime is runsc, else at once.
MakeParent(w) ==
  /\ At(w, "mkdir") /\ MakeDir
  /\ \/ To(w, IF Uploads(w) THEN "cut" ELSE "append")
     \/ ~Uploads(w) /\ To(w, "whole")
  /\ UNCHANGED <<late, watchVars, faults, ops>>

\* An upload does not look at the result.
MakeParentFails(w) ==
  /\ At(w, "mkdir") /\ Fault
  /\ IF Uploads(w) THEN To(w, "cut") ELSE Answer(w, "failed")
  /\ TreeSame /\ UNCHANGED <<late, watchVars, ops>>

\* The upload empties the file by a command of its own, whose result it ignores.
Cut(w) ==
  /\ At(w, "cut") /\ To(w, "append")
  /\ IF There(Dir) THEN Write(Inner, << >>) ELSE TreeSame
  /\ UNCHANGED <<late, watchVars, faults, ops>>

CutFails(w) ==
  /\ At(w, "cut") /\ Fault
  /\ Goto(w, [writer[w] EXCEPT !.pc = "append", !.unnoticed = TRUE])
  /\ TreeSame /\ UNCHANGED <<late, watchVars, ops>>

\* The first piece of write_file replaces what is there, all others are appended.
\* Mutant: the first one is appended too.
BeforeKept(w) == Pieces(Inner)
Before(w) == IF ~Uploads(w) /\ writer[w].i = 1 THEN << >> ELSE Pieces(Inner)

\* Mutant: off by one.
LastPieceLate(w) == writer[w].i > 2
LastPiece(w) == writer[w].i = 2

AfterPiece(w) ==
  IF ~LastPiece(w) THEN Goto(w, [writer[w] EXCEPT !.i = @ + 1])
  ELSE IF Uploads(w) THEN Answer(w, "ok") ELSE To(w, "verify")

\* What a failed piece means: the upload fails, write_file tries to pipe the whole file.
PieceFailed(w) == IF Uploads(w) THEN Answer(w, "failed") ELSE To(w, "whole")

AppendPiece(w) ==
  /\ At(w, "append") /\ UNCHANGED <<late, watchVars, faults, ops>>
  /\ IF There(Dir) THEN Write(Inner, Append(Before(w), <<w, writer[w].i>>)) /\ AfterPiece(w)
     ELSE TreeSame /\ PieceFailed(w)

AppendFails(w) ==
  /\ At(w, "append") /\ Fault /\ PieceFailed(w)
  /\ TreeSame /\ UNCHANGED <<late, watchVars, ops>>

\* run_command tries again after a transient error, though the command may have run.
AppendTwice(w) ==
  /\ At(w, "append") /\ Uploads(w) /\ There(Dir) /\ Fault
  /\ Write(Inner, Pieces(Inner) \o << <<w, writer[w].i>>, <<w, writer[w].i>> >>)
  /\ LET on == [writer[w] EXCEPT !.unnoticed = TRUE] IN
     Goto(w, IF ~LastPiece(w) THEN [on EXCEPT !.i = @ + 1]
             ELSE [on EXCEPT !.pc = "done", !.answer = "ok"])
  /\ UNCHANGED <<late, watchVars, ops>>

\* The command is not waited for any longer; it may still run.
AppendTimesOut(w) ==
  /\ At(w, "append") /\ Uploads(w) /\ Fault /\ Answer(w, "failed")
  /\ late' = late \cup {<<w, writer[w].i>>}
  /\ TreeSame /\ UNCHANGED <<watchVars, ops>>

LateAppend(x) ==
  /\ x \in late /\ late' = late \ {x}
  /\ IF There(Dir) THEN Write(Inner, Append(Pieces(Inner), x)) ELSE TreeSame
  /\ writer' = [v \in Writers |-> IF writer[v].pc \notin {"idle", "done"}
                                  THEN [writer[v] EXCEPT !.overlap = TRUE] ELSE writer[v]]
  /\ UNCHANGED <<watchVars, faults, ops>>

\* put_archive, or the pipe write_file falls back to.
WriteWhole(w) ==
  /\ At(w, "whole")
  /\ IF There(Dir) THEN Write(Inner, Data(w)) /\ To(w, "verify")
     ELSE TreeSame /\ Answer(w, "failed")
  /\ UNCHANGED <<late, watchVars, faults, ops>>

Verify(w) ==
  /\ At(w, "verify") /\ Answer(w, IF There(Inner) THEN "ok" ELSE "failed")
  /\ TreeSame /\ UNCHANGED <<late, watchVars, faults, ops>>

\* The api-service gives up on an answer; the gateway's thread goes on.
Unanswered(w) ==
  /\ ~Uploads(w) /\ writer[w].pc \in {"append", "whole", "verify"}
  /\ writer[w].answer = "none" /\ Fault
  /\ Goto(w, [writer[w] EXCEPT !.answer = "failed"])
  /\ TreeSame /\ UNCHANGED <<late, watchVars, ops>>

-----------------------------------------------------------------------------
(* Operations of one step; any writer under way has met one *)

Operation ==
  /\ ops < MaxOps /\ ops' = ops + 1 /\ UNCHANGED <<late, watchVars, faults>>
  /\ writer' = [v \in Writers |-> IF writer[v].pc \notin {"idle", "done"}
                                  THEN [writer[v] EXCEPT !.overlap = TRUE] ELSE writer[v]]

\* The recursive removal of the directory removes what is in it.
Remove(p) ==
  /\ Operation /\ There(p)
  /\ Becomes([q \in Paths |-> IF q = p \/ (p = Dir /\ q = Inner) THEN None ELSE tree[q]], {})

Mkdir == Operation /\ ~There(Dir) /\ MakeDir

\* rename replaces a file that is there; its parent is made.
Move(from, to) ==
  /\ Operation /\ There(from) /\ from # to
  /\ Becomes([p \in Paths |-> IF p = from THEN None ELSE IF p = to THEN tree[from]
                              ELSE IF p = Dir /\ ~There(Dir) /\ to = Inner
                                   THEN [pieces |-> << >>, mode |-> 0] ELSE tree[p]], {to})

SetMode(p) ==
  /\ Operation /\ There(p)
  /\ tree' = [tree EXCEPT ![p].mode = 1 - @]
  /\ UNCHANGED <<changed, known>>

\* POST /files of envd, and processes of the guest.
PutOuter == Operation /\ Write(Outer, << >>)

-----------------------------------------------------------------------------
(* The watcher *)

WatchedBy(what) == CASE what = "all" -> Paths [] what = "top" -> {Dir, Outer}
                     [] what = "dir" -> {Inner} [] OTHER -> {}
Watched == WatchedBy(watching)
Snapshot(ps) == [p \in Paths |-> IF p \in ps /\ There(p) THEN tree[p].mode ELSE None]

Watch(what) ==
  /\ watching = "nothing" /\ watching' = what
  /\ what = "dir" => There(Dir)
  /\ seen' = Snapshot(WatchedBy(what))
  /\ known' = [p \in Paths |-> IF seen'[p] = None THEN None ELSE "current"]
  /\ changed' = {} /\ hidden' = {}
  /\ UNCHANGED <<tree, writer, late, faults, ops>>

Created == {p \in Paths : Snapshot(Watched)[p] # None /\ seen[p] = None}
Removed == {p \in Paths : Snapshot(Watched)[p] = None /\ seen[p] # None}
Both == {p \in Paths : Snapshot(Watched)[p] # None /\ seen[p] # None}
Chmodded == {p \in Both : seen[p] # Snapshot(Watched)[p]}
\* Mutant: only a path that is new or gone is told of.
WrittenNone == {}
Written == (Both \ Chmodded) \cap changed

\* The snapshot is replaced whether or not the events reach the client.
Polled == /\ watching # "nothing" /\ seen' = Snapshot(Watched) /\ changed' = {}
          /\ UNCHANGED <<tree, writer, late, watching, ops>>

Poll ==
  /\ Polled
  /\ known' = [p \in Paths |-> IF p \in Created \cup Written THEN "current"
                               ELSE IF p \in Removed THEN None ELSE known[p]]
  /\ hidden' = (hidden \ (Created \cup Written \cup Removed)) \cup (Chmodded \cap changed)
  /\ UNCHANGED faults

PollLost ==
  /\ Polled /\ Fault /\ UNCHANGED known
  /\ hidden' = hidden \cup Created \cup Written \cup Removed \cup Chmodded

Unwatch ==
  /\ watching # "nothing" /\ watching' = "nothing" /\ seen' = [p \in Paths |-> None]
  /\ known' = [p \in Paths |-> None] /\ changed' = {} /\ hidden' = {}
  /\ UNCHANGED <<tree, writer, late, faults, ops>>

Next ==
  \/ \E w \in Writers :
       \/ \E op \in {"upload", "write", "replace"} : Begin(w, op)
       \/ ReadFile(w) \/ MakeParent(w) \/ MakeParentFails(w) \/ Cut(w) \/ CutFails(w)
       \/ AppendPiece(w) \/ AppendFails(w) \/ AppendTwice(w) \/ AppendTimesOut(w)
       \/ WriteWhole(w) \/ Verify(w) \/ Unanswered(w)
  \/ \E x \in Piece : LateAppend(x)
  \/ \E p \in Paths : Remove(p) \/ SetMode(p)
  \/ \E from, to \in {Inner, Outer} : Move(from, to)
  \/ Mkdir \/ PutOuter
  \/ \E what \in {"all", "top", "dir"} : Watch(what)
  \/ Poll \/ PollLost \/ Unwatch

Spec == Init /\ [][Next]_vars

-----------------------------------------------------------------------------
(* Properties *)

\* A write that is answered with success has left the file with what it wrote and
\* nothing else, unless another operation came between, or a command of an upload
\* failed or ran twice without its noticing.
WrittenWhole ==
  \A w \in Writers :
    writer'[w].answer = "ok" /\ writer[w].answer # "ok" =>
      \/ tree'[Inner] # None /\ tree'[Inner].pieces = Data(w)
      \/ writer'[w].overlap \/ writer'[w].unnoticed

\* After a watcher was polled its client knows the paths that are there and, of each
\* of them, its last content, unless a change of mode hid that from it or the events
\* were lost on the way.
WatchersFollow ==
  changed' = {} /\ watching # "nothing" /\ watching' = watching =>
    \A p \in Watched \ hidden' : known'[p] = IF There(p) THEN "current" ELSE None

\* What a client is told of the file system, as answer or as event, is so.
Told == WrittenWhole /\ WatchersFollow
FilesAsTold == [][Told]_vars
=============================================================================
