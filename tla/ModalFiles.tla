----------------------------- MODULE ModalFiles -----------------------------
(***************************************************************************)
(* Files through the Modal-compatible gateway: every api-service process   *)
(* keeps the files that its clients have opened.  An open file is a copy   *)
(* of the whole file, which a flush or a close writes back.                *)
(*                                                                         *)
(* One file of one sandbox.  What a handler does between two awaits is one *)
(* step; reads and writes of the guest run in threads beside it, one at a  *)
(* time in a process.  A file is a sequence of cells, and every write has  *)
(* a number of its own; a cell of which a text read makes another is 0.    *)
(***************************************************************************)
EXTENDS Naturals, Sequences, FiniteSets

CONSTANTS
  Replicas, Handles, None,
  Modes,      \* modes to open a file with, of {"r", "r+", "w", "a"}
  Odd,        \* the writes of what is not plain text
  MaxWrites,  \* bound: writes, and cells of a file
  MaxSaves,   \* bound: calls of write_file that a process is waiting for
  MaxFaults   \* bound: calls that fail and processes that start anew

VARIABLES
  live,    \* is the sandbox there?
  file,    \* None, or the cells of the file
  handle,  \* file_handles, and the requests that open one
  saves,   \* calls of write_file under way
  writes,  \* writes so far
  faults   \* faults so far

vars == <<live, file, handle, saves, writes, faults>>

NoHandle == [pc |-> "none", at |-> None, mode |-> None, data |-> << >>, pos |-> 0,
             saw |-> {}, over |-> {}, blind |-> FALSE]

\* None is no file, no cell of one, and no process.
FileBounds == None \notin Seq(Nat) /\ None \notin Replicas /\ Odd \subseteq Nat \ {0}

Values(cells) == IF cells = None THEN {} ELSE {cells[i] : i \in DOMAIN cells} \ {0}

TypeOK ==
  /\ live \in BOOLEAN /\ writes \in 0..MaxWrites /\ faults \in 0..MaxFaults
  /\ file = None \/ Values(file) \subseteq 1..MaxWrites
  /\ \A h \in Handles :
       /\ handle[h].pc \in {"none", "read", "cut", "open", "closed"}
       /\ handle[h].at \in Replicas \cup {None} /\ handle[h].mode \in Modes \cup {None}
       /\ Values(handle[h].data) \cup handle[h].saw \cup handle[h].over \subseteq 1..MaxWrites
       /\ handle[h].pos \in 0..Len(handle[h].data) /\ handle[h].blind \in BOOLEAN
  /\ \A w \in saves :
       /\ w.at \in Replicas \cup {None} /\ Values(w.data) \subseteq 1..MaxWrites
       /\ w.cut \in BOOLEAN /\ w.again \in BOOLEAN /\ w.n \in 0..Len(w.data)

Init ==
  /\ live = TRUE /\ file = None /\ handle = [h \in Handles |-> NoHandle]
  /\ saves = {} /\ writes = 0 /\ faults = 0

Fault == faults < MaxFaults /\ faults' = faults + 1
NoMore == [NoHandle EXCEPT !.pc = "closed"]
Ends(h) == handle' = [handle EXCEPT ![h] = NoMore]

Open(h, r, mode) ==
  /\ live /\ handle[h].pc = "none"
  /\ handle' = [handle EXCEPT ![h] = [NoHandle EXCEPT !.pc = IF mode = "w" THEN "cut" ELSE "read",
                                                      !.at = r, !.mode = mode]]
  /\ UNCHANGED <<live, file, saves, writes, faults>>

\* Bytes that are decoded with "replace": line ends that came through the TTY, NULs, a mark
\* at the start and what is not UTF-8 are not what they were.
Text(cells) == [i \in DOMAIN cells |-> IF cells[i] \in Odd THEN 0 ELSE cells[i]]

Fetched == IF file = None THEN << >> ELSE Text(file)

\* The cells that a save has still to write, and all that the file has or is to have.
Left(w) == IF w.cut THEN {w.data[i] : i \in w.n + 1..Len(w.data)} \ {0} ELSE {}
Kept == Values(file) \cup UNION {Left(w) : w \in saves}

\* _sandbox_io_lock, of one process.
Locked(r) == \E w \in saves : w.at = r /\ (w.cut \/ w.again)

\* Only a plain "r" asks for the file to be there.
ReadFile(h) ==
  /\ handle[h].pc = "read" /\ ~Locked(handle[h].at)
  /\ IF file = None /\ handle[h].mode = "r" THEN Ends(h)
     ELSE handle' = [handle EXCEPT
            ![h].pc = "open", ![h].data = Fetched, ![h].saw = Kept,
            ![h].blind = \E w \in saves : w.at # handle[h].at /\ w.cut,
            ![h].pos = IF handle[h].mode = "a" THEN Len(Fetched) ELSE 0]
  /\ UNCHANGED <<live, file, saves, writes, faults>>

\* A read that fails is a file that is not there: an append begins with nothing.
ReadFails(h) ==
  /\ handle[h].pc = "read" /\ Fault
  /\ IF handle[h].mode = "r" THEN Ends(h)
     ELSE handle' = [handle EXCEPT ![h].pc = "open", ![h].saw = Kept, ![h].blind = TRUE]
  /\ UNCHANGED <<live, file, saves, writes>>

Truncate(h) ==
  /\ handle[h].pc = "cut" /\ ~Locked(handle[h].at)
  /\ IF live THEN handle' = [handle EXCEPT ![h].pc = "open"] /\ file' = << >>
     ELSE Ends(h) /\ UNCHANGED file
  /\ UNCHANGED <<live, saves, writes, faults>>

\* The file may have been cut when the call fails.
TruncateFails(h) ==
  /\ handle[h].pc = "cut" /\ Fault /\ Ends(h)
  /\ file' = file \/ (live /\ file' = << >>)
  /\ UNCHANGED <<live, saves, writes>>

\* The mode is not looked at; what was behind the position stays.
WriteCell(h) ==
  /\ live /\ handle[h].pc = "open" /\ writes < MaxWrites /\ writes' = writes + 1
  /\ LET cell == writes + 1
         at == handle[h].pos + 1
         inside == at <= Len(handle[h].data) IN
     handle' = [handle EXCEPT
       ![h].data = IF inside THEN [@ EXCEPT ![at] = cell] ELSE Append(@, cell),
       ![h].over = IF inside THEN @ \cup ({handle[h].data[at]} \ {0}) ELSE @,
       ![h].saw = @ \cup {cell}, ![h].pos = at]
  /\ UNCHANGED <<live, file, saves, faults>>

\* A command in the sandbox appends to the file.
GuestWrites ==
  /\ live /\ file # None /\ writes < MaxWrites /\ writes' = writes + 1
  /\ file' = Append(file, writes + 1)
  /\ UNCHANGED <<live, handle, saves, faults>>

\* Seeking, or reading on; not past the end, which would fill with zeros.
Seek(h, pos) ==
  /\ live /\ handle[h].pc = "open" /\ pos \in 0..Len(handle[h].data)
  /\ handle' = [handle EXCEPT ![h].pos = pos]
  /\ UNCHANGED <<live, file, saves, writes, faults>>

\* How many calls a process waits for.
Waited == Cardinality({w \in saves : w.at # None})

Copy(h) == [at |-> handle[h].at, data |-> Text(handle[h].data), saw |-> handle[h].saw,
            over |-> handle[h].over, blind |-> handle[h].blind,
            cut |-> FALSE, again |-> FALSE, n |-> 0]

\* A flush writes back whatever the mode is.
Flush(h) ==
  /\ live /\ handle[h].pc = "open" /\ Waited < MaxSaves /\ saves' = saves \cup {Copy(h)}
  /\ UNCHANGED <<live, file, handle, writes, faults>>

\* The handle is gone before it is written, whatever comes of that.
Close(h) ==
  /\ live /\ handle[h].pc = "open" /\ Ends(h) /\ Waited < MaxSaves
  /\ saves' = IF handle[h].mode = "r" THEN saves ELSE saves \cup {Copy(h)}
  /\ UNCHANGED <<live, file, writes, faults>>

DeleteFile ==
  /\ live /\ file # None /\ file' = None
  /\ UNCHANGED <<live, handle, saves, writes, faults>>

-----------------------------------------------------------------------------
(* Writing back: one command of a shell for every piece, the first of which cuts the file *)

Becomes(w, x) == saves' = (saves \ {w}) \cup {x}

Save(w) ==
  /\ w \in saves /\ ~w.cut /\ live /\ (w.at \in Replicas /\ ~w.again => ~Locked(w.at))
  /\ file' = << >> /\ Becomes(w, [w EXCEPT !.cut = TRUE])
  /\ UNCHANGED <<live, handle, writes, faults>>

Piece(w) ==
  /\ w \in saves /\ w.cut /\ live /\ w.n < Len(w.data)
  /\ file' = Append(IF file = None THEN << >> ELSE file, w.data[w.n + 1])
  /\ Becomes(w, [w EXCEPT !.n = @ + 1])
  /\ UNCHANGED <<live, handle, writes, faults>>

Saved(w) ==
  /\ w \in saves /\ ((w.cut /\ w.n = Len(w.data)) \/ ~live) /\ saves' = saves \ {w}
  /\ UNCHANGED <<live, file, handle, writes, faults>>

\* What is written stays.
SaveFails(w) ==
  /\ w \in saves /\ Fault /\ saves' = saves \ {w}
  /\ UNCHANGED <<live, file, handle, writes>>

\* Under gVisor the whole is written once more, through the standard input of a cat.
SaveAgain(w) ==
  /\ w \in saves /\ w.cut /\ ~w.again /\ Fault
  /\ Becomes(w, [w EXCEPT !.cut = FALSE, !.again = TRUE, !.n = 0])
  /\ UNCHANGED <<live, file, handle, writes>>

\* A runtime gateway is not waited for any longer, and goes on.
GivesUp(w) ==
  /\ w \in saves /\ w.at # None /\ Fault /\ Becomes(w, [w EXCEPT !.at = None])
  /\ UNCHANGED <<live, file, handle, writes>>

-----------------------------------------------------------------------------
\* The container goes with its files.
Kill ==
  /\ live /\ live' = FALSE /\ file' = None
  /\ UNCHANGED <<handle, saves, writes, faults>>

\* A process forgets its handles; what it was writing ends where it is, or goes on in the
\* runtime gateway.
Restart(r) ==
  /\ Fault
  /\ \E gone \in SUBSET {w \in saves : w.at = r} :
       saves' = {IF w.at = r THEN [w EXCEPT !.at = None] ELSE w : w \in saves \ gone}
  /\ handle' = [h \in Handles |-> IF handle[h].at = r THEN NoMore ELSE handle[h]]
  /\ UNCHANGED <<live, file, writes>>

Next ==
  \/ \E h \in Handles :
       \/ \E r \in Replicas, mode \in Modes : Open(h, r, mode)
       \/ ReadFile(h) \/ ReadFails(h) \/ Truncate(h) \/ TruncateFails(h)
       \/ WriteCell(h) \/ Flush(h) \/ Close(h)
       \/ \E pos \in 0..MaxWrites : Seek(h, pos)
  \/ \E w \in saves : Save(w) \/ Piece(w) \/ Saved(w) \/ SaveFails(w) \/ SaveAgain(w) \/ GivesUp(w)
  \/ GuestWrites \/ DeleteFile \/ Kill
  \/ \E r \in Replicas : Restart(r)

Spec == Init /\ [][Next]_vars

-----------------------------------------------------------------------------
(* Properties *)

\* A cell of plain text that the file has, or is to have of a save under way, goes only with
\* a truncation, a deletion, the sandbox's end, or the save of a handle that wrote over it
\* or was opened before it came - unless the handle's read had failed or met another
\* process's save, or the call fails that was to write the cell.
WritesKept ==
  \A v \in Kept \ (Odd \cup Kept') :
    \/ file' = None
    \/ \E h \in Handles : handle[h].pc = "cut" /\ handle'[h].pc # "cut"
    \/ \E w \in saves \ saves' : ~w.cut /\ (v \in w.over \/ v \notin w.saw \/ w.blind)
    \/ \E w \in saves \ saves' : v \in Left(w) /\ faults' # faults
=============================================================================
