----------------------------- MODULE BuildContext -----------------------------
(***************************************************************************)
(* The upload of a build's context: a client asks whether the key of its   *)
(* files is present, puts the archive where it is not, and starts a build  *)
(* that reads it back.  MongoDB keeps the archive as chunks of their own,  *)
(* PostgreSQL and S3 keep it in one piece.                                 *)
(*                                                                         *)
(* One key and the clients that use it.  A step is one statement of the    *)
(* database, or one document of an insert_many or of a cursor.             *)
(***************************************************************************)
EXTENDS Naturals, Sequences

CONSTANTS
  Clients, None,
  Chunks,     \* the most chunks that an archive has
  MaxTries    \* bound: calls of a client that start again

ContextBounds == Chunks \in Nat /\ MaxTries \in Nat /\ None \notin Clients

VARIABLES
  store,   \* where the archives are
  meta,    \* the upload's document: None, or the client whose archive it describes
  chunk,   \* the chunks' documents, by the index in their unique _id
  client,
  spoilt   \* has a put ended in the middle, or another overtaken it too late to notice,
           \* and has none begun alone since?

vars == <<store, meta, chunk, client, spoilt>>

Putting == {"delete", "insert", "describe"}
Reading == {"read", "chunks"}

TypeOK ==
  /\ store \in {"mongo", "whole"} /\ spoilt \in BOOLEAN
  /\ meta \in Clients \cup {None} /\ chunk \in [1..Chunks -> Clients \cup {None}]
  /\ \A c \in Clients :
       /\ client[c].pc \in {"idle", "link", "ready", "merged", "missing"} \cup Putting \cup Reading
       /\ client[c].size \in 1..Chunks /\ client[c].at \in 0..Chunks
       /\ client[c].tries \in 0..MaxTries /\ client[c].doubtful \in BOOLEAN
       /\ client[c].got \in Seq(Clients \X (1..Chunks))

Init ==
  /\ store \in {"mongo", "whole"} /\ meta = None /\ chunk = [i \in 1..Chunks |-> None]
  /\ client \in [Clients -> [pc : {"idle"}, size : 1..Chunks, at : {0}, tries : {0},
                             doubtful : {FALSE}, got : {<< >>}]]
  /\ spoilt = FALSE

At(c, pc) == client[c].pc = pc
Goes(c, pc) == client' = [client EXCEPT ![c].pc = pc]
Alone(c) == \A d \in Clients \ {c} : client[d].pc \notin Putting

\* The deletion takes chunks of a put that has got further than the new archive is long:
\* neither finds the other's chunks in its way.
Overtakes(c) ==
  \E d \in Clients \ {c} :
    At(d, "insert") /\ client[d].at < client[d].size /\ client[d].at >= client[c].size

\* A put has changed what a build may be reading.
Disturbed(c, pc, at) ==
  client' = [d \in Clients |->
               IF d = c THEN [client[c] EXCEPT !.pc = pc, !.at = at]
               ELSE [client[d] EXCEPT !.doubtful = @ \/ client[d].pc \in Reading]]

-----------------------------------------------------------------------------
(* The upload *)

Link(c) ==
  /\ At(c, "idle") /\ client[c].tries < MaxTries
  /\ client' = [client EXCEPT ![c].tries = @ + 1, ![c].pc = IF meta # None THEN "ready" ELSE "link"]
  /\ UNCHANGED <<store, meta, chunk, spoilt>>

Upload(c) ==
  /\ At(c, "link") /\ Goes(c, IF store = "mongo" THEN "delete" ELSE "describe")
  /\ UNCHANGED <<store, meta, chunk, spoilt>>

DeleteChunks(c) ==
  /\ At(c, "delete") /\ Disturbed(c, "insert", 0)
  /\ chunk' = [i \in 1..Chunks |-> None]
  /\ spoilt' = (Overtakes(c) \/ (spoilt /\ ~Alone(c)))
  /\ UNCHANGED <<store, meta>>

\* The _id of a chunk is the upload's with its index, and unique.
\* Mutant: a chunk that is there is replaced.
TakenNever(i) == i = 0
Taken(i) == chunk[i] # None

InsertChunk(c) ==
  /\ At(c, "insert") /\ client[c].at < client[c].size
  /\ LET i == client[c].at + 1 IN
     IF Taken(i) THEN Disturbed(c, "idle", 0) /\ UNCHANGED chunk /\ spoilt' = TRUE
     ELSE Disturbed(c, "insert", i) /\ chunk' = [chunk EXCEPT ![i] = c] /\ UNCHANGED spoilt
  /\ UNCHANGED <<store, meta>>

Inserted(c) ==
  /\ At(c, "insert") /\ client[c].at = client[c].size /\ Goes(c, "describe")
  /\ UNCHANGED <<store, meta, chunk, spoilt>>

\* The last statement of a put on MongoDB, the only one elsewhere.
Describe(c) ==
  /\ At(c, "describe") /\ Disturbed(c, "ready", 0) /\ meta' = c
  /\ chunk' = IF store = "mongo" THEN chunk
              ELSE [i \in 1..Chunks |-> IF i <= client[c].size THEN c ELSE None]
  /\ UNCHANGED <<store, spoilt>>

\* The replica or the database goes down; the client may ask for the link again.
Interrupted(c) ==
  /\ client[c].pc \in Putting /\ Goes(c, "idle")
  /\ spoilt' = (spoilt \/ (store = "mongo" /\ client[c].pc # "delete"))
  /\ UNCHANGED <<store, meta, chunk>>

-----------------------------------------------------------------------------
(* The build *)

StartBuild(c) ==
  /\ At(c, "ready")
  /\ client' = [client EXCEPT ![c].pc = "read", ![c].got = << >>, ![c].at = 0,
                              ![c].doubtful = spoilt \/ ~Alone(c)]
  /\ UNCHANGED <<store, meta, chunk, spoilt>>

\* The payload comes with the document, or by a cursor over the chunks.
ReadUpload(c) ==
  /\ At(c, "read")
  /\ client' = [client EXCEPT
                  ![c].pc = IF meta = None THEN "missing"
                            ELSE IF store = "mongo" THEN "chunks" ELSE "merged",
                  ![c].got = IF meta = None \/ store = "mongo" THEN @
                             ELSE [i \in 1..client[meta].size |-> <<chunk[i], i>>]]
  /\ UNCHANGED <<store, meta, chunk, spoilt>>

\* Neither the document's size nor its chunk_count is looked at.
ReadChunk(c) ==
  /\ At(c, "chunks")
  /\ LET left == {i \in client[c].at + 1..Chunks : chunk[i] # None} IN
     IF left = {} THEN Goes(c, "merged")
     ELSE \E i \in left :
            /\ \A j \in left : i <= j
            /\ client' = [client EXCEPT ![c].at = i, ![c].got = Append(@, <<chunk[i], i>>)]
  /\ UNCHANGED <<store, meta, chunk, spoilt>>

Again(c) ==
  /\ client[c].pc \in {"merged", "missing"} /\ Goes(c, "idle")
  /\ UNCHANGED <<store, meta, chunk, spoilt>>

Next ==
  \E c \in Clients :
    \/ Link(c) \/ Upload(c) \/ DeleteChunks(c) \/ InsertChunk(c) \/ Inserted(c) \/ Describe(c)
    \/ Interrupted(c) \/ StartBuild(c) \/ ReadUpload(c) \/ ReadChunk(c) \/ Again(c)

Spec == Init /\ [][Next]_vars

-----------------------------------------------------------------------------
(* Property *)

\* A build has one client's archive, all of it, whatever puts of archives of whatever sizes
\* overlapped before it began, if each of them was answered with success and none overtook
\* a longer one so late that the two archives' chunks did not meet.
ContextIsWhole ==
  \A c \in Clients :
    At(c, "merged") /\ ~client[c].doubtful =>
      \E d \in Clients : client[c].got = [i \in 1..client[d].size |-> <<d, i>>]
=============================================================================
