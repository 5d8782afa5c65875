---------------------------- MODULE EnvdProcess ----------------------------
(***************************************************************************)
(* A process that envd, the daemon in the guest, runs for its clients: the *)
(* asyncio tasks that read its output and wait for its exit, the history   *)
(* of events they emit, and the streams that replay the history to a       *)
(* client and then follow it live.                                         *)
(*                                                                         *)
(* Everything runs on one event loop, so a step is what a task does from   *)
(* one await (or one yield of a response generator) to the next.  An event *)
(* is its position in the history; what a chunk holds is left out.         *)
(***************************************************************************)
EXTENDS Integers, Sequences

CONSTANTS Streams,    \* requests that stream the process's events
          MaxChunks   \* bound: chunks the process writes to each pipe

ProcessBounds == MaxChunks \in Nat

VARIABLES
  isPty,     \* is_pty: one terminal instead of two pipes
  written,   \* chunks the process (and its children) wrote to each pipe
  shut,      \* has every writer closed the pipe?
  emitted,   \* chunks the reader task took from the pipe
  reading,   \* does the reader task still run?
  exited,    \* has the process exited?
  waiter,    \* _wait_process: "process", then "reader" (a pty's), then "done"
  history,   \* the kinds of the events emitted so far
  kind,      \* which handler serves each stream
  at,        \* where its generator is
  upto,      \* the length of the history it copied
  sent,      \* the events it yielded
  queue,     \* its subscriber queue
  joined     \* history: the length of the history when it subscribed

procVars   == <<isPty, written, shut, emitted, reading, exited, waiter>>
streamVars == <<kind, at, upto, sent, joined>>
vars == <<procVars, history, streamVars, queue>>

Pipes == IF isPty THEN {"pty"} ELSE {"stdout", "stderr"}
AllPipes == {"pty", "stdout", "stderr"}
MaxEvents == 2 * MaxChunks + 1
Positions == 1..MaxEvents

TypeOK ==
  /\ isPty \in BOOLEAN /\ exited \in BOOLEAN
  /\ written \in [AllPipes -> 0..MaxChunks]
  /\ emitted \in [AllPipes -> 0..MaxChunks]
  /\ shut \in [AllPipes -> BOOLEAN]
  /\ reading \in [AllPipes -> BOOLEAN]
  /\ waiter \in {"process", "reader", "done"}
  /\ history \in Seq(AllPipes \cup {"end"}) /\ Len(history) <= MaxEvents
  /\ kind \in [Streams -> {"legacy", "connect"}]
  /\ at \in [Streams -> {"none", "start", "replay", "live", "done", "gone"}]
  /\ upto \in [Streams -> 0..MaxEvents]
  /\ joined \in [Streams -> 0..MaxEvents]
  /\ sent \in [Streams -> Seq(Positions)]
  /\ queue \in [Streams -> Seq(Positions)]

\* The legacy handler has no terminals, and streams what it starts to its client
\* only; Start and Connect serve any stream.
Kinds ==
  {k \in [Streams -> {"legacy", "connect"}] :
     \A c, d \in Streams : k[c] = "legacy" /\ k[d] = "legacy" => c = d /\ ~isPty}

\* _start_process: the pipes or the terminal, and a task for each of them and
\* for the exit.
Init ==
  /\ isPty \in BOOLEAN /\ exited = FALSE
  /\ written = [p \in AllPipes |-> 0] /\ emitted = [p \in AllPipes |-> 0]
  /\ shut = [p \in AllPipes |-> FALSE] /\ reading = [p \in AllPipes |-> p \in Pipes]
  /\ waiter = "process" /\ history = << >>
  /\ kind \in Kinds
  /\ at = [c \in Streams |-> "none"]
  /\ upto = [c \in Streams |-> 0] /\ joined = [c \in Streams |-> 0]
  /\ sent = [c \in Streams |-> << >>] /\ queue = [c \in Streams |-> << >>]

Ended == \E i \in 1..Len(history) : history[i] = "end"

-----------------------------------------------------------------------------
(* The process                                                             *)

\* A child it left behind may go on writing after it exited.
Write(p) ==
  /\ p \in Pipes /\ ~shut[p] /\ written[p] < MaxChunks
  /\ written' = [written EXCEPT ![p] = @ + 1]
  /\ UNCHANGED <<isPty, shut, emitted, reading, exited, waiter, history, streamVars, queue>>

Shut(p) ==
  /\ p \in Pipes /\ ~shut[p]
  /\ shut' = [shut EXCEPT ![p] = TRUE]
  /\ UNCHANGED <<isPty, written, emitted, reading, exited, waiter, history, streamVars, queue>>

Exit ==
  /\ ~exited /\ exited' = TRUE
  /\ UNCHANGED <<isPty, written, shut, emitted, reading, waiter, history, streamVars, queue>>

-----------------------------------------------------------------------------
(* The tasks that emit                                                     *)

\* Mutant: a stream subscribes before it replays.
EmitToAll(what) ==
  /\ history' = Append(history, what)
  /\ queue' = [c \in Streams |-> IF at[c] \in {"start", "replay", "live"}
                                   THEN Append(queue[c], Len(history')) ELSE queue[c]]

\* emit: into the history, and into every subscriber's queue.
Emit(what) ==
  /\ history' = Append(history, what)
  /\ queue' = [c \in Streams |-> IF at[c] = "live" THEN Append(queue[c], Len(history'))
                                                   ELSE queue[c]]

\* Mutant: emit_end leaves the terminal open.
TerminalStays == FALSE

\* emit_end closes the terminal.
TerminalClosed == isPty /\ Ended

\* _read_pipe, _read_pty: one chunk.
ReadChunk(p) ==
  /\ reading[p] /\ emitted[p] < written[p] /\ ~TerminalClosed
  /\ emitted' = [emitted EXCEPT ![p] = @ + 1]
  /\ Emit(p)
  /\ UNCHANGED <<isPty, written, shut, reading, exited, waiter, streamVars>>

\* End of file; a terminal that was closed under the reader ends it as well.
ReadEnds(p) ==
  /\ reading[p]
  /\ (shut[p] /\ emitted[p] = written[p]) \/ TerminalClosed
  /\ reading' = [reading EXCEPT ![p] = FALSE]
  /\ UNCHANGED <<isPty, written, shut, emitted, exited, waiter, history, streamVars, queue>>

\* Mutant: the exit is reported again and again.
WaitProcessRepeats ==
  /\ waiter = "process" /\ exited /\ Emit("end")
  /\ UNCHANGED <<isPty, written, shut, emitted, reading, exited, waiter, streamVars>>

\* The exit is noticed; that the pipes are read to their end is not waited for.
WaitProcess ==
  /\ waiter = "process" /\ exited
  /\ IF isPty THEN waiter' = "reader" /\ UNCHANGED <<history, queue>>
              ELSE waiter' = "done" /\ Emit("end")
  /\ UNCHANGED <<isPty, written, shut, emitted, reading, exited, streamVars>>

\* A terminal's reader gets another second to finish: it did, or it did not.
WaitReader ==
  /\ waiter = "reader" /\ waiter' = "done" /\ Emit("end")
  /\ UNCHANGED <<isPty, written, shut, emitted, reading, exited, streamVars>>

-----------------------------------------------------------------------------
(* The streams                                                             *)

\* The first thing any stream yields is the start event.
Open(c) ==
  /\ at[c] = "none" /\ at' = [at EXCEPT ![c] = "start"]
  /\ UNCHANGED <<procVars, history, kind, upto, sent, joined, queue>>

\* Yield event i; a stream ends with the end event.
Yield(c, i) ==
  /\ sent' = [sent EXCEPT ![c] = Append(@, i)]
  /\ at' = [at EXCEPT ![c] = IF history[i] = "end" THEN "done"
                             ELSE IF @ = "start" THEN "replay" ELSE @]

Subscribe(c) ==
  /\ at' = [at EXCEPT ![c] = "live"]
  /\ joined' = [joined EXCEPT ![c] = Len(history)]

\* Mutant: the legacy stream replays a copy of the history too.
ReplayedUptoCopy(c) == IF at[c] = "start" THEN Len(history) ELSE upto[c]

\* How much of the history a stream replays: the legacy handler iterates over the
\* list that emit appends to, _event_stream over a copy it takes when it begins.
ReplayedUpto(c) ==
  IF kind[c] = "legacy" \/ at[c] = "start" THEN Len(history) ELSE upto[c]

\* The next event of the history or, behind its end and without an await in
\* between, the subscription.
Replay(c) ==
  /\ at[c] \in {"start", "replay"}
  /\ upto' = [upto EXCEPT ![c] = ReplayedUpto(c)]
  /\ IF Len(sent[c]) < ReplayedUpto(c)
       THEN Yield(c, Len(sent[c]) + 1) /\ UNCHANGED joined
       ELSE Subscribe(c) /\ UNCHANGED sent
  /\ UNCHANGED <<procVars, history, kind, queue>>

Follow(c) ==
  /\ at[c] = "live" /\ queue[c] # << >>
  /\ Yield(c, Head(queue[c]))
  /\ queue' = [queue EXCEPT ![c] = IF at'[c] = "done" THEN << >> ELSE Tail(@)]
  /\ UNCHANGED <<procVars, history, kind, upto, joined>>

\* The client goes away; the generator is closed and unsubscribes.
Leave(c) ==
  /\ at[c] \in {"start", "replay", "live"}
  /\ at' = [at EXCEPT ![c] = "gone"]
  /\ queue' = [queue EXCEPT ![c] = << >>]
  /\ UNCHANGED <<procVars, history, kind, upto, sent, joined>>

Next ==
  \/ Exit \/ WaitProcess \/ WaitReader
  \/ \E p \in AllPipes : Write(p) \/ Shut(p) \/ ReadChunk(p) \/ ReadEnds(p)
  \/ \E c \in Streams : Open(c) \/ Replay(c) \/ Follow(c) \/ Leave(c)

Spec == Init /\ [][Next]_vars

\* The loop runs every task that is ready, and a client that stays keeps reading.
Fairness ==
  /\ WF_vars(WaitProcess) /\ WF_vars(WaitReader)
  /\ \A p \in AllPipes : WF_vars(ReadChunk(p)) /\ WF_vars(ReadEnds(p))
  /\ \A c \in Streams : WF_vars(Replay(c)) /\ WF_vars(Follow(c))

FairSpec == Spec /\ Fairness

-----------------------------------------------------------------------------
(* Properties                                                              *)

\* What stream c has yielded or is going to.
Got(c) == sent[c] \o queue[c]

\* Events emitted after stream c copied the history and before it subscribed.
Gap(c) == IF kind[c] = "legacy" THEN {} ELSE (upto[c] + 1)..joined[c]

\* A stream never repeats or reorders an event, though one part of them comes
\* from the history and the other from its queue.
InOrder ==
  \A c \in Streams : \A i, j \in 1..Len(Got(c)) : i < j => Got(c)[i] < Got(c)[j]

\* A stream that follows the process, or has ended, missed nothing that came before
\* what it got, except what was emitted while it replayed a copy of the history;
\* the legacy stream misses nothing.
NothingElseMissed ==
  \A c \in Streams : at[c] \in {"live", "done"} =>
    LET last == IF at[c] = "live" THEN Len(history) ELSE sent[c][Len(sent[c])] IN
    \A i \in (1..last) \ Gap(c) : \E j \in 1..Len(Got(c)) : Got(c)[j] = i

\* Nothing of a terminal's output follows its end event, where no stream would
\* deliver it (pipes do not promise that).
EndIsLast == isPty /\ Ended => history[Len(history)] = "end"

\* Once the process has exited every stream ends, or its client leaves, unless the
\* end event was emitted while it replayed: that one waits for ever.
Waits(c) == exited /\ at[c] \in {"start", "replay", "live"}
WaitEnds(c) == at[c] \in {"done", "gone"} \/ \E i \in Gap(c) : history[i] = "end"
StreamsEnd == \A c \in Streams : Waits(c) ~> WaitEnds(c)

\* What a stream gives its client is what the process wrote, in its order, but for the
\* one window between replay and subscription.
StreamsWhole == InOrder /\ NothingElseMissed /\ EndIsLast
=============================================================================
