---------------------------- MODULE MongoSegment ----------------------------
(***************************************************************************)
(* The in-flight counter on MongoDB.  There is no transaction: reserve and *)
(* complete read the segment's document, compute, and write back with an   *)
(* update that is conditional on inflight_count having the value they      *)
(* read; on a mismatch they start over, a fixed number of times.  The      *)
(* condition does not cover desired_size.                                  *)
(*                                                                         *)
(* A worker's computation is part of the read before it: nobody sees it.   *)
(* Abstracted: the document exists (it is never deleted), the time stamps  *)
(* and statistics of the segment, and when a reset is due.                 *)
(***************************************************************************)
EXTENDS Integers, FiniteSets

CONSTANTS Workers, Concurrency, MaxSize,   \* as in SegmentCounter
          MaxTries   \* how often a conditional update is tried: 8

ASSUME MongoAssumption ==
  /\ MaxSize \in Nat /\ Concurrency \in Nat
  /\ MaxTries \in Nat \ {0}

VARIABLES
  desired, inflight,   \* the document
  pc,                  \* where each worker's call is
  req,                 \* its arguments
  saw,                 \* the document as it read it last
  tries,               \* mismatches so far
  seen, owed, lost     \* history, as in SegmentCounter

vars == <<desired, inflight, pc, req, saw, tries, seen, owed, lost>>

\* A worker is calling from its first read to its last update.
Counter == INSTANCE SegmentCounter WITH call <- req

Blank == [size |-> 0, count |-> 0]

Requests == {Counter!NoCall} \cup Counter!ReserveCalls \cup Counter!CompleteCalls

TypeOK ==
  /\ desired \in 0..MaxSize
  /\ inflight \in 0..MaxSize
  /\ pc \in [Workers -> {"idle", "read", "clamp", "grant", "store"}]
  /\ req \in [Workers -> Requests]
  /\ saw \in [Workers -> [size : 0..MaxSize, count : 0..MaxSize]]
  /\ tries \in [Workers -> 0..(MaxTries - 1)]
  /\ seen \in [Workers -> SUBSET (0..MaxSize)]
  /\ owed \in [Workers -> Nat]
  /\ lost \in Nat

Init ==
  /\ desired \in 0..MaxSize
  /\ inflight = 0
  /\ pc = [w \in Workers |-> "idle"]
  /\ req = [w \in Workers |-> Counter!NoCall]
  /\ saw = [w \in Workers |-> Blank]
  /\ tries = [w \in Workers |-> 0]
  /\ seen = [w \in Workers |-> {}]
  /\ owed = [w \in Workers |-> 0]
  /\ lost = 0

Goto(w, where) == pc' = [pc EXCEPT ![w] = where]

\* The call ends, and its local variables with it.
Return(w) ==
  /\ Goto(w, "idle")
  /\ req' = [req EXCEPT ![w] = Counter!NoCall]
  /\ saw' = [saw EXCEPT ![w] = Blank]
  /\ tries' = [tries EXCEPT ![w] = 0]
  /\ seen' = [seen EXCEPT ![w] = {}]

\* A worker calls reserve_warm_pool_slots or complete_warm_pool_slots.
Call(w, c) ==
  /\ pc[w] = "idle" /\ Goto(w, "read")
  /\ req' = [req EXCEPT ![w] = c]
  /\ seen' = [seen EXCEPT ![w] = {desired}]
  /\ UNCHANGED <<desired, inflight, saw, tries, owed, lost>>

\* find_one, and what follows from it.
ReadFor(w, next) ==
  /\ pc[w] = "read" /\ Goto(w, next)
  /\ saw' = [saw EXCEPT ![w] = [size |-> desired, count |-> inflight]]
  /\ UNCHANGED <<desired, inflight, req, tries, seen, owed, lost>>

Excess(w) == inflight > Counter!Useful(desired, req[w].ready)
Room(w) == Counter!Grant(inflight, desired, req[w]) > 0

ReadToClamp(w) == req[w].op = "reserve" /\ Excess(w) /\ ReadFor(w, "clamp")
ReadToGrant(w) == req[w].op = "reserve" /\ ~Excess(w) /\ Room(w) /\ ReadFor(w, "grant")
ReadToStore(w) == req[w].op = "complete" /\ ReadFor(w, "store")

\* With nothing to grant the call returns 0 on the strength of this read.
ReadFull(w) ==
  /\ pc[w] = "read" /\ req[w].op = "reserve" /\ ~Excess(w) /\ ~Room(w)
  /\ Return(w)
  /\ UNCHANGED <<desired, inflight, owed, lost>>

Unmoved(w) == inflight = saw[w].count

\* Mutant: the update is not conditional on the counter.
UpdateAnyway(w, at, count) ==
  /\ pc[w] = at
  /\ inflight' = count
  /\ Return(w)
  /\ UNCHANGED <<desired, lost>>

\* An update that is conditional on the counter, and the last step of its call.
Update(w, at, count) ==
  /\ pc[w] = at /\ Unmoved(w)
  /\ inflight' = count
  /\ Return(w)
  /\ UNCHANGED <<desired, lost>>

\* The clamping update: nothing is left to grant after it.
Clamp(w) ==
  /\ Update(w, "clamp", Counter!Useful(saw[w].size, req[w].ready))
  /\ UNCHANGED owed

Granted(w) == Counter!Grant(saw[w].count, saw[w].size, req[w])

Grant(w) ==
  /\ Update(w, "grant", saw[w].count + Granted(w))
  /\ owed' = [owed EXCEPT ![w] = @ + Granted(w)]

\* Mutant: what is given back is taken from the counter without a floor.
RemainderUnfloored(count, n) == count - n

\* next_inflight.
Remainder(count, n) == Counter!AtLeast0(count - n)

Store(w) ==
  /\ Update(w, "store", Remainder(saw[w].count, req[w].count))
  /\ owed' = [owed EXCEPT ![w] = @ - req[w].count]

Mismatch(w) == pc[w] \in {"clamp", "grant", "store"} /\ ~Unmoved(w)

\* The update matched nothing: start over ...
Retry(w) ==
  /\ Mismatch(w) /\ tries[w] + 1 < MaxTries
  /\ tries' = [tries EXCEPT ![w] = @ + 1]
  /\ saw' = [saw EXCEPT ![w] = Blank]
  /\ Goto(w, "read")
  /\ UNCHANGED <<desired, inflight, req, seen, owed, lost>>

\* ... or give up.  A complete that gives up leaves its slots in the counter.
GiveUp(w) ==
  /\ Mismatch(w) /\ tries[w] + 1 = MaxTries
  /\ \/ req[w].op = "reserve" /\ UNCHANGED <<owed, lost>>
     \/ /\ req[w].op = "complete"
        /\ owed' = [owed EXCEPT ![w] = @ - req[w].count]
        /\ lost' = Counter!AtMost(lost + req[w].count, MaxSize)
  /\ Return(w)
  /\ UNCHANGED <<desired, inflight>>

-----------------------------------------------------------------------------
(* Single updates of the document by others                                *)

Show(size) == seen' = [w \in Workers |-> IF pc[w] = "idle" THEN seen[w] ELSE seen[w] \cup {size}]

SetSize(size) ==
  /\ desired' = size /\ Show(size)
  /\ UNCHANGED <<inflight, pc, req, saw, tries, owed, lost>>

Reset ==
  /\ inflight # 0
  /\ inflight' = 0 /\ lost' = 0
  /\ UNCHANGED <<desired, pc, req, saw, tries, seen, owed>>

Disable ==
  /\ desired' = 0 /\ inflight' = 0 /\ lost' = 0 /\ Show(0)
  /\ UNCHANGED <<pc, req, saw, tries, owed>>

Step(w) ==
  \/ ReadToClamp(w) \/ ReadToGrant(w) \/ ReadToStore(w) \/ ReadFull(w)
  \/ Clamp(w) \/ Grant(w) \/ Store(w) \/ Retry(w) \/ GiveUp(w)

Next ==
  \/ \E w \in Workers :
       \/ \E c \in Counter!Asks(w) : Call(w, c)
       \/ \E n \in 1..owed[w] : Call(w, [op |-> "complete", count |-> n])
       \/ Step(w)
  \/ \E size \in 0..MaxSize : SetSize(size)
  \/ Reset \/ Disable

Spec == Init /\ [][Next]_vars

-----------------------------------------------------------------------------
(* Properties                                                              *)

\* Every reserve and every complete takes effect at one moment, as in a
\* transaction, or not at all, though each is a read and a conditional update
\* among those of other workers, with the size changing in between.
ImplementsCounter == Counter!Spec

\* The slots workers hold, one by one.
Slots == UNION {{w} \X (1..owed[w]) : w \in Workers}

\* The counter never shows more than the slots workers still owe it and those
\* whose giving back failed: no lost update leaves a slot that blocks the refill.
SlotsAccounted == inflight <= Cardinality(Slots) + lost
=============================================================================
