--------------------------- MODULE SegmentCounter ---------------------------
(***************************************************************************)
(* What a warm-pool segment's in-flight counter promises the top-up loops  *)
(* that share it, whichever database is behind it: a call to reserve or to *)
(* complete slots takes effect at one moment between its start and its     *)
(* end, or not at all.  The target size may be changed meanwhile; a        *)
(* reserve works with one of the sizes the segment had during the call.    *)
(*                                                                         *)
(* The Postgres backend meets this trivially: each call is a transaction   *)
(* that locks the segment's row.  MongoSegment shows it for the other one. *)
(***************************************************************************)
EXTENDS Integers

CONSTANTS Workers,      \* top-up loops that use the segment
          Concurrency,  \* slots a worker may owe at a time
          MaxSize       \* bound: largest desired_size (and ready count)

VARIABLES desired,   \* desired_size
          inflight,  \* inflight_count
          call,      \* what each worker is calling
          seen,      \* the sizes the segment has had since the call began
          owed,      \* slots each worker was granted and has not given back
          lost       \* slots whose giving back failed since the last reset,
                     \* as far as they can show in the counter

counterVars == <<desired, inflight, call, seen, owed, lost>>

NoCall == [op |-> "none"]
ReserveCalls  == [op : {"reserve"}, ready : 0..MaxSize, want : 1..Concurrency]
CompleteCalls == [op : {"complete"}, count : Nat \ {0}]

AtLeast0(n) == IF n > 0 THEN n ELSE 0
AtMost(n, k) == IF n < k THEN n ELSE k

\* A worker asks for no more than its executor has room for.
Asks(w) == {c \in ReserveCalls : c.want <= Concurrency - owed[w]}

\* max_useful_inflight; what is left of the counter; and how much is granted.
Useful(size, ready) == AtLeast0(size - ready)
Clamped(count, size, ready) == AtMost(count, Useful(size, ready))
Grant(count, size, c) ==
  AtLeast0(AtMost(c.want, size - c.ready - Clamped(count, size, c.ready)))

Init ==
  /\ desired \in 0..MaxSize
  /\ inflight = 0
  /\ call = [w \in Workers |-> NoCall]
  /\ seen = [w \in Workers |-> {}]
  /\ owed = [w \in Workers |-> 0]
  /\ lost = 0

Begin(w, c) ==
  /\ call[w] = NoCall
  /\ call' = [call EXCEPT ![w] = c]
  /\ seen' = [seen EXCEPT ![w] = {desired}]
  /\ UNCHANGED <<desired, inflight, owed, lost>>

Return(w) ==
  /\ call' = [call EXCEPT ![w] = NoCall]
  /\ seen' = [seen EXCEPT ![w] = {}]

\* reserve_warm_pool_slots: clamp to what is useful, then reserve.
Reserve(w) ==
  /\ call[w].op = "reserve"
  /\ \E size \in seen[w] :
       LET n == Grant(inflight, size, call[w]) IN
         /\ inflight' = Clamped(inflight, size, call[w].ready) + n
         /\ owed' = [owed EXCEPT ![w] = @ + n]
  /\ Return(w)
  /\ UNCHANGED <<desired, lost>>

\* complete_warm_pool_slots, release_warm_pool_slots: never below zero.
Complete(w) ==
  /\ call[w].op = "complete"
  /\ inflight' = AtLeast0(inflight - call[w].count)
  /\ owed' = [owed EXCEPT ![w] = @ - call[w].count]
  /\ Return(w)
  /\ UNCHANGED <<desired, lost>>

\* A call that fails: nothing is reserved, or what was to be given back stays
\* counted until a reset.
Fail(w) ==
  /\ \/ call[w].op = "reserve" /\ UNCHANGED <<owed, lost>>
     \/ /\ call[w].op = "complete"
        /\ owed' = [owed EXCEPT ![w] = @ - call[w].count]
        /\ lost' = AtMost(lost + call[w].count, MaxSize)
  /\ Return(w)
  /\ UNCHANGED <<desired, inflight>>

\* upsert_warm_pool_segment with a new size: the counter stays.
SetSize(size) ==
  /\ desired' = size
  /\ seen' = [w \in Workers |-> IF call[w] = NoCall THEN seen[w] ELSE seen[w] \cup {size}]
  /\ UNCHANGED <<inflight, call, owed, lost>>

\* reset_warm_pool_inflight on a counter nobody moved for long.
Reset ==
  /\ inflight # 0
  /\ inflight' = 0 /\ lost' = 0
  /\ UNCHANGED <<desired, call, seen, owed>>

\* disable_warm_pool_segment.
Disable ==
  /\ desired' = 0 /\ inflight' = 0 /\ lost' = 0
  /\ seen' = [w \in Workers |-> IF call[w] = NoCall THEN seen[w] ELSE seen[w] \cup {0}]
  /\ UNCHANGED <<call, owed>>

Next ==
  \/ \E w \in Workers :
       \/ \E c \in Asks(w) : Begin(w, c)
       \/ \E n \in 1..owed[w] : Begin(w, [op |-> "complete", count |-> n])
       \/ Reserve(w) \/ Complete(w) \/ Fail(w)
  \/ \E size \in 0..MaxSize : SetSize(size)
  \/ Reset \/ Disable

Spec == Init /\ [][Next]_counterVars
=============================================================================
