-------------------------- MODULE MongoSegmentProofs --------------------------
(***************************************************************************)
(* The MongoDB counter implements SegmentCounter and accounts for every    *)
(* slot it shows, for any number of workers, any sizes and any number of   *)
(* tries.                                                                  *)
(***************************************************************************)
EXTENDS MongoSegment, FiniteSetTheorems, TLAPS

-----------------------------------------------------------------------------
(* Arithmetic of the counter                                               *)

Sizes == 0..MaxSize

\* A count within what is useful is not clamped, and the grant fits the size.
LEMMA GrantFits ==
  ASSUME NEW count \in Sizes, NEW size \in Sizes, NEW c \in Counter!ReserveCalls,
         count <= Counter!Useful(size, c.ready)
  PROVE  /\ Counter!Clamped(count, size, c.ready) = count
         /\ Counter!Grant(count, size, c) \in Nat
         /\ count + Counter!Grant(count, size, c) \in Sizes
<1>1. c.ready \in Sizes /\ c.want \in Nat
  BY MongoAssumption DEF Counter!ReserveCalls, Sizes
<1>2. Counter!Clamped(count, size, c.ready) = count
  BY <1>1, MongoAssumption
     DEF Sizes, Counter!Clamped, Counter!AtMost, Counter!Useful, Counter!AtLeast0
<1>3. /\ Counter!Grant(count, size, c) \in Nat
      /\ count + Counter!Grant(count, size, c) \in Sizes
  <2>1. Counter!Grant(count, size, c)
          = Counter!AtLeast0(Counter!AtMost(c.want, size - c.ready - count))
    BY <1>2 DEF Counter!Grant
  <2> QED
    BY <1>1, <2>1, MongoAssumption DEF Sizes, Counter!AtMost, Counter!AtLeast0
<1> QED
  BY <1>2, <1>3

\* A count beyond what is useful is clamped to it, and nothing is granted.
LEMMA ClampGrantsNothing ==
  ASSUME NEW count \in Sizes, NEW size \in Sizes, NEW c \in Counter!ReserveCalls,
         count > Counter!Useful(size, c.ready)
  PROVE  /\ Counter!Clamped(count, size, c.ready) = Counter!Useful(size, c.ready)
         /\ Counter!Grant(count, size, c) = 0
         /\ Counter!Useful(size, c.ready) \in Sizes
<1>1. c.ready \in Sizes /\ c.want \in Nat /\ c.want > 0
  BY MongoAssumption DEF Counter!ReserveCalls, Sizes
<1>2. /\ Counter!Clamped(count, size, c.ready) = Counter!Useful(size, c.ready)
      /\ Counter!Useful(size, c.ready) \in Sizes
  BY <1>1, MongoAssumption
     DEF Sizes, Counter!Clamped, Counter!AtMost, Counter!Useful, Counter!AtLeast0
<1>3. Counter!Grant(count, size, c)
        = Counter!AtLeast0(Counter!AtMost(c.want,
            size - c.ready - Counter!Useful(size, c.ready)))
  BY <1>2 DEF Counter!Grant
<1>4. Counter!Grant(count, size, c) = 0
  BY <1>1, <1>3, MongoAssumption
     DEF Sizes, Counter!AtMost, Counter!AtLeast0, Counter!Useful
<1> QED
  BY <1>2, <1>4

\* Giving back leaves a size.
LEMMA RemainderFits ==
  ASSUME NEW count \in Sizes, NEW n \in Nat
  PROVE  Remainder(count, n) \in Sizes
BY MongoAssumption DEF Remainder, Sizes, Counter!AtLeast0

-----------------------------------------------------------------------------
(* The inductive invariant                                                 *)

\* What worker w knows: its call has the kind its place needs; the size it works
\* with is one the segment had during the call; a reading that is to be clamped,
\* or added to, calls for that; and it gives back only what it owes.
Knows(w) ==
  /\ pc[w] = "idle" <=> req[w] = Counter!NoCall
  /\ pc[w] # "idle" => desired \in seen[w]
  /\ pc[w] \in {"clamp", "grant"} =>
       req[w] \in Counter!ReserveCalls /\ saw[w].size \in seen[w]
  /\ pc[w] = "clamp" => saw[w].count > Counter!Useful(saw[w].size, req[w].ready)
  /\ pc[w] = "grant" => saw[w].count <= Counter!Useful(saw[w].size, req[w].ready)
  /\ pc[w] = "store" => req[w] \in Counter!CompleteCalls
  /\ req[w] \in Counter!CompleteCalls => req[w].count <= owed[w]

Inv == TypeOK /\ \A w \in Workers : Knows(w)

\* A worker that the step does not touch knows what it knew.
LEMMA OthersKeep ==
  ASSUME NEW v \in Workers, Knows(v), desired' = desired,
         pc'[v] = pc[v], req'[v] = req[v], saw'[v] = saw[v],
         seen'[v] = seen[v], owed'[v] = owed[v]
  PROVE  Knows(v)'
BY DEF Knows

\* Of a call it is one of the three kinds, told apart by op.
LEMMA Kinds ==
  /\ Counter!NoCall \notin Counter!ReserveCalls
  /\ Counter!NoCall \notin Counter!CompleteCalls
  /\ Counter!NoCall.op = "none"
  /\ \A c \in Counter!ReserveCalls :
       c.op = "reserve" /\ c # Counter!NoCall /\ c \notin Counter!CompleteCalls
  /\ \A c \in Counter!CompleteCalls :
       c.op = "complete" /\ c # Counter!NoCall /\ c \notin Counter!ReserveCalls
       /\ c.count \in Nat \ {0}
BY DEF Counter!NoCall, Counter!ReserveCalls, Counter!CompleteCalls

\* The kind of a request follows from its op.
LEMMA KindOf ==
  ASSUME NEW c \in Requests
  PROVE  /\ c.op = "reserve" => c \in Counter!ReserveCalls
         /\ c.op = "complete" => c \in Counter!CompleteCalls
BY Kinds DEF Requests

\* What a step does that ends the call of worker w and changes its debt.
Ends(w) ==
  /\ Return(w)
  /\ owed' \in [Workers -> Nat]
  /\ \A v \in Workers \ {w} : owed'[v] = owed[v]
  /\ inflight' \in Sizes /\ lost' \in Nat
  /\ desired' = desired

\* Such a step keeps the invariant.
LEMMA EndsKeepsInv ==
  ASSUME Inv, NEW w \in Workers, Ends(w)
  PROVE  Inv'
<1>1. TypeOK'
  BY MongoAssumption
     DEF Inv, TypeOK, Ends, Return, Goto, Blank, Requests, Sizes
<1>2. ASSUME NEW v \in Workers \ {w}
      PROVE  Knows(v)'
  <2>1. /\ pc'[v] = pc[v] /\ req'[v] = req[v] /\ saw'[v] = saw[v]
        /\ seen'[v] = seen[v] /\ owed'[v] = owed[v] /\ desired' = desired
    BY DEF Inv, TypeOK, Ends, Return, Goto
  <2> QED
    BY <2>1, OthersKeep DEF Inv
<1>3. Knows(w)'
  <2>1. pc'[w] = "idle" /\ req'[w] = Counter!NoCall
    BY DEF Inv, TypeOK, Ends, Return, Goto
  <2> QED
    BY <2>1, Kinds DEF Knows
<1> QED
  BY <1>1, <1>2, <1>3 DEF Inv

\* In the specification's terms the end of a call is a return.
LEMMA EndsReturns ==
  ASSUME NEW w \in Workers, Return(w)
  PROVE  Counter!Return(w)
BY DEF Return, Counter!Return

\* A conditional update that ends a call keeps the invariant.
LEMMA UpdateKeepsInv ==
  ASSUME Inv, NEW w \in Workers, NEW at, NEW count \in Sizes, Update(w, at, count),
         owed' \in [Workers -> Nat], \A v \in Workers \ {w} : owed'[v] = owed[v]
  PROVE  Inv'
<1>1. Ends(w)
  BY DEF Update, Ends, Inv, TypeOK
<1> QED
  BY <1>1, EndsKeepsInv

-----------------------------------------------------------------------------
(* Steps that only move a worker: a call begins, a document is read        *)

\* A call begins in both specifications.
LEMMA CallStep ==
  ASSUME Inv, NEW w \in Workers, NEW c \in Counter!ReserveCalls \cup Counter!CompleteCalls,
         c \in Counter!CompleteCalls => c.count <= owed[w], Call(w, c)
  PROVE  Inv' /\ Counter!Begin(w, c)
<1>1. c # Counter!NoCall
  BY Kinds
<1>2. TypeOK'
  BY DEF Inv, TypeOK, Call, Goto, Requests
<1>3. ASSUME NEW v \in Workers \ {w}
      PROVE  Knows(v)'
  <2>1. /\ pc'[v] = pc[v] /\ req'[v] = req[v] /\ saw'[v] = saw[v]
        /\ seen'[v] = seen[v] /\ owed'[v] = owed[v] /\ desired' = desired
    BY DEF Inv, TypeOK, Call, Goto
  <2> QED
    BY <2>1, OthersKeep DEF Inv
<1>4. Knows(w)'
  <2>1. /\ pc'[w] = "read" /\ req'[w] = c /\ seen'[w] = {desired}
        /\ desired' = desired /\ owed'[w] = owed[w]
    BY DEF Inv, TypeOK, Call, Goto
  <2> QED
    BY <1>1, <2>1 DEF Knows
<1>5. req[w] = Counter!NoCall
  BY DEF Inv, Knows, Call
<1> QED
  BY <1>2, <1>3, <1>4, <1>5 DEF Inv, Call, Counter!Begin

\* Reading the document, and starting over, keep the invariant and are nothing
\* to the counter.
LEMMA ReadStep ==
  ASSUME Inv, NEW w \in Workers,
         ReadToClamp(w) \/ ReadToGrant(w) \/ ReadToStore(w) \/ Retry(w)
  PROVE  Inv' /\ UNCHANGED Counter!counterVars
<1>1. UNCHANGED <<desired, inflight, req, seen, owed, lost>>
  BY DEF ReadToClamp, ReadToGrant, ReadToStore, Retry, ReadFor
<1>2. TypeOK'
  <2>1. CASE Retry(w)
    BY <2>1, MongoAssumption DEF Inv, TypeOK, Retry, Goto, Blank
  <2>2. CASE \E next \in {"clamp", "grant", "store"} : ReadFor(w, next)
    BY <2>2 DEF Inv, TypeOK, ReadFor, Goto
  <2> QED
    BY <2>1, <2>2 DEF ReadToClamp, ReadToGrant, ReadToStore
<1>3. ASSUME NEW v \in Workers \ {w}
      PROVE  Knows(v)'
  <2>1. /\ pc'[v] = pc[v] /\ req'[v] = req[v] /\ saw'[v] = saw[v]
        /\ seen'[v] = seen[v] /\ owed'[v] = owed[v] /\ desired' = desired
    BY <1>1 DEF Inv, TypeOK, ReadToClamp, ReadToGrant, ReadToStore, Retry, ReadFor, Goto
  <2> QED
    BY <2>1, OthersKeep DEF Inv
<1>4. Knows(w)'
  <2>1. pc[w] # "idle" /\ req[w] # Counter!NoCall /\ desired \in seen[w] /\ Knows(w)
    BY DEF Inv, Knows, ReadToClamp, ReadToGrant, ReadToStore, Retry, ReadFor, Mismatch
  <2>2. req[w] \in Requests
    BY DEF Inv, TypeOK
  <2>3. CASE ReadToClamp(w)
    <3>1. pc'[w] = "clamp" /\ saw'[w].size = desired /\ saw'[w].count = inflight
      BY <2>3 DEF Inv, TypeOK, ReadToClamp, ReadFor, Goto
    <3>2. req[w] \in Counter!ReserveCalls
      BY <2>2, <2>3, KindOf DEF ReadToClamp
    <3> QED
      BY <1>1, <2>1, <2>3, <3>1, <3>2, Kinds DEF Knows, ReadToClamp, Excess
  <2>4. CASE ReadToGrant(w)
    <3>1. pc'[w] = "grant" /\ saw'[w].size = desired /\ saw'[w].count = inflight
      BY <2>4 DEF Inv, TypeOK, ReadToGrant, ReadFor, Goto
    <3>2. req[w] \in Counter!ReserveCalls
      BY <2>2, <2>4, KindOf DEF ReadToGrant
    <3>3. inflight <= Counter!Useful(desired, req[w].ready)
      BY <2>4, <3>2, MongoAssumption
         DEF ReadToGrant, Excess, Inv, TypeOK, Counter!Useful, Counter!AtLeast0,
             Counter!ReserveCalls
    <3> QED
      BY <1>1, <2>1, <3>1, <3>2, <3>3, Kinds DEF Knows
  <2>5. CASE ReadToStore(w)
    <3>1. pc'[w] = "store"
      BY <2>5 DEF Inv, TypeOK, ReadToStore, ReadFor, Goto
    <3>2. req[w] \in Counter!CompleteCalls
      BY <2>2, <2>5, KindOf DEF ReadToStore
    <3> QED
      BY <1>1, <2>1, <3>1, <3>2 DEF Knows
  <2>6. CASE Retry(w)
    <3>1. pc'[w] = "read"
      BY <2>6 DEF Inv, TypeOK, Retry, Goto
    <3> QED
      BY <1>1, <2>1, <3>1 DEF Knows
  <2> QED
    BY <2>3, <2>4, <2>5, <2>6
<1>5. UNCHANGED Counter!counterVars
  BY <1>1 DEF Counter!counterVars
<1> QED
  BY <1>2, <1>3, <1>4, <1>5 DEF Inv

-----------------------------------------------------------------------------
(* Steps that end a call                                                   *)

\* With nothing to grant, reading the document is the reserve.
LEMMA FullStep ==
  ASSUME Inv, NEW w \in Workers, ReadFull(w)
  PROVE  Inv' /\ Counter!Reserve(w)
<1>1. /\ req[w] \in Counter!ReserveCalls /\ desired \in seen[w]
      /\ inflight \in Sizes /\ desired \in Sizes
  BY KindOf DEF ReadFull, Inv, TypeOK, Knows, Sizes
<1>2. inflight <= Counter!Useful(desired, req[w].ready)
  BY <1>1, MongoAssumption
     DEF ReadFull, Excess, Sizes, Counter!Useful, Counter!AtLeast0, Counter!ReserveCalls
<1>3. /\ Counter!Clamped(inflight, desired, req[w].ready) = inflight
      /\ Counter!Grant(inflight, desired, req[w]) \in Nat
  BY <1>1, <1>2, GrantFits
<1>4. Counter!Grant(inflight, desired, req[w]) = 0
  BY <1>3 DEF ReadFull, Room
<1>5. Inv'
  <2>1. Ends(w)
    BY DEF ReadFull, Ends, Inv, TypeOK, Sizes
  <2> QED
    BY <2>1, EndsKeepsInv
<1>6. owed' = [owed EXCEPT ![w] = @ + 0] /\ inflight' = inflight + 0
  BY DEF ReadFull, Inv, TypeOK
<1>7. req[w].op = "reserve" /\ Counter!Return(w) /\ UNCHANGED <<desired, lost>>
  BY EndsReturns DEF ReadFull
<1> QED
  BY <1>1, <1>3, <1>4, <1>5, <1>6, <1>7 DEF Counter!Reserve

\* The clamping update is a reserve of nothing, with the size that was read.
LEMMA ClampStep ==
  ASSUME Inv, NEW w \in Workers, Clamp(w)
  PROVE  Inv' /\ Counter!Reserve(w)
<1> DEFINE size == saw[w].size
<1> DEFINE useful == Counter!Useful(size, req[w].ready)
<1>1. /\ req[w] \in Counter!ReserveCalls /\ size \in seen[w] /\ size \in Sizes
      /\ inflight \in Sizes /\ inflight = saw[w].count /\ inflight > useful
  BY DEF Clamp, Update, Unmoved, Inv, TypeOK, Knows, Sizes
<1>2. /\ Counter!Clamped(inflight, size, req[w].ready) = useful
      /\ Counter!Grant(inflight, size, req[w]) = 0
      /\ useful \in Sizes
  BY <1>1, ClampGrantsNothing
<1>3. Inv'
  <2>1. \A v \in Workers \ {w} : owed'[v] = owed[v]
    BY DEF Clamp
  <2>2. owed' \in [Workers -> Nat]
    BY DEF Clamp, Inv, TypeOK
  <2> QED
    BY <1>2, <2>1, <2>2, UpdateKeepsInv DEF Clamp
<1>4. owed' = [owed EXCEPT ![w] = @ + 0] /\ inflight' = useful + 0
  BY <1>2, MongoAssumption DEF Clamp, Update, Inv, TypeOK, Sizes
<1>5. req[w].op = "reserve" /\ Counter!Return(w) /\ UNCHANGED <<desired, lost>>
  BY <1>1, Kinds, EndsReturns DEF Clamp, Update
<1> QED
  BY <1>1, <1>2, <1>3, <1>4, <1>5 DEF Counter!Reserve

\* The granting update is a reserve with the size that was read: the counter
\* has the value that was read, whatever happened in between.
LEMMA GrantStep ==
  ASSUME Inv, NEW w \in Workers, Grant(w)
  PROVE  Inv' /\ Counter!Reserve(w)
<1> DEFINE size == saw[w].size
<1>1. /\ req[w] \in Counter!ReserveCalls /\ size \in seen[w] /\ size \in Sizes
      /\ inflight \in Sizes /\ inflight = saw[w].count
      /\ inflight <= Counter!Useful(size, req[w].ready)
  BY DEF Grant, Update, Unmoved, Inv, TypeOK, Knows, Sizes
<1>2. /\ Counter!Clamped(inflight, size, req[w].ready) = inflight
      /\ Counter!Grant(inflight, size, req[w]) \in Nat
      /\ inflight + Counter!Grant(inflight, size, req[w]) \in Sizes
  BY <1>1, GrantFits
<1>3. Granted(w) = Counter!Grant(inflight, size, req[w])
  BY <1>1 DEF Granted
<1>4. owed' = [owed EXCEPT ![w] = @ + Counter!Grant(inflight, size, req[w])]
  BY <1>3 DEF Grant
<1>5. Inv'
  <2>1. \A v \in Workers \ {w} : owed'[v] = owed[v]
    BY <1>4 DEF Inv, TypeOK
  <2>2. owed' \in [Workers -> Nat]
    BY <1>2, <1>4 DEF Inv, TypeOK
  <2>3. saw[w].count + Granted(w) \in Sizes
    BY <1>1, <1>2, <1>3
  <2> QED
    BY <2>1, <2>2, <2>3, UpdateKeepsInv DEF Grant
<1>6. inflight' = inflight + Counter!Grant(inflight, size, req[w])
  BY <1>1, <1>3 DEF Grant, Update
<1>7. req[w].op = "reserve" /\ Counter!Return(w) /\ UNCHANGED <<desired, lost>>
  BY <1>1, Kinds, EndsReturns DEF Grant, Update
<1> QED
  BY <1>1, <1>2, <1>4, <1>5, <1>6, <1>7 DEF Counter!Reserve

\* Giving back takes effect when the conditional update matches.
LEMMA StoreStep ==
  ASSUME Inv, NEW w \in Workers, Store(w)
  PROVE  Inv' /\ Counter!Complete(w)
<1>1. /\ req[w] \in Counter!CompleteCalls /\ req[w].op = "complete"
      /\ req[w].count \in Nat /\ owed[w] - req[w].count \in Nat
      /\ inflight \in Sizes /\ inflight = saw[w].count
  BY Kinds DEF Store, Update, Unmoved, Inv, TypeOK, Knows, Sizes
<1>2. Inv'
  <2>1. \A v \in Workers \ {w} : owed'[v] = owed[v]
    BY DEF Store, Inv, TypeOK
  <2>2. owed' \in [Workers -> Nat]
    BY <1>1 DEF Store, Inv, TypeOK
  <2>3. Remainder(saw[w].count, req[w].count) \in Sizes
    BY <1>1, RemainderFits
  <2> QED
    BY <2>1, <2>2, <2>3, UpdateKeepsInv DEF Store
<1>3. inflight' = Counter!AtLeast0(inflight - req[w].count)
  BY <1>1 DEF Store, Update, Remainder
<1> QED
  BY <1>1, <1>2, <1>3, EndsReturns DEF Store, Update, Counter!Complete

\* A call that gives up is a call that fails.
LEMMA GiveUpStep ==
  ASSUME Inv, NEW w \in Workers, GiveUp(w)
  PROVE  Inv' /\ Counter!Fail(w)
<1>1. Ends(w)
  <2>1. CASE UNCHANGED <<owed, lost>>
    BY <2>1 DEF GiveUp, Ends, Inv, TypeOK, Sizes
  <2>2. CASE /\ req[w].op = "complete"
             /\ owed' = [owed EXCEPT ![w] = @ - req[w].count]
             /\ lost' = Counter!AtMost(lost + req[w].count, MaxSize)
    <3>1. /\ req[w].count \in Nat /\ owed[w] - req[w].count \in Nat
      BY <2>2, Kinds, KindOf DEF Inv, TypeOK, Knows
    <3>2. lost' \in Nat
      BY <2>2, <3>1, MongoAssumption DEF Inv, TypeOK, Counter!AtMost
    <3>3. owed' \in [Workers -> Nat] /\ \A v \in Workers \ {w} : owed'[v] = owed[v]
      BY <2>2, <3>1 DEF Inv, TypeOK
    <3> QED
      BY <3>2, <3>3 DEF GiveUp, Ends, Inv, TypeOK, Sizes
  <2> QED
    BY <2>1, <2>2 DEF GiveUp
<1>2. Inv'
  BY <1>1, EndsKeepsInv
<1> QED
  BY <1>2, EndsReturns DEF GiveUp, Counter!Fail

-----------------------------------------------------------------------------
(* Steps of others                                                         *)

\* What the others do to the document is the same in both specifications, and
\* a size they set is one that every call in progress has seen.
LEMMA OtherStep ==
  ASSUME Inv, (\E size \in Sizes : SetSize(size)) \/ Reset \/ Disable
  PROVE  Inv' /\ ((\E size \in Sizes : Counter!SetSize(size)) \/ Counter!Reset \/ Counter!Disable)
<1>1. ASSUME NEW w \in Workers
      PROVE  (pc[w] = "idle" <=> req[w] = Counter!NoCall)
  BY DEF Inv, Knows
<1>2. CASE Reset
  <2>1. TypeOK'
    BY <1>2, MongoAssumption DEF Inv, TypeOK, Reset
  <2>2. \A v \in Workers : Knows(v)'
    BY <1>2 DEF Inv, Knows, Reset
  <2> QED
    BY <1>2, <2>1, <2>2 DEF Inv, Reset, Counter!Reset
<1>3. ASSUME NEW size \in Sizes, desired' = size, Show(size), UNCHANGED <<pc, req, saw, tries, owed>>,
             inflight' \in Sizes, lost' \in Nat
      PROVE  /\ Inv'
             /\ seen' = [w \in Workers |->
                           IF req[w] = Counter!NoCall THEN seen[w] ELSE seen[w] \cup {size}]
  <2>1. TypeOK'
    BY <1>3 DEF Inv, TypeOK, Show, Sizes
  <2>2. ASSUME NEW v \in Workers
        PROVE  Knows(v)'
    <3>1. pc[v] # "idle" => size \in seen'[v]
      BY <1>3 DEF Show
    <3>2. seen[v] \subseteq seen'[v]
      BY <1>3 DEF Show
    <3> QED
      BY <1>3, <3>1, <3>2 DEF Inv, Knows
  <2> QED
    BY <1>1, <1>3, <2>1, <2>2 DEF Inv, Show
<1>4. CASE \E size \in Sizes : SetSize(size)
  <2>1. PICK size \in Sizes : SetSize(size)
    BY <1>4
  <2>2. Inv' /\ Counter!SetSize(size)
    BY <1>3, <2>1 DEF SetSize, Counter!SetSize, Inv, TypeOK, Sizes
  <2> QED
    BY <2>2
<1>5. CASE Disable
  <2>1. 0 \in Sizes
    BY MongoAssumption DEF Sizes
  <2> QED
    BY <1>3, <1>5, <2>1 DEF Disable, Counter!Disable
<1> QED
  BY <1>2, <1>4, <1>5

-----------------------------------------------------------------------------
(* The theorems                                                            *)

\* The initial states agree and satisfy the invariant.
LEMMA InitStep ==
  ASSUME Init
  PROVE  Inv /\ Counter!Init
<1>1. TypeOK
  BY MongoAssumption DEF Init, TypeOK, Requests, Blank
<1>2. \A w \in Workers : Knows(w)
  BY Kinds DEF Init, Knows
<1> QED
  BY <1>1, <1>2 DEF Inv, Init, Counter!Init

\* Every step keeps the invariant, and is a step of the counter or none.
LEMMA NextStep ==
  ASSUME Inv, [Next]_vars
  PROVE  Inv' /\ [Counter!Next]_Counter!counterVars
<1>1. CASE UNCHANGED vars
  BY <1>1 DEF vars, Inv, TypeOK, Knows, Counter!counterVars
<1>2. ASSUME NEW w \in Workers, NEW c \in Counter!Asks(w), Call(w, c)
      PROVE  Inv' /\ Counter!Next
  <2>1. c \in Counter!ReserveCalls
    BY DEF Counter!Asks
  <2> QED
    BY <1>2, <2>1, Kinds, CallStep DEF Counter!Next
<1>3. ASSUME NEW w \in Workers, NEW n \in 1..owed[w],
             Call(w, [op |-> "complete", count |-> n])
      PROVE  Inv' /\ Counter!Next
  <2>1. owed[w] \in Nat
    BY DEF Inv, TypeOK
  <2>2. [op |-> "complete", count |-> n] \in Counter!CompleteCalls /\ n <= owed[w]
    BY <2>1 DEF Counter!CompleteCalls
  <2> QED
    BY <1>3, <2>2, CallStep DEF Counter!Next
<1>4. ASSUME NEW w \in Workers, Step(w)
      PROVE  Inv' /\ [Counter!Next]_Counter!counterVars
  <2>1. CASE ReadToClamp(w) \/ ReadToGrant(w) \/ ReadToStore(w) \/ Retry(w)
    BY <2>1, ReadStep
  <2>2. CASE ReadFull(w) \/ Clamp(w) \/ Grant(w)
    BY <2>2, FullStep, ClampStep, GrantStep DEF Counter!Next
  <2>3. CASE Store(w) \/ GiveUp(w)
    BY <2>3, StoreStep, GiveUpStep DEF Counter!Next
  <2> QED
    BY <1>4, <2>1, <2>2, <2>3 DEF Step
<1>5. CASE (\E size \in Sizes : SetSize(size)) \/ Reset \/ Disable
  BY <1>5, OtherStep DEF Counter!Next, Sizes
<1> QED
  BY <1>1, <1>2, <1>3, <1>4, <1>5 DEF Next, Sizes

\* Every value keeps its type: the counter in particular stays between zero and
\* the largest size, whatever conditional updates meet (mongo.py, reserve and
\* complete).
THEOREM TypeInvariance == Spec => []TypeOK
<1>1. Init => Inv
  BY InitStep
<1>2. Inv /\ [Next]_vars => Inv'
  BY NextStep
<1>3. Inv => TypeOK
  BY DEF Inv
<1> QED
  BY <1>1, <1>2, <1>3, PTL DEF Spec

\* The conditional updates implement the counter: every reserve and complete of
\* the MongoDB backend takes effect at one moment of its call, or not at all.
THEOREM Refinement == Spec => ImplementsCounter
<1>1. Init => Inv /\ Counter!Init
  BY InitStep
<1>2. Inv /\ [Next]_vars => Inv' /\ [Counter!Next]_Counter!counterVars
  BY NextStep
<1> QED
  BY <1>1, <1>2, PTL DEF Spec, ImplementsCounter, Counter!Spec

-----------------------------------------------------------------------------
(* Every slot is accounted for                                             *)

\* The slots of all workers for debts o, and those of the workers other than w.
SlotsOf(o) == UNION {{v} \X (1..o[v]) : v \in Workers}
SlotsElsewhere(o, w) == UNION {{v} \X (1..o[v]) : v \in Workers \ {w}}

\* A worker's own slots are counted apart from the others'.
LEMMA SlotsSplit ==
  ASSUME NEW o \in [Workers -> Nat], NEW w \in Workers, IsFiniteSet(SlotsElsewhere(o, w))
  PROVE  /\ IsFiniteSet(SlotsOf(o))
         /\ Cardinality(SlotsOf(o)) \in Nat /\ Cardinality(SlotsElsewhere(o, w)) \in Nat
         /\ Cardinality(SlotsOf(o)) = Cardinality(SlotsElsewhere(o, w)) + o[w]
<1> DEFINE k      == o[w]
           others == SlotsElsewhere(o, w)
           mine   == {w} \X (1..k)
<1>1. k \in Nat
  OBVIOUS
<1>2. IsFiniteSet(mine) /\ Cardinality(mine) = k
  <2>1. IsFiniteSet(1..k) /\ Cardinality(1..k) = k
    BY <1>1, FS_Interval
  <2>2. IsFiniteSet({w}) /\ Cardinality({w}) = 1
    BY FS_Singleton
  <2> QED
    BY <1>1, <2>1, <2>2, FS_Product
<1>3. SlotsOf(o) = others \cup mine /\ others \cap mine = {}
  BY DEF SlotsOf, SlotsElsewhere
<1>4. Cardinality(others \cap mine) = 0
  BY <1>3, FS_EmptySet
<1>5. IsFiniteSet(others) /\ Cardinality(others) \in Nat
  BY FS_CardinalityType
<1> HIDE DEF mine, others, k
<1>6. /\ IsFiniteSet(others \cup mine)
      /\ Cardinality(others \cup mine)
           = Cardinality(others) + Cardinality(mine) - Cardinality(others \cap mine)
  BY <1>2, <1>5, FS_Union
<1> QED
  BY <1>1, <1>2, <1>3, <1>4, <1>5, <1>6 DEF others, k

\* A step of worker w changes the number of slots by what it changes of its own.
LEMMA SlotsChange ==
  ASSUME NEW o \in [Workers -> Nat], NEW n \in [Workers -> Nat], NEW w \in Workers,
         \A v \in Workers \ {w} : n[v] = o[v], IsFiniteSet(SlotsOf(o))
  PROVE  /\ IsFiniteSet(SlotsOf(n))
         /\ Cardinality(SlotsOf(o)) \in Nat /\ Cardinality(SlotsOf(n)) \in Nat
         /\ Cardinality(SlotsOf(n)) + o[w] = Cardinality(SlotsOf(o)) + n[w]
<1>1. SlotsElsewhere(n, w) = SlotsElsewhere(o, w)
  BY DEF SlotsElsewhere
<1>2. SlotsElsewhere(o, w) \subseteq SlotsOf(o)
  BY DEF SlotsElsewhere, SlotsOf
<1>3. IsFiniteSet(SlotsElsewhere(o, w)) /\ IsFiniteSet(SlotsElsewhere(n, w))
  BY <1>1, <1>2, FS_Subset
<1> QED
  BY <1>1, <1>3, SlotsSplit

\* There are finitely many slots, and the counter shows no others but the lost ones.
SlotInv ==
  /\ IsFiniteSet(SlotsOf(owed))
  /\ inflight <= Cardinality(SlotsOf(owed)) + lost

\* What the argument needs of the variables' types.
LEMMA SlotTypes ==
  ASSUME Inv
  PROVE  /\ inflight \in Nat /\ inflight <= MaxSize /\ lost \in Nat /\ MaxSize \in Nat
         /\ owed \in [Workers -> Nat]
BY MongoAssumption DEF Inv, TypeOK

\* The updates of the counter: a clamp lowers it, a grant is owed, what is stored was owed.
LEMMA UpdateBalance ==
  ASSUME Inv, Inv', SlotInv, NEW w \in Workers, Clamp(w) \/ Grant(w) \/ Store(w)
  PROVE  SlotInv'
<1>1. CASE Clamp(w)
  <2>1. owed' = owed /\ lost' = lost /\ inflight' < inflight
    <3>1. inflight' = Counter!Useful(saw[w].size, req[w].ready)
      BY <1>1 DEF Clamp, Update
    <3>2. saw[w].count > Counter!Useful(saw[w].size, req[w].ready) /\ inflight = saw[w].count
      BY <1>1 DEF Clamp, Update, Unmoved, Inv, Knows
    <3>3. inflight' \in Nat
      BY SlotTypes, MongoAssumption DEF Inv, TypeOK
    <3>4. owed' = owed /\ lost' = lost
      BY <1>1 DEF Clamp, Update
    <3> QED
      BY <3>1, <3>2, <3>3, <3>4, SlotTypes
  <2>2. Cardinality(SlotsOf(owed)) \in Nat /\ inflight' \in Nat
    BY FS_CardinalityType, MongoAssumption DEF SlotInv, Inv, TypeOK
  <2> QED
    BY <2>1, <2>2, SlotTypes DEF SlotInv
<1>2. CASE Grant(w)
  <2> DEFINE n == Granted(w)
  <2>1. /\ inflight' = inflight + n /\ lost' = lost
        /\ owed' = [owed EXCEPT ![w] = @ + n]
    BY <1>2 DEF Grant, Update, Unmoved
  <2>2. n \in Nat
    <3>1. /\ req[w] \in Counter!ReserveCalls
          /\ saw[w].size \in Sizes /\ saw[w].count \in Sizes
          /\ saw[w].count <= Counter!Useful(saw[w].size, req[w].ready)
      BY <1>2 DEF Grant, Update, Inv, TypeOK, Knows, Sizes
    <3> QED
      BY <3>1, GrantFits DEF Granted
  <2> HIDE DEF n
  <2>3. /\ owed'[w] = owed[w] + n /\ owed' \in [Workers -> Nat]
        /\ \A v \in Workers \ {w} : owed'[v] = owed[v]
    BY <2>1, <2>2, SlotTypes
  <2>4. /\ IsFiniteSet(SlotsOf(owed')) /\ Cardinality(SlotsOf(owed)) \in Nat
        /\ Cardinality(SlotsOf(owed')) \in Nat
        /\ Cardinality(SlotsOf(owed')) + owed[w] = Cardinality(SlotsOf(owed)) + owed'[w]
    BY <2>3, SlotTypes, SlotsChange DEF SlotInv
  <2>5. owed[w] \in Nat
    BY SlotTypes
  <2> QED
    BY <2>1, <2>2, <2>3, <2>4, <2>5, SlotTypes DEF SlotInv
<1>3. CASE Store(w)
  <2> DEFINE n == req[w].count
  <2>1. /\ inflight' = Remainder(inflight, n) /\ lost' = lost
        /\ owed' = [owed EXCEPT ![w] = @ - n]
    BY <1>3 DEF Store, Update, Unmoved
  <2>2. n \in Nat /\ n <= owed[w]
    BY <1>3, Kinds DEF Store, Update, Inv, Knows
  <2> HIDE DEF n
  <2>3. owed[w] \in Nat /\ owed' \in [Workers -> Nat]
    BY SlotTypes, MongoAssumption DEF Inv, TypeOK
  <2>4. owed'[w] = owed[w] - n /\ \A v \in Workers \ {w} : owed'[v] = owed[v]
    BY <2>1, SlotTypes
  <2>5. /\ IsFiniteSet(SlotsOf(owed')) /\ Cardinality(SlotsOf(owed)) \in Nat
        /\ Cardinality(SlotsOf(owed')) \in Nat
        /\ Cardinality(SlotsOf(owed')) + owed[w] = Cardinality(SlotsOf(owed)) + owed'[w]
    BY <2>3, <2>4, SlotTypes, SlotsChange DEF SlotInv
  <2>6. inflight' <= Cardinality(SlotsOf(owed')) + lost'
    BY <2>1, <2>2, <2>3, <2>4, <2>5, SlotTypes
       DEF SlotInv, Remainder, Counter!AtLeast0
  <2> QED
    BY <2>5, <2>6 DEF SlotInv
<1> QED
  BY <1>1, <1>2, <1>3

\* A complete that gives up moves its slots from the worker's debt to the lost ones, of
\* which no more count than the counter can show.
LEMMA GiveUpBalance ==
  ASSUME Inv, Inv', SlotInv, NEW w \in Workers, GiveUp(w)
  PROVE  SlotInv'
<1>1. CASE UNCHANGED <<owed, lost>>
  BY <1>1 DEF GiveUp, SlotInv
<1>2. CASE /\ req[w].op = "complete"
           /\ owed' = [owed EXCEPT ![w] = @ - req[w].count]
           /\ lost' = Counter!AtMost(lost + req[w].count, MaxSize)
  <2> DEFINE n == req[w].count
  <2>1. n \in Nat /\ n <= owed[w]
    BY <1>2, Kinds, KindOf DEF Inv, TypeOK, Knows
  <2>2. inflight' = inflight
    BY DEF GiveUp
  <2>3. owed[w] \in Nat /\ owed' \in [Workers -> Nat]
    BY SlotTypes, MongoAssumption DEF Inv, TypeOK
  <2>4. owed'[w] = owed[w] - n /\ \A v \in Workers \ {w} : owed'[v] = owed[v]
    BY <1>2, SlotTypes
  <2>5. /\ IsFiniteSet(SlotsOf(owed')) /\ Cardinality(SlotsOf(owed)) \in Nat
        /\ Cardinality(SlotsOf(owed')) \in Nat
        /\ Cardinality(SlotsOf(owed')) + owed[w] = Cardinality(SlotsOf(owed)) + owed'[w]
    BY <2>3, <2>4, SlotTypes, SlotsChange DEF SlotInv
  <2>6. inflight' <= Cardinality(SlotsOf(owed')) + lost'
    BY <1>2, <2>1, <2>2, <2>3, <2>4, <2>5, SlotTypes DEF SlotInv, Counter!AtMost
  <2> QED
    BY <2>5, <2>6 DEF SlotInv
<1> QED
  BY <1>1, <1>2 DEF GiveUp

\* SlotInv is inductive.
LEMMA BalanceStep ==
  ASSUME Inv, Inv', SlotInv, [Next]_vars
  PROVE  SlotInv'
<1>0. Cardinality(SlotsOf(owed)) \in Nat
  BY FS_CardinalityType DEF SlotInv
<1>1. ASSUME NEW w \in Workers, NEW c, Call(w, c)
      PROVE  SlotInv'
  BY <1>1 DEF Call, SlotInv
<1>2. ASSUME NEW w \in Workers, Step(w)
      PROVE  SlotInv'
  <2>1. CASE ReadToClamp(w) \/ ReadToGrant(w) \/ ReadToStore(w) \/ ReadFull(w) \/ Retry(w)
    BY <2>1 DEF ReadToClamp, ReadToGrant, ReadToStore, ReadFor, ReadFull, Retry, SlotInv
  <2> QED
    BY <1>2, <2>1, UpdateBalance, GiveUpBalance DEF Step
<1>3. CASE \E size \in 0..MaxSize : SetSize(size)
  BY <1>3 DEF SetSize, SlotInv
<1>4. CASE Reset \/ Disable
  BY <1>0, <1>4 DEF Reset, Disable, SlotInv
<1>5. CASE UNCHANGED vars
  BY <1>5 DEF vars, SlotInv
<1> QED
  BY <1>1, <1>2, <1>3, <1>4, <1>5 DEF Next

\* Whatever two workers' reads and conditional updates meet, a resize, a reset or an update
\* given up after the last try: the counter shows no slot beyond those that workers hold and
\* those whose giving back failed since the last reset (mongo.py, reserve and complete).
THEOREM SlotsStayAccounted == Spec => []SlotsAccounted
<1>1. Init => Inv /\ SlotInv
  <2> SUFFICES ASSUME Init PROVE Inv /\ SlotInv
    OBVIOUS
  <2>1. Inv
    BY InitStep
  <2>2. \A w \in Workers : {w} \X (1..owed[w]) = {}
    BY DEF Init
  <2>3. SlotsOf(owed) = {}
    BY <2>2 DEF SlotsOf
  <2>4. inflight = 0 /\ lost = 0
    BY DEF Init
  <2> QED
    BY <2>1, <2>3, <2>4, FS_EmptySet DEF SlotInv
<1>2. Inv /\ [Next]_vars => Inv'
  BY NextStep
<1>3. Inv /\ Inv' /\ SlotInv /\ [Next]_vars => SlotInv'
  BY BalanceStep
<1>4. SlotInv => SlotsAccounted
  BY DEF SlotInv, SlotsOf, SlotsAccounted, Slots
<1> QED
  BY <1>1, <1>2, <1>3, <1>4, PTL DEF Spec
=============================================================================
