--------------------------- MODULE ControlProofs ----------------------------
(***************************************************************************)
(* Theorems about the components of the control plane that share no state  *)
(* with the others: keys, the rows on MongoDB, snapshots, the leader's     *)
(* lease, the pool's segments, uploads and Dockerfiles, what the Daytona   *)
(* API shows, and toolbox sessions; the types of each come last.  A        *)
(* theorem is about one component and its specification alone, for all     *)
(* values of its constants.                                                *)
(***************************************************************************)
EXTENDS ControlComponents, Integers, Sequences, TLAPS

-----------------------------------------------------------------------------
(* API keys *)

\* Nothing counts before the revocation, and a thread that still has the row it read
\* before has held it since then.
KeyHistory ==
  /\ row # "revoked" => since = 0 /\ cleared = None /\ revoking = None
  /\ row = "revoked" => \A t \in Callers : Keys!At(t, "fill") => since <= look[t].age
\* What is cached ends in time, and so did all that was accepted.
KeyEnds ==
  /\ row = "revoked" => \A r \in Replicas : cache[r] > 0 => since + cache[r] <= TTL + MaxLook
  /\ Keys!AcceptedBriefly
\* A cache that was cleared when nobody held the row stays empty.
KeyCleared ==
  cleared # None /\ ~overlap =>
    cache[cleared] = 0 /\ \A t \in Callers : ~(Keys!At(t, "fill") /\ look[t].at = cleared)

KeyInv == Keys!TypeOK /\ KeyHistory /\ KeyEnds /\ KeyCleared

\* What can be read off the types.
LEMMA KeyTypes ==
  ASSUME Keys!KeyBounds, KeyInv
  PROVE  /\ TTL \in Nat /\ MaxLook \in Nat /\ MaxTime \in Nat /\ since \in 0..MaxTime
         /\ \A r \in Replicas : cache[r] \in 0..TTL
         /\ \A t \in Callers : look[t].age \in 0..MaxLook
BY DEF Keys!KeyBounds, KeyInv, Keys!TypeOK

\* What a thread does to its own record, when it does not read the row.
LEMMA KeyLook ==
  ASSUME Keys!KeyBounds, KeyInv, NEW t \in Callers,
         \/ UNCHANGED look
         \/ Keys!End(t)
         \/ \E to \in {"second", "client", "key", "read"} : Keys!Goto(t, to)
         \/ \E r \in Replicas : look' = [look EXCEPT ![t] = [pc |-> "first", at |-> r, age |-> 0]]
  PROVE  /\ look' \in [Callers -> [pc : {"idle", "first", "second", "client", "key", "read", "fill"},
                                   at : Replicas \cup {None}, age : 0..MaxLook]]
         /\ \A u \in Callers : look'[u].pc = "fill" => look'[u] = look[u]
<1>0. 0 \in 0..MaxLook
  BY DEF Keys!KeyBounds
<1>1. look \in [Callers -> [pc : {"idle", "first", "second", "client", "key", "read", "fill"},
                            at : Replicas \cup {None}, age : 0..MaxLook]]
  BY DEF KeyInv, Keys!TypeOK
<1>2. CASE UNCHANGED look
  BY <1>1, <1>2
<1>3. CASE Keys!End(t)
  BY <1>0, <1>1, <1>3 DEF Keys!End, Keys!Idle
<1>4. CASE \E to \in {"second", "client", "key", "read"} : Keys!Goto(t, to)
  BY <1>0, <1>1, <1>4 DEF Keys!Goto
<1>5. CASE \E r \in Replicas : look' = [look EXCEPT ![t] = [pc |-> "first", at |-> r, age |-> 0]]
  BY <1>0, <1>1, <1>5
<1> QED
  BY <1>2, <1>3, <1>4, <1>5

\* The steps of the bootstrap key, and reading the row.
LEMMA KeyBoot ==
  ASSUME Keys!KeyBounds, KeyInv, NEW t \in Callers,
         Keys!First(t) \/ Keys!Second(t) \/ Keys!BootClient(t) \/ Keys!BootKey(t)
  PROVE  KeyInv'
<1>1. /\ UNCHANGED <<row, cache, revoking, since, accepted, overlap, cleared>>
      /\ client' \in BOOLEAN /\ boot' \in BOOLEAN
  BY DEF KeyInv, Keys!TypeOK, Keys!First, Keys!Second, Keys!BootClient, Keys!BootKey,
         Keys!History
<1>2. \/ UNCHANGED look
      \/ Keys!End(t)
      \/ \E to \in {"second", "client", "key", "read"} : Keys!Goto(t, to)
  BY DEF Keys!First, Keys!Second, Keys!BootClient, Keys!BootKey
<1>3. lock' \in [Replicas -> Callers \cup {None}]
  BY DEF KeyInv, Keys!TypeOK, Keys!First, Keys!Second, Keys!BootClient, Keys!BootKey,
         Keys!Release
<1>4. /\ look' \in [Callers -> [pc : {"idle", "first", "second", "client", "key", "read", "fill"},
                                at : Replicas \cup {None}, age : 0..MaxLook]]
      /\ \A u \in Callers : look'[u].pc = "fill" => look'[u] = look[u]
  BY <1>2, KeyLook
<1>5. Keys!TypeOK'
  BY <1>1, <1>3, <1>4 DEF KeyInv, Keys!TypeOK
<1>6. KeyHistory' /\ KeyEnds' /\ KeyCleared'
  BY <1>1, <1>4
  DEF KeyInv, KeyHistory, KeyEnds, KeyCleared, Keys!AcceptedBriefly, Keys!At
<1> QED
  BY <1>5, <1>6 DEF KeyInv

\* A row is read while it is live: then nothing counts yet.
LEMMA KeyRead ==
  ASSUME Keys!KeyBounds, KeyInv, NEW t \in Callers, Keys!Read(t)
  PROVE  KeyInv'
<1>1. UNCHANGED <<client, boot, row, cache, lock, revoking, since, accepted, overlap, cleared>>
  BY DEF Keys!Read, Keys!History
<1>2. CASE ~Keys!Valid
  <2>1. Keys!End(t)
    BY <1>2 DEF Keys!Read
  <2>2. /\ look' \in [Callers -> [pc : {"idle", "first", "second", "client", "key", "read", "fill"},
                                  at : Replicas \cup {None}, age : 0..MaxLook]]
        /\ \A u \in Callers : look'[u].pc = "fill" => look'[u] = look[u]
    BY <2>1, KeyLook
  <2>3. Keys!TypeOK'
    BY <1>1, <2>2 DEF KeyInv, Keys!TypeOK
  <2>4. KeyHistory' /\ KeyEnds' /\ KeyCleared'
    BY <1>1, <2>2
    DEF KeyInv, KeyHistory, KeyEnds, KeyCleared, Keys!AcceptedBriefly, Keys!At
  <2> QED
    BY <2>3, <2>4 DEF KeyInv
<1>3. CASE Keys!Valid
  <2>1. look' = [look EXCEPT ![t].pc = "fill", ![t].age = 0]
    BY <1>3 DEF Keys!Read, Keys!Goto
  <2>2. 0 \in 0..MaxLook
    BY DEF Keys!KeyBounds
  <2>3. Keys!TypeOK'
    BY <1>1, <2>1, <2>2, ZenonT(60) DEF KeyInv, Keys!TypeOK
  <2>4. row' = "live" /\ cleared' = None
    BY <1>1, <1>3 DEF Keys!Valid, KeyInv, KeyHistory
  <2>5. KeyHistory' /\ KeyEnds' /\ KeyCleared'
    BY <1>1, <2>4
    DEF KeyInv, KeyHistory, KeyEnds, KeyCleared, Keys!AcceptedBriefly, Keys!At
  <2> QED
    BY <2>3, <2>5 DEF KeyInv
<1> QED
  BY <1>2, <1>3

\* An answer given within the bound keeps what is said of accepted answers.
LEMMA KeyAccept ==
  ASSUME Keys!KeyBounds, KeyInv, NEW how \in {"key", "token"}, Keys!Accept(how),
         row = "revoked" => how = "key" /\ since <= TTL + MaxLook
  PROVE  /\ accepted' \in [{"key", "token"} -> -1..MaxTime]
         /\ Keys!AcceptedBriefly'
<1>1. accepted \in [{"key", "token"} -> -1..MaxTime] /\ since \in -1..MaxTime
  BY KeyTypes DEF KeyInv, Keys!TypeOK
<1>2. accepted["key"] <= TTL + MaxLook /\ accepted["token"] = -1
  BY DEF KeyInv, KeyEnds, Keys!AcceptedBriefly
<1>3. CASE row = "revoked"
  <2>1. accepted' = [accepted EXCEPT !["key"] = since] /\ since <= TTL + MaxLook
    BY <1>3 DEF Keys!Accept
  <2> QED
    BY <1>1, <1>2, <2>1 DEF Keys!AcceptedBriefly
<1>4. CASE row # "revoked"
  BY <1>1, <1>2, <1>4 DEF Keys!Accept, Keys!AcceptedBriefly
<1> QED
  BY <1>3, <1>4

\* A cached principal is the answer while it lives; else the row will be read.
LEMMA KeyAuthenticate ==
  ASSUME Keys!KeyBounds, KeyInv, NEW t \in Callers, NEW r \in Replicas,
         Keys!Authenticate(t, r)
  PROVE  KeyInv'
<1>1. UNCHANGED <<client, boot, row, cache, lock, revoking, since, overlap, cleared>>
  BY DEF Keys!Authenticate, Keys!Kept
<1>2. /\ accepted' \in [{"key", "token"} -> -1..MaxTime]
      /\ Keys!AcceptedBriefly'
  <2>1. CASE cache[r] > 0
    <3>1. Keys!Accept("key")
      BY <2>1 DEF Keys!Authenticate
    <3>2. row = "revoked" => since + cache[r] <= TTL + MaxLook
      BY <2>1 DEF KeyInv, KeyEnds
    <3>3. row = "revoked" => since <= TTL + MaxLook
      <4>1. since \in Nat /\ cache[r] \in Nat /\ TTL \in Nat /\ MaxLook \in Nat
        BY KeyTypes
      <4> QED
        BY <3>2, <4>1
    <3> QED
      BY <3>1, <3>3, KeyAccept
  <2>2. CASE ~(cache[r] > 0)
    <3>1. UNCHANGED accepted
      BY <2>2 DEF Keys!Authenticate
    <3> QED
      BY <1>1, <3>1 DEF KeyInv, Keys!TypeOK, KeyEnds, Keys!AcceptedBriefly
  <2> QED
    BY <2>1, <2>2
<1>3. /\ look' \in [Callers -> [pc : {"idle", "first", "second", "client", "key", "read", "fill"},
                                at : Replicas \cup {None}, age : 0..MaxLook]]
      /\ \A u \in Callers : look'[u].pc = "fill" => look'[u] = look[u]
  <2>1. \/ UNCHANGED look
        \/ \E q \in Replicas : look' = [look EXCEPT ![t] = [pc |-> "first", at |-> q, age |-> 0]]
    BY DEF Keys!Authenticate
  <2> QED
    BY <2>1, KeyLook
<1>4. Keys!TypeOK'
  BY <1>1, <1>2, <1>3 DEF KeyInv, Keys!TypeOK
<1>5. KeyHistory' /\ KeyEnds' /\ KeyCleared'
  BY <1>1, <1>2, <1>3 DEF KeyInv, KeyHistory, KeyEnds, KeyCleared, Keys!At
<1> QED
  BY <1>4, <1>5 DEF KeyInv

\* A principal is kept by a thread that has held its row since before the revocation.
LEMMA KeyFill ==
  ASSUME Keys!KeyBounds, KeyInv, NEW t \in Callers, Keys!Fill(t)
  PROVE  KeyInv'
<1>1. /\ UNCHANGED <<client, boot, row, lock, revoking, since, overlap, cleared>>
      /\ cache' = [cache EXCEPT ![look[t].at] = TTL]
      /\ Keys!At(t, "fill") /\ Keys!End(t) /\ Keys!Accept("key")
  BY DEF Keys!Fill
<1>2. /\ TTL \in Nat /\ MaxLook \in Nat /\ since \in Nat /\ look[t].age \in 0..MaxLook
      /\ cache \in [Replicas -> 0..TTL] /\ TTL \in 0..TTL
  BY KeyTypes DEF KeyInv, Keys!TypeOK
<1>3. row = "revoked" => since <= MaxLook
  <2>1. row = "revoked" => since <= look[t].age
    BY <1>1 DEF KeyInv, KeyHistory
  <2> QED
    BY <1>2, <2>1
<1>4. /\ accepted' \in [{"key", "token"} -> -1..MaxTime]
      /\ Keys!AcceptedBriefly'
  <2>1. row = "revoked" => since <= TTL + MaxLook
    BY <1>2, <1>3
  <2> QED
    BY <1>1, <2>1, KeyAccept
<1>5. /\ look' \in [Callers -> [pc : {"idle", "first", "second", "client", "key", "read", "fill"},
                                at : Replicas \cup {None}, age : 0..MaxLook]]
      /\ \A u \in Callers : look'[u].pc = "fill" => look'[u] = look[u]
  BY <1>1, KeyLook
<1>6. Keys!TypeOK'
  <2>1. cache' \in [Replicas -> 0..TTL]
    BY <1>1, <1>2
  <2> QED
    BY <1>1, <1>4, <1>5, <2>1 DEF KeyInv, Keys!TypeOK
<1>7. KeyHistory'
  BY <1>1, <1>5 DEF KeyInv, KeyHistory, Keys!At
<1>8. KeyEnds'
  <2>1. ASSUME NEW r \in Replicas, row' = "revoked", cache'[r] > 0
        PROVE  since' + cache'[r] <= TTL + MaxLook
    <3>1. CASE r = look[t].at
      <4>1. cache'[r] = TTL
        BY <1>1, <1>2, <3>1
      <4> QED
        BY <1>1, <1>2, <1>3, <2>1, <4>1
    <3>2. CASE r # look[t].at
      <4>1. cache'[r] = cache[r]
        BY <1>1, <1>2, <3>2
      <4> QED
        BY <1>1, <2>1, <4>1 DEF KeyInv, KeyEnds
    <3> QED
      BY <3>1, <3>2
  <2> QED
    BY <1>4, <2>1 DEF KeyEnds
<1>9. KeyCleared'
  <2>1. ASSUME cleared' # None, ~overlap'
        PROVE  /\ cache'[cleared'] = 0
               /\ \A u \in Callers : ~(look'[u].pc = "fill" /\ look'[u].at = cleared')
    <3>1. /\ cache[cleared] = 0
          /\ \A u \in Callers : ~(look[u].pc = "fill" /\ look[u].at = cleared)
      BY <1>1, <2>1 DEF KeyInv, KeyCleared, Keys!At
    <3>2. look[t].at # cleared
      BY <1>1, <3>1 DEF Keys!At
    <3>3. cleared \in Replicas
      BY <1>1, <2>1 DEF KeyInv, Keys!TypeOK
    <3>4. cache'[cleared] = cache[cleared]
      BY <1>1, <1>2, <3>2, <3>3
    <3> QED
      BY <1>1, <1>5, <3>1, <3>4
  <2> QED
    BY <2>1 DEF KeyCleared, Keys!At
<1> QED
  BY <1>6, <1>7, <1>8, <1>9 DEF KeyInv

\* A token is refused once the row is revoked.
LEMMA KeyToken ==
  ASSUME Keys!KeyBounds, KeyInv, Keys!Token
  PROVE  KeyInv'
<1>1. UNCHANGED <<client, boot, row, cache, look, lock, revoking, since, overlap, cleared>>
  BY DEF Keys!Token
<1>2. /\ accepted' \in [{"key", "token"} -> -1..MaxTime]
      /\ Keys!AcceptedBriefly'
  <2>1. row # "revoked" /\ Keys!Accept("token")
    BY DEF Keys!Token, Keys!Valid
  <2> QED
    BY <2>1, KeyAccept
<1> QED
  BY <1>1, <1>2 DEF KeyInv, Keys!TypeOK, KeyHistory, KeyEnds, KeyCleared, Keys!At

\* Taking principals out of a cache.
LEMMA KeyEvict ==
  ASSUME Keys!KeyBounds, KeyInv, NEW r \in Replicas, Keys!Evict(r)
  PROVE  KeyInv'
<1>1. /\ UNCHANGED <<client, boot, row, look, lock, revoking, since, accepted, overlap, cleared>>
      /\ cache' = [cache EXCEPT ![r] = 0]
  BY DEF Keys!Evict, Keys!History
<1>2. cache \in [Replicas -> 0..TTL] /\ 0 \in 0..TTL
  BY DEF KeyInv, Keys!TypeOK, Keys!KeyBounds
<1>3. cache' \in [Replicas -> 0..TTL] /\ \A q \in Replicas : cache'[q] = 0 \/ cache'[q] = cache[q]
  BY <1>1, <1>2
<1>4. Keys!TypeOK' /\ KeyHistory'
  BY <1>1, <1>3 DEF KeyInv, Keys!TypeOK, KeyHistory, Keys!At
<1>5. KeyEnds'
  BY <1>1, <1>3 DEF KeyInv, KeyEnds, Keys!AcceptedBriefly
<1>6. KeyCleared'
  BY <1>1, <1>3 DEF KeyInv, KeyCleared, Keys!At, Keys!TypeOK
<1> QED
  BY <1>4, <1>5, <1>6 DEF KeyInv

\* The row is made, and revoked, once.
LEMMA KeyRow ==
  ASSUME Keys!KeyBounds, KeyInv, Keys!CreateKey \/ \E r \in Replicas : Keys!Revoke(r)
  PROVE  KeyInv'
<1>1. /\ UNCHANGED <<client, boot, cache, look, lock, since, accepted, overlap, cleared>>
      /\ row # "revoked" /\ row' \in {"live", "revoked"}
      /\ revoking' \in Replicas \cup {None} /\ (row' # "revoked" => revoking' = revoking)
  BY DEF Keys!CreateKey, Keys!Revoke, Keys!History, KeyInv, Keys!TypeOK
<1>2. since = 0 /\ cleared = None
  BY <1>1 DEF KeyInv, KeyHistory
<1>3. Keys!TypeOK' /\ KeyCleared'
  BY <1>1, <1>2 DEF KeyInv, Keys!TypeOK, KeyCleared
<1>4. KeyHistory'
  <2>1. \A t \in Callers : 0 <= look[t].age
    BY KeyTypes
  <2> QED
    BY <1>1, <1>2, <2>1 DEF KeyInv, KeyHistory, Keys!At
<1>5. KeyEnds'
  <2>1. ASSUME NEW r \in Replicas PROVE 0 + cache[r] <= TTL + MaxLook
    <3>1. cache[r] \in 0..TTL /\ TTL \in Nat /\ MaxLook \in Nat
      BY KeyTypes
    <3> QED
      BY <3>1
  <2> QED
    BY <1>1, <1>2, <2>1 DEF KeyInv, KeyEnds, Keys!AcceptedBriefly
<1> QED
  BY <1>3, <1>4, <1>5 DEF KeyInv

\* The process that revoked the key clears its cache.
LEMMA KeyClear ==
  ASSUME Keys!KeyBounds, KeyInv, NEW r \in Replicas, Keys!ClearCache(r)
  PROVE  KeyInv'
<1>1. /\ UNCHANGED <<client, boot, row, look, lock, since, accepted>>
      /\ revoking = r /\ revoking' = None /\ cleared' = r
      /\ cache' = [cache EXCEPT ![r] = 0]
      /\ overlap' = \E t \in Callers : Keys!At(t, "fill") /\ look[t].at = r
  BY DEF Keys!ClearCache, Keys!Cleared
<1>2. cache \in [Replicas -> 0..TTL] /\ 0 \in 0..TTL
  BY DEF KeyInv, Keys!TypeOK, Keys!KeyBounds
<1>3. /\ cache' \in [Replicas -> 0..TTL] /\ cache'[r] = 0
      /\ \A q \in Replicas : cache'[q] = 0 \/ cache'[q] = cache[q]
  BY <1>1, <1>2
<1>4. overlap' \in BOOLEAN
  BY <1>1
<1>5. Keys!TypeOK'
  BY <1>1, <1>3, <1>4 DEF KeyInv, Keys!TypeOK
<1>6. row # "revoked" => None = r
  BY <1>1 DEF KeyInv, KeyHistory
<1>7. KeyHistory'
  BY <1>1, <1>6 DEF KeyInv, KeyHistory, Keys!At
<1>8. KeyEnds'
  BY <1>1, <1>3 DEF KeyInv, KeyEnds, Keys!AcceptedBriefly
<1>9. KeyCleared'
  BY <1>1, <1>3 DEF KeyCleared, Keys!At
<1> QED
  BY <1>5, <1>7, <1>8, <1>9 DEF KeyInv

\* Time passes for every cache and for every thread that holds a row.
LEMMA KeyTick ==
  ASSUME Keys!KeyBounds, KeyInv, Keys!Tick
  PROVE  KeyInv'
<1>1. /\ UNCHANGED <<client, boot, row, lock, revoking, accepted, overlap, cleared>>
      /\ \A t \in Callers : look[t].age < MaxLook
      /\ since < MaxTime
      /\ cache' = [r \in Replicas |-> IF cache[r] > 0 THEN cache[r] - 1 ELSE 0]
      /\ look' = [t \in Callers |-> IF look[t].pc = "fill" THEN [look[t] EXCEPT !.age = @ + 1]
                                    ELSE look[t]]
      /\ since' = IF row = "revoked" THEN since + 1 ELSE since
  BY DEF Keys!Tick, Keys!At
<1>2. TTL \in Nat /\ MaxLook \in Nat /\ MaxTime \in Nat /\ since \in Nat
  BY KeyTypes
<1>3. ASSUME NEW t \in Callers
      PROVE  /\ look'[t] \in [pc : {"idle", "first", "second", "client", "key", "read", "fill"},
                              at : Replicas \cup {None}, age : 0..MaxLook]
             /\ look'[t].pc = look[t].pc /\ look'[t].at = look[t].at
             /\ look[t].pc = "fill" => look'[t].age = look[t].age + 1
  <2>1. look[t] \in [pc : {"idle", "first", "second", "client", "key", "read", "fill"},
                     at : Replicas \cup {None}, age : 0..MaxLook]
    BY DEF KeyInv, Keys!TypeOK
  <2>2. look[t].age + 1 \in 0..MaxLook
    BY <1>1, <1>2, <2>1
  <2>3. look'[t] = IF look[t].pc = "fill" THEN [look[t] EXCEPT !.age = look[t].age + 1] ELSE look[t]
    BY <1>1
  <2> QED
    BY <2>1, <2>2, <2>3
<1>4. look' \in [Callers -> [pc : {"idle", "first", "second", "client", "key", "read", "fill"},
                             at : Replicas \cup {None}, age : 0..MaxLook]]
  BY <1>1, <1>3
<1>5. ASSUME NEW r \in Replicas
      PROVE  /\ cache'[r] \in 0..TTL
             /\ cache'[r] > 0 => cache[r] > 0 /\ cache'[r] = cache[r] - 1
             /\ cache[r] = 0 => cache'[r] = 0
  <2>1. cache[r] \in 0..TTL
    BY KeyTypes
  <2>2. cache'[r] = IF cache[r] > 0 THEN cache[r] - 1 ELSE 0
    BY <1>1
  <2> QED
    BY <1>2, <2>1, <2>2
<1>6. cache' \in [Replicas -> 0..TTL]
  BY <1>1, <1>5
<1>7. since' \in 0..MaxTime
  BY <1>1, <1>2
<1>8. Keys!TypeOK'
  BY <1>1, <1>4, <1>6, <1>7 DEF KeyInv, Keys!TypeOK
<1>9. KeyHistory'
  <2>1. row' # "revoked" => since' = 0 /\ cleared' = None /\ revoking' = None
    BY <1>1 DEF KeyInv, KeyHistory
  <2>2. ASSUME NEW t \in Callers, row' = "revoked", look'[t].pc = "fill"
        PROVE  since' <= look'[t].age
    <3>1. look[t].pc = "fill" /\ look'[t].age = look[t].age + 1 /\ look[t].age \in Nat
      BY <1>3, <2>2, KeyTypes
    <3>2. since <= look[t].age
      BY <1>1, <2>2, <3>1 DEF KeyInv, KeyHistory, Keys!At
    <3>3. since' = since + 1
      BY <1>1, <2>2
    <3> QED
      BY <1>2, <3>1, <3>2, <3>3
  <2> QED
    BY <2>1, <2>2 DEF KeyHistory, Keys!At
<1>10. KeyEnds'
  <2>1. ASSUME NEW r \in Replicas, row' = "revoked", cache'[r] > 0
        PROVE  since' + cache'[r] <= TTL + MaxLook
    <3>1. cache[r] > 0 /\ cache'[r] = cache[r] - 1 /\ cache[r] \in Nat
      BY <1>5, <2>1, KeyTypes
    <3>2. since + cache[r] <= TTL + MaxLook
      BY <1>1, <2>1, <3>1 DEF KeyInv, KeyEnds
    <3>3. since' = since + 1
      BY <1>1, <2>1
    <3> QED
      BY <1>2, <3>1, <3>2, <3>3
  <2> QED
    BY <1>1, <2>1 DEF KeyInv, KeyEnds, Keys!AcceptedBriefly
<1>11. KeyCleared'
  <2>1. ASSUME cleared # None, ~overlap
        PROVE  /\ cache'[cleared] = 0
               /\ \A u \in Callers : ~(look'[u].pc = "fill" /\ look'[u].at = cleared)
    <3>1. /\ cache[cleared] = 0 /\ cleared \in Replicas
          /\ \A u \in Callers : ~(look[u].pc = "fill" /\ look[u].at = cleared)
      BY <2>1 DEF KeyInv, KeyCleared, Keys!At, Keys!TypeOK
    <3> QED
      BY <1>3, <1>5, <3>1
  <2> QED
    BY <1>1, <2>1 DEF KeyCleared, Keys!At
<1> QED
  BY <1>8, <1>9, <1>10, <1>11 DEF KeyInv

\* At first there is no row, no cached principal and no thread under way.
LEMMA KeyInit ==
  ASSUME Keys!KeyBounds, Keys!Init
  PROVE  KeyInv
<1>1. 0 \in 0..TTL /\ 0 \in 0..MaxLook /\ 0 \in 0..MaxTime /\ -1 \in -1..MaxTime
  BY DEF Keys!KeyBounds
<1>2. Keys!Idle \in [pc : {"idle", "first", "second", "client", "key", "read", "fill"},
                     at : Replicas \cup {None}, age : 0..MaxLook]
  BY <1>1 DEF Keys!Idle
<1>3. Keys!TypeOK
  BY <1>1, <1>2 DEF Keys!Init, Keys!TypeOK
<1>4. KeyHistory /\ KeyCleared
  BY DEF Keys!Init, KeyHistory, KeyCleared
<1>5. KeyEnds
  <2>1. TTL \in Nat /\ MaxLook \in Nat
    BY DEF Keys!KeyBounds
  <2> QED
    BY <2>1 DEF Keys!Init, KeyEnds, Keys!AcceptedBriefly
<1> QED
  BY <1>3, <1>4, <1>5 DEF KeyInv

\* Every step keeps the invariant, so it always holds.
LEMMA AlwaysKeyInv ==
  ASSUME Keys!KeyBounds
  PROVE  Keys!Spec => []KeyInv
<1>1. Keys!Init => KeyInv
  BY KeyInit
<1>2. KeyInv /\ [Keys!Next]_Keys!vars => KeyInv'
  <2> SUFFICES ASSUME KeyInv, [Keys!Next]_Keys!vars PROVE KeyInv'
    OBVIOUS
  <2>1. CASE \E t \in Callers : Keys!First(t) \/ Keys!Second(t) \/ Keys!BootClient(t) \/ Keys!BootKey(t)
    BY <2>1, KeyBoot
  <2>2. CASE \E t \in Callers : Keys!Read(t)
    BY <2>2, KeyRead
  <2>3. CASE \E t \in Callers : Keys!Fill(t)
    BY <2>3, KeyFill
  <2>4. CASE \E t \in Callers, r \in Replicas : Keys!Authenticate(t, r)
    BY <2>4, KeyAuthenticate
  <2>5. CASE \E r \in Replicas : Keys!Evict(r)
    BY <2>5, KeyEvict
  <2>6. CASE \E r \in Replicas : Keys!ClearCache(r)
    BY <2>6, KeyClear
  <2>7. CASE Keys!CreateKey \/ \E r \in Replicas : Keys!Revoke(r)
    BY <2>7, KeyRow
  <2>8. CASE Keys!Token
    BY <2>8, KeyToken
  <2>9. CASE Keys!Tick
    BY <2>9, KeyTick
  <2>10. CASE UNCHANGED Keys!vars
    BY <2>10
    DEF Keys!vars, KeyInv, Keys!TypeOK, KeyHistory, KeyEnds, KeyCleared, Keys!AcceptedBriefly,
        Keys!At
  <2> QED
    BY <2>1, <2>2, <2>3, <2>4, <2>5, <2>6, <2>7, <2>8, <2>9, <2>10 DEF Keys!Next
<1> QED
  BY <1>1, <1>2, PTL DEF Keys!Spec

\* A revoked key is accepted, by whichever process, no longer than one cached answer and one
\* lookup live, its tokens not at all; and the process that revoked it accepts it at once no
\* more, but for a lookup that was under way (middleware/auth.py).
THEOREM KeyRevocation ==
  ASSUME Keys!KeyBounds
  PROVE  Keys!Spec => []Keys!RevocationHolds
<1>1. KeyInv => Keys!RevocationHolds
  <2>1. ASSUME KeyInv, cleared # None, cache[cleared] > 0
        PROVE  overlap
    <3>1. overlap \/ cache[cleared] = 0
      BY <2>1 DEF KeyInv, KeyCleared
    <3> QED
      BY <2>1, <3>1
  <2> QED
    BY <2>1 DEF Keys!RevocationHolds, Keys!ClearedForGood, KeyInv, KeyEnds
<1> QED
  BY <1>1, AlwaysKeyInv, PTL

-----------------------------------------------------------------------------
(* The sandboxes' documents on MongoDB *)

MongoDoc ==
  [st : Mongo!States \cup {"absent"}, pool : BOOLEAN, owner : Clients \cup {None},
   md : SUBSET Mongo!Keys, due : BOOLEAN]
MongoRecord ==
  [pc : {"idle", "pick", "give_up", "hand", "count", "merge", "write", "lost", "expired",
         "purge", "history", "snapshots", "delete"},
   row : Documents \cup {None}, who : Clients \cup {None}, md : SUBSET Mongo!Keys, tries : Nat]
MongoCall == {c \in MongoRecord : c.pc = "merge" => c.row \in Documents}

\* What is in the pool has no owner yet.
MongoInv ==
  /\ rows \in [Documents -> MongoDoc] /\ call \in [Callers -> MongoCall]
  /\ \A s \in Documents : rows[s].pool => rows[s].owner = None

\* A document as a step may leave it.
MongoNext(s, doc) ==
  /\ doc \in MongoDoc
  /\ doc.pool => doc.owner = None
  /\ doc.owner \notin {rows[s].owner, None} => rows[s].owner = None /\ Mongo!Pooled(s)
  /\ ~rows[s].pool /\ Mongo!There(s) => ~doc.pool

\* The statements change one document, if it is there.
LEMMA MongoUpdate ==
  ASSUME MongoInv, NEW s, NEW doc, s \in Documents => MongoNext(s, doc),
         rows' = [rows EXCEPT ![s] = doc]
  PROVE  /\ rows' \in [Documents -> MongoDoc] /\ Mongo!TakenOnce
         /\ \A o \in Documents : rows'[o].pool => rows'[o].owner = None
<1>1. ASSUME NEW o \in Documents
      PROVE  rows'[o] = (IF o = s THEN doc ELSE rows[o]) /\ MongoNext(o, rows'[o])
  <2>1. rows'[o] = IF o = s THEN doc ELSE rows[o]
    BY DEF MongoInv
  <2>2. MongoNext(o, rows[o])
    BY DEF MongoInv, MongoNext
  <2> QED
    BY <2>1, <2>2
<1>2. rows' \in [Documents -> MongoDoc]
  <2>1. \A o \in Documents : rows'[o] \in MongoDoc
    BY <1>1 DEF MongoNext
  <2>2. rows' = [o \in Documents |-> rows'[o]]
    BY DEF MongoInv
  <2> QED
    BY <2>1, <2>2
<1> QED
  BY <1>1, <1>2 DEF MongoNext, Mongo!TakenOnce

\* Statements that leave the documents alone.
LEMMA MongoSame ==
  ASSUME MongoInv, UNCHANGED rows
  PROVE  /\ rows' \in [Documents -> MongoDoc] /\ Mongo!TakenOnce
         /\ \A o \in Documents : rows'[o].pool => rows'[o].owner = None
BY DEF MongoInv, Mongo!TakenOnce

\* What a thread may hold next.
LEMMA MongoCalls ==
  ASSUME MongoInv, NEW t \in Callers, NEW c \in MongoCall, Mongo!Does(t, c)
  PROVE  call' \in [Callers -> MongoCall]
BY DEF MongoInv, Mongo!Does

\* A thread goes on with what it holds.
LEMMA MongoGoes ==
  ASSUME MongoInv, NEW t \in Callers,
         NEW to \in {"pick", "count", "history", "snapshots", "delete"}, Mongo!Goes(t, to)
  PROVE  call' \in [Callers -> MongoCall]
<1>1. call[t] \in MongoCall
  BY DEF MongoInv
<1>2. [call[t] EXCEPT !.pc = to] \in MongoCall
  BY <1>1 DEF MongoCall, MongoRecord
<1> QED
  BY <1>2, MongoCalls DEF Mongo!Goes

\* Single statements from outside.
LEMMA MongoOutside ==
  ASSUME MongoInv, NEW s \in Documents,
         \/ \E st \in {"starting", "running"}, inPool \in BOOLEAN : Mongo!Create(s, st, inPool)
         \/ \E st \in Mongo!States : Mongo!UpdateState(s, st)
         \/ Mongo!UpdateTimeout(s) \/ Mongo!LeaseEnds(s)
  PROVE  MongoInv' /\ Mongo!TakenOnce
<1>1. UNCHANGED call
  BY DEF Mongo!Create, Mongo!UpdateState, Mongo!UpdateTimeout, Mongo!LeaseEnds
<1>2. rows[s] \in MongoDoc /\ (rows[s].pool => rows[s].owner = None)
  BY DEF MongoInv
<1>3. PICK doc : rows' = [rows EXCEPT ![s] = doc] /\ MongoNext(s, doc)
  <2>1. CASE \E st \in {"starting", "running"}, inPool \in BOOLEAN : Mongo!Create(s, st, inPool)
    <3>1. PICK st \in {"starting", "running"}, inPool \in BOOLEAN : Mongo!Create(s, st, inPool)
      BY <2>1
    <3>2. /\ ~Mongo!There(s)
          /\ rows' = [rows EXCEPT ![s] = [Mongo!NoRow EXCEPT !.st = st, !.pool = inPool]]
      BY <3>1 DEF Mongo!Create
    <3>3. PICK doc \in MongoDoc : doc = [Mongo!NoRow EXCEPT !.st = st, !.pool = inPool]
      BY DEF Mongo!NoRow, MongoDoc, Mongo!States
    <3>4. doc.owner = None
      BY <3>3 DEF Mongo!NoRow
    <3> QED
      BY <3>2, <3>3, <3>4 DEF MongoNext
  <2>2. CASE \E st \in Mongo!States : Mongo!UpdateState(s, st)
    <3>1. PICK st \in Mongo!States : Mongo!UpdateState(s, st)
      BY <2>2
    <3>2. rows' = [rows EXCEPT ![s] = [rows[s] EXCEPT !.st = st]]
      BY <3>1 DEF Mongo!UpdateState, Mongo!Update
    <3>3. PICK doc \in MongoDoc : doc = [rows[s] EXCEPT !.st = st]
      BY <1>2 DEF MongoDoc
    <3>4. doc.owner = rows[s].owner /\ doc.pool = rows[s].pool
      BY <1>2, <3>3 DEF MongoDoc
    <3> QED
      BY <1>2, <3>2, <3>3, <3>4 DEF MongoNext
  <2>3. CASE Mongo!UpdateTimeout(s) \/ Mongo!LeaseEnds(s)
    <3>1. PICK due \in BOOLEAN :
            \/ rows' = [rows EXCEPT ![s] = [rows[s] EXCEPT !.due = due]]
            \/ rows' = rows
      BY <2>3 DEF Mongo!UpdateTimeout, Mongo!LeaseEnds, Mongo!Update
    <3>2. PICK doc \in MongoDoc : doc = [rows[s] EXCEPT !.due = due]
      BY <1>2 DEF MongoDoc
    <3>3. doc.owner = rows[s].owner /\ doc.pool = rows[s].pool
      BY <1>2, <3>2 DEF MongoDoc
    <3>4. MongoNext(s, doc) /\ MongoNext(s, rows[s])
      BY <1>2, <3>2, <3>3 DEF MongoNext
    <3>5. rows = [rows EXCEPT ![s] = rows[s]]
      BY DEF MongoInv
    <3> QED
      BY <3>1, <3>2, <3>4, <3>5
  <2> QED
    BY <2>1, <2>2, <2>3
<1>4. /\ rows' \in [Documents -> MongoDoc] /\ Mongo!TakenOnce
      /\ \A o \in Documents : rows'[o].pool => rows'[o].owner = None
  BY <1>3, MongoUpdate
<1> QED
  BY <1>1, <1>4 DEF MongoInv

\* The claim: the row that was picked is taken if it is still in the pool.
LEMMA MongoClaim ==
  ASSUME MongoInv, NEW t \in Callers,
         \/ \E c \in Clients : Mongo!Claim(t, c)
         \/ Mongo!Pick(t) \/ Mongo!GiveUp(t) \/ Mongo!HandOff(t) \/ Mongo!Count(t)
  PROVE  MongoInv' /\ Mongo!TakenOnce
<1>0. call[t] \in MongoCall /\ Mongo!NoCall \in MongoCall
  BY DEF MongoInv, MongoCall, MongoRecord, Mongo!NoCall
<1>1. CASE \E c \in Clients : Mongo!Claim(t, c)
  <2>1. PICK c \in Clients : Mongo!Claim(t, c)
    BY <1>1
  <2>2. [Mongo!NoCall EXCEPT !.pc = "pick", !.who = c] \in MongoCall
    BY DEF MongoCall, MongoRecord, Mongo!NoCall
  <2>3. call' \in [Callers -> MongoCall] /\ UNCHANGED rows
    BY <2>1, <2>2, MongoCalls DEF Mongo!Claim
  <2> QED
    BY <2>3, MongoSame DEF MongoInv
<1>2. CASE Mongo!Pick(t)
  <2>1. CASE Mongo!Does(t, Mongo!NoCall)
    <3>1. call' \in [Callers -> MongoCall] /\ UNCHANGED rows
      BY <1>0, <1>2, <2>1, MongoCalls DEF Mongo!Pick
    <3> QED
      BY <3>1, MongoSame DEF MongoInv
  <2>2. CASE ~Mongo!Does(t, Mongo!NoCall)
    <3>1. PICK s \in Documents :
            Mongo!Does(t, [call[t] EXCEPT
                             !.pc = IF "error" \in rows[s].md THEN "give_up" ELSE "hand",
                             !.row = s, !.md = rows[s].md, !.tries = @ + 1])
      BY <1>2, <2>2 DEF Mongo!Pick
    <3>2. rows[s].md \in SUBSET Mongo!Keys
      BY DEF MongoInv, MongoDoc
    <3>3. [call[t] EXCEPT !.pc = IF "error" \in rows[s].md THEN "give_up" ELSE "hand",
                          !.row = s, !.md = rows[s].md, !.tries = @ + 1] \in MongoCall
      <4>1. PICK to \in {"give_up", "hand"} :
              to = IF "error" \in rows[s].md THEN "give_up" ELSE "hand"
        OBVIOUS
      <4>2. call[t].tries + 1 \in Nat
        BY <1>0 DEF MongoCall, MongoRecord
      <4>3. [call[t] EXCEPT !.pc = to, !.row = s, !.md = rows[s].md, !.tries = @ + 1] \in MongoCall
        BY <1>0, <3>2, <4>2 DEF MongoCall, MongoRecord
      <4> QED
        BY <4>1, <4>3
    <3>4. call' \in [Callers -> MongoCall] /\ UNCHANGED rows
      BY <1>2, <3>1, <3>3, MongoCalls DEF Mongo!Pick
    <3> QED
      BY <3>4, MongoSame DEF MongoInv
  <2> QED
    BY <2>1, <2>2
<1>3. CASE Mongo!GiveUp(t)
  <2>1. call' \in [Callers -> MongoCall]
    BY <1>3, MongoGoes DEF Mongo!GiveUp
  <2>2. CASE UNCHANGED rows
    BY <2>1, <2>2, MongoSame DEF MongoInv
  <2>3. CASE rows' # rows
    <3> DEFINE doc == [Mongo!Row(t) EXCEPT !.st = "lost", !.pool = FALSE]
    <3>1. rows' = [rows EXCEPT ![call[t].row] = doc]
      BY <1>3, <2>3 DEF Mongo!GiveUp, Mongo!Update
    <3>2. call[t].row \in Documents => MongoNext(call[t].row, doc)
      <4>1. ASSUME call[t].row \in Documents
            PROVE  Mongo!Row(t) \in MongoDoc
        BY <4>1 DEF MongoInv, Mongo!Row
      <4>2. ASSUME call[t].row \in Documents
            PROVE  /\ doc \in MongoDoc /\ ~doc.pool
                   /\ doc.owner = rows[call[t].row].owner
        BY <4>1, <4>2 DEF MongoDoc, Mongo!States, Mongo!Row
      <4> QED
        BY <4>2 DEF MongoNext
    <3> HIDE DEF doc
    <3> QED
      BY <2>1, <3>1, <3>2, MongoUpdate DEF MongoInv
  <2> QED
    BY <2>2, <2>3
<1>4. CASE Mongo!HandOff(t)
  <2>1. call' \in [Callers -> MongoCall]
    BY <1>4, MongoGoes DEF Mongo!HandOff
  <2>2. CASE UNCHANGED rows
    BY <2>1, <2>2, MongoSame DEF MongoInv
  <2>3. CASE rows' # rows
    <3> DEFINE doc == [Mongo!Row(t) EXCEPT !.owner = call[t].who, !.pool = FALSE,
                                           !.md = call[t].md \cup {"owner"}, !.due = FALSE]
    <3>1. rows' = [rows EXCEPT ![call[t].row] = doc] /\ Mongo!Pooled(call[t].row)
      BY <1>4, <2>3 DEF Mongo!HandOff, Mongo!Update, Mongo!StillPooled
    <3>2. call[t].row \in Documents => MongoNext(call[t].row, doc)
      <4>1. ASSUME call[t].row \in Documents
            PROVE  /\ Mongo!Row(t) \in MongoDoc
                   /\ rows[call[t].row].owner = None
        BY <3>1, <4>1 DEF MongoInv, Mongo!Row, Mongo!Pooled
      <4>2. ASSUME call[t].row \in Documents
            PROVE  doc \in MongoDoc /\ ~doc.pool
        <5>1. call[t].who \in Clients \cup {None} /\ call[t].md \cup {"owner"} \in SUBSET Mongo!Keys
          BY <1>0 DEF MongoCall, MongoRecord, Mongo!Keys
        <5> QED
          BY <4>1, <4>2, <5>1 DEF MongoDoc
      <4> QED
        BY <3>1, <4>1, <4>2 DEF MongoNext
    <3> HIDE DEF doc
    <3> QED
      BY <2>1, <3>1, <3>2, MongoUpdate DEF MongoInv
  <2> QED
    BY <2>2, <2>3
<1>5. CASE Mongo!Count(t)
  <2>1. call' \in [Callers -> MongoCall] /\ UNCHANGED rows
    BY <1>0, <1>5, MongoCalls DEF Mongo!Count
  <2> QED
    BY <2>1, MongoSame DEF MongoInv
<1> QED
  BY <1>1, <1>2, <1>3, <1>4, <1>5

\* The merges: metadata is written back, and a row may be marked lost.
LEMMA MongoMerge ==
  ASSUME MongoInv, NEW t \in Callers,
         \/ \E s \in Documents : \/ \E key \in Mongo!Keys : Mongo!FindToMerge(t, s, key)
                                 \/ Mongo!MarkLost(t, s)
         \/ Mongo!WriteMerged(t) \/ Mongo!FindToMark(t)
  PROVE  MongoInv' /\ Mongo!TakenOnce
<1>0. call[t] \in MongoCall /\ Mongo!NoCall \in MongoCall
  BY DEF MongoInv, MongoCall, MongoRecord, Mongo!NoCall
<1>1. CASE \E s \in Documents, key \in Mongo!Keys : Mongo!FindToMerge(t, s, key)
  <2>1. PICK s \in Documents, key \in Mongo!Keys : Mongo!FindToMerge(t, s, key)
    BY <1>1
  <2>2. rows[s].md \cup {key} \in SUBSET Mongo!Keys
    BY DEF MongoInv, MongoDoc
  <2>3. [Mongo!NoCall EXCEPT !.pc = "write", !.row = s, !.md = rows[s].md \cup {key}] \in MongoCall
    BY <2>2 DEF MongoCall, MongoRecord, Mongo!NoCall
  <2>4. call' \in [Callers -> MongoCall] /\ UNCHANGED rows
    BY <2>1, <2>3, MongoCalls DEF Mongo!FindToMerge
  <2> QED
    BY <2>4, MongoSame DEF MongoInv
<1>2. CASE \E s \in Documents : Mongo!MarkLost(t, s)
  <2>1. PICK s \in Documents : Mongo!MarkLost(t, s)
    BY <1>2
  <2>2. rows[s] \in MongoDoc /\ (rows[s].pool => rows[s].owner = None)
    BY DEF MongoInv
  <2>3. rows[s].md \cup {"error"} \in SUBSET Mongo!Keys
    BY <2>2 DEF MongoDoc, Mongo!Keys
  <2>4. [Mongo!NoCall EXCEPT !.pc = "merge", !.row = s, !.md = rows[s].md \cup {"error"}]
          \in MongoCall
    BY <2>3 DEF MongoCall, MongoRecord, Mongo!NoCall
  <2>5. call' \in [Callers -> MongoCall]
    BY <2>1, <2>4, MongoCalls DEF Mongo!MarkLost
  <2>6. PICK doc \in MongoDoc : doc = [rows[s] EXCEPT !.st = "lost"]
    BY <2>2 DEF MongoDoc, Mongo!States
  <2>7. doc.owner = rows[s].owner /\ doc.pool = rows[s].pool
    BY <2>2, <2>6 DEF MongoDoc
  <2>8. MongoNext(s, doc)
    BY <2>2, <2>7 DEF MongoNext
  <2>9. rows' = [rows EXCEPT ![s] = doc] \/ UNCHANGED rows
    BY <2>1, <2>6 DEF Mongo!MarkLost, Mongo!Update
  <2> QED
    BY <2>5, <2>8, <2>9, MongoUpdate, MongoSame DEF MongoInv
<1>3. CASE Mongo!WriteMerged(t)
  <2>1. call' \in [Callers -> MongoCall]
    BY <1>0, <1>3, MongoCalls DEF Mongo!WriteMerged
  <2>2. CASE UNCHANGED rows
    BY <2>1, <2>2, MongoSame DEF MongoInv
  <2>3. CASE rows' # rows
    <3> DEFINE doc == [Mongo!Row(t) EXCEPT !.md = call[t].md]
    <3>1. rows' = [rows EXCEPT ![call[t].row] = doc]
      BY <1>3, <2>3 DEF Mongo!WriteMerged, Mongo!Update
    <3>2. call[t].row \in Documents => MongoNext(call[t].row, doc)
      <4>1. ASSUME call[t].row \in Documents
            PROVE  /\ Mongo!Row(t) \in MongoDoc /\ Mongo!Row(t) = rows[call[t].row]
                   /\ Mongo!Row(t).pool => Mongo!Row(t).owner = None
        BY <4>1 DEF MongoInv, Mongo!Row
      <4>2. call[t].md \in SUBSET Mongo!Keys
        BY <1>0 DEF MongoCall, MongoRecord
      <4>3. ASSUME call[t].row \in Documents
            PROVE  /\ doc \in MongoDoc /\ doc.pool = Mongo!Row(t).pool
                   /\ doc.owner = Mongo!Row(t).owner
        BY <4>1, <4>2, <4>3 DEF MongoDoc
      <4> QED
        BY <4>1, <4>3 DEF MongoNext
    <3> HIDE DEF doc
    <3> QED
      BY <2>1, <3>1, <3>2, MongoUpdate DEF MongoInv
  <2> QED
    BY <2>2, <2>3
<1>4. CASE Mongo!FindToMark(t)
  <2>1. PICK c : Mongo!Does(t, c) /\ c \in MongoCall
    <3>1. CASE Mongo!There(call[t].row)
      <4>1. Mongo!Row(t).md \cup call[t].md \in SUBSET Mongo!Keys
        <5>1. call[t].row \in Documents
          BY <1>0, <1>4 DEF MongoCall, Mongo!FindToMark, Mongo!At
        <5> QED
          BY <1>0, <5>1 DEF MongoInv, MongoDoc, MongoCall, MongoRecord, Mongo!Row
      <4>2. [call[t] EXCEPT !.pc = "write", !.md = Mongo!Row(t).md \cup @] \in MongoCall
        BY <1>0, <4>1 DEF MongoCall, MongoRecord
      <4> QED
        BY <1>4, <3>1, <4>2 DEF Mongo!FindToMark
    <3>2. CASE ~Mongo!There(call[t].row)
      BY <1>0, <1>4, <3>2 DEF Mongo!FindToMark
    <3> QED
      BY <3>1, <3>2
  <2>2. call' \in [Callers -> MongoCall] /\ UNCHANGED rows
    BY <1>4, <2>1, MongoCalls DEF Mongo!FindToMark
  <2> QED
    BY <2>2, MongoSame DEF MongoInv
<1> QED
  BY <1>1, <1>2, <1>3, <1>4

\* A deletion takes the children and then the document, and a replica may go down.
LEMMA MongoDelete ==
  ASSUME MongoInv, NEW t \in Callers,
         \/ \E s \in Documents, why \in {"expired", "purge", "history"} :
              Mongo!FindToDelete(t, s, why)
         \/ Mongo!Listed(t)
         \/ Mongo!DeleteChildren(t, "history", "snapshots")
         \/ Mongo!DeleteChildren(t, "snapshots", "delete")
         \/ Mongo!DeleteRow(t) \/ Mongo!Crash(t)
  PROVE  MongoInv' /\ Mongo!TakenOnce
<1>0. Mongo!NoCall \in MongoCall
  BY DEF MongoCall, MongoRecord, Mongo!NoCall
<1>1. CASE \E s \in Documents, why \in {"expired", "purge", "history"} :
             Mongo!FindToDelete(t, s, why)
  <2>1. PICK s \in Documents, why \in {"expired", "purge", "history"} :
          Mongo!FindToDelete(t, s, why)
    BY <1>1
  <2>2. [Mongo!NoCall EXCEPT !.pc = why, !.row = s] \in MongoCall
    BY DEF MongoCall, MongoRecord, Mongo!NoCall
  <2>3. call' \in [Callers -> MongoCall] /\ UNCHANGED rows
    BY <2>1, <2>2, MongoCalls DEF Mongo!FindToDelete
  <2> QED
    BY <2>3, MongoSame DEF MongoInv
<1>2. CASE \/ Mongo!Listed(t)
           \/ Mongo!DeleteChildren(t, "history", "snapshots")
           \/ Mongo!DeleteChildren(t, "snapshots", "delete")
  <2>1. call' \in [Callers -> MongoCall] /\ UNCHANGED rows
    BY <1>2, MongoGoes DEF Mongo!Listed, Mongo!DeleteChildren
  <2> QED
    BY <2>1, MongoSame DEF MongoInv
<1>3. CASE Mongo!DeleteRow(t)
  <2>1. call' \in [Callers -> MongoCall]
    BY <1>0, <1>3, MongoCalls DEF Mongo!DeleteRow
  <2>2. PICK doc \in MongoDoc : doc = Mongo!NoRow
    BY DEF MongoDoc, Mongo!NoRow
  <2>3. doc.owner = None /\ ~doc.pool
    BY <2>2 DEF Mongo!NoRow
  <2>4. ASSUME NEW s \in Documents PROVE MongoNext(s, doc)
    BY <2>3 DEF MongoNext
  <2>5. rows' = [rows EXCEPT ![call[t].row] = doc]
    BY <1>3, <2>2 DEF Mongo!DeleteRow
  <2> QED
    BY <2>1, <2>4, <2>5, MongoUpdate DEF MongoInv
<1>4. CASE Mongo!Crash(t)
  <2>1. call' \in [Callers -> MongoCall] /\ UNCHANGED rows
    BY <1>0, <1>4, MongoCalls DEF Mongo!Crash
  <2> QED
    BY <2>1, MongoSame DEF MongoInv
<1> QED
  BY <1>1, <1>2, <1>3, <1>4

\* At first there is no document and no call.
LEMMA MongoInit ==
  ASSUME Mongo!Init
  PROVE  MongoInv
<1>1. Mongo!NoRow \in MongoDoc /\ Mongo!NoCall \in MongoCall /\ ~Mongo!NoRow.pool
  BY DEF MongoDoc, Mongo!NoRow, MongoCall, MongoRecord, Mongo!NoCall
<1> QED
  BY <1>1 DEF Mongo!Init, MongoInv

\* What a step of MongoDB's threads keeps, and how it changes the documents.
LEMMA MongoSteps ==
  ASSUME MongoInv, [Mongo!Next]_Mongo!vars PROVE MongoInv' /\ Mongo!TakenOnce
<1>1. CASE \E s \in Documents :
             \/ \E st \in {"starting", "running"}, inPool \in BOOLEAN : Mongo!Create(s, st, inPool)
             \/ \E st \in Mongo!States : Mongo!UpdateState(s, st)
             \/ Mongo!UpdateTimeout(s) \/ Mongo!LeaseEnds(s)
  BY <1>1, MongoOutside
<1>2. CASE \E t \in Callers :
             \/ \E c \in Clients : Mongo!Claim(t, c)
             \/ Mongo!Pick(t) \/ Mongo!GiveUp(t) \/ Mongo!HandOff(t) \/ Mongo!Count(t)
  BY <1>2, MongoClaim
<1>3. CASE \E t \in Callers :
             \/ \E s \in Documents : \/ \E key \in Mongo!Keys : Mongo!FindToMerge(t, s, key)
                                     \/ Mongo!MarkLost(t, s)
             \/ Mongo!WriteMerged(t) \/ Mongo!FindToMark(t)
  BY <1>3, MongoMerge
<1>4. CASE \E t \in Callers :
             \/ \E s \in Documents, why \in {"expired", "purge", "history"} :
                  Mongo!FindToDelete(t, s, why)
             \/ Mongo!Listed(t)
             \/ Mongo!DeleteChildren(t, "history", "snapshots")
             \/ Mongo!DeleteChildren(t, "snapshots", "delete")
             \/ Mongo!DeleteRow(t) \/ Mongo!Crash(t)
  BY <1>4, MongoDelete
<1>5. CASE UNCHANGED Mongo!vars \/ \E s \in Documents, kind \in Mongo!Kinds : Mongo!AddChild(s, kind)
  <2>1. UNCHANGED <<rows, call>>
    BY <1>5 DEF Mongo!vars, Mongo!AddChild
  <2> QED
    BY <2>1, MongoSame DEF MongoInv
<1> QED
  BY <1>1, <1>2, <1>3, <1>4, <1>5 DEF Mongo!Next

\* Documents and calls, always.
LEMMA AlwaysMongoInv == Mongo!Spec => []MongoInv
<1>1. Mongo!Init => MongoInv
  BY MongoInit
<1>2. MongoInv /\ [Mongo!Next]_Mongo!vars => MongoInv'
  BY MongoSteps
<1> QED BY <1>1, <1>2, PTL DEF Mongo!Spec

\* On MongoDB a sandbox of the pool is handed out once and while it runs, and what has left the
\* pool stays out of it, for any number of threads: the claim picks a row in one statement and
\* takes it in another, under a condition (database/mongo.py).
THEOREM MongoHandsOutOnce == Mongo!Spec => Mongo!HandedOutOnce
<1>1. Mongo!Init => MongoInv
  BY MongoInit
<1>2. MongoInv /\ [Mongo!Next]_Mongo!vars => MongoInv' /\ [Mongo!TakenOnce]_Mongo!vars
  BY MongoSteps
<1> QED
  BY <1>1, <1>2, PTL DEF Mongo!Spec, Mongo!HandedOutOnce

-----------------------------------------------------------------------------
(* Snapshots *)

\* A call knows its gateway, and only its end makes the reference one that rows and
\* the retention know.
SnapCalls ==
  \A x \in Refs :
    /\ task[x].pc # "idle" => task[x].at \in Gateways
    /\ row[x] # None \/ x \in old => task[x].pc \in {"merge", "done"}
\* The image is there from the commit on, as long as a row may need it.
SnapImages ==
  \A x \in Refs :
    task[x].pc \in {"push", "insert"} \/ row[x] # None => x \in image[task[x].at]
\* A pass keeps the old images that have rows.
SnapKept ==
  prune.pc = "images" => \A x \in Refs : row[x] # None /\ x \in old => x \in prune.keep

SnapInv == Snap!TypeOK /\ SnapCalls /\ SnapImages /\ SnapKept

\* What a call is like.
SnapTask ==
  [pc : {"idle", "commit", "push", "insert", "merge", "done"},
   of : Sources \cup {None}, at : Gateways \cup {None}]

\* A call moves on with its source and its gateway, and the other calls stay.
LEMMA SnapGoes ==
  ASSUME SnapInv, NEW x \in Refs,
         NEW to \in {"commit", "push", "insert", "merge", "done"}, Snap!Goes(x, to)
  PROVE  /\ task' \in [Refs -> SnapTask]
         /\ task'[x].pc = to /\ task'[x].of = task[x].of /\ task'[x].at = task[x].at
         /\ \A y \in Refs \ {x} : task'[y] = task[y]
         /\ \A y \in Refs : task'[y].at = task[y].at
BY DEF SnapInv, Snap!TypeOK, SnapTask, Snap!Goes

\* A call begins at the gateway of its source.
LEMMA SnapBegin ==
  ASSUME SnapInv, NEW x \in Refs, NEW s \in Sources, Snap!Begin(x, s)
  PROVE  SnapInv'
<1>1. /\ UNCHANGED <<source, image, pushed, old, row, from, prune>>
      /\ task[x].pc = "idle" /\ source[s] \in Gateways
      /\ task' = [task EXCEPT ![x] = [pc |-> "commit", of |-> s, at |-> source[s]]]
  BY DEF Snap!Begin, Snap!At, SnapInv, Snap!TypeOK
<1>2. task \in [Refs -> SnapTask]
  BY DEF SnapInv, Snap!TypeOK, SnapTask
<1>3. /\ task' \in [Refs -> SnapTask]
      /\ task'[x] = [pc |-> "commit", of |-> s, at |-> source[s]]
      /\ \A y \in Refs \ {x} : task'[y] = task[y]
  BY <1>1, <1>2 DEF SnapTask
<1>4. Snap!TypeOK'
  BY <1>1, <1>3 DEF SnapInv, Snap!TypeOK, SnapTask
<1>5. row[x] = None /\ x \notin old
  BY <1>1 DEF SnapInv, SnapCalls
<1>6. SnapCalls' /\ SnapImages' /\ SnapKept'
  BY <1>1, <1>3, <1>5 DEF SnapInv, SnapCalls, SnapImages, SnapKept
<1> QED
  BY <1>4, <1>6 DEF SnapInv

\* The image is made where the call says.
LEMMA SnapCommit ==
  ASSUME SnapInv, NEW x \in Refs, Snap!Commit(x)
  PROVE  SnapInv'
<1>1. UNCHANGED <<source, pushed, old, row, from, prune>> /\ task[x].pc = "commit"
  BY DEF Snap!Commit, Snap!At
<1>2. task[x].at \in Gateways /\ row[x] = None /\ x \notin old
  BY <1>1 DEF SnapInv, SnapCalls
<1>3. /\ image \in [Gateways -> SUBSET Refs]
      /\ \/ Snap!Goes(x, "done") /\ image' = image
         \/ \E to \in {"push", "insert"} :
              Snap!Goes(x, to) /\ image' = [image EXCEPT ![task[x].at] = @ \cup {x}]
  BY DEF Snap!Commit, SnapInv, Snap!TypeOK
<1>4. /\ image' \in [Gateways -> SUBSET Refs]
      /\ \A g \in Gateways : image[g] \subseteq image'[g]
      /\ Snap!Goes(x, "done") \/ x \in image'[task[x].at]
  BY <1>2, <1>3
<1>5. PICK to \in {"push", "insert", "done"} : Snap!Goes(x, to)
  BY <1>3
<1>6. /\ task' \in [Refs -> SnapTask]
      /\ task'[x].pc = to
      /\ \A y \in Refs \ {x} : task'[y] = task[y]
      /\ \A y \in Refs : task'[y].at = task[y].at
  BY <1>5, SnapGoes
<1>7. Snap!TypeOK'
  BY <1>1, <1>4, <1>6 DEF SnapInv, Snap!TypeOK, SnapTask
<1>8. SnapCalls'
  BY <1>1, <1>2, <1>6 DEF SnapInv, SnapCalls
<1>9. task'[x].pc = "done" \/ x \in image'[task'[x].at]
  <2>1. CASE Snap!Goes(x, "done")
    BY <2>1, SnapGoes
  <2>2. CASE x \in image'[task[x].at]
    BY <1>6, <2>2
  <2> QED
    BY <1>4, <2>1, <2>2
<1>10. SnapImages'
  <2>1. ASSUME NEW y \in Refs \ {x}, task'[y].pc \in {"push", "insert"} \/ row'[y] # None
        PROVE  y \in image'[task'[y].at]
    <3>1. task[y].at \in Gateways /\ y \in image[task[y].at]
      BY <1>1, <1>6, <2>1 DEF SnapInv, SnapCalls, SnapImages
    <3> QED
      BY <1>4, <1>6, <3>1
  <2> QED
    BY <1>1, <1>2, <1>9, <2>1 DEF SnapImages
<1>11. SnapKept'
  BY <1>1 DEF SnapInv, SnapKept
<1> QED
  BY <1>7, <1>8, <1>10, <1>11 DEF SnapInv

\* The other steps of the call: the row refers to an image that is there, and too young for
\* a pass to remove.
LEMMA SnapCall ==
  ASSUME SnapInv, NEW x \in Refs,
         Snap!Push(x) \/ Snap!Insert(x) \/ Snap!Merge(x) \/ Snap!Interrupted(x)
  PROVE  SnapInv'
<1>1. /\ UNCHANGED <<source, image, old, from, prune>> /\ task[x].pc \notin {"idle", "done"}
      /\ \/ Snap!Goes(x, "insert") /\ task[x].pc = "push" /\ row' = row
         \/ Snap!Goes(x, "done") /\ row' = row
         \/ /\ Snap!Goes(x, "merge") /\ task[x].pc = "insert"
            /\ row' = [row EXCEPT ![x] = task[x].of]
  BY DEF Snap!Push, Snap!Insert, Snap!Merge, Snap!Interrupted, Snap!At
<1>2. pushed' \subseteq Refs
  BY DEF Snap!Push, Snap!Insert, Snap!Merge, Snap!Interrupted, SnapInv, Snap!TypeOK
<1>3. PICK to \in {"insert", "merge", "done"} : Snap!Goes(x, to)
  BY <1>1
<1>4. /\ task' \in [Refs -> SnapTask]
      /\ task'[x].pc = to
      /\ \A y \in Refs \ {x} : task'[y] = task[y]
      /\ \A y \in Refs : task'[y].at = task[y].at
  BY <1>3, SnapGoes
<1>5. /\ row' \in [Refs -> Sources \cup {None}]
      /\ \A y \in Refs \ {x} : row'[y] = row[y]
  <2>1. row \in [Refs -> Sources \cup {None}] /\ task[x].of \in Sources \cup {None}
    BY DEF SnapInv, Snap!TypeOK
  <2> QED
    BY <1>1, <2>1
<1>6. /\ row'[x] # None \/ x \in old => task'[x].pc \in {"merge", "done"}
      /\ task'[x].pc \in {"push", "insert"} \/ row'[x] # None => x \in image[task[x].at]
  <2>1. CASE Snap!Goes(x, "insert") /\ task[x].pc = "push" /\ row' = row
    BY <2>1, SnapGoes DEF SnapInv, SnapCalls, SnapImages
  <2>2. CASE Snap!Goes(x, "done") /\ row' = row
    BY <2>2, SnapGoes DEF SnapInv, SnapCalls, SnapImages
  <2>3. CASE Snap!Goes(x, "merge") /\ task[x].pc = "insert"
    BY <2>3, SnapGoes DEF SnapInv, SnapCalls, SnapImages
  <2> QED
    BY <1>1, <2>1, <2>2, <2>3
<1>7. Snap!TypeOK'
  BY <1>1, <1>2, <1>4, <1>5 DEF SnapInv, Snap!TypeOK, SnapTask
<1>8. SnapCalls' /\ SnapImages'
  BY <1>1, <1>4, <1>5, <1>6 DEF SnapInv, SnapCalls, SnapImages
<1>9. SnapKept'
  <2>1. row'[x] # None /\ x \in old => row[x] # None
    BY <1>1 DEF SnapInv, SnapCalls
  <2> QED
    BY <1>1, <1>5, <2>1 DEF SnapInv, SnapKept
<1> QED
  BY <1>7, <1>8, <1>9 DEF SnapInv

\* Rows go, of one snapshot or of all of a sandbox.
LEMMA SnapDelete ==
  ASSUME SnapInv,
         \/ \E x \in Refs : Snap!DeleteSnapshot(x)
         \/ \E s \in Sources : Snap!DeleteSandbox(s)
  PROVE  SnapInv'
<1>1. UNCHANGED <<image, pushed, old, task, from, prune>>
  BY DEF Snap!DeleteSnapshot, Snap!DeleteSandbox
<1>2. source' \in [Sources -> Gateways \cup {None}]
  BY DEF Snap!DeleteSnapshot, Snap!DeleteSandbox, SnapInv, Snap!TypeOK
<1>3. /\ row' \in [Refs -> Sources \cup {None}]
      /\ \A y \in Refs : row'[y] # None => row[y] # None
  BY DEF Snap!DeleteSnapshot, Snap!DeleteSandbox, SnapInv, Snap!TypeOK
<1>4. Snap!TypeOK'
  BY <1>1, <1>2, <1>3 DEF SnapInv, Snap!TypeOK
<1>5. SnapCalls' /\ SnapImages' /\ SnapKept'
  BY <1>1, <1>3 DEF SnapInv, SnapCalls, SnapImages, SnapKept
<1> QED
  BY <1>4, <1>5 DEF SnapInv

\* Creating from a snapshot pulls its image and removes none.
LEMMA SnapRestore ==
  ASSUME SnapInv,
         \/ \E x \in Refs : Snap!Resolve(x)
         \/ \E g \in Gateways : Snap!Run(g)
         \/ Snap!Stop
  PROVE  SnapInv'
<1>1. UNCHANGED <<source, pushed, old, row, task, prune>>
  BY DEF Snap!Resolve, Snap!Run, Snap!Stop
<1>2. from \in [pc : {"idle", "resolved", "running", "failed"}, ref : Refs \cup {None},
                at : Gateways \cup {None}]
  BY DEF SnapInv, Snap!TypeOK
<1>3. from' \in [pc : {"idle", "resolved", "running", "failed"}, ref : Refs \cup {None},
                 at : Gateways \cup {None}]
  <2>1. CASE \E x \in Refs : Snap!Resolve(x)
    BY <1>2, <2>1 DEF Snap!Resolve
  <2>2. CASE \E g \in Gateways : Snap!Run(g)
    <3>1. PICK g \in Gateways : from' \in {[from EXCEPT !.pc = "running", !.at = g],
                                          [from EXCEPT !.pc = "failed"]}
      BY <2>2 DEF Snap!Run
    <3> QED
      BY <1>2, <3>1
  <2>3. CASE Snap!Stop
    BY <2>3 DEF Snap!Stop
  <2> QED
    BY <2>1, <2>2, <2>3
<1>4. /\ image' \in [Gateways -> SUBSET Refs]
      /\ \A g \in Gateways : image[g] \subseteq image'[g]
  <2>1. image \in [Gateways -> SUBSET Refs] /\ pushed \subseteq Refs
    BY DEF SnapInv, Snap!TypeOK
  <2>2. \/ image' = image
        \/ \E g \in Gateways : /\ from.ref \in image[g] \cup pushed
                               /\ image' = [image EXCEPT ![g] = @ \cup {from.ref}]
    BY DEF Snap!Resolve, Snap!Run, Snap!Stop
  <2> QED
    BY <2>1, <2>2
<1>5. Snap!TypeOK'
  BY <1>1, <1>3, <1>4 DEF SnapInv, Snap!TypeOK
<1>6. SnapCalls' /\ SnapKept'
  BY <1>1 DEF SnapInv, SnapCalls, SnapKept
<1>7. SnapImages'
  <2>1. ASSUME NEW y \in Refs, task[y].pc \in {"push", "insert"} \/ row[y] # None
        PROVE  task[y].at \in Gateways /\ y \in image[task[y].at]
    BY <2>1 DEF SnapInv, SnapCalls, SnapImages
  <2> QED
    BY <1>1, <1>4, <2>1 DEF SnapImages
<1> QED
  BY <1>5, <1>6, <1>7 DEF SnapInv

\* What a pass removes is old, and was without a row when the rows were read.
LEMMA SnapPrune ==
  ASSUME SnapInv,
         \/ \E x \in Refs : Snap!GrowOld(x) \/ \E g \in Gateways : Snap!RemoveImage(x, g)
         \/ \E g \in Gateways : Snap!GatewayDone(g)
         \/ Snap!ListKeep
  PROVE  SnapInv'
<1>1. UNCHANGED <<source, pushed, row, task, from>>
  BY DEF Snap!GrowOld, Snap!RemoveImage, Snap!GatewayDone, Snap!ListKeep
<1>2. CASE \E x \in Refs : Snap!GrowOld(x)
  <2>1. PICK x \in Refs : Snap!GrowOld(x)
    BY <1>2
  <2>2. /\ task[x].pc \in {"merge", "done"} /\ prune.pc = "idle"
        /\ old' = old \cup {x} /\ UNCHANGED <<image, prune>>
    BY <2>1 DEF Snap!GrowOld
  <2>3. Snap!TypeOK'
    BY <1>1, <2>2 DEF SnapInv, Snap!TypeOK
  <2>4. SnapCalls' /\ SnapImages' /\ SnapKept'
    BY <1>1, <2>2 DEF SnapInv, SnapCalls, SnapImages, SnapKept
  <2> QED
    BY <2>3, <2>4 DEF SnapInv
<1>3. CASE \E x \in Refs, g \in Gateways : Snap!RemoveImage(x, g)
  <2>1. PICK x \in Refs, g \in Gateways : Snap!RemoveImage(x, g)
    BY <1>3
  <2>2. /\ prune.pc = "images" /\ x \in old /\ x \notin prune.keep
        /\ image' = [image EXCEPT ![g] = @ \ {x}] /\ UNCHANGED <<old, prune>>
    BY <2>1 DEF Snap!RemoveImage, Snap!Prunable
  <2>3. image \in [Gateways -> SUBSET Refs]
    BY DEF SnapInv, Snap!TypeOK
  <2>4. /\ image' \in [Gateways -> SUBSET Refs]
        /\ \A h \in Gateways, y \in Refs \ {x} : y \in image[h] => y \in image'[h]
    BY <2>2, <2>3
  <2>5. row[x] = None /\ task[x].pc \in {"merge", "done"}
    BY <2>2 DEF SnapInv, SnapKept, SnapCalls
  <2>6. Snap!TypeOK'
    BY <1>1, <2>2, <2>4 DEF SnapInv, Snap!TypeOK
  <2>7. SnapCalls' /\ SnapKept'
    BY <1>1, <2>2 DEF SnapInv, SnapCalls, SnapKept
  <2>8. SnapImages'
    <3>1. ASSUME NEW y \in Refs, task[y].pc \in {"push", "insert"} \/ row[y] # None
          PROVE  y # x /\ task[y].at \in Gateways /\ y \in image[task[y].at]
      BY <2>5, <3>1 DEF SnapInv, SnapCalls, SnapImages
    <3> QED
      BY <1>1, <2>4, <3>1 DEF SnapImages
  <2> QED
    BY <2>6, <2>7, <2>8 DEF SnapInv
<1>4. CASE Snap!ListKeep \/ \E g \in Gateways : Snap!GatewayDone(g)
  <2>1. UNCHANGED <<image, old>>
    BY <1>4 DEF Snap!ListKeep, Snap!GatewayDone
  <2>2. /\ prune' \in [pc : {"idle", "images"}, keep : SUBSET Refs, left : SUBSET Gateways]
        /\ prune'.pc = "images" =>
             \/ prune'.keep = {x \in Refs : row[x] # None}
             \/ prune.pc = "images" /\ prune'.keep = prune.keep
    <3>0. prune \in [pc : {"idle", "images"}, keep : SUBSET Refs, left : SUBSET Gateways]
      BY DEF SnapInv, Snap!TypeOK
    <3>1. CASE Snap!ListKeep
      BY <3>1 DEF Snap!ListKeep
    <3>2. CASE \E g \in Gateways : Snap!GatewayDone(g)
      BY <3>0, <3>2 DEF Snap!GatewayDone
    <3> QED
      BY <1>4, <3>1, <3>2
  <2>3. Snap!TypeOK'
    BY <1>1, <2>1, <2>2 DEF SnapInv, Snap!TypeOK
  <2>4. SnapCalls' /\ SnapImages'
    BY <1>1, <2>1 DEF SnapInv, SnapCalls, SnapImages
  <2>5. SnapKept'
    BY <1>1, <2>1, <2>2 DEF SnapInv, SnapKept
  <2> QED
    BY <2>3, <2>4, <2>5 DEF SnapInv
<1> QED
  BY <1>2, <1>3, <1>4

\* At first there is no image, no row and no call.
LEMMA SnapInit ==
  ASSUME Snap!Init
  PROVE  SnapInv
<1>1. Snap!TypeOK
  BY DEF Snap!Init, Snap!TypeOK
<1>2. SnapCalls /\ SnapImages /\ SnapKept
  BY DEF Snap!Init, SnapCalls, SnapImages, SnapKept
<1> QED
  BY <1>1, <1>2 DEF SnapInv

\* Snapshots, their images and their tasks, always.
LEMMA AlwaysSnapInv == Snap!Spec => []SnapInv
<1>1. Snap!Init => SnapInv
  BY SnapInit
<1>2. SnapInv /\ [Snap!Next]_Snap!vars => SnapInv'
  <2> SUFFICES ASSUME SnapInv, [Snap!Next]_Snap!vars PROVE SnapInv'
    OBVIOUS
  <2>1. CASE \E x \in Refs, s \in Sources : Snap!Begin(x, s)
    BY <2>1, SnapBegin
  <2>2. CASE \E x \in Refs : Snap!Commit(x)
    BY <2>2, SnapCommit
  <2>3. CASE \E x \in Refs : Snap!Push(x) \/ Snap!Insert(x) \/ Snap!Merge(x) \/ Snap!Interrupted(x)
    BY <2>3, SnapCall
  <2>4. CASE \/ \E x \in Refs : Snap!DeleteSnapshot(x)
             \/ \E s \in Sources : Snap!DeleteSandbox(s)
    BY <2>4, SnapDelete
  <2>5. CASE \/ \E x \in Refs : Snap!Resolve(x)
             \/ \E g \in Gateways : Snap!Run(g)
             \/ Snap!Stop
    BY <2>5, SnapRestore
  <2>6. CASE \/ \E x \in Refs : Snap!GrowOld(x) \/ \E g \in Gateways : Snap!RemoveImage(x, g)
             \/ \E g \in Gateways : Snap!GatewayDone(g)
             \/ Snap!ListKeep
    BY <2>6, SnapPrune
  <2>7. CASE UNCHANGED Snap!vars
    BY <2>7 DEF Snap!vars, SnapInv, Snap!TypeOK, SnapCalls, SnapImages, SnapKept
  <2> QED
    BY <2>1, <2>2, <2>3, <2>4, <2>5, <2>6, <2>7 DEF Snap!Next
<1> QED BY <1>1, <1>2, PTL DEF Snap!Spec

\* A snapshot that is listed has its image on the gateway that made it, for any number of
\* snapshots, sandboxes and gateways: rows come and go between what a prune reads and what it
\* removes, but what it removes is older than the calls under way
\* (create_filesystem_snapshot, prune_generated_images).
THEOREM SnapshotsSafe == Snap!Spec => []Snap!SnapshotsRestorable
<1>1. SnapInv => Snap!SnapshotsRestorable
  BY DEF SnapInv, SnapImages, Snap!SnapshotsRestorable
<1> QED BY <1>1, AlwaysSnapInv, PTL

-----------------------------------------------------------------------------
(* The leader's lease                                                      *)

\* An answer that is being used is as old as its call at most, and a call is younger than
\* the answer that it is to replace.
Aged ==
  \A r \in Replicas :
    /\ belief[r].told => belief[r].age <= MaxCall
    /\ call[r].pc # "idle" => call[r].age <= belief[r].age

\* Who leads by the lease holds it, and has held it for no longer than it leads.
LeaseHeld ==
  \A r \in Replicas :
    Lease!Leads(r) /\ belief[r].by = "lease" => lease.holder = r /\ lease.age <= belief[r].age

\* Who may write the lease over has it, or has seen it expire; in that version it is still.
FreshMeans ==
  \A r \in Replicas :
    call[r].pc = "put" /\ call[r].fresh =>
      lease.holder = r \/ (lease.holder # None /\ lease.age >= LeaseTTL)

\* Who leads by the lock of MongoDB owns it; by that of PostgreSQL, it has had a session
\* with the lock.
LockHeld ==
  \A r \in Replicas :
    /\ mongo /\ Lease!Leads(r) /\ belief[r].by = "db" =>
         lock.holder = r /\ lock.age <= belief[r].age
    /\ ~mongo /\ belief[r].value /\ belief[r].by = "db" => conn[r]

LeaseInv == Lease!TypeOK /\ Aged /\ LeaseHeld /\ FreshMeans /\ LockHeld

-----------------------------------------------------------------------------
(* Lemmas                                                                  *)

\* A leader's answer is younger than the lease and than the database lock can get.
LEMMA LeadsIsYoung ==
  ASSUME Lease!LeaseBounds, Lease!TypeOK, Aged, NEW r \in Replicas, Lease!Leads(r)
  PROVE  belief[r].age < LeaseTTL /\ belief[r].age < LockTTL
BY DEF Lease!LeaseBounds, Lease!TypeOK, Aged, Lease!Leads

\* So two do not lead by the same means, but for a PostgreSQL lock that both once had.
LEMMA LeaseInvImplies ==
  ASSUME Lease!LeaseBounds, LeaseInv
  PROVE  Lease!TypeOK /\ Lease!LeadersExclusive
<1>1. ASSUME NEW r \in Replicas, NEW q \in Replicas,
             r # q, Lease!Leads(r), Lease!Leads(q), belief[r].by = belief[q].by
      PROVE  belief[r].by = "db" /\ conn[r] /\ conn[q]
  <2>1. belief[r].by \in {"lease", "db"}
    BY DEF LeaseInv, Lease!TypeOK
  <2>2. belief[r].by # "lease"
    BY <1>1 DEF LeaseInv, LeaseHeld
  <2>3. ~mongo
    BY <1>1, <2>1, <2>2 DEF LeaseInv, LockHeld
  <2> QED
    BY <1>1, <2>1, <2>2, <2>3 DEF LeaseInv, LockHeld, Lease!Leads
<1> QED
  BY <1>1 DEF LeaseInv, Lease!LeadersExclusive

\* At first nobody has an answer.
LEMMA LeaseInitHolds ==
  ASSUME Lease!LeaseBounds, Lease!Init
  PROVE  LeaseInv
<1>1. Lease!TypeOK
  BY DEF Lease!LeaseBounds, Lease!Init, Lease!TypeOK, Lease!Free, Lease!NoCall, Lease!NoBelief
<1>2. \A r \in Replicas : call[r] = Lease!NoCall /\ belief[r] = Lease!NoBelief
  BY DEF Lease!Init
<1>3. \A r \in Replicas : /\ call[r].pc = "idle" /\ ~belief[r].value /\ ~belief[r].told
  <2>1. Lease!NoCall.pc = "idle" /\ Lease!NoBelief.value = FALSE /\ Lease!NoBelief.told = FALSE
    BY DEF Lease!NoCall, Lease!NoBelief
  <2> QED
    BY <1>2, <2>1
<1> QED
  BY <1>1, <1>3 DEF LeaseInv, Aged, LeaseHeld, FreshMeans, LockHeld, Lease!Leads

-----------------------------------------------------------------------------
(* Steps that end without an answer                                        *)

\* A call that starts, goes over to the database or is given up: the lease, the lock and
\* the answers are as they were.
LEMMA CallMoves ==
  ASSUME Lease!LeaseBounds, LeaseInv, NEW r \in Replicas, Lease!Ask(r) \/ Lease!FallBack(r) \/ Lease!LockFails(r)
  PROVE  LeaseInv'
<1>1. /\ UNCHANGED <<mongo, lease, lock, conn, belief>>
      /\ faults' \in 0..MaxFaults
  BY DEF Lease!Ask, Lease!FallBack, Lease!LockFails, Lease!Fault, LeaseInv, Lease!TypeOK, Lease!LeaseBounds
<1>2. \E to \in {"idle", "get", "db"}, f \in BOOLEAN, n \in {0, call[r].age} :
        /\ call' = [call EXCEPT ![r] = [pc |-> to, age |-> n, fresh |-> f]]
        /\ to # "idle" => n <= belief[r].age
  <2>1. CASE Lease!Ask(r)
    <3>1. \E to \in {"get", "db"} : call' = [call EXCEPT ![r] = [pc |-> to, age |-> 0, fresh |-> FALSE]]
      BY <2>1 DEF Lease!Ask, Lease!NoCall
    <3>2. 0 <= belief[r].age
      BY DEF LeaseInv, Lease!TypeOK
    <3> QED
      BY <3>1, <3>2
  <2>2. CASE Lease!FallBack(r)
    <3>1. call[r] = [pc |-> call[r].pc, age |-> call[r].age, fresh |-> call[r].fresh]
          /\ call[r].fresh \in BOOLEAN
      BY DEF LeaseInv, Lease!TypeOK
    <3>2. [call[r] EXCEPT !.pc = "db"] = [pc |-> "db", age |-> call[r].age, fresh |-> call[r].fresh]
      BY <3>1
    <3>3. call' = [call EXCEPT ![r] = [pc |-> "db", age |-> call[r].age, fresh |-> call[r].fresh]]
      BY <2>2, <3>2 DEF Lease!FallBack, Lease!Goto
    <3>4. call[r].age <= belief[r].age
      BY <2>2 DEF Lease!FallBack, LeaseInv, Aged
    <3> QED
      BY <3>1, <3>3, <3>4
  <2>3. CASE Lease!LockFails(r)
    BY <2>3 DEF Lease!LockFails, Lease!NoCall
  <2> QED
    BY <2>1, <2>2, <2>3
<1>3. PICK to \in {"idle", "get", "db"}, f \in BOOLEAN, n \in {0, call[r].age} :
        /\ call' = [call EXCEPT ![r] = [pc |-> to, age |-> n, fresh |-> f]]
        /\ to # "idle" => n <= belief[r].age
  BY <1>2
<1>4. /\ call'[r].pc = to /\ call'[r].age = n
      /\ \A q \in Replicas \ {r} : call'[q] = call[q]
  BY <1>3 DEF LeaseInv, Lease!TypeOK
<1>5. Lease!TypeOK'
  <2>1. n \in 0..MaxCall
    BY DEF LeaseInv, Lease!TypeOK, Lease!LeaseBounds
  <2>2. call' \in [Replicas -> [pc : {"idle", "get", "create", "put", "db"},
                                age : 0..MaxCall, fresh : BOOLEAN]]
    BY <1>3, <2>1 DEF LeaseInv, Lease!TypeOK
  <2> QED
    BY <1>1, <2>2 DEF LeaseInv, Lease!TypeOK
<1>6. Aged' /\ FreshMeans'
  BY <1>1, <1>3, <1>4 DEF LeaseInv, Aged, FreshMeans
<1>7. LeaseHeld' /\ LockHeld'
  BY <1>1 DEF LeaseInv, LeaseHeld, LockHeld, Lease!Leads
<1> QED
  BY <1>5, <1>6, <1>7 DEF LeaseInv

\* A call that ends with an answer, which holds if the lease or the lock is its replica's.
LEMMA AnswerGiven ==
  ASSUME Lease!LeaseBounds, LeaseInv, NEW r \in Replicas, NEW yes \in BOOLEAN,
         NEW how \in {"lease", "db"},
         call[r].pc # "idle", Lease!Answer(r, yes, how)
  PROVE  /\ belief' \in [Replicas -> [value : BOOLEAN, by : {"lease", "db"},
                                      age : 0..LeaseTTL, told : BOOLEAN]]
         /\ belief'[r].value = yes /\ belief'[r].by = how
         /\ belief'[r].age = call[r].age /\ belief'[r].told
         /\ call[r].age <= MaxCall /\ call[r].age \in Nat
         /\ \A q \in Replicas \ {r} : belief'[q] = belief[q]
<1>1. call[r].age \in 0..MaxCall /\ call[r].age \in 0..LeaseTTL
  BY DEF LeaseInv, Lease!TypeOK, Lease!LeaseBounds
<1>2. belief \in [Replicas -> [value : BOOLEAN, by : {"lease", "db"},
                               age : 0..LeaseTTL, told : BOOLEAN]]
  BY DEF LeaseInv, Lease!TypeOK
<1>3. belief' = [belief EXCEPT ![r] = [value |-> yes, by |-> how,
                                       age |-> call[r].age, told |-> TRUE]]
  BY DEF Lease!Answer
<1> QED
  BY <1>1, <1>2, <1>3, Lease!LeaseBounds DEF Lease!LeaseBounds

\* A call that is answered with no: the lease and the lock are as they were.
LEMMA RefusedStep ==
  ASSUME Lease!LeaseBounds, LeaseInv, NEW r \in Replicas, call[r].pc # "idle",
         Lease!Answer(r, FALSE, "lease"), call' = [call EXCEPT ![r] = Lease!NoCall],
         UNCHANGED <<mongo, lease, lock, conn, faults>>
  PROVE  LeaseInv'
<1>1. FALSE \in BOOLEAN /\ "lease" \in {"lease", "db"}
  OBVIOUS
<1>2. /\ belief' \in [Replicas -> [value : BOOLEAN, by : {"lease", "db"},
                                   age : 0..LeaseTTL, told : BOOLEAN]]
      /\ ~belief'[r].value /\ belief'[r].age <= MaxCall
      /\ \A q \in Replicas \ {r} : belief'[q] = belief[q]
  BY <1>1, AnswerGiven
<1>3. /\ call' \in [Replicas -> [pc : {"idle", "get", "create", "put", "db"},
                                 age : 0..MaxCall, fresh : BOOLEAN]]
      /\ call'[r].pc = "idle" /\ \A q \in Replicas \ {r} : call'[q] = call[q]
  BY DEF Lease!NoCall, LeaseInv, Lease!TypeOK, Lease!LeaseBounds
<1>4. Lease!TypeOK'
  BY <1>2, <1>3 DEF LeaseInv, Lease!TypeOK
<1>5. Aged' /\ FreshMeans'
  BY <1>2, <1>3 DEF LeaseInv, Aged, FreshMeans
<1>6. LeaseHeld' /\ LockHeld'
  BY <1>2 DEF LeaseInv, LeaseHeld, LockHeld, Lease!Leads
<1> QED
  BY <1>4, <1>5, <1>6 DEF LeaseInv

\* The lease is read.  It is another's, or it can be taken.
LEMMA GetStep ==
  ASSUME Lease!LeaseBounds, LeaseInv, NEW r \in Replicas, Lease!Get(r)
  PROVE  LeaseInv'
<1>1. UNCHANGED <<mongo, lease, lock, conn, faults>> /\ call[r].pc = "get"
  BY DEF Lease!Get
<1>2. CASE UNCHANGED belief
  <2>1. \/ call' = [call EXCEPT ![r].pc = "create"]
        \/ /\ call' = [call EXCEPT ![r].pc = "put", ![r].fresh = TRUE]
           /\ lease.holder = r \/ (lease.holder # None /\ Lease!Expired(r))
        \/ call' = [call EXCEPT ![r] = Lease!NoCall]
    BY DEF Lease!Get
  <2>2. \A q \in Replicas : q # r => call'[q] = call[q]
    BY <2>1 DEF LeaseInv, Lease!TypeOK
  <2>3. /\ call' \in [Replicas -> [pc : {"idle", "get", "create", "put", "db"},
                                   age : 0..MaxCall, fresh : BOOLEAN]]
        /\ call'[r].pc # "idle" => call'[r].age = call[r].age
    <3>1. Lease!NoCall \in [pc : {"idle", "get", "create", "put", "db"},
                      age : 0..MaxCall, fresh : BOOLEAN] /\ Lease!NoCall.pc = "idle"
      BY DEF Lease!NoCall, Lease!LeaseBounds
    <3> QED
      BY <2>1, <3>1 DEF LeaseInv, Lease!TypeOK
  <2>4. call'[r].pc = "put" => lease.holder = r \/ (lease.holder # None /\ lease.age >= LeaseTTL)
    <3>1. CASE \/ call' = [call EXCEPT ![r].pc = "create"]
               \/ call' = [call EXCEPT ![r] = Lease!NoCall]
      BY <3>1 DEF Lease!NoCall, LeaseInv, Lease!TypeOK
    <3>2. CASE lease.holder = r \/ (lease.holder # None /\ Lease!Expired(r))
      BY <3>2 DEF Lease!Expired, LeaseInv, Lease!TypeOK, Lease!LeaseBounds
    <3> QED
      BY <2>1, <3>1, <3>2
  <2>5. Lease!TypeOK'
    BY <1>1, <1>2, <2>3 DEF LeaseInv, Lease!TypeOK
  <2>6. Aged' /\ FreshMeans'
    BY <1>1, <1>2, <2>2, <2>3, <2>4 DEF LeaseInv, Aged, FreshMeans
  <2>7. LeaseHeld' /\ LockHeld'
    BY <1>1, <1>2 DEF LeaseInv, LeaseHeld, LockHeld, Lease!Leads
  <2> QED
    BY <2>5, <2>6, <2>7 DEF LeaseInv
<1>3. CASE Lease!Answer(r, FALSE, "lease") /\ call' = [call EXCEPT ![r] = Lease!NoCall]
  BY <1>1, <1>3, RefusedStep
<1> QED
  BY <1>2, <1>3 DEF Lease!Get

\* Who writes the lease over has no rival: there was no lease, it was its own, or it was
\* too old for anyone to lead by it.
LEMMA NoRival ==
  ASSUME Lease!LeaseBounds, LeaseInv, NEW r \in Replicas,
         call[r].pc \in {"create", "put"}, Lease!Unmoved(r), NEW q \in Replicas \ {r}
  PROVE  ~(Lease!Leads(q) /\ belief[q].by = "lease")
<1> SUFFICES ASSUME Lease!Leads(q), belief[q].by = "lease"
             PROVE  FALSE
  OBVIOUS
<1>1. lease.holder = q /\ lease.age <= belief[q].age
  BY DEF LeaseInv, LeaseHeld
<1>2. belief[q].age < LeaseTTL
  BY LeadsIsYoung DEF LeaseInv
<1>3. q # None
  BY DEF Lease!LeaseBounds
<1>4. lease.age \in Nat /\ belief[q].age \in Nat /\ LeaseTTL \in Nat
  BY DEF LeaseInv, Lease!TypeOK, Lease!LeaseBounds
<1>5. CASE call[r].pc = "create"
  BY <1>1, <1>3, <1>5 DEF Lease!Unmoved
<1>6. CASE call[r].pc = "put"
  <2>1. call[r].fresh
    BY <1>6 DEF Lease!Unmoved
  <2>2. lease.holder = r \/ lease.age >= LeaseTTL
    BY <1>6, <2>1 DEF LeaseInv, FreshMeans
  <2> QED
    BY <1>1, <1>2, <1>4, <2>2
<1> QED
  BY <1>5, <1>6

\* A lease is written: what others have read of it is worth nothing now.
LEMMA LeaseWritten ==
  ASSUME Lease!LeaseBounds, LeaseInv, NEW r \in Replicas, call[r].pc # "idle",
         NEW c \in [pc : {"idle", "db"}, age : 0..MaxCall, fresh : BOOLEAN],
         c.pc # "idle" => c.age = call[r].age,
         Lease!WriteLease(r, c)
  PROVE  /\ lease' \in [holder : Replicas \cup {None, Nobody}, age : 0..(LeaseTTL + MaxCall)]
         /\ lease'.holder = r /\ lease'.age = call[r].age
         /\ call' \in [Replicas -> [pc : {"idle", "get", "create", "put", "db"},
                                    age : 0..MaxCall, fresh : BOOLEAN]]
         /\ \A q \in Replicas : /\ call'[q].pc # "idle" => call[q].pc # "idle" /\ call'[q].age = call[q].age
                                /\ call'[q].pc = "put" => ~call'[q].fresh
<1>1. lease' = [holder |-> r, age |-> call[r].age]
      /\ call' = [q \in Replicas |-> IF q = r THEN c ELSE [call[q] EXCEPT !.fresh = FALSE]]
  BY DEF Lease!WriteLease
<1>2. call[r].age \in 0..(LeaseTTL + MaxCall)
  BY DEF LeaseInv, Lease!TypeOK, Lease!LeaseBounds
<1>3. ASSUME NEW q \in Replicas
      PROVE  /\ call'[q] \in [pc : {"idle", "get", "create", "put", "db"},
                              age : 0..MaxCall, fresh : BOOLEAN]
             /\ call'[q].pc # "idle" => call[q].pc # "idle" /\ call'[q].age = call[q].age
             /\ call'[q].pc = "put" => ~call'[q].fresh
  <2>1. CASE q = r
    <3>1. call'[q] = c
      BY <1>1, <2>1
    <3> QED
      BY <2>1, <3>1
  <2>2. CASE q # r
    <3>1. call'[q] = [call[q] EXCEPT !.fresh = FALSE]
      BY <1>1, <2>2
    <3>2. call[q] \in [pc : {"idle", "get", "create", "put", "db"},
                       age : 0..MaxCall, fresh : BOOLEAN]
      BY DEF LeaseInv, Lease!TypeOK
    <3> QED
      BY <3>1, <3>2
  <2> QED
    BY <2>1, <2>2
<1> QED
  BY <1>1, <1>2, <1>3

\* The lease is written, or has moved.
LEMMA WriteStep ==
  ASSUME Lease!LeaseBounds, LeaseInv, NEW r \in Replicas, Lease!Write(r)
  PROVE  LeaseInv'
<1>1. UNCHANGED <<mongo, lock, conn, faults>> /\ call[r].pc \in {"create", "put"}
  BY DEF Lease!Write
<1>2. CASE Lease!Unmoved(r)
  <2>1. Lease!WriteLease(r, Lease!NoCall) /\ Lease!Answer(r, TRUE, "lease")
    BY <1>2 DEF Lease!Write
  <2>2. /\ belief' \in [Replicas -> [value : BOOLEAN, by : {"lease", "db"},
                                     age : 0..LeaseTTL, told : BOOLEAN]]
        /\ belief'[r].by = "lease" /\ belief'[r].age = call[r].age /\ call[r].age <= MaxCall
        /\ call[r].age \in Nat
        /\ \A q \in Replicas \ {r} : belief'[q] = belief[q]
    <3>1. TRUE \in BOOLEAN /\ "lease" \in {"lease", "db"}
      OBVIOUS
    <3> QED
      BY <1>1, <2>1, <3>1, AnswerGiven
  <2>3. Lease!NoCall \in [pc : {"idle", "db"}, age : 0..MaxCall, fresh : BOOLEAN] /\ Lease!NoCall.pc = "idle"
    BY DEF Lease!NoCall, Lease!LeaseBounds
  <2>4. /\ lease' \in [holder : Replicas \cup {None, Nobody}, age : 0..(LeaseTTL + MaxCall)]
        /\ lease'.holder = r /\ lease'.age = call[r].age
        /\ call' \in [Replicas -> [pc : {"idle", "get", "create", "put", "db"},
                                   age : 0..MaxCall, fresh : BOOLEAN]]
        /\ \A q \in Replicas : /\ call'[q].pc # "idle" => call[q].pc # "idle" /\ call'[q].age = call[q].age
                               /\ call'[q].pc = "put" => ~call'[q].fresh
    BY <1>1, <2>1, <2>3, LeaseWritten
  <2>5. call'[r].pc = "idle"
    BY <2>1, <2>3 DEF Lease!WriteLease
  <2>6. Lease!TypeOK'
    BY <1>1, <2>2, <2>4 DEF LeaseInv, Lease!TypeOK
  <2>7. Aged'
    BY <2>2, <2>4, <2>5 DEF LeaseInv, Aged
  <2>8. FreshMeans'
    BY <2>4 DEF FreshMeans
  <2>9. LeaseHeld'
    <3>1. ASSUME NEW q \in Replicas \ {r}
          PROVE  ~(Lease!Leads(q)' /\ belief'[q].by = "lease")
      BY <1>1, <1>2, <2>2, NoRival DEF Lease!Leads
    <3> QED
      BY <2>2, <2>4, <3>1 DEF LeaseHeld
  <2>10. LockHeld'
    BY <1>1, <2>2 DEF LeaseInv, LockHeld, Lease!Leads
  <2> QED
    BY <2>6, <2>7, <2>8, <2>9, <2>10 DEF LeaseInv
<1>3. CASE ~Lease!Unmoved(r)
  BY <1>1, <1>3, RefusedStep DEF Lease!Write
<1> QED
  BY <1>2, <1>3

\* The lease is written, the answer lost: nobody leads by the old one but who wrote.
LEMMA WriteUnansweredStep ==
  ASSUME Lease!LeaseBounds, LeaseInv, NEW r \in Replicas, Lease!WriteUnanswered(r)
  PROVE  LeaseInv'
<1> DEFINE c == [call[r] EXCEPT !.pc = "db", !.fresh = FALSE]
<1>1. /\ UNCHANGED <<mongo, lock, conn, belief>> /\ call[r].pc \in {"create", "put"}
      /\ Lease!Unmoved(r) /\ Lease!WriteLease(r, c) /\ faults' \in 0..MaxFaults
  BY DEF Lease!WriteUnanswered, Lease!Fault, LeaseInv, Lease!TypeOK, Lease!LeaseBounds
<1>2. /\ c \in [pc : {"idle", "db"}, age : 0..MaxCall, fresh : BOOLEAN]
      /\ c.age = call[r].age
  <2>1. call[r] \in [pc : {"idle", "get", "create", "put", "db"},
                     age : 0..MaxCall, fresh : BOOLEAN]
    BY DEF LeaseInv, Lease!TypeOK
  <2> QED
    BY <2>1
<1> HIDE DEF c
<1>3. /\ lease' \in [holder : Replicas \cup {None, Nobody}, age : 0..(LeaseTTL + MaxCall)]
      /\ lease'.holder = r /\ lease'.age = call[r].age
      /\ call' \in [Replicas -> [pc : {"idle", "get", "create", "put", "db"},
                                 age : 0..MaxCall, fresh : BOOLEAN]]
      /\ \A q \in Replicas : /\ call'[q].pc # "idle" => call[q].pc # "idle" /\ call'[q].age = call[q].age
                             /\ call'[q].pc = "put" => ~call'[q].fresh
  BY <1>1, <1>2, LeaseWritten
<1>4. Lease!TypeOK'
  BY <1>1, <1>3 DEF LeaseInv, Lease!TypeOK
<1>5. Aged' /\ FreshMeans'
  BY <1>1, <1>3 DEF LeaseInv, Aged, FreshMeans
<1>6. LeaseHeld'
  <2>1. ASSUME NEW q \in Replicas \ {r}
        PROVE  ~(Lease!Leads(q)' /\ belief'[q].by = "lease")
    BY <1>1, NoRival DEF Lease!Leads
  <2>2. lease'.age <= belief'[r].age
    BY <1>1, <1>3 DEF LeaseInv, Aged
  <2> QED
    BY <1>3, <2>1, <2>2 DEF LeaseHeld
<1>7. LockHeld'
  BY <1>1 DEF LeaseInv, LockHeld, Lease!Leads
<1> QED
  BY <1>4, <1>5, <1>6, <1>7 DEF LeaseInv

\* The database is asked and answers.
LEMMA LockStep ==
  ASSUME Lease!LeaseBounds, LeaseInv, NEW r \in Replicas, Lease!LockPostgres(r) \/ Lease!LockMongo(r)
  PROVE  LeaseInv'
<1> DEFINE yes == IF mongo THEN lock.holder \in {None, r} \/ lock.age = LockTTL
                           ELSE conn[r] \/ lock.holder = None
<1>1. /\ UNCHANGED <<mongo, lease, faults>> /\ call[r].pc = "db"
      /\ call' = [call EXCEPT ![r] = Lease!NoCall]
      /\ mongo \in BOOLEAN /\ conn \in [Replicas -> BOOLEAN]
      /\ lock \in [holder : Replicas \cup {None, Nobody}, age : 0..LockTTL]
  BY DEF Lease!LockPostgres, Lease!LockMongo, LeaseInv, Lease!TypeOK
<1>2. yes \in BOOLEAN /\ "db" \in {"lease", "db"}
  BY <1>1
<1>3. /\ Lease!Answer(r, yes, "db")
      /\ mongo => conn' = conn /\ lock' = IF yes THEN [holder |-> r, age |-> 0] ELSE lock
      /\ ~mongo => /\ conn' = [conn EXCEPT ![r] = yes]
                   /\ lock' = IF lock.holder = None /\ ~conn[r] THEN [lock EXCEPT !.holder = r] ELSE lock
  BY DEF Lease!LockPostgres, Lease!LockMongo
<1>a. mongo /\ yes => lock.holder \in {None, r} \/ lock.age = LockTTL
  OBVIOUS
<1> HIDE DEF yes
<1>4. /\ belief' \in [Replicas -> [value : BOOLEAN, by : {"lease", "db"},
                                   age : 0..LeaseTTL, told : BOOLEAN]]
      /\ belief'[r].value = yes /\ belief'[r].by = "db"
      /\ belief'[r].age = call[r].age /\ call[r].age <= MaxCall /\ call[r].age \in Nat
      /\ \A q \in Replicas \ {r} : belief'[q] = belief[q]
  BY <1>1, <1>2, <1>3, AnswerGiven
<1>5. /\ call' \in [Replicas -> [pc : {"idle", "get", "create", "put", "db"},
                                 age : 0..MaxCall, fresh : BOOLEAN]]
      /\ call'[r].pc = "idle" /\ \A q \in Replicas \ {r} : call'[q] = call[q]
  BY <1>1 DEF Lease!NoCall, LeaseInv, Lease!TypeOK, Lease!LeaseBounds
<1>6. /\ lock' \in [holder : Replicas \cup {None, Nobody}, age : 0..LockTTL]
      /\ conn' \in [Replicas -> BOOLEAN]
      /\ \A q \in Replicas \ {r} : conn'[q] = conn[q]
  <2>1. [holder |-> r, age |-> 0] \in [holder : Replicas \cup {None, Nobody}, age : 0..LockTTL]
    BY DEF Lease!LeaseBounds
  <2>2. [lock EXCEPT !.holder = r] \in [holder : Replicas \cup {None, Nobody}, age : 0..LockTTL]
    BY <1>1
  <2>3. CASE mongo
    BY <1>1, <1>3, <2>1, <2>3
  <2>4. CASE ~mongo
    BY <1>1, <1>2, <1>3, <2>2, <2>4
  <2> QED
    BY <2>3, <2>4
<1>7. Lease!TypeOK'
  BY <1>1, <1>4, <1>5, <1>6 DEF LeaseInv, Lease!TypeOK
<1>8. Aged' /\ FreshMeans'
  BY <1>1, <1>4, <1>5 DEF LeaseInv, Aged, FreshMeans
<1>9. LeaseHeld'
  BY <1>1, <1>4 DEF LeaseInv, LeaseHeld, Lease!Leads
<1>10. LockHeld'
  <2>1. CASE mongo
    <3>1. CASE yes
      <4>1. lock' = [holder |-> r, age |-> 0]
        BY <1>3, <2>1, <3>1
      <4>2. ASSUME NEW q \in Replicas \ {r}, Lease!Leads(q), belief[q].by = "db"
            PROVE  FALSE
        <5>1. lock.holder = q /\ lock.age <= belief[q].age
          BY <2>1, <4>2 DEF LeaseInv, LockHeld
        <5>2. belief[q].age < LockTTL
          BY <4>2, LeadsIsYoung DEF LeaseInv
        <5>3. q # None /\ lock.age \in Nat /\ belief[q].age \in Nat /\ LockTTL \in Nat
          BY <1>1 DEF LeaseInv, Lease!TypeOK, Lease!LeaseBounds
        <5>4. lock.age # LockTTL
          BY <5>1, <5>2, <5>3
        <5> QED
          BY <1>a, <2>1, <3>1, <4>2, <5>1, <5>3, <5>4
      <4> QED
        BY <1>1, <1>4, <2>1, <4>1, <4>2 DEF LockHeld, Lease!Leads
    <3>2. CASE ~yes
      <4>1. lock' = lock
        BY <1>3, <2>1, <3>2
      <4> QED
        BY <1>1, <1>4, <2>1, <3>2, <4>1 DEF LeaseInv, LockHeld, Lease!Leads
    <3> QED
      BY <3>1, <3>2
  <2>2. CASE ~mongo
    <3>1. conn'[r] = yes
      BY <1>1, <1>3, <2>2
    <3> QED
      BY <1>1, <1>4, <1>6, <2>2, <3>1 DEF LeaseInv, LockHeld
  <2> QED
    BY <2>1, <2>2
<1> QED
  BY <1>7, <1>8, <1>9, <1>10 DEF LeaseInv

-----------------------------------------------------------------------------
(* Faults, and time                                                        *)

\* A session of PostgreSQL ends, and the replica does not learn of it.
LEMMA SessionLostStep ==
  ASSUME Lease!LeaseBounds, LeaseInv, Lease!SessionLost
  PROVE  LeaseInv'
<1>1. /\ UNCHANGED <<mongo, lease, conn, call, belief>> /\ ~mongo
      /\ lock' = Lease!Free /\ faults' \in 0..MaxFaults
  BY DEF Lease!SessionLost, Lease!Fault, LeaseInv, Lease!TypeOK, Lease!LeaseBounds
<1>2. Lease!Free \in [holder : Replicas \cup {None, Nobody}, age : 0..LockTTL]
  BY DEF Lease!Free, Lease!LeaseBounds
<1>3. Lease!TypeOK'
  BY <1>1, <1>2 DEF LeaseInv, Lease!TypeOK
<1> QED
  BY <1>1, <1>3 DEF LeaseInv, Aged, LeaseHeld, FreshMeans, LockHeld, Lease!Leads

\* A process ends: with it its answer, and perhaps its name.
LEMMA LeaseCrashStep ==
  ASSUME Lease!LeaseBounds, LeaseInv, NEW r \in Replicas, Lease!Crash(r)
  PROVE  LeaseInv'
<1>1. /\ UNCHANGED mongo /\ faults' \in 0..MaxFaults
      /\ belief' = [belief EXCEPT ![r] = Lease!NoBelief] /\ call' = [call EXCEPT ![r] = Lease!NoCall]
      /\ conn' = [conn EXCEPT ![r] = FALSE]
  BY DEF Lease!Crash, Lease!Fault, LeaseInv, Lease!TypeOK, Lease!LeaseBounds
<1>2. /\ lease' = lease \/ (lease.holder = r /\ lease' = [lease EXCEPT !.holder = Nobody])
      /\ \/ lock' = lock
         \/ lock.holder = r /\ lock' \in {Lease!Free, [lock EXCEPT !.holder = Nobody]}
  BY DEF Lease!Crash
<1>3. /\ lease \in [holder : Replicas \cup {None, Nobody}, age : 0..(LeaseTTL + MaxCall)]
      /\ lock \in [holder : Replicas \cup {None, Nobody}, age : 0..LockTTL]
  BY DEF LeaseInv, Lease!TypeOK
<1>4. Lease!Free \in [holder : Replicas \cup {None, Nobody}, age : 0..LockTTL]
  BY DEF Lease!Free, Lease!LeaseBounds
<1>5. /\ lease' \in [holder : Replicas \cup {None, Nobody}, age : 0..(LeaseTTL + MaxCall)]
      /\ lock' \in [holder : Replicas \cup {None, Nobody}, age : 0..LockTTL]
  BY <1>2, <1>3, <1>4
<1>6. /\ lease'.age = lease.age
      /\ lease.holder # r => lease'.holder = lease.holder
      /\ lease.holder # None => lease'.holder # None
      /\ lock.holder # r => lock' = lock
  BY <1>2, <1>3 DEF Lease!LeaseBounds
<1>7. /\ Lease!NoBelief \in [value : BOOLEAN, by : {"lease", "db"}, age : 0..LeaseTTL, told : BOOLEAN]
      /\ Lease!NoBelief.value = FALSE /\ Lease!NoBelief.told = FALSE
      /\ Lease!NoCall \in [pc : {"idle", "get", "create", "put", "db"}, age : 0..MaxCall, fresh : BOOLEAN]
      /\ Lease!NoCall.pc = "idle"
  BY DEF Lease!NoBelief, Lease!NoCall, Lease!LeaseBounds
<1>8. /\ belief' \in [Replicas -> [value : BOOLEAN, by : {"lease", "db"},
                                   age : 0..LeaseTTL, told : BOOLEAN]]
      /\ call' \in [Replicas -> [pc : {"idle", "get", "create", "put", "db"},
                                 age : 0..MaxCall, fresh : BOOLEAN]]
      /\ conn' \in [Replicas -> BOOLEAN]
      /\ belief'[r] = Lease!NoBelief /\ call'[r] = Lease!NoCall
      /\ \A q \in Replicas \ {r} : belief'[q] = belief[q] /\ call'[q] = call[q] /\ conn'[q] = conn[q]
  BY <1>1, <1>7 DEF LeaseInv, Lease!TypeOK
<1>9. Lease!TypeOK'
  BY <1>1, <1>5, <1>8 DEF LeaseInv, Lease!TypeOK
<1>10. Aged' /\ LeaseHeld' /\ FreshMeans' /\ LockHeld'
  <2>1. ASSUME NEW q \in Replicas
        PROVE  /\ belief'[q].told => belief'[q].age <= MaxCall
               /\ call'[q].pc # "idle" => call'[q].age <= belief'[q].age
               /\ Lease!Leads(q)' /\ belief'[q].by = "lease" => lease'.holder = q /\ lease'.age <= belief'[q].age
               /\ call'[q].pc = "put" /\ call'[q].fresh =>
                    lease'.holder = q \/ (lease'.holder # None /\ lease'.age >= LeaseTTL)
               /\ mongo' /\ Lease!Leads(q)' /\ belief'[q].by = "db" =>
                    lock'.holder = q /\ lock'.age <= belief'[q].age
               /\ ~mongo' /\ belief'[q].value /\ belief'[q].by = "db" => conn'[q]
    <3>1. CASE q = r
      BY <1>7, <1>8, <3>1 DEF Lease!Leads
    <3>2. CASE q # r
      <4>1. belief'[q] = belief[q] /\ call'[q] = call[q] /\ conn'[q] = conn[q] /\ mongo' = mongo
        BY <1>1, <1>8, <3>2
      <4>2. /\ belief'[q].told => belief'[q].age <= MaxCall
            /\ call'[q].pc # "idle" => call'[q].age <= belief'[q].age
        BY <4>1 DEF LeaseInv, Aged
      <4>3. Lease!Leads(q)' /\ belief'[q].by = "lease" => lease'.holder = q /\ lease'.age <= belief'[q].age
        BY <1>6, <3>2, <4>1 DEF LeaseInv, LeaseHeld, Lease!Leads
      <4>4. call'[q].pc = "put" /\ call'[q].fresh =>
              lease'.holder = q \/ (lease'.holder # None /\ lease'.age >= LeaseTTL)
        BY <1>6, <3>2, <4>1 DEF LeaseInv, FreshMeans
      <4>5. /\ mongo' /\ Lease!Leads(q)' /\ belief'[q].by = "db" =>
                 lock'.holder = q /\ lock'.age <= belief'[q].age
            /\ ~mongo' /\ belief'[q].value /\ belief'[q].by = "db" => conn'[q]
        BY <1>6, <3>2, <4>1 DEF LeaseInv, LockHeld, Lease!Leads
      <4> QED
        BY <4>2, <4>3, <4>4, <4>5
    <3> QED
      BY <3>1, <3>2
  <2> QED
    BY <2>1 DEF Aged, LeaseHeld, FreshMeans, LockHeld
<1> QED
  BY <1>9, <1>10 DEF LeaseInv

\* Time passes: the lease and the lock grow no faster than the answer of who leads by
\* them, and who was leading no longer does unless it still does.
LEMMA TickStep ==
  ASSUME Lease!LeaseBounds, LeaseInv, Lease!Tick
  PROVE  LeaseInv'
<1>0. /\ lease \in [holder : Replicas \cup {None, Nobody}, age : 0..(LeaseTTL + MaxCall)]
      /\ lock \in [holder : Replicas \cup {None, Nobody}, age : 0..LockTTL]
      /\ LeaseTTL \in Nat /\ LockTTL \in Nat /\ MaxCall \in Nat /\ LeaseRefresh \in Nat
      /\ MaxCall < LeaseTTL /\ LeaseRefresh <= LeaseTTL
  BY DEF LeaseInv, Lease!TypeOK, Lease!LeaseBounds
<1>1. UNCHANGED <<mongo, conn, faults>>
  BY DEF Lease!Tick
<1>2. /\ lease' \in [holder : Replicas \cup {None, Nobody}, age : 0..(LeaseTTL + MaxCall)]
      /\ lease'.holder = lease.holder
      /\ lease'.age \in {lease.age, lease.age + 1} /\ lease.age <= lease'.age
  <2>1. CASE lease' = lease
    BY <1>0, <2>1
  <2>2. CASE lease' = [lease EXCEPT !.age = Lease!Older(@, LeaseTTL + MaxCall)]
    <3>1. Lease!Older(lease.age, LeaseTTL + MaxCall) \in {lease.age, lease.age + 1}
          /\ Lease!Older(lease.age, LeaseTTL + MaxCall) \in 0..(LeaseTTL + MaxCall)
      BY <1>0 DEF Lease!Older
    <3> QED
      BY <1>0, <2>2, <3>1
  <2> QED
    BY <2>1, <2>2 DEF Lease!Tick
<1>3. /\ lock' \in [holder : Replicas \cup {None, Nobody}, age : 0..LockTTL]
      /\ lock'.holder = lock.holder
      /\ lock'.age \in {lock.age, lock.age + 1}
  <2>1. CASE lock' = lock
    BY <1>0, <2>1
  <2>2. CASE lock' = [lock EXCEPT !.age = Lease!Older(@, LockTTL)]
    <3>1. Lease!Older(lock.age, LockTTL) \in {lock.age, lock.age + 1}
          /\ Lease!Older(lock.age, LockTTL) \in 0..LockTTL
      BY <1>0 DEF Lease!Older
    <3> QED
      BY <1>0, <2>2, <3>1
  <2> QED
    BY <2>1, <2>2 DEF Lease!Tick
<1>4. ASSUME NEW r \in Replicas
      PROVE  /\ belief'[r] \in [value : BOOLEAN, by : {"lease", "db"},
                                age : 0..LeaseTTL, told : BOOLEAN]
             /\ belief'[r].value = belief[r].value /\ belief'[r].by = belief[r].by
             /\ belief'[r].told = FALSE
             /\ belief'[r].age = (IF belief[r].age < LeaseTTL THEN belief[r].age + 1 ELSE belief[r].age)
  <2>1. belief[r] \in [value : BOOLEAN, by : {"lease", "db"}, age : 0..LeaseTTL, told : BOOLEAN]
    BY DEF LeaseInv, Lease!TypeOK
  <2>2. belief'[r] = [belief[r] EXCEPT !.age = Lease!Older(@, LeaseTTL), !.told = FALSE]
    BY DEF Lease!Tick
  <2>3. Lease!Older(belief[r].age, LeaseTTL) \in 0..LeaseTTL
    BY <1>0, <2>1 DEF Lease!Older
  <2> QED
    BY <2>1, <2>2, <2>3 DEF Lease!Older
<1>5. ASSUME NEW r \in Replicas
      PROVE  /\ call'[r] \in [pc : {"idle", "get", "create", "put", "db"},
                              age : 0..MaxCall, fresh : BOOLEAN]
             /\ call'[r].pc = call[r].pc /\ call'[r].fresh = call[r].fresh
             /\ call[r].pc # "idle" => call'[r].age = call[r].age + 1
  <2>1. call[r] \in [pc : {"idle", "get", "create", "put", "db"}, age : 0..MaxCall, fresh : BOOLEAN]
    BY DEF LeaseInv, Lease!TypeOK
  <2>2. CASE call[r].pc = "idle"
    <3>1. call'[r] = call[r]
      BY <2>2 DEF Lease!Tick
    <3> QED
      BY <2>1, <2>2, <3>1
  <2>3. CASE call[r].pc # "idle"
    <3>1. call'[r] = [call[r] EXCEPT !.age = @ + 1] /\ call[r].age < MaxCall
      BY <2>3 DEF Lease!Tick
    <3>2. call[r].age + 1 \in 0..MaxCall
      BY <1>0, <2>1, <3>1
    <3> QED
      BY <2>1, <2>3, <3>1, <3>2
  <2> QED
    BY <2>2, <2>3
<1>6. Lease!TypeOK'
  <2>1. /\ belief' \in [Replicas -> [value : BOOLEAN, by : {"lease", "db"},
                                     age : 0..LeaseTTL, told : BOOLEAN]]
        /\ call' \in [Replicas -> [pc : {"idle", "get", "create", "put", "db"},
                                   age : 0..MaxCall, fresh : BOOLEAN]]
    BY <1>4, <1>5 DEF Lease!Tick
  <2> QED
    BY <1>1, <1>2, <1>3, <2>1 DEF LeaseInv, Lease!TypeOK
<1>7. ASSUME NEW r \in Replicas
      PROVE  belief[r].age \in 0..LeaseTTL /\ call[r].age \in 0..MaxCall
  BY DEF LeaseInv, Lease!TypeOK
<1>8. Aged'
  <2>1. ASSUME NEW r \in Replicas, call'[r].pc # "idle"
        PROVE  call'[r].age <= belief'[r].age
    <3>1. call[r].age <= belief[r].age /\ call'[r].age = call[r].age + 1 /\ call'[r].age \in 0..MaxCall
      BY <1>5, <2>1 DEF LeaseInv, Aged
    <3>2. /\ belief[r].age \in 0..LeaseTTL /\ call[r].age \in 0..MaxCall
          /\ belief'[r].age = (IF belief[r].age < LeaseTTL THEN belief[r].age + 1 ELSE belief[r].age)
      BY <1>4, <1>7
    <3> QED
      BY <1>0, <3>1, <3>2
  <2> QED
    BY <1>4, <2>1 DEF Aged
<1>9. ASSUME NEW r \in Replicas, Lease!Leads(r)'
      PROVE  Lease!Leads(r) /\ belief'[r].age = belief[r].age + 1
  <2>1. belief'[r].value /\ belief'[r].age < LeaseRefresh
    BY <1>4, <1>9 DEF Lease!Leads
  <2>2. /\ belief[r].age \in 0..LeaseTTL /\ belief'[r].value = belief[r].value
        /\ belief'[r].age = (IF belief[r].age < LeaseTTL THEN belief[r].age + 1 ELSE belief[r].age)
    BY <1>4, <1>7
  <2>3. belief'[r].age = belief[r].age + 1 /\ belief[r].age < LeaseRefresh
    BY <1>0, <2>1, <2>2
  <2> QED
    BY <2>1, <2>2, <2>3 DEF Lease!Leads
<1>10. LeaseHeld'
  <2>1. ASSUME NEW r \in Replicas, Lease!Leads(r)', belief'[r].by = "lease"
        PROVE  lease'.holder = r /\ lease'.age <= belief'[r].age
    <3>1. lease.holder = r /\ lease.age <= belief[r].age
      BY <1>4, <1>9, <2>1 DEF LeaseInv, LeaseHeld
    <3> QED
      BY <1>0, <1>2, <1>7, <1>9, <2>1, <3>1
  <2> QED
    BY <2>1 DEF LeaseHeld
<1>11. FreshMeans'
  <2>1. ASSUME NEW r \in Replicas, call'[r].pc = "put", call'[r].fresh
        PROVE  lease'.holder = r \/ (lease'.holder # None /\ lease'.age >= LeaseTTL)
    <3>1. lease.holder = r \/ (lease.holder # None /\ lease.age >= LeaseTTL)
      BY <1>5, <2>1 DEF LeaseInv, FreshMeans
    <3> QED
      BY <1>0, <1>2, <3>1
  <2> QED
    BY <2>1 DEF FreshMeans
<1>12. LockHeld'
  <2>1. ASSUME NEW r \in Replicas, mongo', Lease!Leads(r)', belief'[r].by = "db"
        PROVE  lock'.holder = r /\ lock'.age <= belief'[r].age
    <3>1. lock.holder = r /\ lock.age <= belief[r].age
      BY <1>1, <1>4, <1>9, <2>1 DEF LeaseInv, LockHeld
    <3> QED
      BY <1>0, <1>3, <1>7, <1>9, <2>1, <3>1
  <2>2. ASSUME NEW r \in Replicas, ~mongo', belief'[r].value, belief'[r].by = "db"
        PROVE  conn'[r]
    BY <1>1, <1>4, <2>2 DEF LeaseInv, LockHeld
  <2> QED
    BY <2>1, <2>2 DEF LockHeld
<1> QED
  BY <1>6, <1>8, <1>10, <1>11, <1>12 DEF LeaseInv

-----------------------------------------------------------------------------
(* The theorems                                                            *)

\* Every step keeps the invariant.
LEMMA LeaseInvStep ==
  ASSUME Lease!LeaseBounds, LeaseInv, [Lease!Next]_(Lease!vars)
  PROVE  LeaseInv'
<1>1. CASE \E r \in Replicas : \/ Lease!Call(r) \/ Lease!FallBack(r) \/ Lease!WriteUnanswered(r)
                               \/ Lease!LockFails(r) \/ Lease!Crash(r)
  BY <1>1, CallMoves, GetStep, WriteStep, WriteUnansweredStep, LockStep, LeaseCrashStep DEF Lease!Call
<1>2. CASE Lease!SessionLost \/ Lease!Tick
  BY <1>2, SessionLostStep, TickStep
<1>3. CASE UNCHANGED Lease!vars
  BY <1>3 DEF Lease!vars, LeaseInv, Lease!TypeOK, Aged, LeaseHeld, FreshMeans, LockHeld, Lease!Leads
<1> QED
  BY <1>1, <1>2, <1>3 DEF Lease!Next

\* So it holds in every reachable state.
LEMMA AlwaysLeaseInv ==
  ASSUME Lease!LeaseBounds
  PROVE  Lease!Spec => []LeaseInv
<1>1. Lease!Init => LeaseInv
  BY LeaseInitHolds
<1>2. LeaseInv /\ [Lease!Next]_(Lease!vars) => LeaseInv'
  BY LeaseInvStep
<1> QED
  BY <1>1, <1>2, PTL DEF Lease!Spec

\* With the bounds that the settings keep, every variable keeps its type; in particular no
\* call and no answer is older than its bound.
THEOREM LeaseTypeInvariance ==
  ASSUME Lease!LeaseBounds
  PROVE  Lease!Spec => []Lease!TypeOK
<1>1. LeaseInv => Lease!TypeOK
  BY DEF LeaseInv
<1> QED
  BY <1>1, AlwaysLeaseInv, PTL

\* With those bounds, two replicas lead by the same means only when both had the lock of
\* PostgreSQL, whose session the first of them lost: never by the lease, whatever calls are
\* slow, answers lost or processes restarted under their old name, and never by the lock
\* of MongoDB.
THEOREM OneLeader ==
  ASSUME Lease!LeaseBounds
  PROVE  Lease!Spec => []Lease!LeadersExclusive
<1>1. LeaseInv => Lease!LeadersExclusive
  BY LeaseInvImplies
<1> QED
  BY <1>1, AlwaysLeaseInv, PTL

-----------------------------------------------------------------------------
(* The pool's segments                                                     *)

ThreadRecord ==
  [pc : {"idle", "boot", "image", "seed", "persist", "resize", "lock", "look", "renote",
         "stop", "note", "install", "start", "disable", "delete"},
   on : PoolReplicas \cup {None}, size : Pool!Sizes, image : PoolImages \cup {None},
   next : {"idle", "boot", "persist", "lock", "disable"}]
PoolRecord == [on : BOOLEAN, size : Pool!Sizes, image : PoolImages \cup {None}]

\* Where a thread has the lock of the key.
Inside == {"look", "renote", "stop", "note", "install", "start"}

\* A thread that does something does it on a replica, the sync thread on its own.
Placed(t, x) == (t \in PoolReplicas => x.on = t) /\ (x.pc # "idle" => x.on \in PoolReplicas)

\* What the thread that has the lock knows of the pool (p: is it on?) and of its loops (n).
Phase(to, p, n) ==
  /\ to = "stop" => ~p
  /\ to \in {"note", "install"} => ~p /\ n = 0
  /\ to = "start" => p /\ n = 0

PoolTypes ==
  /\ desired \in Pool!Sizes /\ image \in PoolImages \cup {None}
  /\ pool \in [PoolReplicas -> PoolRecord] /\ loops \in [PoolReplicas -> 0..1]
  /\ holder \in [PoolReplicas -> Pool!Threads \cup {None}] /\ th \in [Pool!Threads -> ThreadRecord]
  /\ requests \in 0..MaxRequests /\ crashes \in 0..MaxCrashes
Places == \A t \in Pool!Threads : Placed(t, th[t])
Holders == \A t \in Pool!Threads : th[t].pc \in Inside => holder[th[t].on] = t
Phases ==
  \A t \in Pool!Threads :
    th[t].pc \in Inside => Phase(th[t].pc, pool[th[t].on].on, loops[th[t].on])
\* A loop without a pool is about to be stopped.
Stopping ==
  \A r \in PoolReplicas : loops[r] = 1 /\ ~pool[r].on =>
    \E t \in Pool!Threads : th[t].pc = "stop" /\ th[t].on = r

SegmentInv == PoolTypes /\ Places /\ Holders /\ Phases /\ Stopping

\* It says more than the types and that there is one loop.
LEMMA PoolInvImplies ==
  ASSUME Pool!SegmentBounds, SegmentInv
  PROVE  Pool!TypeOK /\ Pool!OneLoop
<1>1. Pool!TypeOK
  <2>1. loops \in [PoolReplicas -> Nat]
    BY DEF SegmentInv, PoolTypes
  <2> QED
    BY <2>1 DEF SegmentInv, PoolTypes, Pool!TypeOK, ThreadRecord, PoolRecord
<1>2. ASSUME NEW r \in PoolReplicas
      PROVE  loops[r] <= 1 /\ (loops[r] = 1 => pool[r].on \/ holder[r] # None)
  <2>1. loops[r] \in 0..1
    BY DEF SegmentInv, PoolTypes
  <2>2. ASSUME loops[r] = 1, ~pool[r].on
        PROVE  holder[r] # None
    <3>1. PICK t \in Pool!Threads : th[t].pc = "stop" /\ th[t].on = r
      BY <2>2 DEF SegmentInv, Stopping
    <3>2. holder[r] = t
      BY <3>1 DEF SegmentInv, Holders, Inside
    <3> QED
      BY <3>2 DEF Pool!Threads, Pool!SegmentBounds
  <2> QED
    BY <2>1, <2>2
<1> QED
  BY <1>1, <1>2 DEF Pool!OneLoop

-----------------------------------------------------------------------------
(* Steps                                                                   *)

\* A thread without the lock goes somewhere else without it: pools stay on or off, and
\* loops and locks as they are.
LEMMA OutsideMove ==
  ASSUME SegmentInv, NEW t \in Pool!Threads, NEW x \in ThreadRecord, Placed(t, x),
         x.pc \notin Inside, th[t].pc \notin Inside, th' = [th EXCEPT ![t] = x],
         UNCHANGED <<loops, holder>>,
         pool' \in [PoolReplicas -> PoolRecord], \A r \in PoolReplicas : pool'[r].on = pool[r].on,
         desired' \in Pool!Sizes, image' \in PoolImages \cup {None},
         requests' \in 0..MaxRequests, crashes' \in 0..MaxCrashes
  PROVE  SegmentInv'
<1>1. /\ th' \in [Pool!Threads -> ThreadRecord] /\ th'[t] = x
      /\ \A u \in Pool!Threads \ {t} : th'[u] = th[u]
  BY DEF SegmentInv, PoolTypes
<1>2. PoolTypes'
  BY <1>1 DEF SegmentInv, PoolTypes
<1>3. Places'
  BY <1>1 DEF SegmentInv, Places
<1>4. Holders'
  BY <1>1 DEF SegmentInv, Holders
<1>5. Phases'
  <2>1. ASSUME NEW u \in Pool!Threads, th'[u].pc \in Inside
        PROVE  Phase(th'[u].pc, pool'[th'[u].on].on, loops'[th'[u].on])
    <3>1. u # t /\ th'[u] = th[u]
      BY <1>1, <2>1
    <3>2. th[u].on \in PoolReplicas
      BY <2>1, <3>1 DEF SegmentInv, Places, Placed, Inside
    <3> QED
      BY <2>1, <3>1, <3>2 DEF SegmentInv, Phases
  <2> QED
    BY <2>1 DEF Phases
<1>6. Stopping'
  <2>1. ASSUME NEW r \in PoolReplicas, loops'[r] = 1, ~pool'[r].on
        PROVE  \E u \in Pool!Threads : th'[u].pc = "stop" /\ th'[u].on = r
    <3>1. PICK u \in Pool!Threads : th[u].pc = "stop" /\ th[u].on = r
      BY <2>1 DEF SegmentInv, Stopping
    <3>2. u # t
      BY <3>1 DEF Inside
    <3> QED
      BY <1>1, <3>1, <3>2
  <2> QED
    BY <2>1 DEF Stopping
<1> QED
  BY <1>2, <1>3, <1>4, <1>5, <1>6 DEF SegmentInv

\* A thread that has the lock, or takes it, works on the pool of its replica alone.
LEMMA InsideMove ==
  ASSUME Pool!SegmentBounds, SegmentInv, NEW t \in Pool!Threads, NEW r \in PoolReplicas, th[t].on = r,
         NEW x \in ThreadRecord, Placed(t, x), th' = [th EXCEPT ![t] = x],
         th[t].pc \in Inside \/ holder[r] = None,
         NEW b \in PoolRecord, NEW n \in 0..1, NEW h \in Pool!Threads \cup {None},
         pool' = [pool EXCEPT ![r] = b], loops' = [loops EXCEPT ![r] = n],
         holder' = [holder EXCEPT ![r] = h],
         x.pc \in Inside => x.on = r /\ h = t /\ Phase(x.pc, b.on, n),
         n = 1 /\ ~b.on => x.pc = "stop",
         desired' \in Pool!Sizes, UNCHANGED <<image, requests, crashes>>
  PROVE  SegmentInv'
<1>1. /\ th' \in [Pool!Threads -> ThreadRecord] /\ th'[t] = x
      /\ \A u \in Pool!Threads \ {t} : th'[u] = th[u]
  BY DEF SegmentInv, PoolTypes
<1>2. /\ pool' \in [PoolReplicas -> PoolRecord] /\ loops' \in [PoolReplicas -> 0..1]
      /\ holder' \in [PoolReplicas -> Pool!Threads \cup {None}]
      /\ pool'[r] = b /\ loops'[r] = n /\ holder'[r] = h
      /\ \A q \in PoolReplicas \ {r} : pool'[q] = pool[q] /\ loops'[q] = loops[q] /\ holder'[q] = holder[q]
  BY DEF SegmentInv, PoolTypes
<1>3. ASSUME NEW u \in Pool!Threads \ {t}, th[u].pc \in Inside
      PROVE  th[u].on \in PoolReplicas \ {r}
  <2>1. th[u].on \in PoolReplicas /\ holder[th[u].on] = u
    BY <1>3 DEF SegmentInv, Places, Placed, Holders, Inside
  <2>2. u # None
    BY DEF Pool!Threads, Pool!SegmentBounds
  <2>3. holder[r] # u
    BY <2>2 DEF SegmentInv, Holders
  <2> QED
    BY <2>1, <2>3
<1>4. PoolTypes'
  BY <1>1, <1>2 DEF SegmentInv, PoolTypes
<1>5. Places'
  BY <1>1 DEF SegmentInv, Places
<1>6. Holders'
  BY <1>1, <1>2, <1>3 DEF SegmentInv, Holders
<1>7. Phases'
  <2>1. ASSUME NEW u \in Pool!Threads, th'[u].pc \in Inside
        PROVE  Phase(th'[u].pc, pool'[th'[u].on].on, loops'[th'[u].on])
    <3>1. CASE u = t
      BY <1>1, <1>2, <2>1, <3>1
    <3>2. CASE u # t
      <4>1. th'[u] = th[u] /\ th[u].on \in PoolReplicas \ {r}
        BY <1>1, <1>3, <2>1, <3>2
      <4> QED
        BY <1>2, <2>1, <4>1 DEF SegmentInv, Phases
    <3> QED
      BY <3>1, <3>2
  <2> QED
    BY <2>1 DEF Phases
<1>8. Stopping'
  <2>1. ASSUME NEW q \in PoolReplicas, loops'[q] = 1, ~pool'[q].on
        PROVE  \E u \in Pool!Threads : th'[u].pc = "stop" /\ th'[u].on = q
    <3>1. CASE q = r
      <4>1. x.pc = "stop" /\ x.on = r
        BY <1>2, <2>1, <3>1 DEF Inside
      <4> QED
        BY <1>1, <3>1, <4>1
    <3>2. CASE q # r
      <4>1. PICK u \in Pool!Threads : th[u].pc = "stop" /\ th[u].on = q
        BY <1>2, <2>1, <3>2 DEF SegmentInv, Stopping
      <4>2. u # t
        BY <3>2, <4>1
      <4> QED
        BY <1>1, <4>1, <4>2
    <3> QED
      BY <3>1, <3>2
  <2> QED
    BY <2>1 DEF Stopping
<1> QED
  BY <1>4, <1>5, <1>6, <1>7, <1>8 DEF SegmentInv

\* Going on elsewhere, or ending, keeps a thread where it belongs.
LEMMA GotoOK ==
  ASSUME SegmentInv, NEW t \in Pool!Threads, th[t].pc # "idle",
         NEW to \in {"idle", "boot", "image", "seed", "persist", "resize", "lock", "look",
                     "renote", "stop", "note", "install", "start", "disable", "delete"}
  PROVE  /\ [th[t] EXCEPT !.pc = to] \in ThreadRecord
         /\ Placed(t, [th[t] EXCEPT !.pc = to])
         /\ [th[t] EXCEPT !.pc = to].pc = to /\ [th[t] EXCEPT !.pc = to].on = th[t].on
         /\ th[t].on \in PoolReplicas /\ th[t] \in ThreadRecord
<1>1. th[t] \in ThreadRecord /\ Placed(t, th[t])
  BY DEF SegmentInv, PoolTypes, Places
<1> DEFINE x == [th[t] EXCEPT !.pc = to]
<1>2. x \in ThreadRecord /\ x.pc = to /\ x.on = th[t].on
  BY <1>1 DEF ThreadRecord
<1> HIDE DEF x
<1>3. Placed(t, x) /\ th[t].on \in PoolReplicas
  BY <1>1, <1>2 DEF Placed
<1> QED
  BY <1>1, <1>2, <1>3 DEF x

\* A thread that has done its work, and may start on another.
DoneThread(t) == [Pool!IdleThread EXCEPT !.on = IF t \in PoolReplicas THEN t ELSE None]

\* It is where it belongs.
LEMMA DoneOK ==
  ASSUME Pool!SegmentBounds, NEW t \in Pool!Threads
  PROVE  DoneThread(t) \in ThreadRecord /\ Placed(t, DoneThread(t)) /\ DoneThread(t).pc = "idle"
<1>1. 0 \in Pool!Sizes
  BY DEF Pool!SegmentBounds, Pool!Sizes
<1>2. DoneThread(t) = [pc |-> "idle", on |-> IF t \in PoolReplicas THEN t ELSE None, size |-> 0,
                       image |-> None, next |-> "idle"]
  BY DEF DoneThread, Pool!IdleThread
<1>3. DoneThread(t) \in ThreadRecord
  BY <1>1, <1>2 DEF ThreadRecord
<1> QED
  BY <1>2, <1>3 DEF Placed

\* The sync thread, on its way to the lock.
LEMMA SyncStep ==
  ASSUME Pool!SegmentBounds, SegmentInv, NEW r \in PoolReplicas, Pool!Sync(r)
  PROVE  SegmentInv'
<1>0. /\ r \in Pool!Threads /\ th[r] \in ThreadRecord /\ Placed(r, th[r]) /\ ConfigSize \in Pool!Sizes
      /\ desired \in Pool!Sizes /\ image \in PoolImages \cup {None}
  BY DEF SegmentInv, PoolTypes, Places, Pool!Threads, Pool!Sizes, Pool!SegmentBounds
<1>1. /\ UNCHANGED <<desired, image, pool, loops, holder, requests, crashes>>
      /\ th[r].pc \in {"idle", "image", "boot"}
  BY DEF Pool!Sync, Pool!Boot, Pool!SyncList, Pool!SyncImage
<1>2. \E x \in ThreadRecord : Placed(r, x) /\ x.pc \notin Inside /\ th' = [th EXCEPT ![r] = x]
  <2>1. CASE Pool!SyncList(r)
    <3> DEFINE x == [th[r] EXCEPT !.pc = "image", !.size = desired]
    <3>1. x \in ThreadRecord /\ x.pc = "image" /\ x.on = th[r].on
      BY <1>0 DEF ThreadRecord
    <3>2. th' = [th EXCEPT ![r] = x]
      BY <2>1 DEF Pool!SyncList
    <3> HIDE DEF x
    <3> QED
      BY <1>0, <3>1, <3>2 DEF Placed, Inside
  <2>2. CASE Pool!SyncImage(r)
    <3> DEFINE x == [th[r] EXCEPT !.pc = "lock", !.image = image]
    <3>1. x \in ThreadRecord /\ x.pc = "lock" /\ x.on = th[r].on
      BY <1>0 DEF ThreadRecord
    <3>2. th' = [th EXCEPT ![r] = x]
      BY <2>2 DEF Pool!SyncImage
    <3> HIDE DEF x
    <3> QED
      BY <1>0, <3>1, <3>2 DEF Placed, Inside
  <2>3. CASE Pool!Boot(r)
    <3>1. CASE Pool!Done(r)
      BY <1>0, <3>1, DoneOK DEF Pool!Done, DoneThread, Inside
    <3> DEFINE x == [pc |-> "lock", on |-> r, size |-> ConfigSize, image |-> image, next |-> "boot"]
    <3>2. x \in ThreadRecord /\ Placed(r, x) /\ x.pc \notin Inside
      BY <1>0 DEF ThreadRecord, Placed, Inside
    <3>3. Pool!Done(r) \/ th' = [th EXCEPT ![r] = x]
      BY <2>3 DEF Pool!Boot
    <3> HIDE DEF x
    <3> QED
      BY <3>1, <3>2, <3>3
  <2> QED
    BY <2>1, <2>2, <2>3 DEF Pool!Sync
<1>3. /\ pool' \in [PoolReplicas -> PoolRecord] /\ (\A q \in PoolReplicas : pool'[q].on = pool[q].on)
      /\ desired' \in Pool!Sizes /\ image' \in PoolImages \cup {None}
      /\ requests' \in 0..MaxRequests /\ crashes' \in 0..MaxCrashes
  BY <1>1 DEF SegmentInv, PoolTypes
<1> QED
  BY <1>0, <1>1, <1>2, <1>3, OutsideMove DEF Inside

\* A request comes in.
LEMMA RequestStep ==
  ASSUME Pool!SegmentBounds, SegmentInv, NEW t \in ApiRequests, NEW r \in PoolReplicas,
         \/ \E n \in Pool!Sizes : Pool!Resize(t, r, n) \/ Pool!CreateFirst(t, r, n)
         \/ Pool!CreateDefault(t, r) \/ Pool!DeleteTemplate(t, r)
         \/ \E i \in PoolImages : Pool!Build(t, r, i)
  PROVE  SegmentInv'
<1>0. /\ desired \in Pool!Sizes /\ image \in PoolImages \cup {None} /\ ConfigSize \in Pool!Sizes /\ 0 \in Pool!Sizes
      /\ t \in Pool!Threads /\ t \notin PoolReplicas
  BY DEF SegmentInv, PoolTypes, Pool!Threads, Pool!Sizes, Pool!SegmentBounds
<1>1. /\ desired' = desired /\ image' \in PoolImages \cup {None}
      /\ \E to \in {"idle", "persist", "seed", "lock", "delete"}, n \in Pool!Sizes,
            i \in PoolImages \cup {None}, next \in {"idle", "boot", "persist", "lock", "disable"} :
           Pool!Request(t, r, to, n, i, next)
  <2>1. CASE \E n \in Pool!Sizes : Pool!Resize(t, r, n)
    BY <1>0, <2>1 DEF Pool!Resize
  <2>2. CASE \E n \in Pool!Sizes : Pool!CreateFirst(t, r, n)
    BY <1>0, <2>2 DEF Pool!CreateFirst
  <2>3. CASE Pool!CreateDefault(t, r)
    BY <1>0, <2>3 DEF Pool!CreateDefault
  <2>4. CASE Pool!DeleteTemplate(t, r)
    <3>1. None \in PoolImages \cup {None}
      OBVIOUS
    <3> QED
      BY <1>0, <2>4, <3>1 DEF Pool!DeleteTemplate
  <2>5. CASE \E i \in PoolImages : Pool!Build(t, r, i)
    <3>1. PICK i \in PoolImages : Pool!Build(t, r, i)
      BY <2>5
    <3>2. (IF desired > 0 THEN desired ELSE ConfigSize) \in Pool!Sizes
      BY <1>0
    <3> QED
      BY <3>1, <3>2 DEF Pool!Build
  <2> QED
    BY <2>1, <2>2, <2>3, <2>4, <2>5
<1>2. PICK to \in {"idle", "persist", "seed", "lock", "delete"}, n \in Pool!Sizes,
           i \in PoolImages \cup {None}, next \in {"idle", "boot", "persist", "lock", "disable"} :
        Pool!Request(t, r, to, n, i, next)
  BY <1>1
<1> DEFINE x == [pc |-> to, on |-> r, size |-> n, image |-> i, next |-> next]
<1>3. x \in ThreadRecord /\ Placed(t, x) /\ x.pc \notin Inside
  BY <1>0 DEF ThreadRecord, Placed, Inside
<1>4. /\ th' = [th EXCEPT ![t] = x] /\ th[t].pc = "idle" /\ requests' \in 0..MaxRequests
      /\ UNCHANGED <<pool, loops, holder, crashes>>
  BY <1>2 DEF Pool!Request, SegmentInv, PoolTypes, Pool!SegmentBounds
<1> HIDE DEF x
<1>5. /\ pool' \in [PoolReplicas -> PoolRecord] /\ (\A q \in PoolReplicas : pool'[q].on = pool[q].on)
      /\ desired' \in Pool!Sizes /\ crashes' \in 0..MaxCrashes
  BY <1>0, <1>1, <1>4 DEF SegmentInv, PoolTypes
<1> QED
  BY <1>0, <1>1, <1>3, <1>4, <1>5, OutsideMove DEF Inside

\* The statements of a request outside the lock.
LEMMA StatementStep ==
  ASSUME Pool!SegmentBounds, SegmentInv, NEW t \in Pool!Threads,
         Pool!Seed(t) \/ Pool!Persist(t) \/ Pool!ResizeOwn(t) \/ Pool!Disable(t) \/ Pool!DeleteRow(t)
  PROVE  SegmentInv'
<1>0. /\ th[t] \in ThreadRecord /\ Placed(t, th[t])
      /\ desired \in Pool!Sizes /\ image \in PoolImages \cup {None} /\ 0 \in Pool!Sizes
      /\ pool \in [PoolReplicas -> PoolRecord]
  BY DEF SegmentInv, PoolTypes, Places, Pool!Sizes, Pool!SegmentBounds
<1>1. /\ UNCHANGED <<loops, holder, requests, crashes>>
      /\ th[t].pc \in {"seed", "persist", "resize", "disable", "delete"}
      /\ desired' \in {desired, th[t].size, 0} /\ image' \in {image, None}
  BY DEF Pool!Seed, Pool!Persist, Pool!ResizeOwn, Pool!Disable, Pool!DeleteRow, Pool!Upsert
<1>2. \/ Pool!Done(t)
      \/ \E to \in {"idle", "boot", "persist", "resize", "lock", "disable", "delete"} : Pool!Goto(t, to)
  BY <1>0 DEF Pool!Seed, Pool!Persist, Pool!ResizeOwn, Pool!Disable, Pool!DeleteRow, ThreadRecord
<1>3. \E x \in ThreadRecord : Placed(t, x) /\ x.pc \notin Inside /\ th' = [th EXCEPT ![t] = x]
  <2>1. CASE Pool!Done(t)
    BY <2>1, DoneOK DEF Pool!Done, DoneThread, Inside
  <2>2. ASSUME NEW to \in {"idle", "boot", "persist", "resize", "lock", "disable", "delete"}, Pool!Goto(t, to)
        PROVE  \E x \in ThreadRecord : Placed(t, x) /\ x.pc \notin Inside /\ th' = [th EXCEPT ![t] = x]
    <3> DEFINE x == [th[t] EXCEPT !.pc = to]
    <3>0. /\ th[t].pc # "idle"
          /\ to \in {"idle", "boot", "image", "seed", "persist", "resize", "lock", "look",
                     "renote", "stop", "note", "install", "start", "disable", "delete"}
      BY <1>1
    <3>1. x \in ThreadRecord /\ Placed(t, x) /\ x.pc = to
      <4>1. [th[t] EXCEPT !.pc = to] \in ThreadRecord /\ Placed(t, [th[t] EXCEPT !.pc = to])
            /\ [th[t] EXCEPT !.pc = to].pc = to
        BY <3>0, GotoOK, ZenonT(60)
      <4> QED BY <4>1
    <3>2. th' = [th EXCEPT ![t] = x]
      BY <2>2 DEF Pool!Goto
    <3> HIDE DEF x
    <3> QED
      BY <3>1, <3>2 DEF Inside
  <2> QED
    BY <1>2, <2>1, <2>2
<1>4. pool' \in [PoolReplicas -> PoolRecord] /\ \A q \in PoolReplicas : pool'[q].on = pool[q].on
  <2>1. \/ pool' = pool
        \/ pool' = [pool EXCEPT ![th[t].on].size = th[t].size] /\ th[t].pc = "resize"
    BY DEF Pool!Seed, Pool!Persist, Pool!ResizeOwn, Pool!Disable, Pool!DeleteRow
  <2>2. CASE pool' = [pool EXCEPT ![th[t].on].size = th[t].size] /\ th[t].pc = "resize"
    <3>1. th[t].on \in PoolReplicas /\ th[t].size \in Pool!Sizes
      BY <1>0, <2>2 DEF Placed, ThreadRecord
    <3> QED
      BY <1>0, <2>2, <3>1 DEF PoolRecord
  <2> QED
    BY <1>0, <2>1, <2>2
<1>5. /\ desired' \in Pool!Sizes /\ image' \in PoolImages \cup {None}
      /\ requests' \in 0..MaxRequests /\ crashes' \in 0..MaxCrashes
  BY <1>0, <1>1 DEF ThreadRecord, SegmentInv, PoolTypes
<1> QED
  BY <1>1, <1>3, <1>4, <1>5, OutsideMove DEF Inside

-----------------------------------------------------------------------------
(* Inside the lock                                                         *)

\* So for a thread that goes on inside the lock.
LEMMA GotoInside ==
  ASSUME SegmentInv, NEW t \in Pool!Threads, th[t].pc # "idle", NEW to \in Inside
  PROVE  /\ [th[t] EXCEPT !.pc = to] \in ThreadRecord
         /\ Placed(t, [th[t] EXCEPT !.pc = to])
         /\ [th[t] EXCEPT !.pc = to].pc = to /\ [th[t] EXCEPT !.pc = to].on = th[t].on
<1>1. th[t] \in ThreadRecord /\ Placed(t, th[t])
  BY DEF SegmentInv, PoolTypes, Places
<1> DEFINE x == [th[t] EXCEPT !.pc = to]
<1>2. x \in ThreadRecord /\ x.pc = to /\ x.on = th[t].on
  BY <1>1 DEF ThreadRecord, Inside
<1> HIDE DEF x
<1>3. Placed(t, x)
  BY <1>1, <1>2 DEF Placed
<1> QED
  BY <1>2, <1>3 DEF x

\* A thread that goes on with the lock: it knows what it did to the pool and the loops.
LEMMA GoesOn ==
  ASSUME Pool!SegmentBounds, SegmentInv, NEW t \in Pool!Threads, NEW r \in PoolReplicas, th[t].on = r,
         th[t].pc # "idle", th[t].pc \in Inside \/ holder[r] = None,
         NEW to \in Inside, Pool!Goto(t, to), holder' = [holder EXCEPT ![r] = t],
         NEW b \in PoolRecord, NEW n \in 0..1,
         pool' = [pool EXCEPT ![r] = b], loops' = [loops EXCEPT ![r] = n],
         Phase(to, b.on, n), n = 1 /\ ~b.on => to = "stop",
         desired' \in Pool!Sizes, UNCHANGED <<image, requests, crashes>>
  PROVE  SegmentInv'
<1> DEFINE x == [th[t] EXCEPT !.pc = to]
<1>1. x \in ThreadRecord /\ Placed(t, x) /\ x.pc = to /\ x.on = th[t].on
  BY GotoInside
<1>2. x \in ThreadRecord /\ Placed(t, x) /\ x.pc = to /\ x.on = r
  BY <1>1
<1>3. th' = [th EXCEPT ![t] = x]
  BY DEF Pool!Goto
<1> HIDE DEF x
<1>4. t \in Pool!Threads \cup {None}
  OBVIOUS
<1> QED
  BY <1>2, <1>3, <1>4, InsideMove

\* A thread that releases the lock and returns.
LEMMA Returns ==
  ASSUME Pool!SegmentBounds, SegmentInv, NEW t \in Pool!Threads, NEW r \in PoolReplicas, th[t].on = r,
         th[t].pc \in Inside, Pool!Return(t),
         NEW b \in PoolRecord, NEW n \in 0..1,
         pool' = [pool EXCEPT ![r] = b], loops' = [loops EXCEPT ![r] = n],
         ~(n = 1 /\ ~b.on),
         desired' \in Pool!Sizes, UNCHANGED <<image, requests, crashes>>
  PROVE  SegmentInv'
<1>1. \E x \in ThreadRecord : Placed(t, x) /\ x.pc \notin Inside /\ th' = [th EXCEPT ![t] = x]
  <2>1. CASE Pool!Done(t)
    BY <2>1, DoneOK DEF Pool!Done, DoneThread, Inside
  <2>2. CASE Pool!Goto(t, "disable")
    <3> DEFINE x == [th[t] EXCEPT !.pc = "disable"]
    <3>1. x \in ThreadRecord /\ Placed(t, x) /\ x.pc = "disable"
      BY GotoOK DEF Inside
    <3>2. th' = [th EXCEPT ![t] = x]
      BY <2>2 DEF Pool!Goto
    <3> HIDE DEF x
    <3> QED
      BY <3>1, <3>2 DEF Inside
  <2> QED
    BY <2>1, <2>2 DEF Pool!Return
<1>2. holder' = [holder EXCEPT ![r] = None]
  BY DEF Pool!Return
<1>3. None \in Pool!Threads \cup {None}
  OBVIOUS
<1> QED
  BY <1>1, <1>2, <1>3, InsideMove

\* ensure_pool_for, section by section.
LEMMA EnsureStep ==
  ASSUME Pool!SegmentBounds, SegmentInv, NEW t \in Pool!Threads, Pool!Ensure(t)
  PROVE  SegmentInv'
<1> DEFINE r == th[t].on
           b == pool[r]
           n == loops[r]
<1>0. /\ th[t].pc \in {"lock"} \cup Inside
      /\ UNCHANGED <<image, requests, crashes>>
  BY DEF Pool!Ensure, Pool!Lock, Pool!Look, Pool!Renote, Pool!StopOld, Pool!Note, Pool!Install, Pool!StartLoop, Inside
<1>1. /\ r \in PoolReplicas /\ th[t] \in ThreadRecord /\ th[t].pc # "idle"
      /\ th[t].size \in Pool!Sizes /\ th[t].image \in PoolImages \cup {None}
  <2>1. th[t].pc # "idle" /\ th[t] \in ThreadRecord /\ Placed(t, th[t])
    BY <1>0 DEF Inside, SegmentInv, PoolTypes, Places
  <2> QED
    BY <2>1 DEF Placed, ThreadRecord
<1>2. /\ b \in PoolRecord /\ n \in 0..1 /\ desired \in Pool!Sizes /\ 0 \in Pool!Sizes
      /\ pool = [pool EXCEPT ![r] = b] /\ loops = [loops EXCEPT ![r] = n]
      /\ Pool!NoPool \in PoolRecord /\ ~Pool!NoPool.on
  <2>1. 0 \in Pool!Sizes
    BY DEF Pool!SegmentBounds, Pool!Sizes
  <2>2. Pool!NoPool \in PoolRecord /\ ~Pool!NoPool.on
    BY <2>1 DEF Pool!NoPool, PoolRecord
  <2> QED
    BY <1>1, <2>1, <2>2 DEF SegmentInv, PoolTypes
<1>3. th[t].pc \in Inside => /\ holder = [holder EXCEPT ![r] = t]
                             /\ Phase(th[t].pc, b.on, n)
  BY <1>1 DEF SegmentInv, PoolTypes, Holders, Phases
\* A loop without a pool is only where the thread in the lock is about to stop it.
<1>4. n = 1 /\ ~b.on => holder[r] # None /\ (th[t].pc \in Inside => th[t].pc = "stop")
  <2>1. SUFFICES ASSUME n = 1, ~b.on
                 PROVE  holder[r] # None /\ (th[t].pc \in Inside => th[t].pc = "stop")
    OBVIOUS
  <2>2. PICK u \in Pool!Threads : th[u].pc = "stop" /\ th[u].on = r
    BY <1>1, <2>1 DEF SegmentInv, Stopping
  <2>3. holder[r] = u /\ u # None
    BY <2>2 DEF SegmentInv, Holders, Inside, Pool!Threads, Pool!SegmentBounds
  <2>4. th[t].pc \in Inside => t = u
    BY <2>3 DEF SegmentInv, Holders
  <2> QED
    BY <2>2, <2>3, <2>4
<1>5. CASE Pool!Lock(t)
  <2>1. /\ holder[r] = None /\ holder' = [holder EXCEPT ![r] = t] /\ Pool!Goto(t, "look")
        /\ pool' = pool /\ loops' = loops /\ desired' = desired
    BY <1>5 DEF Pool!Lock
  <2>2. "look" \in Inside /\ Phase("look", b.on, n) /\ ~(n = 1 /\ ~b.on)
    BY <1>4, <2>1 DEF Inside, Phase
  <2>3. pool' = [pool EXCEPT ![r] = b] /\ loops' = [loops EXCEPT ![r] = n]
    BY <1>2, <2>1
  <2> HIDE DEF r, b, n
  <2> QED
    BY <1>0, <1>1, <1>2, <2>1, <2>2, <2>3, GoesOn, ZenonT(60) DEF r
<1>6. CASE Pool!Look(t)
  <2>1. th[t].pc = "look" /\ UNCHANGED <<desired, loops, holder>>
        /\ th[t].pc \in Inside
    BY <1>6 DEF Pool!Look, Inside
  <2>2. ~(n = 1 /\ ~b.on)
    BY <1>4, <2>1
  <2>3. holder' = [holder EXCEPT ![r] = t] /\ loops' = [loops EXCEPT ![r] = n]
    BY <1>2, <1>3, <2>1
  <2>4. \/ Pool!Goto(t, "renote") /\ UNCHANGED pool
        \/ Pool!Goto(t, "stop") /\ pool' = [pool EXCEPT ![r] = Pool!NoPool]
        \/ Pool!Goto(t, "note") /\ UNCHANGED pool /\ ~b.on
    BY <1>6 DEF Pool!Look
  <2>5. CASE Pool!Goto(t, "renote") /\ UNCHANGED pool
    <3>1. "renote" \in Inside /\ Phase("renote", b.on, n) /\ pool' = [pool EXCEPT ![r] = b]
      BY <1>2, <2>5 DEF Inside, Phase
    <3> HIDE DEF r, b, n
    <3> QED
      BY <1>0, <1>1, <1>2, <2>1, <2>2, <2>3, <2>5, <3>1, GoesOn, ZenonT(60) DEF r
  <2>6. CASE Pool!Goto(t, "stop") /\ pool' = [pool EXCEPT ![r] = Pool!NoPool]
    <3>1. "stop" \in Inside /\ Phase("stop", Pool!NoPool.on, n)
      BY <1>2 DEF Inside, Phase
    <3> HIDE DEF r, b, n
    <3> QED
      BY <1>0, <1>1, <1>2, <2>1, <2>2, <2>3, <2>6, <3>1, GoesOn DEF r
  <2>7. CASE Pool!Goto(t, "note") /\ UNCHANGED pool /\ ~b.on
    <3>1. "note" \in Inside /\ Phase("note", b.on, n) /\ pool' = [pool EXCEPT ![r] = b]
      BY <1>2, <2>2, <2>7 DEF Inside, Phase
    <3> HIDE DEF r, b, n
    <3> QED
      BY <1>0, <1>1, <1>2, <2>1, <2>2, <2>3, <2>7, <3>1, GoesOn DEF r
  <2> QED
    BY <2>4, <2>5, <2>6, <2>7
<1>7. CASE Pool!Renote(t)
  <2>1. /\ th[t].pc = "renote" /\ th[t].pc \in Inside /\ Pool!Return(t) /\ loops' = loops
        /\ desired' = th[t].size /\ pool' = [pool EXCEPT ![r].size = th[t].size]
    BY <1>7 DEF Pool!Renote, Inside, Pool!Upsert
  <2>2. ~(n = 1 /\ ~b.on)
    BY <1>4, <2>1
  <2> DEFINE c == [b EXCEPT !.size = th[t].size]
  <2>3. c \in PoolRecord /\ c.on = b.on /\ pool' = [pool EXCEPT ![r] = c]
    BY <1>1, <1>2, <2>1 DEF PoolRecord
  <2>4. loops' = [loops EXCEPT ![r] = n] /\ desired' \in Pool!Sizes
    BY <1>1, <1>2, <2>1
  <2> HIDE DEF r, b, n, c
  <2> QED
    BY <1>0, <1>1, <1>2, <2>1, <2>2, <2>3, <2>4, Returns, ZenonT(60) DEF r
<1>8. CASE Pool!StopOld(t)
  <2>1. /\ th[t].pc = "stop" /\ th[t].pc \in Inside /\ Pool!Goto(t, "note") /\ UNCHANGED <<desired, pool, holder>>
        /\ loops' = [loops EXCEPT ![r] = IF @ > 0 THEN @ - 1 ELSE 0]
    BY <1>8 DEF Pool!StopOld, Inside
  <2>2. loops' = [loops EXCEPT ![r] = 0] /\ 0 \in 0..1
    <3> DEFINE k == IF loops[r] > 0 THEN loops[r] - 1 ELSE 0
    <3>1. k = 0
      BY <1>2
    <3>2. loops' = [loops EXCEPT ![r] = k]
      BY <2>1, Zenon
    <3> HIDE DEF k
    <3> QED
      BY <3>1, <3>2
  <2>3. holder' = [holder EXCEPT ![r] = t] /\ pool' = [pool EXCEPT ![r] = b] /\ ~b.on
        /\ desired' \in Pool!Sizes /\ ~(0 = 1 /\ ~b.on)
    BY <1>2, <1>3, <2>1 DEF Phase
  <2>4. "note" \in Inside /\ Phase("note", b.on, 0)
    BY <2>3 DEF Inside, Phase
  <2> HIDE DEF r, b, n
  <2> QED
    BY <1>0, <1>1, <1>2, <2>1, <2>2, <2>3, <2>4, GoesOn DEF r
<1>9. CASE Pool!Note(t)
  <2>1. /\ th[t].pc = "note" /\ th[t].pc \in Inside /\ UNCHANGED <<pool, loops>>
        /\ desired' = th[t].size
        /\ Pool!Return(t) \/ (Pool!Goto(t, "install") /\ UNCHANGED holder)
    BY <1>9 DEF Pool!Note, Inside, Pool!Upsert
  <2>2. ~b.on /\ n = 0
    BY <1>3, <2>1 DEF Phase
  <2>3. /\ loops' = [loops EXCEPT ![r] = n] /\ desired' \in Pool!Sizes /\ pool' = [pool EXCEPT ![r] = b]
        /\ ~(n = 1 /\ ~b.on)
    BY <1>1, <1>2, <2>1, <2>2
  <2>4. CASE Pool!Return(t)
    <3> HIDE DEF r, b, n
    <3> QED
      BY <1>0, <1>1, <1>2, <2>1, <2>3, <2>4, Returns DEF r
  <2>5. CASE Pool!Goto(t, "install") /\ UNCHANGED holder
    <3>1. "install" \in Inside /\ Phase("install", b.on, n) /\ holder' = [holder EXCEPT ![r] = t]
      BY <1>3, <2>1, <2>2, <2>5 DEF Inside, Phase
    <3> HIDE DEF r, b, n
    <3> QED
      BY <1>0, <1>1, <1>2, <2>1, <2>3, <2>5, <3>1, GoesOn DEF r
  <2> QED
    BY <2>1, <2>4, <2>5
<1>10. CASE Pool!Install(t)
  <2>1. /\ th[t].pc = "install" /\ th[t].pc \in Inside /\ UNCHANGED <<desired, loops, holder>>
        /\ Pool!Goto(t, "start")
        /\ pool' = [pool EXCEPT ![r] = [on |-> TRUE, size |-> th[t].size, image |-> th[t].image]]
    BY <1>10 DEF Pool!Install, Inside
  <2>2. [on |-> TRUE, size |-> th[t].size, image |-> th[t].image] \in PoolRecord
    BY <1>1 DEF PoolRecord
  <2>3. PICK c \in PoolRecord : c.on = TRUE /\ pool' = [pool EXCEPT ![r] = c]
    BY <2>1, <2>2
  <2>4. n = 0
    BY <1>3, <2>1 DEF Phase
  <2>5. /\ loops' = [loops EXCEPT ![r] = n] /\ holder' = [holder EXCEPT ![r] = t]
        /\ "start" \in Inside /\ Phase("start", c.on, n) /\ desired' \in Pool!Sizes
        /\ ~(n = 1 /\ ~c.on)
    BY <1>2, <1>3, <2>1, <2>3, <2>4 DEF Inside, Phase
  <2> HIDE DEF r, b, n
  <2> QED
    BY <1>0, <1>1, <1>2, <2>1, <2>3, <2>5, GoesOn, ZenonT(60) DEF r
<1>11. CASE Pool!StartLoop(t)
  <2>1. /\ th[t].pc = "start" /\ th[t].pc \in Inside /\ UNCHANGED <<desired, pool>> /\ Pool!Return(t)
        /\ loops' = loops \/ loops' = [loops EXCEPT ![r] = @ + 1]
    BY <1>11 DEF Pool!StartLoop, Inside
  <2>2. b.on /\ n = 0
    BY <1>3, <2>1 DEF Phase
  <2>3. \E m \in 0..1 : loops' = [loops EXCEPT ![r] = m]
    BY <1>2, <2>1, <2>2
  <2>4. pool' = [pool EXCEPT ![r] = b] /\ desired' \in Pool!Sizes
    BY <1>2, <2>1
  <2> HIDE DEF r, b, n
  <2> QED
    BY <1>0, <1>1, <1>2, <2>1, <2>2, <2>3, <2>4, Returns DEF r
<1> QED
  BY <1>5, <1>6, <1>7, <1>8, <1>9, <1>10, <1>11 DEF Pool!Ensure

-----------------------------------------------------------------------------
(* Crashes, and the theorems                                               *)

\* A replica ends: with it its pool, its loops, its locks and the threads on it.
LEMMA PoolCrashStep ==
  ASSUME Pool!SegmentBounds, SegmentInv, NEW r \in PoolReplicas, Pool!Crash(r)
  PROVE  SegmentInv'
<1>0. /\ 0 \in Pool!Sizes /\ r \in Pool!Threads /\ None \notin Pool!Threads
      /\ th \in [Pool!Threads -> ThreadRecord]
  BY DEF Pool!SegmentBounds, Pool!Sizes, Pool!Threads, SegmentInv, PoolTypes
<1>1. /\ pool' = [pool EXCEPT ![r] = Pool!NoPool] /\ loops' = [loops EXCEPT ![r] = 0]
      /\ holder' = [holder EXCEPT ![r] = None] /\ UNCHANGED <<desired, image, requests>>
      /\ crashes' \in 0..MaxCrashes
  BY DEF Pool!Crash, SegmentInv, PoolTypes, Pool!SegmentBounds
<1>2. Pool!IdleThread \in ThreadRecord /\ Pool!IdleThread.pc = "idle"
  BY <1>0 DEF Pool!IdleThread, ThreadRecord
<1>3. /\ [Pool!IdleThread EXCEPT !.pc = "boot", !.on = r] \in ThreadRecord
      /\ [Pool!IdleThread EXCEPT !.pc = "boot", !.on = r].pc = "boot"
      /\ [Pool!IdleThread EXCEPT !.pc = "boot", !.on = r].on = r
  BY <1>0 DEF Pool!IdleThread, ThreadRecord
<1>4. ASSUME NEW t \in Pool!Threads
      PROVE  /\ th'[t] \in ThreadRecord /\ Placed(t, th'[t])
             /\ th'[t].pc \in Inside => th'[t] = th[t] /\ th[t].on # r /\ th[t].on \in PoolReplicas
             /\ th[t].on # r => th'[t] = th[t]
  <2>1. Placed(t, th[t]) /\ Placed(r, th[r])
    BY <1>0 DEF SegmentInv, Places
  <2>2. CASE t = r
    <3>1. th'[t] = [Pool!IdleThread EXCEPT !.pc = "boot", !.on = r]
      BY <2>2 DEF Pool!Crash
    <3>2. th[t].on = r
      BY <2>1, <2>2 DEF Placed
    <3> QED
      BY <1>3, <2>2, <3>1, <3>2 DEF Placed, Inside
  <2>3. CASE t # r /\ th[t].on = r
    <3>1. th'[t] = Pool!IdleThread
      BY <2>3 DEF Pool!Crash
    <3>2. t \notin PoolReplicas
      BY <2>1, <2>3 DEF Placed
    <3> QED
      BY <1>2, <2>3, <3>1, <3>2 DEF Placed, Inside
  <2>4. CASE t # r /\ th[t].on # r
    <3>1. th'[t] = th[t]
      BY <2>4 DEF Pool!Crash
    <3> QED
      BY <1>0, <2>1, <2>4, <3>1 DEF Placed, Inside
  <2> QED
    BY <2>2, <2>3, <2>4
<1>5. /\ Pool!NoPool \in PoolRecord /\ Pool!NoPool.on = FALSE
  BY <1>0 DEF Pool!NoPool, PoolRecord
<1>6. /\ pool' \in [PoolReplicas -> PoolRecord] /\ loops' \in [PoolReplicas -> 0..1]
      /\ holder' \in [PoolReplicas -> Pool!Threads \cup {None}]
      /\ loops'[r] = 0
      /\ \A q \in PoolReplicas \ {r} : pool'[q] = pool[q] /\ loops'[q] = loops[q] /\ holder'[q] = holder[q]
  BY <1>1, <1>5 DEF SegmentInv, PoolTypes
<1>7. PoolTypes'
  <2>1. th' \in [Pool!Threads -> ThreadRecord]
    BY <1>4 DEF Pool!Crash
  <2> QED
    BY <1>1, <1>6, <2>1 DEF SegmentInv, PoolTypes
<1>8. Places'
  BY <1>4 DEF Places
<1>9. Holders'
  BY <1>4, <1>6 DEF SegmentInv, Holders
<1>10. Phases'
  BY <1>4, <1>6 DEF SegmentInv, Phases
<1>11. Stopping'
  <2>1. ASSUME NEW q \in PoolReplicas, loops'[q] = 1, ~pool'[q].on
        PROVE  \E t \in Pool!Threads : th'[t].pc = "stop" /\ th'[t].on = q
    <3>1. q # r
      BY <1>6, <2>1
    <3>2. PICK t \in Pool!Threads : th[t].pc = "stop" /\ th[t].on = q
      BY <1>6, <2>1, <3>1 DEF SegmentInv, Stopping
    <3> QED
      BY <1>4, <3>1, <3>2
  <2> QED
    BY <2>1 DEF Stopping
<1> QED
  BY <1>7, <1>8, <1>9, <1>10, <1>11 DEF SegmentInv

\* At first there is no pool, and only the sync threads are under way.
LEMMA PoolInitHolds ==
  ASSUME Pool!SegmentBounds, Pool!Init
  PROVE  SegmentInv
<1>0. 0 \in Pool!Sizes /\ Pool!NoPool \in PoolRecord /\ 0 \in 0..MaxRequests /\ 0 \in 0..MaxCrashes
  BY DEF Pool!SegmentBounds, Pool!Sizes, Pool!NoPool, PoolRecord
<1>1. ASSUME NEW t \in Pool!Threads
      PROVE  th[t] \in ThreadRecord /\ Placed(t, th[t]) /\ th[t].pc \in {"idle", "boot"}
  <2>1. CASE t \in PoolReplicas
    <3>1. th[t] = [pc |-> "boot", on |-> t, size |-> 0, image |-> None, next |-> "idle"]
      BY <2>1 DEF Pool!Init, Pool!IdleThread
    <3> QED
      BY <1>0, <2>1, <3>1 DEF ThreadRecord, Placed
  <2>2. CASE t \notin PoolReplicas
    <3>1. th[t] = [pc |-> "idle", on |-> None, size |-> 0, image |-> None, next |-> "idle"]
      BY <2>2 DEF Pool!Init, Pool!IdleThread
    <3> QED
      BY <1>0, <2>2, <3>1 DEF ThreadRecord, Placed
  <2> QED
    BY <2>1, <2>2
<1>2. th \in [Pool!Threads -> ThreadRecord]
  BY <1>1 DEF Pool!Init
<1>3. PoolTypes
  <2>1. pool \in [PoolReplicas -> PoolRecord]
    BY <1>0 DEF Pool!Init
  <2>2. loops \in [PoolReplicas -> 0..1]
    <3>1. 0 \in 0..1
      OBVIOUS
    <3> QED
      BY <3>1 DEF Pool!Init
  <2>3. holder \in [PoolReplicas -> Pool!Threads \cup {None}]
    BY DEF Pool!Init
  <2>4. desired \in Pool!Sizes /\ image \in PoolImages \cup {None}
    BY <1>0 DEF Pool!Init
  <2>5. requests \in 0..MaxRequests /\ crashes \in 0..MaxCrashes
    BY <1>0 DEF Pool!Init
  <2> QED
    BY <1>2, <2>1, <2>2, <2>3, <2>4, <2>5 DEF PoolTypes
<1>4. Places /\ Holders /\ Phases
  BY <1>1 DEF Places, Holders, Phases, Inside
<1>5. Stopping
  <2>1. \A r \in PoolReplicas : loops[r] = 0
    BY DEF Pool!Init
  <2> QED
    BY <2>1 DEF Stopping
<1> QED
  BY <1>3, <1>4, <1>5 DEF SegmentInv

\* Every step keeps the invariant.
LEMMA PoolInvStep ==
  ASSUME Pool!SegmentBounds, SegmentInv, [Pool!Next]_(Pool!vars)
  PROVE  SegmentInv'
<1>1. CASE \E r \in PoolReplicas : Pool!Sync(r) \/ Pool!Crash(r)
  BY <1>1, SyncStep, PoolCrashStep
<1>2. CASE \E t \in ApiRequests, r \in PoolReplicas :
             \/ \E n \in Pool!Sizes : Pool!Resize(t, r, n) \/ Pool!CreateFirst(t, r, n)
             \/ Pool!CreateDefault(t, r) \/ Pool!DeleteTemplate(t, r)
             \/ \E i \in PoolImages : Pool!Build(t, r, i)
  BY <1>2, RequestStep
<1>3. CASE \E t \in Pool!Threads : Pool!Step(t)
  BY <1>3, StatementStep, EnsureStep DEF Pool!Step
<1>4. CASE UNCHANGED Pool!vars
  BY <1>4 DEF Pool!vars, SegmentInv, PoolTypes, Places, Holders, Phases, Stopping
<1> QED
  BY <1>1, <1>2, <1>3, <1>4 DEF Pool!Next

\* So it holds in every reachable state.
LEMMA AlwaysSegmentInv ==
  ASSUME Pool!SegmentBounds
  PROVE  Pool!Spec => []SegmentInv
<1>1. Pool!Init => SegmentInv
  BY PoolInitHolds
<1>2. SegmentInv /\ [Pool!Next]_(Pool!vars) => SegmentInv'
  BY PoolInvStep
<1> QED
  BY <1>1, <1>2, PTL DEF Pool!Spec

\* Every variable keeps its type.
THEOREM PoolTypeInvariance ==
  ASSUME Pool!SegmentBounds
  PROVE  Pool!Spec => []Pool!TypeOK
<1>1. SegmentInv => Pool!TypeOK
  BY PoolInvImplies
<1> QED
  BY <1>1, AlwaysSegmentInv, PTL

\* However the sync thread and the requests of a replica interleave in ensure_pool_for, and
\* whenever replicas end, a replica runs at most one top-up loop for the segment, and none
\* that its pool was taken from, but for the time that the thread in the lock needs to stop
\* it.
THEOREM OneLoopEach ==
  ASSUME Pool!SegmentBounds
  PROVE  Pool!Spec => []Pool!OneLoop
<1>1. SegmentInv => Pool!OneLoop
  BY PoolInvImplies
<1> QED
  BY <1>1, AlwaysSegmentInv, PTL

-----------------------------------------------------------------------------
(* The upload of a build's context *)

ContextPcs == {"idle", "link", "ready", "merged", "missing", "delete", "insert", "describe",
               "read", "chunks"}
Uploader ==
  [pc : ContextPcs, size : 1..Chunks, at : 0..Chunks, tries : 0..MaxTries, doubtful : BOOLEAN,
   got : Seq(Clients \X (1..Chunks))]

ContextTypes ==
  /\ store \in {"mongo", "whole"} /\ spoilt \in BOOLEAN
  /\ meta \in Clients \cup {None} /\ chunk \in [1..Chunks -> Clients \cup {None}]
  /\ client \in [Clients -> Uploader]
\* The store has the archive of d, or nothing at all.
Whole(d) == \A i \in 1..Chunks : chunk[i] = IF i <= client[d].size THEN d ELSE None
NothingStored == meta = None /\ \A i \in 1..Chunks : chunk[i] = None
\* Every put that has chunks left goes on where d has one, or will have.
Meets(d) ==
  \A c \in Clients : client[c].pc = "insert" /\ client[c].at < client[c].size =>
                        client[c].at < client[d].size
\* Nobody has deleted chunks since d did, which has inserted its first ones and nobody
\* another, or somebody one that is in its way.
Partly(d) ==
  /\ client[d].pc = "insert" /\ \A i \in 1..client[d].at : chunk[i] = d
  /\ \/ Meets(d) /\ \A i \in 1..Chunks : i > client[d].at => chunk[i] = None
     \/ \E i \in 1..client[d].size : i > client[d].at /\ chunk[i] # None
ContextChunks ==
  store = "mongo" /\ ~spoilt =>
    \/ NothingStored /\ \A c \in Clients : client[c].pc \notin {"insert", "describe"}
    \/ \E d \in Clients : (Whole(d) /\ Meets(d)) \/ Partly(d)
ContextPieces ==
  store = "whole" =>
    /\ NothingStored \/ (meta \in Clients /\ Whole(meta))
    /\ \A c \in Clients : client[c].pc \notin {"delete", "insert", "chunks"}
\* What a reader that no put disturbed has and finds.
Reads(c) ==
  ~client[c].doubtful =>
    /\ client[c].pc = "read" => /\ client[c].at = 0 /\ client[c].got = << >>
                                /\ NothingStored \/ \E d \in Clients : Whole(d)
    /\ client[c].pc = "chunks" =>
         \E d \in Clients : Whole(d) /\ client[c].at <= client[d].size
                            /\ client[c].got = [i \in 1..client[c].at |-> <<d, i>>]
    /\ client[c].pc = "merged" =>
         \E d \in Clients : client[c].got = [i \in 1..client[d].size |-> <<d, i>>]
ContextReaders == \A c \in Clients : Reads(c)

ContextInv == ContextTypes /\ ContextChunks /\ ContextPieces /\ ContextReaders

\* A client goes on and leaves the store alone.
LEMMA ContextGoes ==
  ASSUME Context!ContextBounds, ContextInv, NEW c \in Clients, NEW r \in Uploader,
         client' = [client EXCEPT ![c] = r], r.size = client[c].size,
         UNCHANGED <<store, meta, chunk>>, spoilt' \in BOOLEAN, spoilt => spoilt',
         r.pc # "insert",
         client[c].pc = "insert" => spoilt' \/ client[c].at = client[c].size,
         r.pc = "describe" => client[c].pc = "insert" \/ store = "whole",
         r.pc \in {"delete", "chunks"} => store = "mongo",
         Reads(c)'
  PROVE  ContextInv'
<1>1. /\ client' \in [Clients -> Uploader] /\ client'[c] = r
      /\ \A d \in Clients : client'[d].size = client[d].size
      /\ \A d \in Clients \ {c} : client'[d] = client[d]
  BY DEF ContextInv, ContextTypes
<1>2. ContextTypes' /\ NothingStored' = NothingStored
  BY <1>1 DEF ContextInv, ContextTypes, NothingStored
<1>3. \A d \in Clients : (Whole(d)' = Whole(d)) /\ (Meets(d) => Meets(d)')
  <2>1. \A d \in Clients : Whole(d)' = Whole(d)
    BY <1>1 DEF Whole
  <2>2. ASSUME NEW d \in Clients, Meets(d) PROVE Meets(d)'
    BY <1>1, <2>2 DEF Meets
  <2> QED BY <2>1, <2>2
<1>4. ContextChunks'
  <2> SUFFICES ASSUME store = "mongo", ~spoilt, ~spoilt'
               PROVE  \/ NothingStored /\ \A d \in Clients : client'[d].pc \notin {"insert", "describe"}
                      \/ \E d \in Clients : (Whole(d) /\ Meets(d)') \/ Partly(d)'
    BY <1>2, <1>3 DEF ContextChunks
  <2>1. CASE NothingStored /\ \A d \in Clients : client[d].pc \notin {"insert", "describe"}
    BY <1>1, <2>1
  <2>2. ASSUME NEW d \in Clients, Partly(d), d # c PROVE Partly(d)'
    BY <1>1, <1>3, <2>2 DEF Partly
  <2>3. ASSUME Partly(c) PROVE Whole(c) /\ Meets(c)
    <3>1. client[c].at = client[c].size /\ client[c].size \in 1..Chunks
      BY <2>3 DEF Partly, ContextInv, ContextTypes, Uploader
    <3>2. Meets(c) /\ \A i \in 1..Chunks : i > client[c].at => chunk[i] = None
      BY <2>3, <3>1 DEF Partly, Context!ContextBounds
    <3> QED BY <2>3, <3>1, <3>2 DEF Partly, Whole, Context!ContextBounds
  <2> QED
    BY <1>3, <2>1, <2>2, <2>3 DEF ContextInv, ContextChunks
<1>5. ContextPieces'
  BY <1>1, <1>2, <1>3 DEF ContextInv, ContextPieces
<1>6. ContextReaders'
  <2> SUFFICES ASSUME NEW d \in Clients PROVE Reads(d)'
    BY DEF ContextReaders
  <2>1. CASE d # c
    BY <1>1, <1>2, <1>3, <2>1 DEF ContextInv, ContextReaders, Reads
  <2> QED BY <2>1
<1> QED
  BY <1>2, <1>4, <1>5, <1>6 DEF ContextInv

\* What a put does to the clients.
LEMMA ContextDisturbed ==
  ASSUME Context!ContextBounds, ContextInv, NEW c \in Clients, NEW p \in ContextPcs, NEW a \in 0..Chunks,
         Context!Disturbed(c, p, a), p \notin {"read", "chunks", "merged"}
  PROVE  /\ client' \in [Clients -> Uploader] /\ ContextReaders'
         /\ \A d \in Clients : client'[d].size = client[d].size
         /\ \A d \in Clients \ {c} : client'[d].pc = client[d].pc /\ client'[d].at = client[d].at
         /\ client'[c].pc = p /\ client'[c].at = a
<1> DEFINE m(d) == client[d].doubtful \/ client[d].pc \in Context!Reading
<1>1. \A d \in Clients : client[d] \in Uploader
  BY DEF ContextInv, ContextTypes
<1>2. \A d \in Clients \ {c} : \E b \in BOOLEAN :
         /\ client'[d] = [client[d] EXCEPT !.doubtful = b]
         /\ b <=> client[d].doubtful \/ client[d].pc \in {"read", "chunks"}
  BY DEF Context!Disturbed, Context!Reading
<1>3. \A d \in Clients \ {c} :
         /\ client'[d] \in Uploader /\ client'[d].pc = client[d].pc /\ client'[d].at = client[d].at
         /\ client'[d].size = client[d].size /\ client'[d].got = client[d].got
         /\ client'[d].doubtful <=> client[d].doubtful \/ client[d].pc \in {"read", "chunks"}
  <2> TAKE d \in Clients \ {c}
  <2>1. PICK b \in BOOLEAN :
          /\ client'[d] = [client[d] EXCEPT !.doubtful = b]
          /\ b <=> client[d].doubtful \/ client[d].pc \in {"read", "chunks"}
    BY <1>2
  <2>2. client[d] \in Uploader
    BY <1>1
  <2> QED BY <2>1, <2>2 DEF Uploader
<1>4. client'[c] = [client[c] EXCEPT !.pc = p, !.at = a]
  BY DEF Context!Disturbed
<1>5. /\ client'[c] \in Uploader /\ client'[c].pc = p /\ client'[c].at = a
      /\ client'[c].size = client[c].size
  BY <1>1, <1>4 DEF Uploader
<1>6. client' \in [Clients -> Uploader]
  <2>1. client' = [d \in Clients |-> client'[d]]
    BY DEF Context!Disturbed
  <2> QED BY <2>1, <1>3, <1>5
<1>8. ContextReaders'
  <2> SUFFICES ASSUME NEW d \in Clients PROVE Reads(d)'
    BY DEF ContextReaders
  <2>1. CASE d = c
    BY <1>5, <2>1 DEF Reads
  <2>2. CASE d # c
    <3>1. Reads(d)
      BY DEF ContextInv, ContextReaders
    <3>2. \A o \in Clients : client'[o].size = client[o].size
      BY <1>3, <1>5
    <3> QED BY <1>3, <2>2, <3>1, <3>2, ZenonT(60) DEF Reads
  <2> QED BY <2>1, <2>2
<1> QED
  BY <1>3, <1>5, <1>6, <1>8

\* Steps of a client that neither write to the store nor read from it.
LEMMA ContextAside ==
  ASSUME Context!ContextBounds, ContextInv, NEW c \in Clients,
         \/ Context!Link(c) \/ Context!Upload(c) \/ Context!Inserted(c) \/ Context!Interrupted(c)
         \/ Context!Again(c)
  PROVE  ContextInv'
<1>1. client[c] \in Uploader /\ store \in {"mongo", "whole"} /\ spoilt \in BOOLEAN
      /\ client \in [Clients -> Uploader]
  BY DEF ContextInv, ContextTypes
<1>2. UNCHANGED <<store, meta, chunk>> /\ spoilt' \in BOOLEAN /\ (spoilt => spoilt')
  BY <1>1 DEF Context!Link, Context!Upload, Context!Inserted, Context!Interrupted, Context!Again
<1>3. PICK p \in ContextPcs, n \in 0..MaxTries :
        /\ client' = [client EXCEPT ![c] = [client[c] EXCEPT !.pc = p, !.tries = n]]
        /\ p \notin {"insert", "read", "chunks", "merged"}
        /\ client[c].pc = "insert" => spoilt' \/ client[c].at = client[c].size
        /\ p = "describe" => client[c].pc = "insert" \/ store = "whole"
        /\ p = "delete" => store = "mongo"
  <2>1. CASE Context!Link(c)
    <3>1. client[c].tries + 1 \in 0..MaxTries
      BY <1>1, <2>1 DEF Context!Link, Uploader, Context!ContextBounds
    <3>2. client' = [client EXCEPT ![c] = [client[c] EXCEPT !.pc = IF meta # None THEN "ready" ELSE "link",
                                                         !.tries = client[c].tries + 1]]
      BY <1>1, <2>1 DEF Context!Link, Uploader
    <3> QED
      BY <2>1, <3>1, <3>2 DEF Context!Link, Context!At, ContextPcs
  <2>2. ASSUME NEW p, Context!Goes(c, p)
        PROVE  client' = [client EXCEPT ![c] = [client[c] EXCEPT !.pc = p, !.tries = client[c].tries]]
    BY <1>1, <2>2 DEF Context!Goes, Uploader
  <2>3. client[c].tries \in 0..MaxTries
    BY <1>1 DEF Uploader
  <2>4. CASE Context!Upload(c)
    BY <1>1, <2>2, <2>3, <2>4 DEF Context!Upload, Context!At, ContextPcs
  <2>5. CASE Context!Inserted(c)
    BY <2>2, <2>3, <2>5 DEF Context!Inserted, Context!At, ContextPcs
  <2>6. CASE Context!Interrupted(c)
    <3>1. store = "whole" => client[c].pc # "insert"
      BY DEF ContextInv, ContextPieces
    <3> QED
      BY <1>1, <2>2, <2>3, <2>6, <3>1 DEF Context!Interrupted, ContextPcs
  <2>7. CASE Context!Again(c)
    BY <2>2, <2>3, <2>7 DEF Context!Again, ContextPcs
  <2> QED BY <2>1, <2>4, <2>5, <2>6, <2>7
<1> DEFINE r == [client[c] EXCEPT !.pc = p, !.tries = n]
<1>4. r \in Uploader /\ r.pc = p /\ r.size = client[c].size
  BY <1>1 DEF Uploader
<1>5. client' = [client EXCEPT ![c] = r]
  BY <1>3
<1> HIDE DEF r
<1>6. client'[c] = r
  BY <1>1, <1>5
<1>7. Reads(c)'
  BY <1>3, <1>4, <1>6 DEF Reads
<1> QED
  BY <1>2, <1>3, <1>4, <1>5, <1>7, ContextGoes

\* A build reads the upload.
LEMMA ContextBuilds ==
  ASSUME Context!ContextBounds, ContextInv, NEW c \in Clients,
         Context!StartBuild(c) \/ Context!ReadUpload(c) \/ Context!ReadChunk(c)
  PROVE  ContextInv'
<1>1. client[c] \in Uploader /\ store \in {"mongo", "whole"} /\ spoilt \in BOOLEAN
      /\ client \in [Clients -> Uploader] /\ Reads(c) /\ chunk \in [1..Chunks -> Clients \cup {None}]
      /\ meta \in Clients \cup {None}
  BY DEF ContextInv, ContextTypes, ContextReaders
<1>2. UNCHANGED <<store, meta, chunk, spoilt>>
  BY DEF Context!StartBuild, Context!ReadUpload, Context!ReadChunk
<1>3. ASSUME NEW r \in Uploader, client' = [client EXCEPT ![c] = r], r.size = client[c].size
      PROVE  /\ client'[c] = r
             /\ \A d \in Clients : client'[d].size = client[d].size
             /\ NothingStored' = NothingStored /\ \A d \in Clients : Whole(d)' = Whole(d)
  <2>1. \A d \in Clients : client'[d].size = client[d].size
    BY <1>1, <1>3
  <2>2. client'[c] = r
    BY <1>1, <1>3
  <2> QED BY <1>2, <2>1, <2>2 DEF NothingStored, Whole
<1>4. CASE Context!StartBuild(c)
  <2>1. PICK b \in BOOLEAN :
          /\ client' = [client EXCEPT ![c] = [client[c] EXCEPT !.pc = "read", !.got = << >>, !.at = 0,
                                                               !.doubtful = b]]
          /\ client[c].pc = "ready"
          /\ ~b => ~spoilt /\ \A d \in Clients \ {c} : client[d].pc \notin {"delete", "insert", "describe"}
    BY <1>1, <1>4 DEF Context!StartBuild, Context!At, Context!Alone, Context!Putting, Uploader
  <2> DEFINE r == [client[c] EXCEPT !.pc = "read", !.got = << >>, !.at = 0, !.doubtful = b]
  <2>2. << >> \in Seq(Clients \X (1..Chunks)) /\ 0 \in 0..Chunks
    BY DEF Context!ContextBounds
  <2>3. r \in Uploader /\ r.size = client[c].size /\ r.pc = "read" /\ r.got = << >> /\ r.at = 0
        /\ r.doubtful = b
    BY <1>1, <2>2 DEF Uploader, ContextPcs
  <2>4. client' = [client EXCEPT ![c] = r]
    BY <2>1
  <2> HIDE DEF r
  <2>5. Reads(c)'
    <3>1. ~b => NothingStored \/ \E d \in Clients : Whole(d)
      BY <1>1, <2>1 DEF ContextInv, ContextChunks, ContextPieces, Partly
    <3> QED BY <1>3, <2>3, <2>4, <3>1 DEF Reads
  <2> QED BY <1>1, <1>2, <2>1, <2>3, <2>4, <2>5, ContextGoes
<1>5. CASE Context!ReadUpload(c)
  <2> DEFINE p == IF meta = None THEN "missing" ELSE IF store = "mongo" THEN "chunks" ELSE "merged"
             g == IF p # "merged" THEN client[c].got ELSE [i \in 1..client[meta].size |-> <<chunk[i], i>>]
  <2>1. /\ p \in {"missing", "chunks", "merged"}
        /\ client' = [client EXCEPT ![c] = [client[c] EXCEPT !.pc = p, !.got = g]]
        /\ client[c].pc = "read"
        /\ p = "missing" <=> meta = None
        /\ p = "chunks" <=> meta # None /\ store = "mongo"
        /\ g = IF p # "merged" THEN client[c].got ELSE [i \in 1..client[meta].size |-> <<chunk[i], i>>]
    <3>1. client' = [client EXCEPT ![c] = [client[c] EXCEPT !.pc = p, !.got = g]]
      BY <1>1, <1>5 DEF Context!ReadUpload, Context!At, Uploader
    <3>2. client[c].pc = "read"
      BY <1>5 DEF Context!ReadUpload, Context!At
    <3> QED BY <3>1, <3>2
  <2> HIDE DEF p, g
  <2>2. p = "merged" => meta \in Clients /\ Whole(meta) /\ client[meta].size \in 1..Chunks
    BY <1>1, <2>1 DEF ContextInv, ContextPieces, NothingStored, Uploader
  <2>3. p = "merged" => g = [i \in 1..client[meta].size |-> <<meta, i>>]
    BY <2>1, <2>2 DEF Whole, Context!ContextBounds
  <2>4. g \in Seq(Clients \X (1..Chunks))
    <3>1. CASE p # "merged"
      BY <1>1, <2>1, <3>1 DEF Uploader
    <3>2. CASE p = "merged"
      <4>1. client[meta].size \in Nat /\ \A i \in 1..client[meta].size : <<meta, i>> \in Clients \X (1..Chunks)
        BY <2>2, <3>2 DEF Context!ContextBounds
      <4>2. g \in [1..client[meta].size -> Clients \X (1..Chunks)]
        BY <2>3, <3>2, <4>1
      <4> QED BY <4>1, <4>2
    <3> QED BY <3>1, <3>2
  <2> DEFINE r == [client[c] EXCEPT !.pc = p, !.got = g]
  <2>5. r \in Uploader /\ r.size = client[c].size /\ r.pc = p /\ r.got = g /\ r.at = client[c].at
        /\ r.doubtful = client[c].doubtful
    BY <1>1, <2>1, <2>4 DEF Uploader, ContextPcs
  <2>6. client' = [client EXCEPT ![c] = r]
    BY <2>1
  <2> HIDE DEF r
  <2>7. Reads(c)'
    <3>1. CASE p = "missing"
      BY <1>3, <2>5, <2>6, <3>1 DEF Reads
    <3>2. CASE p = "merged"
      BY <1>3, <2>2, <2>3, <2>5, <2>6, <3>2 DEF Reads
    <3>3. CASE p = "chunks"
      <4>1. ASSUME ~client[c].doubtful
            PROVE  \E d \in Clients : Whole(d) /\ r.at <= client[d].size
                                      /\ r.got = [i \in 1..r.at |-> <<d, i>>]
        <5>1. r.at = 0 /\ r.got = << >>
          BY <1>1, <2>1, <2>5, <3>3, <4>1 DEF Reads
        <5>2. PICK d \in Clients : Whole(d)
          BY <1>1, <2>1, <3>3, <4>1 DEF Reads, NothingStored
        <5>3. client[d].size \in 1..Chunks
          BY <1>1 DEF Uploader
        <5>4. [i \in 1..0 |-> <<d, i>>] = << >>
          OBVIOUS
        <5> QED BY <5>1, <5>2, <5>3, <5>4 DEF Context!ContextBounds
      <4> QED BY <1>3, <2>5, <2>6, <3>3, <4>1 DEF Reads
    <3> QED BY <2>1, <3>1, <3>2, <3>3
  <2> QED BY <1>1, <1>2, <2>1, <2>5, <2>6, <2>7, ContextGoes
<1>6. CASE Context!ReadChunk(c)
  <2> DEFINE left == {i \in client[c].at + 1..Chunks : chunk[i] # None}
  <2>1. client[c].pc = "chunks" /\ client[c].at \in 0..Chunks /\ client[c].got \in Seq(Clients \X (1..Chunks))
    BY <1>1, <1>6 DEF Context!ReadChunk, Context!At, Uploader
  <2>2. store = "mongo"
    BY <1>1, <2>1 DEF ContextInv, ContextPieces
  <2>3. CASE left = {}
    <3> DEFINE r == [client[c] EXCEPT !.pc = "merged"]
    <3>1. client' = [client EXCEPT ![c] = r]
      BY <1>1, <1>6, <2>3 DEF Context!ReadChunk, Context!Goes, Uploader
    <3>2. r \in Uploader /\ r.size = client[c].size /\ r.pc = "merged" /\ r.got = client[c].got
          /\ r.doubtful = client[c].doubtful
      BY <1>1 DEF Uploader, ContextPcs
    <3> HIDE DEF r
    <3>3. Reads(c)'
      <4>1. ASSUME ~client[c].doubtful
            PROVE  \E d \in Clients : client[c].got = [i \in 1..client[d].size |-> <<d, i>>]
        <5>1. PICK d \in Clients : Whole(d) /\ client[c].at <= client[d].size
                                   /\ client[c].got = [i \in 1..client[c].at |-> <<d, i>>]
          BY <1>1, <2>1, <4>1 DEF Reads
        <5>2. client[d].size \in 1..Chunks
          BY <1>1 DEF Uploader
        <5>3. ~(client[c].at + 1 <= client[d].size)
          <6> SUFFICES ASSUME client[c].at + 1 <= client[d].size PROVE FALSE
            OBVIOUS
          <6>1. client[c].at + 1 \in client[c].at + 1..Chunks /\ client[c].at + 1 \in 1..Chunks
            BY <2>1, <5>2 DEF Context!ContextBounds
          <6>2. chunk[client[c].at + 1] = d
            BY <5>1, <6>1 DEF Whole
          <6> QED BY <2>3, <6>1, <6>2 DEF Context!ContextBounds
        <5>4. client[c].at = client[d].size
          BY <2>1, <5>1, <5>2, <5>3 DEF Context!ContextBounds
        <5> QED BY <5>1, <5>4
      <4>2. /\ client'[c] = r /\ \A d \in Clients : client'[d].size = client[d].size
        BY <1>3, <3>1, <3>2
      <4>3. ASSUME ~client'[c].doubtful
            PROVE  \E d \in Clients : client'[c].got = [i \in 1..client'[d].size |-> <<d, i>>]
        <5>1. PICK d \in Clients : client[c].got = [i \in 1..client[d].size |-> <<d, i>>]
          BY <3>2, <4>1, <4>2, <4>3
        <5> QED BY <3>2, <4>2, <5>1
      <4> QED BY <3>2, <4>2, <4>3 DEF Reads
    <3> QED BY <1>1, <1>2, <2>1, <3>1, <3>2, <3>3, ContextGoes
  <2>4. CASE left # {}
    <3>1. PICK i \in left :
            /\ \A j \in left : i <= j
            /\ client' = [client EXCEPT ![c].at = i, ![c].got = Append(@, <<chunk[i], i>>)]
      BY <1>6, <2>4 DEF Context!ReadChunk
    <3>2. i \in 1..Chunks /\ i \in client[c].at + 1..Chunks /\ chunk[i] \in Clients
      BY <1>1, <2>1 DEF Context!ContextBounds
    <3> DEFINE g == Append(client[c].got, <<chunk[i], i>>)
               r == [client[c] EXCEPT !.at = i, !.got = g]
    <3>3. g \in Seq(Clients \X (1..Chunks))
      BY <2>1, <3>2
    <3>4. client' = [client EXCEPT ![c] = r]
      BY <1>1, <3>1 DEF Uploader
    <3>5. r \in Uploader /\ r.size = client[c].size /\ r.pc = "chunks" /\ r.got = g /\ r.at = i
          /\ r.doubtful = client[c].doubtful
      <4> HIDE DEF g
      <4>1. i \in 0..Chunks
        BY <3>2 DEF Context!ContextBounds
      <4> QED BY <1>1, <2>1, <3>3, <4>1 DEF Uploader
    <3> HIDE DEF r
    <3>6. Reads(c)'
      <4>1. ASSUME ~client[c].doubtful
            PROVE  \E d \in Clients : Whole(d) /\ i <= client[d].size
                                      /\ g = [k \in 1..i |-> <<d, k>>]
        <5>1. PICK d \in Clients : Whole(d) /\ client[c].at <= client[d].size
                                   /\ client[c].got = [k \in 1..client[c].at |-> <<d, k>>]
          BY <1>1, <2>1, <4>1 DEF Reads
        <5>2. client[d].size \in 1..Chunks
          BY <1>1 DEF Uploader
        <5>3. i <= client[d].size /\ chunk[i] = d
          BY <1>1, <3>2, <5>1, <5>2 DEF Whole, Context!ContextBounds
        <5>4. client[c].at + 1 \in left
          <6>1. client[c].at + 1 \in 1..client[d].size /\ client[c].at + 1 \in client[c].at + 1..Chunks
                /\ client[c].at + 1 \in 1..Chunks
            BY <2>1, <3>2, <5>2, <5>3 DEF Context!ContextBounds
          <6>2. chunk[client[c].at + 1] = d
            BY <5>1, <6>1 DEF Whole
          <6> QED BY <6>1, <6>2 DEF Context!ContextBounds
        <5>5. i = client[c].at + 1
          BY <2>1, <3>1, <3>2, <5>4 DEF Context!ContextBounds
        <5>6. g = [k \in 1..i |-> <<d, k>>]
          BY <2>1, <5>1, <5>3, <5>5
        <5> QED BY <5>1, <5>3, <5>6
      <4> HIDE DEF g
      <4> QED BY <1>3, <3>4, <3>5, <4>1 DEF Reads
    <3> QED BY <1>1, <1>2, <2>1, <2>2, <3>4, <3>5, <3>6, ContextGoes
  <2> QED BY <2>3, <2>4
<1> QED BY <1>4, <1>5, <1>6

\* A put deletes, inserts or describes.
LEMMA ContextPuts ==
  ASSUME Context!ContextBounds, ContextInv, NEW c \in Clients,
         Context!DeleteChunks(c) \/ Context!InsertChunk(c) \/ Context!Describe(c)
  PROVE  ContextInv'
<1>1. client[c] \in Uploader /\ store \in {"mongo", "whole"} /\ spoilt \in BOOLEAN
      /\ client \in [Clients -> Uploader] /\ chunk \in [1..Chunks -> Clients \cup {None}]
      /\ meta \in Clients \cup {None}
      /\ \A d \in Clients : client[d].size \in 1..Chunks /\ client[d].at \in 0..Chunks
  BY DEF ContextInv, ContextTypes, Uploader
<1>2. UNCHANGED store /\ 0 \in 0..Chunks
  BY DEF Context!DeleteChunks, Context!InsertChunk, Context!Describe, Context!ContextBounds
<1>3. CASE Context!DeleteChunks(c)
  <2>1. /\ client[c].pc = "delete" /\ Context!Disturbed(c, "insert", 0)
        /\ chunk' = [i \in 1..Chunks |-> None] /\ UNCHANGED meta /\ spoilt' \in BOOLEAN
        /\ ~spoilt' => ~Context!Overtakes(c)
    BY <1>1, <1>3 DEF Context!DeleteChunks, Context!At
  <2>2. /\ client' \in [Clients -> Uploader] /\ ContextReaders'
        /\ \A d \in Clients : client'[d].size = client[d].size
        /\ \A d \in Clients \ {c} : client'[d].pc = client[d].pc /\ client'[d].at = client[d].at
        /\ client'[c].pc = "insert" /\ client'[c].at = 0
    BY <1>2, <2>1, ContextDisturbed DEF ContextPcs
  <2>3. store = "mongo"
    BY <1>1, <2>1 DEF ContextInv, ContextPieces
  <2>4. ~spoilt' => Partly(c)'
    <3>1. ASSUME ~spoilt' PROVE Meets(c)'
      <4> SUFFICES ASSUME NEW d \in Clients, client'[d].pc = "insert", client'[d].at < client'[d].size
                   PROVE  client'[d].at < client'[c].size
        BY DEF Meets
      <4>1. CASE d = c
        BY <4>1
      <4>2. CASE d # c
        BY <1>1, <2>1, <2>2, <3>1, <4>2 DEF Context!Overtakes, Context!At, Context!ContextBounds
      <4> QED BY <4>1, <4>2
    <3> QED BY <2>1, <2>2, <3>1 DEF Partly, Context!ContextBounds
  <2>5. ContextTypes'
    BY <1>1, <1>2, <2>1, <2>2 DEF ContextTypes
  <2> QED
    BY <1>2, <2>2, <2>3, <2>4, <2>5 DEF ContextInv, ContextChunks, ContextPieces
<1>4. CASE Context!InsertChunk(c)
  <2> DEFINE i == client[c].at + 1
  <2>1. client[c].pc = "insert" /\ client[c].at < client[c].size /\ UNCHANGED meta
    BY <1>4 DEF Context!InsertChunk, Context!At
  <2>2. i \in 1..Chunks /\ i <= client[c].size /\ i > client[c].at /\ i \in 0..Chunks
    BY <1>1, <2>1 DEF Context!ContextBounds
  <2>3. store = "mongo"
    BY <1>1, <2>1 DEF ContextInv, ContextPieces
  <2>4. CASE chunk[i] # None
    <3>1. Context!Disturbed(c, "idle", 0) /\ UNCHANGED chunk /\ spoilt' = TRUE
      BY <1>4, <2>4 DEF Context!InsertChunk, Context!Taken
    <3>2. client' \in [Clients -> Uploader] /\ ContextReaders'
      BY <1>2, <3>1, ContextDisturbed DEF ContextPcs
    <3>3. ContextTypes'
      BY <1>1, <1>2, <2>1, <3>1, <3>2 DEF ContextTypes
    <3> QED
      BY <1>2, <2>3, <3>1, <3>2, <3>3 DEF ContextInv, ContextChunks, ContextPieces
  <2>5. CASE chunk[i] = None
    <3>1. Context!Disturbed(c, "insert", i) /\ chunk' = [chunk EXCEPT ![i] = c] /\ UNCHANGED spoilt
      BY <1>4, <2>5 DEF Context!InsertChunk, Context!Taken
    <3>2. /\ client' \in [Clients -> Uploader] /\ ContextReaders'
          /\ \A d \in Clients : client'[d].size = client[d].size
          /\ \A d \in Clients \ {c} : client'[d].pc = client[d].pc /\ client'[d].at = client[d].at
          /\ client'[c].pc = "insert" /\ client'[c].at = i
      BY <2>2, <3>1, ContextDisturbed DEF ContextPcs
    <3>3. ContextTypes'
      BY <1>1, <1>2, <2>1, <3>1, <3>2 DEF ContextTypes
    <3>4. /\ chunk'[i] = c /\ \A j \in 1..Chunks : j # i => chunk'[j] = chunk[j]
      BY <1>1, <2>2, <3>1
    <3> HIDE DEF i
    <3>5. ASSUME ~spoilt PROVE \E d \in Clients : Partly(d)'
      <4>1. PICK d \in Clients : (Whole(d) /\ Meets(d)) \/ Partly(d)
        BY <2>1, <2>3, <3>5 DEF ContextInv, ContextChunks
      <4>2. i = client[c].at + 1
        BY DEF i
      <4>3. ~(Whole(d) /\ Meets(d))
        BY <1>1, <2>1, <2>2, <2>5, <4>2 DEF Whole, Meets, Context!ContextBounds
      <4>4. Partly(d) /\ client[d].pc = "insert" /\ \A j \in 1..client[d].at : chunk[j] = d
        BY <4>1, <4>3 DEF Partly
      <4>5. \A j \in 1..client[d].at : j \in 1..Chunks
        BY <1>1 DEF Context!ContextBounds
      <4>6. \A j \in 1..Chunks : chunk[j] # None => chunk'[j] # None
        BY <2>5, <3>4
      <4>7. CASE d = c
        <5>1. \A j \in 1..i : chunk'[j] = c
          BY <1>1, <2>2, <3>4, <4>2, <4>4, <4>5, <4>7 DEF Context!ContextBounds
        <5>2. CASE Meets(d) /\ \A j \in 1..Chunks : j > client[d].at => chunk[j] = None
          <6>1. \A j \in 1..Chunks : j > i => chunk'[j] = None
            BY <1>1, <2>2, <3>4, <4>2, <4>7, <5>2 DEF Context!ContextBounds
          <6>2. Meets(c)'
            <7> SUFFICES ASSUME NEW o \in Clients, client'[o].pc = "insert",
                                client'[o].at < client'[o].size
                         PROVE  client'[o].at < client'[c].size
              BY DEF Meets
            <7> QED BY <3>2, <4>7, <5>2 DEF Meets
          <6> QED BY <3>2, <4>7, <5>1, <6>1, <6>2 DEF Partly
        <5>3. CASE \E j \in 1..client[d].size : j > client[d].at /\ chunk[j] # None
          <6>1. PICK j \in 1..client[d].size : j > client[d].at /\ chunk[j] # None
            BY <5>3
          <6>2. j \in 1..Chunks /\ j > i
            BY <1>1, <2>2, <2>5, <4>2, <4>7, <6>1 DEF Context!ContextBounds
          <6>3. chunk'[j] # None
            BY <4>6, <6>1, <6>2
          <6> QED BY <3>2, <4>7, <5>1, <6>1, <6>2, <6>3 DEF Partly
        <5> QED BY <4>4, <5>2, <5>3 DEF Partly
      <4>8. CASE d # c
        <5>1. i \notin 1..client[d].at
          BY <2>5, <4>4 DEF ContextInv, ContextTypes, Context!ContextBounds
        <5>2. \A j \in 1..client[d].at : chunk'[j] = d
          BY <3>4, <4>4, <4>5, <5>1
        <5>3. \E j \in 1..client[d].size : j > client[d].at /\ chunk'[j] # None
          <6>1. CASE Meets(d) /\ \A j \in 1..Chunks : j > client[d].at => chunk[j] = None
            <7>1. client[c].at < client[d].size
              BY <2>1, <6>1 DEF Meets
            <7>2. i \in 1..client[d].size /\ i > client[d].at
              BY <1>1, <2>2, <4>2, <5>1, <7>1 DEF Context!ContextBounds
            <7>3. chunk'[i] # None
              BY <1>1, <3>4 DEF Context!ContextBounds
            <7> QED BY <7>2, <7>3
          <6>2. CASE \E j \in 1..client[d].size : j > client[d].at /\ chunk[j] # None
            <7>1. PICK j \in 1..client[d].size : j > client[d].at /\ chunk[j] # None
              BY <6>2
            <7>2. j \in 1..Chunks
              BY <1>1, <7>1 DEF Context!ContextBounds
            <7> QED BY <4>6, <7>1, <7>2
          <6> QED BY <4>4, <6>1, <6>2 DEF Partly
        <5> QED BY <3>2, <4>4, <4>8, <5>2, <5>3 DEF Partly
      <4> QED BY <4>7, <4>8
    <3> QED
      BY <1>2, <2>3, <3>1, <3>2, <3>3, <3>5 DEF ContextInv, ContextChunks, ContextPieces
  <2> QED BY <2>4, <2>5
<1>5. CASE Context!Describe(c)
  <2>1. /\ client[c].pc = "describe" /\ Context!Disturbed(c, "ready", 0) /\ meta' = c /\ UNCHANGED spoilt
        /\ chunk' = IF store = "mongo" THEN chunk
                    ELSE [i \in 1..Chunks |-> IF i <= client[c].size THEN c ELSE None]
    BY <1>5 DEF Context!Describe, Context!At
  <2>2. /\ client' \in [Clients -> Uploader] /\ ContextReaders'
        /\ \A d \in Clients : client'[d].size = client[d].size
        /\ \A d \in Clients \ {c} : client'[d].pc = client[d].pc /\ client'[d].at = client[d].at
        /\ client'[c].pc = "ready"
    BY <1>2, <2>1, ContextDisturbed DEF ContextPcs
  <2>3. chunk' \in [1..Chunks -> Clients \cup {None}]
    BY <1>1, <2>1
  <2>4. ContextTypes'
    BY <1>1, <1>2, <2>1, <2>2, <2>3 DEF ContextTypes
  <2>5. CASE store = "mongo"
    <3>1. \A d \in Clients : (Whole(d) => Whole(d)') /\ (Meets(d) => Meets(d)')
      <4>1. \A d \in Clients : Whole(d) => Whole(d)'
        BY <2>1, <2>2, <2>5 DEF Whole
      <4>2. \A d \in Clients : Meets(d) => Meets(d)'
        <5> SUFFICES ASSUME NEW d \in Clients, Meets(d), NEW o \in Clients, client'[o].pc = "insert",
                            client'[o].at < client'[o].size
                     PROVE  client'[o].at < client'[d].size
          BY DEF Meets
        <5> QED BY <2>2 DEF Meets
      <4> QED BY <4>1, <4>2
    <3>0. ASSUME NEW d \in Clients, Partly(d) PROVE Partly(d)'
      BY <2>1, <2>2, <2>5, <3>0, <3>1 DEF Partly
    <3>2. ContextChunks'
      BY <1>2, <2>1, <2>2, <3>0, <3>1 DEF ContextInv, ContextChunks
    <3> QED
      BY <1>2, <2>2, <2>4, <2>5, <3>2 DEF ContextInv, ContextPieces
  <2>6. CASE store = "whole"
    <3>1. Whole(c)'
      BY <2>1, <2>2, <2>6 DEF Whole
    <3>2. ContextPieces'
      <4>1. \A d \in Clients : client'[d].pc \notin {"delete", "insert", "chunks"}
        BY <2>2, <2>6 DEF ContextInv, ContextPieces
      <4> QED BY <2>1, <3>1, <4>1 DEF ContextPieces
    <3> QED
      BY <1>2, <2>2, <2>4, <2>6, <3>2 DEF ContextInv, ContextChunks
  <2> QED BY <1>1, <2>5, <2>6
<1> QED BY <1>3, <1>4, <1>5

\* Uploads and those who read them, always.
LEMMA AlwaysContextInv ==
  ASSUME Context!ContextBounds PROVE Context!Spec => []ContextInv
<1>1. Context!Init => ContextInv
  <2> SUFFICES ASSUME Context!Init PROVE ContextInv
    OBVIOUS
  <2>1. 0 \in 0..Chunks /\ 0 \in 0..MaxTries /\ << >> \in Seq(Clients \X (1..Chunks))
    BY DEF Context!ContextBounds
  <2>2. client \in [Clients -> Uploader]
    BY <2>1 DEF Context!Init, Uploader, ContextPcs
  <2>3. \A c \in Clients : client[c].pc = "idle"
    BY DEF Context!Init
  <2>4. meta = None /\ chunk = [i \in 1..Chunks |-> None] /\ store \in {"mongo", "whole"} /\ spoilt = FALSE
    BY DEF Context!Init
  <2> QED
    BY <2>2, <2>3, <2>4
    DEF ContextInv, ContextTypes, ContextChunks, ContextPieces, ContextReaders, Reads, NothingStored
<1>2. ContextInv /\ [Context!Next]_(Context!vars) => ContextInv'
  <2> SUFFICES ASSUME ContextInv, [Context!Next]_(Context!vars) PROVE ContextInv'
    OBVIOUS
  <2>1. CASE UNCHANGED Context!vars
    <3>1. UNCHANGED <<store, meta, chunk, client, spoilt>>
      BY <2>1 DEF Context!vars
    <3>2. /\ NothingStored' = NothingStored
          /\ \A d \in Clients : /\ Whole(d)' = Whole(d) /\ Partly(d)' = Partly(d)
                                /\ Meets(d)' = Meets(d)
      BY <3>1 DEF NothingStored, Whole, Partly, Meets
    <3>3. ContextReaders'
      BY <3>1, <3>2 DEF ContextInv, ContextReaders, Reads
    <3>4. ContextTypes' /\ ContextChunks' /\ ContextPieces'
      BY <3>1, <3>2 DEF ContextInv, ContextTypes, ContextChunks, ContextPieces
    <3> QED BY <3>3, <3>4 DEF ContextInv
  <2>2. CASE Context!Next
    BY <2>2, ContextAside, ContextBuilds, ContextPuts DEF Context!Next
  <2> QED BY <2>1, <2>2
<1> QED BY <1>1, <1>2, PTL DEF Context!Spec

\* Whatever puts overlapped before a build began, if each was answered with success and none
\* overtook a longer one so late that their chunks did not meet, the build has one client's
\* archive, all of it.
THEOREM WholeContexts ==
  ASSUME Context!ContextBounds
  PROVE  Context!Spec => []Context!ContextIsWhole
<1>1. ContextInv => Context!ContextIsWhole
  BY DEF ContextInv, ContextReaders, Reads, Context!ContextIsWhole, Context!At
<1> QED BY <1>1, AlwaysContextInv, PTL

-----------------------------------------------------------------------------
(* Dockerfiles *)

DockerLine == [op : {"ARG", "ENV", "WORKDIR", "USER", "RUN", "COPY", "other"},
               name : DockerNames \cup {None}, val : Docker!Values \cup {None}]
DockerRow ==
  /\ row = [warm |-> row.warm, env |-> row.env, source |-> row.source]
  /\ pc # "done" => row.warm = None
  /\ pc \in {"source", "warm", "done"} => row.env = Docker!Stored
  /\ pc \in {"warm", "done"} => row.source = lines
\* While the container is worked on, every line that was read was done in it in its turn, and
\* what was lost sight of is one of them; then this holds of the image.
DockerBox ==
  /\ lines \in Seq(DockerLine) /\ late \subseteq 1..Len(lines)
  /\ pc \in {"idle", "create"} => lines = << >> /\ late = {}
  /\ pc \in {"walk", "bake", "start", "ready", "commit"} =>
       box \in Seq(1..Len(lines)) /\ Docker!DoneInTurn(box, lines)
  /\ pc \in {"kill", "upsert", "source", "warm"} => Docker!DoneInTurn(image, lines)
  /\ pc = "done" => Docker!DoneInTurn(row.warm, lines)
DockerInv == DockerRow /\ DockerBox

\* A line that was done already may be done again.
LEMMA DoneAgain ==
  ASSUME NEW n \in Nat, NEW s \in Seq(1..n), NEW ls, Docker!DoneInTurn(s, ls), NEW i \in 1..n
  PROVE  Append(s, i) \in Seq(1..n) /\ Docker!DoneInTurn(Append(s, i), ls)
<1>1. /\ Append(s, i) \in Seq(1..n) /\ DOMAIN s = 1..Len(s) /\ Len(s) \in Nat
      /\ DOMAIN Append(s, i) = 1..(Len(s) + 1)
      /\ \A k \in 1..Len(s) : Append(s, i)[k] = s[k]
  OBVIOUS
<1>2. ASSUME NEW j \in DOMAIN ls, Docker!Works(ls[j])
      PROVE  \E m \in DOMAIN Append(s, i) :
               /\ Append(s, i)[m] = j /\ \A k \in 1..(m - 1) : Append(s, i)[k] # j
               /\ \A g \in 1..(j - 1) : Docker!Works(ls[g]) => \E k \in 1..(m - 1) : Append(s, i)[k] = g
  <2>1. PICK m \in DOMAIN s :
          /\ s[m] = j /\ \A k \in 1..(m - 1) : s[k] # j
          /\ \A g \in 1..(j - 1) : Docker!Works(ls[g]) => \E k \in 1..(m - 1) : s[k] = g
    BY <1>2 DEF Docker!DoneInTurn
  <2>2. m \in 1..Len(s) /\ m \in DOMAIN Append(s, i) /\ \A k \in 1..(m - 1) : k \in 1..Len(s)
    BY <1>1, <2>1
  <2> QED BY <1>1, <2>1, <2>2
<1> QED BY <1>1, <1>2 DEF Docker!DoneInTurn

\* A line is done when those before it have been.
LEMMA DoneNext ==
  ASSUME NEW ls \in Seq(DockerLine), NEW line \in DockerLine,
         NEW s \in Seq(1..Len(ls)), Docker!DoneInTurn(s, ls)
  PROVE  /\ ~Docker!Works(line) =>
              s \in Seq(1..Len(Append(ls, line))) /\ Docker!DoneInTurn(s, Append(ls, line))
         /\ LET t == Append(s, Len(ls) + 1) IN
              t \in Seq(1..Len(Append(ls, line))) /\ Docker!DoneInTurn(t, Append(ls, line))
<1> DEFINE n == Len(ls)
           l2 == Append(ls, line)
           t == Append(s, n + 1)
<1>1. /\ n \in Nat /\ Len(l2) = n + 1 /\ DOMAIN l2 = 1..(n + 1) /\ DOMAIN ls = 1..n
      /\ l2[n + 1] = line /\ \A i \in 1..n : l2[i] = ls[i]
  OBVIOUS
<1>2. s \in Seq(1..(n + 1))
  <2>1. 1..n \subseteq 1..(n + 1)
    BY <1>1
  <2> QED BY <2>1
<1> HIDE DEF l2
<1>3. /\ DOMAIN s = 1..Len(s) /\ Len(s) \in Nat /\ DOMAIN t = 1..(Len(s) + 1)
      /\ t[Len(s) + 1] = n + 1 /\ \A k \in 1..Len(s) : t[k] = s[k] /\ s[k] \in 1..n
      /\ t \in Seq(1..(n + 1))
  BY <1>1, <1>2
<1> HIDE DEF t, n
<1>4. ASSUME NEW j \in 1..n, Docker!Works(l2[j]), NEW u, u \in {s, t}
      PROVE  \E m \in DOMAIN u :
               /\ u[m] = j /\ \A k \in 1..(m - 1) : u[k] # j
               /\ \A g \in 1..(j - 1) : Docker!Works(l2[g]) => \E k \in 1..(m - 1) : u[k] = g
  <2>1. PICK m \in DOMAIN s :
          /\ s[m] = j /\ \A k \in 1..(m - 1) : s[k] # j
          /\ \A g \in 1..(j - 1) : Docker!Works(ls[g]) => \E k \in 1..(m - 1) : s[k] = g
    BY <1>1, <1>4 DEF Docker!DoneInTurn
  <2>2. /\ m \in DOMAIN u /\ u[m] = s[m] /\ \A k \in 1..(m - 1) : u[k] = s[k]
    BY <1>3, <1>4, <2>1
  <2>3. \A g \in 1..(j - 1) : l2[g] = ls[g]
    BY <1>1
  <2>4. u[m] = j /\ \A k \in 1..(m - 1) : u[k] # j
    BY <2>1, <2>2
  <2>5. ASSUME NEW g \in 1..(j - 1), Docker!Works(l2[g]) PROVE \E k \in 1..(m - 1) : u[k] = g
    <3>1. Docker!Works(ls[g])
      BY <2>3, <2>5
    <3>2. PICK k \in 1..(m - 1) : s[k] = g
      BY <2>1, <3>1
    <3> QED BY <2>2, <3>2
  <2> QED BY <2>2, <2>4, <2>5
<1>5. ASSUME ~Docker!Works(line) PROVE Docker!DoneInTurn(s, l2)
  <2>1. \A j \in DOMAIN l2 : Docker!Works(l2[j]) => j \in 1..n
    BY <1>1, <1>5
  <2> QED BY <1>4, <2>1 DEF Docker!DoneInTurn
<1>6. Docker!DoneInTurn(t, l2)
  <2>1. ASSUME NEW g \in 1..n, Docker!Works(l2[g])
        PROVE  \E k \in 1..Len(s) : t[k] = g
    <3>1. PICK m \in DOMAIN s : s[m] = g
      BY <1>1, <2>1 DEF Docker!DoneInTurn
    <3> QED BY <1>3, <3>1
  <2>2. /\ Len(s) + 1 \in DOMAIN t /\ t[Len(s) + 1] = n + 1
        /\ \A k \in 1..(Len(s) + 1 - 1) : t[k] # n + 1
        /\ \A g \in 1..(n + 1 - 1) :
             Docker!Works(l2[g]) => \E k \in 1..(Len(s) + 1 - 1) : t[k] = g
    <3>1. Len(s) + 1 - 1 = Len(s) /\ n + 1 - 1 = n /\ Len(s) + 1 \in 1..(Len(s) + 1)
      BY <1>1, <1>3
    <3>2. \A k \in 1..Len(s) : t[k] # n + 1
      BY <1>1, <1>3
    <3> QED BY <1>3, <2>1, <3>1, <3>2
  <2>3. \A j \in DOMAIN l2 : j \in 1..n \/ j = n + 1
    BY <1>1
  <2>4. ASSUME NEW j \in DOMAIN l2, Docker!Works(l2[j])
        PROVE  \E m \in DOMAIN t :
                 /\ t[m] = j /\ \A k \in 1..(m - 1) : t[k] # j
                 /\ \A g \in 1..(j - 1) : Docker!Works(l2[g]) => \E k \in 1..(m - 1) : t[k] = g
    <3>1. CASE j = n + 1
      <4> DEFINE m == Len(s) + 1
      <4>1. m \in DOMAIN t /\ t[m] = j /\ \A k \in 1..(m - 1) : t[k] # j
        BY <2>2, <3>1
      <4>2. \A g \in 1..(j - 1) : Docker!Works(l2[g]) => \E k \in 1..(m - 1) : t[k] = g
        <5>1. 1..(j - 1) = 1..n /\ 1..(m - 1) = 1..Len(s)
          BY <1>1, <1>3, <3>1
        <5> QED BY <2>1, <5>1
      <4> HIDE DEF m
      <4> QED BY <4>1, <4>2
    <3>2. CASE j \in 1..n
      <4>1. t \in {s, t}
        OBVIOUS
      <4> QED BY <1>4, <2>4, <3>2, <4>1
    <3> QED BY <2>3, <3>1, <3>2
  <2> QED BY <2>4 DEF Docker!DoneInTurn
<1> QED BY <1>1, <1>2, <1>3, <1>5, <1>6 DEF n, l2, t

\* A line is read: what it is, whether it was done, and whether it was lost sight of.
LEMMA DockerReads ==
  ASSUME DockerInv, pc = "walk", NEW line \in DockerLine, lines' = Append(lines, line),
         late' \subseteq late \cup {Len(lines) + 1}, UNCHANGED <<given, image, row>>,
         pc' \in {"walk", "giveup"},
         pc' = "walk" => \/ ~Docker!Works(line) /\ box' = box
                         \/ box' = Append(box, Len(lines) + 1)
  PROVE  DockerInv'
<1>1. /\ lines \in Seq(DockerLine) /\ late \subseteq 1..Len(lines)
      /\ box \in Seq(1..Len(lines)) /\ Docker!DoneInTurn(box, lines)
  BY DEF DockerInv, DockerBox
<1>2. lines' \in Seq(DockerLine) /\ Len(lines') = Len(lines) + 1 /\ Len(lines) \in Nat
  BY <1>1
<1>3. late' \subseteq 1..Len(lines')
  BY <1>1, <1>2
<1>4. pc' = "walk" => box' \in Seq(1..Len(lines')) /\ Docker!DoneInTurn(box', lines')
  BY <1>1, DoneNext
<1>5. DockerRow'
  BY DEF DockerInv, DockerRow
<1> QED BY <1>2, <1>3, <1>4, <1>5 DEF DockerInv, DockerBox

\* The lines of a Dockerfile.
LEMMA DockerLines ==
  ASSUME DockerInv,
         \/ \E n \in DockerNames, v \in Docker!Values : Docker!ReadArg(n, v) \/ Docker!ReadEnv(n, v)
         \/ \E op \in {"USER", "other"} : Docker!ReadOther(op)
         \/ \E op \in {"RUN", "WORKDIR", "COPY"} : Docker!Executes(op)
  PROVE  DockerInv'
<1>1. \A op, n, v : Docker!Reads(op, n, v) =>
        pc = "walk" /\ lines' = Append(lines, [op |-> op, name |-> n, val |-> v])
  BY DEF Docker!Reads
<1>2. CASE \E n \in DockerNames, v \in Docker!Values : Docker!ReadArg(n, v) \/ Docker!ReadEnv(n, v)
  <2>1. PICK op \in {"ARG", "ENV"}, n \in DockerNames, v \in Docker!Values : Docker!Reads(op, n, v)
    BY <1>2 DEF Docker!ReadArg, Docker!ReadEnv
  <2> DEFINE line == [op |-> op, name |-> n, val |-> v]
  <2>2. line \in DockerLine /\ ~Docker!Works(line)
    BY DEF DockerLine, Docker!Works
  <2>3. pc = "walk" /\ lines' = Append(lines, line)
    BY <1>1, <2>1
  <2>4. UNCHANGED <<pc, given, box, late, image, row>>
    BY <1>2 DEF Docker!ReadArg, Docker!ReadEnv
  <2> HIDE DEF line
  <2> QED BY <2>2, <2>3, <2>4, DockerReads
<1>3. CASE \E op \in {"USER", "other"} : Docker!ReadOther(op)
  <2>1. PICK op \in {"USER", "other"} : Docker!Reads(op, None, None)
    BY <1>3 DEF Docker!ReadOther
  <2> DEFINE line == [op |-> op, name |-> None, val |-> None]
  <2>2. line \in DockerLine /\ ~Docker!Works(line)
    BY DEF DockerLine, Docker!Works
  <2>3. pc = "walk" /\ lines' = Append(lines, line)
    BY <1>1, <2>1
  <2>4. UNCHANGED <<pc, given, box, late, image, row>>
    BY <1>3 DEF Docker!ReadOther
  <2> HIDE DEF line
  <2> QED BY <2>2, <2>3, <2>4, DockerReads
<1>4. CASE \E op \in {"RUN", "WORKDIR", "COPY"} : Docker!Executes(op)
  <2>1. PICK op \in {"RUN", "WORKDIR", "COPY"} : Docker!Executes(op)
    BY <1>4
  <2> DEFINE line == [op |-> op, name |-> None, val |-> None]
  <2>2. line \in DockerLine
    BY DEF DockerLine
  <2>3. pc = "walk" /\ lines' = Append(lines, line) /\ UNCHANGED <<given, image, row>>
    BY <1>1, <2>1 DEF Docker!Executes
  <2>4. \/ pc' = "giveup" /\ UNCHANGED <<box, late>>
        \/ Docker!Does(op)
    BY <2>1 DEF Docker!Executes
  <2>5. Docker!Does(op) =>
          /\ late' \subseteq late \cup {Len(lines) + 1} /\ pc' \in {"walk", "giveup"}
          /\ pc' = "walk" => box' = Append(box, Len(lines) + 1)
    BY DEF Docker!Does, Docker!Checked
  <2> HIDE DEF line
  <2> QED BY <2>2, <2>3, <2>4, <2>5, DockerReads
<1> QED BY <1>2, <1>3, <1>4

\* What was lost sight of ends.
LEMMA DockerLate ==
  ASSUME DockerInv, NEW i \in late, Docker!LateEnd(i)
  PROVE  DockerInv'
<1>1. /\ lines \in Seq(DockerLine) /\ i \in 1..Len(lines) /\ late' \subseteq late
      /\ UNCHANGED <<pc, lines, given, env, image, row>> /\ box' = Append(box, i)
  BY DEF DockerInv, DockerBox, Docker!LateEnd
<1>2. Len(lines) \in Nat
  BY <1>1
<1>3. box \in Seq(1..Len(lines)) /\ Docker!DoneInTurn(box, lines) =>
        box' \in Seq(1..Len(lines)) /\ Docker!DoneInTurn(box', lines)
  BY <1>1, <1>2, DoneAgain
<1> QED BY <1>1, <1>3 DEF DockerInv, DockerBox, DockerRow, Docker!Stored

\* The build from its request to the row of the template.
LEMMA DockerRest ==
  ASSUME DockerInv,
         \/ Docker!Begin \/ Docker!Create \/ Docker!EndOfFile \/ Docker!Bake \/ Docker!StartCmd
         \/ Docker!Ready \/ Docker!Commit \/ Docker!Kill \/ Docker!Upsert \/ Docker!SetSource
         \/ Docker!SetWarm \/ Docker!Crash \/ UNCHANGED Docker!vars
  PROVE  DockerInv'
<1>1. CASE Docker!Begin
  BY <1>1 DEF Docker!Begin, DockerInv, DockerBox, DockerRow
<1>2. CASE Docker!Create
  <2>1. /\ pc # "walk" /\ UNCHANGED <<lines, late, row>>
        /\ (pc' = "walk" /\ box' = << >>) \/ pc' = "failed"
    BY <1>2 DEF Docker!Create
  <2>2. lines = << >> /\ late = {} /\ pc = "create" /\ UNCHANGED <<lines, given, env, image>>
    BY <1>2 DEF Docker!Create, DockerInv, DockerBox
  <2>3. << >> \in Seq(1..Len(lines)) /\ Docker!DoneInTurn(<< >>, << >>)
    BY DEF Docker!DoneInTurn
  <2> QED BY <2>1, <2>2, <2>3 DEF DockerInv, DockerBox, DockerRow
<1>3. CASE Docker!EndOfFile \/ Docker!Bake \/ Docker!StartCmd \/ Docker!Ready
  BY <1>3 DEF Docker!EndOfFile, Docker!Bake, Docker!StartCmd, Docker!Ready, DockerInv, DockerBox,
     DockerRow
<1>4. CASE Docker!Commit \/ Docker!Kill
  BY <1>4 DEF Docker!Commit, Docker!Kill, DockerInv, DockerBox, DockerRow
<1>5. CASE Docker!Upsert \/ Docker!SetSource
  BY <1>5, ZenonT(60) DEF Docker!Upsert, Docker!SetSource, DockerInv, DockerBox, DockerRow, Docker!Stored
<1>6. CASE Docker!SetWarm
  BY <1>6 DEF Docker!SetWarm, DockerInv, DockerBox, DockerRow, Docker!Stored
<1>7. CASE Docker!Crash
  BY <1>7 DEF Docker!Crash, DockerInv, DockerBox, DockerRow
<1>8. CASE UNCHANGED Docker!vars
  BY <1>8 DEF Docker!vars, DockerInv, DockerBox, DockerRow, Docker!Stored
<1> QED BY <1>1, <1>2, <1>3, <1>4, <1>5, <1>6, <1>7, <1>8

\* The template and its build, always.
LEMMA AlwaysDockerInv == Docker!Spec => []DockerInv
<1>1. Docker!Init => DockerInv
  BY DEF Docker!Init, Docker!NoTemplate, DockerInv, DockerBox, DockerRow
<1>2. DockerInv /\ [Docker!Next]_(Docker!vars) => DockerInv'
  BY DockerLines, DockerLate, DockerRest DEF Docker!Next
<1> QED BY <1>1, <1>2, PTL DEF Docker!Spec

\* Every line of the Dockerfile that a template's row stores was done in its image before the
\* next one began, and a name means the same in a command's text, to its process and to the
\* sandboxes (build_template_from_dockerfile_parsed).
THEOREM LinesAreDone == Docker!Spec => []Docker!BuiltAsWritten
<1>1. DockerInv => Docker!BuiltAsWritten
  <2> SUFFICES ASSUME DockerInv PROVE Docker!BuiltAsWritten
    OBVIOUS
  <2>1. Docker!RegisteredWhole
    BY DEF Docker!RegisteredWhole, DockerInv, DockerRow, DockerBox
  <2>2. ASSUME NEW n \in DockerNames
        PROVE  /\ Docker!Process(n) \notin DockerNames => Docker!Text(n) = Docker!Process(n)
               /\ row.warm # None /\ args[n] = None => row.env[n] = Docker!Process(n)
    <3>1. Docker!Process(n) \notin DockerNames => Docker!Text(n) = Docker!Process(n)
      BY DEF Docker!Process, Docker!Text, Docker!Known
    <3>2. row.warm # None => row.env = Docker!Stored
      BY DEF DockerInv, DockerRow
    <3> QED BY <3>1, <3>2 DEF Docker!Stored, Docker!Process
  <2> QED BY <2>1, <2>2 DEF Docker!BuiltAsWritten, Docker!OneEnvironment
<1> QED BY <1>1, AlwaysDockerInv, PTL

-----------------------------------------------------------------------------
(* Daytona's sandboxes *)

DaytonaCall ==
  [what : Daytona!Kinds \cup {None}, pc : {"idle", "begun", "acting", "failed", "acted"},
   value : Labels \cup {None}, md : Daytona!Metadata \cup {None}, prev : Daytona!States \cup {None}]

DaytonaTypes ==
  /\ row \in [st : Daytona!States, md : Daytona!Metadata]
  /\ box \in {"running", "paused"}
  /\ req \in [ApiRequests -> DaytonaCall]
  /\ said \in [labels : Labels, public : Labels, state : Daytona!Shows \cup {None}]
  /\ faults \in 0..FewFaults

\* A request moves the sandbox when its place says so, and one that writes metadata has some.
DaytonaPlaces ==
  \A q \in ApiRequests :
    /\ req[q].pc = "idle" => req[q] = Daytona!Idle
    /\ req[q].pc = "begun" => req[q].what \in {"labels", "snapshot", "remote"}
    /\ req[q].pc = "begun" => req[q].md \in Daytona!Metadata
    /\ req[q].pc = "begun" /\ req[q].what = "labels" => req[q].value \in Labels
    /\ req[q].pc \in {"acting", "failed", "acted"} =>
         req[q].what \in Daytona!Moving /\ req[q].prev \in Daytona!States \ {"gone"}

\* What a client was told of the state is known while at most one request moves the sandbox.
OneMoves ==
  said.state # None =>
    \A p, q \in ApiRequests : Daytona!Moves(p) /\ Daytona!Moves(q) => p = q

\* The state that a request would restore was shown as told, and one that failed has restored it.
Restores ==
  Daytona!Owned /\ said.state # None =>
    \A q \in ApiRequests :
      /\ req[q].pc \in {"acting", "failed"} =>
           req[q].prev = "lost" \/ Daytona!Shown(req[q].prev, row.md) = said.state
      /\ req[q].pc = "failed" => row.st \in {req[q].prev, "lost"}

DaytonaInv ==
  DaytonaTypes /\ DaytonaPlaces /\ OneMoves /\ Restores /\ Daytona!ShownAsSaid

\* What can be read off the types of a row.
LEMMA DaytonaRow ==
  ASSUME DaytonaTypes
  PROVE  /\ row = [st |-> row.st, md |-> row.md] /\ row.st \in Daytona!States
         /\ row.md = [labels |-> row.md.labels, public |-> row.md.public,
                      override |-> row.md.override]
         /\ row.md.labels \in Labels /\ row.md.public \in Labels
         /\ row.md.override \in {"", "paused", "stopped"} /\ row.md \in Daytona!Metadata
         /\ said = [labels |-> said.labels, public |-> said.public, state |-> said.state]
         /\ said.labels \in Labels /\ said.public \in Labels
         /\ said.state \in Daytona!Shows \cup {None}
<1>1. row.md \in Daytona!Metadata /\ row.st \in Daytona!States /\ row = [st |-> row.st, md |-> row.md]
  BY DEF DaytonaTypes
<1>2. /\ row.md = [labels |-> row.md.labels, public |-> row.md.public,
                   override |-> row.md.override]
      /\ row.md.labels \in Labels /\ row.md.public \in Labels
      /\ row.md.override \in {"", "paused", "stopped"}
  BY <1>1 DEF Daytona!Metadata
<1>3. /\ said = [labels |-> said.labels, public |-> said.public, state |-> said.state]
      /\ said.labels \in Labels /\ said.public \in Labels
      /\ said.state \in Daytona!Shows \cup {None}
  BY DEF DaytonaTypes
<1> QED BY <1>1, <1>2, <1>3

\* Every state is shown as something.
LEMMA DaytonaShows ==
  ASSUME NEW st, NEW md \in Daytona!Metadata
  PROVE  Daytona!Shown(st, md) \in Daytona!Shows
BY DEF Daytona!Shown, Daytona!Shows, Daytona!Metadata

\* What is shown depends on the state and on the override alone.
LEMMA DaytonaSame ==
  ASSUME NEW st, NEW m, NEW d, m.override = d.override
  PROVE  Daytona!Shown(st, m) = Daytona!Shown(st, d)
BY DEF Daytona!Shown

\* A request that writes metadata, and touches neither the state nor a request that moves.
LEMMA DaytonaWrites ==
  ASSUME DaytonaInv, DaytonaTypes', DaytonaPlaces',
         \A q \in ApiRequests :
           \/ req'[q] = req[q]
           \/ ~Daytona!Moves(q) /\ ~Daytona!Moves(q)' /\ req'[q].pc \notin {"acting", "failed"},
         row'.st = row.st,
         \/ said'.state = None
         \/ said'.state = said.state /\ row'.md.override = row.md.override,
         Daytona!Owned' => row'.md.labels = said'.labels /\ row'.md.public = said'.public
  PROVE  DaytonaInv'
<1>1. \A q \in ApiRequests : Daytona!Moves(q)' <=> Daytona!Moves(q)
  BY DEF Daytona!Moves
<1>2. OneMoves'
  BY <1>1 DEF DaytonaInv, OneMoves
<1>3. said'.state # None => \A st : Daytona!Shown(st, row'.md) = Daytona!Shown(st, row.md)
  BY DaytonaSame
<1>4. Restores'
  BY <1>3 DEF DaytonaInv, Restores, Daytona!Owned
<1>5. Daytona!ShownAsSaid'
  <2>1. ASSUME Daytona!Owned', said'.state # None, row'.st # "lost",
               \A q \in ApiRequests : ~Daytona!Moves(q)'
        PROVE  Daytona!Shown(row'.st, row'.md) = said'.state
    <3>1. Daytona!Shown(row.st, row.md) = said.state
      BY <1>1, <2>1 DEF DaytonaInv, Daytona!ShownAsSaid, Daytona!Owned
    <3> QED BY <1>3, <2>1, <3>1
  <2> QED BY <2>1 DEF Daytona!ShownAsSaid, Daytona!Owned
<1> QED BY <1>2, <1>4, <1>5 DEF DaytonaInv

\* A setting that does not wait.
LEMMA DaytonaSets == ASSUME DaytonaInv, NEW value \in Labels, Daytona!Set(value) PROVE DaytonaInv'
<1>1. DaytonaTypes /\ DaytonaPlaces /\ Daytona!ShownAsSaid
  BY DEF DaytonaInv
<1> DEFINE m == [row.md EXCEPT !.public = value]
<1>2. /\ row' = [st |-> row.st, md |-> m] /\ m \in Daytona!Metadata
      /\ m.labels = row.md.labels /\ m.public = value /\ m.override = row.md.override
  BY <1>1, DaytonaRow DEF Daytona!Set, Daytona!Metadata
<1>3. /\ said' = [labels |-> said.labels, public |-> value, state |-> said.state]
      /\ UNCHANGED <<box, req, faults>> /\ Daytona!Owned
  BY <1>1, DaytonaRow DEF Daytona!Set
<1> HIDE DEF m
<1>4. DaytonaTypes'
  BY <1>1, <1>2, <1>3, DaytonaRow DEF DaytonaTypes
<1>5. DaytonaPlaces'
  BY <1>1, <1>3 DEF DaytonaPlaces
<1>6. row'.md.labels = said'.labels /\ row'.md.public = said'.public
  BY <1>1, <1>2, <1>3 DEF Daytona!ShownAsSaid
<1> QED BY <1>2, <1>3, <1>4, <1>5, <1>6, DaytonaWrites

\* A request that does not move the sandbox takes a place, or ends.
LEMMA DaytonaTakes ==
  ASSUME Daytona!DaytonaBounds, DaytonaInv, NEW q \in ApiRequests, NEW c \in DaytonaCall, req[q].pc \in {"idle", "begun"},
         req' = [req EXCEPT ![q] = c],
         \/ c = Daytona!Idle
         \/ /\ c.pc = "begun" /\ c.what \in {"labels", "snapshot", "remote"}
            /\ c.md \in Daytona!Metadata /\ (c.what = "labels" => c.value \in Labels)
  PROVE  /\ req' \in [ApiRequests -> DaytonaCall] /\ DaytonaPlaces'
         /\ \A p \in ApiRequests :
              \/ req'[p] = req[p]
              \/ ~Daytona!Moves(p) /\ ~Daytona!Moves(p)' /\ req'[p].pc \notin {"acting", "failed"}
<1>1. req \in [ApiRequests -> DaytonaCall] /\ DaytonaPlaces
  BY DEF DaytonaInv, DaytonaTypes
<1>2. /\ req' \in [ApiRequests -> DaytonaCall] /\ req'[q] = c
      /\ \A p \in ApiRequests \ {q} : req'[p] = req[p]
  BY <1>1
<1>3. c.pc \in {"idle", "begun"} /\ c.what \notin Daytona!Moving /\ (c.pc = "idle" => c = Daytona!Idle)
  BY DEF Daytona!Idle, Daytona!Moving, Daytona!DaytonaBounds, Daytona!Kinds
<1>4. ~Daytona!Moves(q) /\ ~Daytona!Moves(q)'
  <2>1. req[q].what \notin Daytona!Moving
    BY <1>1 DEF DaytonaPlaces, Daytona!Idle, Daytona!Moving, Daytona!DaytonaBounds, Daytona!Kinds
  <2> QED BY <1>2, <1>3, <2>1 DEF Daytona!Moves
<1>5. DaytonaPlaces'
  <2>1. ASSUME NEW p \in ApiRequests \ {q}
        PROVE  req'[p] = req[p]
    BY <1>2
  <2>2. c.pc \notin {"acting", "failed", "acted"}
    BY <1>3
  <2>3. c.pc = "begun" => /\ c.what \in {"labels", "snapshot", "remote"}
                          /\ c.md \in Daytona!Metadata /\ (c.what = "labels" => c.value \in Labels)
    BY DEF Daytona!Idle
  <2> QED BY <1>1, <1>2, <1>3, <2>1, <2>2, <2>3 DEF DaytonaPlaces
<1> QED BY <1>2, <1>3, <1>4, <1>5

\* Labels are asked for, or metadata is read elsewhere.
LEMMA DaytonaReads ==
  ASSUME Daytona!DaytonaBounds, DaytonaInv, NEW q \in ApiRequests, NEW value \in Labels,
         \/ Daytona!BeginLabels(q, value) \/ Daytona!BeginElsewhere(q, "remote", value)
         \/ Daytona!BeginElsewhere(q, "snapshot", None)
  PROVE  DaytonaInv'
<1>1. UNCHANGED <<row, box, said, faults>> /\ req[q].pc = "idle"
  BY DEF Daytona!BeginLabels, Daytona!BeginElsewhere, Daytona!At
<1>2. /\ row.md \in Daytona!Metadata /\ [row.md EXCEPT !.labels = value] \in Daytona!Metadata
  BY DaytonaRow DEF DaytonaInv, Daytona!Metadata
<1>3. PICK c \in DaytonaCall :
        /\ req' = [req EXCEPT ![q] = c] /\ c.pc = "begun" /\ c.what \in {"labels", "snapshot", "remote"}
        /\ c.md \in Daytona!Metadata /\ (c.what = "labels" => c.value \in Labels)
  <2>1. CASE Daytona!BeginLabels(q, value)
    <3> DEFINE c == [Daytona!Idle EXCEPT !.what = "labels", !.pc = "begun", !.value = value, !.md = row.md]
    <3>1. c \in DaytonaCall /\ c.pc = "begun" /\ c.what = "labels" /\ c.md = row.md /\ c.value = value
      BY <1>2 DEF DaytonaCall, Daytona!Kinds, Daytona!Idle
    <3>2. req' = [req EXCEPT ![q] = c]
      BY <2>1 DEF Daytona!BeginLabels, Daytona!Does
    <3> HIDE DEF c
    <3> QED BY <1>2, <3>1, <3>2
  <2>2. ASSUME NEW what \in {"remote", "snapshot"}, NEW v \in {value, None},
               Daytona!BeginElsewhere(q, what, v), what = "remote" => v = value
        PROVE  \E c \in DaytonaCall :
                 /\ req' = [req EXCEPT ![q] = c] /\ c.pc = "begun" /\ c.what \in {"labels", "snapshot", "remote"}
                 /\ c.md \in Daytona!Metadata /\ (c.what = "labels" => c.value \in Labels)
    <3> DEFINE m == IF what = "remote" THEN [row.md EXCEPT !.labels = v] ELSE row.md
               c == [Daytona!Idle EXCEPT !.what = what, !.pc = "begun", !.md = m]
    <3>1. m \in Daytona!Metadata
      BY <1>2, <2>2
    <3>2. req' = [req EXCEPT ![q] = c]
      BY <2>2 DEF Daytona!BeginElsewhere, Daytona!Does
    <3> HIDE DEF m
    <3>3. c \in DaytonaCall /\ c.pc = "begun" /\ c.what = what /\ c.md = m
      BY <3>1 DEF DaytonaCall, Daytona!Kinds, Daytona!Idle
    <3> HIDE DEF c
    <3> QED BY <3>1, <3>2, <3>3
  <2> QED BY <2>1, <2>2
<1>4. /\ req' \in [ApiRequests -> DaytonaCall] /\ DaytonaPlaces'
      /\ \A p \in ApiRequests :
           \/ req'[p] = req[p]
           \/ ~Daytona!Moves(p) /\ ~Daytona!Moves(p)' /\ req'[p].pc \notin {"acting", "failed"}
  BY <1>1, <1>3, DaytonaTakes
<1>5. DaytonaTypes'
  BY <1>1, <1>4 DEF DaytonaInv, DaytonaTypes
<1>6. Daytona!Owned' => row'.md.labels = said'.labels /\ row'.md.public = said'.public
  BY <1>1 DEF DaytonaInv, Daytona!ShownAsSaid, Daytona!Owned
<1> QED BY <1>1, <1>4, <1>5, <1>6, DaytonaWrites

\* A request writes the metadata.
LEMMA DaytonaWrote ==
  ASSUME Daytona!DaytonaBounds, DaytonaInv, NEW q \in ApiRequests,
         Daytona!SetLabels(q) \/ Daytona!WriteElsewhere(q)
  PROVE  DaytonaInv'
<1>1. /\ UNCHANGED <<box, faults>> /\ req[q].pc = "begun" /\ req' = [req EXCEPT ![q] = Daytona!Idle]
  BY DEF Daytona!SetLabels, Daytona!WriteElsewhere, Daytona!At, Daytona!Answered, Daytona!Does
<1>2. Daytona!Idle \in DaytonaCall
  BY DEF Daytona!Idle, DaytonaCall
<1>3. /\ req' \in [ApiRequests -> DaytonaCall] /\ DaytonaPlaces'
      /\ \A p \in ApiRequests :
           \/ req'[p] = req[p]
           \/ ~Daytona!Moves(p) /\ ~Daytona!Moves(p)' /\ req'[p].pc \notin {"acting", "failed"}
  BY <1>1, <1>2, DaytonaTakes
<1>4. /\ req[q].md \in Daytona!Metadata /\ (req[q].what = "labels" => req[q].value \in Labels)
      /\ DaytonaTypes /\ Daytona!ShownAsSaid
  BY <1>1 DEF DaytonaInv, DaytonaPlaces
<1>5. CASE UNCHANGED <<row, said>>
  <2>1. DaytonaTypes'
    BY <1>1, <1>3, <1>4, <1>5 DEF DaytonaTypes
  <2>2. Daytona!Owned' => row'.md.labels = said'.labels /\ row'.md.public = said'.public
    BY <1>4, <1>5 DEF Daytona!ShownAsSaid, Daytona!Owned
  <2> QED BY <1>3, <1>5, <2>1, <2>2, DaytonaWrites
<1>6. CASE Daytona!SetLabels(q) /\ Daytona!Owned
  <2> DEFINE m == [row.md EXCEPT !.labels = req[q].value]
  <2>1. req[q].value \in Labels
    BY <1>4, <1>6 DEF Daytona!SetLabels
  <2>2. /\ row' = [st |-> row.st, md |-> m] /\ m \in Daytona!Metadata
        /\ m.labels = req[q].value /\ m.public = row.md.public /\ m.override = row.md.override
    BY <1>4, <1>6, <2>1, DaytonaRow DEF Daytona!SetLabels, Daytona!ReadAgain, Daytona!Metadata
  <2>3. said' = [labels |-> req[q].value, public |-> said.public, state |-> said.state]
    BY <1>4, <1>6, DaytonaRow DEF Daytona!SetLabels
  <2> HIDE DEF m
  <2>4. DaytonaTypes'
    BY <1>1, <1>3, <1>4, <2>1, <2>2, <2>3, DaytonaRow DEF DaytonaTypes
  <2>5. row'.md.labels = said'.labels /\ row'.md.public = said'.public
    BY <1>4, <1>6, <2>2, <2>3 DEF Daytona!ShownAsSaid
  <2> QED BY <1>3, <2>2, <2>3, <2>4, <2>5, DaytonaWrites
<1>7. CASE Daytona!WriteElsewhere(q) /\ Daytona!Owned
  <2> DEFINE m == req[q].md
  <2>1. PICK s \in Daytona!Shows \cup {None} :
          /\ said' = [labels |-> m.labels, public |-> m.public, state |-> s]
          /\ s = None \/ (s = said.state /\ m.override = row.md.override)
    BY <1>4, <1>7, DaytonaRow DEF Daytona!WriteElsewhere
  <2>2. row' = [st |-> row.st, md |-> m] /\ m \in Daytona!Metadata /\ m.labels \in Labels /\ m.public \in Labels
    BY <1>4, <1>7, DaytonaRow DEF Daytona!WriteElsewhere, Daytona!Metadata
  <2> HIDE DEF m
  <2>3. DaytonaTypes'
    BY <1>1, <1>3, <1>4, <2>1, <2>2, DaytonaRow DEF DaytonaTypes
  <2> QED BY <1>3, <2>1, <2>2, <2>3, DaytonaWrites
<1> QED
  BY <1>5, <1>6, <1>7 DEF Daytona!SetLabels, Daytona!WriteElsewhere

\* A request begins to move the sandbox, or finds that its container is not as it should be.
LEMMA DaytonaBegins ==
  ASSUME Daytona!DaytonaBounds, DaytonaInv, NEW q \in ApiRequests, NEW what \in Daytona!Moving,
         Daytona!BeginMove(q, what)
  PROVE  DaytonaInv'
<1>1. /\ UNCHANGED <<box, faults>> /\ req[q].pc = "idle" /\ Daytona!Owned
      /\ DaytonaTypes /\ DaytonaPlaces /\ Daytona!ShownAsSaid
      /\ req[q] = Daytona!Idle
  BY DEF Daytona!BeginMove, Daytona!At, DaytonaInv, DaytonaPlaces
<1>2. ~Daytona!Moves(q)
  BY <1>1 DEF Daytona!Moves, Daytona!Idle, Daytona!DaytonaBounds, Daytona!Kinds
<1>3. CASE row' = Daytona!Update("lost") /\ UNCHANGED <<req, said>>
  <2>1. row' = [st |-> "lost", md |-> row.md]
    BY <1>1, <1>3, DaytonaRow DEF Daytona!Update
  <2>2. DaytonaTypes'
    <3>1. row' \in [st : Daytona!States, md : Daytona!Metadata]
      BY <1>1, <2>1, DaytonaRow DEF Daytona!States
    <3> QED BY <1>1, <1>3, <3>1 DEF DaytonaTypes
  <2>3. DaytonaPlaces'
    BY <1>1, <1>3 DEF DaytonaPlaces
  <2>4. OneMoves'
    BY <1>3 DEF DaytonaInv, OneMoves, Daytona!Moves
  <2>5. Restores'
    BY <1>1, <1>3, <2>1 DEF DaytonaInv, Restores
  <2>6. Daytona!ShownAsSaid'
    BY <1>1, <1>3, <2>1 DEF Daytona!ShownAsSaid
  <2> QED BY <2>2, <2>3, <2>4, <2>5, <2>6 DEF DaytonaInv
<1>4. CASE /\ Daytona!Does(q, [Daytona!Idle EXCEPT !.what = what, !.pc = "acting", !.prev = row.st])
           /\ row' = Daytona!Update(IF what = "start" THEN "resuming" ELSE "pausing")
           /\ said' = [said EXCEPT !.state = IF Daytona!Others(q) THEN None ELSE @]
  <2> DEFINE c == [Daytona!Idle EXCEPT !.what = what, !.pc = "acting", !.prev = row.st]
  <2>1. /\ c \in DaytonaCall /\ c.what = what /\ c.pc = "acting" /\ c.prev = row.st
    BY <1>1, DaytonaRow DEF DaytonaCall, Daytona!Idle, Daytona!Kinds
  <2>2. req' = [req EXCEPT ![q] = c]
    BY <1>4 DEF Daytona!Does
  <2> HIDE DEF c
  <2>3. /\ req' \in [ApiRequests -> DaytonaCall] /\ req'[q] = c
        /\ \A p \in ApiRequests \ {q} : req'[p] = req[p]
    BY <1>1, <2>1, <2>2 DEF DaytonaTypes
  <2>4. PICK s \in {"resuming", "pausing"} : row' = [st |-> s, md |-> row.md]
    BY <1>1, <1>4, DaytonaRow DEF Daytona!Update
  <2>5. PICK n \in {said.state, None} :
          /\ said' = [labels |-> said.labels, public |-> said.public, state |-> n]
          /\ Daytona!Others(q) => n = None
    BY <1>1, <1>4, DaytonaRow
  <2>6. DaytonaTypes'
    BY <1>1, <2>3, <2>4, <2>5, DaytonaRow DEF DaytonaTypes, Daytona!States
  <2>7. DaytonaPlaces'
    BY <1>1, <2>1, <2>3, DaytonaRow DEF DaytonaPlaces, Daytona!Owned
  <2>8. said'.state # None => /\ said'.state = said.state
                              /\ \A p \in ApiRequests \ {q} : ~Daytona!Moves(p) /\ ~Daytona!Moves(p)'
    BY <2>3, <2>5 DEF Daytona!Others, Daytona!Moves
  <2>9. OneMoves'
    BY <2>8 DEF OneMoves
  <2>10. Restores'
    <3> SUFFICES ASSUME said'.state # None, NEW p \in ApiRequests, req'[p].pc \in {"acting", "failed"}
                 PROVE  /\ req'[p].prev = "lost" \/ Daytona!Shown(req'[p].prev, row'.md) = said'.state
                        /\ req'[p].pc = "failed" => row'.st \in {req'[p].prev, "lost"}
      BY DEF Restores
    <3>1. p = q
      BY <2>7, <2>8 DEF DaytonaPlaces, Daytona!Moves
    <3>2. \A x \in ApiRequests : ~Daytona!Moves(x)
      BY <1>2, <2>8
    <3>3. row.st = "lost" \/ Daytona!Shown(row.st, row.md) = said.state
      BY <1>1, <2>8, <3>2 DEF Daytona!ShownAsSaid
    <3> QED BY <2>1, <2>3, <2>4, <2>8, <3>1, <3>3
  <2>11. Daytona!Moves(q)'
    BY <2>1, <2>3 DEF Daytona!Moves
  <2>12. Daytona!ShownAsSaid'
    BY <1>1, <2>4, <2>5, <2>11 DEF Daytona!ShownAsSaid
  <2> QED BY <2>6, <2>7, <2>9, <2>10, <2>12 DEF DaytonaInv
<1> QED BY <1>3, <1>4 DEF Daytona!BeginMove

\* The runtime has answered a request that moves the sandbox.
LEMMA DaytonaActed ==
  ASSUME DaytonaInv, NEW q \in ApiRequests, req[q].pc = "acting", NEW to \in {"acted", "failed"},
         NEW c \in DaytonaCall, c.pc = to, c.prev = req[q].prev, c.what = req[q].what,
         req' = [req EXCEPT ![q] = c], said' = said,
         NEW st \in Daytona!States \ {"gone"}, row' = Daytona!Update(st),
         to = "failed" => st = req[q].prev,
         box' \in {"running", "paused"}, faults' \in 0..FewFaults
  PROVE  DaytonaInv'
<1>1. DaytonaTypes /\ DaytonaPlaces /\ Daytona!ShownAsSaid
  BY DEF DaytonaInv
<1>2. c \in DaytonaCall /\ c.pc = to /\ c.prev = req[q].prev /\ c.what = req[q].what
  OBVIOUS
<1>4. /\ req' \in [ApiRequests -> DaytonaCall] /\ req'[q] = c
      /\ \A p \in ApiRequests \ {q} : req'[p] = req[p]
  BY <1>1 DEF DaytonaTypes
<1>5. /\ row' = [st |-> IF Daytona!Owned THEN st ELSE row.st, md |-> row.md]
      /\ Daytona!Owned' <=> Daytona!Owned
  BY <1>1, DaytonaRow DEF Daytona!Update, Daytona!Owned
<1>6. req[q].what \in Daytona!Moving /\ req[q].prev \in Daytona!States \ {"gone"}
  BY <1>1 DEF DaytonaPlaces
<1>7. DaytonaTypes'
  <2>1. row' \in [st : Daytona!States, md : Daytona!Metadata]
    <3>1. PICK s \in Daytona!States : row' = [st |-> s, md |-> row.md]
      BY <1>1, <1>5, DaytonaRow
    <3>2. row.md \in Daytona!Metadata
      BY <1>1, DaytonaRow
    <3> QED BY <3>1, <3>2
  <2>2. UNCHANGED said /\ box' \in {"running", "paused"} /\ faults' \in 0..FewFaults
    OBVIOUS
  <2> QED BY <1>1, <1>4, <2>1, <2>2 DEF DaytonaTypes
<1>8. DaytonaPlaces'
  BY <1>1, <1>2, <1>4, <1>6 DEF DaytonaPlaces
<1>9. \A p \in ApiRequests : Daytona!Moves(p)' <=> Daytona!Moves(p)
  BY <1>2, <1>4 DEF Daytona!Moves
<1>10. OneMoves'
  BY <1>9 DEF DaytonaInv, OneMoves
<1>0. Restores'
  <2> SUFFICES ASSUME Daytona!Owned', said'.state # None, NEW p \in ApiRequests,
                      req'[p].pc \in {"acting", "failed"}
               PROVE  /\ req'[p].prev = "lost" \/ Daytona!Shown(req'[p].prev, row'.md) = said'.state
                      /\ req'[p].pc = "failed" => row'.st \in {req'[p].prev, "lost"}
    BY DEF Restores
  <2>1. Daytona!Moves(p) /\ Daytona!Moves(q)
    BY <1>6, <1>8, <1>9 DEF DaytonaPlaces, Daytona!Moves
  <2>2. p = q
    BY <2>1 DEF DaytonaInv, OneMoves
  <2>3. req[q].prev = "lost" \/ Daytona!Shown(req[q].prev, row.md) = said.state
    BY <1>5 DEF DaytonaInv, Restores
  <2> QED BY <1>2, <1>4, <1>5, <2>2, <2>3
<1>12. Daytona!Moves(q)'
  BY <1>6, <1>9 DEF Daytona!Moves
<1>13. Daytona!ShownAsSaid'
  BY <1>1, <1>5, <1>12 DEF Daytona!ShownAsSaid
<1> QED BY <1>7, <1>8, <1>10, <1>0, <1>13 DEF DaytonaInv

\* The client of a request that moved the sandbox is answered.
LEMMA DaytonaAnswers ==
  ASSUME Daytona!DaytonaBounds, DaytonaInv, NEW q \in ApiRequests, Daytona!AnswerMove(q)
  PROVE  DaytonaInv'
<1>1. /\ req' = [req EXCEPT ![q] = Daytona!Idle] /\ UNCHANGED <<box, faults>>
      /\ req[q].pc \in {"acted", "failed"} /\ DaytonaTypes /\ DaytonaPlaces /\ Daytona!ShownAsSaid
  BY DEF Daytona!AnswerMove, Daytona!Answered, Daytona!Does, Daytona!At, DaytonaInv
<1>2. Daytona!Idle \in DaytonaCall /\ Daytona!Idle.pc = "idle" /\ Daytona!Idle.what \notin Daytona!Moving
  BY DEF Daytona!Idle, DaytonaCall, Daytona!DaytonaBounds, Daytona!Kinds
<1>3. /\ req' \in [ApiRequests -> DaytonaCall] /\ req'[q] = Daytona!Idle
      /\ \A p \in ApiRequests \ {q} : req'[p] = req[p]
  BY <1>1, <1>2 DEF DaytonaTypes
<1>4. DaytonaPlaces'
  BY <1>1, <1>2, <1>3 DEF DaytonaPlaces
<1>5. ~Daytona!Moves(q)' /\ \A p \in ApiRequests \ {q} : Daytona!Moves(p)' <=> Daytona!Moves(p)
  BY <1>2, <1>3 DEF Daytona!Moves
<1>6. req[q].what \in Daytona!Moving
  BY <1>1 DEF DaytonaPlaces
<1>7. CASE /\ row' = IF ~Daytona!Owned THEN row
                    ELSE [row EXCEPT !.md.override = Daytona!Override(q),
                                     !.st = IF req[q].what = "start" /\ ~Daytona!Matches(@) THEN "lost" ELSE @]
           /\ said' = [said EXCEPT !.state = IF Daytona!Others(q) THEN None ELSE Daytona!Shown(row'.st, row'.md)]
  <2> DEFINE o == Daytona!Override(q)
             m == [row.md EXCEPT !.override = o]
             s == IF req[q].what = "start" /\ ~Daytona!Matches(row.st) THEN "lost" ELSE row.st
  <2>1. o \in {"", "paused", "stopped"}
    BY <1>6 DEF Daytona!Override, Daytona!Moving
  <2>2. m \in Daytona!Metadata /\ m.labels = row.md.labels /\ m.public = row.md.public
    BY <1>1, <2>1, DaytonaRow DEF Daytona!Metadata
  <2>3. s \in Daytona!States /\ (Daytona!Owned => s # "gone")
    BY <1>1, DaytonaRow DEF Daytona!States, Daytona!Owned
  <2>0. row' = IF ~Daytona!Owned THEN row ELSE [row EXCEPT !.md.override = o, !.st = s]
    BY <1>7
  <2> HIDE DEF o, s
  <2>4. row' = IF Daytona!Owned THEN [st |-> s, md |-> m] ELSE row
    <3>1. row \in [st : Daytona!States, md : Daytona!Metadata] /\ row.md \in Daytona!Metadata
      BY <1>1 DEF DaytonaTypes
    <3>2. [row EXCEPT !.md.override = o, !.st = s] = [st |-> s, md |-> m]
      <4> DEFINE r == [row EXCEPT !.md.override = o]
      <4>1. r = [st |-> row.st, md |-> m]
        <5>1. r = [row EXCEPT !.md = m]
          OBVIOUS
        <5> HIDE DEF r, m
        <5> QED BY <3>1, <5>1
      <4>2. [row EXCEPT !.md.override = o, !.st = s] = [r EXCEPT !.st = s]
        OBVIOUS
      <4> HIDE DEF r, m
      <4>3. [r EXCEPT !.st = s] = [st |-> s, md |-> m]
        BY <4>1
      <4> QED BY <4>2, <4>3
    <3> QED BY <2>0, <3>2
  <2> HIDE DEF m
  <2>5. row' \in [st : Daytona!States, md : Daytona!Metadata]
    BY <1>1, <2>2, <2>3, <2>4 DEF DaytonaTypes
  <2>6. Daytona!Shown(row'.st, row'.md) \in Daytona!Shows
    BY <2>5, DaytonaShows
  <2>7. PICK n \in Daytona!Shows \cup {None} :
          /\ said' = [labels |-> said.labels, public |-> said.public, state |-> n]
          /\ n # None => ~Daytona!Others(q) /\ n = Daytona!Shown(row'.st, row'.md)
    <3> DEFINE n == IF Daytona!Others(q) THEN None ELSE Daytona!Shown(row'.st, row'.md)
    <3>1. said' = [said EXCEPT !.state = n]
      BY <1>7
    <3>2. /\ n \in Daytona!Shows \cup {None}
          /\ n # None => ~Daytona!Others(q) /\ n = Daytona!Shown(row'.st, row'.md)
      BY <2>6
    <3> HIDE DEF n
    <3>3. said' = [labels |-> said.labels, public |-> said.public, state |-> n]
      BY <1>1, <3>1, DaytonaRow
    <3> QED BY <3>2, <3>3
  <2>8. said' \in [labels : Labels, public : Labels, state : Daytona!Shows \cup {None}]
    BY <1>1, <2>7, DaytonaRow
  <2>9. DaytonaTypes'
    BY <1>1, <1>3, <2>5, <2>8 DEF DaytonaTypes
  <2>10. said'.state # None => \A p \in ApiRequests : ~Daytona!Moves(p)'
    BY <1>5, <2>7 DEF Daytona!Others
  <2>11. OneMoves'
    BY <2>10 DEF OneMoves
  <2>12. Restores'
    BY <1>4, <2>10 DEF Restores, DaytonaPlaces, Daytona!Moves
  <2>13. Daytona!Owned' <=> Daytona!Owned
    BY <2>3, <2>4 DEF Daytona!Owned
  <2>14. Daytona!ShownAsSaid'
    BY <1>1, <2>2, <2>4, <2>7, <2>13 DEF Daytona!ShownAsSaid
  <2> QED BY <1>4, <2>9, <2>11, <2>12, <2>14 DEF DaytonaInv
<1>8. CASE req[q].pc = "failed" /\ UNCHANGED <<row, said>>
  <2>1. DaytonaTypes'
    BY <1>1, <1>3, <1>8 DEF DaytonaTypes
  <2>2. OneMoves'
    BY <1>5, <1>8 DEF DaytonaInv, OneMoves
  <2>3. Restores'
    BY <1>2, <1>3, <1>8 DEF DaytonaInv, Restores, Daytona!Owned
  <2>4. Daytona!ShownAsSaid'
    <3>1. ASSUME Daytona!Owned', said'.state # None, row'.st # "lost"
          PROVE  Daytona!Shown(row'.st, row'.md) = said'.state
      BY <1>8, <3>1 DEF DaytonaInv, Restores, Daytona!Owned
    <3> QED BY <1>1, <1>8, <3>1 DEF Daytona!ShownAsSaid, Daytona!Owned
  <2> QED BY <1>4, <2>1, <2>2, <2>3, <2>4 DEF DaytonaInv
<1> QED BY <1>7, <1>8 DEF Daytona!AnswerMove, Daytona!At

\* A sandbox is deleted.
LEMMA DaytonaDeletes == ASSUME DaytonaInv, Daytona!Delete PROVE DaytonaInv'
<1>1. UNCHANGED <<box, req, said, faults>> /\ DaytonaTypes /\ DaytonaPlaces
  BY DEF Daytona!Delete, DaytonaInv
<1>2. row' = [st |-> "gone", md |-> row.md]
  BY <1>1, DaytonaRow DEF Daytona!Delete
<1>3. row' \in [st : Daytona!States, md : Daytona!Metadata]
  BY <1>1, <1>2, DaytonaRow DEF Daytona!States
<1>4. DaytonaTypes'
  BY <1>1, <1>3 DEF DaytonaTypes
<1>5. DaytonaPlaces'
  BY <1>1 DEF DaytonaPlaces
<1>6. OneMoves'
  BY <1>1 DEF DaytonaInv, OneMoves, Daytona!Moves
<1>7. Restores' /\ Daytona!ShownAsSaid'
  BY <1>2 DEF Restores, Daytona!ShownAsSaid, Daytona!Owned
<1> QED BY <1>4, <1>5, <1>6, <1>7 DEF DaytonaInv

\* The runtime is asked, and acts or refuses.
LEMMA DaytonaActs ==
  ASSUME Daytona!DaytonaBounds, DaytonaInv, NEW q \in ApiRequests, Daytona!Acts(q) \/ Daytona!ActFails(q)
  PROVE  DaytonaInv'
<1>1. req[q].pc = "acting" /\ UNCHANGED said /\ DaytonaTypes
  BY DEF Daytona!Acts, Daytona!ActFails, Daytona!At, DaytonaInv
<1>2. Daytona!Target(q) \in {"running", "paused"}
  BY DEF Daytona!Target
<1>3. Daytona!Target(q) \in Daytona!States \ {"gone"}
  BY <1>2 DEF Daytona!States
<1>4. req[q].prev \in Daytona!States \ {"gone"}
  BY <1>1 DEF DaytonaInv, DaytonaPlaces
<1>5. CASE /\ req' = [req EXCEPT ![q] = [req[q] EXCEPT !.pc = "acted"]]
           /\ row' = Daytona!Update(Daytona!Target(q))
           /\ box' \in {"running", "paused"} /\ UNCHANGED faults
  <2> DEFINE c == [req[q] EXCEPT !.pc = "acted"]
  <2>1. faults' \in 0..FewFaults /\ req' = [req EXCEPT ![q] = c]
    BY <1>1, <1>5 DEF DaytonaTypes
  <2>2. c \in DaytonaCall /\ c.pc = "acted" /\ c.prev = req[q].prev /\ c.what = req[q].what
    BY <1>1 DEF DaytonaTypes, DaytonaCall
  <2> HIDE DEF c
  <2> QED BY <1>1, <1>3, <1>5, <2>1, <2>2, DaytonaActed
<1>6. CASE /\ req' = [req EXCEPT ![q] = [req[q] EXCEPT !.pc = "failed"]]
           /\ row' = Daytona!Update(req[q].prev) /\ faults < FewFaults /\ faults' = faults + 1
           /\ UNCHANGED box
  <2> DEFINE c == [req[q] EXCEPT !.pc = "failed"]
  <2>1. faults' \in 0..FewFaults
    BY <1>1, <1>6 DEF DaytonaTypes, Daytona!DaytonaBounds
  <2>2. box' \in {"running", "paused"} /\ req' = [req EXCEPT ![q] = c]
    BY <1>1, <1>6 DEF DaytonaTypes
  <2>3. c \in DaytonaCall /\ c.pc = "failed" /\ c.prev = req[q].prev /\ c.what = req[q].what
    BY <1>1 DEF DaytonaTypes, DaytonaCall
  <2> HIDE DEF c
  <2> QED BY <1>1, <1>4, <1>6, <2>1, <2>2, <2>3, DaytonaActed
<1>7. CASE Daytona!Acts(q)
  BY <1>2, <1>5, <1>7 DEF Daytona!Acts, Daytona!Does
<1>8. CASE Daytona!ActFails(q)
  <2>1. box \in {"running", "paused"}
    BY <1>1 DEF DaytonaTypes
  <2>2. CASE box = Daytona!Target(q)
    BY <1>5, <1>8, <2>1, <2>2 DEF Daytona!ActFails, Daytona!Does
  <2>3. CASE box # Daytona!Target(q)
    BY <1>6, <1>8, <2>3 DEF Daytona!ActFails, Daytona!Does
  <2> QED BY <2>2, <2>3
<1> QED BY <1>7, <1>8

\* It holds of a sandbox that was just created.
LEMMA DaytonaStarts ==
  ASSUME Daytona!DaytonaBounds, Daytona!Init PROVE DaytonaInv
<1>0. 0 \in 0..FewFaults
  BY DEF Daytona!DaytonaBounds
<1>1. PICK m \in [labels : Labels, public : Labels, override : {""}] :
        row = [st |-> "running", md |-> m]
  BY DEF Daytona!Init
<1>2. /\ m \in Daytona!Metadata /\ m.labels \in Labels /\ m.public \in Labels
  BY DEF Daytona!Metadata
<1>3. said = [labels |-> m.labels, public |-> m.public, state |-> "started"]
  BY <1>1 DEF Daytona!Init
<1>4. Daytona!Idle \in DaytonaCall /\ Daytona!Idle.pc = "idle" /\ Daytona!Idle.what \notin Daytona!Moving
  BY DEF Daytona!Idle, DaytonaCall, Daytona!DaytonaBounds, Daytona!Kinds
<1>5. req = [q \in ApiRequests |-> Daytona!Idle]
  BY DEF Daytona!Init
<1>6. DaytonaTypes
  <2>1. row \in [st : Daytona!States, md : Daytona!Metadata]
    BY <1>1, <1>2 DEF Daytona!States
  <2>2. said \in [labels : Labels, public : Labels, state : Daytona!Shows \cup {None}]
    BY <1>2, <1>3 DEF Daytona!Shows
  <2>3. req \in [ApiRequests -> DaytonaCall]
    BY <1>4, <1>5
  <2>4. box \in {"running", "paused"} /\ faults = 0
    BY DEF Daytona!Init
  <2> QED BY <1>0, <2>1, <2>2, <2>3, <2>4 DEF DaytonaTypes
<1>7. DaytonaPlaces /\ Restores
  BY <1>4, <1>5 DEF DaytonaPlaces, Restores
<1>8. OneMoves
  BY <1>4, <1>5 DEF OneMoves, Daytona!Moves
<1>9. Daytona!Shown("running", m) = "started"
  BY DEF Daytona!Shown
<1>10. Daytona!ShownAsSaid
  BY <1>1, <1>3, <1>9 DEF Daytona!ShownAsSaid
<1> QED BY <1>6, <1>7, <1>8, <1>10 DEF DaytonaInv

\* The settings of a sandbox and the requests that move it, always.
LEMMA AlwaysDaytonaInv ==
  ASSUME Daytona!DaytonaBounds PROVE Daytona!Spec => []DaytonaInv
<1>1. Daytona!Init => DaytonaInv
  BY DaytonaStarts
<1>2. DaytonaInv /\ [Daytona!Next]_Daytona!vars => DaytonaInv'
  <2> SUFFICES ASSUME DaytonaInv, [Daytona!Next]_Daytona!vars PROVE DaytonaInv'
    OBVIOUS
  <2>1. CASE UNCHANGED Daytona!vars
    BY <2>1 DEF Daytona!vars, DaytonaInv, DaytonaTypes, DaytonaPlaces, OneMoves, Restores,
                Daytona!ShownAsSaid, Daytona!Owned, Daytona!Moves
  <2>2. ASSUME NEW value \in Labels, Daytona!Set(value) PROVE DaytonaInv'
    BY <2>2, DaytonaSets
  <2>3. ASSUME NEW q \in ApiRequests, NEW value \in Labels,
               Daytona!BeginLabels(q, value) \/ Daytona!BeginElsewhere(q, "remote", value)
        PROVE  DaytonaInv'
    BY <2>3, DaytonaReads
  <2>4. ASSUME NEW q \in ApiRequests, Daytona!BeginElsewhere(q, "snapshot", None) PROVE DaytonaInv'
    <3>1. row.md.labels \in Labels
      BY DaytonaRow DEF DaytonaInv
    <3> QED BY <2>4, <3>1, DaytonaReads
  <2>5. ASSUME NEW q \in ApiRequests, Daytona!SetLabels(q) \/ Daytona!WriteElsewhere(q) PROVE DaytonaInv'
    BY <2>5, DaytonaWrote
  <2>6. ASSUME NEW q \in ApiRequests, NEW what \in Daytona!Moving, Daytona!BeginMove(q, what)
        PROVE  DaytonaInv'
    BY <2>6, DaytonaBegins
  <2>7. ASSUME NEW q \in ApiRequests, Daytona!Acts(q) \/ Daytona!ActFails(q) PROVE DaytonaInv'
    BY <2>7, DaytonaActs
  <2>8. ASSUME NEW q \in ApiRequests, Daytona!AnswerMove(q) PROVE DaytonaInv'
    BY <2>8, DaytonaAnswers
  <2>9. ASSUME Daytona!Delete PROVE DaytonaInv'
    BY <2>9, DaytonaDeletes
  <2> QED BY <2>1, <2>2, <2>3, <2>4, <2>5, <2>6, <2>7, <2>8, <2>9 DEF Daytona!Next
<1> QED BY <1>1, <1>2, PTL DEF Daytona!Spec

\* A sandbox is shown as its client was told last (src/api-service/handlers/daytona_compat.py),
\* whatever other requests move it or write its settings, but for those it names.
THEOREM ShowsWhatItSaid ==
  ASSUME Daytona!DaytonaBounds PROVE Daytona!Spec => []Daytona!ShownAsSaid
<1>1. DaytonaInv => Daytona!ShownAsSaid
  BY DEF DaytonaInv
<1> QED BY <1>1, AlwaysDaytonaInv, PTL

-----------------------------------------------------------------------------
(* Sessions of the Daytona toolbox *)

Dicts == UNION {[S -> Toolbox!Session] : S \in SUBSET Toolbox!Ids}
Metas == [Toolbox!Kinds -> Dicts \cup {None}]
Asking ==
  [pc : {"idle", "start", "open", "answer", "kill", "send", "collect", "resize", "event", "live",
         "load", "merge", "write", "done"},
   then : {"send", "event", "live", "done"}, op : Toolbox!Ops \cup {None},
   id : Toolbox!Ids \cup {None}, at : Replicas \cup {None}, mine : Dicts, loaded : Metas,
   pid : 0..MaxPids, again : BOOLEAN, stale : BOOLEAN, killed : BOOLEAN, lost : 0..MaxPids]
Started == [of : Toolbox!Ids \cup {None}, st : {"none", "alive", "ended", "gone"}]

ToolboxTypes ==
  meta \in Metas /\ process \in [Toolbox!Pids -> Started] /\ req \in [Toolbox!Requests -> Asking]

IsAlive(p) == process[p].st = "alive"
Busy(c) == c.pc \notin {"idle", "done"}
Saving(c) == c.pc \in {"load", "merge", "write"}
Ours(c) == c.mine[c.id]
DictFor(c, md) == Toolbox!Dict(md, Toolbox!KindOf(c.id))
Theirs(c, md) == DictFor(c, md)[c.id]

\* The pid of a session is of its process, and a shell has one.
OwnPid(session, i) ==
  /\ session.pid > 0 => process[session.pid].of = i /\ process[session.pid].st # "none"
  /\ i \in Shells => session.pid > 0
OwnPids(dict) == \A i \in DOMAIN dict : OwnPid(dict[i], i)
RequestOwns(c) ==
  /\ \A k \in Toolbox!Kinds : OwnPids(Toolbox!Dict(c.loaded, k))
  /\ \A i \in DOMAIN c.mine :
       OwnPid(c.mine[i], i) \/ (i = c.id /\ c.op = "create" /\ c.pc \in {"start", "answer"})
  /\ c.pid > 0 => process[c.pid].of = c.id /\ process[c.pid].st # "none"
PidsOwned ==
  /\ \A k \in Toolbox!Kinds : OwnPids(Toolbox!Dict(meta, k))
  /\ \A q \in Toolbox!Requests : RequestOwns(req[q])

\* The pids are given in their order.
PidsInOrder ==
  \A p, o \in Toolbox!Pids : o < p /\ process[p].st # "none" => process[o].st # "none"

\* What a request does fits its session's kind, and where it is fits what it does.
Fits(c) ==
  /\ c.pc = "idle" => c = Toolbox!Fresh
  /\ c.pc = "done" => c.pid = 0
  /\ c.pc # "done" => c.lost = 0
  /\ Busy(c) => c.id \in Toolbox!Ids
  /\ c.pc = "start" =>
       c.id \in Shells /\ ((c.op = "create" /\ ~c.again) \/ (c.op = "execute" /\ c.again))
  /\ c.pc = "answer" =>
       /\ c.pid > 0
       /\ \/ c.op = "connect" /\ ~Toolbox!Has(Ours(c))
          \/ /\ c.id \in Shells
             /\ (c.op = "create" /\ ~c.again) \/ (c.op = "execute" /\ c.again)
  /\ c.pc = "kill" => c.op = "delete"
  /\ c.pc = "send" => c.op \in {"execute", "input"}
  /\ c.pc = "collect" => c.op = "execute"
  /\ c.pc = "resize" => c.op = "resize"
  /\ c.pc \in {"open", "event", "live"} => c.op = "connect"
  /\ Busy(c) /\ c.op = "connect" => c.id \notin Shells
  /\ Busy(c) /\ c.op = "execute" => c.id \in Shells
  /\ c.pid > 0 =>
       c.pc = "answer" \/ (c.op = "connect" /\ (Saving(c) \/ c.pc \in {"event", "live"}))
  /\ c.op = "connect" /\ (Saving(c) \/ c.pc \in {"event", "live"}) => c.pid > 0
  /\ Saving(c) /\ c.then = "send" => c.op = "execute" /\ c.again
  /\ Saving(c) /\ c.then \in {"event", "live"} => c.op = "connect"
  /\ Busy(c) => (c.id \in DOMAIN c.mine <=> ~(c.op = "delete" /\ c.pc # "kill"))
  /\ Busy(c) /\ ~c.killed => c.op = "delete" /\ Saving(c)

\* What a request that no write came beside has of its session, and what the row has.
Agree(c, ours, theirs) ==
  /\ theirs.commands \subseteq ours.commands
  /\ ~Saving(c) => ours = theirs
  /\ \/ c.op = "execute" /\ c.then = "send"
     \/ c.op = "connect" /\ c.then = "live"
     \/ ours.pid = theirs.pid
  /\ c.op = "connect" /\ c.then = "live" /\ Saving(c) => ours.pid = c.pid
  /\ (c.op = "connect" /\ c.then = "event") \/ (ours.started <=> theirs.started)
  /\ c.op = "connect" /\ c.pc \notin {"open", "answer"} => ours.started

\* The metadata that a request writes.
WritingBack(c, md) ==
  [md EXCEPT ![Toolbox!KindOf(c.id)] =
     IF c.op = "connect" THEN Toolbox!With(DictFor(c, md), c.id, Ours(c)) ELSE c.mine]

InStep(c, md) ==
  /\ c.pc = "merge" => c.loaded = md
  /\ c.pc = "write" => c.loaded = WritingBack(c, md)
  /\ \A i \in Toolbox!Ids \ {c.id} :
       /\ i \in DOMAIN DictFor(c, md) <=> i \in DOMAIN c.mine
       /\ i \in DOMAIN DictFor(c, md) => DictFor(c, md)[i] = c.mine[i]
  /\ c.op = "create" => c.id \notin DOMAIN DictFor(c, md) /\ Ours(c).commands = {}
  /\ c.op = "delete" /\ c.pc = "kill" =>
       c.id \in DOMAIN DictFor(c, md) /\ Ours(c) = Theirs(c, md)
  /\ c.op \notin {"create", "delete"} =>
       c.id \in DOMAIN DictFor(c, md) /\ Agree(c, Ours(c), Theirs(c, md))

SessionsInStep ==
  \A q \in Toolbox!Requests : Busy(req[q]) /\ ~req[q].stale => InStep(req[q], meta)

\* No write came beside a request, and no kill has failed.
Undisturbed == \A q \in Toolbox!Requests : ~req[q].stale /\ req[q].killed

\* Of its session the process p runs.
Runs(session, i, p) ==
  IsAlive(p) /\ (session.pid = p \/ (session.pid = 0 /\ Toolbox!First(p, i)))

\* The answer to the start of p was lost.
Lost(p) == \E q \in Toolbox!Requests : req[q].lost = p

Deletes(c, md) ==
  c.op = "delete" /\ Saving(c) /\ c.id \in DOMAIN DictFor(c, md) /\ Toolbox!Has(Theirs(c, md))
    => \A p \in Toolbox!Pids : ~Runs(Theirs(c, md), c.id, p)
BeginsAgain(c, md) ==
  c.op = "execute" /\ c.again /\ (c.pc \in {"start", "answer"} \/ (Saving(c) /\ c.then = "send"))
    => \A p \in Toolbox!Pids : ~Runs(Theirs(c, md), c.id, p)
Connects(c, md) ==
  /\ c.op = "connect" /\ (c.pc = "event" \/ (Saving(c) /\ c.then \in {"event", "live"}))
        /\ Toolbox!Has(Theirs(c, md)) =>
       /\ Theirs(c, md).pid \in {0, c.pid}
       /\ \A p \in Toolbox!Pids : Runs(Theirs(c, md), c.id, p) => p = c.pid \/ Lost(p)
  /\ c.pc = "live" => Theirs(c, md).pid = c.pid
  /\ c.op = "connect" /\ Saving(c) /\ c.then = "done" => ~IsAlive(c.pid)

\* The first process of a terminal that runs is known to a request or to the row, or lost.
RowNames(i, p) ==
  LET dict == Toolbox!Dict(meta, "terminal") IN
  /\ i \in DOMAIN dict /\ Toolbox!Has(dict[i])
  /\ dict[i].pid = p \/ dict[i].pid = 0
TerminalsNamed ==
  \A p \in Toolbox!Pids, i \in Toolbox!Ids \ Shells :
    IsAlive(p) /\ Toolbox!First(p, i) =>
      (\E q \in Toolbox!Requests : req[q].pid = p) \/ Lost(p) \/ RowNames(i, p)

WhenCalm ==
  Undisturbed =>
    /\ \A q \in Toolbox!Requests : Busy(req[q]) =>
         Deletes(req[q], meta) /\ BeginsAgain(req[q], meta) /\ Connects(req[q], meta)
    /\ TerminalsNamed

ToolboxInv ==
  ToolboxTypes /\ PidsOwned /\ PidsInOrder /\ (\A q \in Toolbox!Requests : Fits(req[q]))
    /\ SessionsInStep /\ WhenCalm

-----------------------------------------------------------------------------
(* Dictionaries *)

\* A dictionary has sessions for some of the ids.
LEMMA DictHas ==
  ASSUME NEW d \in Dicts
  PROVE  DOMAIN d \subseteq Toolbox!Ids /\ \A i \in DOMAIN d : d[i] \in Toolbox!Session
BY DEF Dicts

\* None is not one of them.
LEMMA DictIsOne == Toolbox!ToolboxBounds => None \notin Dicts
BY DEF Dicts, Toolbox!ToolboxBounds

\* A function from ids to sessions is one.
LEMMA DictOf ==
  ASSUME NEW S \in SUBSET Toolbox!Ids, NEW d \in [S -> Toolbox!Session]
  PROVE  d \in Dicts
BY DEF Dicts

\* A session is put in, or in the place of another.
LEMMA DictWith ==
  ASSUME NEW d \in Dicts, NEW i \in Toolbox!Ids, NEW s \in Toolbox!Session
  PROVE  /\ Toolbox!With(d, i, s) \in Dicts
         /\ DOMAIN Toolbox!With(d, i, s) = DOMAIN d \cup {i}
         /\ Toolbox!With(d, i, s)[i] = s
         /\ \A j \in DOMAIN d \ {i} : Toolbox!With(d, i, s)[j] = d[j]
<1>1. /\ DOMAIN d \cup {i} \in SUBSET Toolbox!Ids
      /\ Toolbox!With(d, i, s) \in [DOMAIN d \cup {i} -> Toolbox!Session]
  BY DictHas DEF Toolbox!With
<1> QED BY <1>1, DictOf DEF Toolbox!With

\* A session of a dictionary is replaced.
LEMMA DictSet ==
  ASSUME NEW d \in Dicts, NEW i \in DOMAIN d, NEW s \in Toolbox!Session
  PROVE  /\ [d EXCEPT ![i] = s] \in Dicts /\ DOMAIN [d EXCEPT ![i] = s] = DOMAIN d
         /\ [d EXCEPT ![i] = s][i] = s
         /\ \A j \in DOMAIN d \ {i} : [d EXCEPT ![i] = s][j] = d[j]
<1>1. DOMAIN d \in SUBSET Toolbox!Ids /\ d \in [DOMAIN d -> Toolbox!Session]
  BY DictHas DEF Dicts
<1>2. [d EXCEPT ![i] = s] \in [DOMAIN d -> Toolbox!Session]
  BY <1>1
<1> QED BY <1>1, <1>2, DictOf

\* A session is taken out.
LEMMA DictWithout ==
  ASSUME NEW d \in Dicts, NEW i
  PROVE  [j \in DOMAIN d \ {i} |-> d[j]] \in Dicts
<1>1. /\ DOMAIN d \ {i} \in SUBSET Toolbox!Ids
      /\ [j \in DOMAIN d \ {i} |-> d[j]] \in [DOMAIN d \ {i} -> Toolbox!Session]
  BY DictHas
<1> QED BY <1>1, DictOf

\* The empty one is a dictionary.
LEMMA DictEmpty == Toolbox!Empty \in Dicts /\ DOMAIN Toolbox!Empty = {}
<1>1. Toolbox!Empty \in [{} -> Toolbox!Session]
  BY DEF Toolbox!Empty
<1> QED BY <1>1, DictOf DEF Toolbox!Empty

\* What a row has of a kind is a dictionary.
LEMMA DictThere ==
  ASSUME NEW md \in Metas, NEW k \in Toolbox!Kinds
  PROVE  Toolbox!Dict(md, k) \in Dicts
BY DictEmpty DEF Metas, Toolbox!Dict

\* An id has a kind.
LEMMA KindIsOne ==
  ASSUME NEW i PROVE Toolbox!KindOf(i) \in Toolbox!Kinds
BY DEF Toolbox!KindOf, Toolbox!Kinds

\* What a row has for a request is a dictionary.
LEMMA DictForIs ==
  ASSUME NEW md \in Metas, NEW c PROVE DictFor(c, md) \in Dicts
BY DictThere, KindIsOne DEF DictFor

-----------------------------------------------------------------------------
(* Processes *)

\* Of the processes with a tag one is the first.
LEMMA FirstIsOne ==
  ASSUME NEW i, NEW p \in Toolbox!Pids, NEW o \in Toolbox!Pids,
         Toolbox!First(p, i), Toolbox!First(o, i)
  PROVE  p = o
BY DEF Toolbox!First, Toolbox!Pids

\* The process selected for a session is the one that it runs, if it runs one.
LEMMA SelectedRuns ==
  ASSUME NEW s \in Toolbox!Session, NEW i, NEW p \in Toolbox!Pids, IsAlive(p)
  PROVE  Toolbox!Selected(s, i) = p <=> Runs(s, i, p)
<1>1. p > 0 /\ s.pid \in Int /\ (s.pid > 0 <=> s.pid # 0)
  BY DEF Toolbox!Pids, Toolbox!Session
<1>2. CASE s.pid > 0
  BY <1>1, <1>2 DEF Runs, Toolbox!Selected
<1>3. CASE s.pid = 0
  <2>1. CASE \E o \in Toolbox!Pids : Toolbox!First(o, i)
    <3> DEFINE f == CHOOSE o \in Toolbox!Pids : Toolbox!First(o, i)
    <3>1. f \in Toolbox!Pids /\ Toolbox!First(f, i)
      BY <2>1
    <3>2. Toolbox!Selected(s, i) = f
      BY <1>3, <2>1 DEF Toolbox!Selected
    <3> HIDE DEF f
    <3>3. f = p <=> Toolbox!First(p, i)
      BY <3>1, FirstIsOne
    <3> QED BY <1>1, <1>3, <3>2, <3>3 DEF Runs
  <2>2. CASE ~\E o \in Toolbox!Pids : Toolbox!First(o, i)
    BY <1>1, <1>3, <2>2 DEF Runs, Toolbox!Selected
  <2> QED BY <2>1, <2>2
<1> QED BY <1>1, <1>2, <1>3

\* It is one of the session's own.
LEMMA SelectedOwn ==
  ASSUME NEW s \in Toolbox!Session, NEW i, OwnPid(s, i), Toolbox!Selected(s, i) # 0
  PROVE  /\ Toolbox!Selected(s, i) \in Toolbox!Pids
         /\ process[Toolbox!Selected(s, i)].of = i
         /\ process[Toolbox!Selected(s, i)].st # "none"
         /\ s.pid \in {0, Toolbox!Selected(s, i)}
<1>1. s.pid \in 0..MaxPids
  BY DEF Toolbox!Session
<1>2. CASE s.pid > 0
  BY <1>1, <1>2 DEF OwnPid, Toolbox!Selected, Toolbox!Pids
<1>3. CASE s.pid = 0
  <2> DEFINE f == CHOOSE o \in Toolbox!Pids : Toolbox!First(o, i)
  <2>1. \E o \in Toolbox!Pids : Toolbox!First(o, i)
    BY <1>3 DEF Toolbox!Selected
  <2>2. f \in Toolbox!Pids /\ Toolbox!First(f, i) /\ Toolbox!Selected(s, i) = f
    BY <1>3, <2>1 DEF Toolbox!Selected
  <2> HIDE DEF f
  <2> QED BY <1>3, <2>2 DEF Toolbox!First, Toolbox!Tagged
<1> QED BY <1>1, <1>2, <1>3

\* Processes are started in order, and a process keeps its tag and never lives again.
ProcessesGo ==
  /\ process' \in [Toolbox!Pids -> Started] /\ PidsInOrder'
  /\ \A p \in Toolbox!Pids : process[p].st # "none" =>
       /\ process'[p].of = process[p].of /\ process'[p].st # "none"
       /\ process'[p].st = "alive" => process[p].st = "alive"

\* A pid stays that of its session's process.
LEMMA OwnPidStays ==
  ASSUME ProcessesGo, NEW s \in Toolbox!Session, NEW i, OwnPid(s, i)
  PROVE  OwnPid(s, i)'
<1>1. s.pid > 0 => s.pid \in Toolbox!Pids
  BY DEF Toolbox!Session, Toolbox!Pids
<1> QED BY <1>1 DEF OwnPid, ProcessesGo

\* So do those of a dictionary.
LEMMA OwnPidsStay ==
  ASSUME ProcessesGo, NEW d \in Dicts, OwnPids(d)
  PROVE  OwnPids(d)'
BY DictHas, OwnPidStays DEF OwnPids

\* And those that a request has.
LEMMA RequestOwnsStill ==
  ASSUME ProcessesGo, NEW c \in Asking, RequestOwns(c)
  PROVE  RequestOwns(c)'
<1>1. /\ c.mine \in Dicts /\ c.loaded \in Metas
      /\ c.pid > 0 => c.pid \in Toolbox!Pids
  BY DEF Asking, Toolbox!Pids
<1>2. \A k \in Toolbox!Kinds : OwnPids(Toolbox!Dict(c.loaded, k))'
  BY <1>1, DictThere, OwnPidsStay DEF RequestOwns
<1>3. \A i \in DOMAIN c.mine :
        OwnPid(c.mine[i], i)' \/ (i = c.id /\ c.op = "create" /\ c.pc \in {"start", "answer"})
  BY <1>1, DictHas, OwnPidStays DEF RequestOwns
<1>4. c.pid > 0 => process'[c.pid].of = c.id /\ process'[c.pid].st # "none"
  BY <1>1 DEF RequestOwns, ProcessesGo
<1> QED BY <1>2, <1>3, <1>4 DEF RequestOwns

-----------------------------------------------------------------------------
(* A step that writes no row *)

\* The session of i in the row is s.
OfRow(s, i) ==
  LET dict == Toolbox!Dict(meta, Toolbox!KindOf(i)) IN i \in DOMAIN dict /\ dict[i] = s

\* No session of the row that had a process runs another.
NothingNew ==
  \A i \in Toolbox!Ids, s \in Toolbox!Session :
    OfRow(s, i) /\ Toolbox!Has(s) => \A p \in Toolbox!Pids : Runs(s, i, p)' => Runs(s, i, p)

\* A process whose start's answer was lost stays so.
LostStay == \A p \in Toolbox!Pids : Lost(p) => Lost(p)'

\* What is said of a request when all is calm.
CalmRequest(c) == Deletes(c, meta) /\ BeginsAgain(c, meta) /\ Connects(c, meta)

\* What a request knew of its process stays true when no session of the row runs another.
LEMMA CalmStays ==
  ASSUME meta \in Metas, PidsOwned, UNCHANGED meta, ProcessesGo, NothingNew, LostStay,
         NEW c \in Asking, Busy(c), Fits(c), InStep(c, meta), RequestOwns(c), CalmRequest(c)
  PROVE  CalmRequest(c)'
<1> DEFINE d == DictFor(c, meta)
           s == Theirs(c, meta)
<1>1. /\ d \in Dicts /\ c.id \in Toolbox!Ids /\ UNCHANGED <<d, s>>
      /\ c.id \in DOMAIN d => s \in Toolbox!Session /\ OfRow(s, c.id)
  BY DictForIs, DictHas DEF Fits, Theirs, DictFor, OfRow
<1>2. c.id \in DOMAIN d /\ Toolbox!Has(s) =>
        \A p \in Toolbox!Pids : Runs(s, c.id, p)' => Runs(s, c.id, p)
  BY <1>1 DEF NothingNew
<1>3. Toolbox!Has(s)' <=> Toolbox!Has(s)
  BY <1>1 DEF Toolbox!Has
<1>4. Deletes(c, meta)'
  BY <1>1, <1>2, <1>3 DEF Deletes, CalmRequest
<1>5. BeginsAgain(c, meta)'
  <2>1. c.op = "execute" => c.id \in DOMAIN d /\ c.id \in Shells
    BY DEF Fits, InStep
  <2>2. c.op = "execute" => Toolbox!Has(s)
    <3>1. OwnPids(d)
      BY KindIsOne DEF PidsOwned, DictFor
    <3>2. c.id \in DOMAIN d => OwnPid(s, c.id)
      BY <3>1 DEF OwnPids, Theirs
    <3> QED BY <2>1, <3>2 DEF OwnPid, Toolbox!Has
  <2> QED BY <1>1, <1>2, <2>1, <2>2 DEF BeginsAgain, CalmRequest
<1>6. Connects(c, meta)'
  <2>1. c.op = "connect" => c.id \in DOMAIN d
    BY DEF InStep
  <2>2. c.op = "connect" /\ Saving(c) => (IsAlive(c.pid)' => IsAlive(c.pid))
    <3>1. c.op = "connect" /\ Saving(c) => c.pid \in Toolbox!Pids /\ process[c.pid].st # "none"
      BY DEF Fits, RequestOwns, Asking, Toolbox!Pids
    <3> QED BY <3>1 DEF ProcessesGo, IsAlive
  <2>3. /\ c.op = "connect" /\ (c.pc = "event" \/ (Saving(c) /\ c.then \in {"event", "live"}))
              /\ Toolbox!Has(s)' =>
             /\ s' \in Toolbox!Session
             /\ s.pid \in {0, c.pid}
             /\ \A p \in Toolbox!Pids : Runs(s, c.id, p)' => p = c.pid \/ Lost(p)'
        /\ c.pc = "live" => s.pid = c.pid
        /\ c.op = "connect" /\ Saving(c) /\ c.then = "done" => ~IsAlive(c.pid)'
    BY <1>1, <1>2, <1>3, <2>1, <2>2 DEF Connects, CalmRequest, LostStay
  <2> QED BY <1>1, <2>3 DEF Connects
<1> QED BY <1>4, <1>5, <1>6 DEF CalmRequest

\* The first processes that run are known still, or to the request that moved.
StillKnown(c) ==
  \A p \in Toolbox!Pids, i \in Toolbox!Ids \ Shells :
    (IsAlive(p) /\ Toolbox!First(p, i))' => (IsAlive(p) /\ Toolbox!First(p, i)) \/ c.pid = p

\* The request c becomes d and has the process that c had, unless it is lost or the row names it.
Follows(c, d) ==
  /\ d.stale <=> c.stale
  /\ d.killed => c.killed
  /\ \/ d.pid = c.pid \/ c.pid = 0 \/ d.lost = c.pid
     \/ Undisturbed => \A p \in Toolbox!Pids, i \in Toolbox!Ids \ Shells :
                  p = c.pid /\ (IsAlive(p) /\ Toolbox!First(p, i))' => RowNames(i, p)

\* The request that moves has lost none yet.
LEMMA LostStays ==
  ASSUME ToolboxInv, NEW q \in Toolbox!Requests, NEW c, req' = [req EXCEPT ![q] = c],
         req[q].pc # "done"
  PROVE  LostStay
<1> SUFFICES ASSUME NEW p \in Toolbox!Pids, NEW o \in Toolbox!Requests, req[o].lost = p
             PROVE  Lost(p)'
  BY DEF LostStay, Lost
<1>1. o # q
  BY DEF ToolboxInv, Fits, Toolbox!Pids
<1>2. req'[o] = req[o]
  BY <1>1 DEF ToolboxInv, ToolboxTypes
<1> QED BY <1>2 DEF Lost

\* A request moves, and no row is written.
LEMMA RequestMoves ==
  ASSUME ToolboxInv, UNCHANGED meta, ProcessesGo, Undisturbed => NothingNew,
         NEW q \in Toolbox!Requests, NEW c \in Asking, req' = [req EXCEPT ![q] = c],
         req[q].pc # "done", Fits(c), RequestOwns(c)', Busy(c) /\ ~c.stale => InStep(c, meta),
         Follows(req[q], c), StillKnown(c),
         Undisturbed /\ c.killed /\ Busy(c) => CalmRequest(c)'
  PROVE  ToolboxInv'
<1>1. /\ ToolboxTypes /\ meta \in Metas /\ req \in [Toolbox!Requests -> Asking]
      /\ req' \in [Toolbox!Requests -> Asking] /\ req'[q] = c
      /\ \A o \in Toolbox!Requests \ {q} : req'[o] = req[o]
  BY DEF ToolboxInv, ToolboxTypes
<1>2. ToolboxTypes'
  BY <1>1 DEF ToolboxTypes, ProcessesGo
<1>3. PidsOwned'
  <2>1. \A k \in Toolbox!Kinds : OwnPids(Toolbox!Dict(meta, k))'
    BY <1>1, DictThere, OwnPidsStay DEF ToolboxInv, PidsOwned
  <2>2. \A o \in Toolbox!Requests : \E e \in Asking : req'[o] = e /\ RequestOwns(e)'
    BY <1>1, RequestOwnsStill DEF ToolboxInv, PidsOwned
  <2>3. \A o \in Toolbox!Requests : RequestOwns(req[o])'
    BY <2>2 DEF RequestOwns, OwnPids, OwnPid
  <2> QED BY <2>1, <2>3 DEF PidsOwned
<1>4. \A o \in Toolbox!Requests : Fits(req'[o])
  BY <1>1 DEF ToolboxInv
<1>5. SessionsInStep'
  BY <1>1 DEF ToolboxInv, SessionsInStep
<1>6. Undisturbed' => Undisturbed /\ c.killed
  <2>1. \A o \in Toolbox!Requests \ {q} :
          ~req'[o].stale /\ req'[o].killed => ~req[o].stale /\ req[o].killed
    BY <1>1
  <2>2. ~req'[q].stale /\ req'[q].killed => ~req[q].stale /\ req[q].killed /\ c.killed
    BY <1>1 DEF Follows
  <2> QED BY <2>1, <2>2 DEF Undisturbed
<1>7. ASSUME Undisturbed' PROVE \A o \in Toolbox!Requests : Busy(req'[o]) => CalmRequest(req[o])'
  <2>1. \A o \in Toolbox!Requests :
          \E e \in Asking : req'[o] = e /\ (Busy(e) => CalmRequest(e)')
    <3>1. ASSUME NEW o \in Toolbox!Requests \ {q}, Busy(req[o])
          PROVE  \E e \in Asking : req'[o] = e /\ CalmRequest(e)'
      <4>1. PICK e \in Asking : e = req[o]
        BY <1>1
      <4>2. /\ Busy(e) /\ Fits(e) /\ InStep(e, meta) /\ RequestOwns(e) /\ CalmRequest(e)
            /\ PidsOwned
        BY <1>6, <1>7, <3>1, <4>1
           DEF ToolboxInv, SessionsInStep, PidsOwned, WhenCalm, CalmRequest, Undisturbed
      <4>3. CalmRequest(e)'
        BY <1>1, <1>6, <1>7, <4>2, LostStays, CalmStays
      <4> QED BY <1>1, <4>1, <4>3
    <3> QED BY <1>1, <1>6, <1>7, <3>1
  <2> QED BY <2>1 DEF CalmRequest, Deletes, BeginsAgain, Connects, Runs, IsAlive
<1>8. ASSUME Undisturbed' PROVE TerminalsNamed'
  <2> SUFFICES ASSUME NEW p \in Toolbox!Pids, NEW i \in Toolbox!Ids \ Shells,
                      (IsAlive(p) /\ Toolbox!First(p, i))'
               PROVE  (\E o \in Toolbox!Requests : req'[o].pid = p) \/ Lost(p)' \/ RowNames(i, p)'
    BY DEF TerminalsNamed
  <2>1. RowNames(i, p)' <=> RowNames(i, p)
    BY DEF RowNames
  <2>2. CASE c.pid = p
    BY <1>1, <2>2
  <2>3. CASE IsAlive(p) /\ Toolbox!First(p, i)
    <3>1. (\E o \in Toolbox!Requests : req[o].pid = p) \/ Lost(p) \/ RowNames(i, p)
      BY <1>6, <1>8, <2>3 DEF ToolboxInv, WhenCalm, TerminalsNamed
    <3>2. ASSUME NEW o \in Toolbox!Requests, req[o].pid = p
          PROVE  (\E r \in Toolbox!Requests : req'[r].pid = p) \/ Lost(p)' \/ RowNames(i, p)
      <4>1. CASE o # q
        BY <1>1, <3>2, <4>1
      <4>2. CASE o = q
        <5>1. p # 0
          BY DEF Toolbox!Pids
        <5> QED BY <1>1, <1>6, <1>8, <3>2, <4>2, <5>1 DEF Follows, Lost
      <4> QED BY <4>1, <4>2
    <3>3. Lost(p) => Lost(p)'
      BY LostStays DEF LostStay
    <3> QED BY <2>1, <3>1, <3>2, <3>3
  <2> QED BY <2>2, <2>3 DEF StillKnown
<1>9. PidsInOrder'
  BY DEF ProcessesGo
<1>10. WhenCalm'
  BY <1>7, <1>8 DEF WhenCalm, CalmRequest
<1> QED BY <1>2, <1>3, <1>4, <1>5, <1>9, <1>10 DEF ToolboxInv

\* The processes stay as they are.
LEMMA QuietMoves ==
  ASSUME ToolboxInv, UNCHANGED <<meta, process>>,
         NEW q \in Toolbox!Requests, NEW c \in Asking, req' = [req EXCEPT ![q] = c],
         req[q].pc # "done", Fits(c), RequestOwns(c), Busy(c) /\ ~c.stale => InStep(c, meta),
         c.stale <=> req[q].stale, c.killed => req[q].killed,
         \/ c.pid = req[q].pid \/ req[q].pid = 0 \/ c.lost = req[q].pid
         \/ Undisturbed => \A p \in Toolbox!Pids, i \in Toolbox!Ids \ Shells :
              p = req[q].pid /\ IsAlive(p) /\ Toolbox!First(p, i) => RowNames(i, p),
         Undisturbed /\ c.killed /\ Busy(c) => CalmRequest(c)
  PROVE  ToolboxInv'
<1>1. ProcessesGo
  BY DEF ProcessesGo, ToolboxInv, ToolboxTypes, PidsInOrder
<1>2. \A p \in Toolbox!Pids : \A i :
        /\ IsAlive(p)' <=> IsAlive(p)
        /\ Toolbox!First(p, i)' <=> Toolbox!First(p, i)
  BY DEF IsAlive, Toolbox!First, Toolbox!Tagged
<1>3. NothingNew
  BY <1>2 DEF NothingNew, Runs
<1>4. StillKnown(c) /\ Follows(req[q], c)
  BY <1>2 DEF StillKnown, Follows
<1>5. RequestOwns(c)'
  BY DEF RequestOwns, OwnPids, OwnPid
<1>6. CalmRequest(c) => CalmRequest(c)'
  BY LostStays
     DEF LostStay, CalmRequest, Deletes, BeginsAgain, Connects, Runs, IsAlive, Toolbox!First,
         Toolbox!Tagged
<1> QED BY <1>1, <1>3, <1>4, <1>5, <1>6, RequestMoves

\* A request that has not begun, and one that is done.
LEMMA FreshIs ==
  ASSUME ToolboxTypes, MaxPids \in Nat
  PROVE  /\ Toolbox!Fresh \in Asking /\ Toolbox!Nothing \in Metas
         /\ \A k \in Toolbox!Kinds : Toolbox!Dict(Toolbox!Nothing, k) = Toolbox!Empty
<1>1. Toolbox!Nothing \in Metas
  BY DEF Metas, Toolbox!Nothing
<1>2. \A k \in Toolbox!Kinds : Toolbox!Dict(Toolbox!Nothing, k) = Toolbox!Empty
  BY DEF Toolbox!Dict, Toolbox!Nothing
<1>3. Toolbox!Fresh \in Asking
  BY <1>1, DictEmpty DEF Toolbox!Fresh, Asking
<1> QED BY <1>1, <1>2, <1>3

\* A request that is done has let its dictionary and its process go.
LEMMA DoneIs ==
  ASSUME ToolboxTypes, MaxPids \in Nat, NEW q \in Toolbox!Requests,
         NEW c, c = Toolbox!At(q, "done")
  PROVE  /\ c \in Asking /\ c.pc = "done" /\ c.pid = 0
         /\ c.loaded = Toolbox!Nothing /\ c.mine = Toolbox!Empty
         /\ c.stale <=> req[q].stale
         /\ c.killed <=> req[q].killed
         /\ req[q].pc = "answer" => c.lost = req[q].pid
<1> DEFINE f == Toolbox!Fresh
           st == req[q].stale
           ki == req[q].killed
           lo == IF req[q].pc = "answer" THEN req[q].pid ELSE 0
<1>1. c = [f EXCEPT !.pc = "done", !.stale = st, !.killed = ki, !.lost = lo]
  BY DEF Toolbox!At
<1>2. f \in Asking /\ f.pid = 0 /\ f.loaded = Toolbox!Nothing /\ f.mine = Toolbox!Empty
  BY FreshIs DEF Toolbox!Fresh
<1>3. st \in BOOLEAN /\ ki \in BOOLEAN /\ lo \in 0..MaxPids
  BY DEF ToolboxTypes, Asking
<1> HIDE DEF f, st, ki, lo
<1>4. c \in Asking /\ c.pc = "done" /\ c.pid = 0 /\ c.loaded = Toolbox!Nothing
      /\ c.mine = Toolbox!Empty
  BY <1>1, <1>2, <1>3 DEF Asking
<1>5. c.stale = st /\ c.killed = ki /\ c.lost = lo
  BY <1>1, <1>2 DEF Asking
<1> QED BY <1>4, <1>5 DEF st, ki, lo

\* It owns nothing, and fits.
LEMMA DoneFits ==
  ASSUME NEW c \in Asking, c.pc = "done", c.pid = 0,
         c.loaded = Toolbox!Nothing, c.mine = Toolbox!Empty,
         ToolboxTypes, MaxPids \in Nat
  PROVE  Fits(c) /\ RequestOwns(c) /\ ~Busy(c)
<1>1. \A k \in Toolbox!Kinds : OwnPids(Toolbox!Dict(c.loaded, k))
  BY FreshIs, DictEmpty DEF OwnPids
<1>2. DOMAIN c.mine = {}
  BY DictEmpty
<1>3. RequestOwns(c) /\ ~Busy(c)
  BY <1>1, <1>2 DEF RequestOwns, Busy
<1>4. Fits(c)
  BY DEF Fits, Busy, Saving
<1> QED BY <1>3, <1>4

\* A request ends: it had no process, or that is lost, or the row names it.
LEMMA RequestEnds ==
  ASSUME ToolboxInv, MaxPids \in Nat, UNCHANGED <<meta, process>>,
         NEW q \in Toolbox!Requests, Toolbox!Goto(q, "done"), req[q].pc # "done",
         \/ req[q].pid = 0 \/ req[q].pc = "answer"
         \/ Undisturbed => \A p \in Toolbox!Pids, i \in Toolbox!Ids \ Shells :
              p = req[q].pid /\ IsAlive(p) /\ Toolbox!First(p, i) => RowNames(i, p)
  PROVE  ToolboxInv'
<1>1. PICK c : c = Toolbox!At(q, "done")
  OBVIOUS
<1>2. req' = [req EXCEPT ![q] = c]
  BY <1>1 DEF Toolbox!Goto, Toolbox!Becomes
<1>3. ToolboxTypes
  BY DEF ToolboxInv
<1>4. /\ c \in Asking /\ c.pc = "done" /\ c.pid = 0
      /\ c.loaded = Toolbox!Nothing /\ c.mine = Toolbox!Empty
      /\ c.stale <=> req[q].stale
      /\ c.killed <=> req[q].killed
      /\ req[q].pc = "answer" => c.lost = req[q].pid
  BY <1>1, <1>3, DoneIs
<1>5. Fits(c) /\ RequestOwns(c) /\ ~Busy(c)
  BY <1>3, <1>4, DoneFits
<1>6. /\ c.stale <=> req[q].stale
      /\ c.killed => req[q].killed
      /\ \/ c.pid = req[q].pid \/ req[q].pid = 0 \/ c.lost = req[q].pid
         \/ Undisturbed => \A p \in Toolbox!Pids, i \in Toolbox!Ids \ Shells :
              p = req[q].pid /\ IsAlive(p) /\ Toolbox!First(p, i) => RowNames(i, p)
  BY <1>4
<1> QED BY <1>2, <1>4, <1>5, <1>6, QuietMoves

\* A request puts its sessions back in the row.
Saved(c, m, n) == [c EXCEPT !.mine = m, !.pc = "load", !.then = n]

\* It keeps all else.
LEMMA SaveIs ==
  ASSUME NEW b \in Asking, NEW m \in Dicts, NEW n \in {"send", "event", "live", "done"},
         NEW c, c = Saved(b, m, n)
  PROVE  /\ c \in Asking /\ c.pc = "load" /\ c.mine = m /\ c.then = n
         /\ c.op = b.op /\ c.id = b.id /\ c.pid = b.pid
         /\ c.loaded = b.loaded /\ c.again = b.again
         /\ c.stale = b.stale /\ c.killed = b.killed /\ c.lost = b.lost
<1>1. c \in Asking
  BY ZenonT(60) DEF Asking, Saved
<1> QED BY <1>1, ZenonT(60) DEF Asking, Saved

\* A request that has used its session saves it, with what it has seen of it.
LEMMA Saves ==
  ASSUME ToolboxInv, UNCHANGED <<meta, process>>, NEW q \in Toolbox!Requests,
         NEW m \in Dicts, NEW n \in {"live", "done"}, Toolbox!SaveThen(q, m, n),
         req[q].pc \in {"send", "collect", "resize", "event", "live"},
         DOMAIN m = DOMAIN req[q].mine,
         \A i \in DOMAIN m \ {req[q].id} : m[i] = req[q].mine[i],
         LET s == m[req[q].id]
             o == Ours(req[q])
         IN  /\ s.pid = o.pid \/ (n = "live" /\ s.pid = req[q].pid)
             /\ s.started <=> o.started
             /\ o.commands \subseteq s.commands,
         n = "live" => req[q].pc = "event" /\ m[req[q].id].pid = req[q].pid,
         req[q].pc \in {"event", "live"} /\ n = "done" => ~IsAlive(req[q].pid)
  PROVE  ToolboxInv'
<1> DEFINE b == req[q]
<1>1. PICK c : c = Saved(b, m, n)
  OBVIOUS
<1>2. req' = [req EXCEPT ![q] = c]
  BY <1>1 DEF Toolbox!SaveThen, Toolbox!Becomes, Saved
<1>3. /\ c \in Asking /\ c.pc = "load" /\ c.mine = m /\ c.then = n
      /\ c.op = b.op /\ c.id = b.id /\ c.pid = b.pid
      /\ c.loaded = b.loaded /\ c.again = b.again
      /\ c.stale = b.stale /\ c.killed = b.killed /\ c.lost = b.lost
  <2>1. b \in Asking /\ n \in {"send", "event", "live", "done"}
    BY DEF ToolboxInv, ToolboxTypes
  <2> HIDE DEF b
  <2> QED BY <1>1, <2>1, SaveIs, SMTT(60)
<1>4. /\ b \in Asking /\ Fits(b) /\ RequestOwns(b) /\ meta \in Metas
      /\ Busy(b) /\ ~b.stale => InStep(b, meta)
      /\ Undisturbed => Connects(b, meta) /\ ~b.stale
  BY DEF ToolboxInv, ToolboxTypes, PidsOwned, SessionsInStep, WhenCalm, Undisturbed, Busy
<1> DEFINE s == m[b.id]
           o == Ours(b)
<1>5. /\ s.pid = o.pid \/ (n = "live" /\ s.pid = b.pid)
      /\ s.started <=> o.started
      /\ o.commands \subseteq s.commands
      /\ b.pc \in {"send", "collect", "resize", "event", "live"}
      /\ n = "live" => b.pc = "event" /\ s.pid = b.pid
      /\ b.pc \in {"event", "live"} /\ n = "done" => ~IsAlive(b.pid)
      /\ DOMAIN m = DOMAIN b.mine /\ \A i \in DOMAIN m \ {b.id} : m[i] = b.mine[i]
  OBVIOUS
<1> HIDE DEF b
<1>6. /\ Busy(b) /\ ~Saving(b) /\ b.id \in Toolbox!Ids /\ b.id \in DOMAIN m
      /\ b.op \in {"execute", "input", "resize", "connect"}
      /\ b.op = "connect" <=> b.pc \in {"event", "live"}
      /\ b.op = "connect" => b.id \notin Shells /\ b.pid > 0
      /\ b.op = "execute" => b.id \in Shells
  BY <1>4, <1>5 DEF Fits, Busy, Saving
<1>7. Fits(c) /\ Busy(c) /\ Saving(c)
  BY <1>3, <1>4, <1>5, <1>6 DEF Fits, Busy, Saving
<1>8. RequestOwns(c)
  <2>1. OwnPid(o, b.id)
    BY <1>4, <1>5, <1>6 DEF RequestOwns, Ours
  <2>2. OwnPid(s, b.id)
    BY <1>4, <1>5, <1>6, <2>1 DEF OwnPid, RequestOwns, Fits
  <2>3. \A i \in DOMAIN m : OwnPid(m[i], i)
    BY <1>4, <1>5, <1>6, <2>2 DEF RequestOwns
  <2> QED BY <1>3, <1>4, <2>3 DEF RequestOwns
<1>9. ~c.stale => InStep(c, meta)
  <2> HAVE ~c.stale
  <2>1. InStep(b, meta) /\ DictFor(c, meta) = DictFor(b, meta) /\ Theirs(c, meta) = Theirs(b, meta)
    BY <1>3, <1>4, <1>6 DEF Theirs, DictFor
  <2>2. /\ b.id \in DOMAIN DictFor(b, meta) /\ Agree(b, o, Theirs(b, meta))
    BY <1>6, <2>1 DEF InStep
  <2>3. Agree(c, s, Theirs(b, meta))
    BY <1>3, <1>5, <1>6, <2>2 DEF Agree, Saving
  <2> QED BY <1>3, <1>5, <1>6, <2>1, <2>2, <2>3, SMTT(30) DEF InStep, Ours
<1>10. Undisturbed => CalmRequest(c)
  <2> HAVE Undisturbed
  <2>1. DictFor(c, meta) = DictFor(b, meta) /\ Theirs(c, meta) = Theirs(b, meta)
    BY <1>3 DEF Theirs, DictFor
  <2>2. Deletes(c, meta) /\ BeginsAgain(c, meta)
    BY <1>3, <1>6 DEF Deletes, BeginsAgain
  <2>3. Connects(c, meta)
    BY <1>3, <1>4, <1>5, <1>6, <2>1 DEF Connects, Saving
  <2> QED BY <2>2, <2>3 DEF CalmRequest
<1> QED BY <1>2, <1>3, <1>7, <1>8, <1>9, <1>10, QuietMoves DEF b

\* A request goes on to where it waits next.
LEMMA RequestGoesOn ==
  ASSUME ToolboxInv, MaxPids \in Nat, UNCHANGED <<meta, process>>, NEW q \in Toolbox!Requests,
         NEW where \in {"collect", "live"}, Toolbox!Goto(q, where),
         \/ where = "collect" /\ req[q].pc = "send" /\ req[q].op = "execute"
         \/ where = "live" /\ req[q].pc = "event" /\ Ours(req[q]).pid = req[q].pid
  PROVE  ToolboxInv'
<1> DEFINE b == req[q]
           no == Toolbox!Nothing
<1>1. PICK c : c = [b EXCEPT !.pc = where, !.loaded = no]
  OBVIOUS
<1>2. req' = [req EXCEPT ![q] = c]
  BY <1>1 DEF Toolbox!Goto, Toolbox!Becomes, Toolbox!At
<1>3. /\ b \in Asking /\ Fits(b) /\ RequestOwns(b) /\ meta \in Metas
      /\ Busy(b) /\ ~b.stale => InStep(b, meta)
      /\ Undisturbed => ~b.stale /\ (Busy(b) => BeginsAgain(b, meta))
      /\ no \in Metas /\ \A k \in Toolbox!Kinds : OwnPids(Toolbox!Dict(no, k))
  BY FreshIs, DictEmpty
     DEF ToolboxInv, ToolboxTypes, PidsOwned, SessionsInStep, WhenCalm, Undisturbed, OwnPids
<1>4. \/ where = "collect" /\ b.pc = "send" /\ b.op = "execute"
      \/ where = "live" /\ b.pc = "event" /\ Ours(b).pid = b.pid
  OBVIOUS
<1> HIDE DEF b, no
<1>5. /\ c \in Asking /\ c.pc = where /\ c.loaded = no
      /\ c.op = b.op /\ c.id = b.id /\ c.pid = b.pid /\ c.mine = b.mine /\ c.then = b.then
      /\ c.again = b.again /\ c.stale = b.stale /\ c.killed = b.killed /\ c.lost = b.lost
  <2>1. c \in Asking
    BY <1>1, <1>3 DEF Asking
  <2> QED BY <1>1, <1>3, <2>1 DEF Asking
<1>6. /\ Busy(b) /\ Busy(c) /\ ~Saving(b) /\ ~Saving(c) /\ b.pc \notin {"start", "kill", "open"}
      /\ b.op \in {"execute", "connect"} /\ (b.op = "connect" <=> where = "live")
  BY <1>3, <1>4, <1>5 DEF Fits, Busy, Saving
<1>7. Fits(c)
  BY <1>3, <1>4, <1>5, <1>6 DEF Fits, Busy, Saving
<1>8. RequestOwns(c)
  BY <1>3, <1>5, <1>6 DEF RequestOwns
<1>9. DictFor(c, meta) = DictFor(b, meta) /\ Theirs(c, meta) = Theirs(b, meta) /\ Ours(c) = Ours(b)
  BY <1>5 DEF Theirs, DictFor, Ours
<1>10. ~c.stale => InStep(c, meta)
  <2> HAVE ~c.stale
  <2>1. Agree(b, Ours(b), Theirs(b, meta)) => Agree(c, Ours(b), Theirs(b, meta))
    BY <1>4, <1>5, <1>6 DEF Agree
  <2> QED BY <1>3, <1>4, <1>5, <1>6, <1>9, <2>1 DEF InStep
<1>11. Undisturbed => CalmRequest(c)
  <2> HAVE Undisturbed
  <2>1. Ours(b) = Theirs(b, meta)
    BY <1>3, <1>6 DEF InStep, Agree
  <2> QED BY <1>4, <1>5, <1>6, <1>9, <2>1 DEF CalmRequest, Deletes, BeginsAgain, Connects
<1> QED BY <1>2, <1>5, <1>6, <1>7, <1>8, <1>10, <1>11, QuietMoves DEF b

\* The session of a request that is neither saving nor starting has its types.
LEMMA OursIs ==
  ASSUME ToolboxInv, NEW q \in Toolbox!Requests, Busy(req[q]), req[q].op # "delete"
  PROVE  /\ req[q].id \in DOMAIN req[q].mine /\ req[q].mine \in Dicts
         /\ Ours(req[q]) \in Toolbox!Session /\ req[q].id \in Toolbox!Ids
<1>1. req[q].mine \in Dicts /\ Fits(req[q])
  BY DEF ToolboxInv, ToolboxTypes, Asking
<1>2. req[q].id \in DOMAIN req[q].mine /\ req[q].id \in Toolbox!Ids
  BY <1>1 DEF Fits
<1> QED BY <1>1, <1>2, DictHas DEF Ours

\* Input is sent, to a process that takes it or that has ended.
LEMMA SessionSends ==
  ASSUME ToolboxInv, MaxPids \in Nat, NEW q \in Toolbox!Requests, Toolbox!Send(q)
  PROVE  ToolboxInv'
<1>1. req[q].pc = "send" /\ UNCHANGED <<meta, process>> /\ Fits(req[q])
  BY DEF Toolbox!Send, Toolbox!Moves, ToolboxInv
<1>2. req[q].pid = 0 /\ req[q].op \in {"execute", "input"} /\ Busy(req[q])
  <2>1. req[q].pid \in 0..MaxPids
    BY DEF ToolboxInv, ToolboxTypes, Asking
  <2> QED BY <1>1, <2>1 DEF Fits, Saving, Busy
<1>3. CASE Toolbox!Goto(q, "done")
  BY <1>1, <1>2, <1>3, RequestEnds
<1>4. CASE req[q].op = "input" /\ Toolbox!SaveThen(q, req[q].mine, "done")
  <2>1. req[q].mine \in Dicts /\ Ours(req[q]) = req[q].mine[req[q].id]
    BY <1>2, OursIs DEF Ours
  <2> QED BY <1>1, <1>2, <1>4, <2>1, Saves
<1>5. CASE req[q].op # "input" /\ Toolbox!Goto(q, "collect")
  BY <1>1, <1>2, <1>5, RequestGoesOn
<1> QED BY <1>3, <1>4, <1>5 DEF Toolbox!Send

\* A command's record is added.
LEMMA SessionCollects ==
  ASSUME ToolboxInv, MaxPids \in Nat, NEW q \in Toolbox!Requests, Toolbox!Collected(q)
  PROVE  ToolboxInv'
<1> DEFINE b == req[q]
           o == Ours(b)
           s == [o EXCEPT !.commands = o.commands \cup {q}]
           m == [b.mine EXCEPT ![b.id] = s]
<1>1. b.pc = "collect" /\ UNCHANGED <<meta, process>> /\ Toolbox!SaveThen(q, m, "done")
  BY DEF Toolbox!Collected, Toolbox!Moves, Ours
<1>2. Busy(b) /\ b.op = "execute"
  BY <1>1 DEF ToolboxInv, Fits, Busy
<1>3. b.id \in DOMAIN b.mine /\ b.mine \in Dicts /\ o \in Toolbox!Session
  BY <1>2, OursIs
<1>4. /\ s \in Toolbox!Session /\ s.pid = o.pid /\ (s.started <=> o.started)
      /\ o.commands \subseteq s.commands
  <2> HIDE DEF o
  <2>1. s \in Toolbox!Session
    BY <1>3 DEF Toolbox!Session
  <2> QED BY <1>3, <2>1 DEF Toolbox!Session
<1> HIDE DEF s, o
<1>5. /\ m \in Dicts /\ DOMAIN m = DOMAIN b.mine /\ m[b.id] = s
      /\ \A j \in DOMAIN m \ {b.id} : m[j] = b.mine[j]
  BY <1>3, <1>4, DictSet
<1> HIDE DEF m
<1> QED BY <1>1, <1>4, <1>5, Saves DEF o

\* A terminal's size is kept.
LEMMA SessionResizes ==
  ASSUME ToolboxInv, MaxPids \in Nat, NEW q \in Toolbox!Requests, Toolbox!Resize(q)
  PROVE  ToolboxInv'
<1>1. /\ req[q].pc = "resize" /\ UNCHANGED <<meta, process>>
      /\ Toolbox!SaveThen(q, req[q].mine, "done")
  BY DEF Toolbox!Resize, Toolbox!Moves
<1>2. Busy(req[q]) /\ req[q].op = "resize"
  BY <1>1 DEF ToolboxInv, Fits, Busy
<1>3. req[q].mine \in Dicts /\ Ours(req[q]) = req[q].mine[req[q].id]
  BY <1>2, OursIs DEF Ours
<1> QED BY <1>1, <1>2, <1>3, Saves

\* The pid of a terminal's process arrives.
LEMMA TerminalStarted ==
  ASSUME ToolboxInv, MaxPids \in Nat, NEW q \in Toolbox!Requests, Toolbox!StartEvent(q)
  PROVE  ToolboxInv'
<1> DEFINE b == req[q]
           o == Ours(b)
           s == [o EXCEPT !.pid = b.pid]
           m == [b.mine EXCEPT ![b.id] = s]
<1>1. b.pc = "event" /\ UNCHANGED <<meta, process>>
  BY DEF Toolbox!StartEvent, Toolbox!Moves
<1>2. Busy(b) /\ b.op = "connect" /\ b \in Asking
  BY <1>1 DEF ToolboxInv, ToolboxTypes, Fits, Busy
<1>3. CASE o.pid = b.pid
  <2>1. Toolbox!Goto(q, "live")
    BY <1>3 DEF Toolbox!StartEvent, Toolbox!Mine, Ours
  <2> QED BY <1>1, <1>3, <2>1, RequestGoesOn
<1>4. CASE o.pid # b.pid
  <2>1. Toolbox!SaveThen(q, m, "live")
    BY <1>4 DEF Toolbox!StartEvent, Toolbox!Mine, Ours
  <2>2. b.id \in DOMAIN b.mine /\ b.mine \in Dicts /\ o \in Toolbox!Session
    BY <1>2, OursIs
  <2>3. /\ s \in Toolbox!Session /\ s.pid = b.pid /\ (s.started <=> o.started)
        /\ s.commands = o.commands
    <3>1. b.pid \in 0..MaxPids
      BY <1>2 DEF Asking
    <3> HIDE DEF o, b
    <3>2. s \in Toolbox!Session
      BY <2>2, <3>1 DEF Toolbox!Session
    <3> QED BY <2>2, <3>2 DEF Toolbox!Session
  <2> HIDE DEF s, o
  <2>4. /\ m \in Dicts /\ DOMAIN m = DOMAIN b.mine /\ m[b.id] = s
        /\ \A j \in DOMAIN m \ {b.id} : m[j] = b.mine[j]
    BY <2>2, <2>3, DictSet
  <2> HIDE DEF m
  <2> QED BY <1>1, <2>1, <2>3, <2>4, Saves DEF o
<1> QED BY <1>3, <1>4

\* A terminal's process has ended.
LEMMA TerminalEnds ==
  ASSUME ToolboxInv, MaxPids \in Nat, NEW q \in Toolbox!Requests, Toolbox!EndEvent(q)
  PROVE  ToolboxInv'
<1>1. /\ req[q].pc = "live" /\ UNCHANGED <<meta, process>>
      /\ Toolbox!SaveThen(q, req[q].mine, "done") /\ ~IsAlive(req[q].pid)
  BY DEF Toolbox!EndEvent, Toolbox!Moves, Toolbox!Is, IsAlive
<1>2. Busy(req[q]) /\ req[q].op = "connect"
  BY <1>1 DEF ToolboxInv, Fits, Busy
<1>3. req[q].mine \in Dicts /\ Ours(req[q]) = req[q].mine[req[q].id]
  BY <1>2, OursIs DEF Ours
<1> QED BY <1>1, <1>2, <1>3, Saves

\* A request is given up: a process that it waits for is lost.
LEMMA SessionFails ==
  ASSUME ToolboxInv, MaxPids \in Nat, NEW q \in Toolbox!Requests, Toolbox!Fails(q)
  PROVE  ToolboxInv'
<1>1. /\ req[q].pc \in {"start", "open", "answer", "send", "collect", "resize"}
      /\ UNCHANGED <<meta, process>> /\ Toolbox!Goto(q, "done") /\ Fits(req[q])
  BY DEF Toolbox!Fails, Toolbox!Moves, ToolboxInv
<1>2. req[q].pid = 0 \/ req[q].pc = "answer"
  <2>1. req[q].pid \in 0..MaxPids
    BY DEF ToolboxInv, ToolboxTypes, Asking
  <2> QED BY <1>1, <2>1 DEF Fits, Saving
<1> QED BY <1>1, <1>2, RequestEnds

\* The client of a terminal goes: the row names the process, when it is the first one.
LEMMA RowNamesIt ==
  ASSUME ToolboxInv, Undisturbed, NEW q \in Toolbox!Requests, req[q].pc \in {"event", "live"},
         NEW p \in Toolbox!Pids, p = req[q].pid
  PROVE  /\ req[q].id \in Toolbox!Ids \ Shells /\ process[p].of = req[q].id
         /\ RowNames(req[q].id, p)
<1> DEFINE b == req[q]
           d == DictFor(b, meta)
           s == Theirs(b, meta)
<1>1. /\ b \in Asking /\ Fits(b) /\ RequestOwns(b) /\ InStep(b, meta) /\ Connects(b, meta)
      /\ meta \in Metas
  BY DEF ToolboxInv, ToolboxTypes, PidsOwned, SessionsInStep, WhenCalm, Undisturbed, Busy
<1>2. b.pc \in {"event", "live"} /\ b.pid = p /\ p > 0
  BY DEF Toolbox!Pids
<1> HIDE DEF b
<1>3. b.op = "connect" /\ b.id \in Toolbox!Ids \ Shells /\ process[p].of = b.id
  BY <1>1, <1>2 DEF Fits, Busy, RequestOwns
<1>4. b.id \in DOMAIN d /\ d[b.id] = s /\ s.started
  BY <1>1, <1>2, <1>3 DEF InStep, Agree, Saving, Theirs
<1>5. Toolbox!Has(s) /\ s.pid \in {0, p}
  BY <1>1, <1>2, <1>3, <1>4 DEF Connects, Toolbox!Has
<1>6. d = Toolbox!Dict(meta, "terminal")
  BY <1>3 DEF DictFor, Toolbox!KindOf
<1> HIDE DEF d, s
<1>7. RowNames(b.id, p)
  BY <1>4, <1>5, <1>6 DEF RowNames
<1> QED BY <1>3, <1>7 DEF b

\* Nothing is lost when it goes.
LEMMA TerminalLeaves ==
  ASSUME ToolboxInv, MaxPids \in Nat, NEW q \in Toolbox!Requests, Toolbox!Leave(q)
  PROVE  ToolboxInv'
<1>1. /\ req[q].pc \in {"event", "live"} /\ UNCHANGED <<meta, process>>
      /\ Toolbox!Goto(q, "done")
  BY DEF Toolbox!Leave, Toolbox!Moves
<1>2. Undisturbed => \A p \in Toolbox!Pids, i \in Toolbox!Ids \ Shells :
                p = req[q].pid /\ IsAlive(p) /\ Toolbox!First(p, i) => RowNames(i, p)
  <2> SUFFICES ASSUME Undisturbed, NEW p \in Toolbox!Pids, NEW i \in Toolbox!Ids \ Shells,
                      p = req[q].pid, Toolbox!First(p, i)
               PROVE  RowNames(i, p)
    OBVIOUS
  <2>1. process[p].of = req[q].id /\ RowNames(req[q].id, p)
    BY <1>1, RowNamesIt
  <2>2. process[p].of = i
    BY DEF Toolbox!First, Toolbox!Tagged
  <2> QED BY <2>1, <2>2
<1> QED BY <1>1, <1>2, RequestEnds

\* A terminal that has a process is connected to.
LEMMA TerminalConnects ==
  ASSUME ToolboxInv, MaxPids \in Nat, NEW q \in Toolbox!Requests, Toolbox!Connect(q)
  PROVE  ToolboxInv'
<1> DEFINE b == req[q]
           o == Ours(b)
           s == [o EXCEPT !.started = TRUE]
           m == [b.mine EXCEPT ![b.id] = s]
           p == Toolbox!Selected(o, b.id)
           e == Saved(b, m, "event")
<1>1. /\ b.pc = "open" /\ UNCHANGED <<meta, process>> /\ Toolbox!Has(o) /\ p # 0
      /\ req' = [req EXCEPT ![q] = [b EXCEPT !.mine = m, !.pc = "load", !.then = "event", !.pid = p]]
  BY DEF Toolbox!Connect, Toolbox!Moves, Toolbox!Becomes, Toolbox!Opened, Ours, Toolbox!Its,
         Toolbox!Mine, Toolbox!Unknown
<1>2. /\ b \in Asking /\ Fits(b) /\ RequestOwns(b) /\ meta \in Metas /\ Busy(b)
      /\ ~b.stale => InStep(b, meta)
      /\ Undisturbed => ~b.stale
  BY <1>1 DEF ToolboxInv, ToolboxTypes, PidsOwned, SessionsInStep, Undisturbed, Busy
<1>3. b.op = "connect" /\ b.id \in Toolbox!Ids \ Shells
  BY <1>1, <1>2 DEF Fits
<1>4. b.id \in DOMAIN b.mine /\ b.mine \in Dicts /\ o \in Toolbox!Session
  BY <1>2, <1>3, OursIs
<1>5. OwnPid(o, b.id)
  BY <1>1, <1>4 DEF RequestOwns, Ours, ToolboxInv, PidsOwned
<1>6. p \in Toolbox!Pids /\ process[p].of = b.id /\ process[p].st # "none" /\ o.pid \in {0, p}
  BY <1>1, <1>4, <1>5, SelectedOwn
<1>7. s \in Toolbox!Session /\ s.pid = o.pid /\ s.started /\ s.commands = o.commands
  <2> HIDE DEF o
  <2>1. s \in Toolbox!Session
    BY <1>4 DEF Toolbox!Session
  <2> QED BY <1>4, <2>1 DEF Toolbox!Session
<1>8. \A r \in Toolbox!Pids : Runs(o, b.id, r) => r = p
  BY <1>4, SelectedRuns DEF Runs
<1> HIDE DEF s, p
<1>9. /\ m \in Dicts /\ DOMAIN m = DOMAIN b.mine /\ m[b.id] = s
      /\ \A j \in DOMAIN m \ {b.id} : m[j] = b.mine[j]
  BY <1>4, <1>7, DictSet
<1>10. PICK c : c = [b EXCEPT !.mine = m, !.pc = "load", !.then = "event", !.pid = p]
  OBVIOUS
<1> HIDE DEF m, b
<1>11. /\ c \in Asking /\ c.pc = "load" /\ c.mine = m /\ c.then = "event"
       /\ c.op = b.op /\ c.id = b.id /\ c.pid = p
       /\ c.loaded = b.loaded /\ c.again = b.again
       /\ c.stale = b.stale /\ c.killed = b.killed /\ c.lost = b.lost
  <2>1. p \in 0..MaxPids
    BY <1>6 DEF Toolbox!Pids
  <2>2. c \in Asking
    BY <1>2, <1>9, <1>10, <2>1 DEF Asking
  <2> QED BY <1>2, <1>10, <2>2 DEF Asking
<1>12. Busy(c) /\ Saving(c) /\ p > 0 /\ p \in Int
  BY <1>6, <1>11 DEF Busy, Saving, Toolbox!Pids
<1>13. Fits(c)
  BY <1>1, <1>2, <1>3, <1>4, <1>9, <1>11, <1>12 DEF Fits, Busy, Saving
<1>14. RequestOwns(c)
  <2>1. OwnPid(s, b.id)
    BY <1>5, <1>7 DEF OwnPid
  <2>2. \A i \in DOMAIN m : OwnPid(m[i], i)
    BY <1>1, <1>2, <1>9, <2>1 DEF RequestOwns
  <2> QED BY <1>2, <1>6, <1>11, <2>2 DEF RequestOwns
<1>15. DictFor(c, meta) = DictFor(b, meta) /\ Theirs(c, meta) = Theirs(b, meta)
  BY <1>11 DEF Theirs, DictFor
<1>16. ~c.stale => InStep(c, meta) /\ Theirs(c, meta) = o
  <2> HAVE ~c.stale
  <2>1. b.id \in DOMAIN DictFor(b, meta) /\ Agree(b, o, Theirs(b, meta)) /\ InStep(b, meta)
    BY <1>2, <1>3, <1>11 DEF InStep
  <2>2. o = Theirs(b, meta)
    BY <1>1, <2>1 DEF Agree, Saving
  <2>3. Agree(c, s, Theirs(b, meta))
    BY <1>3, <1>7, <1>11, <1>12, <2>2 DEF Agree
  <2>4. Ours(c) = s
    BY <1>9, <1>11 DEF Ours
  <2> QED BY <1>3, <1>9, <1>11, <1>15, <2>1, <2>2, <2>3, <2>4 DEF InStep
<1>17. Undisturbed => CalmRequest(c)
  <2> HAVE Undisturbed
  <2>1. Deletes(c, meta) /\ BeginsAgain(c, meta)
    BY <1>3, <1>11 DEF Deletes, BeginsAgain
  <2>2. Connects(c, meta)
    BY <1>2, <1>6, <1>8, <1>11, <1>16 DEF Connects
  <2> QED BY <2>1, <2>2 DEF CalmRequest
<1>18. b.pid = 0
  BY <1>1, <1>2 DEF Fits, Saving, Asking
<1> QED BY <1>1, <1>10, <1>11, <1>13, <1>14, <1>16, <1>17, <1>18, QuietMoves DEF b

\* The row is read again.
LEMMA SessionLoads ==
  ASSUME ToolboxInv, NEW q \in Toolbox!Requests, Toolbox!Load(q)
  PROVE  ToolboxInv'
<1> DEFINE b == req[q]
<1>1. b.pc = "load" /\ UNCHANGED <<meta, process>>
  BY DEF Toolbox!Load, Toolbox!Moves
<1>2. PICK c : c = [b EXCEPT !.pc = "merge", !.loaded = meta]
  OBVIOUS
<1>3. req' = [req EXCEPT ![q] = c]
  BY <1>2 DEF Toolbox!Load, Toolbox!Becomes
<1>4. /\ b \in Asking /\ Fits(b) /\ RequestOwns(b) /\ meta \in Metas /\ Busy(b)
      /\ ~b.stale => InStep(b, meta)
      /\ Undisturbed => CalmRequest(b)
      /\ \A k \in Toolbox!Kinds : OwnPids(Toolbox!Dict(meta, k))
  BY <1>1 DEF ToolboxInv, ToolboxTypes, PidsOwned, SessionsInStep, WhenCalm, Busy, CalmRequest
<1> HIDE DEF b
<1>5. /\ c \in Asking /\ c.pc = "merge" /\ c.loaded = meta
      /\ c.op = b.op /\ c.id = b.id /\ c.pid = b.pid /\ c.mine = b.mine /\ c.then = b.then
      /\ c.again = b.again /\ c.stale = b.stale /\ c.killed = b.killed /\ c.lost = b.lost
  <2>1. c \in Asking
    BY <1>2, <1>4 DEF Asking
  <2> QED BY <1>2, <1>4, <2>1 DEF Asking
<1>6. Fits(c) /\ Saving(c) /\ Saving(b)
  BY <1>1, <1>4, <1>5 DEF Fits, Busy, Saving
<1>7. RequestOwns(c)
  BY <1>1, <1>4, <1>5 DEF RequestOwns
<1>8. DictFor(c, meta) = DictFor(b, meta) /\ Theirs(c, meta) = Theirs(b, meta) /\ Ours(c) = Ours(b)
  BY <1>5 DEF Theirs, DictFor, Ours
<1>9. ~c.stale => InStep(c, meta)
  <2> HAVE ~c.stale
  <2>1. Agree(b, Ours(b), Theirs(b, meta)) => Agree(c, Ours(b), Theirs(b, meta))
    BY <1>1, <1>5, <1>6 DEF Agree
  <2> QED BY <1>1, <1>4, <1>5, <1>8, <2>1 DEF InStep
<1>10. Undisturbed => CalmRequest(c)
  BY <1>1, <1>4, <1>5, <1>6, <1>8 DEF CalmRequest, Deletes, BeginsAgain, Connects
<1> QED BY <1>1, <1>3, <1>5, <1>6, <1>7, <1>9, <1>10, QuietMoves DEF b

\* A session is taken out of a request's dictionary.
PoppedOut(c, k) ==
  [c EXCEPT !.mine = [i \in DOMAIN c.mine \ {c.id} |-> c.mine[i]], !.pc = "load", !.then = "done",
            !.killed = k]

\* The request goes to save it, and agrees with the row on all others.
LEMMA Pops ==
  ASSUME ToolboxInv, NEW q \in Toolbox!Requests, req[q].pc = "kill", NEW k \in BOOLEAN,
         NEW c, c = PoppedOut(req[q], k)
  PROVE  /\ c \in Asking /\ Fits(c) /\ RequestOwns(c) /\ Saving(c) /\ c.op = "delete"
         /\ c.id = req[q].id /\ c.pid = req[q].pid /\ c.stale = req[q].stale /\ c.killed = k
         /\ ~c.stale => InStep(c, meta) /\ Theirs(c, meta) = Ours(req[q])
<1> DEFINE b == req[q]
           m == [i \in DOMAIN b.mine \ {b.id} |-> b.mine[i]]
<1>1. /\ b \in Asking /\ Fits(b) /\ RequestOwns(b) /\ Busy(b) /\ b.pc = "kill"
      /\ ~b.stale => InStep(b, meta)
  BY DEF ToolboxInv, ToolboxTypes, PidsOwned, SessionsInStep, Busy
<1>2. /\ m \in Dicts /\ DOMAIN m = DOMAIN b.mine \ {b.id}
      /\ \A i \in DOMAIN m : m[i] = b.mine[i]
  <2>1. b.mine \in Dicts
    BY <1>1 DEF Asking
  <2> QED BY <2>1, DictWithout
<1>3. c = [b EXCEPT !.mine = m, !.pc = "load", !.then = "done", !.killed = k]
  BY DEF PoppedOut
<1> HIDE DEF b, m
<1>4. /\ c \in Asking /\ c.pc = "load" /\ c.loaded = b.loaded /\ c.mine = m /\ c.then = "done"
      /\ c.op = b.op /\ c.id = b.id /\ c.pid = b.pid
      /\ c.again = b.again /\ c.stale = b.stale /\ c.killed = k /\ c.lost = b.lost
  <2>1. c \in Asking
    BY <1>1, <1>2, <1>3 DEF Asking
  <2> QED BY <1>1, <1>3, <2>1 DEF Asking
<1>5. b.op = "delete" /\ b.id \in DOMAIN b.mine
  BY <1>1 DEF Fits
<1>6. Fits(c) /\ Saving(c)
  BY <1>1, <1>2, <1>4, <1>5 DEF Fits, Busy, Saving
<1>7. RequestOwns(c)
  BY <1>1, <1>2, <1>4, <1>5 DEF RequestOwns
<1>8. DictFor(c, meta) = DictFor(b, meta) /\ Theirs(c, meta) = Theirs(b, meta)
  BY <1>4 DEF Theirs, DictFor
<1>9. ~c.stale => InStep(c, meta) /\ Theirs(c, meta) = Ours(b)
  BY <1>1, <1>2, <1>4, <1>5, <1>8 DEF InStep
<1> QED BY <1>4, <1>5, <1>6, <1>7, <1>9 DEF b

\* The kill of a session's process fails.
LEMMA SessionKillFails ==
  ASSUME ToolboxInv, NEW q \in Toolbox!Requests, Toolbox!KillFails(q)
  PROVE  ToolboxInv'
<1>1. req[q].pc = "kill" /\ UNCHANGED <<meta, process>>
  BY DEF Toolbox!KillFails, Toolbox!Moves
<1>2. PICK c : c = PoppedOut(req[q], FALSE)
  OBVIOUS
<1>3. req' = [req EXCEPT ![q] = c]
  BY <1>2 DEF Toolbox!KillFails, Toolbox!DeleteSession, Toolbox!Becomes, Toolbox!Popped, PoppedOut
<1>4. /\ c \in Asking /\ Fits(c) /\ RequestOwns(c)
      /\ c.pid = req[q].pid /\ c.stale = req[q].stale /\ c.killed = FALSE
      /\ ~c.stale => InStep(c, meta)
  BY <1>1, <1>2, Pops
<1> QED BY <1>1, <1>3, <1>4, QuietMoves

\* envd does not know the process: a shell is started again, once.
LEMMA SessionNotFound ==
  ASSUME ToolboxInv, MaxPids \in Nat, NEW q \in Toolbox!Requests, Toolbox!NotFound(q)
  PROVE  ToolboxInv'
<1> DEFINE b == req[q]
           o == Ours(b)
<1>1. /\ b.pc \in {"send", "collect"} /\ UNCHANGED <<meta, process>>
      /\ Toolbox!Unknown(Toolbox!Selected(o, b.id))
  BY DEF Toolbox!NotFound, Toolbox!Moves, Toolbox!Its, Toolbox!Mine, Ours
<1>2. /\ b \in Asking /\ Fits(b) /\ RequestOwns(b) /\ meta \in Metas /\ Busy(b)
      /\ ~b.stale => InStep(b, meta)
      /\ Undisturbed => ~b.stale
  BY <1>1 DEF ToolboxInv, ToolboxTypes, PidsOwned, SessionsInStep, Undisturbed, Busy
<1>3. b.pid = 0 /\ b.op \in {"execute", "input"}
  BY <1>1, <1>2 DEF Fits, Saving, Asking
<1>4. o \in Toolbox!Session
  BY <1>2, <1>3, OursIs
<1>5. CASE Toolbox!Goto(q, "done")
  BY <1>1, <1>3, <1>5, RequestEnds
<1>6. CASE b.op = "execute" /\ Toolbox!Becomes(q, [b EXCEPT !.pc = "start", !.again = TRUE])
  <2>1. PICK c : c = [b EXCEPT !.pc = "start", !.again = TRUE]
    OBVIOUS
  <2>2. req' = [req EXCEPT ![q] = c]
    BY <1>6, <2>1 DEF Toolbox!Becomes
  <2>3. \A p \in Toolbox!Pids : ~Runs(o, b.id, p)
    <3> SUFFICES ASSUME NEW p \in Toolbox!Pids, Runs(o, b.id, p) PROVE FALSE
      OBVIOUS
    <3>1. IsAlive(p) /\ Toolbox!Selected(o, b.id) = p
      BY <1>4, SelectedRuns DEF Runs
    <3> QED BY <1>1, <3>1 DEF Toolbox!Unknown, Toolbox!Is, IsAlive, Toolbox!Pids
  <2>4. b.op = "execute"
    BY <1>6
  <2> HIDE DEF b
  <2>5. /\ c \in Asking /\ c.pc = "start" /\ c.loaded = b.loaded
        /\ c.op = b.op /\ c.id = b.id /\ c.pid = b.pid /\ c.mine = b.mine /\ c.then = b.then
        /\ c.again = TRUE /\ c.stale = b.stale /\ c.killed = b.killed /\ c.lost = b.lost
    <3>1. c \in Asking
      BY <1>2, <2>1 DEF Asking
    <3> QED BY <1>2, <2>1, <3>1 DEF Asking
  <2>6. Fits(c) /\ ~Saving(c) /\ ~Saving(b)
    BY <1>1, <1>2, <1>3, <2>4, <2>5 DEF Fits, Busy, Saving
  <2>7. RequestOwns(c)
    BY <1>1, <1>2, <2>5 DEF RequestOwns
  <2>8. DictFor(c, meta) = DictFor(b, meta) /\ Theirs(c, meta) = Theirs(b, meta) /\ Ours(c) = o
    BY <2>5 DEF Theirs, DictFor, Ours
  <2>9. ~c.stale => InStep(c, meta) /\ Theirs(c, meta) = o
    <3> HAVE ~c.stale
    <3>1. InStep(b, meta) /\ Agree(b, o, Theirs(b, meta))
      BY <1>2, <2>4, <2>5 DEF InStep
    <3>2. Agree(c, o, Theirs(b, meta)) /\ Theirs(b, meta) = o
      BY <2>4, <2>5, <2>6, <3>1 DEF Agree
    <3> QED BY <1>1, <2>4, <2>5, <2>8, <3>1, <3>2 DEF InStep
  <2>10. Undisturbed => CalmRequest(c)
    BY <1>2, <2>3, <2>4, <2>5, <2>6, <2>9 DEF CalmRequest, Deletes, BeginsAgain, Connects
  <2> QED BY <1>1, <2>2, <2>5, <2>6, <2>7, <2>9, <2>10, QuietMoves DEF b
<1> QED BY <1>5, <1>6 DEF Toolbox!NotFound

\* A request begins.
LEMMA SessionRead ==
  ASSUME ToolboxInv, MaxPids \in Nat, NEW q \in Toolbox!Requests, NEW r \in Replicas,
         NEW op \in Toolbox!Ops, NEW id \in Toolbox!Ids, Toolbox!Read(q, r, op, id)
  PROVE  ToolboxInv'
<1> DEFINE d == Toolbox!Dict(meta, Toolbox!KindOf(id))
           f == Toolbox!Fresh
           new == Toolbox!New
           m == IF op = "create" /\ id \notin DOMAIN d THEN Toolbox!With(d, id, new) ELSE d
           where == Toolbox!FirstStep(op, id, id \in DOMAIN d)
<1>1. PICK c : c = [f EXCEPT !.pc = where, !.op = op, !.id = id, !.at = r, !.mine = m]
  OBVIOUS
<1>2. req' = [req EXCEPT ![q] = c] /\ UNCHANGED <<meta, process>> /\ req[q].pc = "idle"
  BY <1>1 DEF Toolbox!Read, Toolbox!Becomes
<1>3. /\ op \in {"execute", "input"} => id \in Shells
      /\ op \in {"resize", "connect"} => id \notin Shells
  BY DEF Toolbox!Read
<1>4. /\ req[q] = f /\ meta \in Metas /\ ToolboxTypes
      /\ \A k \in Toolbox!Kinds : OwnPids(Toolbox!Dict(meta, k))
  BY <1>2 DEF ToolboxInv, Fits, ToolboxTypes, PidsOwned
<1>5. /\ f \in Asking /\ f.pid = 0 /\ f.then = "done" /\ f.again = FALSE /\ f.stale = FALSE
      /\ f.killed = TRUE /\ f.lost = 0 /\ f.loaded = Toolbox!Nothing
      /\ \A k \in Toolbox!Kinds : OwnPids(Toolbox!Dict(f.loaded, k))
  BY <1>4, FreshIs, DictEmpty DEF Toolbox!Fresh, OwnPids
<1>6. d \in Dicts /\ OwnPids(d)
  BY <1>4, DictThere, KindIsOne
<1>7. new \in Toolbox!Session /\ new.pid = 0 /\ new.started = FALSE /\ new.commands = {}
  BY DEF Toolbox!New, Toolbox!Session
<1>8. /\ m \in Dicts /\ DOMAIN m = DOMAIN d \cup (IF op = "create" THEN {id} ELSE {})
      /\ \A i \in DOMAIN d : m[i] = d[i]
      /\ op = "create" /\ id \notin DOMAIN d => m[id] = new
  <2>1. CASE op = "create" /\ id \notin DOMAIN d
    <3> HIDE DEF new, d
    <3>1. /\ Toolbox!With(d, id, new) \in Dicts
          /\ DOMAIN Toolbox!With(d, id, new) = DOMAIN d \cup {id}
          /\ Toolbox!With(d, id, new)[id] = new
          /\ \A j \in DOMAIN d \ {id} : Toolbox!With(d, id, new)[j] = d[j]
      BY <1>6, <1>7, DictWith, SMTT(30)
    <3> QED BY <2>1, <3>1
  <2>2. CASE ~(op = "create" /\ id \notin DOMAIN d)
    <3> HIDE DEF d
    <3> QED BY <1>6, <2>2
  <2> QED BY <2>1, <2>2
<1> HIDE DEF f, m, new
<1>9. /\ op = "create" => where = IF id \in DOMAIN d THEN "done" ELSE IF id \in Shells THEN "start" ELSE "load"
      /\ op = "delete" => where = IF id \in DOMAIN d THEN "kill" ELSE IF id \in Shells THEN "load" ELSE "done"
      /\ op \in {"execute", "input"} => where = IF id \in DOMAIN d THEN "send" ELSE "done"
      /\ op = "resize" => where = IF id \in DOMAIN d THEN "resize" ELSE "done"
      /\ op = "connect" => where = IF id \in DOMAIN d THEN "open" ELSE "done"
      /\ op \in {"create", "delete", "execute", "input", "resize", "connect"}
  <2> HIDE DEF d
  <2> QED BY <1>3 DEF Toolbox!FirstStep, Toolbox!Ops
<1> HIDE DEF where
<1>10. where \in {"start", "kill", "send", "resize", "open", "load", "done"}
  BY <1>9
<1>11. /\ c \in Asking /\ c.pc = where /\ c.op = op /\ c.id = id /\ c.mine = m /\ c.loaded = f.loaded
       /\ c.pid = 0 /\ c.then = "done" /\ c.again = FALSE /\ c.stale = FALSE /\ c.killed = TRUE
       /\ c.lost = 0
  <2>1. c \in Asking
    BY <1>1, <1>5, <1>8, <1>10 DEF Asking
  <2> QED BY <1>1, <1>5, <2>1 DEF Asking
<1> HIDE DEF d
<1>12. d = DictFor(c, meta)
  BY <1>11 DEF d, DictFor
<1>13. Fits(c)
  BY <1>3, <1>8, <1>9, <1>10, <1>11 DEF Fits, Busy, Saving
<1>14. RequestOwns(c)
  <2>1. \A i \in DOMAIN m : OwnPid(m[i], i) \/ (i = id /\ op = "create" /\ where = "start")
    <3>1. \A i \in DOMAIN d : OwnPid(m[i], i)
      BY <1>6, <1>8 DEF OwnPids
    <3>2. op = "create" /\ id \notin DOMAIN d => OwnPid(m[id], id) \/ where = "start"
      BY <1>7, <1>8, <1>9 DEF OwnPid
    <3> QED BY <1>8, <3>1, <3>2
  <2> QED BY <1>5, <1>11, <2>1 DEF RequestOwns
<1>15. Busy(c) => InStep(c, meta)
  <2>1. Ours(c) = m[id] /\ Theirs(c, meta) = d[id]
    BY <1>11, <1>12 DEF Ours, Theirs
  <2>2. Busy(c) /\ op \notin {"create", "delete"} => id \in DOMAIN d /\ where # "load" /\ m[id] = d[id]
    BY <1>8, <1>9, <1>11 DEF Busy
  <2>3. Busy(c) /\ op \notin {"create", "delete"} => Agree(c, m[id], d[id])
    BY <1>9, <1>11, <2>2 DEF Agree, Saving
  <2>4. Busy(c) /\ op = "create" => id \notin DOMAIN d /\ m[id].commands = {}
    BY <1>7, <1>8, <1>9, <1>11 DEF Busy
  <2>5. op = "delete" /\ where = "kill" => id \in DOMAIN d /\ m[id] = d[id]
    BY <1>8, <1>9
  <2> QED BY <1>8, <1>10, <1>11, <1>12, <2>1, <2>2, <2>3, <2>4, <2>5 DEF InStep
<1>16. Busy(c) => CalmRequest(c)
  <2>1. op = "delete" /\ where = "load" => id \notin DOMAIN d
    BY <1>9
  <2>2. op = "connect" => where # "load" /\ where # "live" /\ where # "event"
    BY <1>9
  <2> QED BY <1>10, <1>11, <1>12, <2>1, <2>2 DEF CalmRequest, Deletes, BeginsAgain, Connects, Saving
<1>17. req[q].pid = 0 /\ req[q].stale = FALSE /\ req[q].killed = TRUE
  BY <1>4, <1>5
<1> QED BY <1>2, <1>11, <1>13, <1>14, <1>15, <1>16, <1>17, QuietMoves

-----------------------------------------------------------------------------
(* Steps of processes *)

\* Fewer processes run than before, and all keep their tags.
Fewer ==
  \A p \in Toolbox!Pids : IsAlive(p)' => /\ IsAlive(p)
                                        /\ \A i : Toolbox!First(p, i)' => Toolbox!First(p, i)

\* The processes move, and no request does.
LEMMA OnlyProcesses ==
  ASSUME ToolboxInv, UNCHANGED <<meta, req>>, ProcessesGo, Fewer
  PROVE  ToolboxInv'
<1>1. meta \in Metas /\ req \in [Toolbox!Requests -> Asking] /\ PidsOwned
  BY DEF ToolboxInv, ToolboxTypes
<1>2. ToolboxTypes' /\ PidsInOrder'
  BY DEF ToolboxInv, ToolboxTypes, ProcessesGo
<1>3. PidsOwned'
  <2>1. \A k \in Toolbox!Kinds : OwnPids(Toolbox!Dict(meta, k))'
    BY <1>1, DictThere, OwnPidsStay DEF PidsOwned
  <2>2. \A o \in Toolbox!Requests : \E e \in Asking : req'[o] = e /\ RequestOwns(e)'
    BY <1>1, RequestOwnsStill DEF PidsOwned
  <2>3. \A o \in Toolbox!Requests : RequestOwns(req[o])'
    BY <2>2 DEF RequestOwns, OwnPids, OwnPid
  <2> QED BY <2>1, <2>3 DEF PidsOwned
<1>4. (\A o \in Toolbox!Requests : Fits(req'[o])) /\ SessionsInStep' /\ (Undisturbed' <=> Undisturbed)
  BY DEF ToolboxInv, SessionsInStep, Undisturbed
<1>5. NothingNew
  BY DEF NothingNew, Fewer, Runs
<1>6. LostStay
  BY DEF LostStay, Lost
<1>7. ASSUME Undisturbed PROVE \A o \in Toolbox!Requests : Busy(req'[o]) => CalmRequest(req[o])'
  <2>1. \A o \in Toolbox!Requests :
          \E e \in Asking : req'[o] = e /\ (Busy(e) => CalmRequest(e)')
    <3>1. ASSUME NEW o \in Toolbox!Requests, Busy(req[o])
          PROVE  \E e \in Asking : req'[o] = e /\ CalmRequest(e)'
      <4>1. PICK e \in Asking : e = req[o]
        BY <1>1
      <4>2. Busy(e) /\ Fits(e) /\ InStep(e, meta) /\ RequestOwns(e) /\ CalmRequest(e)
        BY <1>7, <3>1, <4>1
           DEF ToolboxInv, SessionsInStep, PidsOwned, WhenCalm, CalmRequest, Undisturbed
      <4>3. CalmRequest(e)'
        BY <1>1, <1>5, <1>6, <4>2, CalmStays
      <4> QED BY <4>1, <4>3
    <3> QED BY <1>1, <3>1
  <2> QED BY <2>1 DEF CalmRequest, Deletes, BeginsAgain, Connects, Runs, IsAlive
<1>8. ASSUME Undisturbed PROVE TerminalsNamed'
  <2>1. TerminalsNamed
    BY <1>8 DEF ToolboxInv, WhenCalm
  <2>2. \A p \in Toolbox!Pids, i \in Toolbox!Ids : RowNames(i, p)' <=> RowNames(i, p)
    BY DEF RowNames
  <2> QED BY <1>6, <2>1, <2>2 DEF TerminalsNamed, Fewer, LostStay
<1>9. WhenCalm'
  BY <1>4, <1>7, <1>8 DEF WhenCalm, CalmRequest
<1> QED BY <1>2, <1>3, <1>4, <1>9 DEF ToolboxInv

\* A process exits, or is killed.
LEMMA ProcessEnds ==
  ASSUME ToolboxTypes, PidsInOrder, NEW p \in Toolbox!Pids, IsAlive(p),
         process' = [process EXCEPT ![p].st = "ended"]
  PROVE  /\ ProcessesGo /\ Fewer /\ ~IsAlive(p)'
         /\ \A o \in Toolbox!Pids : \A i : Toolbox!First(o, i)' <=> Toolbox!First(o, i)
<1>1. /\ process \in [Toolbox!Pids -> Started] /\ process' \in [Toolbox!Pids -> Started]
      /\ process'[p].st = "ended" /\ process'[p].of = process[p].of
      /\ process[p].st = "alive"
      /\ \A o \in Toolbox!Pids \ {p} : process'[o] = process[o]
  BY DEF ToolboxTypes, Started, IsAlive
<1>2. ProcessesGo /\ ~IsAlive(p)'
  BY <1>1 DEF ProcessesGo, PidsInOrder, IsAlive
<1>3. \A o \in Toolbox!Pids : \A i : Toolbox!Tagged(o, i)' <=> Toolbox!Tagged(o, i)
  BY <1>1 DEF Toolbox!Tagged
<1>4. \A o \in Toolbox!Pids : \A i : Toolbox!First(o, i)' <=> Toolbox!First(o, i)
  BY <1>3 DEF Toolbox!First
<1>5. Fewer
  BY <1>1, <1>4 DEF Fewer, IsAlive
<1> QED BY <1>2, <1>4, <1>5

\* A process that exits does nothing to what the sessions know.
LEMMA ProcessExits ==
  ASSUME ToolboxInv, NEW p \in Toolbox!Pids, Toolbox!Exits(p)
  PROVE  ToolboxInv'
<1>1. /\ UNCHANGED <<meta, req>> /\ IsAlive(p) /\ ToolboxTypes /\ PidsInOrder
      /\ process' = [process EXCEPT ![p].st = "ended"]
  BY DEF Toolbox!Exits, Toolbox!Is, IsAlive, ToolboxInv
<1> QED BY <1>1, ProcessEnds, OnlyProcesses

\* An envd that starts anew knows no process, and none runs.
LEMMA GuestForgets ==
  ASSUME ToolboxInv, Toolbox!EnvdRestarts
  PROVE  ToolboxInv'
<1>1. /\ UNCHANGED <<meta, req>> /\ ToolboxTypes /\ PidsInOrder
      /\ process' = [p \in Toolbox!Pids |-> IF process[p].st = "none" THEN process[p]
                                             ELSE [process[p] EXCEPT !.st = "gone"]]
  BY DEF Toolbox!EnvdRestarts, ToolboxInv
<1>2. process' \in [Toolbox!Pids -> Started]
  BY <1>1 DEF ToolboxTypes, Started
<1>3. \A p \in Toolbox!Pids :
        /\ process[p].st = "none" => process'[p] = process[p]
        /\ process[p].st # "none" => process'[p].of = process[p].of /\ process'[p].st = "gone"
  BY <1>1 DEF ToolboxTypes, Started
<1>4. ProcessesGo /\ Fewer
  BY <1>2, <1>3, <1>1 DEF ProcessesGo, Fewer, PidsInOrder, IsAlive
<1> QED BY <1>1, <1>4, OnlyProcesses

-----------------------------------------------------------------------------
(* Sessions: steps that move a request and a process *)

\* A session's process is killed: it runs no more.
LEMMA KilledRunsNot ==
  ASSUME ToolboxTypes, PidsInOrder, NEW s \in Toolbox!Session, NEW i, OwnPid(s, i),
         process' = Toolbox!Signalled(Toolbox!Selected(s, i))
  PROVE  ProcessesGo /\ Fewer /\ \A r \in Toolbox!Pids : ~Runs(s, i, r)'
<1>1. PICK p : p = Toolbox!Selected(s, i)
  OBVIOUS
<1>2. p # 0 => p \in Toolbox!Pids
  BY <1>1, SelectedOwn
<1>3. \A r \in Toolbox!Pids : Runs(s, i, r) => r = p
  BY <1>1, SelectedRuns DEF Runs
<1>4. ProcessesGo /\ Fewer /\ (p # 0 => ~IsAlive(p)')
  <2>1. CASE p # 0 /\ IsAlive(p)
    <3>1. process' = [process EXCEPT ![p].st = "ended"]
      BY <1>1, <1>2, <2>1 DEF Toolbox!Signalled, Toolbox!Is, IsAlive, Toolbox!Pids
    <3> QED BY <1>2, <2>1, <3>1, ProcessEnds
  <2>2. CASE ~(p # 0 /\ IsAlive(p))
    <3>1. UNCHANGED process
      BY <1>1, <2>2 DEF Toolbox!Signalled, Toolbox!Is, IsAlive
    <3>2. ProcessesGo
      BY <3>1 DEF ProcessesGo, ToolboxTypes, PidsInOrder
    <3>3. Fewer
      BY <3>1 DEF Fewer, IsAlive, Toolbox!First, Toolbox!Tagged
    <3> QED BY <2>2, <3>1, <3>2, <3>3 DEF IsAlive
  <2> QED BY <2>1, <2>2
<1>5. ASSUME NEW r \in Toolbox!Pids, Runs(s, i, r)' PROVE FALSE
  <2>1. Runs(s, i, r) /\ IsAlive(r)'
    BY <1>4, <1>5 DEF Fewer, Runs
  <2> QED BY <1>3, <1>4, <2>1 DEF Toolbox!Pids
<1> QED BY <1>4, <1>5

\* A session's process is killed, and the session is taken out.
LEMMA SessionKilled ==
  ASSUME ToolboxInv, NEW q \in Toolbox!Requests, Toolbox!Kill(q)
  PROVE  ToolboxInv'
<1>1. PICK b \in Asking : b = req[q]
  BY DEF ToolboxInv, ToolboxTypes
<1>2. PICK o : o = Ours(b)
  OBVIOUS
<1>3. /\ b.pc = "kill" /\ UNCHANGED meta /\ ToolboxTypes /\ PidsInOrder
      /\ process' = IF Toolbox!Has(o) THEN Toolbox!Signalled(Toolbox!Selected(o, b.id)) ELSE process
  BY <1>1, <1>2 DEF Toolbox!Kill, Toolbox!Moves, Toolbox!Its, Toolbox!Mine, Ours, ToolboxInv
<1>4. PICK c : c = PoppedOut(b, TRUE)
  OBVIOUS
<1>5. req' = [req EXCEPT ![q] = c]
  BY <1>1, <1>4
     DEF Toolbox!Kill, Toolbox!DeleteSession, Toolbox!Becomes, Toolbox!Popped, PoppedOut
<1>6. /\ c \in Asking /\ Fits(c) /\ RequestOwns(c) /\ Saving(c) /\ c.op = "delete"
      /\ c.id = b.id /\ c.pid = b.pid /\ c.stale = b.stale /\ c.killed = TRUE
      /\ ~c.stale => InStep(c, meta) /\ Theirs(c, meta) = o
  BY <1>1, <1>2, <1>3, <1>4, Pops, ZenonT(60)
<1>7. OwnPid(o, b.id) /\ o \in Toolbox!Session /\ b.killed /\ (Undisturbed => ~b.stale)
  <2>1. Fits(b) /\ RequestOwns(b) /\ (Undisturbed => ~b.stale)
    BY <1>1 DEF ToolboxInv, PidsOwned, Undisturbed
  <2>2. b.op = "delete" /\ b.id \in DOMAIN b.mine /\ b.mine \in Dicts /\ b.killed
    BY <1>3, <2>1 DEF Fits, Asking, Busy, Saving
  <2>3. OwnPid(o, b.id)
    BY <1>2, <2>1, <2>2 DEF RequestOwns, Ours
  <2> QED BY <1>2, <2>1, <2>2, <2>3, DictHas DEF Ours
<1>8. /\ ProcessesGo /\ Fewer
      /\ Toolbox!Has(o) => \A r \in Toolbox!Pids : ~Runs(o, b.id, r)'
  <2>1. CASE Toolbox!Has(o)
    BY <1>3, <1>7, <2>1, KilledRunsNot
  <2>2. CASE ~Toolbox!Has(o)
    <3>1. UNCHANGED process
      BY <1>3, <2>2
    <3>2. ProcessesGo
      BY <1>3, <3>1 DEF ProcessesGo, ToolboxTypes, PidsInOrder
    <3>3. Fewer
      BY <3>1 DEF Fewer, IsAlive, Toolbox!First, Toolbox!Tagged
    <3> QED BY <2>2, <3>2, <3>3
  <2> QED BY <2>1, <2>2
<1>9. NothingNew /\ StillKnown(c)
  BY <1>8 DEF NothingNew, StillKnown, Fewer, Runs
<1>10. RequestOwns(c)'
  BY <1>6, <1>8, RequestOwnsStill
<1>11. Follows(req[q], c)
  BY <1>1, <1>3, <1>6, <1>7 DEF Follows
<1>12. ASSUME Undisturbed PROVE CalmRequest(c)'
  <2>1. Theirs(c, meta)' = o
    BY <1>3, <1>6, <1>7, <1>12 DEF Theirs, DictFor
  <2>2. Deletes(c, meta)'
    BY <1>6, <1>8, <2>1 DEF Deletes
  <2> QED BY <1>6, <2>2 DEF CalmRequest, BeginsAgain, Connects, Saving
<1>13. req[q].pc # "done"
  BY <1>1, <1>3
<1> QED BY <1>3, <1>5, <1>6, <1>8, <1>9, <1>10, <1>11, <1>12, <1>13, RequestMoves

\* The request c starts the process p.
Starts(p, i) ==
  /\ p \in Toolbox!Pids /\ process[p].st = "none"
  /\ \A o \in Toolbox!Pids : o < p => process[o].st # "none"
  /\ process' = [process EXCEPT ![p] = [of |-> i, st |-> "alive"]]

\* No other process changes, and none becomes the first of its tag.
LEMMA ProcessStarts ==
  ASSUME ToolboxTypes, PidsInOrder, NEW i \in Toolbox!Ids, NEW p, Starts(p, i)
  PROVE  /\ ProcessesGo
         /\ process'[p].of = i /\ process'[p].st = "alive" /\ p > 0
         /\ \A o \in Toolbox!Pids \ {p} : process'[o] = process[o]
         /\ \A o \in Toolbox!Pids \ {p} : \A j : Toolbox!First(o, j)' => Toolbox!First(o, j)
         /\ \A j : Toolbox!First(p, j)' => j = i
<1>1. /\ process \in [Toolbox!Pids -> Started] /\ process' \in [Toolbox!Pids -> Started]
      /\ process'[p].of = i /\ process'[p].st = "alive" /\ p \in Toolbox!Pids
      /\ process[p].st = "none" /\ \A o \in Toolbox!Pids : o < p => process[o].st # "none"
      /\ \A o \in Toolbox!Pids \ {p} : process'[o] = process[o]
  BY DEF ToolboxTypes, Started, Starts
<1>2. PidsInOrder'
  BY <1>1 DEF PidsInOrder, Toolbox!Pids
<1>3. ProcessesGo
  BY <1>1, <1>2 DEF ProcessesGo
<1>4. \A o \in Toolbox!Pids \ {p} : \A j : Toolbox!Tagged(o, j)' <=> Toolbox!Tagged(o, j)
  BY <1>1 DEF Toolbox!Tagged
<1>5. \A j : ~Toolbox!Tagged(p, j)
  BY <1>1 DEF Toolbox!Tagged
<1>6. \A o \in Toolbox!Pids \ {p} : \A j : Toolbox!First(o, j)' => Toolbox!First(o, j)
  BY <1>4, <1>5 DEF Toolbox!First
<1>7. \A j : Toolbox!First(p, j)' => j = i
  BY <1>1 DEF Toolbox!First, Toolbox!Tagged
<1>8. p > 0
  BY <1>1 DEF Toolbox!Pids
<1> QED BY <1>1, <1>3, <1>6, <1>7, <1>8

\* A session that has a pid does not run the new process.
LEMMA OldRunsOld ==
  ASSUME ToolboxTypes, PidsInOrder, NEW i \in Toolbox!Ids, NEW p, Starts(p, i),
         NEW s \in Toolbox!Session, NEW j, OwnPid(s, j),
         NEW r \in Toolbox!Pids, Runs(s, j, r)', r # p \/ s.pid > 0
  PROVE  Runs(s, j, r) /\ r # p
<1>1. /\ process[p].st = "none" /\ p \in Toolbox!Pids
      /\ \A o \in Toolbox!Pids \ {p} : process'[o] = process[o]
      /\ \A o \in Toolbox!Pids \ {p} : Toolbox!First(o, j)' => Toolbox!First(o, j)
  BY ProcessStarts, ZenonT(60) DEF Starts
<1>2. r # p
  <2>1. s.pid > 0 => s.pid # 0
    BY DEF Toolbox!Session
  <2> QED BY <1>1, <2>1 DEF Runs, OwnPid
<1> QED BY <1>1, <1>2 DEF Runs, IsAlive

\* A new shell runs no session that had a process: each of them has its pid.
LEMMA ShellRunsNothing ==
  ASSUME ToolboxInv, NEW i \in Toolbox!Ids, i \in Shells, NEW p \in Toolbox!Pids, Starts(p, i)
  PROVE  NothingNew
<1> SUFFICES ASSUME NEW j \in Toolbox!Ids, NEW t \in Toolbox!Session, OfRow(t, j),
                    Toolbox!Has(t), NEW r \in Toolbox!Pids, Runs(t, j, r)'
             PROVE  Runs(t, j, r)
  BY DEF NothingNew
<1>1. OwnPid(t, j) /\ ToolboxTypes /\ PidsInOrder
  BY KindIsOne DEF ToolboxInv, PidsOwned, OwnPids, OfRow
<1>2. CASE r = p
  <2>1. j = i \/ t.pid = r
    BY <1>1, <1>2, ProcessStarts DEF Runs
  <2>2. t.pid > 0
    BY <1>1, <1>2, <2>1 DEF OwnPid, Toolbox!Pids
  <2> QED BY <1>1, <2>2, OldRunsOld
<1>3. CASE r # p
  BY <1>1, <1>3, OldRunsOld
<1> QED BY <1>2, <1>3

\* A shell or a terminal is started: the request waits for the answer.
LEMMA SessionStarts ==
  ASSUME ToolboxInv, MaxPids \in Nat, NEW q \in Toolbox!Requests, Toolbox!Starts(q)
  PROVE  ToolboxInv'
<1>1. PICK b \in Asking : b = req[q]
  BY DEF ToolboxInv, ToolboxTypes
<1>2. PICK o : o = Ours(b)
  OBVIOUS
<1>3. PICK p \in Toolbox!Pids :
        /\ Starts(p, b.id) /\ process[p].st = "none"
        /\ req' = [req EXCEPT ![q] = [b EXCEPT !.pc = "answer", !.pid = p]]
  BY <1>1 DEF Toolbox!Starts, Toolbox!Started, Toolbox!Becomes, Starts
<1>4. /\ b.pc = "start" \/ (b.pc = "open" /\ ~Toolbox!Has(o))
      /\ UNCHANGED meta /\ ToolboxTypes /\ PidsInOrder /\ meta \in Metas
  BY <1>1, <1>2
     DEF Toolbox!Starts, Toolbox!Moves, Toolbox!Mine, Ours, ToolboxInv, ToolboxTypes
<1>5. /\ Fits(b) /\ RequestOwns(b) /\ Busy(b) /\ ~Saving(b)
      /\ ~b.stale => InStep(b, meta)
      /\ Undisturbed => ~b.stale /\ BeginsAgain(b, meta)
  BY <1>1, <1>4
     DEF ToolboxInv, PidsOwned, SessionsInStep, WhenCalm, Undisturbed, Busy, Saving
<1>6. /\ b.id \in Toolbox!Ids /\ b.pid = 0 /\ b.killed /\ b.lost = 0
      /\ \/ b.op = "connect" /\ b.id \notin Shells /\ ~Toolbox!Has(o)
         \/ b.id \in Shells /\ ((b.op = "create" /\ ~b.again) \/ (b.op = "execute" /\ b.again))
      /\ b.id \in DOMAIN b.mine /\ b.mine \in Dicts /\ o \in Toolbox!Session
  <2>1. /\ b.id \in Toolbox!Ids /\ b.killed /\ b.lost = 0 /\ b.id \in DOMAIN b.mine
        /\ \/ b.op = "connect" /\ b.id \notin Shells /\ ~Toolbox!Has(o)
           \/ b.id \in Shells /\ ((b.op = "create" /\ ~b.again) \/ (b.op = "execute" /\ b.again))
    BY <1>4, <1>5 DEF Fits
  <2>2. b.pid = 0 /\ b.mine \in Dicts
    BY <1>4, <1>5 DEF Fits, Asking
  <2> QED BY <1>2, <2>1, <2>2, DictHas DEF Ours
<1>7. PICK c : c = [b EXCEPT !.pc = "answer", !.pid = p]
  OBVIOUS
<1>8. /\ c \in Asking /\ c.pc = "answer" /\ c.mine = b.mine /\ c.then = b.then
      /\ c.op = b.op /\ c.id = b.id /\ c.pid = p
      /\ c.loaded = b.loaded /\ c.again = b.again
      /\ c.stale = b.stale /\ c.killed = b.killed /\ c.lost = b.lost
  <2>1. p \in 0..MaxPids
    BY DEF Toolbox!Pids
  <2>2. c \in Asking
    BY <1>7, <2>1 DEF Asking
  <2> QED BY <1>7, <2>2 DEF Asking
<1>9. Busy(c) /\ ~Saving(c) /\ p > 0 /\ Ours(c) = o
  BY <1>2, <1>8 DEF Busy, Saving, Toolbox!Pids, Ours
<1>10. Fits(c)
  BY <1>5, <1>6, <1>8, <1>9 DEF Fits, Busy, Saving
<1>11. /\ ProcessesGo
       /\ process'[p].of = b.id /\ process'[p].st = "alive"
       /\ \A r \in Toolbox!Pids \ {p} : process'[r] = process[r]
       /\ \A r \in Toolbox!Pids \ {p} : \A j : Toolbox!First(r, j)' => Toolbox!First(r, j)
       /\ \A j : Toolbox!First(p, j)' => j = b.id
  BY <1>3, <1>4, <1>6, ProcessStarts
<1>12. RequestOwns(c)'
  <2>1. \A i \in DOMAIN b.mine : OwnPid(b.mine[i], i)' \/ (i = b.id /\ b.op = "create")
    BY <1>5, <1>6, <1>11, DictHas, OwnPidStays DEF RequestOwns
  <2>2. \A k \in Toolbox!Kinds : OwnPids(Toolbox!Dict(b.loaded, k))'
    <3>1. b.loaded \in Metas
      BY DEF Asking
    <3> QED BY <1>5, <1>11, <3>1, DictThere, OwnPidsStay DEF RequestOwns
  <2> QED BY <1>8, <1>11, <2>1, <2>2 DEF RequestOwns
<1>13. DictFor(c, meta) = DictFor(b, meta) /\ Theirs(c, meta) = Theirs(b, meta)
  BY <1>8 DEF Theirs, DictFor
<1>14. ~b.stale /\ b.op = "connect" => b.id \in DOMAIN DictFor(b, meta) /\ Theirs(b, meta) = o
  <2> HAVE ~b.stale /\ b.op = "connect"
  <2>1. b.id \in DOMAIN DictFor(b, meta) /\ Agree(b, o, Theirs(b, meta))
    BY <1>2, <1>5 DEF InStep
  <2> QED BY <1>5, <2>1 DEF Agree
<1>15. ~c.stale => InStep(c, meta)
  <2> HAVE ~c.stale
  <2>1. InStep(b, meta)
    BY <1>5, <1>8
  <2>2. Agree(b, o, Theirs(b, meta)) => Agree(c, o, Theirs(b, meta))
    BY <1>5, <1>8, <1>9 DEF Agree
  <2> QED BY <1>2, <1>6, <1>8, <1>9, <1>13, <2>1, <2>2 DEF InStep
<1>16. ASSUME Undisturbed PROVE NothingNew
  <2>1. CASE b.id \in Shells
    BY <1>3, <1>6, <2>1, ShellRunsNothing
  <2>2. CASE b.id \notin Shells
    <3> SUFFICES ASSUME NEW i \in Toolbox!Ids, NEW t \in Toolbox!Session, OfRow(t, i),
                        Toolbox!Has(t), NEW r \in Toolbox!Pids, Runs(t, i, r)'
                 PROVE  Runs(t, i, r)
      BY DEF NothingNew
    <3>1. OwnPid(t, i)
      BY KindIsOne DEF ToolboxInv, PidsOwned, OwnPids, OfRow
    <3>2. r # p \/ t.pid > 0
      <4> SUFFICES ASSUME r = p, ~(t.pid > 0) PROVE FALSE
        OBVIOUS
      <4>1. i = b.id
        BY <1>9, <1>11 DEF Runs
      <4>2. t = Theirs(b, meta)
        BY <4>1 DEF OfRow, Theirs, DictFor
      <4> QED BY <1>5, <1>6, <1>14, <1>16, <2>2, <4>2
    <3> QED BY <1>3, <1>4, <1>6, <3>1, <3>2, OldRunsOld
  <2> QED BY <2>1, <2>2
<1>17. StillKnown(c)
  BY <1>8, <1>11 DEF StillKnown, IsAlive
<1>18. Follows(req[q], c) /\ req[q].pc # "done"
  BY <1>1, <1>4, <1>6, <1>8 DEF Follows
<1>19. ASSUME Undisturbed PROVE CalmRequest(c)'
  <2>1. Theirs(c, meta)' = Theirs(b, meta) /\ Deletes(c, meta)' /\ Connects(c, meta)'
    BY <1>4, <1>6, <1>8, <1>9 DEF Theirs, DictFor, Deletes, Connects
  <2>2. b.op = "execute" => \A r \in Toolbox!Pids : ~Runs(Theirs(b, meta), b.id, r)'
    <3> SUFFICES ASSUME b.op = "execute", NEW r \in Toolbox!Pids, NEW t, t = Theirs(b, meta),
                        Runs(t, b.id, r)'
                 PROVE  FALSE
      BY <1>4 DEF Runs, IsAlive, Toolbox!First, Toolbox!Tagged, Theirs, DictFor
    <3>1. InStep(b, meta) /\ BeginsAgain(b, meta)
      BY <1>5, <1>19
    <3>2. b.id \in DOMAIN DictFor(b, meta)
      BY <3>1 DEF InStep
    <3>3. OwnPid(t, b.id) /\ t \in Toolbox!Session
      BY <1>4, <3>2, KindIsOne, DictForIs, DictHas DEF ToolboxInv, PidsOwned, OwnPids, Theirs, DictFor
    <3>4. t.pid > 0
      BY <1>6, <3>3 DEF OwnPid
    <3>5. Runs(t, b.id, r)
      BY <1>3, <1>4, <1>6, <3>3, <3>4, OldRunsOld
    <3>6. b.again /\ b.pc = "start"
      BY <1>4, <1>5, <1>6, <3>1 DEF Fits
    <3> QED BY <3>1, <3>5, <3>6 DEF BeginsAgain
  <2>3. BeginsAgain(c, meta)'
    BY <1>4, <1>8, <2>2 DEF BeginsAgain, Theirs, DictFor
  <2> QED BY <2>1, <2>3 DEF CalmRequest
<1> QED BY <1>3, <1>4, <1>7, <1>8, <1>10, <1>11, <1>12, <1>15, <1>16, <1>17, <1>18, <1>19, RequestMoves

\* A request that envd has answered is one for a shell or for a terminal.
LEMMA Answered ==
  ASSUME ToolboxInv, MaxPids \in Nat, NEW q \in Toolbox!Requests, NEW b \in Asking, b = req[q],
         b.pc = "answer"
  PROVE  /\ Fits(b) /\ RequestOwns(b) /\ Busy(b) /\ ~Saving(b)
         /\ ~b.stale => InStep(b, meta)
         /\ Undisturbed => ~b.stale /\ BeginsAgain(b, meta)
         /\ b.id \in Toolbox!Ids /\ b.killed /\ b.lost = 0
         /\ b.pid \in Toolbox!Pids /\ process[b.pid].of = b.id /\ process[b.pid].st # "none"
         /\ \/ b.op = "connect" /\ b.id \notin Shells /\ ~Toolbox!Has(Ours(b))
            \/ b.id \in Shells /\ ((b.op = "create" /\ ~b.again) \/ (b.op = "execute" /\ b.again))
         /\ b.id \in DOMAIN b.mine /\ b.mine \in Dicts /\ Ours(b) \in Toolbox!Session
<1>1. /\ Fits(b) /\ RequestOwns(b) /\ Busy(b) /\ ~Saving(b)
      /\ ~b.stale => InStep(b, meta)
      /\ Undisturbed => ~b.stale /\ BeginsAgain(b, meta)
  BY DEF ToolboxInv, PidsOwned, SessionsInStep, WhenCalm, Undisturbed, Busy, Saving
<1>2. /\ b.id \in Toolbox!Ids /\ b.killed /\ b.lost = 0 /\ b.id \in DOMAIN b.mine /\ b.pid > 0
      /\ \/ b.op = "connect" /\ b.id \notin Shells /\ ~Toolbox!Has(Ours(b))
         \/ b.id \in Shells /\ ((b.op = "create" /\ ~b.again) \/ (b.op = "execute" /\ b.again))
  BY <1>1 DEF Fits
<1>3. b.pid \in Toolbox!Pids /\ process[b.pid].of = b.id /\ process[b.pid].st # "none"
  BY <1>1, <1>2 DEF RequestOwns, Asking, Toolbox!Pids
<1>4. b.mine \in Dicts /\ Ours(b) \in Toolbox!Session
  BY <1>2, DictHas DEF Ours, Asking
<1> QED BY <1>1, <1>2, <1>3, <1>4

\* A shell has started: its pid goes to the session, which the request saves.
LEMMA ShellStarts ==
  ASSUME ToolboxInv, MaxPids \in Nat, NEW q \in Toolbox!Requests, Toolbox!StartShell(q)
  PROVE  ToolboxInv'
<1>1. PICK b \in Asking : b = req[q]
  BY DEF ToolboxInv, ToolboxTypes
<1>2. PICK o : o = Ours(b)
  OBVIOUS
<1>3. PICK p : p = b.pid
  OBVIOUS
<1>4. b.pc = "answer" /\ b.op # "connect" /\ UNCHANGED <<meta, process>>
  BY <1>1 DEF Toolbox!StartShell, Toolbox!Moves
<1>5. /\ Fits(b) /\ RequestOwns(b) /\ Busy(b) /\ ~Saving(b)
      /\ ~b.stale => InStep(b, meta)
      /\ Undisturbed => ~b.stale /\ BeginsAgain(b, meta)
      /\ b.id \in Toolbox!Ids /\ b.killed /\ b.lost = 0
      /\ p \in Toolbox!Pids /\ process[p].of = b.id /\ process[p].st # "none"
      /\ b.id \in Shells /\ ((b.op = "create" /\ ~b.again) \/ (b.op = "execute" /\ b.again))
      /\ b.id \in DOMAIN b.mine /\ b.mine \in Dicts /\ o \in Toolbox!Session
  BY <1>1, <1>2, <1>3, <1>4, Answered
<1>6. PICK n \in {"send", "done"} : n = IF b.again THEN "send" ELSE "done"
  BY <1>1 DEF Asking
<1>7. PICK s : s = Toolbox!Restarted(o, p)
  OBVIOUS
<1>8. s \in Toolbox!Session /\ s.pid = p /\ s.started = o.started /\ s.commands = o.commands
  <2>1. s = [o EXCEPT !.pid = p] /\ p \in 0..MaxPids
    BY <1>5, <1>7 DEF Toolbox!Restarted, Toolbox!Pids
  <2>2. s \in Toolbox!Session
    BY <1>5, <2>1 DEF Toolbox!Session
  <2> QED BY <1>5, <2>1, <2>2 DEF Toolbox!Session
<1>9. PICK m : m = [b.mine EXCEPT ![b.id] = s]
  OBVIOUS
<1>10. /\ m \in Dicts /\ DOMAIN m = DOMAIN b.mine /\ m[b.id] = s
       /\ \A j \in DOMAIN m \ {b.id} : m[j] = b.mine[j]
  BY <1>5, <1>8, <1>9, DictSet
<1>11. PICK c : c = [b EXCEPT !.mine = m, !.pid = 0, !.pc = "load", !.then = n]
  OBVIOUS
<1>12. req' = [req EXCEPT ![q] = c]
  <2>1. req' = [req EXCEPT ![q] = [b EXCEPT
                  !.mine = [b.mine EXCEPT ![b.id] = Toolbox!Restarted(b.mine[b.id], b.pid)],
                  !.pid = 0, !.pc = "load", !.then = IF b.again THEN "send" ELSE "done"]]
    BY <1>1 DEF Toolbox!StartShell, Toolbox!Becomes, Toolbox!Mine
  <2> QED BY <1>2, <1>3, <1>6, <1>7, <1>9, <1>11, <2>1 DEF Ours
<1>13. /\ c \in Asking /\ c.pc = "load" /\ c.mine = m /\ c.then = n
       /\ c.op = b.op /\ c.id = b.id /\ c.pid = 0
       /\ c.loaded = b.loaded /\ c.again = b.again
       /\ c.stale = b.stale /\ c.killed = b.killed /\ c.lost = b.lost
  <2>1. 0 \in 0..MaxPids
    BY <1>5 DEF Asking
  <2>2. c \in Asking
    BY <1>6, <1>10, <1>11, <2>1 DEF Asking
  <2> QED BY <1>11, <2>2 DEF Asking
<1>14. Fits(c) /\ Busy(c) /\ Saving(c)
  BY <1>5, <1>6, <1>10, <1>13 DEF Fits, Busy, Saving
<1>15. RequestOwns(c)
  <2>1. OwnPid(s, b.id)
    BY <1>5, <1>8 DEF OwnPid, Toolbox!Pids
  <2> QED BY <1>5, <1>10, <1>13, <2>1 DEF RequestOwns
<1>16. DictFor(c, meta) = DictFor(b, meta) /\ Theirs(c, meta) = Theirs(b, meta) /\ Ours(c) = s
  BY <1>10, <1>13 DEF Theirs, DictFor, Ours
<1>17. ~c.stale => InStep(c, meta)
  <2> HAVE ~c.stale
  <2>1. InStep(b, meta)
    BY <1>5, <1>13
  <2>2. b.op = "execute" => Agree(c, s, Theirs(b, meta))
    <3> HAVE b.op = "execute"
    <3>1. Agree(b, o, Theirs(b, meta))
      BY <1>2, <2>1 DEF InStep
    <3> QED BY <1>5, <1>6, <1>8, <1>13, <1>14, <3>1 DEF Agree
  <2>3. b.op = "create" => s.commands = {}
    BY <1>2, <1>8, <2>1 DEF InStep
  <2> QED BY <1>5, <1>10, <1>13, <1>16, <2>1, <2>2, <2>3 DEF InStep
<1>18. Undisturbed => CalmRequest(c)
  <2> HAVE Undisturbed
  <2>1. Deletes(c, meta) /\ Connects(c, meta)
    BY <1>5, <1>13 DEF Deletes, Connects
  <2>2. BeginsAgain(c, meta)
    BY <1>4, <1>5, <1>13, <1>16 DEF BeginsAgain
  <2> QED BY <2>1, <2>2 DEF CalmRequest
<1>19. \A r \in Toolbox!Pids, i \in Toolbox!Ids \ Shells :
         r = req[q].pid /\ IsAlive(r) /\ Toolbox!First(r, i) => RowNames(i, r)
  BY <1>1, <1>3, <1>5 DEF Toolbox!First, Toolbox!Tagged
<1> QED BY <1>1, <1>4, <1>12, <1>13, <1>14, <1>15, <1>17, <1>18, <1>19, QuietMoves

\* A terminal has started: the request saves that, and waits for the event with the pid.
LEMMA TerminalStarts ==
  ASSUME ToolboxInv, MaxPids \in Nat, NEW q \in Toolbox!Requests, Toolbox!StartTerminal(q)
  PROVE  ToolboxInv'
<1>1. PICK b \in Asking : b = req[q]
  BY DEF ToolboxInv, ToolboxTypes
<1>2. PICK o : o = Ours(b)
  OBVIOUS
<1>3. b.pc = "answer" /\ b.op = "connect" /\ UNCHANGED <<meta, process>>
  BY <1>1 DEF Toolbox!StartTerminal, Toolbox!Moves
<1>4. /\ Fits(b) /\ RequestOwns(b) /\ Busy(b) /\ ~Saving(b)
      /\ ~b.stale => InStep(b, meta)
      /\ Undisturbed => ~b.stale
      /\ b.id \in Toolbox!Ids /\ b.killed /\ b.lost = 0
      /\ b.pid \in Toolbox!Pids /\ process[b.pid].of = b.id /\ process[b.pid].st # "none"
      /\ b.id \notin Shells /\ ~Toolbox!Has(o)
      /\ b.id \in DOMAIN b.mine /\ b.mine \in Dicts /\ o \in Toolbox!Session
  BY <1>1, <1>2, <1>3, Answered
<1>5. PICK s : s = [o EXCEPT !.started = TRUE]
  OBVIOUS
<1>6. s \in Toolbox!Session /\ s.pid = o.pid /\ s.started /\ s.commands = o.commands
  <2>1. s \in Toolbox!Session
    BY <1>4, <1>5 DEF Toolbox!Session
  <2> QED BY <1>4, <1>5, <2>1 DEF Toolbox!Session
<1>7. PICK m : m = [b.mine EXCEPT ![b.id] = s]
  OBVIOUS
<1>8. /\ m \in Dicts /\ DOMAIN m = DOMAIN b.mine /\ m[b.id] = s
      /\ \A j \in DOMAIN m \ {b.id} : m[j] = b.mine[j]
  BY <1>4, <1>6, <1>7, DictSet
<1>9. PICK c : c = Saved(b, m, "event")
  OBVIOUS
<1>10. req' = [req EXCEPT ![q] = c]
  BY <1>1, <1>2, <1>5, <1>7, <1>9
     DEF Toolbox!StartTerminal, Toolbox!SaveThen, Toolbox!Becomes, Toolbox!Opened, Saved, Ours
<1>11. /\ c \in Asking /\ c.pc = "load" /\ c.mine = m /\ c.then = "event"
       /\ c.op = b.op /\ c.id = b.id /\ c.pid = b.pid
       /\ c.loaded = b.loaded /\ c.again = b.again
       /\ c.stale = b.stale /\ c.killed = b.killed /\ c.lost = b.lost
  BY <1>8, <1>9, SaveIs, SMTT(60)
<1>12. Busy(c) /\ Saving(c) /\ b.pid > 0
  BY <1>4, <1>11 DEF Busy, Saving, Toolbox!Pids
<1>13. Fits(c)
  BY <1>3, <1>4, <1>8, <1>11, <1>12 DEF Fits, Busy, Saving
<1>14. RequestOwns(c)
  <2>1. OwnPid(o, b.id)
    BY <1>2, <1>3, <1>4 DEF RequestOwns, Ours
  <2>2. OwnPid(s, b.id)
    BY <1>6, <2>1 DEF OwnPid
  <2> QED BY <1>3, <1>4, <1>8, <1>11, <2>2 DEF RequestOwns
<1>15. DictFor(c, meta) = DictFor(b, meta) /\ Theirs(c, meta) = Theirs(b, meta) /\ Ours(c) = s
  BY <1>8, <1>11 DEF Theirs, DictFor, Ours
<1>16. ~c.stale => InStep(c, meta) /\ Theirs(c, meta) = o
  <2> HAVE ~c.stale
  <2>1. b.id \in DOMAIN DictFor(b, meta) /\ Agree(b, o, Theirs(b, meta)) /\ InStep(b, meta)
    BY <1>2, <1>3, <1>4, <1>11 DEF InStep
  <2>2. o = Theirs(b, meta)
    BY <1>4, <2>1 DEF Agree
  <2>3. Agree(c, s, Theirs(b, meta))
    BY <1>3, <1>6, <1>11, <1>12, <2>2 DEF Agree
  <2> QED BY <1>3, <1>8, <1>11, <1>15, <2>1, <2>2, <2>3 DEF InStep
<1>17. Undisturbed => CalmRequest(c)
  <2> HAVE Undisturbed
  <2>1. Deletes(c, meta) /\ BeginsAgain(c, meta)
    BY <1>3, <1>11 DEF Deletes, BeginsAgain
  <2>2. Connects(c, meta)
    BY <1>4, <1>11, <1>16 DEF Connects
  <2> QED BY <2>1, <2>2 DEF CalmRequest
<1> QED BY <1>1, <1>3, <1>4, <1>10, <1>11, <1>13, <1>14, <1>16, <1>17, QuietMoves

-----------------------------------------------------------------------------
(* Sessions: a request's dictionary is written *)

\* The row's session of i stays as it is.
RowOf(i) == Toolbox!Dict(meta, Toolbox!KindOf(i))
RowSame(i) ==
  /\ i \in DOMAIN RowOf(i)' <=> i \in DOMAIN RowOf(i)
  /\ i \in DOMAIN RowOf(i) => RowOf(i)'[i] = RowOf(i)[i]

\* The metadata that a request is to write: the row's, with its session, unless it deleted it,
\* and all else as it is, unless another write came between.
LEMMA MergedIs ==
  ASSUME Toolbox!ToolboxBounds, ToolboxInv, NEW q \in Toolbox!Requests, NEW b \in Asking,
         b = req[q], b.pc = "merge", NEW l, l = Toolbox!Merged(Toolbox!Written(q))
  PROVE  /\ l \in Metas
         /\ \A k \in Toolbox!Kinds : OwnPids(Toolbox!Dict(l, k))
         /\ ~b.stale => l = WritingBack(b, meta)
<1>1. /\ Fits(b) /\ RequestOwns(b) /\ meta \in Metas /\ b.loaded \in Metas /\ b.mine \in Dicts
      /\ ~b.stale => InStep(b, meta)
      /\ \A k \in Toolbox!Kinds : OwnPids(Toolbox!Dict(meta, k))
  BY DEF ToolboxInv, ToolboxTypes, PidsOwned, SessionsInStep, Busy, Asking
<1>2. b.id \in Toolbox!Ids /\ (b.id \in DOMAIN b.mine <=> b.op # "delete")
  BY <1>1 DEF Fits, Busy
<1>3. PICK k \in Toolbox!Kinds : k = Toolbox!KindOf(b.id)
  BY KindIsOne
<1>4. PICK ld : ld = Toolbox!Dict(b.loaded, k)
  OBVIOUS
<1>5. PICK nd : nd = IF b.op = "connect" THEN Toolbox!With(ld, b.id, Ours(b)) ELSE b.mine
  OBVIOUS
<1>6. ld \in Dicts /\ OwnPids(ld) /\ (b.op # "delete" => Ours(b) \in Toolbox!Session)
  BY <1>1, <1>2, <1>4, DictThere, DictHas DEF RequestOwns, Ours
<1>7. b.op = "connect" =>
        /\ nd \in Dicts /\ DOMAIN nd = DOMAIN ld \cup {b.id} /\ nd[b.id] = Ours(b)
        /\ \A j \in DOMAIN ld \ {b.id} : nd[j] = ld[j]
  <2> HAVE b.op = "connect"
  <2>1. PICK s \in Toolbox!Session : s = Ours(b)
    BY <1>6
  <2>2. nd = Toolbox!With(ld, b.id, s)
    BY <1>5, <2>1
  <2>3. /\ Toolbox!With(ld, b.id, s) \in Dicts
        /\ DOMAIN Toolbox!With(ld, b.id, s) = DOMAIN ld \cup {b.id}
        /\ Toolbox!With(ld, b.id, s)[b.id] = s
        /\ \A j \in DOMAIN ld \ {b.id} : Toolbox!With(ld, b.id, s)[j] = ld[j]
    BY <1>2, <1>6, DictWith, ZenonT(60)
  <2> QED BY <2>1, <2>2, <2>3
<1>8. nd \in Dicts /\ nd # None
  BY <1>1, <1>5, <1>7, DictIsOne
<1>9. \A i \in DOMAIN b.mine : OwnPid(b.mine[i], i)
  BY <1>1 DEF RequestOwns
<1>10. OwnPids(nd)
  <2>1. CASE b.op = "connect"
    BY <1>2, <1>6, <1>7, <1>9, <2>1 DEF OwnPids, Ours
  <2>2. CASE b.op # "connect"
    BY <1>5, <1>9, <2>2 DEF OwnPids
  <2> QED BY <2>1, <2>2
<1>11. PICK w : w = [b.loaded EXCEPT ![k] = nd]
  OBVIOUS
<1>12. w = Toolbox!Written(q)
  BY <1>3, <1>4, <1>5, <1>11 DEF Toolbox!Written, Toolbox!Mine, Ours
<1>13. w \in Metas /\ w[k] = nd /\ \A j \in Toolbox!Kinds \ {k} : w[j] = b.loaded[j]
  BY <1>1, <1>8, <1>11 DEF Metas
<1>14. l = [j \in Toolbox!Kinds |-> IF w[j] = None THEN meta[j] ELSE w[j]]
  BY <1>12 DEF Toolbox!Merged
<1>15. l \in Metas
  BY <1>1, <1>13, <1>14 DEF Metas
<1>16. l[k] = nd /\ Toolbox!Dict(l, k) = nd
  BY <1>8, <1>13, <1>14 DEF Toolbox!Dict
<1>17. \A j \in Toolbox!Kinds \ {k} : l[j] = IF b.loaded[j] = None THEN meta[j] ELSE b.loaded[j]
  BY <1>13, <1>14
<1>18. ASSUME NEW j \in Toolbox!Kinds PROVE OwnPids(Toolbox!Dict(l, j))
  <2>1. CASE j = k
    BY <1>10, <1>16, <2>1
  <2>2. CASE j # k /\ b.loaded[j] = None
    <3>1. Toolbox!Dict(l, j) = Toolbox!Dict(meta, j)
      BY <1>17, <2>2 DEF Toolbox!Dict
    <3> QED BY <1>1, <3>1
  <2>3. CASE j # k /\ b.loaded[j] # None
    <3>1. Toolbox!Dict(l, j) = Toolbox!Dict(b.loaded, j)
      BY <1>17, <2>3 DEF Toolbox!Dict
    <3> QED BY <1>1, <3>1 DEF RequestOwns
  <2> QED BY <2>1, <2>2, <2>3
<1>19. ASSUME ~b.stale PROVE l = WritingBack(b, meta)
  <2>1. b.loaded = meta
    BY <1>1, <1>19 DEF InStep
  <2>2. \A j \in Toolbox!Kinds \ {k} : l[j] = meta[j]
    BY <1>17, <2>1
  <2>3. l = [meta EXCEPT ![k] = nd]
    <3>1. /\ l \in [Toolbox!Kinds -> Dicts \cup {None}] /\ meta \in [Toolbox!Kinds -> Dicts \cup {None}]
      BY <1>1, <1>15 DEF Metas
    <3> QED BY <1>16, <2>2, <3>1
  <2>4. WritingBack(b, meta) = [meta EXCEPT ![k] = nd]
    BY <1>3, <1>4, <1>5, <2>1 DEF WritingBack, DictFor
  <2> QED BY <2>3, <2>4
<1> QED BY <1>15, <1>18, <1>19

\* The metadata is made; it is not written yet.
LEMMA SessionMerges ==
  ASSUME Toolbox!ToolboxBounds, ToolboxInv, NEW q \in Toolbox!Requests, Toolbox!Merge(q)
  PROVE  ToolboxInv'
<1>1. PICK b \in Asking : b = req[q]
  BY DEF ToolboxInv, ToolboxTypes
<1>2. PICK l : l = Toolbox!Merged(Toolbox!Written(q))
  OBVIOUS
<1>3. PICK c : c = [b EXCEPT !.pc = "write", !.loaded = l]
  OBVIOUS
<1>4. b.pc = "merge" /\ UNCHANGED <<meta, process>> /\ req' = [req EXCEPT ![q] = c]
  BY <1>1, <1>2, <1>3 DEF Toolbox!Merge, Toolbox!Becomes
<1>5. /\ Fits(b) /\ RequestOwns(b) /\ Busy(b)
      /\ ~b.stale => InStep(b, meta)
      /\ Undisturbed => CalmRequest(b)
  BY <1>1, <1>4 DEF ToolboxInv, PidsOwned, SessionsInStep, WhenCalm, Busy, CalmRequest
<1>6. /\ l \in Metas /\ \A k \in Toolbox!Kinds : OwnPids(Toolbox!Dict(l, k))
      /\ ~b.stale => l = WritingBack(b, meta)
  BY <1>1, <1>2, <1>4, MergedIs
<1>7. /\ c \in Asking /\ c.pc = "write" /\ c.loaded = l
      /\ c.op = b.op /\ c.id = b.id /\ c.pid = b.pid /\ c.mine = b.mine /\ c.then = b.then
      /\ c.again = b.again /\ c.stale = b.stale /\ c.killed = b.killed /\ c.lost = b.lost
  <2>1. c \in Asking
    BY <1>3, <1>6 DEF Asking
  <2> QED BY <1>3, <2>1 DEF Asking
<1>8. Fits(c) /\ Saving(c) /\ Saving(b)
  BY <1>4, <1>5, <1>7 DEF Fits, Busy, Saving, Ours
<1>9. RequestOwns(c)
  BY <1>4, <1>5, <1>6, <1>7 DEF RequestOwns
<1>10. /\ DictFor(c, meta) = DictFor(b, meta) /\ Theirs(c, meta) = Theirs(b, meta)
       /\ Ours(c) = Ours(b) /\ WritingBack(c, meta) = WritingBack(b, meta)
  BY <1>7 DEF Theirs, DictFor, Ours, WritingBack
<1>11. ~c.stale => InStep(c, meta)
  <2> HAVE ~c.stale
  <2>1. InStep(b, meta) /\ c.loaded = WritingBack(c, meta)
    BY <1>5, <1>6, <1>7, <1>10
  <2>2. Agree(b, Ours(b), Theirs(b, meta)) => Agree(c, Ours(b), Theirs(b, meta))
    BY <1>4, <1>7, <1>8 DEF Agree
  <2> QED BY <1>4, <1>7, <1>10, <2>1, <2>2 DEF InStep
<1>12. Undisturbed => CalmRequest(c)
  BY <1>4, <1>5, <1>7, <1>8, <1>10 DEF CalmRequest, Deletes, BeginsAgain, Connects
<1> QED BY <1>1, <1>4, <1>7, <1>8, <1>9, <1>11, <1>12, QuietMoves

\* The row has the request's session then, unless it deleted it, and the others as before,
\* unless another write came between.
LEMMA WrittenRow ==
  ASSUME Toolbox!ToolboxBounds, ToolboxInv, NEW q \in Toolbox!Requests, NEW b \in Asking,
         b = req[q], b.pc = "write", meta' = b.loaded
  PROVE  /\ meta' \in Metas
         /\ \A k \in Toolbox!Kinds : OwnPids(Toolbox!Dict(meta', k))
         /\ ~b.stale =>
              /\ b.id \in DOMAIN DictFor(b, meta') <=> b.op # "delete"
              /\ b.op # "delete" => Theirs(b, meta') = Ours(b)
              /\ \A i \in Toolbox!Ids \ {b.id} :
                   /\ RowSame(i)
                   /\ i \in DOMAIN DictFor(b, meta') <=> i \in DOMAIN b.mine
                   /\ i \in DOMAIN DictFor(b, meta') => DictFor(b, meta')[i] = b.mine[i]
<1>1. /\ Fits(b) /\ RequestOwns(b) /\ meta \in Metas /\ b.loaded \in Metas /\ b.mine \in Dicts
      /\ ~b.stale => InStep(b, meta)
  BY DEF ToolboxInv, ToolboxTypes, PidsOwned, SessionsInStep, Busy, Asking
<1>2. b.id \in Toolbox!Ids /\ (b.id \in DOMAIN b.mine <=> b.op # "delete")
  BY <1>1 DEF Fits, Busy
<1>3. PICK k \in Toolbox!Kinds : k = Toolbox!KindOf(b.id)
  BY KindIsOne
<1>4. PICK ld : ld = DictFor(b, meta)
  OBVIOUS
<1>5. PICK nd : nd = IF b.op = "connect" THEN Toolbox!With(ld, b.id, Ours(b)) ELSE b.mine
  OBVIOUS
<1>6. ld \in Dicts /\ (b.op # "delete" => Ours(b) \in Toolbox!Session)
  BY <1>1, <1>2, <1>4, DictForIs, DictHas DEF Ours
<1>7. b.op = "connect" =>
        /\ nd \in Dicts /\ DOMAIN nd = DOMAIN ld \cup {b.id} /\ nd[b.id] = Ours(b)
        /\ \A j \in DOMAIN ld \ {b.id} : nd[j] = ld[j]
  <2> HAVE b.op = "connect"
  <2>1. PICK s \in Toolbox!Session : s = Ours(b)
    BY <1>6
  <2>2. nd = Toolbox!With(ld, b.id, s)
    BY <1>5, <2>1
  <2>3. /\ Toolbox!With(ld, b.id, s) \in Dicts
        /\ DOMAIN Toolbox!With(ld, b.id, s) = DOMAIN ld \cup {b.id}
        /\ Toolbox!With(ld, b.id, s)[b.id] = s
        /\ \A j \in DOMAIN ld \ {b.id} : Toolbox!With(ld, b.id, s)[j] = ld[j]
    BY <1>2, <1>6, DictWith, ZenonT(60)
  <2> QED BY <2>1, <2>2, <2>3
<1>8. nd \in Dicts /\ nd # None
  BY <1>1, <1>5, <1>7, DictIsOne
<1>9. ASSUME ~b.stale
      PROVE  /\ DictFor(b, meta') = nd
             /\ \A j \in Toolbox!Kinds \ {k} : meta'[j] = meta[j]
  <2>1. meta' = [meta EXCEPT ![k] = nd]
    BY <1>1, <1>3, <1>4, <1>5, <1>9 DEF InStep, WritingBack
  <2>2. meta'[k] = nd /\ \A j \in Toolbox!Kinds \ {k} : meta'[j] = meta[j]
    BY <1>1, <2>1 DEF Metas
  <2>3. DictFor(b, meta') = nd
    BY <1>3, <1>8, <2>2 DEF DictFor, Toolbox!Dict
  <2> QED BY <2>2, <2>3
<1>10. /\ b.id \in DOMAIN nd <=> b.op # "delete"
       /\ b.op # "delete" => nd[b.id] = Ours(b)
  BY <1>2, <1>5, <1>7 DEF Ours
<1>11. ASSUME ~b.stale, NEW i \in Toolbox!Ids \ {b.id}
       PROVE  /\ RowSame(i)
              /\ i \in DOMAIN nd <=> i \in DOMAIN b.mine
              /\ i \in DOMAIN nd => nd[i] = b.mine[i]
  <2>1. /\ i \in DOMAIN ld <=> i \in DOMAIN b.mine
        /\ i \in DOMAIN ld => ld[i] = b.mine[i]
    BY <1>1, <1>4, <1>11 DEF InStep
  <2>2. /\ i \in DOMAIN nd <=> i \in DOMAIN b.mine
        /\ i \in DOMAIN nd => nd[i] = b.mine[i]
    BY <1>5, <1>7, <1>11, <2>1
  <2>3. CASE Toolbox!KindOf(i) = k
    <3>1. RowOf(i) = ld /\ RowOf(i)' = nd
      BY <1>3, <1>4, <1>9, <1>11, <2>3 DEF RowOf, DictFor
    <3> QED BY <2>1, <2>2, <3>1 DEF RowSame
  <2>4. CASE Toolbox!KindOf(i) # k
    <3>1. meta'[Toolbox!KindOf(i)] = meta[Toolbox!KindOf(i)]
      BY <1>9, <1>11, <2>4, KindIsOne
    <3>2. RowOf(i)' = RowOf(i)
      BY <3>1 DEF RowOf, Toolbox!Dict
    <3> QED BY <2>2, <3>2 DEF RowSame
  <2> QED BY <2>2, <2>3, <2>4
<1>12. meta' \in Metas /\ \A j \in Toolbox!Kinds : OwnPids(Toolbox!Dict(meta', j))
  BY <1>1 DEF RequestOwns
<1> QED BY <1>9, <1>10, <1>11, <1>12 DEF Theirs

\* What becomes of the other requests: those that go on know of the write when it changed the row.
Beside(b, c) ==
  IF Busy(b) /\ meta' # meta THEN c = [b EXCEPT !.stale = TRUE] ELSE c = b

\* How a write moves the requests.
LEMMA WrittenRequests ==
  ASSUME ToolboxTypes, NEW q \in Toolbox!Requests, Toolbox!Write(q)
  PROVE  /\ req' = [o \in Toolbox!Requests |-> req'[o]]
         /\ req'[q] = Toolbox!At(q, req[q].then)
         /\ \A o \in Toolbox!Requests \ {q} : Beside(req[o], req'[o])
<1>1. req' = [o \in Toolbox!Requests |->
               IF o = q THEN Toolbox!At(q, req[q].then)
               ELSE [req[o] EXCEPT !.stale = req[o].stale
                                             \/ (Busy(req[o]) /\ meta' # meta)]]
  BY DEF Toolbox!Write, Busy
<1>2. ASSUME NEW o \in Toolbox!Requests \ {q} PROVE Beside(req[o], req'[o])
  <2>1. PICK b \in Asking : b = req[o]
    BY DEF ToolboxTypes
  <2>2. req'[o] = [b EXCEPT !.stale = b.stale \/ (Busy(b) /\ meta' # meta)]
    BY <1>1, <1>2, <2>1
  <2>3. CASE Busy(b) /\ meta' # meta
    <3>1. (b.stale \/ (Busy(b) /\ meta' # meta)) = TRUE
      BY <2>3
    <3> QED BY <2>1, <2>2, <2>3, <3>1 DEF Beside
  <2>4. CASE ~(Busy(b) /\ meta' # meta)
    <3>1. (b.stale \/ (Busy(b) /\ meta' # meta)) = b.stale
      BY <2>4 DEF Asking
    <3>2. [b EXCEPT !.stale = b.stale] = b
      BY DEF Asking
    <3> QED BY <2>1, <2>2, <2>4, <3>1, <3>2 DEF Beside
  <2> QED BY <2>3, <2>4
<1> QED BY <1>1, <1>2

\* A request that another write came beside keeps all but the knowledge of its session.
LEMMA BesideKeeps ==
  ASSUME NEW b \in Asking, NEW c, Beside(b, c), Fits(b), RequestOwns(b)
  PROVE  /\ c \in Asking /\ c.pid = b.pid /\ c.killed = b.killed /\ c.lost = b.lost
         /\ Busy(c) <=> Busy(b)
         /\ Fits(c) /\ RequestOwns(c)
         /\ ~c.stale => ~b.stale
         /\ Busy(b) /\ ~c.stale => UNCHANGED meta /\ c = b
<1>1. CASE Busy(b) /\ meta' # meta
  <2>1. c = [b EXCEPT !.stale = TRUE]
    BY <1>1 DEF Beside
  <2>2. c \in Asking
    BY <2>1 DEF Asking
  <2>3. /\ c.pc = b.pc /\ c.loaded = b.loaded
        /\ c.op = b.op /\ c.id = b.id /\ c.pid = b.pid /\ c.mine = b.mine /\ c.then = b.then
        /\ c.again = b.again /\ c.stale = TRUE /\ c.killed = b.killed
        /\ c.lost = b.lost
    BY <2>1, <2>2 DEF Asking
  <2>4. Fits(c) /\ Busy(c)
    BY <1>1, <2>3 DEF Fits, Busy, Saving, Ours
  <2>5. RequestOwns(c)
    BY <2>3 DEF RequestOwns
  <2> QED BY <1>1, <2>2, <2>3, <2>4, <2>5
<1>2. CASE ~(Busy(b) /\ meta' # meta)
  <2>1. c = b
    BY <1>2 DEF Beside
  <2> QED BY <1>2, <2>1
<1> QED BY <1>1, <1>2

\* What the request itself goes on with.
LEMMA WrittenGoesOn ==
  ASSUME Toolbox!ToolboxBounds, ToolboxInv, NEW q \in Toolbox!Requests, NEW b \in Asking,
         b = req[q], Toolbox!Write(q), b.then # "done", NEW c, c = Toolbox!At(q, b.then)
  PROVE  /\ c \in Asking /\ Fits(c) /\ RequestOwns(c) /\ Busy(c) /\ ~Saving(c)
         /\ c.pc = b.then /\ c.op = b.op /\ c.id = b.id /\ c.pid = b.pid /\ c.mine = b.mine
         /\ c.op \in {"execute", "connect"}
         /\ c.stale = b.stale /\ c.killed = b.killed /\ c.lost = b.lost
         /\ ~c.stale => InStep(c, meta')
<1>1. /\ b.pc = "write" /\ meta' = b.loaded
      /\ Fits(b) /\ RequestOwns(b) /\ ToolboxTypes /\ MaxPids \in Nat
      /\ ~b.stale => InStep(b, meta)
  BY DEF ToolboxInv, PidsOwned, SessionsInStep, Busy, Toolbox!Write, Toolbox!ToolboxBounds
<1>2. PICK no : no = Toolbox!Nothing
  OBVIOUS
<1>3. c = [b EXCEPT !.pc = b.then, !.loaded = no]
  BY <1>2 DEF Toolbox!At
<1>4. no \in Metas /\ \A k \in Toolbox!Kinds : OwnPids(Toolbox!Dict(no, k))
  BY <1>1, <1>2, FreshIs, DictEmpty DEF OwnPids
<1>5. b.then \in {"send", "event", "live"}
  BY DEF Asking
<1>6. /\ c \in Asking /\ c.pc = b.then /\ c.loaded = no
      /\ c.op = b.op /\ c.id = b.id /\ c.pid = b.pid /\ c.mine = b.mine /\ c.then = b.then
      /\ c.again = b.again /\ c.stale = b.stale /\ c.killed = b.killed /\ c.lost = b.lost
  <2>1. c \in Asking
    BY <1>3, <1>4, <1>5 DEF Asking
  <2> QED BY <1>3, <2>1 DEF Asking
<1>7. /\ Busy(b) /\ Saving(b) /\ Busy(c) /\ ~Saving(c) /\ b.killed
      /\ b.op = IF b.then = "send" THEN "execute" ELSE "connect"
  BY <1>1, <1>5, <1>6 DEF Fits, Busy, Saving
<1>8. Fits(c)
  BY <1>1, <1>5, <1>6, <1>7 DEF Fits, Saving, Busy
<1>9. RequestOwns(c)
  BY <1>1, <1>4, <1>6 DEF RequestOwns
<1>10. ASSUME ~c.stale PROVE InStep(c, meta')
  <2>1. InStep(b, meta) /\ Agree(b, Ours(b), Theirs(b, meta)) /\ ~b.stale
    BY <1>1, <1>6, <1>7, <1>10 DEF InStep
  <2>2. /\ b.id \in DOMAIN DictFor(b, meta') /\ Theirs(b, meta') = Ours(b)
        /\ \A i \in Toolbox!Ids \ {b.id} :
             /\ i \in DOMAIN DictFor(b, meta') <=> i \in DOMAIN b.mine
             /\ i \in DOMAIN DictFor(b, meta') => DictFor(b, meta')[i] = b.mine[i]
    BY <1>1, <1>7, <2>1, WrittenRow
  <2>4. DictFor(c, meta') = DictFor(b, meta') /\ Theirs(c, meta') = Theirs(b, meta') /\ Ours(c) = Ours(b)
    BY <1>6 DEF Theirs, DictFor, Ours
  <2>5. Agree(c, Ours(b), Ours(b))
    BY <1>1, <1>5, <1>6, <1>7, <2>1 DEF Agree
  <2> QED BY <1>5, <1>6, <1>7, <2>2, <2>4, <2>5 DEF InStep
<1> QED BY <1>5, <1>6, <1>7, <1>8, <1>9, <1>10

\* What the row says then of a terminal whose client goes on.
LEMMA ConnectsThen ==
  ASSUME Toolbox!ToolboxBounds, ToolboxInv, NEW q \in Toolbox!Requests, NEW b \in Asking,
         b = req[q], Toolbox!Write(q), Undisturbed, b.op = "connect",
         \A o \in Toolbox!Requests \ {q} : Busy(req[o]) => UNCHANGED meta
  PROVE  /\ b.then = "event" =>
              /\ Theirs(b, meta').pid \in {0, b.pid}
              /\ \A p \in Toolbox!Pids : Runs(Theirs(b, meta'), b.id, p) => p = b.pid \/ Lost(p)
         /\ b.then = "live" => Theirs(b, meta').pid = b.pid
<1>1. /\ b.pc = "write" /\ meta' = b.loaded
      /\ Fits(b) /\ ~b.stale /\ InStep(b, meta) /\ Connects(b, meta) /\ TerminalsNamed
      /\ meta \in Metas /\ \A o \in Toolbox!Requests : Fits(req[o])
  BY DEF ToolboxInv, ToolboxTypes, SessionsInStep, Busy, Toolbox!Write, Undisturbed, WhenCalm
<1>2. b.id \in Toolbox!Ids \ Shells /\ Saving(b)
  BY <1>1 DEF Fits, Busy, Saving
<1>3. PICK o : o = Ours(b)
  OBVIOUS
<1>4. PICK t : t = Theirs(b, meta)
  OBVIOUS
<1>5. Theirs(b, meta') = o
  BY <1>1, <1>3, WrittenRow
<1>6. b.id \in DOMAIN DictFor(b, meta) /\ Agree(b, o, t) /\ t \in Toolbox!Session
  BY <1>1, <1>3, <1>4, DictForIs, DictHas DEF InStep, Theirs
<1>7. CASE b.then = "live"
  BY <1>2, <1>5, <1>6, <1>7 DEF Agree
<1>8. CASE b.then = "event"
  <2>1. o.pid = t.pid /\ o.started
    BY <1>1, <1>6, <1>8 DEF Agree
  <2>2. CASE Toolbox!Has(t)
    <3>1. /\ t.pid \in {0, b.pid}
          /\ \A p \in Toolbox!Pids : Runs(t, b.id, p) => p = b.pid \/ Lost(p)
      BY <1>1, <1>2, <1>4, <1>8, <2>2 DEF Connects
    <3> QED BY <1>5, <1>8, <2>1, <3>1 DEF Runs
  <2>3. CASE ~Toolbox!Has(t)
    <3>1. t.pid = 0 /\ ~t.started
      BY <1>6, <2>3 DEF Toolbox!Has, Toolbox!Session
    <3>2. meta' # meta
      BY <1>4, <1>5, <2>1, <3>1
    <3>3. ASSUME NEW p \in Toolbox!Pids, Runs(o, b.id, p) PROVE p = b.pid \/ Lost(p)
      <4>1. IsAlive(p) /\ Toolbox!First(p, b.id) /\ p # 0
        BY <2>1, <3>1, <3>3 DEF Runs, Toolbox!Pids
      <4>2. (\E r \in Toolbox!Requests : req[r].pid = p) \/ Lost(p) \/ RowNames(b.id, p)
        BY <1>1, <1>2, <4>1 DEF TerminalsNamed
      <4>3. ~RowNames(b.id, p)
        <5>1. DictFor(b, meta) = Toolbox!Dict(meta, "terminal")
          BY <1>2 DEF DictFor, Toolbox!KindOf
        <5> QED BY <1>4, <2>3, <5>1 DEF RowNames, Theirs
      <4>4. ASSUME NEW r \in Toolbox!Requests, req[r].pid = p PROVE r = q
        <5>1. Busy(req[r])
          <6>1. req[r] \in Asking
            BY DEF ToolboxInv, ToolboxTypes
          <6>2. req[r].pid > 0
            BY <4>1, <4>4 DEF Toolbox!Pids
          <6> QED BY <1>1, <6>1, <6>2 DEF Fits, Busy, Saving
        <5> QED BY <3>2, <5>1
      <4> QED BY <4>2, <4>3, <4>4
    <3> QED BY <1>5, <1>8, <2>1, <3>1, <3>3
  <2> QED BY <2>2, <2>3
<1> QED BY <1>7, <1>8

\* A terminal's first process that the row names, it names then, unless its answer was lost.
LEMMA RowNamesThen ==
  ASSUME Toolbox!ToolboxBounds, ToolboxInv, NEW q \in Toolbox!Requests, NEW b \in Asking,
         b = req[q], Toolbox!Write(q), Undisturbed,
         NEW p \in Toolbox!Pids, NEW i \in Toolbox!Ids \ Shells, IsAlive(p), Toolbox!First(p, i),
         RowNames(i, p), ~Lost(p)
  PROVE  RowNames(i, p)'
<1>1. /\ b.pc = "write" /\ meta' = b.loaded
      /\ Fits(b) /\ ~b.stale /\ InStep(b, meta) /\ CalmRequest(b) /\ Saving(b) /\ Busy(b)
      /\ meta \in Metas
  BY DEF ToolboxInv, ToolboxTypes, SessionsInStep, Busy, Saving, Toolbox!Write, Undisturbed, WhenCalm,
         CalmRequest
<1>2. RowOf(i) = Toolbox!Dict(meta, "terminal") /\ RowOf(i)' = Toolbox!Dict(meta, "terminal")'
  BY DEF RowOf, Toolbox!KindOf
<1>3. CASE i # b.id
  <2>1. RowSame(i)
    BY <1>1, <1>3, WrittenRow
  <2>2. i \in DOMAIN RowOf(i)' /\ RowOf(i)'[i] = RowOf(i)[i]
    BY <1>2, <2>1 DEF RowNames, RowSame
  <2> QED BY <1>2, <2>2 DEF RowNames, Toolbox!Has
<1>4. CASE i = b.id
  <2>1. PICK t : t = Theirs(b, meta)
    OBVIOUS
  <2>2. DictFor(b, meta) = RowOf(i) /\ DictFor(b, meta') = RowOf(i)'
    BY <1>4 DEF DictFor, RowOf
  <2>3. /\ i \in DOMAIN DictFor(b, meta) /\ Toolbox!Has(t) /\ Runs(t, i, p)
        /\ t \in Toolbox!Session /\ t.pid \in {0, p}
    BY <1>1, <1>2, <1>4, <2>1, <2>2, DictForIs, DictHas DEF RowNames, Theirs, Runs
  <2>4. b.op # "delete"
    BY <1>1, <1>4, <2>1, <2>3 DEF CalmRequest, Deletes
  <2>5. PICK o : o = Ours(b)
    OBVIOUS
  <2>6. i \in DOMAIN DictFor(b, meta') /\ Theirs(b, meta') = o
    BY <1>1, <1>4, <2>4, <2>5, WrittenRow
  <2>7. Agree(b, o, t) /\ b.op # "create"
    BY <1>1, <1>4, <2>1, <2>3, <2>4, <2>5 DEF InStep
  <2>8. b.op # "execute"
    BY <1>1, <1>4 DEF Fits
  <2>9. o.pid \in {0, p} /\ Toolbox!Has(o)
    <3>1. CASE b.op = "connect" /\ b.then = "live"
      <4>1. p = b.pid
        BY <1>1, <1>4, <2>1, <2>3, <3>1 DEF CalmRequest, Connects
      <4> QED BY <1>1, <2>7, <3>1, <4>1 DEF Agree, Toolbox!Has, Toolbox!Pids
    <3>2. CASE ~(b.op = "connect" /\ b.then = "live")
      <4>1. o.pid = t.pid /\ (t.started => o.started)
        BY <1>1, <2>7, <2>8, <3>2 DEF Agree
      <4> QED BY <2>3, <4>1 DEF Toolbox!Has
    <3> QED BY <3>1, <3>2
  <2>10. RowOf(i)'[i] = o /\ i \in DOMAIN RowOf(i)'
    BY <1>4, <2>2, <2>6 DEF Theirs
  <2> QED BY <1>2, <2>9, <2>10 DEF RowNames, Toolbox!Has
<1> QED BY <1>3, <1>4

\* A dictionary is written.
LEMMA SessionWrites ==
  ASSUME Toolbox!ToolboxBounds, ToolboxInv, NEW q \in Toolbox!Requests, Toolbox!Write(q)
  PROVE  ToolboxInv'
<1>1. PICK b \in Asking : b = req[q]
  BY DEF ToolboxInv, ToolboxTypes
<1>2. PICK c : c = Toolbox!At(q, b.then)
  OBVIOUS
<1>3. /\ b.pc = "write" /\ meta' = b.loaded /\ UNCHANGED process
      /\ Fits(b) /\ RequestOwns(b) /\ ToolboxTypes /\ MaxPids \in Nat /\ PidsInOrder
      /\ ~b.stale => InStep(b, meta)
      /\ Busy(b) /\ Saving(b)
  BY <1>1 DEF ToolboxInv, PidsOwned, SessionsInStep, Busy, Saving, Toolbox!Write, Toolbox!ToolboxBounds
<1>4. /\ c \in Asking /\ Fits(c) /\ RequestOwns(c)
      /\ c.stale <=> b.stale
      /\ c.killed <=> b.killed
      /\ b.then = "done" => ~Busy(c) /\ c.pid = 0
      /\ b.then # "done" =>
           /\ ~Saving(c) /\ c.pc = b.then /\ c.op = b.op /\ c.id = b.id /\ c.pid = b.pid
           /\ c.op \in {"execute", "connect"} /\ (~c.stale => InStep(c, meta'))
  <2>1. CASE b.then = "done"
    <3>1. /\ c \in Asking /\ c.pc = "done" /\ c.pid = 0
          /\ c.loaded = Toolbox!Nothing /\ c.mine = Toolbox!Empty
          /\ c.stale <=> req[q].stale
          /\ c.killed <=> req[q].killed
      BY <1>2, <1>3, <2>1, DoneIs
    <3>2. Fits(c) /\ RequestOwns(c) /\ ~Busy(c)
      BY <1>3, <3>1, DoneFits
    <3> QED BY <1>1, <2>1, <3>1, <3>2
  <2>2. CASE b.then # "done"
    BY <1>1, <1>2, <2>2, WrittenGoesOn
  <2> QED BY <2>1, <2>2
<1>5. /\ req' = [o \in Toolbox!Requests |-> req'[o]] /\ req'[q] = c
      /\ \A o \in Toolbox!Requests \ {q} : Beside(req[o], req'[o])
  BY <1>1, <1>2, <1>3, WrittenRequests
<1>6. ASSUME NEW o \in Toolbox!Requests \ {q}
      PROVE  /\ req'[o] \in Asking /\ req'[o].pid = req[o].pid /\ req'[o].killed = req[o].killed
             /\ req'[o].lost = req[o].lost
             /\ Busy(req'[o]) <=> Busy(req[o])
             /\ Fits(req'[o]) /\ RequestOwns(req'[o])
             /\ ~req'[o].stale => ~req[o].stale
             /\ Busy(req[o]) /\ ~req'[o].stale => UNCHANGED meta /\ req'[o] = req[o]
  <2>1. PICK e \in Asking : e = req[o]
    BY <1>3 DEF ToolboxTypes
  <2>2. PICK f : f = req'[o]
    OBVIOUS
  <2>3. Beside(e, f) /\ Fits(e) /\ RequestOwns(e)
    BY <1>5, <1>6, <2>1, <2>2 DEF ToolboxInv, PidsOwned
  <2>4. /\ f \in Asking /\ f.pid = e.pid /\ f.killed = e.killed /\ f.lost = e.lost
        /\ Busy(f) <=> Busy(e)
        /\ Fits(f) /\ RequestOwns(f)
        /\ ~f.stale => ~e.stale
        /\ Busy(e) /\ ~f.stale => UNCHANGED meta /\ f = e
    BY <2>3, BesideKeeps
  <2> QED BY <2>1, <2>2, <2>4
<1>7. /\ meta' \in Metas
      /\ \A k \in Toolbox!Kinds : OwnPids(Toolbox!Dict(meta', k))
  BY <1>1, <1>3, WrittenRow
<1>8. LostStay
  <2> SUFFICES ASSUME NEW p \in Toolbox!Pids, NEW o \in Toolbox!Requests, req[o].lost = p
               PROVE  Lost(p)'
    BY DEF LostStay, Lost
  <2>1. o # q
    BY <1>1, <1>3 DEF Fits, Toolbox!Pids
  <2> QED BY <1>6, <2>1 DEF Lost
<1>9. ToolboxTypes'
  <2>1. \A o \in Toolbox!Requests : req'[o] \in Asking
    BY <1>4, <1>5, <1>6
  <2>2. req' \in [Toolbox!Requests -> Asking]
    BY <1>5, <2>1
  <2> QED BY <1>3, <1>7, <2>2 DEF ToolboxTypes
<1>10. \A o \in Toolbox!Requests : Fits(req'[o]) /\ RequestOwns(req'[o])
  BY <1>4, <1>5, <1>6
<1>11. PidsOwned'
  <2>1. \A k \in Toolbox!Kinds : OwnPids(Toolbox!Dict(meta, k))'
    BY <1>3, <1>7 DEF OwnPids, OwnPid
  <2>2. \A o \in Toolbox!Requests : RequestOwns(req[o])'
    BY <1>3, <1>10, SMTT(30) DEF RequestOwns, OwnPids, OwnPid
  <2> QED BY <2>1, <2>2 DEF PidsOwned
<1>12. SessionsInStep'
  <2>1. \A o \in Toolbox!Requests : Busy(req'[o]) /\ ~req'[o].stale => InStep(req'[o], meta')
    <3> SUFFICES ASSUME NEW o \in Toolbox!Requests, Busy(req'[o]), ~req'[o].stale
                 PROVE  InStep(req'[o], meta')
      OBVIOUS
    <3>1. CASE o = q
      BY <1>4, <1>5, <3>1
    <3>2. CASE o # q
      <4>1. UNCHANGED meta /\ req'[o] = req[o] /\ Busy(req[o]) /\ ~req[o].stale
        BY <1>6, <3>2
      <4> QED BY <4>1 DEF ToolboxInv, SessionsInStep
    <3> QED BY <3>1, <3>2
  <2> QED BY <2>1 DEF SessionsInStep
<1>13. Undisturbed' => Undisturbed
  <2>1. \A o \in Toolbox!Requests \ {q} :
          ~req'[o].stale /\ req'[o].killed => ~req[o].stale /\ req[o].killed
    BY <1>6
  <2>2. ~req'[q].stale /\ req'[q].killed => ~req[q].stale /\ req[q].killed
    BY <1>1, <1>4, <1>5
  <2> QED BY <2>1, <2>2 DEF Undisturbed
<1>14. Undisturbed' => \A o \in Toolbox!Requests \ {q} : Busy(req[o]) => UNCHANGED meta /\ req'[o] = req[o]
  BY <1>6 DEF Undisturbed
<1>15. ASSUME Undisturbed' PROVE \A o \in Toolbox!Requests : Busy(req'[o]) => CalmRequest(req[o])'
  <2> SUFFICES ASSUME NEW o \in Toolbox!Requests, Busy(req'[o]) PROVE CalmRequest(req[o])'
    OBVIOUS
  <2>1. CASE o # q
    <3>1. UNCHANGED meta /\ req'[o] = req[o] /\ CalmRequest(req[o])
      BY <1>6, <1>13, <1>14, <1>15, <2>1 DEF ToolboxInv, WhenCalm, CalmRequest
    <3> QED BY <1>3, <1>8, <3>1
       DEF CalmRequest, Deletes, BeginsAgain, Connects, Runs, IsAlive, Toolbox!First, Toolbox!Tagged,
           LostStay
  <2>2. CASE o = q
    <3>1. b.then # "done"
      BY <1>4, <1>5, <2>2
    <3>2. c.op = "connect" =>
            /\ c.pc = "event" =>
                 /\ Theirs(b, meta').pid \in {0, b.pid}
                 /\ \A p \in Toolbox!Pids : Runs(Theirs(b, meta'), b.id, p) => p = b.pid \/ Lost(p)
            /\ c.pc = "live" => Theirs(b, meta').pid = b.pid
      BY <1>1, <1>4, <1>13, <1>14, <1>15, <3>1, ConnectsThen
    <3>3. Deletes(c, meta') /\ BeginsAgain(c, meta')
      <4>1. c.pc \notin {"start", "answer"} /\ ~Saving(c)
        BY <1>4, <3>1 DEF Asking
      <4> QED BY <4>1 DEF Deletes, BeginsAgain
    <3>4. Connects(c, meta')
      <4>1. Theirs(c, meta') = Theirs(b, meta')
        BY <1>4, <3>1 DEF Theirs, DictFor
      <4> QED BY <1>4, <3>1, <3>2, <4>1 DEF Connects, Fits
    <3> QED BY <1>3, <1>5, <1>8, <2>2, <3>3, <3>4
       DEF CalmRequest, Deletes, BeginsAgain, Connects, Runs, IsAlive, Toolbox!First, Toolbox!Tagged,
           LostStay
  <2> QED BY <2>1, <2>2
<1>16. ASSUME Undisturbed' PROVE TerminalsNamed'
  <2> SUFFICES ASSUME NEW p \in Toolbox!Pids, NEW i \in Toolbox!Ids \ Shells,
                      (IsAlive(p) /\ Toolbox!First(p, i))'
               PROVE  (\E o \in Toolbox!Requests : req'[o].pid = p) \/ Lost(p)' \/ RowNames(i, p)'
    BY DEF TerminalsNamed
  <2>1. IsAlive(p) /\ Toolbox!First(p, i) /\ Undisturbed
    BY <1>3, <1>13, <1>16 DEF IsAlive, Toolbox!First, Toolbox!Tagged
  <2>2. (\E o \in Toolbox!Requests : req[o].pid = p) \/ Lost(p) \/ RowNames(i, p)
    BY <2>1 DEF ToolboxInv, WhenCalm, TerminalsNamed
  <2>3. CASE RowNames(i, p) /\ ~Lost(p)
    BY <1>1, <2>1, <2>3, RowNamesThen
  <2>4. ASSUME NEW o \in Toolbox!Requests, req[o].pid = p PROVE req'[o].pid = p
    <3>1. CASE o # q
      BY <1>6, <2>4, <3>1
    <3>2. CASE o = q
      <4>1. b.pid = p /\ p > 0 /\ Connects(b, meta)
        BY <1>1, <1>3, <2>1, <2>4, <3>2 DEF Toolbox!Pids, ToolboxInv, WhenCalm
      <4>2. b.then # "done"
        BY <1>3, <2>1, <4>1 DEF Connects, Fits
      <4> QED BY <1>4, <1>5, <3>2, <4>1, <4>2
    <3> QED BY <3>1, <3>2
  <2> QED BY <1>8, <2>2, <2>3, <2>4 DEF LostStay
<1>17. WhenCalm'
  BY <1>15, <1>16 DEF WhenCalm, CalmRequest
<1>18. PidsInOrder'
  BY <1>3 DEF PidsInOrder
<1> QED BY <1>9, <1>10, <1>11, <1>12, <1>17, <1>18 DEF ToolboxInv

\* Initially nothing is there.
LEMMA SessionsBegin ==
  ASSUME Toolbox!ToolboxBounds, Toolbox!Init
  PROVE  ToolboxInv
<1>1. /\ meta = Toolbox!Nothing /\ process = [p \in Toolbox!Pids |-> [of |-> None, st |-> "none"]]
      /\ req = [q \in Toolbox!Requests |-> Toolbox!Fresh] /\ MaxPids \in Nat
  BY DEF Toolbox!Init, Toolbox!ToolboxBounds
<1>2. /\ Toolbox!Nothing \in Metas
      /\ \A k \in Toolbox!Kinds : Toolbox!Dict(Toolbox!Nothing, k) = Toolbox!Empty
  BY DEF Metas, Toolbox!Nothing, Toolbox!Dict
<1>3. PICK f : f = Toolbox!Fresh
  OBVIOUS
<1>4. /\ f \in Asking /\ f.pc = "idle" /\ f.pid = 0 /\ f.mine = Toolbox!Empty
      /\ f.loaded = Toolbox!Nothing /\ f.killed = TRUE /\ f.lost = 0
  BY <1>1, <1>2, <1>3, DictEmpty DEF Toolbox!Fresh, Asking
<1>5. ToolboxTypes
  BY <1>1, <1>2, <1>3, <1>4 DEF ToolboxTypes, Started
<1>6. ~Busy(f) /\ ~Saving(f) /\ Fits(f) /\ RequestOwns(f)
  <2>1. ~Busy(f) /\ ~Saving(f)
    BY <1>4 DEF Busy, Saving
  <2>2. Fits(f)
    BY <1>3, <1>4, <2>1 DEF Fits
  <2>3. RequestOwns(f)
    BY <1>2, <1>4, DictEmpty DEF RequestOwns, OwnPids
  <2> QED BY <2>1, <2>2, <2>3
<1>7. \A q \in Toolbox!Requests : req[q] = f
  BY <1>1, <1>3
<1>8. PidsOwned
  BY <1>1, <1>2, <1>6, <1>7, DictEmpty DEF PidsOwned, OwnPids
<1>9. PidsInOrder /\ TerminalsNamed
  BY <1>1 DEF PidsInOrder, TerminalsNamed, IsAlive
<1>10. SessionsInStep /\ WhenCalm
  BY <1>6, <1>7, <1>9 DEF SessionsInStep, WhenCalm
<1> QED BY <1>5, <1>6, <1>7, <1>8, <1>9, <1>10 DEF ToolboxInv

\* Every step keeps it.
LEMMA SessionsStep ==
  ASSUME Toolbox!ToolboxBounds, ToolboxInv, [Toolbox!Next]_(Toolbox!vars)
  PROVE  ToolboxInv'
<1>1. MaxPids \in Nat
  BY DEF Toolbox!ToolboxBounds
<1>2. CASE UNCHANGED Toolbox!vars
  <2>1. UNCHANGED <<meta, process, req>>
    BY <1>2 DEF Toolbox!vars
  <2>2. ProcessesGo
    BY <2>1 DEF ProcessesGo, ToolboxInv, ToolboxTypes, PidsInOrder
  <2>3. Fewer
    BY <2>1 DEF Fewer, IsAlive, Toolbox!First, Toolbox!Tagged
  <2> QED BY <2>1, <2>2, <2>3, OnlyProcesses
<1>3. ASSUME NEW q \in Toolbox!Requests,
             \E r \in Replicas, op \in Toolbox!Ops, id \in Toolbox!Ids : Toolbox!Read(q, r, op, id)
      PROVE  ToolboxInv'
  BY <1>1, <1>3, SessionRead
<1>4. ASSUME NEW q \in Toolbox!Requests, Toolbox!Starts(q) \/ Toolbox!StartShell(q)
      PROVE  ToolboxInv'
  BY <1>1, <1>4, SessionStarts, ShellStarts
<1>5. ASSUME NEW q \in Toolbox!Requests, Toolbox!Kill(q) \/ Toolbox!KillFails(q)
      PROVE  ToolboxInv'
  BY <1>5, SessionKilled, SessionKillFails
<1>6. ASSUME NEW q \in Toolbox!Requests,
             \/ Toolbox!Send(q) \/ Toolbox!Collected(q) \/ Toolbox!NotFound(q)
             \/ Toolbox!Fails(q) \/ Toolbox!Resize(q)
      PROVE  ToolboxInv'
  BY <1>1, <1>6, SessionSends, SessionCollects, SessionNotFound, SessionFails, SessionResizes
<1>7. ASSUME NEW q \in Toolbox!Requests,
             \/ Toolbox!Connect(q) \/ Toolbox!StartTerminal(q) \/ Toolbox!StartEvent(q)
             \/ Toolbox!EndEvent(q) \/ Toolbox!Leave(q)
      PROVE  ToolboxInv'
  BY <1>1, <1>7, TerminalConnects, TerminalStarts, TerminalStarted, TerminalEnds, TerminalLeaves
<1>8. ASSUME NEW q \in Toolbox!Requests, Toolbox!Load(q) \/ Toolbox!Merge(q) \/ Toolbox!Write(q)
      PROVE  ToolboxInv'
  BY <1>8, SessionLoads, SessionMerges, SessionWrites
<1>9. ASSUME NEW p \in Toolbox!Pids, Toolbox!Exits(p) PROVE ToolboxInv'
  BY <1>9, ProcessExits
<1>10. CASE Toolbox!EnvdRestarts
  BY <1>10, GuestForgets
<1> QED BY <1>2, <1>3, <1>4, <1>5, <1>6, <1>7, <1>8, <1>9, <1>10 DEF Toolbox!Next

-----------------------------------------------------------------------------
(* What a write records *)

\* Only Write moves a request from where it writes.
LEMMA SessionsRecorded ==
  ASSUME Toolbox!ToolboxBounds, ToolboxInv, [Toolbox!Next]_(Toolbox!vars)
  PROVE  Toolbox!Recorded
<1>1. CASE UNCHANGED meta
  BY <1>1 DEF Toolbox!Recorded, Toolbox!Known, Toolbox!CommandsOf
<1>2. ASSUME NEW q \in Toolbox!Requests, Toolbox!Write(q) PROVE Toolbox!Recorded
  <2>1. PICK b \in Asking : b = req[q]
    BY DEF ToolboxInv, ToolboxTypes
  <2>2. /\ b.pc = "write" /\ meta' = b.loaded /\ Fits(b) /\ Busy(b)
        /\ Saving(b) /\ b.id \in Toolbox!Ids
        /\ ~b.stale => InStep(b, meta)
        /\ req'[q] = Toolbox!At(q, b.then)
    BY <1>2, <2>1, WrittenRequests
       DEF ToolboxInv, SessionsInStep, Busy, Saving, Toolbox!Write, Fits
  <2>3. req'[q].pc # "write"
    <3>1. b.then = "done" => req'[q].pc = "done"
      BY <2>2 DEF Toolbox!At, Toolbox!Fresh
    <3>2. b.then # "done" => req'[q].pc = b.then
      BY <2>1, <2>2 DEF Toolbox!At, Asking
    <3>3. b.then # "write"
      BY DEF Asking
    <3> QED BY <3>1, <3>2, <3>3
  <2>4. CASE b.stale
    <3>1. Toolbox!StaleWrite
      BY <2>1, <2>2, <2>3, <2>4 DEF Toolbox!StaleWrite
    <3> QED BY <3>1 DEF Toolbox!Recorded
  <2>5. CASE ~b.stale
    <3>1. /\ b.id \in DOMAIN DictFor(b, meta') <=> b.op # "delete"
          /\ b.op # "delete" => Theirs(b, meta') = Ours(b)
          /\ \A i \in Toolbox!Ids \ {b.id} : RowSame(i)
      BY <2>1, <2>2, <2>5, WrittenRow
    <3>2. Toolbox!Writes(b.op, b.id)
      BY <2>1, <2>2, <2>3 DEF Toolbox!Writes
    <3> SUFFICES ASSUME NEW i \in Toolbox!Ids
                 PROVE  /\ Toolbox!Known(meta, i) /\ ~Toolbox!Known(meta', i)
                             => Toolbox!Writes("delete", i)
                        /\ ~Toolbox!Known(meta, i) /\ Toolbox!Known(meta', i)
                             => Toolbox!Writes("create", i)
                        /\ ~(Toolbox!CommandsOf(meta, i) \subseteq Toolbox!CommandsOf(meta', i))
                             => Toolbox!Writes("delete", i)
      BY DEF Toolbox!Recorded
    <3>3. CASE i # b.id
      BY <3>1, <3>3 DEF RowSame, RowOf, Toolbox!Known, Toolbox!CommandsOf
    <3>4. CASE i = b.id
      <4>1. /\ Toolbox!Known(meta, i) <=> i \in DOMAIN DictFor(b, meta)
            /\ Toolbox!Known(meta', i) <=> i \in DOMAIN DictFor(b, meta')
            /\ Toolbox!CommandsOf(meta, i) =
                 IF i \in DOMAIN DictFor(b, meta) THEN Theirs(b, meta).commands ELSE {}
            /\ Toolbox!CommandsOf(meta', i) =
                 IF i \in DOMAIN DictFor(b, meta') THEN Theirs(b, meta').commands ELSE {}
        BY <3>4 DEF Toolbox!Known, Toolbox!CommandsOf, DictFor, Theirs
      <4>2. CASE b.op = "delete"
        BY <3>1, <3>2, <3>4, <4>1, <4>2
      <4>3. CASE b.op = "create"
        BY <2>2, <2>5, <3>1, <3>2, <3>4, <4>1, <4>3 DEF InStep
      <4>4. CASE b.op \notin {"create", "delete"}
        BY <2>2, <2>5, <3>1, <3>4, <4>1, <4>4 DEF InStep, Agree
      <4> QED BY <4>2, <4>3, <4>4
    <3> QED BY <3>3, <3>4
  <2> QED BY <2>4, <2>5
<1>3. CASE Toolbox!Next /\ meta' # meta
  <2>1. \E q \in Toolbox!Requests : Toolbox!Write(q)
    BY <1>3, ZenonT(60) DEF Toolbox!Next, Toolbox!Read, Toolbox!Starts, Toolbox!StartShell,
         Toolbox!Kill, Toolbox!KillFails, Toolbox!Send, Toolbox!Collected, Toolbox!NotFound,
         Toolbox!Fails, Toolbox!Resize, Toolbox!Connect, Toolbox!StartTerminal, Toolbox!StartEvent,
         Toolbox!EndEvent, Toolbox!Leave, Toolbox!Load, Toolbox!Merge, Toolbox!Exits,
         Toolbox!EnvdRestarts
  <2> QED BY <1>2, <2>1
<1> QED BY <1>1, <1>2, <1>3 DEF Toolbox!vars

-----------------------------------------------------------------------------
(* The shells and terminals that run stay named *)

\* A session that the process runs is in the row, or a request goes on with it.
InRow(p) ==
  \E i \in Toolbox!Ids :
    i \in DOMAIN RowOf(i) /\ Toolbox!Has(RowOf(i)[i]) /\ Runs(RowOf(i)[i], i, p)
WithRequest(c, p) ==
  \/ c.pid = p
  \/ Saving(c) /\ c.id \in DOMAIN c.mine /\ Toolbox!Has(Ours(c)) /\ Runs(Ours(c), c.id, p)
NamedBy(p) == InRow(p) \/ \E q \in Toolbox!Requests : WithRequest(req[q], p)

\* A process that runs is named by a session that runs it, or by a request.
LEMMA NamedIs ==
  \A p \in Toolbox!Pids : ToolboxInv /\ IsAlive(p) => (p \in Toolbox!Named <=> NamedBy(p))
<1> SUFFICES ASSUME NEW p \in Toolbox!Pids, ToolboxInv, IsAlive(p)
             PROVE  p \in Toolbox!Named <=> NamedBy(p)
  OBVIOUS
<1>1. /\ ToolboxTypes /\ meta \in Metas /\ req \in [Toolbox!Requests -> Asking] /\ p > 0
      /\ \A q \in Toolbox!Requests : Fits(req[q])
  BY DEF ToolboxInv, ToolboxTypes, Toolbox!Pids
<1>2. \A i \in Toolbox!Ids :
        i \in DOMAIN RowOf(i) =>
          (Toolbox!Selected(RowOf(i)[i], i) = p <=> Runs(RowOf(i)[i], i, p))
  <2> SUFFICES ASSUME NEW i \in Toolbox!Ids, i \in DOMAIN RowOf(i)
               PROVE  Toolbox!Selected(RowOf(i)[i], i) = p <=> Runs(RowOf(i)[i], i, p)
    OBVIOUS
  <2>1. PICK s \in Toolbox!Session : s = RowOf(i)[i]
    BY <1>1, DictThere, KindIsOne, DictHas DEF RowOf
  <2>2. Toolbox!Selected(s, i) = p <=> Runs(s, i, p)
    BY SelectedRuns
  <2> QED BY <2>1, <2>2
<1>3. \A q \in Toolbox!Requests :
        req[q].id \in DOMAIN req[q].mine =>
          (Toolbox!Its(q) = p <=> Runs(Ours(req[q]), req[q].id, p))
  <2> SUFFICES ASSUME NEW q \in Toolbox!Requests, req[q].id \in DOMAIN req[q].mine
               PROVE  Toolbox!Its(q) = p <=> Runs(Ours(req[q]), req[q].id, p)
    OBVIOUS
  <2>1. req[q].mine \in Dicts
    BY <1>1 DEF Asking
  <2>2. PICK s \in Toolbox!Session : s = Ours(req[q])
    BY <2>1, DictHas DEF Ours
  <2>3. Toolbox!Selected(s, req[q].id) = p <=> Runs(s, req[q].id, p)
    BY SelectedRuns
  <2> QED BY <2>2, <2>3 DEF Toolbox!Its, Toolbox!Mine, Ours
<1>4. \A q \in Toolbox!Requests : req[q].pid = p => req[q].pc # "done"
  BY <1>1 DEF Fits, Toolbox!Pids
<1>5. p \in {Toolbox!Selected(Toolbox!Dict(meta, Toolbox!KindOf(i))[i], i) :
               i \in {i \in Toolbox!Ids : /\ Toolbox!Known(meta, i)
                                          /\ Toolbox!Has(Toolbox!Dict(meta, Toolbox!KindOf(i))[i])}}
        <=> InRow(p)
  BY <1>2 DEF InRow, RowOf, Toolbox!Known
<1>6. p \in {req[q].pid : q \in {o \in Toolbox!Requests : req[o].pc # "done"}}
        <=> \E q \in Toolbox!Requests : req[q].pid = p
  BY <1>4
<1>7. p \in {Toolbox!Its(q) : q \in {o \in Toolbox!Requests :
                               /\ req[o].pc \in {"load", "merge", "write"}
                               /\ req[o].id \in DOMAIN req[o].mine /\ Toolbox!Has(Toolbox!Mine(o))}}
        <=> \E q \in Toolbox!Requests :
              Saving(req[q]) /\ req[q].id \in DOMAIN req[q].mine
                /\ Toolbox!Has(Ours(req[q])) /\ Runs(Ours(req[q]), req[q].id, p)
  BY <1>3 DEF Saving, Toolbox!Mine, Ours
<1> QED BY <1>5, <1>6, <1>7 DEF Toolbox!Named, NamedBy, WithRequest

\* After a step too.
LEMMA NamedIsThen ==
  (\A p \in Toolbox!Pids : ToolboxInv /\ IsAlive(p) => (p \in Toolbox!Named <=> NamedBy(p)))'
BY NamedIs, PTL

\* A process that lives on runs the sessions that it ran.
RunsOn(p) ==
  /\ IsAlive(p)'
  /\ \A i : Toolbox!First(p, i) => Toolbox!First(p, i)'

\* Processes that live on do.
LEMMA LivesOn ==
  ASSUME ToolboxInv, [Toolbox!Next]_(Toolbox!vars), NEW p \in Toolbox!Pids, IsAlive(p),
         IsAlive(p)'
  PROVE  RunsOn(p)
<1>1. ToolboxTypes /\ PidsInOrder /\ process \in [Toolbox!Pids -> Started]
  BY DEF ToolboxInv, ToolboxTypes
<1>2. CASE UNCHANGED process
  BY <1>2 DEF RunsOn, Toolbox!First, Toolbox!Tagged
<1>3. ASSUME NEW o \in Toolbox!Pids, process[o].st = "alive",
             process' = [process EXCEPT ![o].st = "ended"]
      PROVE  RunsOn(p)
  BY <1>1, <1>3, ProcessEnds DEF RunsOn, IsAlive
<1>4. ASSUME NEW o \in Toolbox!Pids, NEW q \in Toolbox!Requests, Toolbox!Started(q, o)
      PROVE  RunsOn(p)
  <2>1. /\ process[o].st = "none" /\ \A r \in Toolbox!Pids \ {o} : process'[r] = process[r]
    BY <1>1, <1>4 DEF Toolbox!Started
  <2>2. ~(o < p) /\ o # p
    BY <1>1, <2>1 DEF PidsInOrder, IsAlive
  <2>3. \A r \in Toolbox!Pids : r < p \/ r = p => process'[r] = process[r]
    BY <2>1, <2>2
  <2> QED BY <2>3 DEF RunsOn, Toolbox!First, Toolbox!Tagged
<1>5. CASE \E q \in Toolbox!Requests : Toolbox!Kill(q)
  <2>1. PICK q \in Toolbox!Requests : Toolbox!Kill(q)
    BY <1>5
  <2>2. PICK o : o = Toolbox!Its(q)
    OBVIOUS
  <2>3. UNCHANGED process
          \/ (o > 0 /\ process[o].st = "alive" /\ process' = [process EXCEPT ![o].st = "ended"])
    BY <2>1, <2>2 DEF Toolbox!Kill, Toolbox!Signalled, Toolbox!Is
  <2>4. CASE o \in Toolbox!Pids
    BY <1>2, <1>3, <2>3, <2>4
  <2>5. CASE o \notin Toolbox!Pids
    <3>1. UNCHANGED process
      BY <1>1, <2>3, <2>5
    <3> QED BY <1>2, <3>1
  <2> QED BY <2>4, <2>5
<1>6. CASE Toolbox!EnvdRestarts
  <2>1. process'[p].st = "gone"
    BY <1>1, <1>6 DEF Toolbox!EnvdRestarts, IsAlive, Started
  <2> QED BY <2>1 DEF IsAlive
<1>7. ASSUME NEW o \in Toolbox!Pids, Toolbox!Exits(o) PROVE RunsOn(p)
  BY <1>3, <1>7 DEF Toolbox!Exits, Toolbox!Is
<1>8. CASE \E q \in Toolbox!Requests : Toolbox!Starts(q)
  BY <1>4, <1>8 DEF Toolbox!Starts
<1> QED BY <1>2, <1>5, <1>6, <1>7, <1>8, ZenonT(60)
   DEF Toolbox!Next, Toolbox!Read, Toolbox!StartShell, Toolbox!KillFails, Toolbox!Send,
       Toolbox!Collected, Toolbox!NotFound, Toolbox!Fails, Toolbox!Resize, Toolbox!Connect,
       Toolbox!StartTerminal, Toolbox!StartEvent, Toolbox!EndEvent, Toolbox!Leave, Toolbox!Load,
       Toolbox!Merge, Toolbox!Write, Toolbox!vars

\* A request keeps its process, saves a session that has it or loses it, and keeps the session
\* that it saves.
KeepsNames(b, c) ==
  /\ b.pid # 0 => \/ c.pid = b.pid \/ c.lost = b.pid
                  \/ Saving(c) /\ c.id \in DOMAIN c.mine /\ Ours(c).pid = b.pid
  /\ Saving(b) => Saving(c) /\ c.mine = b.mine /\ c.id = b.id

\* The request q moves, and no row is written.
MovesKeeping(q) ==
  /\ UNCHANGED meta
  /\ \E c : req' = [req EXCEPT ![q] = c] /\ KeepsNames(req[q], c)

\* The session that a shell's request saves has the pid that it waited for.
LEMMA ShellKeepsNames ==
  ASSUME ToolboxInv, MaxPids \in Nat, NEW q \in Toolbox!Requests, Toolbox!StartShell(q)
  PROVE  MovesKeeping(q)
<1>1. PICK b \in Asking : b = req[q]
  BY DEF ToolboxInv, ToolboxTypes
<1>2. PICK o : o = Ours(b)
  OBVIOUS
<1>3. b.pc = "answer" /\ UNCHANGED meta
  BY <1>1 DEF Toolbox!StartShell, Toolbox!Moves
<1>4. b.id \in DOMAIN b.mine /\ o \in Toolbox!Session /\ b.pid \in Toolbox!Pids /\ ~Saving(b)
  BY <1>1, <1>2, <1>3, Answered
<1>5. PICK m : m = [b.mine EXCEPT ![b.id] = Toolbox!Restarted(o, b.pid)]
  OBVIOUS
<1>6. PICK n : n = IF b.again THEN "send" ELSE "done"
  OBVIOUS
<1>7. PICK c : c = [b EXCEPT !.mine = m, !.pid = 0, !.pc = "load", !.then = n]
  OBVIOUS
<1>8. req' = [req EXCEPT ![q] = c]
  <2>1. req' = [req EXCEPT ![q] = [b EXCEPT
                  !.mine = [b.mine EXCEPT ![b.id] = Toolbox!Restarted(b.mine[b.id], b.pid)],
                  !.pid = 0, !.pc = "load", !.then = IF b.again THEN "send" ELSE "done"]]
    BY <1>1 DEF Toolbox!StartShell, Toolbox!Becomes, Toolbox!Mine
  <2> QED BY <1>2, <1>5, <1>6, <1>7, <2>1 DEF Ours
<1>9. c.pc = "load" /\ c.mine = m /\ c.id = b.id
  BY <1>7 DEF Asking
<1>10. c.id \in DOMAIN c.mine /\ Ours(c).pid = b.pid
  BY <1>4, <1>5, <1>9 DEF Ours, Toolbox!Restarted, Toolbox!Session
<1> QED BY <1>1, <1>3, <1>4, <1>8, <1>9, <1>10 DEF MovesKeeping, KeepsNames, Saving

\* The process that a request waited for is lost when it fails.
LEMMA FailingKeepsNames ==
  ASSUME ToolboxInv, MaxPids \in Nat, NEW q \in Toolbox!Requests, Toolbox!Fails(q),
         req[q].pc = "answer"
  PROVE  MovesKeeping(q)
<1>1. PICK c : c = Toolbox!At(q, "done")
  OBVIOUS
<1>2. req' = [req EXCEPT ![q] = c] /\ UNCHANGED meta
  BY <1>1 DEF Toolbox!Fails, Toolbox!Goto, Toolbox!Becomes
<1>3. c.lost = req[q].pid
  BY <1>1, DoneIs DEF ToolboxInv
<1> QED BY <1>2, <1>3 DEF MovesKeeping, KeepsNames, Saving

\* In each step one request moves at most, and only a write or a client that goes loses a name.
LEMMA OneRequestMoves ==
  ASSUME ToolboxInv, MaxPids \in Nat, [Toolbox!Next]_(Toolbox!vars)
  PROVE  \/ UNCHANGED <<meta, req>>
         \/ \E q \in Toolbox!Requests : Toolbox!Write(q) \/ Toolbox!Leave(q) \/ MovesKeeping(q)
<1> DEFINE Holding == {"answer", "event", "live", "load", "merge", "write"}
<1>1. \A q \in Toolbox!Requests : req[q].pc \notin Holding => req[q].pid = 0 /\ ~Saving(req[q])
  <2> SUFFICES ASSUME NEW q \in Toolbox!Requests, req[q].pc \notin Holding
               PROVE  req[q].pid = 0 /\ ~Saving(req[q])
    OBVIOUS
  <2>1. PICK b \in Asking : b = req[q]
    BY DEF ToolboxInv, ToolboxTypes
  <2>2. Fits(b)
    BY <2>1 DEF ToolboxInv
  <2> QED BY <2>1, <2>2 DEF Fits, Saving, Asking
<1>2. ASSUME NEW q \in Toolbox!Requests, NEW c, UNCHANGED meta, req[q].pc \notin Holding,
             Toolbox!Becomes(q, c)
      PROVE  MovesKeeping(q)
  BY <1>1, <1>2 DEF MovesKeeping, KeepsNames, Toolbox!Becomes
<1>3. ASSUME NEW q \in Toolbox!Requests,
             \E r \in Replicas, op \in Toolbox!Ops, id \in Toolbox!Ids : Toolbox!Read(q, r, op, id)
      PROVE  MovesKeeping(q)
  <2>1. req[q].pc = "idle" /\ UNCHANGED meta /\ \E c : Toolbox!Becomes(q, c)
    BY <1>3 DEF Toolbox!Read
  <2> QED BY <1>2, <2>1
<1>4. ASSUME NEW q \in Toolbox!Requests,
             \/ Toolbox!Starts(q) \/ Toolbox!Kill(q) \/ Toolbox!KillFails(q) \/ Toolbox!Send(q)
             \/ Toolbox!Collected(q) \/ Toolbox!NotFound(q) \/ Toolbox!Resize(q)
             \/ Toolbox!Connect(q) \/ (Toolbox!Fails(q) /\ req[q].pc # "answer")
      PROVE  MovesKeeping(q)
  <2>1. req[q].pc \notin Holding /\ UNCHANGED meta /\ \E c : Toolbox!Becomes(q, c)
    BY <1>4 DEF Toolbox!Starts, Toolbox!Kill, Toolbox!KillFails, Toolbox!Send, Toolbox!Collected,
         Toolbox!NotFound, Toolbox!Fails, Toolbox!Resize, Toolbox!Connect, Toolbox!Moves,
         Toolbox!Goto, Toolbox!SaveThen, Toolbox!DeleteSession
  <2> QED BY <1>2, <2>1
<1>5. ASSUME NEW q \in Toolbox!Requests, Toolbox!Load(q) \/ Toolbox!Merge(q)
      PROVE  MovesKeeping(q)
  <2>1. PICK b \in Asking : b = req[q]
    BY DEF ToolboxInv, ToolboxTypes
  <2>2. PICK l, next : /\ next \in {"merge", "write"} /\ UNCHANGED meta /\ b.pc \in {"load", "merge"}
                       /\ req' = [req EXCEPT ![q] = [b EXCEPT !.pc = next, !.loaded = l]]
    BY <1>5, <2>1 DEF Toolbox!Load, Toolbox!Merge, Toolbox!Moves, Toolbox!Becomes
  <2>3. PICK c : c = [b EXCEPT !.pc = next, !.loaded = l]
    OBVIOUS
  <2>4. c.pid = b.pid /\ c.mine = b.mine /\ c.id = b.id /\ c.pc = next
    BY <2>3 DEF Asking
  <2> QED BY <2>1, <2>2, <2>3, <2>4 DEF MovesKeeping, KeepsNames, Saving
<1>6. ASSUME NEW q \in Toolbox!Requests,
             Toolbox!StartEvent(q) \/ Toolbox!EndEvent(q) \/ Toolbox!StartTerminal(q)
      PROVE  MovesKeeping(q)
  <2>1. PICK b \in Asking : b = req[q]
    BY DEF ToolboxInv, ToolboxTypes
  <2>2. UNCHANGED meta /\ b.pc \in {"answer", "event", "live"}
    BY <1>6, <2>1 DEF Toolbox!StartEvent, Toolbox!EndEvent, Toolbox!StartTerminal, Toolbox!Moves
  <2>3. \E c : req' = [req EXCEPT ![q] = c] /\ c.pid = b.pid
    <3>1. CASE ~Toolbox!Goto(q, "live")
      <4>1. PICK m, n : Toolbox!SaveThen(q, m, n)
        BY <1>6, <3>1 DEF Toolbox!StartEvent, Toolbox!EndEvent, Toolbox!StartTerminal
      <4>2. PICK c : c = [b EXCEPT !.mine = m, !.pc = "load", !.then = n]
        OBVIOUS
      <4>3. req' = [req EXCEPT ![q] = c]
        BY <2>1, <4>1, <4>2 DEF Toolbox!SaveThen, Toolbox!Becomes
      <4>4. c.pid = b.pid
        BY <4>2 DEF Asking
      <4> QED BY <4>3, <4>4
    <3>2. CASE Toolbox!Goto(q, "live")
      <4>1. PICK no : no = Toolbox!Nothing
        OBVIOUS
      <4>2. PICK c : c = [b EXCEPT !.pc = "live", !.loaded = no]
        OBVIOUS
      <4>3. req' = [req EXCEPT ![q] = c]
        BY <2>1, <3>2, <4>1, <4>2 DEF Toolbox!Goto, Toolbox!Becomes, Toolbox!At
      <4>4. c.pid = b.pid
        BY <4>2 DEF Asking
      <4> QED BY <4>3, <4>4
    <3> QED BY <3>1, <3>2
  <2> QED BY <2>1, <2>2, <2>3 DEF MovesKeeping, KeepsNames, Saving
<1>7. ASSUME NEW p \in Toolbox!Pids, Toolbox!Exits(p) PROVE UNCHANGED <<meta, req>>
  BY <1>7 DEF Toolbox!Exits
<1>8. CASE Toolbox!EnvdRestarts
  BY <1>8 DEF Toolbox!EnvdRestarts
<1>9. CASE UNCHANGED Toolbox!vars
  BY <1>9 DEF Toolbox!vars
<1>10. ASSUME NEW q \in Toolbox!Requests,
              Toolbox!StartShell(q) \/ (Toolbox!Fails(q) /\ req[q].pc = "answer")
       PROVE  MovesKeeping(q)
  BY <1>10, ShellKeepsNames, FailingKeepsNames
<1> HIDE DEF Holding
<1> QED BY <1>3, <1>4, <1>5, <1>7, <1>8, <1>9, <1>6, <1>10 DEF Toolbox!Next

\* What named it names it still, in a row and with a request that nothing moved.
LEMMA StillInRow ==
  ASSUME NEW p \in Toolbox!Pids, RunsOn(p), NEW i \in Toolbox!Ids, RowSame(i),
         i \in DOMAIN RowOf(i), Toolbox!Has(RowOf(i)[i]), Runs(RowOf(i)[i], i, p)
  PROVE  InRow(p)'
<1>1. i \in DOMAIN RowOf(i)' /\ RowOf(i)'[i] = RowOf(i)[i]
  BY DEF RowSame
<1>2. PICK s : s = RowOf(i)[i]
  OBVIOUS
<1>3. Runs(s, i, p)'
  BY <1>2 DEF Runs, RunsOn
<1>4. RowOf(i)' = Toolbox!Dict(meta', Toolbox!KindOf(i))
  BY DEF RowOf
<1> QED BY <1>1, <1>2, <1>3 DEF InRow, Runs, IsAlive, Toolbox!First, Toolbox!Tagged, Toolbox!Has

\* A request that keeps its names keeps a process named, or loses it.
LEMMA StillWithRequest ==
  ASSUME NEW p \in Toolbox!Pids, RunsOn(p), NEW q \in Toolbox!Requests, WithRequest(req[q], p),
         KeepsNames(req[q], req'[q])
  PROVE  (\E o \in Toolbox!Requests : WithRequest(req[o], p))' \/ Lost(p)'
<1>1. PICK b : b = req[q]
  OBVIOUS
<1>2. PICK c : c = req'[q]
  OBVIOUS
<1>3. WithRequest(c, p)' => (\E o \in Toolbox!Requests : WithRequest(req[o], p))'
  BY <1>2 DEF WithRequest, Runs, IsAlive, Toolbox!First, Toolbox!Tagged
<1>4. CASE b.pid = p
  <2>1. CASE c.pid = p
    BY <1>3, <2>1 DEF WithRequest
  <2>2. CASE c.lost = p
    BY <1>2, <2>2 DEF Lost
  <2>3. CASE Saving(c) /\ c.id \in DOMAIN c.mine /\ Ours(c).pid = p
    <3>1. PICK s : s = Ours(c)
      OBVIOUS
    <3>2. Toolbox!Has(s) /\ Runs(s, c.id, p)'
      BY <2>3, <3>1 DEF Runs, RunsOn, Toolbox!Has, Toolbox!Pids
    <3>3. WithRequest(c, p)'
      BY <2>3, <3>1, <3>2 DEF WithRequest
    <3> QED BY <1>3, <3>3
  <2> QED BY <1>1, <1>2, <1>4, <2>1, <2>2, <2>3 DEF KeepsNames, Toolbox!Pids
<1>5. CASE Saving(b) /\ b.id \in DOMAIN b.mine /\ Toolbox!Has(Ours(b)) /\ Runs(Ours(b), b.id, p)
  <2>1. Saving(c) /\ c.mine = b.mine /\ c.id = b.id
    BY <1>1, <1>2, <1>5 DEF KeepsNames
  <2>2. PICK s : s = Ours(b)
    OBVIOUS
  <2>3. Runs(s, b.id, p)'
    BY <1>5, <2>2 DEF Runs, RunsOn
  <2>4. c.id \in DOMAIN c.mine /\ Ours(c) = s /\ Toolbox!Has(s)
    BY <1>5, <2>1, <2>2 DEF Ours
  <2>5. WithRequest(c, p)'
    BY <2>1, <2>2, <2>3, <2>4 DEF WithRequest
  <2> QED BY <1>3, <2>5
<1> QED BY <1>1, <1>4, <1>5 DEF WithRequest

\* The client of a terminal goes: the row names the process, if it is the terminal's first.
LEMMA LeftIsNamed ==
  ASSUME ToolboxInv, NEW q \in Toolbox!Requests, req[q].pc \in {"event", "live"}, Undisturbed,
         NEW p \in Toolbox!Pids, p = req[q].pid, IsAlive(p), Toolbox!First(p, process[p].of)
  PROVE  InRow(p)
<1>1. PICK i \in Toolbox!Ids \ Shells : i = req[q].id /\ process[p].of = i /\ RowNames(i, p)
  BY RowNamesIt
<1>2. RowOf(i) = Toolbox!Dict(meta, "terminal")
  BY DEF RowOf, Toolbox!KindOf
<1>3. i \in DOMAIN RowOf(i) /\ Toolbox!Has(RowOf(i)[i]) /\ Runs(RowOf(i)[i], i, p)
  BY <1>1, <1>2 DEF RowNames, Runs
<1> QED BY <1>1, <1>3 DEF InRow

\* The session that a request writes runs what that of the row runs, unless its answer was lost.
LEMMA OwnStillNamed ==
  ASSUME Toolbox!ToolboxBounds, ToolboxInv, Undisturbed, NEW q \in Toolbox!Requests, NEW b \in Asking,
         b = req[q], Toolbox!Write(q), NEW p \in Toolbox!Pids, IsAlive(p), ~Lost(p),
         b.id \in DOMAIN DictFor(b, meta), Toolbox!Has(Theirs(b, meta)),
         Runs(Theirs(b, meta), b.id, p)
  PROVE  b.op # "delete" /\ Toolbox!Has(Ours(b)) /\ Runs(Ours(b), b.id, p)
<1>1. /\ b.pc = "write" /\ Fits(b) /\ ~b.stale /\ InStep(b, meta) /\ CalmRequest(b)
      /\ Saving(b) /\ Busy(b) /\ meta \in Metas /\ b.id \in Toolbox!Ids
  BY DEF ToolboxInv, ToolboxTypes, SessionsInStep, Busy, Saving, Toolbox!Write, Undisturbed, WhenCalm,
         CalmRequest, Fits
<1>2. PICK t : t = Theirs(b, meta)
  OBVIOUS
<1>3. PICK o : o = Ours(b)
  OBVIOUS
<1>4. b.op # "delete"
  BY <1>1 DEF CalmRequest, Deletes
<1>5. Agree(b, o, t)
  BY <1>1, <1>2, <1>3, <1>4 DEF InStep
<1>6. ~(b.op = "execute" /\ b.then = "send")
  <2> SUFFICES ASSUME b.op = "execute", b.then = "send" PROVE FALSE
    OBVIOUS
  <2>1. b.again
    BY <1>1 DEF Fits
  <2> QED BY <1>1, <2>1 DEF CalmRequest, BeginsAgain
<1>7. CASE b.op = "connect" /\ b.then = "live"
  <2>1. o.pid = b.pid
    BY <1>1, <1>5, <1>7 DEF Agree
  <2>2. b.pid = p
    BY <1>1, <1>2, <1>7 DEF CalmRequest, Connects
  <2> QED BY <1>3, <1>4, <2>1, <2>2 DEF Runs, Toolbox!Has, Toolbox!Pids
<1>8. CASE o.pid = t.pid /\ (t.started => o.started)
  BY <1>2, <1>3, <1>4, <1>8 DEF Runs, Toolbox!Has
<1> QED BY <1>1, <1>5, <1>6, <1>7, <1>8 DEF Agree

\* A write loses no process that runs.
LEMMA WriteStillNames ==
  ASSUME Toolbox!ToolboxBounds, ToolboxInv, Undisturbed, NEW q \in Toolbox!Requests, Toolbox!Write(q),
         NEW p \in Toolbox!Pids, IsAlive(p), RunsOn(p), NamedBy(p), ~Lost(p)'
  PROVE  NamedBy(p)'
<1>1. PICK b \in Asking : b = req[q]
  BY DEF ToolboxInv, ToolboxTypes
<1>2. /\ b.pc = "write" /\ meta' = b.loaded /\ Fits(b) /\ ~b.stale
      /\ CalmRequest(b) /\ Saving(b) /\ Busy(b) /\ meta \in Metas /\ b.id \in Toolbox!Ids
      /\ ToolboxTypes
  BY <1>1 DEF ToolboxInv, ToolboxTypes, Busy, Saving, Toolbox!Write, Undisturbed, WhenCalm,
         CalmRequest, Fits
<1>3. /\ b.id \in DOMAIN DictFor(b, meta') <=> b.op # "delete"
      /\ b.op # "delete" => Theirs(b, meta') = Ours(b)
      /\ \A i \in Toolbox!Ids \ {b.id} : RowSame(i)
  BY <1>1, <1>2, WrittenRow
<1>4. \A o \in Toolbox!Requests \ {q} : KeepsNames(req[o], req'[o])
  <2> SUFFICES ASSUME NEW o \in Toolbox!Requests \ {q} PROVE KeepsNames(req[o], req'[o])
    OBVIOUS
  <2>1. PICK e \in Asking : e = req[o]
    BY <1>2 DEF ToolboxTypes
  <2>2. PICK f : f = req'[o]
    OBVIOUS
  <2>3. Beside(e, f)
    BY <1>2, <2>1, <2>2, WrittenRequests
  <2>4. f.pid = e.pid /\ f.mine = e.mine /\ f.id = e.id /\ f.pc = e.pc
    BY <2>3 DEF Beside, Asking
  <2> QED BY <2>1, <2>2, <2>4 DEF KeepsNames, Saving
<1>5. ~Lost(p)
  <2> SUFFICES ASSUME NEW o \in Toolbox!Requests, req[o].lost = p PROVE Lost(p)'
    BY DEF Lost
  <2>1. o # q
    BY <1>1, <1>2 DEF Fits, Toolbox!Pids
  <2>2. PICK e \in Asking : e = req[o]
    BY <1>2 DEF ToolboxTypes
  <2>3. Beside(e, req'[o])
    BY <1>2, <2>1, <2>2, WrittenRequests
  <2>4. req'[o].lost = e.lost
    BY <2>3 DEF Beside, Asking
  <2> QED BY <2>2, <2>4 DEF Lost
<1>6. ASSUME NEW o \in Toolbox!Requests \ {q}, WithRequest(req[o], p) PROVE NamedBy(p)'
  BY <1>4, <1>6, StillWithRequest DEF NamedBy
<1>7. b.op # "delete" /\ Toolbox!Has(Ours(b)) /\ Runs(Ours(b), b.id, p) => NamedBy(p)'
  <2> HAVE b.op # "delete" /\ Toolbox!Has(Ours(b)) /\ Runs(Ours(b), b.id, p)
  <2>1. PICK s : s = Ours(b)
    OBVIOUS
  <2>2. PICK i \in Toolbox!Ids : i = b.id
    BY <1>2
  <2>3. RowOf(i)' = DictFor(b, meta')
    BY <2>2 DEF RowOf, DictFor
  <2>4. i \in DOMAIN RowOf(i)' /\ RowOf(i)'[i] = s
    BY <1>3, <2>1, <2>2, <2>3 DEF Theirs
  <2>5. Toolbox!Has(s) /\ Runs(s, i, p)'
    BY <2>1, <2>2 DEF Runs, RunsOn
  <2>6. InRow(p)'
    BY <2>4, <2>5 DEF InRow, Runs, IsAlive, Toolbox!First, Toolbox!Tagged, Toolbox!Has
  <2> QED BY <2>6 DEF NamedBy
<1>8. CASE InRow(p)
  <2>1. PICK i \in Toolbox!Ids : /\ i \in DOMAIN RowOf(i) /\ Toolbox!Has(RowOf(i)[i])
                                 /\ Runs(RowOf(i)[i], i, p)
    BY <1>8 DEF InRow
  <2>2. CASE i # b.id
    BY <1>3, <2>1, <2>2, StillInRow DEF NamedBy
  <2>3. CASE i = b.id
    <3>1. /\ b.id \in DOMAIN DictFor(b, meta) /\ Toolbox!Has(Theirs(b, meta))
          /\ Runs(Theirs(b, meta), b.id, p)
      BY <2>1, <2>3 DEF DictFor, RowOf, Theirs
    <3>2. b.op # "delete" /\ Toolbox!Has(Ours(b)) /\ Runs(Ours(b), b.id, p)
      BY <1>1, <1>5, <3>1, OwnStillNamed
    <3> QED BY <1>7, <3>2
  <2> QED BY <2>2, <2>3
<1>9. CASE WithRequest(b, p)
  <2>1. CASE b.pid = p
    <3>1. b.op = "connect" /\ b.then # "done"
      BY <1>2, <2>1 DEF Fits, Toolbox!Pids, CalmRequest, Connects
    <3>2. PICK c : c = Toolbox!At(q, b.then)
      OBVIOUS
    <3>3. c.pid = b.pid
      BY <1>1, <3>1, <3>2, WrittenGoesOn
    <3>4. req'[q] = c
      BY <1>1, <1>2, <3>2, WrittenRequests
    <3> QED BY <2>1, <3>3, <3>4 DEF NamedBy, WithRequest
  <2>2. CASE b.id \in DOMAIN b.mine /\ Toolbox!Has(Ours(b)) /\ Runs(Ours(b), b.id, p)
    <3>1. b.op # "delete"
      BY <1>2, <2>2 DEF Fits
    <3> QED BY <1>7, <2>2, <3>1
  <2> QED BY <1>9, <2>1, <2>2 DEF WithRequest
<1> QED BY <1>1, <1>6, <1>8, <1>9 DEF NamedBy

\* A step of the others loses none.
LEMMA QuietStillNames ==
  ASSUME ToolboxInv, Undisturbed, UNCHANGED meta, NEW p \in Toolbox!Pids, IsAlive(p), RunsOn(p),
         Toolbox!First(p, process[p].of), NamedBy(p), ~Lost(p)',
         \/ UNCHANGED req
         \/ \E q \in Toolbox!Requests : Toolbox!Leave(q) \/ MovesKeeping(q)
  PROVE  NamedBy(p)'
<1>1. req \in [Toolbox!Requests -> Asking]
  BY DEF ToolboxInv, ToolboxTypes
<1>2. InRow(p) => NamedBy(p)'
  <2>1. \A i : RowSame(i)
    BY DEF RowSame, RowOf
  <2> QED BY <2>1, StillInRow DEF InRow, NamedBy
<1>3. ASSUME NEW o \in Toolbox!Requests, WithRequest(req[o], p), KeepsNames(req[o], req'[o])
      PROVE  NamedBy(p)'
  BY <1>3, StillWithRequest DEF NamedBy
<1>4. \A o \in Toolbox!Requests : req'[o] = req[o] => KeepsNames(req[o], req'[o])
  BY DEF KeepsNames
<1>5. CASE UNCHANGED req
  BY <1>2, <1>3, <1>4, <1>5 DEF NamedBy
<1>6. ASSUME NEW q \in Toolbox!Requests, Toolbox!Leave(q) PROVE NamedBy(p)'
  <2>1. req[q].pc \in {"event", "live"} /\ \A o \in Toolbox!Requests \ {q} : req'[o] = req[o]
    BY <1>1, <1>6 DEF Toolbox!Leave, Toolbox!Moves, Toolbox!Goto, Toolbox!Becomes
  <2>2. ASSUME WithRequest(req[q], p) PROVE InRow(p)
    <3>1. req[q].pid = p
      BY <2>1, <2>2 DEF WithRequest, Saving
    <3> QED BY <2>1, <3>1, LeftIsNamed
  <2> QED BY <1>2, <1>3, <1>4, <2>1, <2>2 DEF NamedBy
<1>7. ASSUME NEW q \in Toolbox!Requests, MovesKeeping(q) PROVE NamedBy(p)'
  <2>1. /\ KeepsNames(req[q], req'[q])
        /\ \A o \in Toolbox!Requests \ {q} : req'[o] = req[o]
    BY <1>1, <1>7 DEF MovesKeeping
  <2> QED BY <1>2, <1>3, <1>4, <2>1 DEF NamedBy
<1> QED BY <1>5, <1>6, <1>7

\* No step loses the last name of a process that runs.
LEMMA ShellsStayNamed ==
  ASSUME Toolbox!ToolboxBounds, ToolboxInv, ToolboxInv', [Toolbox!Next]_(Toolbox!vars)
  PROVE  Toolbox!ShellsNamed
<1> SUFFICES ASSUME NEW p \in Toolbox!Pids, Toolbox!Is(p, "alive"), process'[p].st = "alive",
                    p \in Toolbox!Named, p \notin Toolbox!Named', Undisturbed, ~Lost(p)',
                    Toolbox!First(p, process[p].of)
             PROVE  FALSE
  BY DEF Toolbox!ShellsNamed, Undisturbed, Lost
<1>1. IsAlive(p) /\ IsAlive(p)'
  BY DEF Toolbox!Is, IsAlive
<1>2. NamedBy(p) /\ ~NamedBy(p)'
  BY <1>1, NamedIs, NamedIsThen
<1>3. RunsOn(p)
  BY <1>1, LivesOn
<1>4. CASE \E q \in Toolbox!Requests : Toolbox!Write(q)
  BY <1>1, <1>2, <1>3, <1>4, WriteStillNames
<1>5. CASE /\ UNCHANGED meta
           /\ \/ UNCHANGED req
              \/ \E q \in Toolbox!Requests : Toolbox!Leave(q) \/ MovesKeeping(q)
  BY <1>1, <1>2, <1>3, <1>5, QuietStillNames
<1>6. MaxPids \in Nat
  BY DEF Toolbox!ToolboxBounds
<1> QED BY <1>4, <1>5, <1>6, OneRequestMoves DEF MovesKeeping, Toolbox!Leave

-----------------------------------------------------------------------------

\* Sessions, their processes and the requests about them, always.
LEMMA AlwaysToolboxInv ==
  ASSUME Toolbox!ToolboxBounds PROVE Toolbox!Spec => []ToolboxInv
<1>1. Toolbox!Init => ToolboxInv
  BY SessionsBegin
<1>2. ToolboxInv /\ [Toolbox!Next]_(Toolbox!vars) => ToolboxInv'
  BY SessionsStep
<1> QED BY <1>1, <1>2, PTL DEF Toolbox!Spec

\* A session goes only with its deletion and comes only with its creation, a command's record
\* goes only with its session, and from its start a shell or terminal that runs stays named,
\* unless the answer to its start was lost, a kill failed, requests overlapped, or envd knows
\* an earlier process of the session (_session_from_record and save_toolbox_session).
THEOREM SessionsAreKept ==
  ASSUME Toolbox!ToolboxBounds PROVE Toolbox!Spec => Toolbox!SessionsKept
<1>1. ToolboxInv /\ ToolboxInv' /\ [Toolbox!Next]_(Toolbox!vars)
        => [Toolbox!Kept]_(Toolbox!vars)
  BY SessionsRecorded, ShellsStayNamed DEF Toolbox!Kept
<1> QED BY <1>1, AlwaysToolboxInv, PTL DEF Toolbox!Spec, Toolbox!SessionsKept

-----------------------------------------------------------------------------
(* The types of what these components keep *)

\* API keys and their caches have their types.
LEMMA KeyTypesAlways == ASSUME Keys!KeyBounds PROVE Keys!Spec => []Keys!TypeOK
<1>1. KeyInv => Keys!TypeOK
  BY DEF KeyInv
<1> QED BY <1>1, AlwaysKeyInv, PTL

\* Snapshots and their images have their types.
LEMMA SnapTypesAlways == Snap!Spec => []Snap!TypeOK
<1>1. SnapInv => Snap!TypeOK
  BY DEF SnapInv
<1> QED BY <1>1, AlwaysSnapInv, PTL

\* A build's context and its clients have their types.
LEMMA ContextTypesAlways ==
  ASSUME Context!ContextBounds PROVE Context!Spec => []Context!TypeOK
<1>1. ContextInv => Context!TypeOK
  <2> SUFFICES ASSUME ContextInv PROVE Context!TypeOK
    OBVIOUS
  <2>1. ContextTypes
    BY DEF ContextInv
  <2>2. ASSUME NEW c \in Clients
        PROVE  client[c] \in Uploader
    BY <2>1 DEF ContextTypes
  <2> QED BY <2>1, <2>2 DEF ContextTypes, Uploader, ContextPcs, Context!TypeOK, Context!Putting, Context!Reading
<1> QED BY <1>1, AlwaysContextInv, PTL

\* A sandbox under the Daytona API has its types.
LEMMA DaytonaTypesAlways ==
  ASSUME Daytona!DaytonaBounds PROVE Daytona!Spec => []Daytona!TypeOK
<1>1. DaytonaInv => Daytona!TypeOK
  <2> SUFFICES ASSUME DaytonaInv PROVE Daytona!TypeOK
    OBVIOUS
  <2>1. DaytonaTypes
    BY DEF DaytonaInv
  <2>2. ASSUME NEW q \in ApiRequests PROVE req[q] \in DaytonaCall
    BY <2>1 DEF DaytonaTypes
  <2> QED BY <2>1, <2>2 DEF DaytonaTypes, DaytonaCall, Daytona!TypeOK
<1> QED BY <1>1, AlwaysDaytonaInv, PTL

\* envd starts anew no more often than is counted.
LEMMA RestartsCounted ==
  ASSUME restarts \in 0..MaxRestarts, [Toolbox!Next]_(Toolbox!vars)
  PROVE  restarts' \in 0..MaxRestarts
<1>1. CASE Toolbox!EnvdRestarts
  BY <1>1, Numbers DEF Toolbox!EnvdRestarts
<1>2. CASE UNCHANGED restarts
  BY <1>2
<1> QED
  BY <1>1, <1>2, ZenonT(60)
  DEF Toolbox!Next, Toolbox!vars, Toolbox!Read, Toolbox!Starts, Toolbox!StartShell,
      Toolbox!Kill, Toolbox!KillFails, Toolbox!Send, Toolbox!Collected, Toolbox!NotFound,
      Toolbox!Fails, Toolbox!Resize, Toolbox!Connect, Toolbox!StartTerminal, Toolbox!StartEvent,
      Toolbox!EndEvent, Toolbox!Leave, Toolbox!Load, Toolbox!Merge, Toolbox!Write, Toolbox!Exits

\* Dictionaries and metadata as the model says them.
LEMMA DictsAre ==
  /\ \A d \in Dicts : Toolbox!IsDict(d)
  /\ Toolbox!ToolboxBounds => \A md \in Metas : Toolbox!IsMeta(md)
<1>1. ASSUME NEW d \in Dicts PROVE Toolbox!IsDict(d)
  <2>1. PICK S \in SUBSET Toolbox!Ids : d \in [S -> Toolbox!Session]
    BY DEF Dicts
  <2> QED BY <2>1 DEF Toolbox!IsDict
<1>2. ASSUME NEW md \in Metas PROVE Toolbox!IsMeta(md)
  <2>1. DOMAIN md = Toolbox!Kinds /\ \A k \in Toolbox!Kinds : md[k] \in Dicts \cup {None}
    BY DEF Metas
  <2> QED BY <1>1, <2>1 DEF Toolbox!IsMeta
<1> QED BY <1>1, <1>2

\* The toolbox's sessions have their types.
LEMMA ToolboxTypesAlways ==
  ASSUME Toolbox!ToolboxBounds PROVE Toolbox!Spec => []Toolbox!TypeOK
<1>1. Toolbox!Init => restarts \in 0..MaxRestarts
  BY Numbers DEF Toolbox!Init
<1>2. restarts \in 0..MaxRestarts /\ [Toolbox!Next]_(Toolbox!vars) => (restarts \in 0..MaxRestarts)'
  BY RestartsCounted
<1>3. ToolboxInv /\ restarts \in 0..MaxRestarts => Toolbox!TypeOK
  <2> SUFFICES ASSUME ToolboxInv, restarts \in 0..MaxRestarts PROVE Toolbox!TypeOK
    OBVIOUS
  <2>1. meta \in Metas /\ process \in [Toolbox!Pids -> Started]
        /\ req \in [Toolbox!Requests -> Asking]
    BY DEF ToolboxInv, ToolboxTypes
  <2>2. Toolbox!IsMeta(meta)
    BY <2>1, DictsAre
  <2>3. ASSUME NEW q \in Toolbox!Requests
        PROVE  req[q] \in Asking /\ Toolbox!IsDict(req[q].mine) /\ Toolbox!IsMeta(req[q].loaded)
    <3>1. req[q] \in Asking /\ req[q].mine \in Dicts /\ req[q].loaded \in Metas
      BY <2>1 DEF Asking
    <3> QED BY <3>1, DictsAre
  <2>4. \A q \in Toolbox!Requests :
       /\ req[q].pc \in {"idle", "start", "open", "answer", "kill", "send", "collect", "resize",
                         "event", "live", "load", "merge", "write", "done"}
       /\ req[q].then \in {"send", "event", "live", "done"}
       /\ req[q].op \in Toolbox!Ops \cup {None} /\ req[q].id \in Toolbox!Ids \cup {None}
       /\ req[q].at \in Replicas \cup {None} /\ req[q].pid \in 0..MaxPids
       /\ req[q].lost \in 0..MaxPids
       /\ req[q].again \in BOOLEAN /\ req[q].stale \in BOOLEAN /\ req[q].killed \in BOOLEAN
    BY <2>3 DEF Asking
  <2> QED BY <2>1, <2>2, <2>3, <2>4 DEF Started, Toolbox!TypeOK
<1> QED BY <1>1, <1>2, <1>3, AlwaysToolboxInv, PTL DEF Toolbox!Spec

\* What the types say besides: a claim's tries keep their bound.
MongoRest ==
  /\ children \in [Mongo!Kinds -> SUBSET Documents] /\ handoffs \in Nat /\ moves \in 0..MaxMoves
  /\ \A t \in Callers : call[t].tries \in 0..Tries

\* A step keeps them.
LEMMA MongoRestStep ==
  ASSUME MongoInv, MongoRest, [Mongo!Next]_(Mongo!vars) PROVE MongoRest'
<1>1. children' \in [Mongo!Kinds -> SUBSET Documents]
  BY ZenonT(60)
  DEF Mongo!Next, Mongo!vars, MongoRest, Mongo!Create, Mongo!UpdateState, Mongo!UpdateTimeout,
     Mongo!LeaseEnds, Mongo!AddChild, Mongo!Claim, Mongo!Pick, Mongo!GiveUp, Mongo!HandOff,
     Mongo!Count, Mongo!FindToMerge, Mongo!FindToDelete, Mongo!MarkLost, Mongo!WriteMerged,
     Mongo!FindToMark, Mongo!Listed, Mongo!DeleteChildren, Mongo!DeleteRow, Mongo!Crash
<1>2. handoffs' \in Nat /\ moves' \in 0..MaxMoves
  <2>1. handoffs' \in {handoffs, handoffs + 1}
    BY DEF Mongo!Next, Mongo!vars, Mongo!Create, Mongo!UpdateState, Mongo!UpdateTimeout,
       Mongo!LeaseEnds, Mongo!AddChild, Mongo!Claim, Mongo!Pick, Mongo!GiveUp, Mongo!HandOff,
       Mongo!Count, Mongo!FindToMerge, Mongo!FindToDelete, Mongo!MarkLost, Mongo!WriteMerged,
       Mongo!FindToMark, Mongo!Listed, Mongo!DeleteChildren, Mongo!DeleteRow, Mongo!Crash
  <2>2. Mongo!Moved \/ UNCHANGED moves
    BY DEF Mongo!Next, Mongo!vars, Mongo!Create, Mongo!UpdateState, Mongo!UpdateTimeout,
       Mongo!LeaseEnds, Mongo!AddChild, Mongo!Claim, Mongo!Pick, Mongo!GiveUp, Mongo!HandOff,
       Mongo!Count, Mongo!FindToMerge, Mongo!FindToDelete, Mongo!MarkLost, Mongo!WriteMerged,
       Mongo!FindToMark, Mongo!Listed, Mongo!DeleteChildren, Mongo!DeleteRow, Mongo!Crash
  <2>3. moves' \in 0..MaxMoves
    BY <2>2, Numbers DEF MongoRest, Mongo!Moved
  <2> QED BY <2>1, <2>3 DEF MongoRest
<1>3. ASSUME NEW t \in Callers, NEW c, Mongo!Does(t, c), c.tries \in 0..Tries
      PROVE  \A u \in Callers : call'[u].tries \in 0..Tries
  BY <1>3 DEF Mongo!Does, MongoInv, MongoRest
<1>4. \A t \in Callers : call[t] \in MongoRecord
  BY DEF MongoInv, MongoCall
<1>5. ASSUME NEW t \in Callers, NEW place, Mongo!Goes(t, place)
      PROVE  \A u \in Callers : call'[u].tries \in 0..Tries
  <2>1. [call[t] EXCEPT !.pc = place].tries = call[t].tries
    BY <1>4 DEF MongoRecord
  <2> QED BY <1>3, <1>5, <2>1 DEF Mongo!Goes, MongoRest
<1>6. Mongo!NoCall.tries \in 0..Tries
  BY Numbers DEF Mongo!NoCall
<1>7. ASSUME NEW t \in Callers, NEW s, NEW c,
             \/ \E key \in Mongo!Keys : Mongo!FindToMerge(t, s, key)
             \/ \E why \in {"expired", "purge", "history"} : Mongo!FindToDelete(t, s, why)
             \/ Mongo!MarkLost(t, s) \/ Mongo!Claim(t, c)
      PROVE  \A u \in Callers : call'[u].tries \in 0..Tries
  <2>1. ASSUME NEW x, NEW y, NEW z, NEW d,
               d \in {[Mongo!NoCall EXCEPT !.pc = x, !.row = y, !.md = z],
                      [Mongo!NoCall EXCEPT !.pc = x, !.row = y],
                      [Mongo!NoCall EXCEPT !.pc = x, !.who = y]},
               Mongo!Does(t, d)
        PROVE  \A u \in Callers : call'[u].tries \in 0..Tries
    <3>1. d.tries = 0
      BY <2>1 DEF Mongo!NoCall
    <3>2. d.tries \in 0..Tries
      BY <3>1, Numbers
    <3> QED BY <1>3, <2>1, <3>2
  <2>2. CASE \E key \in Mongo!Keys : Mongo!FindToMerge(t, s, key)
    BY <2>1, <2>2 DEF Mongo!FindToMerge
  <2>3. CASE \E why \in {"expired", "purge", "history"} : Mongo!FindToDelete(t, s, why)
    BY <2>1, <2>3 DEF Mongo!FindToDelete
  <2>4. CASE Mongo!MarkLost(t, s)
    BY <2>1, <2>4 DEF Mongo!MarkLost
  <2>5. CASE Mongo!Claim(t, c)
    BY <2>1, <2>5 DEF Mongo!Claim
  <2> QED BY <1>7, <2>2, <2>3, <2>4, <2>5
<1>8. ASSUME NEW t \in Callers, Mongo!Pick(t) PROVE \A u \in Callers : call'[u].tries \in 0..Tries
  <2>1. CASE Mongo!Does(t, Mongo!NoCall)
    BY <1>3, <1>6, <2>1
  <2>2. ASSUME NEW s \in Documents, NEW to, call[t].tries # Tries,
               Mongo!Does(t, [call[t] EXCEPT !.pc = to, !.row = s, !.md = rows[s].md, !.tries = @ + 1])
        PROVE  \A u \in Callers : call'[u].tries \in 0..Tries
    <3>1. [call[t] EXCEPT !.pc = to, !.row = s, !.md = rows[s].md, !.tries = @ + 1].tries
            = call[t].tries + 1
      BY <1>4 DEF MongoRecord
    <3>2. call[t].tries + 1 \in 0..Tries
      BY <2>2, Numbers DEF MongoRest
    <3> QED BY <1>3, <2>2, <3>1, <3>2
  <2> QED BY <1>8, <2>1, <2>2 DEF Mongo!Pick
<1>9. ASSUME NEW t \in Callers, Mongo!FindToMark(t) PROVE \A u \in Callers : call'[u].tries \in 0..Tries
  <2>1. \A x : [call[t] EXCEPT !.pc = "write", !.md = x \cup @].tries = call[t].tries
    BY <1>4 DEF MongoRecord
  <2> QED BY <1>3, <1>6, <1>9, <2>1 DEF Mongo!FindToMark, MongoRest
<1>10. ASSUME NEW t \in Callers,
              \/ Mongo!GiveUp(t) \/ Mongo!HandOff(t) \/ Mongo!Count(t) \/ Mongo!WriteMerged(t)
              \/ Mongo!Listed(t) \/ Mongo!DeleteRow(t) \/ Mongo!Crash(t)
              \/ \E kind, next : Mongo!DeleteChildren(t, kind, next)
       PROVE  \A u \in Callers : call'[u].tries \in 0..Tries
  BY <1>3, <1>5, <1>6, <1>10
  DEF Mongo!GiveUp, Mongo!HandOff, Mongo!Count, Mongo!WriteMerged, Mongo!Listed, Mongo!DeleteRow,
      Mongo!Crash, Mongo!DeleteChildren
<1>11. CASE UNCHANGED call
  BY <1>1, <1>2, <1>11 DEF MongoRest
<1>12. CASE \A u \in Callers : call'[u].tries \in 0..Tries
  BY <1>1, <1>2, <1>12 DEF MongoRest
<1> QED
  BY <1>7, <1>8, <1>9, <1>10, <1>11, <1>12
  DEF Mongo!Next, Mongo!vars, Mongo!Create, Mongo!UpdateState, Mongo!UpdateTimeout, Mongo!LeaseEnds,
      Mongo!AddChild

\* The documents of MongoDB and the calls on them have their types.
LEMMA MongoTypesAlways == Mongo!Spec => []Mongo!TypeOK
<1>1. Mongo!Init => MongoRest
  <2> SUFFICES ASSUME Mongo!Init PROVE MongoRest
    OBVIOUS
  <2>1. PICK c : c = Mongo!NoCall
    OBVIOUS
  <2>2. c.tries = 0
    BY <2>1 DEF Mongo!NoCall
  <2>3. \A t \in Callers : call[t].tries = 0
    BY <2>1, <2>2 DEF Mongo!Init
  <2> QED BY <2>3, Numbers DEF Mongo!Init, MongoRest
<1>2. MongoInv /\ MongoRest /\ [Mongo!Next]_(Mongo!vars) => MongoRest'
  BY MongoRestStep
<1>3. MongoInv /\ MongoRest => Mongo!TypeOK
  <2> SUFFICES ASSUME MongoInv, MongoRest PROVE Mongo!TypeOK
    OBVIOUS
  <2>1. rows \in [Documents -> MongoDoc]
    BY DEF MongoInv
  <2>2. ASSUME NEW t \in Callers
        PROVE  call[t] \in
                 [pc : {"idle", "pick", "give_up", "hand", "count", "merge", "write",
                        "lost", "expired", "purge", "history", "snapshots", "delete"},
                  row : Documents \cup {None}, who : Clients \cup {None},
                  md : SUBSET Mongo!Keys, tries : 0..Tries]
    BY DEF MongoInv, MongoRest, MongoCall, MongoRecord
  <2>3. call = [t \in Callers |-> call[t]]
    BY DEF MongoInv
  <2> QED BY <2>1, <2>2, <2>3 DEF MongoRest, MongoDoc, Mongo!TypeOK
<1> QED BY <1>1, <1>2, <1>3, AlwaysMongoInv, PTL DEF Mongo!Spec

\* A template's build: its places, its environments, and no more lines than are read.
DockerTyped ==
  /\ pc \in {"idle", "create", "walk", "bake", "start", "ready", "commit", "kill",
             "upsert", "source", "warm", "done", "giveup", "failed"}
  /\ {given, args, env} \subseteq [DockerNames -> Docker!Values \cup {None}]
  /\ context \in BOOLEAN /\ Len(lines) <= MaxLines

\* A step of a build keeps its types.
LEMMA DockerTypedStep ==
  ASSUME DockerInv, DockerTyped, [Docker!Next]_(Docker!vars) PROVE DockerTyped'
<1>1. lines \in Seq(DockerLine) /\ Len(lines) \in Nat
  BY DEF DockerInv, DockerBox
<1>2. ASSUME NEW op, NEW n, NEW v, Docker!Reads(op, n, v) PROVE Len(lines') <= MaxLines
  BY <1>1, <1>2, Numbers DEF Docker!Reads
<1>3. ASSUME NEW v \in Docker!Values PROVE Docker!Expand(v) \in Docker!Values \cup {None}
  BY DEF Docker!Expand, Docker!Known, DockerTyped
<1>4. CASE Docker!Begin
  BY <1>4 DEF Docker!Begin, DockerTyped, Docker!Unset, Docker!Values
<1>5. ASSUME NEW n \in DockerNames, NEW v \in Docker!Values, Docker!ReadArg(n, v) \/ Docker!ReadEnv(n, v)
      PROVE  DockerTyped'
  BY <1>2, <1>3, <1>5 DEF Docker!ReadArg, Docker!ReadEnv, DockerTyped
<1>6. ASSUME NEW op, Docker!ReadOther(op) \/ Docker!Executes(op) PROVE DockerTyped'
  <2>1. Len(lines') <= MaxLines
    BY <1>2, <1>6 DEF Docker!ReadOther, Docker!Executes
  <2>2. /\ UNCHANGED <<given, args, env, context>>
        /\ pc' \in {pc, "walk", "giveup"}
    BY <1>6 DEF Docker!ReadOther, Docker!Executes, Docker!Does
  <2> QED BY <2>1, <2>2 DEF DockerTyped
<1>7. CASE \/ Docker!Create \/ Docker!EndOfFile \/ Docker!Bake \/ Docker!StartCmd \/ Docker!Ready
           \/ Docker!Commit \/ Docker!Kill \/ Docker!Upsert \/ Docker!SetSource \/ Docker!SetWarm
           \/ Docker!Crash \/ (\E i \in late : Docker!LateEnd(i)) \/ UNCHANGED Docker!vars
  BY <1>7
  DEF DockerTyped, Docker!vars, Docker!Create, Docker!EndOfFile, Docker!Bake, Docker!StartCmd,
      Docker!Ready, Docker!Commit, Docker!Kill, Docker!Upsert, Docker!SetSource, Docker!SetWarm,
      Docker!Crash, Docker!LateEnd
<1> QED BY <1>4, <1>5, <1>6, <1>7 DEF Docker!Next

\* The build of a template from a Dockerfile has its types.
LEMMA DockerTypesAlways == Docker!Spec => []Docker!TypeOK
<1>1. Docker!Init => DockerTyped
  <2> SUFFICES ASSUME Docker!Init PROVE DockerTyped
    OBVIOUS
  <2>1. Docker!Unset \in [DockerNames -> Docker!Values \cup {None}]
    BY DEF Docker!Unset
  <2>2. pc = "idle" /\ Len(lines) = 0 /\ context = FALSE
    BY DEF Docker!Init
  <2>3. {given, args, env} \subseteq [DockerNames -> Docker!Values \cup {None}]
    BY <2>1 DEF Docker!Init
  <2>4. Len(lines) <= MaxLines
    BY <2>2, Numbers
  <2> QED BY <2>2, <2>3, <2>4 DEF DockerTyped
<1>2. DockerInv /\ DockerTyped /\ [Docker!Next]_(Docker!vars) => DockerTyped'
  BY DockerTypedStep
<1>3. DockerInv /\ DockerTyped => Docker!TypeOK
  <2> SUFFICES ASSUME DockerInv, DockerTyped PROVE Docker!TypeOK
    OBVIOUS
  <2>1. /\ \A i \in DOMAIN lines :
             lines[i].op \in {"ARG", "ENV", "WORKDIR", "USER", "RUN", "COPY", "other"}
        /\ Len(lines) \in Nat
    <3>1. lines \in Seq(DockerLine)
      BY DEF DockerInv, DockerBox
    <3>2. DOMAIN lines = 1..Len(lines) /\ Len(lines) \in Nat /\ \A i \in 1..Len(lines) : lines[i] \in DockerLine
      BY <3>1
    <3> QED BY <3>2 DEF DockerLine
  <2>2. late \subseteq 1..MaxLines
    BY <2>1, Numbers DEF DockerInv, DockerBox, DockerTyped
  <2> QED BY <2>1, <2>2 DEF DockerTyped, Docker!TypeOK
<1> QED BY <1>1, <1>2, <1>3, AlwaysDockerInv, PTL DEF Docker!Spec

=============================================================================
