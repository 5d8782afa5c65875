------------------------------- MODULE ApiKeys -------------------------------
(***************************************************************************)
(* API keys: rows of the database, the cache of principals that each       *)
(* api-service process keeps for AUTH_API_KEY_CACHE_TTL_SEC, the bootstrap *)
(* key that every process makes sure of, and access tokens, for which the  *)
(* row is always read.                                                     *)
(*                                                                         *)
(* Authentication runs in worker threads; a revocation is a request to one *)
(* process, which clears its own cache.  Time is counted in units of which *)
(* TTL make up the life of a cached principal and MaxLook the longest      *)
(* time between reading a row and keeping it.                              *)
(***************************************************************************)
EXTENDS Integers

CONSTANTS
  Replicas, Threads, None,
  TTL, MaxLook,
  MaxTime     \* bound: units counted after the revocation

KeyBounds == {TTL, MaxLook, MaxTime} \subseteq Nat

VARIABLES
  client,    \* is there the bootstrap client, and is there its key?
  boot,
  row,       \* the row of a key made in the portal: none, live or revoked
  cache,     \* units for which a process still keeps the key's principal
  look,      \* the threads
  lock,      \* _BOOTSTRAP_LOCK of a process
  revoking,  \* the process that has revoked the key and not cleared its cache yet
  since,     \* history: units since the key was revoked
  accepted,  \* history: the largest of them at which the key, or a token, was accepted
  overlap,   \* history: did a thread hold the row it had read when the cache was cleared?
  cleared    \* history: the process that cleared its cache for the revocation

vars == <<client, boot, row, cache, look, lock, revoking, since, accepted, overlap, cleared>>
History == <<since, accepted, overlap, cleared>>

Idle == [pc |-> "idle", at |-> None, age |-> 0]

TypeOK ==
  /\ client \in BOOLEAN /\ boot \in BOOLEAN /\ row \in {"none", "live", "revoked"}
  /\ cache \in [Replicas -> 0..TTL]
  /\ look \in [Threads -> [pc : {"idle", "first", "second", "client", "key", "read", "fill"},
                           at : Replicas \cup {None}, age : 0..MaxLook]]
  /\ lock \in [Replicas -> Threads \cup {None}]
  /\ revoking \in Replicas \cup {None}
  /\ since \in 0..MaxTime /\ accepted \in [{"key", "token"} -> -1..MaxTime]
  /\ overlap \in BOOLEAN /\ cleared \in Replicas \cup {None}

Init ==
  /\ client = FALSE /\ boot = FALSE /\ row = "none" /\ cache = [r \in Replicas |-> 0]
  /\ look = [t \in Threads |-> Idle] /\ lock = [r \in Replicas |-> None]
  /\ revoking = None /\ since = 0 /\ accepted = [h \in {"key", "token"} |-> -1]
  /\ overlap = FALSE /\ cleared = None

At(t, pc) == look[t].pc = pc
Goto(t, pc) == look' = [look EXCEPT ![t].pc = pc, ![t].age = 0]
End(t) == look' = [look EXCEPT ![t] = Idle]
Accept(how) ==
  accepted' = IF row = "revoked" THEN [accepted EXCEPT ![how] = since]
              ELSE accepted

-----------------------------------------------------------------------------
(* ensure_bootstrap_client_and_key, at startup and on every cache miss *)

First(t) ==
  /\ At(t, "first")
  /\ IF boot THEN Goto(t, "read") /\ UNCHANGED lock
     ELSE /\ lock[look[t].at] = None /\ lock' = [lock EXCEPT ![look[t].at] = t]
          /\ Goto(t, "second")
  /\ UNCHANGED <<client, boot, row, cache, revoking, History>>

Release(t) == lock' = [lock EXCEPT ![look[t].at] = None]

Second(t) ==
  /\ At(t, "second")
  /\ IF boot THEN Goto(t, "read") /\ Release(t)
     ELSE Goto(t, IF client THEN "key" ELSE "client") /\ UNCHANGED lock
  /\ UNCHANGED <<client, boot, row, cache, revoking, History>>

\* The insert raises when another process has inserted the row: the request fails.
BootClient(t) ==
  /\ At(t, "client") /\ client' = TRUE
  /\ IF client THEN End(t) /\ Release(t) ELSE Goto(t, "key") /\ UNCHANGED lock
  /\ UNCHANGED <<boot, row, cache, revoking, History>>

BootKey(t) ==
  /\ At(t, "key") /\ Release(t)
  /\ IF boot THEN End(t) /\ UNCHANGED boot
     ELSE Goto(t, "read") /\ boot' = TRUE
  /\ UNCHANGED <<client, row, cache, revoking, History>>

-----------------------------------------------------------------------------
(* authenticate_api_key_value and authenticate_jwt_value *)

\* mutant: a principal that is used is kept for longer
KeptRenewed(r) == [cache EXCEPT ![r] = TTL]
Kept(r) == cache

\* A principal in the cache is the answer; else the database is asked.
Authenticate(t, r) ==
  /\ At(t, "idle")
  /\ IF cache[r] > 0 THEN Accept("key") /\ cache' = Kept(r) /\ UNCHANGED look
     ELSE /\ look' = [look EXCEPT ![t] = [pc |-> "first", at |-> r, age |-> 0]]
          /\ UNCHANGED <<cache, accepted>>
  /\ UNCHANGED <<client, boot, row, lock, revoking, since, overlap, cleared>>

Valid == row = "live"

Read(t) ==
  /\ At(t, "read")
  /\ IF Valid THEN Goto(t, "fill") ELSE End(t)
  /\ UNCHANGED <<client, boot, row, cache, lock, revoking, History>>

\* The row was read, touch_api_key_used called, and the principal is kept and returned.
Fill(t) ==
  /\ At(t, "fill") /\ End(t) /\ Accept("key")
  /\ cache' = [cache EXCEPT ![look[t].at] = TTL]
  /\ UNCHANGED <<client, boot, row, lock, revoking, since, overlap, cleared>>

\* An access token of the key's client, signed and not expired, whoever issued it and
\* when: it is good as long as the key's row is.
Token ==
  /\ Valid /\ Accept("token")
  /\ UNCHANGED <<client, boot, row, cache, look, lock, revoking, since, overlap, cleared>>

\* The cache is full of other keys and is emptied.
Evict(r) ==
  /\ cache[r] > 0 /\ cache' = [cache EXCEPT ![r] = 0]
  /\ UNCHANGED <<client, boot, row, look, lock, revoking, History>>

-----------------------------------------------------------------------------
(* The portal: a key is created and revoked *)

CreateKey ==
  /\ row = "none" /\ row' = "live"
  /\ UNCHANGED <<client, boot, cache, look, lock, revoking, History>>

Revoke(r) ==
  /\ row = "live" /\ row' = "revoked" /\ revoking' = r
  /\ UNCHANGED <<client, boot, cache, look, lock, History>>

\* mutant: what was cached stays
ClearedNot(r) == cache
Cleared(r) == [cache EXCEPT ![r] = 0]

ClearCache(r) ==
  /\ revoking = r /\ revoking' = None /\ cleared' = r /\ cache' = Cleared(r)
  /\ overlap' = \E t \in Threads : At(t, "fill") /\ look[t].at = r
  /\ UNCHANGED <<client, boot, row, look, lock, since, accepted>>

-----------------------------------------------------------------------------
Tick ==
  /\ \A t \in Threads : look[t].age < MaxLook
  /\ revoking = None /\ since < MaxTime
  /\ cache' = [r \in Replicas |-> IF cache[r] > 0 THEN cache[r] - 1 ELSE 0]
  /\ look' = [t \in Threads |-> IF At(t, "fill") THEN [look[t] EXCEPT !.age = @ + 1] ELSE look[t]]
  /\ since' = IF row = "revoked" THEN since + 1 ELSE since
  /\ UNCHANGED <<client, boot, row, lock, revoking, accepted, overlap, cleared>>

Next ==
  \/ \E t \in Threads :
       \/ First(t) \/ Second(t) \/ BootClient(t) \/ BootKey(t) \/ Read(t) \/ Fill(t)
       \/ \E r \in Replicas : Authenticate(t, r)
  \/ \E r \in Replicas : Evict(r) \/ Revoke(r) \/ ClearCache(r)
  \/ Token \/ CreateKey \/ Tick

Spec == Init /\ [][Next]_vars

-----------------------------------------------------------------------------
(* Properties *)

\* After its revocation a key is accepted for at most the life of a cached principal and
\* one database call, by whichever process, and a token of it not at all.
AcceptedBriefly == accepted["key"] <= TTL + MaxLook /\ accepted["token"] = -1

\* In the process that revoked the key and cleared its cache, the principal is cached
\* again only by a thread that had read the row before.
ClearedForGood == cleared # None /\ cache[cleared] > 0 => overlap

\* A revoked key is refused everywhere after the time that one cached answer lives, and
\* in the process that revoked it at once, but for a lookup that was under way.
RevocationHolds == AcceptedBriefly /\ ClearedForGood
=============================================================================
