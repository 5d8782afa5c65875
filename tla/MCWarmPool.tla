----------------------------- MODULE MCWarmPool -----------------------------
(* WarmPool on small instances.  Ids and clients are interchangeable.       *)
EXTENDS WarmPool, TLC

Symmetry == Permutations(Sandboxes) \cup Permutations(Clients)
=============================================================================
