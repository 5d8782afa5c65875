------------------------- MODULE MCSandboxLifecycle -------------------------
(* SandboxLifecycle on small instances.  Worker threads are interchangeable. *)
EXTENDS SandboxLifecycle, TLC

Symmetry == Permutations(Handlers)
=============================================================================
