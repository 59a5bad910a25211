-------------------------- MODULE MCStackLifecycle --------------------------
(* Instances of StackLifecycle; each configuration picks its own bounds.   *)
EXTENDS StackLifecycle
=============================================================================
