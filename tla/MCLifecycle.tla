----------------------------- MODULE MCLifecycle -----------------------------
(****************************************************************************)
(* Model checking of Lifecycle.  The configurations give the sets of jobs   *)
(* and the bounds; the jobs are interchangeable when Preemptible, Observed  *)
(* and Cancelled are all or none of them.                                   *)
(****************************************************************************)
EXTENDS LifecycleInvariants, TLC

JobSymmetry == Permutations(Jobs)
=============================================================================
