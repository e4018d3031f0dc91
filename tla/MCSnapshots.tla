----------------------------- MODULE MCSnapshots -----------------------------
(****************************************************************************)
(* Model checking of Snapshots.  One cleaner: what two of them would do to  *)
(* each other is to repeat a step, which a cleaner that died leads to too.  *)
(****************************************************************************)
EXTENDS Snapshots
=============================================================================
