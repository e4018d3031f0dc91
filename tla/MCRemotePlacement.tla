-------------------------- MODULE MCRemotePlacement --------------------------
(****************************************************************************)
(* Model checking of RemotePlacement with jobs that may run anywhere.       *)
(****************************************************************************)
EXTENDS RemoteInvariants, TLC

\* No job is pinned.
MCFree == [j \in Job |-> Local]
=============================================================================
