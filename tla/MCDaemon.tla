------------------------------ MODULE MCDaemon ------------------------------
(****************************************************************************)
(* Model checking of Daemon: one client restarts the dispatcher, the other  *)
(* looks for it, stops it and claims memory for a time.                     *)
(****************************************************************************)
EXTENDS Daemon, TLC

CONSTANTS c1, c2, m1
MCCalls == c1 :> {"restart", "initialize"} @@ c2 :> {"ensure", "claim", "release"}
=============================================================================
