----------------------------- MODULE MCScheduler -----------------------------
(****************************************************************************)
(* Model checking of Scheduler: jobs 1..3 on a machine with two units of    *)
(* RAM, two CPUs and two slots.                                             *)
(****************************************************************************)
EXTENDS Scheduler, TLC

Ask(ram, cpu) == [ax \in Axes |-> IF ax = "ram" THEN ram ELSE cpu]
MCUsable   == Ask(2, 2)
MCRequests == {Ask(2, 1), Ask(1, 1)}

\* One job that needs all the RAM, and small ones that keep coming back.
MCProfile == [j \in Jobs |->
  IF j = 1 THEN [need |-> Ask(2, 1), rank |-> 50] ELSE [need |-> Ask(1, 1), rank |-> 100]]

\* Three small jobs, one of higher priority.
MCSmall == [j \in Jobs |-> [need |-> Ask(1, 1), rank |-> IF j = 1 THEN 50 ELSE 100]]
=============================================================================
