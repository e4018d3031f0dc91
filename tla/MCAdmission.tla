----------------------------- MODULE MCAdmission -----------------------------
(****************************************************************************)
(* Model checking of Admission: three jobs that share, two of which do not  *)
(* fit on one card together, and one that takes both cards and declares no  *)
(* VRAM.                                                                    *)
(****************************************************************************)
EXTENDS Admission

Of(gpus, shared, vram, ram) == [gpus |-> gpus, shared |-> shared, vram |-> vram, ram |-> ram]
MCAsk == <<Of(1, TRUE, 2, 1), Of(1, TRUE, 1, 2), Of(1, TRUE, 2, 0), Of(2, FALSE, 0, 2)>>
Amt(ram, vram) == [ram |-> ram, vram |-> vram]
MCBase    == Amt(1, 0)
MCClaims  == {Amt(2, 1)}
MCForeign == {Nothing, Amt(1, 1)}
=============================================================================
