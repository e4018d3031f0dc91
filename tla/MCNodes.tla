------------------------------ MODULE MCNodes ------------------------------
(****************************************************************************)
(* Model checking of NodeReports: jobs of one and two units for nodes with  *)
(* two units of room.  The large job may go anywhere, the small one is      *)
(* pinned to a node.                                                        *)
(****************************************************************************)
EXTENDS NodeReports

MCSize == [j \in Job |-> IF j = 1 THEN 2 ELSE 1]
MCPin  == [j \in Job |-> IF j = 1 THEN Anywhere ELSE CHOOSE n \in Node : TRUE]
MCRoom == [n \in Node |-> 2]
=============================================================================
