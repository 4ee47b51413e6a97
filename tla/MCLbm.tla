-------------------------------- MODULE MCLbm --------------------------------
(***************************************************************************)
(* Instances of Lbm for TLC.                                               *)
(***************************************************************************)
EXTENDS Lbm

CONSTANTS b1, b2, a1, a2

\* No name has an "l4-" in it.
Plain == [l \in Lb |-> l]

\* The name of b2 does: without it, it is that of b1.
Hidden == [l \in Lb |-> b1]

==============================================================================
