---------------------------- MODULE MCSettlement ----------------------------
(* Settlement for TLC. *)
EXTENDS Settlement

CONSTANTS u1, u2, u3

ThreeUsers == {u1, u2, u3}
=============================================================================
