------------------------------ MODULE MCClient ------------------------------
(* Client for TLC: requests are numbers other than the marks of Client. *)
EXTENDS Client

TwoRequests == {2, 3}
=============================================================================
