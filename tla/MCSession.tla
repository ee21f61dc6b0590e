----------------------------- MODULE MCSession -----------------------------
(* Session for TLC. *)
EXTENDS Session, TLC

CONSTANTS s1, s2, a, b

TwoSessions == {s1, s2}
TwoUsers    == {a, b}
=============================================================================
