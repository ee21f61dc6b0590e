------------------------------ MODULE MCBourse ------------------------------
(* Bourse for TLC. *)
EXTENDS Bourse, TLC

CONSTANTS s1, s2, s3, u1, u2

TwoUsers      == {u1, u2}
TwoSessions   == {s1, s2}
ThreeSessions == {s1, s2, s3}

SessionUserSymmetry == Permutations(Sessions) \cup Permutations(Users)
=============================================================================
