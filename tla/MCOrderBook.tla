----------------------------- MODULE MCOrderBook -----------------------------
(* OrderBook and Quotation for TLC. *)
EXTENDS OrderBookAccounts, Quotation

CONSTANTS u1, u2, u3

ThreeUsers == {u1, u2, u3}

UserSymmetry == Permutations(Users)

(* With MaxInt = 3 an int is in -4 .. 3: at the price 3 every product of   *)
(* two positive numbers below wraps, and so does the sum 2 + 2.            *)
EdgeCounts == {-1, 0, 2, 3}
=============================================================================
