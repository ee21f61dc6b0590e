-------------------------------- MODULE Link --------------------------------
(***************************************************************************)
(* What a connection promises to the two ends of one direction of it: what *)
(* one end has asked for reaches the other in that order, nothing twice    *)
(* and nothing invented.  It may stop delivering at any time.              *)
(***************************************************************************)
EXTENDS Integers, Sequences

CONSTANT Messages

VARIABLES
  asked,     \* what was handed over at one end
  delivered  \* what arrived at the other

vars == <<asked, delivered>>

Init == asked = <<>> /\ delivered = <<>>

Ask(m) == asked' = Append(asked, m) /\ UNCHANGED delivered

Deliver ==
  /\ Len(delivered) < Len(asked)
  /\ delivered' = Append(delivered, asked[Len(delivered) + 1])
  /\ UNCHANGED asked

Next == Deliver \/ \E m \in Messages : Ask(m)

Spec == Init /\ [][Next]_vars
=============================================================================
