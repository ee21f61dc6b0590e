------------------------------ MODULE Exchange ------------------------------
(***************************************************************************)
(* What the trading core promises: the life of a lot, and when money moves.*)
(*                                                                         *)
(* A lot is placed "live" and ends "settled" or "cancelled".  Settling a   *)
(* lot also withdraws the other live lots of its owner; a "withdrawn" lot  *)
(* can still be settled, but not cancelled.  Money moves only in a         *)
(* Transfer between two users, which leaves their total as it was and      *)
(* settles a lot of at least one of them.                                  *)
(***************************************************************************)
EXTENDS Integers

CONSTANTS
  Users,
  MaxLots     \* bound on the lots ever placed

VARIABLES
  usd,        \* the usd balance of each user
  rub,        \* the rub balance of each user
  lots        \* every lot ever placed, by id: its owner, side and state

exchangeVars == <<usd, rub, lots>>

Side      == {"sell", "buy"}
LotState  == {"live", "withdrawn", "settled", "cancelled"}

Init ==
  /\ usd = [u \in Users |-> 0]
  /\ rub = [u \in Users |-> 0]
  /\ lots = <<>>

Place(u, side) ==
  \E id \in (1 .. MaxLots) \ DOMAIN lots :
    /\ lots' = [i \in DOMAIN lots \cup {id} |->
                  IF i = id THEN [owner |-> u, side |-> side, state |-> "live"]
                  ELSE lots[i]]
    /\ UNCHANGED <<usd, rub>>

Cancel(id) ==
  /\ lots[id].state = "live"
  /\ lots' = [lots EXCEPT ![id].state = "cancelled"]
  /\ UNCHANGED <<usd, rub>>

(* The lots of one party of a deal: at most one of them is settled, it is  *)
(* of the party's side, and the live ones among the others are withdrawn   *)
(* exactly when one is settled.                                            *)
PartyLots(u, side) ==
  LET mine    == {id \in DOMAIN lots : lots[id].owner = u}
      settled == {id \in mine : lots'[id].state # lots[id].state
                                  /\ lots'[id].state = "settled"}
      Next(id) ==
        IF id \in settled THEN "settled"
        ELSE IF lots[id].state = "live" /\ settled # {} THEN "withdrawn"
        ELSE lots[id].state
  IN /\ \A id \in settled : /\ lots[id].side = side
                            /\ lots[id].state \in {"live", "withdrawn"}
     /\ \A i, j \in settled : i = j
     /\ \A id \in mine : lots'[id] = [lots[id] EXCEPT !.state = Next(id)]

Transfer(seller, buyer) ==
  LET x == usd'[buyer] - usd[buyer]
      y == rub'[seller] - rub[seller]
  IN /\ usd' = [usd EXCEPT ![buyer] = @ + x, ![seller] = @ - x]
     /\ rub' = [rub EXCEPT ![seller] = @ + y, ![buyer] = @ - y]
     /\ \A id \in DOMAIN lots :
          lots[id].owner \notin {seller, buyer} => lots'[id] = lots[id]
     /\ PartyLots(seller, "sell")
     /\ PartyLots(buyer, "buy")

(* A deal settles at least one lot. *)
Deal ==
  /\ DOMAIN lots' = DOMAIN lots
  /\ \E id \in DOMAIN lots : lots[id].state # "settled"
                             /\ lots'[id].state = "settled"
  /\ \E seller, buyer \in Users : seller # buyer /\ Transfer(seller, buyer)

Next ==
  \/ \E u \in Users, side \in Side : Place(u, side)
  \/ \E id \in DOMAIN lots : Cancel(id)
  \/ Deal

Spec == Init /\ [][Next]_exchangeVars
=============================================================================
