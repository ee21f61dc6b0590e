-------------------------- MODULE OrderBookAccounts --------------------------
(***************************************************************************)
(* Properties of OrderBook that add up committed transfers.                *)
(***************************************************************************)
EXTENDS OrderBook, Functions

Bought(u) == {t \in trades : placed[t.buy].user = u}
Sold(u)   == {t \in trades : placed[t.sell].user = u}

UsdOf(ts) == SumFunction([t \in ts |-> t.usd])
RubOf(ts) == SumFunction([t \in ts |-> Wrap(t.usd * t.price)])

(* INVARIANT.  The balances are what the transfers of the orders of each   *)
(* user add up to, at every point where the process can die: no handler    *)
(* leaves one side of a payment without the other.                         *)
BalancesExplained ==
  \A u \in Users :
    /\ data[u].usd = UsdOf(Bought(u)) - UsdOf(Sold(u))
    /\ data[u].rub = RubOf(Sold(u)) - RubOf(Bought(u))

(* The transfers that the handler of lot k itself made. *)
TakenBy(k) == {t \in trades : {t.sell, t.buy} \subseteq 1 .. k
                                /\ k \in {t.sell, t.buy}}

(* INVARIANT.  While the handler runs and its lot is not settled, the      *)
(* count left in the lot's row, the local counter usd_selling/usd_buying   *)
(* and the transfers made agree: the counter wraps as an int, the column   *)
(* would refuse to.                                                        *)
FillAccounting ==
  pc # "idle" /\ lot.id \notin Settled =>
    /\ requests[lot.id].usd = lot.usd - UsdOf(TakenBy(lot.id))
    /\ done = Wrap(UsdOf(TakenBy(lot.id)))

(* INVARIANT.  No match is missed: when the server is idle, a sell and a   *)
(* buy lot of two users that are both active and whose prices meet can     *)
(* only be there because the handler of the later one was cut off by a     *)
(* stop of the process, or had already taken what the lot asked for.       *)
NoMissedMatch ==
  pc = "idle" =>
    \A s, b \in DOMAIN requests :
      /\ requests[s].op = "sell" /\ requests[s].active
      /\ requests[b].op = "buy" /\ requests[b].active
      /\ requests[s].user # requests[b].user
      /\ requests[s].price <= requests[b].price
      => LET k == IF s > b THEN s ELSE b IN
         k \in cut \/ Wrap(UsdOf(TakenBy(k))) = placed[k].usd

-----------------------------------------------------------------------------
(* What the repository says of the lots, and the code does not keep.       *)

(* A lot never trades more than it asks for: test6_get_balance expects the *)
(* seller of 50 usd to stand at -50 after its lot is used up.              *)
NoOverfill ==
  \A k \in DOMAIN placed :
    UsdOf({t \in trades : k \in {t.sell, t.buy}}) <= placed[k].usd

(* A lot whose whole count was traded is not active any more:              *)
(* test5_lot_operations_2 expects every request to be inactive then.       *)
FilledIsInactive ==
  pc = "idle" =>
    \A id \in DOMAIN requests :
      placed[id].usd = UsdOf({t \in trades : id \in {t.sell, t.buy}})
        => ~requests[id].active

(* A request that is no longer active was made, that is, it traded: to     *)
(* CANCEL_REQUEST of such a request the server answers "request has        *)
(* already been made".                                                     *)
InactiveWasMade ==
  \A id \in DOMAIN requests :
    ~requests[id].active => \E t \in trades : id \in {t.sell, t.buy}
=============================================================================
