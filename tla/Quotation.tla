----------------------------- MODULE Quotation -----------------------------
(***************************************************************************)
(* UPDATE_REQUEST: the quotation that the server computes from the tables  *)
(* of OrderBook.  The handler only reads, so it is a set of operators, and *)
(* its properties are invariants of OrderBook: they say what an            *)
(* UPDATE_REQUEST would be answered in each state.                         *)
(***************************************************************************)
EXTENDS OrderBook, FiniteSetsExt, SequencesExt

CONSTANT HistoryLimit   \* the LIMIT of both queries

ASSUME HistoryAssumption == HistoryLimit \in Nat \ {0}

(* SELECT * FROM deal_history ORDER BY date DESC LIMIT n: rows of one date *)
(* are cut off in any order, so each of the two queries picks for itself.  *)
Recents ==
  {rows \in SUBSET DOMAIN deal_history :
     /\ Cardinality(rows) = Min({HistoryLimit, Len(deal_history)})
     /\ \A i \in rows : \A j \in DOMAIN deal_history \ rows :
          deal_history[j].date <= deal_history[i].date}

(* The requests whose prices are selected; the query that selects them has *)
(* no ORDER BY of its own, so they come in any order.                      *)
Quoted(rows) ==
  {id \in DOMAIN requests : \E i \in rows : deal_history[i].request = id}

(* The rows whose dates are selected, in the order of their id. *)
dates(rows) == SetToSortSeq(rows, LAMBDA i, j : i < j)

(* The ways to pair a row of deal_history (its date) with a request (its   *)
(* price), index by index.                                                 *)
Quotations ==
  {[k \in DOMAIN order |-> [deal |-> dates(rows)[k], request |-> order[k]]] :
     rows \in Recents,
     order \in UNION {SetToSeqs(Quoted(r)) : r \in Recents}}

(* INVARIANT.  The two queries of UPDATE_REQUEST agree in length, although *)
(* each cuts off its own rows: dates[i] exists for every price, and no     *)
(* recent deal is left out because its request is gone or entered twice.   *)
QuotationComplete ==
  \A r1, r2 \in Recents : Cardinality(Quoted(r1)) = Cardinality(r2)

(* The chart of the client is titled "price / Timestamp": the price and    *)
(* the date of a point are of the same deal.                               *)
PointsAreDeals ==
  \A q \in Quotations : \A k \in DOMAIN q :
    \E j \in DOMAIN deal_history :
      /\ requests[deal_history[j].request].price
           = requests[q[k].request].price
      /\ deal_history[j].date = deal_history[q[k].deal].date
=============================================================================
