------------------------------ MODULE OrderBook ------------------------------
(***************************************************************************)
(* The trading core of the server: the three tables of the database, the   *)
(* lot requests (SELL_USD_REQUEST, BUY_USD_REQUEST) with their matching    *)
(* loop, and CANCEL_REQUEST, as network::execRequest runs them for a user  *)
(* that is already authorized.                                             *)
(*                                                                         *)
(* The server has one thread, so no other handler runs inside a handler.   *)
(* The lot handler commits several transactions, though, and the process   *)
(* can stop between two of them: the handler is split at its commits, and  *)
(* each action below is one committed transaction together with the code   *)
(* around it.  What is lost with the process are pc, lot, done, snap and   *)
(* resps; data, requests and deal_history are the durable state.           *)
(***************************************************************************)
EXTENDS Participants, Integers, Sequences, FiniteSets

CONSTANTS
  Counts,       \* the "usd_count" values of lot requests
  Prices,       \* the "rub_price" values of lot requests
  MaxRequests,  \* bound on the lots ever placed
  MaxInt,       \* largest value of an int and of an SQL integer
  QueryLimit,   \* the LIMIT of the matching query
  NoLot         \* no lot request is being executed

Int32 == (-MaxInt - 1) .. MaxInt

ASSUME BoundsAssumption ==
  /\ MaxRequests \in Nat
  /\ MaxInt \in Nat
  /\ QueryLimit \in Nat \ {0}

ASSUME InputAssumption ==
  /\ Counts \subseteq Int32
  /\ Prices \subseteq Int32

VARIABLES
  data,          \* table data: the balances of each user
  requests,      \* table requests, by id
  deal_history,  \* table deal_history, in the order of its serial id
  server,        \* "up", or why the process stopped
  pc,            \* where the lot handler is: "idle", "while" or "for"
  lot,           \* the lot request being executed
  done,          \* usd_selling or usd_buying
  snap,          \* rows of matching_requests the for loop has still to visit
  resps,         \* new_responses: what the last handler has answered so far
  placed,        \* history: every lot request accepted; its index is the id
  trades,        \* history: every transfer of money that was committed
  cut            \* history: the lots whose handler the process did not finish

dbVars   == <<data, requests, deal_history>>
execVars == <<pc, lot, done, snap, resps>>
histVars == <<placed, trades, cut>>
vars     == <<dbVars, server, execVars, histVars>>

-----------------------------------------------------------------------------
(* Types. *)

Op      == {"sell", "buy"}
Balance == [usd : Int32, rub : Int32]
Row     == [user : Users, op : Op, usd : Int32, price : Int32,
            active : BOOLEAN]
Lot     == [id : Nat, user : Users, op : Op, usd : Int32, price : Int32]
Match   == [id : Nat, user : Users, usd : Int32, price : Int32]
Order   == [user : Users, op : Op, usd : Int32, price : Int32]
Deal    == [buyer : Users, seller : Users, request : Nat, date : Nat]
Trade   == [sell : Nat, buy : Nat, usd : Int32, price : Int32]

SuccessReqResponse(id, to_cancel) ==
  [type |-> "success", lot |-> id, is_to_cancel |-> to_cancel]
BadResponse(text) == [type |-> "bad", message |-> text]
Report(id, usd, price, seller, buyer) ==
  [type |-> "report", lot |-> id, usd |-> usd, price |-> price,
   seller |-> seller, buyer |-> buyer]

Response ==
  [type : {"success"}, lot : Nat, is_to_cancel : BOOLEAN]
    \cup [type : {"bad"},
          message : {"request has already been made",
                     "this request is not available to you"}]
    \cup [type : {"report"}, lot : Nat, usd : Int32, price : Int32,
          seller : Users, buyer : Users]

(* The request ids that deal_history refers to. *)
Settled == {deal_history[i].request : i \in DOMAIN deal_history}

TypeOK ==
  /\ data \in [Users -> Balance]
  /\ requests = [id \in DOMAIN requests |-> requests[id]]
  /\ DOMAIN requests \subseteq DOMAIN placed
  /\ \A id \in DOMAIN requests : requests[id] \in Row
  /\ deal_history \in Seq(Deal)
  /\ server \in {"up", "killed", "out_of_range", "integrity"}
  /\ pc \in {"idle", "while", "for"}
  /\ lot \in Lot \cup {NoLot}
  /\ done \in Int32
  /\ snap \subseteq Match
  /\ resps \in Seq(Response)
  /\ placed \in Seq(Order)
  /\ Len(placed) <= MaxRequests
  /\ trades \subseteq Trade
  /\ cut \subseteq DOMAIN placed

-----------------------------------------------------------------------------
Init ==
  /\ data = [u \in Users |-> [usd |-> 0, rub |-> 0]]
  /\ requests = <<>>
  /\ deal_history = <<>>
  /\ server = "up"
  /\ pc = "idle" /\ lot = NoLot /\ done = 0 /\ snap = {} /\ resps = <<>>
  /\ placed = <<>>
  /\ trades = {}
  /\ cut = {}

(* The outcome of C++ int arithmetic: it wraps on the machines the server  *)
(* is built for.                                                           *)
Wrap(x) == ((x + MaxInt + 1) % (2 * (MaxInt + 1))) - MaxInt - 1

(* An exception of pqxx ends io_context.run() and with it the process; the *)
(* open transaction is rolled back.                                        *)
Stop(why) ==
  /\ server' = why
  /\ pc' = "idle" /\ lot' = NoLot /\ done' = 0 /\ snap' = {} /\ resps' = <<>>
  /\ cut' = IF pc = "idle" THEN cut ELSE cut \cup {lot.id}
  /\ UNCHANGED <<dbVars, placed, trades>>

-----------------------------------------------------------------------------
(* SELL_USD_REQUEST and BUY_USD_REQUEST up to the first commit: the lot is *)
(* stored and acknowledged before anything is matched.                     *)
CreateLot(u, op, n, p) ==
  LET id == Len(placed) + 1 IN
  /\ server = "up" /\ pc = "idle"
  /\ id <= MaxRequests
  /\ requests' = [i \in DOMAIN requests \cup {id} |->
                    IF i = id
                    THEN [user |-> u, op |-> op, usd |-> n, price |-> p,
                          active |-> TRUE]
                    ELSE requests[i]]
  /\ placed' = Append(placed, [user |-> u, op |-> op, usd |-> n, price |-> p])
  /\ lot' = [id |-> id, user |-> u, op |-> op, usd |-> n, price |-> p]
  /\ done' = 0
  /\ pc' = "while"
  /\ resps' = <<SuccessReqResponse(id, FALSE)>>
  /\ UNCHANGED <<data, deal_history, server, snap, trades, cut>>

(* Mutant: the sell branch's comparison copied to the buy branch. *)
AcceptableSellOnly(price) == price >= lot.price

(* The comparison of prices in the WHERE clause of the matching query. *)
Acceptable(price) ==
  IF lot.op = "sell" THEN price >= lot.price ELSE price <= lot.price

Matching == {id \in DOMAIN requests :
               /\ Acceptable(requests[id].price)
               /\ requests[id].op # lot.op
               /\ requests[id].active
               /\ requests[id].user # lot.user}

MatchRow(id) == [id |-> id, user |-> requests[id].user,
                 usd |-> requests[id].usd, price |-> requests[id].price]

(* ORDER BY rub_price DESC LIMIT n: the ids of a result with the highest   *)
(* prices; rows of one price are cut off in any order.                     *)
IsTop(ids) ==
  /\ Cardinality(ids) = IF Cardinality(Matching) < QueryLimit
                        THEN Cardinality(Matching) ELSE QueryLimit
  /\ \A i \in ids : \A j \in Matching \ ids :
       requests[j].price <= requests[i].price

(* The head of the while loop when there is more to do: matching_requests  *)
(* is a copy, the for loop below never reads these rows again.             *)
QueryMatches ==
  /\ pc = "while"
  /\ done # lot.usd
  /\ Matching # {}
  /\ \E ids \in SUBSET Matching :
       /\ IsTop(ids)
       /\ snap' = {MatchRow(id) : id \in ids}
  /\ pc' = "for"
  /\ UNCHANGED <<dbVars, server, lot, done, resps, histVars>>

(* Mutant: the loop ends after the first round that traded. *)
ReturnAfterOneRound ==
  /\ pc = "while"
  /\ done = lot.usd \/ Matching = {} \/ done # 0
  /\ pc' = "idle" /\ lot' = NoLot /\ done' = 0
  /\ UNCHANGED <<dbVars, server, snap, resps, histVars>>

(* Mutant: no break on an empty result. *)
ReturnOnlyWhenDone ==
  /\ pc = "while"
  /\ done = lot.usd
  /\ pc' = "idle" /\ lot' = NoLot /\ done' = 0
  /\ UNCHANGED <<dbVars, server, snap, resps, histVars>>

(* Both breaks of the while loop, and the return of new_responses. *)
ReturnResponses ==
  /\ pc = "while"
  /\ done = lot.usd \/ Matching = {}
  /\ pc' = "idle" /\ lot' = NoLot /\ done' = 0
  /\ UNCHANGED <<dbVars, server, snap, resps, histVars>>

-----------------------------------------------------------------------------
(* The two settlement transactions.  Each yields the table requests it     *)
(* leaves, the requests it enters in deal_history, who pays whom, and the  *)
(* lot and the count that the report names.                                *)

(* Mutant: the UPDATE of usd_count is forgotten. *)
TakeNothing(rows, u, x) == rows

(* UPDATE requests SET usd_count = usd_count - x WHERE user_id = u *)
TakeUsd(rows, u, x) ==
  [id \in DOMAIN rows |->
     IF rows[id].user = u THEN [rows[id] EXCEPT !.usd = @ - x] ELSE rows[id]]

(* Mutant: the UPDATE of active is forgotten. *)
DeactivateNothing(rows, u) == rows

(* UPDATE requests SET active = false WHERE user_id = u *)
Deactivate(rows, u) ==
  [id \in DOMAIN rows |->
     IF rows[id].user = u THEN [rows[id] EXCEPT !.active = FALSE]
     ELSE rows[id]]

closeRequest(id1, id2, usd_buying, rub_price) ==
  LET user_id1 == requests[id1].user
      user_id2 == requests[id2].user
      is_seller_completed == requests[id1].op = "sell"
  IN [rows   |-> Deactivate(TakeUsd(requests, user_id2, usd_buying), user_id1),
      closed |-> <<id1>>,
      seller |-> IF is_seller_completed THEN user_id1 ELSE user_id2,
      buyer  |-> IF is_seller_completed THEN user_id2 ELSE user_id1,
      usd    |-> usd_buying,
      price  |-> rub_price,
      told   |-> usd_buying]

(* Mutant: only the buyer's requests are deactivated. *)
closeTwoWayBuyerOnly(seller_req, buyer_req, seller_id, buyer_id, usd, price) ==
  [rows   |-> Deactivate(requests, requests[buyer_req].user),
   closed |-> <<buyer_req, seller_req>>,
   seller |-> seller_id,
   buyer  |-> buyer_id,
   usd    |-> usd,
   price  |-> price,
   told   |-> requests[buyer_req].usd]

closeTwoWayRequests(seller_req, buyer_req, seller_id, buyer_id, usd, price) ==
  [rows   |-> Deactivate(Deactivate(requests, requests[buyer_req].user),
                         requests[seller_req].user),
   closed |-> <<buyer_req, seller_req>>,
   seller |-> seller_id,
   buyer  |-> buyer_id,
   usd    |-> usd,
   price  |-> price,
   told   |-> requests[buyer_req].usd]

(* The three-way comparison in the for loop. *)
SettlementOf(r) ==
  IF lot.usd > r.usd THEN closeRequest(r.id, lot.id, r.usd, r.price)
  ELSE IF lot.usd < r.usd THEN closeRequest(lot.id, r.id, lot.usd, r.price)
  ELSE IF lot.op = "sell"
  THEN closeTwoWayRequests(lot.id, r.id, lot.user, r.user, lot.usd, r.price)
  ELSE closeTwoWayRequests(r.id, lot.id, r.user, lot.user, lot.usd, r.price)

(* Mutant: the counter as a mathematical integer. *)
DoneAfterUnbounded(r) == IF lot.usd > r.usd THEN done + r.usd ELSE lot.usd

(* usd_selling / usd_buying after the row r. *)
DoneAfter(r) == IF lot.usd > r.usd THEN Wrap(done + r.usd) ELSE lot.usd

(* Mutant: the seller's balance of usd is not reduced. *)
PayKeepsUsd(tx) ==
  LET rub == Wrap(tx.price * tx.usd) IN
  [data EXCEPT
     ![tx.buyer]  = [usd |-> @.usd + tx.usd, rub |-> @.rub - rub],
     ![tx.seller].rub = @ + rub]

(* The four UPDATEs of table data. *)
Pay(tx) ==
  LET rub == Wrap(tx.price * tx.usd) IN
  [data EXCEPT
     ![tx.buyer]  = [usd |-> @.usd + tx.usd, rub |-> @.rub - rub],
     ![tx.seller] = [usd |-> @.usd - tx.usd, rub |-> @.rub + rub]]

(* Mutant: buyer and seller swapped in the INSERT. *)
EnterSwapped(tx) ==
  deal_history \o
    [i \in 1 .. Len(tx.closed) |->
       [buyer |-> tx.seller, seller |-> tx.buyer, request |-> tx.closed[i],
        date |-> Len(deal_history) + 1]]

(* Mutant: both INSERTs name the first request. *)
EnterFirstTwice(tx) ==
  deal_history \o
    [i \in 1 .. Len(tx.closed) |->
       [buyer |-> tx.buyer, seller |-> tx.seller, request |-> tx.closed[1],
        date |-> Len(deal_history) + 1]]

(* The INSERTs into deal_history; NOW() is the same in one transaction. *)
Enter(tx) ==
  deal_history \o
    [i \in 1 .. Len(tx.closed) |->
       [buyer |-> tx.buyer, seller |-> tx.seller, request |-> tx.closed[i],
        date |-> Len(deal_history) + 1]]

(* What the database checks: exec1 finds its rows, the unique index on     *)
(* deal_history (request_id), and the range of every integer column.       *)
IntegrityHolds(r) ==
  /\ {r.id, lot.id} \subseteq DOMAIN requests
  /\ \A i \in DOMAIN SettlementOf(r).closed :
       SettlementOf(r).closed[i] \notin Settled

RangeHolds(tx) ==
  /\ \A id \in DOMAIN tx.rows : tx.rows[id].usd \in Int32
  /\ \A u \in Users : Pay(tx)[u].usd \in Int32 /\ Pay(tx)[u].rub \in Int32

(* The for loop takes the rows by falling price. *)
IsNext(r) ==
  /\ pc = "for"
  /\ r \in snap
  /\ \A q \in snap : q.price <= r.price

(* What is left of the iteration once its transaction is committed. *)
Matched(r, tx) ==
  /\ trades' = trades \cup
       {[sell  |-> IF lot.op = "sell" THEN lot.id ELSE r.id,
         buy   |-> IF lot.op = "sell" THEN r.id ELSE lot.id,
         usd   |-> tx.usd,
         price |-> tx.price]}
  /\ done' = DoneAfter(r)
  /\ snap' = IF done' = lot.usd THEN {} ELSE snap \ {r}
  /\ pc' = IF snap' = {} THEN "while" ELSE "for"
  /\ resps' = Append(resps, Report(tx.closed[1], tx.told, tx.price,
                                   tx.seller, tx.buyer))

(* One iteration of the for loop, up to the commit of its transaction. *)
MatchOne(r) ==
  LET tx == SettlementOf(r) IN
  /\ IsNext(r)
  /\ IntegrityHolds(r)
  /\ RangeHolds(tx)
  /\ requests' = tx.rows
  /\ deal_history' = Enter(tx)
  /\ data' = Pay(tx)
  /\ Matched(r, tx)
  /\ UNCHANGED <<server, lot, placed, cut>>

(* An iteration whose transaction the database refuses. *)
MatchRefused(r) ==
  /\ IsNext(r)
  /\ ~(IntegrityHolds(r) /\ RangeHolds(SettlementOf(r)))
  /\ Stop(IF IntegrityHolds(r) THEN "out_of_range" ELSE "integrity")

-----------------------------------------------------------------------------
(* CANCEL_REQUEST.  A request id without a row yields an empty result,     *)
(* whose first field is null and equal to no user.                         *)
Owns(u, id) == id \in DOMAIN requests /\ requests[id].user = u

Answer(resp) ==
  /\ resps' = <<resp>>
  /\ UNCHANGED <<server, pc, lot, done, snap, histVars>>

(* Mutant: no check that the request is active. *)
CancelDeletesAny(u, id) ==
  /\ server = "up" /\ pc = "idle"
  /\ Owns(u, id)
  /\ IF id \in Settled
     THEN Stop("integrity")
     ELSE /\ requests' = [i \in DOMAIN requests \ {id} |-> requests[i]]
          /\ Answer(SuccessReqResponse(id, TRUE))
          /\ UNCHANGED <<data, deal_history>>

(* The foreign key of deal_history would forbid the DELETE of a request it *)
(* refers to.                                                              *)
CancelDeletes(u, id) ==
  /\ server = "up" /\ pc = "idle"
  /\ Owns(u, id) /\ requests[id].active
  /\ IF id \in Settled
     THEN Stop("integrity")
     ELSE /\ requests' = [i \in DOMAIN requests \ {id} |-> requests[i]]
          /\ Answer(SuccessReqResponse(id, TRUE))
          /\ UNCHANGED <<data, deal_history>>

CancelRefused(u, id) ==
  /\ server = "up" /\ pc = "idle"
  /\ ~(Owns(u, id) /\ requests[id].active)
  /\ Answer(BadResponse(IF Owns(u, id)
                        THEN "request has already been made"
                        ELSE "this request is not available to you"))
  /\ UNCHANGED dbVars

Cancel(u, id) == CancelDeletes(u, id) \/ CancelRefused(u, id)

-----------------------------------------------------------------------------
(* The process dies at any point, and is started again on the same tables. *)
Kill == server = "up" /\ Stop("killed")

Restart ==
  /\ server # "up"
  /\ server' = "up"
  /\ UNCHANGED <<dbVars, execVars, histVars>>

(* The steps of the lot handler once it has stored the lot. *)
Handler ==
  \/ QueryMatches
  \/ ReturnResponses
  \/ \E r \in snap : MatchOne(r) \/ MatchRefused(r)

Next ==
  \/ \E u \in Users, op \in Op, n \in Counts, p \in Prices :
       CreateLot(u, op, n, p)
  \/ Handler
  \/ \E u \in Users, id \in 1 .. MaxRequests : Cancel(u, id)
  \/ Kill
  \/ Restart

Spec == Init /\ [][Next]_vars

(* A handler never yields, so a thread that runs executes it to its end. *)
FairSpec == Spec /\ WF_vars(Handler)

-----------------------------------------------------------------------------
(* The properties. *)

(* INVARIANT.  Every statement that the handlers send finds the rows it    *)
(* needs and violates no constraint of the tables: no request is entered   *)
(* twice in deal_history (its unique index), no request that deal_history  *)
(* refers to is deleted (its foreign key), and closeRequest finds both     *)
(* requests although the rows it was given are an older copy.              *)
IntegrityNeverBroken == server # "integrity"

(* INVARIANT.  A settled request is out of the market for good: its row is *)
(* still there, and of its owner's lots only those placed after it can be  *)
(* active.  So no CANCEL_REQUEST and no later match can reach it.          *)
SettledLeavesMarket ==
  \A id \in Settled :
    /\ id \in DOMAIN requests
    /\ \A other \in DOMAIN requests :
         requests[other].user = requests[id].user /\ requests[other].active
           => other > id

(* INVARIANT.  Every committed transfer is one that both orders allow: a   *)
(* sell order and a buy order of two users, at a price neither below the   *)
(* seller's nor above the buyer's.  The handler settles from rows that it  *)
(* read before its earlier commits.                                        *)
TradeTerms ==
  \A t \in trades :
    /\ {t.sell, t.buy} \subseteq DOMAIN placed
    /\ placed[t.sell].op = "sell" /\ placed[t.buy].op = "buy"
    /\ placed[t.sell].user # placed[t.buy].user
    /\ placed[t.sell].price <= t.price /\ t.price <= placed[t.buy].price

(* INVARIANT.  Each report answered to the client is about a deal that is  *)
(* in deal_history: the request it names is settled, and settled between   *)
(* the seller and the buyer it names.                                      *)
ReportsAreSettled ==
  \A i \in DOMAIN resps :
    resps[i].type = "report" =>
      \E k \in DOMAIN deal_history :
        /\ deal_history[k].request = resps[i].lot
        /\ deal_history[k].seller = resps[i].seller
        /\ deal_history[k].buyer = resps[i].buyer
        /\ placed[resps[i].lot].user \in {resps[i].seller, resps[i].buyer}

(* LIVENESS, under FairSpec.  The while loop of the lot handler ends,      *)
(* although it queries again after every round and may never reach         *)
(* usd_count: each round retires all lots of a counterparty.               *)
HandlerTerminates == (pc # "idle") ~> (pc = "idle")

-----------------------------------------------------------------------------
(* The tables as an Exchange. *)
StateOf(id) ==
  IF id \in Settled THEN "settled"
  ELSE IF id \notin DOMAIN requests THEN "cancelled"
  ELSE IF requests[id].active THEN "live" ELSE "withdrawn"

Usd == [u \in Users |-> data[u].usd]
Rub == [u \in Users |-> data[u].rub]
Lots == [id \in DOMAIN placed |-> [owner |-> placed[id].user,
                                  side |-> placed[id].op,
                                  state |-> StateOf(id)]]

Ex == INSTANCE Exchange WITH
  MaxLots <- MaxRequests, usd <- Usd, rub <- Rub, lots <- Lots

(* REFINEMENT.  Whatever the handlers do, and wherever the process stops,  *)
(* lots and balances change only as Exchange allows.                       *)
ExchangeSpec == Ex!Spec
=============================================================================
