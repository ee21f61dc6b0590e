--------------------------- MODULE OrderBookProofs ---------------------------
(***************************************************************************)
(* Proofs about OrderBook, for every set of users, counts and prices, every*)
(* number of lots, every width of an int and every LIMIT.                  *)
(***************************************************************************)
EXTENDS OrderBook, TLAPS

(* A row of table requests keeps the terms of the order it stores. *)
RowsAsPlaced ==
  \A id \in DOMAIN requests :
    /\ requests[id].user = placed[id].user
    /\ requests[id].op = placed[id].op
    /\ requests[id].price = placed[id].price

(* The lot being executed has its row, and is not settled before the       *)
(* counter reaches its count.                                              *)
LotInv ==
  /\ pc # "idle" =>
       /\ lot \in Lot
       /\ lot.id \in DOMAIN requests
       /\ requests[lot.id].user = lot.user
       /\ requests[lot.id].op = lot.op
       /\ placed[lot.id].price = lot.price
       /\ lot.id \in Settled => done = lot.usd
  /\ pc = "for" => lot.id \notin Settled

(* A row r of the copy that the for loop walks is still a row of the table,*)
(* and not settled, even if no longer active.                              *)
SnapRow(r) ==
  /\ r.id \in DOMAIN requests
  /\ r.id \notin Settled
  /\ r.user = requests[r.id].user
  /\ r.price = requests[r.id].price
  /\ requests[r.id].op # lot.op
  /\ r.user # lot.user
  /\ Acceptable(r.price)

SnapInv ==
  /\ pc # "for" => snap = {}
  /\ \A r \in snap : SnapRow(r)
  /\ \A q, r \in snap : q.id = r.id => q = r

IInv ==
  /\ TypeOK
  /\ IntegrityNeverBroken
  /\ SettledLeavesMarket
  /\ TradeTerms
  /\ RowsAsPlaced
  /\ LotInv
  /\ SnapInv

-----------------------------------------------------------------------------
(* Lemmas about the operators. *)

(* The wrapped value of an int expression is an int. *)
LEMMA WrapType == \A x \in Int : Wrap(x) \in Int32
  BY BoundsAssumption DEF Wrap, Int32

(* An int is an integer.                                                   *)
LEMMA Int32IsInt == \A x \in Int32 : x \in Int
  BY BoundsAssumption DEF Int32

(* A sequence of one element.                                              *)
LEMMA SingletonSeq ==
  ASSUME NEW S, NEW x \in S
  PROVE  <<x>> \in Seq(S)
  OBVIOUS

(* The messages are members of Response. *)
LEMMA SuccessReqResponseType ==
  ASSUME NEW id \in Nat
  PROVE  /\ SuccessReqResponse(id, FALSE) \in Response
         /\ SuccessReqResponse(id, TRUE) \in Response
  BY DEF SuccessReqResponse, Response

(* Both error messages of CANCEL_REQUEST are members of Response.          *)
LEMMA BadResponseType ==
  ASSUME NEW m \in {"request has already been made",
                    "this request is not available to you"}
  PROVE  BadResponse(m) \in Response
  BY DEF BadResponse, Response

(* A report on a committed deal is a member of Response.                   *)
LEMMA ReportType ==
  ASSUME NEW id \in Nat, NEW x \in Int32, NEW p \in Int32,
         NEW s \in Users, NEW b \in Users
  PROVE  Report(id, x, p, s, b) \in Response
  BY DEF Report, Response

(* What is the same in the table requests that every settlement leaves. *)
LEMMA UpdatesKeepTerms ==
  ASSUME TypeOK, NEW u \in Users, NEW v \in Users, NEW x \in Int
  PROVE  LET rows == Deactivate(TakeUsd(requests, u, x), v) IN
         /\ rows = [id \in DOMAIN requests |-> rows[id]]
         /\ DOMAIN rows = DOMAIN requests
         /\ \A id \in DOMAIN requests :
              /\ rows[id].user = requests[id].user
              /\ rows[id].op = requests[id].op
              /\ rows[id].price = requests[id].price
              /\ rows[id].active <=>
                   requests[id].active /\ requests[id].user # v
              /\ rows[id].usd \in Int32 => rows[id] \in Row
  BY DEF TypeOK, Deactivate, TakeUsd, Row

(* The same for closeTwoWayRequests, which deactivates two users' rows.    *)
LEMMA TwoWayKeepsTerms ==
  ASSUME TypeOK, NEW u \in Users, NEW v \in Users
  PROVE  LET rows == Deactivate(Deactivate(requests, u), v) IN
         /\ rows = [id \in DOMAIN requests |-> rows[id]]
         /\ DOMAIN rows = DOMAIN requests
         /\ \A id \in DOMAIN requests :
              /\ rows[id].user = requests[id].user
              /\ rows[id].op = requests[id].op
              /\ rows[id].price = requests[id].price
              /\ rows[id].active <=>
                   requests[id].active /\ requests[id].user \notin {u, v}
              /\ rows[id] \in Row
  BY DEF TypeOK, Deactivate, Row

-----------------------------------------------------------------------------
(* One iteration of the for loop. *)

(* The requests that a settlement tx closes. *)
Closed(tx) == {tx.closed[k] : k \in DOMAIN tx.closed}

(* What every settlement has in common, whichever of the three comparisons *)
(* of the loop chose it.                                                   *)
Settlement(tx, r) ==
  /\ tx.closed \in {<<r.id>>, <<lot.id>>, <<lot.id, r.id>>, <<r.id, lot.id>>}
  /\ tx.seller = (IF lot.op = "sell" THEN lot.user ELSE r.user)
  /\ tx.buyer = (IF lot.op = "sell" THEN r.user ELSE lot.user)
  /\ tx.usd \in Int32 /\ tx.price = r.price /\ tx.told \in Int32
  /\ tx.rows = [id \in DOMAIN requests |-> tx.rows[id]]
  /\ \A id \in DOMAIN requests :
       /\ tx.rows[id].user = requests[id].user
       /\ tx.rows[id].op = requests[id].op
       /\ tx.rows[id].price = requests[id].price
       /\ tx.rows[id].active <=>
            /\ requests[id].active
            /\ \A c \in Closed(tx) : requests[id].user # requests[c].user
       /\ tx.rows[id].usd \in Int32 => tx.rows[id] \in Row
  /\ lot.id \in Closed(tx) => DoneAfter(r) = lot.usd

(* What the for loop may rely on whichever branch it takes.                *)
LEMMA SettlementFacts ==
  ASSUME IInv, NEW r \in snap, pc = "for"
  PROVE  /\ Settlement(SettlementOf(r), r)
         /\ r \in Match /\ lot \in Lot
         /\ lot.id \in DOMAIN requests /\ lot.id \notin Settled
         /\ lot.id # r.id
<1>1. /\ r \in Match /\ lot \in Lot
      /\ lot.id \in DOMAIN requests /\ lot.id \notin Settled
      /\ requests[lot.id].user = lot.user /\ requests[lot.id].op = lot.op
      /\ SnapRow(r)
  BY DEF IInv, TypeOK, LotInv, SnapInv
<1>2. lot.id # r.id /\ r.id \in DOMAIN requests
      /\ requests[r.id].user = r.user /\ r.user # lot.user
      /\ requests[r.id].op = (IF lot.op = "sell" THEN "buy" ELSE "sell")
  BY <1>1 DEF SnapRow, IInv, TypeOK, Row, Lot, Op
<1>3. /\ r.user \in Users /\ lot.user \in Users
      /\ r.usd \in Int32 /\ lot.usd \in Int32 /\ r.usd \in Int /\ lot.usd \in Int
      /\ lot.op \in Op
      /\ requests[lot.id].usd \in Int32 /\ requests[r.id].usd \in Int32
  BY <1>1, <1>2, Int32IsInt DEF Match, Lot, IInv, TypeOK, Row
<1>4. CASE lot.usd > r.usd
  <2> DEFINE tx == closeRequest(r.id, lot.id, r.usd, r.price)
  <2>1. SettlementOf(r) = tx
    BY <1>4 DEF SettlementOf
  <2>2. /\ tx.rows = Deactivate(TakeUsd(requests, lot.user, r.usd), r.user)
        /\ tx.closed = <<r.id>> /\ tx.usd = r.usd /\ tx.price = r.price
        /\ tx.told = r.usd
    BY <1>1, <1>2 DEF closeRequest
  <2>3. /\ tx.seller = (IF lot.op = "sell" THEN lot.user ELSE r.user)
        /\ tx.buyer = (IF lot.op = "sell" THEN r.user ELSE lot.user)
    BY <1>1, <1>2, <1>3 DEF closeRequest, Op
  <2>4. Closed(tx) = {r.id}
    BY <2>2 DEF Closed
  <2> HIDE DEF tx
  <2>5. Settlement(tx, r)
    BY <1>1, <1>2, <1>3, <2>2, <2>3, <2>4, UpdatesKeepTerms DEF Settlement, IInv
  <2> QED BY <1>1, <1>2, <2>1, <2>5
<1>5. CASE lot.usd < r.usd
  <2> DEFINE tx == closeRequest(lot.id, r.id, lot.usd, r.price)
  <2>1. SettlementOf(r) = tx
    BY <1>3, <1>5 DEF SettlementOf
  <2>2. /\ tx.rows = Deactivate(TakeUsd(requests, r.user, lot.usd), lot.user)
        /\ tx.closed = <<lot.id>> /\ tx.usd = lot.usd /\ tx.price = r.price
        /\ tx.told = lot.usd
    BY <1>1, <1>2 DEF closeRequest
  <2>3. /\ tx.seller = (IF lot.op = "sell" THEN lot.user ELSE r.user)
        /\ tx.buyer = (IF lot.op = "sell" THEN r.user ELSE lot.user)
    BY <1>1, <1>2, <1>3 DEF closeRequest, Op
  <2>4. Closed(tx) = {lot.id} /\ DoneAfter(r) = lot.usd
    BY <1>3, <1>5, <2>2 DEF Closed, DoneAfter
  <2> HIDE DEF tx
  <2>5. Settlement(tx, r)
    BY <1>1, <1>2, <1>3, <2>2, <2>3, <2>4, UpdatesKeepTerms DEF Settlement, IInv
  <2> QED BY <1>1, <1>2, <2>1, <2>5
<1>6. CASE lot.usd = r.usd
  <2> DEFINE tx == SettlementOf(r)
  <2>1. tx = IF lot.op = "sell"
             THEN closeTwoWayRequests(lot.id, r.id, lot.user, r.user, lot.usd,
                                      r.price)
             ELSE closeTwoWayRequests(r.id, lot.id, r.user, lot.user, lot.usd,
                                      r.price)
    BY <1>3, <1>6 DEF SettlementOf
  <2>2. /\ tx.usd = lot.usd /\ tx.price = r.price
        /\ tx.told \in {requests[lot.id].usd, requests[r.id].usd}
        /\ tx.closed \in {<<lot.id, r.id>>, <<r.id, lot.id>>}
        /\ tx.rows \in {Deactivate(Deactivate(requests, lot.user), r.user),
                        Deactivate(Deactivate(requests, r.user), lot.user)}
        /\ tx.seller = (IF lot.op = "sell" THEN lot.user ELSE r.user)
        /\ tx.buyer = (IF lot.op = "sell" THEN r.user ELSE lot.user)
    BY <1>1, <1>2, <2>1 DEF closeTwoWayRequests
  <2>3. Closed(tx) = {lot.id, r.id} /\ DoneAfter(r) = lot.usd
    BY <1>3, <1>6, <2>2 DEF Closed, DoneAfter
  <2> HIDE DEF tx
  <2>4. Settlement(tx, r)
    BY <1>1, <1>2, <1>3, <2>2, <2>3, TwoWayKeepsTerms DEF Settlement, IInv
  <2> QED BY <1>1, <1>2, <2>4 DEF tx
<1> QED BY <1>3, <1>4, <1>5, <1>6

(* The rows that the loop walks, although older than the last commit, can  *)
(* all be settled: both requests are there and neither is in deal_history. *)
LEMMA SettlesInIntegrity ==
  ASSUME IInv, NEW r \in snap, pc = "for"
  PROVE  IntegrityHolds(r)
<1>1. /\ Settlement(SettlementOf(r), r) /\ SnapRow(r)
      /\ lot.id \in DOMAIN requests /\ lot.id \notin Settled
  BY SettlementFacts DEF IInv, SnapInv
<1>2. \A i \in DOMAIN SettlementOf(r).closed :
        SettlementOf(r).closed[i] \in {r.id, lot.id}
  BY <1>1 DEF Settlement
<1> QED BY <1>1, <1>2 DEF IntegrityHolds, SnapRow

(* The rows that a transaction enters in deal_history. *)
LEMMA EnterFacts ==
  ASSUME IInv, NEW r \in snap, pc = "for",
         deal_history' = Enter(SettlementOf(r))
  PROVE  /\ deal_history' \in Seq(Deal)
         /\ Settled' = Settled \cup Closed(SettlementOf(r))
         /\ \A i \in DOMAIN deal_history :
              /\ i \in DOMAIN deal_history'
              /\ deal_history'[i] = deal_history[i]
         /\ \E k \in DOMAIN deal_history' :
              /\ deal_history'[k].request = SettlementOf(r).closed[1]
              /\ deal_history'[k].seller = SettlementOf(r).seller
              /\ deal_history'[k].buyer = SettlementOf(r).buyer
<1> DEFINE tx == SettlementOf(r)
           new == [i \in 1 .. Len(tx.closed) |->
                     [buyer |-> tx.buyer, seller |-> tx.seller,
                      request |-> tx.closed[i],
                      date |-> Len(deal_history) + 1]]
<1>1. Settlement(tx, r) /\ r \in Match /\ lot \in Lot
  BY SettlementFacts
<1>3. deal_history' = deal_history \o new
  BY DEF Enter
<1> HIDE DEF tx
<1>2. /\ tx.closed \in Seq(Nat) /\ DOMAIN tx.closed = 1 .. Len(tx.closed)
      /\ tx.buyer \in Users /\ tx.seller \in Users
      /\ deal_history \in Seq(Deal)
  <2>1. r.id \in Nat /\ lot.id \in Nat /\ r.user \in Users /\ lot.user \in Users
    BY <1>1 DEF Match, Lot
  <2>2. tx.closed \in Seq(Nat)
    <3>1. /\ <<r.id>> \in Seq(Nat) /\ <<lot.id>> \in Seq(Nat)
          /\ <<lot.id, r.id>> \in Seq(Nat) /\ <<r.id, lot.id>> \in Seq(Nat)
      BY <2>1
    <3>2. tx.closed \in {<<r.id>>, <<lot.id>>, <<lot.id, r.id>>,
                         <<r.id, lot.id>>}
      BY <1>1 DEF Settlement
    <3> QED BY <3>1, <3>2
  <2>3. tx.buyer \in Users /\ tx.seller \in Users
    BY <1>1, <2>1 DEF Settlement
  <2> QED BY <2>2, <2>3 DEF IInv, TypeOK
<1>4. /\ new \in Seq(Deal) /\ Len(new) = Len(tx.closed)
      /\ \A i \in 1 .. Len(tx.closed) : new[i].request = tx.closed[i]
  BY <1>2 DEF Deal
<1>11. \A i \in 1 .. Len(tx.closed) :
         new[i].seller = tx.seller /\ new[i].buyer = tx.buyer
  BY <1>2
<1> HIDE DEF new
<1>5. /\ deal_history' \in Seq(Deal)
      /\ Len(deal_history') = Len(deal_history) + Len(new)
      /\ \A i \in 1 .. Len(deal_history) : deal_history'[i] = deal_history[i]
      /\ \A i \in 1 .. Len(new) :
           deal_history'[Len(deal_history) + i] = new[i]
  BY <1>2, <1>3, <1>4
<1>6. ASSUME NEW x \in Settled' PROVE x \in Settled \cup Closed(tx)
  <2>1. PICK i \in 1 .. Len(deal_history') : x = deal_history'[i].request
    BY <1>5 DEF Settled
  <2>2. CASE i <= Len(deal_history)
    BY <1>2, <1>5, <2>1, <2>2 DEF Settled
  <2>3. CASE i > Len(deal_history)
    <3>1. i - Len(deal_history) \in 1 .. Len(new)
          /\ i = Len(deal_history) + (i - Len(deal_history))
      BY <1>2, <1>4, <1>5, <2>1, <2>3
    <3>2. x = tx.closed[i - Len(deal_history)]
      BY <1>4, <1>5, <2>1, <3>1
    <3> QED BY <1>2, <1>4, <3>1, <3>2 DEF Closed
  <2> QED BY <1>2, <1>5, <2>1, <2>2, <2>3
<1>7. ASSUME NEW x \in Settled PROVE x \in Settled'
  <2>1. PICK i \in 1 .. Len(deal_history) : x = deal_history[i].request
    BY <1>2 DEF Settled
  <2>2. i \in DOMAIN deal_history' /\ deal_history'[i].request = x
    BY <1>2, <1>4, <1>5, <2>1
  <2> QED BY <2>2 DEF Settled
<1>8. ASSUME NEW x \in Closed(tx) PROVE x \in Settled'
  <2>1. PICK k \in 1 .. Len(tx.closed) : x = tx.closed[k]
    BY <1>2 DEF Closed
  <2>2. Len(deal_history) + k \in DOMAIN deal_history'
        /\ deal_history'[Len(deal_history) + k].request = x
    BY <1>2, <1>4, <1>5, <2>1
  <2> QED BY <2>2 DEF Settled
<1>9. \A i \in DOMAIN deal_history : /\ i \in DOMAIN deal_history'
                                     /\ deal_history'[i] = deal_history[i]
  <2>1. Len(new) \in Nat /\ Len(deal_history) \in Nat
    BY <1>2, <1>4
  <2>2. /\ DOMAIN deal_history = 1 .. Len(deal_history)
        /\ DOMAIN deal_history' = 1 .. Len(deal_history')
    BY <1>2, <1>5
  <2>3. \A i \in 1 .. Len(deal_history) : i \in 1 .. Len(deal_history')
    BY <1>5, <2>1
  <2> QED BY <1>5, <2>2, <2>3
<1>10. \E k \in DOMAIN deal_history' :
         /\ deal_history'[k].request = tx.closed[1]
         /\ deal_history'[k].seller = tx.seller
         /\ deal_history'[k].buyer = tx.buyer
  <2>1. 1 \in 1 .. Len(tx.closed)
    BY <1>1 DEF Settlement
  <2>2. /\ Len(deal_history) + 1 \in DOMAIN deal_history'
        /\ deal_history'[Len(deal_history) + 1] = new[1]
    BY <1>2, <1>4, <1>5, <2>1
  <2>3. /\ new[1].request = tx.closed[1]
        /\ new[1].seller = tx.seller /\ new[1].buyer = tx.buyer
    BY <1>4, <1>11, <2>1
  <2> QED BY <2>2, <2>3
<1> QED BY <1>5, <1>6, <1>7, <1>8, <1>9, <1>10 DEF tx

-----------------------------------------------------------------------------
(* Each action preserves the invariant. *)

(* The invariant holds when the server starts on empty tables.             *)
LEMMA InitInv == Init => IInv
  BY BoundsAssumption DEF Init, IInv, TypeOK, IntegrityNeverBroken,
     SettledLeavesMarket, Settled, TradeTerms, RowsAsPlaced, LotInv, SnapInv,
     Int32, Balance

(* The steps that end or skip the handler and write no table. *)
LEMMA StopInv ==
  ASSUME IInv, NEW why \in {"killed", "out_of_range"}, Stop(why)
  PROVE  IInv'
<1> USE DEF Stop, dbVars
<1>1. TypeOK'
  <2>1. cut' \subseteq DOMAIN placed
    BY DEF IInv, TypeOK, LotInv
  <2> QED BY <2>1, BoundsAssumption DEF IInv, TypeOK, Int32
<1>2. IntegrityNeverBroken'
  BY DEF IntegrityNeverBroken
<1>3. SettledLeavesMarket' /\ TradeTerms' /\ RowsAsPlaced'
  BY DEF IInv, SettledLeavesMarket, Settled, TradeTerms, RowsAsPlaced
<1>4. LotInv' /\ SnapInv'
  BY DEF LotInv, SnapInv
<1> QED BY <1>1, <1>2, <1>3, <1>4 DEF IInv

(* Storing a new lot preserves the invariant.                              *)
LEMMA CreateLotInv ==
  ASSUME IInv, NEW u \in Users, NEW op \in Op, NEW n \in Counts,
         NEW p \in Prices, CreateLot(u, op, n, p)
  PROVE  IInv'
<1> DEFINE id == Len(placed) + 1
<1>1. /\ placed \in Seq(Order) /\ id \in Nat /\ id \notin DOMAIN placed
      /\ DOMAIN requests \subseteq DOMAIN placed
      /\ \A i \in DOMAIN placed : i \in Nat /\ i < id
      /\ n \in Int32 /\ p \in Int32 /\ 0 \in Int32
  BY BoundsAssumption, InputAssumption DEF IInv, TypeOK, Int32
<1>2. /\ id <= MaxRequests
      /\ placed' = Append(placed, [user |-> u, op |-> op, usd |-> n,
                                   price |-> p])
      /\ requests' = [i \in DOMAIN requests \cup {id} |->
                       IF i = id
                       THEN [user |-> u, op |-> op, usd |-> n, price |-> p,
                             active |-> TRUE]
                       ELSE requests[i]]
      /\ lot' = [id |-> id, user |-> u, op |-> op, usd |-> n, price |-> p]
      /\ pc = "idle" /\ pc' = "while" /\ done' = 0
      /\ resps' = <<SuccessReqResponse(id, FALSE)>>
      /\ UNCHANGED <<data, deal_history, server, snap, trades, cut>>
  BY DEF CreateLot
<1> HIDE DEF id
<1>3. /\ DOMAIN placed' = DOMAIN placed \cup {id}
      /\ placed' \in Seq(Order) /\ Len(placed') = id
      /\ placed'[id] = [user |-> u, op |-> op, usd |-> n, price |-> p]
      /\ \A i \in DOMAIN placed : placed'[i] = placed[i]
  BY <1>1, <1>2 DEF Order, id
<1>4. /\ DOMAIN requests' = DOMAIN requests \cup {id}
      /\ requests'[id] = [user |-> u, op |-> op, usd |-> n, price |-> p,
                          active |-> TRUE]
      /\ \A i \in DOMAIN requests : requests'[i] = requests[i]
      /\ Settled' = Settled /\ id \notin Settled
      /\ Settled \subseteq DOMAIN requests
  BY <1>1, <1>2 DEF Settled, IInv, SettledLeavesMarket
<1>5. TypeOK'
  <2>1. \A i \in DOMAIN requests' : requests'[i] \in Row
    BY <1>1, <1>2, <1>4 DEF IInv, TypeOK, Row
  <2>2. requests' = [i \in DOMAIN requests' |-> requests'[i]]
    BY <1>2, <1>4
  <2>3. lot' \in Lot
    BY <1>1, <1>2 DEF Lot
  <2>4. resps' \in Seq(Response)
    <3>1. SuccessReqResponse(id, FALSE) \in Response
      BY <1>1, SuccessReqResponseType
    <3> QED BY <1>2, <3>1, SingletonSeq
  <2> QED BY <1>1, <1>2, <1>3, <1>4, <2>1, <2>2, <2>3, <2>4 DEF IInv, TypeOK
<1>6. IntegrityNeverBroken'
  BY <1>2 DEF IInv, IntegrityNeverBroken
<1>7. SettledLeavesMarket'
  BY <1>1, <1>2, <1>4 DEF IInv, SettledLeavesMarket
<1>8. TradeTerms'
  BY <1>1, <1>2, <1>3 DEF IInv, TradeTerms
<1>9. RowsAsPlaced'
  BY <1>1, <1>2, <1>3, <1>4 DEF IInv, RowsAsPlaced
<1>10. LotInv'
  BY <1>1, <1>2, <1>3, <1>4 DEF LotInv, Lot
<1>11. SnapInv'
  BY <1>2 DEF IInv, SnapInv
<1> QED BY <1>5, <1>6, <1>7, <1>8, <1>9, <1>10, <1>11 DEF IInv

(* The result of the matching query satisfies SnapInv.                     *)
LEMMA QueryMatchesInv == IInv /\ QueryMatches => IInv'
<1> SUFFICES ASSUME IInv, QueryMatches PROVE IInv'
  OBVIOUS
<1>1. /\ pc = "while" /\ pc' = "for" /\ done # lot.usd
      /\ UNCHANGED <<data, requests, deal_history, server, lot, done, resps,
                     placed, trades, cut>>
  BY DEF QueryMatches, dbVars, histVars
<1>2. PICK ids \in SUBSET Matching : snap' = {MatchRow(id) : id \in ids}
  BY DEF QueryMatches
<1>3. \A r \in snap' : /\ r.id \in Matching /\ r = MatchRow(r.id)
                       /\ r.id \in Nat
  BY <1>2 DEF MatchRow, Matching, IInv, TypeOK
<1>4. Settled' = Settled
  BY <1>1 DEF Settled
<1>5. TypeOK'
  <2>1. snap' \subseteq Match
    BY <1>3 DEF IInv, TypeOK, Matching, MatchRow, Match, Row
  <2> QED BY <1>1, <2>1 DEF IInv, TypeOK
<1>6. IntegrityNeverBroken' /\ SettledLeavesMarket' /\ TradeTerms'
      /\ RowsAsPlaced'
  BY <1>1, <1>4 DEF IInv, IntegrityNeverBroken, SettledLeavesMarket, TradeTerms,
     RowsAsPlaced
<1>7. LotInv'
  BY <1>1, <1>4 DEF IInv, LotInv
<1>8. SnapInv'
  <2>1. \A r \in snap' : SnapRow(r)'
    <3> SUFFICES ASSUME NEW r \in snap' PROVE SnapRow(r)'
      OBVIOUS
    <3>1. /\ r.id \in DOMAIN requests /\ requests[r.id].active
          /\ requests[r.id].op # lot.op /\ requests[r.id].user # lot.user
          /\ Acceptable(requests[r.id].price) /\ r.id \in Nat
          /\ r.user = requests[r.id].user /\ r.price = requests[r.id].price
      BY <1>3 DEF Matching, MatchRow
    <3>2. r.id \notin Settled
      BY <3>1 DEF IInv, SettledLeavesMarket
    <3> QED BY <1>1, <1>4, <3>1, <3>2 DEF SnapRow, Acceptable
  <2>2. \A q, r \in snap' : q.id = r.id => q = r
    BY <1>3
  <2> QED BY <1>1, <2>1, <2>2 DEF SnapInv
<1> QED BY <1>5, <1>6, <1>7, <1>8 DEF IInv

(* The end of the lot handler preserves the invariant.                     *)
LEMMA ReturnResponsesInv == IInv /\ ReturnResponses => IInv'
<1> SUFFICES ASSUME IInv, ReturnResponses PROVE IInv'
  OBVIOUS
<1>1. /\ pc = "while" /\ pc' = "idle" /\ lot' = NoLot /\ done' = 0
      /\ UNCHANGED <<data, requests, deal_history, server, snap, resps,
                     placed, trades, cut>>
  BY DEF ReturnResponses, dbVars, histVars
<1>2. TypeOK'
  BY <1>1, BoundsAssumption DEF IInv, TypeOK, Int32
<1>3. IntegrityNeverBroken' /\ SettledLeavesMarket' /\ TradeTerms'
      /\ RowsAsPlaced' /\ LotInv' /\ SnapInv'
  BY <1>1 DEF IInv, IntegrityNeverBroken, SettledLeavesMarket, Settled,
     TradeTerms, RowsAsPlaced, LotInv, SnapInv
<1> QED BY <1>2, <1>3 DEF IInv

(* One committed iteration of the for loop preserves the invariant.        *)
LEMMA MatchOneInv ==
  ASSUME IInv, NEW r \in snap, MatchOne(r)
  PROVE  IInv'
<1> DEFINE tx == SettlementOf(r)
           trade == [sell  |-> IF lot.op = "sell" THEN lot.id ELSE r.id,
                     buy   |-> IF lot.op = "sell" THEN r.id ELSE lot.id,
                     usd   |-> tx.usd,
                     price |-> tx.price]
<1>1. /\ pc = "for"
      /\ requests' = tx.rows /\ deal_history' = Enter(tx) /\ data' = Pay(tx)
      /\ RangeHolds(tx)
      /\ trades' = trades \cup {trade}
      /\ done' = DoneAfter(r)
      /\ snap' = IF done' = lot.usd THEN {} ELSE snap \ {r}
      /\ pc' = IF snap' = {} THEN "while" ELSE "for"
      /\ resps' = Append(resps, Report(tx.closed[1], tx.told, tx.price,
                                       tx.seller, tx.buyer))
      /\ UNCHANGED <<server, lot, placed, cut>>
  BY DEF MatchOne, Matched, IsNext
<1>2. /\ Settlement(tx, r)
      /\ r \in Match /\ lot \in Lot
      /\ lot.id \in DOMAIN requests /\ lot.id \notin Settled /\ lot.id # r.id
  BY <1>1, SettlementFacts
<1>3. SnapRow(r)
  BY DEF IInv, SnapInv
<1>4. /\ deal_history' \in Seq(Deal)
      /\ Settled' = Settled \cup Closed(tx)
  BY <1>1, EnterFacts
<1> HIDE DEF tx, trade
<1>5. /\ DOMAIN requests' = DOMAIN requests
      /\ \A id \in DOMAIN requests :
           /\ requests'[id].user = requests[id].user
           /\ requests'[id].op = requests[id].op
           /\ requests'[id].price = requests[id].price
           /\ requests'[id].active <=>
                /\ requests[id].active
                /\ \A c \in Closed(tx) : requests[id].user # requests[c].user
  BY <1>1, <1>2 DEF Settlement
<1>6. /\ Closed(tx) \subseteq {r.id, lot.id}
      /\ tx.closed[1] \in {r.id, lot.id}
      /\ lot.id \in Closed(tx) => done' = lot.usd
  BY <1>1, <1>2 DEF Settlement, Closed
<1>7. TypeOK'
  <2>1. data' \in [Users -> Balance]
    <3>1. tx.buyer \in Users /\ tx.seller \in Users
      BY <1>2 DEF Settlement, Match, Lot
    <3>2. \A u \in Users : /\ Pay(tx)[u].usd \in Int32
                           /\ Pay(tx)[u].rub \in Int32
      BY <1>1 DEF RangeHolds
    <3>3. data \in [Users -> Balance]
      BY DEF IInv, TypeOK
    <3>4. /\ Pay(tx) = [u \in Users |-> Pay(tx)[u]]
          /\ \A u \in Users : Pay(tx)[u] = [usd |-> Pay(tx)[u].usd,
                                            rub |-> Pay(tx)[u].rub]
      BY <3>1, <3>3 DEF Pay, Balance
    <3> HIDE DEF Pay
    <3> QED BY <1>1, <3>2, <3>4 DEF Balance
  <2>2. /\ requests' = [id \in DOMAIN requests' |-> requests'[id]]
        /\ \A id \in DOMAIN requests' : requests'[id] \in Row
    BY <1>1, <1>2, <1>5 DEF Settlement, RangeHolds
  <2>3. done' \in Int32
    BY <1>1, <1>2, WrapType, Int32IsInt DEF DoneAfter, IInv, TypeOK, Match, Lot
  <2>4. resps' \in Seq(Response)
    <3>1. Report(tx.closed[1], tx.told, tx.price, tx.seller, tx.buyer)
            \in Response
      <4>1. tx.closed[1] \in Nat
        BY <1>2, <1>6 DEF Match, Lot
      <4>2. tx.told \in Int32 /\ tx.price \in Int32
        BY <1>2 DEF Settlement, Match
      <4>3. tx.seller \in Users /\ tx.buyer \in Users
        BY <1>2 DEF Settlement, Match, Lot
      <4> QED BY <4>1, <4>2, <4>3, ReportType
    <3> QED BY <1>1, <3>1 DEF IInv, TypeOK
  <2>5. trade \in Trade
    BY <1>2 DEF trade, Trade, Settlement, Match, Lot
  <2>6. snap' \subseteq Match /\ pc' \in {"idle", "while", "for"}
    BY <1>1 DEF IInv, TypeOK
  <2> QED BY <1>1, <1>4, <1>5, <2>1, <2>2, <2>3, <2>4, <2>5, <2>6
          DEF IInv, TypeOK
<1>8. IntegrityNeverBroken'
  BY <1>1 DEF IInv, IntegrityNeverBroken
<1>9. SettledLeavesMarket'
  BY <1>2, <1>3, <1>4, <1>5, <1>6 DEF IInv, SettledLeavesMarket, SnapRow
<1>10. TradeTerms'
  <2>1. /\ {trade.sell, trade.buy} \subseteq DOMAIN placed
        /\ placed[trade.sell].op = "sell" /\ placed[trade.buy].op = "buy"
        /\ placed[trade.sell].user # placed[trade.buy].user
        /\ placed[trade.sell].price <= trade.price
        /\ trade.price <= placed[trade.buy].price
    <3>1. /\ r.id \in DOMAIN requests /\ r.user # lot.user
          /\ placed[r.id].user = r.user /\ placed[r.id].price = r.price
          /\ placed[r.id].op \in Op /\ placed[r.id].op # lot.op
          /\ Acceptable(r.price)
      BY <1>3 DEF SnapRow, IInv, RowsAsPlaced, TypeOK, Row
    <3>2. /\ placed[lot.id].user = lot.user /\ placed[lot.id].op = lot.op
          /\ placed[lot.id].price = lot.price /\ lot.op \in Op
      BY <1>1, <1>2 DEF IInv, LotInv, RowsAsPlaced, Lot
    <3>3. /\ tx.price = r.price /\ r.price \in Int /\ lot.price \in Int
          /\ DOMAIN requests \subseteq DOMAIN placed
      BY <1>2, Int32IsInt DEF Settlement, Match, Lot, IInv, TypeOK
    <3> QED BY <1>2, <3>1, <3>2, <3>3 DEF trade, Acceptable, Op
  <2> QED BY <1>1, <2>1 DEF IInv, TradeTerms
<1>11. RowsAsPlaced'
  BY <1>1, <1>5 DEF IInv, RowsAsPlaced
<1>12. LotInv'
  <2>1. pc' = "for" => done' # lot.usd
    BY <1>1
  <2> QED BY <1>1, <1>2, <1>4, <1>5, <1>6, <2>1 DEF IInv, LotInv
<1>13. SnapInv'
  <2>1. ASSUME NEW q \in snap' PROVE SnapRow(q)'
    <3>1. q \in snap /\ q # r /\ done' # lot.usd
      BY <1>1
    <3>2. SnapRow(q) /\ q.id # r.id
      BY <3>1 DEF IInv, SnapInv
    <3>3. q.id \notin Settled'
      BY <1>2, <1>4, <1>6, <3>1, <3>2 DEF SnapRow
    <3> QED BY <1>1, <1>5, <3>2, <3>3 DEF SnapRow, Acceptable
  <2>2. \A p, q \in snap' : p.id = q.id => p = q
    BY <1>1 DEF IInv, SnapInv
  <2>3. pc' # "for" => snap' = {}
    BY <1>1
  <2> QED BY <2>1, <2>2, <2>3 DEF SnapInv
<1> QED BY <1>7, <1>8, <1>9, <1>10, <1>11, <1>12, <1>13 DEF IInv

(* The database refuses a transaction of the loop only for its range. *)
LEMMA MatchRefusedInv ==
  ASSUME IInv, NEW r \in snap, MatchRefused(r)
  PROVE  IInv'
<1>1. pc = "for"
  BY DEF MatchRefused, IsNext
<1>2. IntegrityHolds(r)
  BY <1>1, SettlesInIntegrity
<1>3. Stop("out_of_range")
  BY <1>2 DEF MatchRefused
<1> QED BY <1>3, StopInv

(* CANCEL_REQUEST preserves the invariant.                                 *)
LEMMA CancelInv ==
  ASSUME IInv, NEW u \in Users, NEW id \in 1 .. MaxRequests, Cancel(u, id)
  PROVE  IInv'
<1> USE DEF Answer, histVars, dbVars
<1>1. CASE CancelDeletes(u, id)
  <2>1. /\ pc = "idle" /\ id \in DOMAIN requests /\ id \notin Settled
    BY <1>1 DEF CancelDeletes, Owns, IInv, SettledLeavesMarket
  <2>2. /\ requests' = [i \in DOMAIN requests \ {id} |-> requests[i]]
        /\ resps' = <<SuccessReqResponse(id, TRUE)>>
        /\ UNCHANGED <<data, deal_history, server, pc, lot, done, snap, placed,
                       trades, cut>>
    BY <1>1, <2>1 DEF CancelDeletes
  <2>3. /\ DOMAIN requests' = DOMAIN requests \ {id}
        /\ \A i \in DOMAIN requests' : requests'[i] = requests[i]
        /\ Settled' = Settled
    BY <2>2 DEF Settled
  <2>4. TypeOK'
    <3>1. resps' \in Seq(Response)
      <4>0. id \in Nat
        BY BoundsAssumption
      <4>1. SuccessReqResponse(id, TRUE) \in Response
        BY <4>0, SuccessReqResponseType
      <4> QED BY <2>2, <4>1, SingletonSeq
    <3>2. requests' = [i \in DOMAIN requests' |-> requests'[i]]
      BY <2>2
    <3> QED BY <2>2, <2>3, <3>1, <3>2 DEF IInv, TypeOK
  <2>5. IntegrityNeverBroken' /\ SettledLeavesMarket' /\ TradeTerms'
        /\ RowsAsPlaced'
    BY <2>1, <2>2, <2>3 DEF IInv, IntegrityNeverBroken, SettledLeavesMarket,
       TradeTerms, RowsAsPlaced
  <2>6. LotInv' /\ SnapInv'
    BY <2>1, <2>2 DEF IInv, LotInv, SnapInv
  <2> QED BY <2>4, <2>5, <2>6 DEF IInv
<1>2. CASE CancelRefused(u, id)
  <2>1. PICK m \in {"request has already been made",
                    "this request is not available to you"} :
          resps' = <<BadResponse(m)>>
    BY <1>2 DEF CancelRefused
  <2>2. UNCHANGED <<data, requests, deal_history, server, pc, lot, done, snap,
                    placed, trades, cut>>
    BY <1>2 DEF CancelRefused
  <2>3. TypeOK'
    <3>1. resps' \in Seq(Response)
      <4>1. BadResponse(m) \in Response
        BY BadResponseType
      <4> QED BY <2>1, <4>1, SingletonSeq
    <3> QED BY <2>2, <3>1 DEF IInv, TypeOK
  <2>4. IntegrityNeverBroken' /\ SettledLeavesMarket' /\ TradeTerms'
        /\ RowsAsPlaced'
    <3>1. Settled' = Settled
      BY <2>2 DEF Settled
    <3> QED BY <2>2, <3>1 DEF IInv, IntegrityNeverBroken, SettledLeavesMarket,
               TradeTerms, RowsAsPlaced
  <2>5. LotInv' /\ SnapInv'
    <3>1. pc = "idle"
      BY <1>2 DEF CancelRefused
    <3> QED BY <2>2, <3>1 DEF IInv, LotInv, SnapInv
  <2> QED BY <2>3, <2>4, <2>5 DEF IInv
<1> QED BY <1>1, <1>2 DEF Cancel

(* A step that changes only server, or nothing. *)
LEMMA TablesUnchangedInv ==
  ASSUME IInv, UNCHANGED <<dbVars, execVars, histVars>>,
         server' \in {"up", server}
  PROVE  IInv'
  BY DEF IInv, TypeOK, IntegrityNeverBroken, SettledLeavesMarket, Settled,
     TradeTerms, RowsAsPlaced, LotInv, SnapInv, SnapRow, Acceptable, dbVars,
     execVars, histVars

(* Every step of the specification preserves the invariant.                *)
LEMMA NextInv == IInv /\ [Next]_vars => IInv'
<1> SUFFICES ASSUME IInv, [Next]_vars PROVE IInv'
  OBVIOUS
<1>1. ASSUME NEW u \in Users, NEW op \in Op, NEW n \in Counts,
             NEW p \in Prices, CreateLot(u, op, n, p)
      PROVE  IInv'
  BY <1>1, CreateLotInv
<1>2. CASE QueryMatches
  BY <1>2, QueryMatchesInv
<1>3. CASE ReturnResponses
  BY <1>3, ReturnResponsesInv
<1>4. ASSUME NEW r \in snap, MatchOne(r) PROVE IInv'
  BY <1>4, MatchOneInv
<1>5. ASSUME NEW r \in snap, MatchRefused(r) PROVE IInv'
  BY <1>5, MatchRefusedInv
<1>6. ASSUME NEW u \in Users, NEW id \in 1 .. MaxRequests, Cancel(u, id)
      PROVE  IInv'
  BY <1>6, CancelInv
<1>7. CASE Kill
  BY <1>7, StopInv DEF Kill
<1>8. CASE Restart
  BY <1>8, TablesUnchangedInv DEF Restart
<1>9. CASE UNCHANGED vars
  BY <1>9, TablesUnchangedInv DEF vars
<1> QED
  BY <1>1, <1>2, <1>3, <1>4, <1>5, <1>6, <1>7, <1>8, <1>9 DEF Next, Handler

(* The inductive invariant holds in every reachable state.  Its core is    *)
(* that the rows which the lot handler still has to visit are rows of the  *)
(* table, acceptable to the lot and not settled, although they were read   *)
(* before the handler's last commits.                                      *)
THEOREM InductiveInvariant == Spec => []IInv
  BY InitInv, NextInv, PTL DEF Spec

(* The state of the trading core is always of its type; in particular no   *)
(* integer leaves the range of its column or variable.                     *)
THEOREM TypeCorrect == Spec => []TypeOK
<1>1. IInv => TypeOK
  BY DEF IInv
<1> QED BY <1>1, InductiveInvariant, PTL

(* No statement of execRequest, closeRequest or closeTwoWayRequests        *)
(* violates the unique index or the foreign key of deal_history, or misses *)
(* the row it needs.                                                       *)
THEOREM Integrity == Spec => []IntegrityNeverBroken
<1>1. IInv => IntegrityNeverBroken
  BY DEF IInv
<1> QED BY <1>1, InductiveInvariant, PTL

(* A request that deal_history refers to keeps its row and stays inactive, *)
(* with all lots that its owner placed before it.                          *)
THEOREM SettledStaysOut == Spec => []SettledLeavesMarket
<1>1. IInv => SettledLeavesMarket
  BY DEF IInv
<1> QED BY <1>1, InductiveInvariant, PTL

(* Every committed transfer is between a sell and a buy order of two users *)
(* at a price that both accept.                                            *)
THEOREM TermsKept == Spec => []TradeTerms
<1>1. IInv => TradeTerms
  BY DEF IInv
<1> QED BY <1>1, InductiveInvariant, PTL

-----------------------------------------------------------------------------
(* The reports. *)

(* The report that an iteration of the for loop appends is about the deal  *)
(* that the same transaction entered; the earlier ones keep theirs.        *)
LEMMA MatchOneReports ==
  ASSUME IInv, ReportsAreSettled, NEW r \in snap, MatchOne(r)
  PROVE  ReportsAreSettled'
<1> DEFINE tx == SettlementOf(r)
           new == Report(tx.closed[1], tx.told, tx.price, tx.seller, tx.buyer)
<1>1. /\ pc = "for" /\ deal_history' = Enter(tx)
      /\ resps' = Append(resps, new)
      /\ placed' = placed
  BY DEF MatchOne, Matched, IsNext
<1>2. /\ Settlement(tx, r) /\ SnapRow(r)
      /\ lot.id \in DOMAIN requests /\ requests[lot.id].user = lot.user
  BY <1>1, SettlementFacts DEF IInv, SnapInv, LotInv
<1>3. /\ \A i \in DOMAIN deal_history :
           /\ i \in DOMAIN deal_history'
           /\ deal_history'[i] = deal_history[i]
      /\ \E k \in DOMAIN deal_history' :
           /\ deal_history'[k].request = tx.closed[1]
           /\ deal_history'[k].seller = tx.seller
           /\ deal_history'[k].buyer = tx.buyer
  BY <1>1, EnterFacts
<1>4. new.lot = tx.closed[1] /\ new.seller = tx.seller /\ new.buyer = tx.buyer
  BY DEF Report
<1> HIDE DEF tx, new
<1>5. placed[tx.closed[1]].user \in {tx.seller, tx.buyer}
  <2>1. placed[lot.id].user = lot.user /\ placed[r.id].user = r.user
    BY <1>2 DEF IInv, RowsAsPlaced, SnapRow
  <2>2. tx.closed[1] \in {r.id, lot.id}
    BY <1>2 DEF Settlement
  <2>3. {tx.seller, tx.buyer} = {lot.user, r.user}
    BY <1>2 DEF Settlement
  <2> QED BY <2>1, <2>2, <2>3
<1>6. ASSUME NEW i \in DOMAIN resps', resps'[i].type = "report"
      PROVE  \E k \in DOMAIN deal_history' :
               /\ deal_history'[k].request = resps'[i].lot
               /\ deal_history'[k].seller = resps'[i].seller
               /\ deal_history'[k].buyer = resps'[i].buyer
               /\ placed[resps'[i].lot].user
                    \in {resps'[i].seller, resps'[i].buyer}
  <2>1. resps \in Seq(Response)
    BY DEF IInv, TypeOK
  <2>2. (i \in DOMAIN resps /\ resps'[i] = resps[i]) \/ resps'[i] = new
    BY <1>1, <2>1
  <2>3. CASE i \in DOMAIN resps /\ resps'[i] = resps[i]
    BY <1>3, <1>6, <2>3 DEF ReportsAreSettled
  <2>4. CASE resps'[i] = new
    BY <1>3, <1>4, <1>5, <2>4
  <2> QED BY <2>2, <2>3, <2>4
<1> QED BY <1>1, <1>6 DEF ReportsAreSettled

(* A response that is no report, alone, says nothing about deals.          *)
LEMMA OneResponse ==
  ASSUME NEW x, x.type # "report", resps' = <<x>>
  PROVE  ReportsAreSettled'
  BY DEF ReportsAreSettled

(* Every step keeps the reports true.                                      *)
LEMMA NextReports == IInv /\ ReportsAreSettled /\ [Next]_vars => ReportsAreSettled'
<1> SUFFICES ASSUME IInv, ReportsAreSettled, [Next]_vars
             PROVE  ReportsAreSettled'
  OBVIOUS
<1>1. ASSUME NEW u \in Users, NEW op \in Op, NEW n \in Counts,
             NEW p \in Prices, CreateLot(u, op, n, p)
      PROVE  ReportsAreSettled'
  BY <1>1, OneResponse DEF CreateLot, SuccessReqResponse
<1>2. CASE QueryMatches \/ ReturnResponses
  BY <1>2 DEF QueryMatches, ReturnResponses, dbVars, histVars,
              ReportsAreSettled
<1>3. ASSUME NEW r \in snap, MatchOne(r) PROVE ReportsAreSettled'
  BY <1>3, MatchOneReports
<1>4. ASSUME NEW why, Stop(why) PROVE ReportsAreSettled'
  BY <1>4 DEF Stop, ReportsAreSettled
<1>5. ASSUME NEW u \in Users, NEW id \in 1 .. MaxRequests, Cancel(u, id)
      PROVE  ReportsAreSettled'
  <2>1. CASE CancelDeletes(u, id)
    BY <1>4, <2>1, OneResponse DEF CancelDeletes, Answer, SuccessReqResponse
  <2>2. CASE CancelRefused(u, id)
    <3>1. PICK m : resps' = <<BadResponse(m)>>
      BY <2>2 DEF CancelRefused, Answer
    <3>2. BadResponse(m).type # "report"
      BY DEF BadResponse
    <3> QED BY <3>1, <3>2, OneResponse
  <2> QED BY <1>5, <2>1, <2>2 DEF Cancel
<1>6. CASE Restart \/ UNCHANGED vars
  BY <1>6 DEF Restart, vars, dbVars, execVars, histVars, ReportsAreSettled
<1> QED
  BY <1>1, <1>2, <1>3, <1>4, <1>5, <1>6 DEF Next, Handler, MatchRefused, Kill

(* Each report that a lot handler answers is about a deal that is in       *)
(* deal_history, between the seller and the buyer it names.                *)
THEOREM ReportsTrue == Spec => []ReportsAreSettled
<1>1. Init => ReportsAreSettled
  BY DEF Init, ReportsAreSettled
<1> QED BY <1>1, NextReports, InductiveInvariant, PTL DEF Spec

-----------------------------------------------------------------------------
(* The unique index of deal_history, row by row. *)
Distinct(h) ==
  \A i, j \in DOMAIN h : h[i].request = h[j].request => i = j

(* The row that a settlement tx enters for the request id. *)
DealRow(tx, id) == [buyer |-> tx.buyer, seller |-> tx.seller, request |-> id,
                    date |-> Len(deal_history) + 1]

(* One INSERT keeps the index if the request is not there yet.             *)
LEMMA AppendDistinct ==
  ASSUME NEW h \in Seq(Deal), NEW d \in Deal, Distinct(h),
         \A i \in DOMAIN h : h[i].request # d.request
  PROVE  /\ Append(h, d) \in Seq(Deal) /\ Distinct(Append(h, d))
         /\ \A i \in DOMAIN Append(h, d) :
              \/ Append(h, d)[i].request = d.request
              \/ \E j \in DOMAIN h : Append(h, d)[i].request = h[j].request
<1> DEFINE a == Append(h, d)
<1>1. /\ a \in Seq(Deal) /\ Len(h) \in Nat /\ DOMAIN h = 1 .. Len(h)
      /\ DOMAIN a = 1 .. Len(h) + 1
      /\ a[Len(h) + 1] = d /\ \A i \in 1 .. Len(h) : a[i] = h[i]
  OBVIOUS
<1> HIDE DEF a
<1>2. Distinct(a)
  BY <1>1 DEF Distinct
<1>3. \A i \in DOMAIN a : \/ a[i].request = d.request
                          \/ \E j \in DOMAIN h : a[i].request = h[j].request
  BY <1>1
<1> QED BY <1>1, <1>2, <1>3 DEF a

(* Joining one or two rows is appending them.                              *)
LEMMA InsertsAppend ==
  ASSUME NEW R, NEW h \in Seq(R), NEW c \in Seq(Nat), NEW f \in [Nat -> R],
         Len(c) \in {1, 2}
  PROVE  LET j == h \o [i \in 1 .. Len(c) |-> f[c[i]]] IN
         /\ Len(c) = 1 => j = Append(h, f[c[1]])
         /\ Len(c) = 2 => j = Append(Append(h, f[c[1]]), f[c[2]])
<1> DEFINE n == [i \in 1 .. Len(c) |-> f[c[i]]]
           j == h \o n
<1>1. /\ n \in Seq(R) /\ Len(n) = Len(c)
      /\ \A i \in 1 .. Len(c) : n[i] = f[c[i]] /\ f[c[i]] \in R
  OBVIOUS
<1> HIDE DEF n
<1>2. CASE Len(c) = 1
  <2>1. n = <<n[1]>> /\ n[1] = f[c[1]]
    BY <1>1, <1>2
  <2> QED BY <1>1, <1>2, <2>1 DEF n
<1>3. CASE Len(c) = 2
  <2>1. n = <<n[1], n[2]>> /\ n[1] = f[c[1]] /\ n[2] = f[c[2]]
    BY <1>1, <1>3
  <2> QED BY <1>1, <1>3, <2>1 DEF n
<1> QED BY <1>2, <1>3

(* The INSERTs of a settlement, one after the other.                       *)
LEMMA EnterAppends ==
  ASSUME IInv, NEW r \in snap, pc = "for"
  PROVE  LET tx == SettlementOf(r)
             c1 == tx.closed[1]
             c2 == tx.closed[2]
             h1 == Append(deal_history, DealRow(tx, c1))
         IN /\ DealRow(tx, c1) \in Deal
            /\ Len(tx.closed) = 1 => Enter(tx) = h1
            /\ Len(tx.closed) = 2 => /\ Enter(tx) = Append(h1, DealRow(tx, c2))
                                     /\ DealRow(tx, c2) \in Deal
            /\ Len(tx.closed) \in {1, 2}
<1> DEFINE tx == SettlementOf(r)
<1>1. Settlement(tx, r) /\ r \in Match /\ lot \in Lot
  BY SettlementFacts
<1>2. /\ r.id \in Nat /\ lot.id \in Nat
      /\ tx.buyer \in Users /\ tx.seller \in Users
      /\ deal_history \in Seq(Deal)
  BY <1>1 DEF Settlement, Match, Lot, IInv, TypeOK
<1>3. Enter(tx) = deal_history \o
                    [i \in 1 .. Len(tx.closed) |-> DealRow(tx, tx.closed[i])]
  BY DEF Enter, DealRow
<1>4. \A id \in Nat : DealRow(tx, id) \in Deal
  BY <1>2 DEF DealRow, Deal
<1>5. tx.closed \in {<<r.id>>, <<lot.id>>, <<lot.id, r.id>>, <<r.id, lot.id>>}
  BY <1>1 DEF Settlement
<1>6. PICK c : c = tx.closed
  OBVIOUS
<1>7. PICK f : f = [id \in Nat |-> DealRow(tx, id)]
  OBVIOUS
<1>8. \A id \in Nat : f[id] = DealRow(tx, id) /\ f[id] \in Deal
  BY <1>4, <1>7
<1>9. /\ c \in {<<r.id>>, <<lot.id>>, <<lot.id, r.id>>, <<r.id, lot.id>>}
      /\ Enter(tx) = deal_history \o [i \in 1 .. Len(c) |-> DealRow(tx, c[i])]
  BY <1>3, <1>5, <1>6
<1>10. c \in Seq(Nat) /\ Len(c) \in {1, 2} /\ c[1] \in Nat
       /\ (Len(c) = 2 => c[2] \in Nat)
  <2>1. \A x \in Nat : <<x>> \in Seq(Nat) /\ Len(<<x>>) = 1 /\ <<x>>[1] = x
    OBVIOUS
  <2>2. \A x, y \in Nat : /\ <<x, y>> \in Seq(Nat) /\ Len(<<x, y>>) = 2
                          /\ <<x, y>>[1] = x /\ <<x, y>>[2] = y
    OBVIOUS
  <2>3. CASE c \in {<<r.id>>, <<lot.id>>}
    BY <1>2, <2>1, <2>3
  <2>4. CASE c = <<lot.id, r.id>>
    BY <1>2, <2>2, <2>4
  <2>5. CASE c = <<r.id, lot.id>>
    BY <1>2, <2>2, <2>5
  <2> QED BY <1>9, <2>3, <2>4, <2>5
<1>11. Enter(tx) = deal_history \o [i \in 1 .. Len(c) |-> f[c[i]]]
  BY <1>8, <1>9, <1>10
<1>12. f \in [Nat -> Deal]
  BY <1>4, <1>7
<1>13. /\ Len(c) = 1 => Enter(tx) = Append(deal_history, f[c[1]])
       /\ Len(c) = 2 => Enter(tx) = Append(Append(deal_history, f[c[1]]), f[c[2]])
  BY <1>2, <1>10, <1>11, <1>12, InsertsAppend
<1> QED BY <1>6, <1>8, <1>10, <1>13

(* A settlement keeps the index, after each of its INSERTs.                *)
LEMMA SettlesDistinct ==
  ASSUME IInv, Distinct(deal_history), NEW r \in snap, pc = "for"
  PROVE  LET tx == SettlementOf(r)
             h1 == Append(deal_history, DealRow(tx, tx.closed[1]))
         IN /\ h1 \in Seq(Deal) /\ Distinct(h1)
            /\ Enter(tx) \in Seq(Deal) /\ Distinct(Enter(tx))
<1> DEFINE tx == SettlementOf(r)
           c1 == tx.closed[1]
           c2 == tx.closed[2]
           h1 == Append(deal_history, DealRow(tx, c1))
<1>1. /\ DealRow(tx, c1) \in Deal
      /\ Len(tx.closed) = 1 => Enter(tx) = h1
      /\ Len(tx.closed) = 2 => /\ Enter(tx) = Append(h1, DealRow(tx, c2))
                               /\ DealRow(tx, c2) \in Deal
      /\ Len(tx.closed) \in {1, 2}
  BY EnterAppends
<1>2. /\ c1 \notin Settled
      /\ Len(tx.closed) = 2 => c2 \notin Settled /\ c2 # c1
  <2>1. /\ Settlement(tx, r) /\ lot.id # r.id
        /\ \A i \in DOMAIN tx.closed : tx.closed[i] \notin Settled
    BY SettlementFacts, SettlesInIntegrity DEF IntegrityHolds
  <2>2. PICK c : c = tx.closed
    OBVIOUS
  <2>3. /\ c \in {<<r.id>>, <<lot.id>>, <<lot.id, r.id>>, <<r.id, lot.id>>}
        /\ \A i \in DOMAIN c : c[i] \notin Settled
    BY <2>1, <2>2 DEF Settlement
  <2>4. c[1] \notin Settled /\ (Len(c) = 2 => c[2] \notin Settled /\ c[2] # c[1])
    BY <2>1, <2>3
  <2> QED BY <2>2, <2>4
<1>3. \A id : DealRow(tx, id).request = id
  BY DEF DealRow
<1>4. deal_history \in Seq(Deal)
  BY DEF IInv, TypeOK
<1>5. \A i \in DOMAIN deal_history : deal_history[i].request \in Settled
  BY DEF Settled
<1> HIDE DEF tx
<1>6. /\ h1 \in Seq(Deal) /\ Distinct(h1)
      /\ \A i \in DOMAIN h1 :
           \/ h1[i].request = c1
           \/ \E j \in DOMAIN deal_history : h1[i].request = deal_history[j].request
  BY <1>1, <1>2, <1>3, <1>4, <1>5, AppendDistinct
<1>7. CASE Len(tx.closed) = 1
  BY <1>1, <1>6, <1>7 DEF tx
<1>8. CASE Len(tx.closed) = 2
  <2> HIDE DEF h1, c1, c2
  <2>1. \A i \in DOMAIN h1 : h1[i].request # DealRow(tx, c2).request
    BY <1>2, <1>3, <1>5, <1>6, <1>8
  <2>2. /\ Append(h1, DealRow(tx, c2)) \in Seq(Deal)
        /\ Distinct(Append(h1, DealRow(tx, c2)))
    BY <1>1, <1>6, <1>8, <2>1, AppendDistinct
  <2> QED BY <1>1, <1>6, <1>8, <2>2 DEF tx, h1, c1
<1> QED BY <1>1, <1>7, <1>8

(* Every step keeps the index: only the loop enters rows.                  *)
LEMMA NextDistinct ==
  IInv /\ Distinct(deal_history) /\ [Next]_vars => Distinct(deal_history)'
<1> SUFFICES ASSUME IInv, Distinct(deal_history), [Next]_vars
             PROVE  Distinct(deal_history')
  OBVIOUS
<1>1. CASE UNCHANGED deal_history
  BY <1>1
<1>2. ASSUME NEW r \in snap, MatchOne(r) PROVE Distinct(deal_history')
  BY <1>2, SettlesDistinct DEF MatchOne, IsNext
<1>3. UNCHANGED deal_history \/ \E r \in snap : MatchOne(r)
  BY DEF Next, vars, dbVars, Handler, CreateLot, QueryMatches, ReturnResponses,
     MatchRefused, Cancel, CancelDeletes, CancelRefused, Kill, Restart, Stop
<1> QED BY <1>1, <1>2, <1>3

(* The invariant of the tables with the unique index.                      *)
LEMMA DistinctInvariant == Spec => [](IInv /\ Distinct(deal_history))
<1>1. Init => Distinct(deal_history)
  BY DEF Init, Distinct
<1> QED BY <1>1, InitInv, NextInv, NextDistinct, PTL DEF Spec
=============================================================================
