--------------------------- MODULE ExchangeProofs ---------------------------
(***************************************************************************)
(* The trading core implements Exchange: every committed transaction of    *)
(* OrderBook is a step of Exchange or changes nothing that it shows.       *)
(***************************************************************************)
EXTENDS OrderBookProofs

(* What the mapped lots say of each order.                                 *)
LEMMA LotsFacts ==
  /\ DOMAIN Lots = DOMAIN placed
  /\ \A id \in DOMAIN placed :
       Lots[id] = [owner |-> placed[id].user, side |-> placed[id].op,
                   state |-> StateOf(id)]
  BY DEF Lots

(* The same of the next state.                                             *)
LEMMA LotsFactsNext ==
  /\ Lots' = [id \in DOMAIN placed' |->
                [owner |-> placed'[id].user, side |-> placed'[id].op,
                 state |-> StateOf(id)']]
  BY DEF Lots

(* A step that keeps tables and orders shows nothing.                      *)
LEMMA Unseen ==
  ASSUME data' = data, requests' = requests, deal_history' = deal_history,
         placed' = placed
  PROVE  UNCHANGED Ex!exchangeVars
<1>1. Usd' = Usd /\ Rub' = Rub
  BY DEF Usd, Rub
<1>2. Lots' = Lots
  BY DEF Lots, StateOf, Settled
<1> QED BY <1>1, <1>2 DEF Ex!exchangeVars

(* The initial tables.                                                     *)
LEMMA InitExchange == Init => Ex!Init
  BY DEF Init, Ex!Init, Usd, Rub, Lots

(* CreateLot places a lot.                                                 *)
LEMMA CreateLotPlaces ==
  ASSUME IInv, NEW u \in Users, NEW op \in Op, NEW n \in Counts,
         NEW p \in Prices, CreateLot(u, op, n, p)
  PROVE  Ex!Place(u, op)
<1>0. PICK id : id = Len(placed) + 1
  OBVIOUS
<1>1. /\ placed \in Seq(Order) /\ id \in 1 .. MaxRequests
      /\ id \notin DOMAIN placed
      /\ DOMAIN requests \subseteq DOMAIN placed
      /\ Settled \subseteq DOMAIN requests
  BY <1>0, BoundsAssumption DEF IInv, TypeOK, SettledLeavesMarket, CreateLot
<1>2. /\ placed' = Append(placed, [user |-> u, op |-> op, usd |-> n,
                                   price |-> p])
      /\ requests' = [i \in DOMAIN requests \cup {id} |->
                       IF i = id
                       THEN [user |-> u, op |-> op, usd |-> n, price |-> p,
                             active |-> TRUE]
                       ELSE requests[i]]
      /\ data' = data /\ deal_history' = deal_history
  BY <1>0 DEF CreateLot
<1>3. /\ DOMAIN placed' = DOMAIN placed \cup {id}
      /\ placed'[id] = [user |-> u, op |-> op, usd |-> n, price |-> p]
      /\ \A i \in DOMAIN placed : placed'[i] = placed[i]
  BY <1>0, <1>1, <1>2
<1>4. Usd' = Usd /\ Rub' = Rub /\ Settled' = Settled
  BY <1>2 DEF Usd, Rub, Settled
<1>5. StateOf(id)' = "live"
  <2>1. /\ id \in DOMAIN requests' /\ id \notin Settled'
        /\ requests'[id] = [user |-> u, op |-> op, usd |-> n, price |-> p,
                            active |-> TRUE]
    BY <1>1, <1>2, <1>4
  <2>2. requests'[id].active
    BY <2>1
  <2> QED BY <2>1, <2>2 DEF StateOf
<1>6. \A i \in DOMAIN placed : i # id /\ StateOf(i)' = StateOf(i)
  <2>1. /\ DOMAIN requests' = DOMAIN requests \cup {id}
        /\ \A i \in DOMAIN requests : i # id /\ requests'[i] = requests[i]
    BY <1>1, <1>2
  <2> QED BY <1>1, <1>4, <2>1 DEF StateOf
<1>7. Lots' = [i \in DOMAIN Lots \cup {id} |->
                 IF i = id THEN [owner |-> u, side |-> op, state |-> "live"]
                 ELSE Lots[i]]
  <2> DEFINE next(i) == IF i = id THEN [owner |-> u, side |-> op, state |-> "live"]
                        ELSE Lots[i]
  <2>1. ASSUME NEW i \in DOMAIN placed'
        PROVE  Lots'[i] = next(i)
    <3>1. Lots'[id] = [owner |-> u, side |-> op, state |-> "live"]
      BY <1>3, <1>5, LotsFactsNext
    <3>2. CASE i = id
      BY <3>1, <3>2
    <3>3. CASE i # id
      BY <1>3, <1>6, <3>3, LotsFacts, LotsFactsNext
    <3> QED BY <3>2, <3>3
  <2>2. Lots' = [i \in DOMAIN placed' |-> Lots'[i]]
    BY LotsFactsNext
  <2> HIDE DEF next
  <2>3. Lots' = [i \in DOMAIN Lots \cup {id} |-> next(i)]
    BY <1>3, <2>1, <2>2, LotsFacts
  <2> QED BY <2>3 DEF next
<1> QED BY <1>1, <1>4, <1>7, LotsFacts DEF Ex!Place

(* CANCEL_REQUEST of a lot that may be deleted cancels it.                 *)
LEMMA DeleteCancels ==
  ASSUME IInv, NEW u \in Users, NEW id \in 1 .. MaxRequests,
         CancelDeletes(u, id)
  PROVE  id \in DOMAIN Lots /\ Ex!Cancel(id)
<1>1. /\ id \in DOMAIN requests /\ id \notin Settled /\ requests[id].active
      /\ id \in DOMAIN placed
  BY DEF CancelDeletes, Owns, IInv, TypeOK, SettledLeavesMarket
<1>2. /\ requests' = [i \in DOMAIN requests \ {id} |-> requests[i]]
      /\ data' = data /\ deal_history' = deal_history /\ placed' = placed
  BY <1>1 DEF CancelDeletes, Answer, histVars
<1>3. Usd' = Usd /\ Rub' = Rub /\ Settled' = Settled
  BY <1>2 DEF Usd, Rub, Settled
<1>4. StateOf(id) = "live" /\ StateOf(id)' = "cancelled"
  BY <1>1, <1>2, <1>3 DEF StateOf
<1>5. \A i \in DOMAIN placed : i # id => StateOf(i)' = StateOf(i)
  BY <1>2, <1>3 DEF StateOf
<1>6. Lots' = [Lots EXCEPT ![id].state = "cancelled"]
  <2>1. Lots' = [i \in DOMAIN placed |-> Lots'[i]] /\ DOMAIN Lots = DOMAIN placed
    BY <1>2, LotsFacts, LotsFactsNext
  <2>2. \A i \in DOMAIN placed : i # id => Lots'[i] = Lots[i]
    BY <1>2, <1>5, LotsFacts, LotsFactsNext
  <2>3. Lots'[id] = [Lots[id] EXCEPT !.state = "cancelled"]
    BY <1>1, <1>2, <1>4, LotsFacts, LotsFactsNext
  <2> QED BY <1>1, <2>1, <2>2, <2>3
<1> QED BY <1>1, <1>3, <1>4, <1>6, LotsFacts DEF Ex!Cancel

-----------------------------------------------------------------------------
(* One iteration of the for loop. *)

(* How a settlement changes the state of a lot.                            *)
LEMMA StatesAfter ==
  ASSUME IInv, NEW r \in snap, MatchOne(r)
  PROVE  LET C == Closed(SettlementOf(r)) IN
         /\ C \subseteq {r.id, lot.id} /\ C # {}
         /\ C \subseteq DOMAIN requests
         /\ \A c \in C : StateOf(c) \in {"live", "withdrawn"}
         /\ \A id \in DOMAIN placed :
              StateOf(id)' =
                IF id \in C THEN "settled"
                ELSE IF /\ StateOf(id) = "live"
                        /\ \E c \in C : placed[c].user = placed[id].user
                THEN "withdrawn"
                ELSE StateOf(id)
<1> DEFINE tx == SettlementOf(r)
           C == Closed(tx)
<1>1. pc = "for" /\ requests' = tx.rows /\ deal_history' = Enter(tx)
  BY DEF MatchOne, IsNext
<1>2. /\ Settlement(tx, r) /\ SnapRow(r)
      /\ lot.id \in DOMAIN requests /\ lot.id \notin Settled
  BY <1>1, SettlementFacts DEF IInv, SnapInv
<1>3. Settled' = Settled \cup C
  BY <1>1, EnterFacts
<1> HIDE DEF tx
<1>4. C \subseteq {r.id, lot.id} /\ C # {}
  <2>1. tx.closed \in {<<r.id>>, <<lot.id>>, <<lot.id, r.id>>, <<r.id, lot.id>>}
    BY <1>2 DEF Settlement
  <2>2. 1 \in DOMAIN tx.closed
    BY <2>1
  <2>3. \A k \in DOMAIN tx.closed : tx.closed[k] \in {r.id, lot.id}
    BY <2>1
  <2> QED BY <2>2, <2>3 DEF Closed
<1>5. C \subseteq DOMAIN requests /\ \A c \in C : c \notin Settled
  BY <1>2, <1>4 DEF SnapRow
<1>6. \A c \in C : StateOf(c) \in {"live", "withdrawn"}
  BY <1>5 DEF StateOf
<1>7. /\ DOMAIN requests' = DOMAIN requests
      /\ \A id \in DOMAIN requests :
           requests'[id].active <=>
             /\ requests[id].active
             /\ \A c \in C : requests[id].user # requests[c].user
  BY <1>1, <1>2 DEF Settlement
<1>8. \A id \in DOMAIN requests : requests[id].user = placed[id].user
  BY DEF IInv, RowsAsPlaced
<1> HIDE DEF C
<1>9. ASSUME NEW id \in DOMAIN placed
      PROVE  StateOf(id)' =
                IF id \in C THEN "settled"
                ELSE IF /\ StateOf(id) = "live"
                        /\ \E c \in C : placed[c].user = placed[id].user
                THEN "withdrawn"
                ELSE StateOf(id)
  <2>1. CASE id \in C
    BY <1>3, <2>1 DEF StateOf
  <2>2. CASE id \notin C /\ id \in Settled
    BY <1>3, <2>2 DEF StateOf
  <2>3. CASE id \notin C /\ id \notin Settled /\ id \notin DOMAIN requests
    BY <1>3, <1>7, <2>3 DEF StateOf
  <2>4. CASE id \notin C /\ id \notin Settled /\ id \in DOMAIN requests
    BY <1>3, <1>5, <1>7, <1>8, <2>4 DEF StateOf
  <2> QED BY <2>1, <2>2, <2>3, <2>4
<1> QED BY <1>4, <1>5, <1>6, <1>9 DEF C, tx

(* The two orders of an iteration are of the two parties.                  *)
LEMMA Parties ==
  ASSUME IInv, NEW r \in snap, MatchOne(r)
  PROVE  /\ lot.id \in DOMAIN placed /\ r.id \in DOMAIN placed
         /\ placed[lot.id].user = lot.user /\ placed[r.id].user = r.user
         /\ lot.user # r.user /\ lot.user \in Users /\ r.user \in Users
         /\ lot.op \in Op /\ placed[lot.id].op = lot.op
         /\ placed[r.id].op = (IF lot.op = "sell" THEN "buy" ELSE "sell")
         /\ SettlementOf(r).seller = (IF lot.op = "sell" THEN lot.user ELSE r.user)
         /\ SettlementOf(r).buyer = (IF lot.op = "sell" THEN r.user ELSE lot.user)
<1>1. pc = "for"
  BY DEF MatchOne, IsNext
<1>2. /\ Settlement(SettlementOf(r), r) /\ SnapRow(r)
      /\ lot \in Lot /\ r \in Match
      /\ lot.id \in DOMAIN requests
      /\ requests[lot.id].user = lot.user /\ requests[lot.id].op = lot.op
  BY <1>1, SettlementFacts DEF IInv, SnapInv, LotInv
<1>3. /\ r.id \in DOMAIN requests /\ requests[r.id].user = r.user
      /\ requests[r.id].op # lot.op /\ r.user # lot.user
  BY <1>2 DEF SnapRow
<1>4. lot.op \in Op /\ requests[r.id].op \in Op
      /\ lot.user \in Users /\ r.user \in Users
  BY <1>2, <1>3 DEF Lot, Match, IInv, TypeOK, Row
<1>5. /\ lot.id \in DOMAIN placed /\ r.id \in DOMAIN placed
      /\ placed[lot.id].user = lot.user /\ placed[r.id].user = r.user
      /\ placed[lot.id].op = lot.op /\ placed[r.id].op = requests[r.id].op
  BY <1>2, <1>3 DEF IInv, TypeOK, RowsAsPlaced
<1>6. placed[r.id].op = (IF lot.op = "sell" THEN "buy" ELSE "sell")
  BY <1>3, <1>4, <1>5 DEF Op
<1> QED BY <1>2, <1>3, <1>4, <1>5, <1>6 DEF Settlement

(* The lots of one party of the deal.                                      *)
LEMMA PartyStep ==
  ASSUME IInv, NEW r \in snap, MatchOne(r), NEW u, NEW side,
         \/ u = lot.user /\ side = lot.op
         \/ u = r.user /\ side = (IF lot.op = "sell" THEN "buy" ELSE "sell")
  PROVE  Ex!PartyLots(u, side)
<1> DEFINE C == Closed(SettlementOf(r))
           mine == {id \in DOMAIN Lots : Lots[id].owner = u}
           settled == {id \in mine : Lots'[id].state # Lots[id].state
                                       /\ Lots'[id].state = "settled"}
           next(id) == IF id \in settled THEN "settled"
                       ELSE IF Lots[id].state = "live" /\ settled # {}
                       THEN "withdrawn"
                       ELSE Lots[id].state
<1>1. /\ C \subseteq {r.id, lot.id} /\ C \subseteq DOMAIN placed
      /\ \A c \in C : StateOf(c) \in {"live", "withdrawn"}
      /\ \A id \in DOMAIN placed :
           StateOf(id)' =
             IF id \in C THEN "settled"
             ELSE IF /\ StateOf(id) = "live"
                     /\ \E c \in C : placed[c].user = placed[id].user
             THEN "withdrawn"
             ELSE StateOf(id)
  <2>1. DOMAIN requests \subseteq DOMAIN placed
    BY DEF IInv, TypeOK
  <2> QED BY <2>1, StatesAfter
<1> HIDE DEF C
<1>2. placed' = placed
  BY DEF MatchOne
<1>3. \A id \in DOMAIN placed :
        /\ Lots[id].owner = placed[id].user /\ Lots[id].side = placed[id].op
        /\ Lots[id].state = StateOf(id)
        /\ Lots'[id] = [owner |-> placed[id].user, side |-> placed[id].op,
                        state |-> StateOf(id)']
        /\ Lots'[id].state = StateOf(id)'
  BY <1>2, LotsFacts, LotsFactsNext
<1>4. mine = {id \in DOMAIN placed : placed[id].user = u}
  BY <1>3, LotsFacts
<1>5. settled = {c \in C : placed[c].user = u}
  <2>1. ASSUME NEW id \in settled PROVE id \in C /\ placed[id].user = u
    <3>1. /\ id \in DOMAIN placed /\ placed[id].user = u
          /\ StateOf(id)' # StateOf(id) /\ StateOf(id)' = "settled"
      <4>1. /\ id \in mine /\ Lots'[id].state # Lots[id].state
            /\ Lots'[id].state = "settled"
        OBVIOUS
      <4> HIDE DEF mine, settled
      <4>2. id \in DOMAIN placed /\ placed[id].user = u
        BY <1>4, <4>1
      <4> QED BY <1>3, <4>1, <4>2
    <3> QED BY <1>1, <3>1
  <2>2. ASSUME NEW id \in C, placed[id].user = u PROVE id \in settled
    <3>1. id \in DOMAIN placed /\ id \in mine
      BY <1>1, <1>4, <2>2
    <3>2. StateOf(id)' = "settled" /\ StateOf(id) # "settled"
      BY <1>1, <3>1
    <3> QED BY <1>3, <3>1, <3>2
  <2> QED BY <2>1, <2>2
<1> HIDE DEF mine, settled
<1>6. \A id \in settled : /\ Lots[id].side = side
                          /\ Lots[id].state \in {"live", "withdrawn"}
  <2> SUFFICES ASSUME NEW id \in settled
               PROVE  /\ Lots[id].side = side
                      /\ Lots[id].state \in {"live", "withdrawn"}
    OBVIOUS
  <2>1. /\ id \in {r.id, lot.id} /\ id \in DOMAIN placed
        /\ placed[id].user = u /\ StateOf(id) \in {"live", "withdrawn"}
    BY <1>1, <1>5
  <2>2. placed[id].op = side
    BY <2>1, Parties
  <2> QED BY <1>3, <2>1, <2>2
<1>7. \A i, j \in settled : i = j
  BY <1>1, <1>5, Parties
<1>8. ASSUME NEW id \in mine
      PROVE  Lots'[id] = [Lots[id] EXCEPT !.state = next(id)]
  <2>1. id \in DOMAIN placed /\ placed[id].user = u
    BY <1>4
  <2>2. StateOf(id)' = next(id)
    <3>1. id \in C <=> id \in settled
      BY <1>5, <2>1
    <3>2. (\E c \in C : placed[c].user = placed[id].user) <=> settled # {}
      BY <1>5, <2>1
    <3>3. Lots[id].state = StateOf(id)
      BY <1>3, <2>1
    <3> QED BY <1>1, <2>1, <3>1, <3>2, <3>3
  <2> HIDE DEF next
  <2>3. [Lots[id] EXCEPT !.state = next(id)] =
          [owner |-> placed[id].user, side |-> placed[id].op,
           state |-> next(id)]
    BY <2>1, LotsFacts
  <2>4. Lots'[id] = [owner |-> placed[id].user, side |-> placed[id].op,
                     state |-> next(id)]
    BY <1>3, <2>1, <2>2
  <2> QED BY <2>3, <2>4
<1> QED BY <1>6, <1>7, <1>8 DEF Ex!PartyLots, mine, settled

(* Money moves between s and b only, and none is made or lost.             *)
MoneyMoves(s, b) ==
  LET x == Usd'[b] - Usd[b]
      y == Rub'[s] - Rub[s]
  IN /\ Usd' = [Usd EXCEPT ![b] = @ + x, ![s] = @ - x]
     /\ Rub' = [Rub EXCEPT ![s] = @ + y, ![b] = @ - y]

(* The four UPDATEs of table data move what the buyer gets from the seller.*)
LEMMA PayTransfers ==
  ASSUME IInv, NEW r \in snap, MatchOne(r),
         NEW s \in Users, NEW b \in Users, s # b,
         s = SettlementOf(r).seller, b = SettlementOf(r).buyer
  PROVE  MoneyMoves(s, b)
<1> DEFINE tx == SettlementOf(r)
           rub == Wrap(tx.price * tx.usd)
<1>0. /\ data' = Pay(tx) /\ s = tx.seller /\ b = tx.buyer
      /\ tx.usd \in Int32 /\ tx.price \in Int32
  <2>1. pc = "for" /\ data' = Pay(tx)
    BY DEF MatchOne, IsNext
  <2> QED BY <2>1, SettlementFacts DEF Settlement, Match
<1> HIDE DEF tx
<1>1. rub \in Int /\ tx.usd \in Int
  <2>1. tx.price \in Int /\ tx.usd \in Int
    BY <1>0, Int32IsInt
  <2>2. tx.price * tx.usd \in Int
    BY <2>1
  <2> QED BY <2>1, <2>2, WrapType, Int32IsInt
<1>2. data \in [Users -> Balance]
  BY DEF IInv, TypeOK
<1>3. \A u \in Users : data[u].usd \in Int /\ data[u].rub \in Int
  BY <1>2, Int32IsInt DEF Balance
<1>4. data' = [data EXCEPT ![b] = [usd |-> @.usd + tx.usd, rub |-> @.rub - rub],
                           ![s] = [usd |-> @.usd - tx.usd, rub |-> @.rub + rub]]
  BY <1>0 DEF Pay
<1> HIDE DEF rub
<1>5. /\ data'[b] = [usd |-> data[b].usd + tx.usd, rub |-> data[b].rub - rub]
      /\ data'[s] = [usd |-> data[s].usd - tx.usd, rub |-> data[s].rub + rub]
      /\ \A u \in Users \ {s, b} : data'[u] = data[u]
  BY <1>2, <1>4
<1>6. /\ Usd = [u \in Users |-> data[u].usd]
      /\ Usd' = [u \in Users |-> data'[u].usd]
      /\ Rub = [u \in Users |-> data[u].rub]
      /\ Rub' = [u \in Users |-> data'[u].rub]
  BY DEF Usd, Rub
<1>7. /\ Usd[b] = data[b].usd /\ Usd'[b] = data[b].usd + tx.usd
      /\ Usd[s] = data[s].usd /\ Usd'[s] = data[s].usd - tx.usd
      /\ \A u \in Users \ {s, b} : Usd'[u] = Usd[u]
  BY <1>5, <1>6
<1>8. /\ Rub[b] = data[b].rub /\ Rub'[b] = data[b].rub - rub
      /\ Rub[s] = data[s].rub /\ Rub'[s] = data[s].rub + rub
      /\ \A u \in Users \ {s, b} : Rub'[u] = Rub[u]
  BY <1>5, <1>6
<1>9. Usd'[b] - Usd[b] = tx.usd /\ Rub'[s] - Rub[s] = rub
  BY <1>1, <1>3, <1>7, <1>8
<1>10. Usd' = [Usd EXCEPT ![b] = @ + tx.usd, ![s] = @ - tx.usd]
  BY <1>6, <1>7
<1>11. Rub' = [Rub EXCEPT ![s] = @ + rub, ![b] = @ - rub]
  BY <1>6, <1>8
<1> QED BY <1>9, <1>10, <1>11 DEF MoneyMoves

(* So a committed iteration is a deal.                                     *)
LEMMA MatchOneDeals ==
  ASSUME IInv, NEW r \in snap, MatchOne(r)
  PROVE  Ex!Deal
<1> DEFINE tx == SettlementOf(r)
           C == Closed(tx)
<1>1. PICK s, b : s = tx.seller /\ b = tx.buyer
  OBVIOUS
<1>2. /\ s \in Users /\ b \in Users /\ s # b
      /\ {s, b} = {lot.user, r.user}
      /\ s = (IF lot.op = "sell" THEN lot.user ELSE r.user)
      /\ b = (IF lot.op = "sell" THEN r.user ELSE lot.user)
      /\ lot.op \in Op
  BY <1>1, Parties
<1>3. Ex!PartyLots(s, "sell") /\ Ex!PartyLots(b, "buy")
  BY <1>2, PartyStep DEF Op
<1>4. MoneyMoves(s, b)
  BY <1>1, <1>2, PayTransfers
<1>5. /\ C \subseteq {r.id, lot.id} /\ C # {} /\ C \subseteq DOMAIN requests
      /\ \A c \in C : StateOf(c) \in {"live", "withdrawn"}
      /\ \A id \in DOMAIN placed :
           StateOf(id)' =
             IF id \in C THEN "settled"
             ELSE IF /\ StateOf(id) = "live"
                     /\ \E c \in C : placed[c].user = placed[id].user
             THEN "withdrawn"
             ELSE StateOf(id)
  BY StatesAfter
<1>6. placed' = placed /\ DOMAIN requests \subseteq DOMAIN placed
  BY DEF MatchOne, IInv, TypeOK
<1> HIDE DEF C, tx
<1>7. DOMAIN Lots' = DOMAIN Lots
  BY <1>6, LotsFacts, LotsFactsNext
<1>8. \E id \in DOMAIN Lots : Lots[id].state # "settled"
                              /\ Lots'[id].state = "settled"
  <2>1. PICK c \in C : c \in DOMAIN placed
    BY <1>5, <1>6
  <2>2. StateOf(c) # "settled" /\ StateOf(c)' = "settled"
    BY <1>5, <2>1
  <2>3. Lots[c].state = StateOf(c) /\ Lots'[c].state = StateOf(c)'
    BY <1>6, <2>1, LotsFacts, LotsFactsNext
  <2> QED BY <2>1, <2>2, <2>3, LotsFacts
<1>9. ASSUME NEW id \in DOMAIN Lots, Lots[id].owner \notin {s, b}
      PROVE  Lots'[id] = Lots[id]
  <2>1. id \in DOMAIN placed /\ placed[id].user \notin {lot.user, r.user}
    BY <1>2, <1>9, LotsFacts
  <2>2. id \notin C /\ ~\E c \in C : placed[c].user = placed[id].user
    BY <1>5, <2>1, Parties
  <2>3. StateOf(id)' = StateOf(id)
    BY <1>5, <2>1, <2>2
  <2> QED BY <1>6, <2>1, <2>3, LotsFacts, LotsFactsNext
<1>10. Ex!Transfer(s, b)
  BY <1>3, <1>4, <1>9 DEF Ex!Transfer, MoneyMoves
<1> QED BY <1>2, <1>7, <1>8, <1>10 DEF Ex!Deal

-----------------------------------------------------------------------------
(* The refinement. *)

(* Every step of the server is a step of Exchange or changes nothing that  *)
(* it shows.                                                               *)
LEMMA NextExchange == IInv /\ [Next]_vars => [Ex!Next]_(Ex!exchangeVars)
<1> SUFFICES ASSUME IInv, [Next]_vars PROVE [Ex!Next]_(Ex!exchangeVars)
  OBVIOUS
<1>1. ASSUME NEW u \in Users, NEW op \in Op, NEW n \in Counts,
             NEW p \in Prices, CreateLot(u, op, n, p)
      PROVE  Ex!Next
  BY <1>1, CreateLotPlaces DEF Ex!Next, Ex!Side, Op
<1>2. CASE QueryMatches \/ ReturnResponses
  BY <1>2, Unseen DEF QueryMatches, ReturnResponses, dbVars, histVars
<1>3. ASSUME NEW r \in snap, MatchOne(r) PROVE Ex!Next
  BY <1>3, MatchOneDeals DEF Ex!Next
<1>4. ASSUME NEW why, Stop(why) PROVE UNCHANGED Ex!exchangeVars
  BY <1>4, Unseen DEF Stop, dbVars
<1>5. ASSUME NEW u \in Users, NEW id \in 1 .. MaxRequests, Cancel(u, id)
      PROVE  [Ex!Next]_(Ex!exchangeVars)
  <2>1. CASE CancelDeletes(u, id)
    BY <2>1, DeleteCancels DEF Ex!Next
  <2>2. CASE CancelRefused(u, id)
    BY <2>2, Unseen DEF CancelRefused, Answer, dbVars, histVars
  <2> QED BY <1>5, <2>1, <2>2 DEF Cancel
<1>6. CASE Restart \/ UNCHANGED vars
  BY <1>6, Unseen DEF Restart, vars, dbVars, histVars
<1> QED
  BY <1>1, <1>2, <1>3, <1>4, <1>5, <1>6 DEF Next, Handler, MatchRefused, Kill

(* Whatever the handlers do, and wherever the process stops, lots live and *)
(* money moves only as Exchange allows: each transfer keeps the total of   *)
(* both currencies, is between two users and settles a lot of one of them, *)
(* and a settled or cancelled lot never changes again.                     *)
THEOREM CoreIsExchange == Spec => ExchangeSpec
  BY InitExchange, NextExchange, InductiveInvariant, PTL
     DEF Spec, ExchangeSpec, Ex!Spec
=============================================================================
