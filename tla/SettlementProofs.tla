-------------------------- MODULE SettlementProofs --------------------------
(***************************************************************************)
(* The statements of the database manager implement the atomic handlers of *)
(* OrderBook, for every instance: whatever statement fails and wherever    *)
(* the process stops, the committed tables are those of a whole number of  *)
(* settlements.                                                            *)
(***************************************************************************)
EXTENDS Settlement, OrderBookProofs, SequenceTheorems

(* The tables that a settlement of row r is to commit. *)
Final(r) == [data         |-> Pay(SettlementOf(r)),
             requests     |-> SettlementOf(r).rows,
             deal_history |-> Enter(SettlementOf(r))]

(* The statements ss lead from the tables t to the tables fin.  On the way *)
(* the unique index holds, and no integer is out of range that would not   *)
(* be so in the end.  p[i] are the tables before statement i.              *)
Leads(ss, t, fin) ==
  \E S, p :
    /\ ss \in Seq(S)
    /\ p[1] = t
    /\ p[Len(ss) + 1] = fin
    /\ \A i \in 1 .. Len(ss) :
         /\ p[i + 1] = Exec(ss[i], p[i])
         /\ UniqueIn(p[i + 1])
         /\ InRange(fin) => InRange(p[i + 1])

-----------------------------------------------------------------------------
(* Lists of statements. *)

(* Nothing leads to where one is.                                          *)
LEMMA LeadsNil == ASSUME NEW fin PROVE Leads(<<>>, fin, fin)
<1> DEFINE p == [i \in {1} |-> fin]
<1>1. <<>> \in Seq({}) /\ Len(<<>>) = 0
  OBVIOUS
<1>2. p[1] = fin
  OBVIOUS
<1> HIDE DEF p
<1>3. /\ p[Len(<<>>) + 1] = fin
      /\ \A i \in 1 .. Len(<<>>) : /\ p[i + 1] = Exec(<<>>[i], p[i])
                                   /\ UniqueIn(p[i + 1])
                                   /\ InRange(fin) => InRange(p[i + 1])
  BY <1>1, <1>2
<1> QED BY <1>1, <1>2, <1>3 DEF Leads

(* When no statement is left, the tables are the final ones.               *)
LEMMA LeadsEnd == ASSUME NEW t, NEW fin, Leads(<<>>, t, fin) PROVE t = fin
<1>1. Len(<<>>) = 0
  OBVIOUS
<1> QED BY <1>1 DEF Leads

(* A statement put before a list that leads on.                            *)
LEMMA LeadsCons ==
  ASSUME NEW S, NEW q \in Seq(S), NEW a \in S, NEW t, NEW fin,
         Leads(q, Exec(a, t), fin), UniqueIn(Exec(a, t)),
         InRange(fin) => InRange(Exec(a, t))
  PROVE  /\ Leads(<<a>> \o q, t, fin)
         /\ <<a>> \o q \in Seq(S)
<1>1. PICK p : /\ p[1] = Exec(a, t) /\ p[Len(q) + 1] = fin
               /\ \A i \in 1 .. Len(q) :
                    /\ p[i + 1] = Exec(q[i], p[i])
                    /\ UniqueIn(p[i + 1])
                    /\ InRange(fin) => InRange(p[i + 1])
  BY DEF Leads
<1> DEFINE n == Len(q)
           ss == <<a>> \o q
           P == [i \in 1 .. n + 2 |-> IF i = 1 THEN t ELSE p[i - 1]]
<1>2. /\ ss \in Seq(S) /\ Len(ss) = n + 1 /\ ss[1] = a /\ n \in Nat
      /\ \A i \in 1 .. n : ss[i + 1] = q[i]
  OBVIOUS
<1>3. /\ P[1] = t
      /\ \A i \in 1 .. n + 1 : P[i + 1] = p[i]
  BY <1>2
<1> HIDE DEF P, ss, n
<1>4. P[Len(ss) + 1] = fin
  BY <1>1, <1>2, <1>3 DEF n
<1>5. ASSUME NEW i \in 1 .. Len(ss)
      PROVE  /\ P[i + 1] = Exec(ss[i], P[i])
             /\ UniqueIn(P[i + 1])
             /\ InRange(fin) => InRange(P[i + 1])
  <2>1. CASE i = 1
    BY <1>1, <1>2, <1>3, <2>1
  <2>2. CASE i # 1
    <3>1. PICK k \in 1 .. n : i = k + 1
      <4>1. i - 1 \in 1 .. n /\ i = (i - 1) + 1
        BY <1>2, <2>2
      <4> QED BY <4>1
    <3>2. /\ P[i] = p[k] /\ P[i + 1] = p[k + 1] /\ ss[i] = q[k]
      BY <1>2, <1>3, <3>1
    <3> QED BY <1>1, <3>1, <3>2 DEF n
  <2> QED BY <2>1, <2>2
<1>6. Leads(ss, t, fin)
  BY <1>2, <1>3, <1>4, <1>5 DEF Leads
<1> QED BY <1>2, <1>6 DEF ss

(* The first of the statements, and what is left after it.                 *)
LEMMA LeadsStep ==
  ASSUME NEW ss, NEW t, NEW fin, Leads(ss, t, fin), ss # <<>>
  PROVE  LET u == Exec(Head(ss), t) IN
         /\ UniqueIn(u)
         /\ InRange(fin) => InRange(u)
         /\ Leads(Tail(ss), u, fin)
<1>1. PICK S, p : /\ ss \in Seq(S)
                  /\ p[1] = t /\ p[Len(ss) + 1] = fin
                  /\ \A i \in 1 .. Len(ss) :
                       /\ p[i + 1] = Exec(ss[i], p[i])
                       /\ UniqueIn(p[i + 1])
                       /\ InRange(fin) => InRange(p[i + 1])
  BY DEF Leads
<1> DEFINE q == Tail(ss)
           P == [i \in 1 .. Len(ss) |-> p[i + 1]]
<1>2. /\ Len(ss) \in Nat /\ Len(ss) > 0 /\ Head(ss) = ss[1]
      /\ q \in Seq(S) /\ Len(q) = Len(ss) - 1
      /\ \A i \in 1 .. Len(q) : q[i] = ss[i + 1]
  BY <1>1
<1>3. \A i \in 1 .. Len(ss) : P[i] = p[i + 1]
  OBVIOUS
<1> HIDE DEF q, P
<1>4. /\ p[1 + 1] = Exec(Head(ss), t) /\ UniqueIn(p[1 + 1])
      /\ InRange(fin) => InRange(p[1 + 1])
  BY <1>1, <1>2
<1>5. P[1] = p[1 + 1] /\ P[Len(q) + 1] = fin
  BY <1>1, <1>2, <1>3
<1>6. ASSUME NEW i \in 1 .. Len(q)
      PROVE  /\ P[i + 1] = Exec(q[i], P[i])
             /\ UniqueIn(P[i + 1])
             /\ InRange(fin) => InRange(P[i + 1])
  <2>1. i + 1 \in 1 .. Len(ss) /\ i \in 1 .. Len(ss)
    BY <1>2
  <2>2. P[i] = p[i + 1] /\ P[i + 1] = p[(i + 1) + 1] /\ q[i] = ss[i + 1]
    BY <1>2, <1>3, <2>1
  <2> QED BY <1>1, <2>1, <2>2
<1>7. Leads(q, P[1], fin)
  BY <1>2, <1>5, <1>6 DEF Leads
<1> QED BY <1>4, <1>5, <1>7 DEF q

(* A pair of statements before a list, one by one.                         *)
LEMMA PairCons ==
  ASSUME NEW S, NEW a \in S, NEW b \in S, NEW q \in Seq(S)
  PROVE  <<a, b>> \o q = <<a>> \o (<<b>> \o q)
<1>1. <<a>> \in Seq(S) /\ <<b>> \in Seq(S) /\ <<a, b>> \in Seq(S)
  OBVIOUS
<1>2. /\ <<a>> \o <<b>> \in Seq(S) /\ Len(<<a>> \o <<b>>) = 2
      /\ (<<a>> \o <<b>>)[1] = a /\ (<<a>> \o <<b>>)[2] = b
  BY <1>1
<1>3. Len(<<a, b>>) = 2 /\ <<a, b>>[1] = a /\ <<a, b>>[2] = b
  OBVIOUS
<1>4. \A i \in 1 .. 2 : i = 1 \/ i = 2
  OBVIOUS
<1>5. <<a, b>> = <<a>> \o <<b>>
  BY <1>1, <1>2, <1>3, <1>4, SeqEqual
<1> QED BY <1>1, <1>5, ConcatAssociative

(* Four statements, one by one.                                            *)
LEMMA FourCons ==
  ASSUME NEW S, NEW a \in S, NEW b \in S, NEW c \in S, NEW d \in S
  PROVE  <<a, b, c, d>> = <<a>> \o (<<b>> \o (<<c>> \o (<<d>> \o <<>>)))
<1>1. <<a, b>> \in Seq(S) /\ <<c, d>> \in Seq(S) /\ <<a, b, c, d>> \in Seq(S)
      /\ <<>> \in Seq(S)
  OBVIOUS
<1> DEFINE e == <<a, b>> \o <<c, d>>
<1>2. /\ e \in Seq(S) /\ Len(e) = 4
      /\ e[1] = a /\ e[2] = b /\ e[3] = c /\ e[4] = d
  BY <1>1
<1>3. /\ Len(<<a, b, c, d>>) = 4
      /\ <<a, b, c, d>>[1] = a /\ <<a, b, c, d>>[2] = b
      /\ <<a, b, c, d>>[3] = c /\ <<a, b, c, d>>[4] = d
  OBVIOUS
<1>4. \A i \in 1 .. 4 : i = 1 \/ i = 2 \/ i = 3 \/ i = 4
  OBVIOUS
<1> HIDE DEF e
<1>5. <<a, b, c, d>> = e
  BY <1>1, <1>2, <1>3, <1>4, SeqEqual
<1>6. <<c, d>> = <<c, d>> \o <<>>
  BY <1>1, ConcatEmptySeq
<1>7. <<c, d>> \o <<>> = <<c>> \o (<<d>> \o <<>>)
  <2>1. PICK z \in Seq(S) : z = <<>>
    BY <1>1
  <2>2. <<c, d>> \o z = <<c>> \o (<<d>> \o z)
    BY PairCons
  <2> QED BY <2>1, <2>2, Zenon
<1>8. <<a, b>> \o <<c, d>> = <<a>> \o (<<b>> \o <<c, d>>)
  <2>1. PICK z \in Seq(S) : z = <<c, d>>
    BY <1>1
  <2>2. <<a, b>> \o z = <<a>> \o (<<b>> \o z)
    BY PairCons
  <2> QED BY <2>1, <2>2, Zenon
<1> QED BY <1>5, <1>6, <1>7, <1>8, Zenon DEF e

-----------------------------------------------------------------------------
(* What each statement does to the tables d, q and h. *)

Tab(d, q, h) == [data |-> d, requests |-> q, deal_history |-> h]

Money == [usd : Int, rub : Int]

AddUsd(d, who, x) == [d EXCEPT ![who].usd = @ + x]
AddRub(d, who, x) == [d EXCEPT ![who].rub = @ + x]
Paid(d, b, s, x, y) ==
  [d EXCEPT ![b] = [usd |-> @.usd + x, rub |-> @.rub - y],
            ![s] = [usd |-> @.usd - x, rub |-> @.rub + y]]

(* The effect of a statement on the three tables.                          *)
LEMMA ExecTab ==
  ASSUME NEW d, NEW q, NEW h, NEW who, NEW x
  PROVE  /\ Exec(statement("take", who, x), Tab(d, q, h))
              = Tab(d, TakeUsd(q, who, x), h)
         /\ Exec(statement("deactivate", who, x), Tab(d, q, h))
              = Tab(d, Deactivate(q, who), h)
         /\ Exec(statement("insert", who, x), Tab(d, q, h))
              = Tab(d, q, Append(h, x))
         /\ Exec(statement("usd", who, x), Tab(d, q, h))
              = Tab(AddUsd(d, who, x), q, h)
         /\ Exec(statement("rub", who, x), Tab(d, q, h))
              = Tab(AddRub(d, who, x), q, h)
<1>1. Exec(statement("take", who, x), Tab(d, q, h))
        = Tab(d, TakeUsd(q, who, x), h)
  BY DEF Exec, statement, Tab
<1>2. Exec(statement("deactivate", who, x), Tab(d, q, h))
        = Tab(d, Deactivate(q, who), h)
  BY DEF Exec, statement, Tab
<1>3. Exec(statement("insert", who, x), Tab(d, q, h)) = Tab(d, q, Append(h, x))
  BY DEF Exec, statement, Tab
<1>4. Exec(statement("usd", who, x), Tab(d, q, h)) = Tab(AddUsd(d, who, x), q, h)
  BY DEF Exec, statement, Tab, AddUsd
<1>5. Exec(statement("rub", who, x), Tab(d, q, h)) = Tab(AddRub(d, who, x), q, h)
  BY DEF Exec, statement, Tab, AddRub
<1> QED BY <1>1, <1>2, <1>3, <1>4, <1>5

(* The checks of the database, table by table.                             *)
LEMMA ChecksTab ==
  ASSUME NEW d, NEW q, NEW h
  PROVE  /\ UniqueIn(Tab(d, q, h)) <=> Distinct(h)
         /\ InRange(Tab(d, q, h)) <=>
              /\ \A id \in DOMAIN q : q[id].usd \in Int32
              /\ \A u \in Users : d[u].usd \in Int32 /\ d[u].rub \in Int32
  BY DEF UniqueIn, Distinct, InRange, Tab

(* One UPDATE of table data changes one field of one row.                  *)
LEMMA UpdateMoney ==
  ASSUME NEW d \in [Users -> Money], NEW w \in Users, NEW x \in Int
  PROVE  /\ AddUsd(d, w, x) \in [Users -> Money]
         /\ AddRub(d, w, x) \in [Users -> Money]
         /\ \A u \in Users :
              /\ AddUsd(d, w, x)[u].usd = IF u = w THEN d[u].usd + x
                                          ELSE d[u].usd
              /\ AddUsd(d, w, x)[u].rub = d[u].rub
              /\ AddRub(d, w, x)[u].rub = IF u = w THEN d[u].rub + x
                                          ELSE d[u].rub
              /\ AddRub(d, w, x)[u].usd = d[u].usd
  BY DEF Money, AddUsd, AddRub

(* The four UPDATEs of table data, in their order, are Pay.  In between    *)
(* each field has its old or its new value.                                *)
LEMMA PayStages ==
  ASSUME NEW d \in [Users -> Money], NEW b \in Users, NEW s \in Users, b # s,
         NEW x \in Int, NEW y \in Int
  PROVE  LET d1 == AddUsd(d, b, x)
             d2 == AddRub(d1, b, -y)
             d3 == AddUsd(d2, s, -x)
             d4 == AddRub(d3, s, y)
         IN /\ d4 = Paid(d, b, s, x, y)
            /\ \A u \in Users : \A e \in {d1, d2, d3} :
                 /\ e[u].usd \in {d[u].usd, d4[u].usd}
                 /\ e[u].rub \in {d[u].rub, d4[u].rub}
<1> DEFINE d1 == AddUsd(d, b, x)
           d2 == AddRub(d1, b, -y)
           d3 == AddUsd(d2, s, -x)
           d4 == AddRub(d3, s, y)
           f  == Paid(d, b, s, x, y)
<1>1. -x \in Int /\ -y \in Int
  OBVIOUS
<1>2. /\ d1 \in [Users -> Money]
      /\ \A u \in Users :
           /\ d1[u].usd = (IF u = b THEN d[u].usd + x ELSE d[u].usd)
           /\ d1[u].rub = d[u].rub
  BY UpdateMoney
<1> HIDE DEF d1
<1>3. /\ d2 \in [Users -> Money]
      /\ \A u \in Users :
           /\ d2[u].rub = (IF u = b THEN d1[u].rub + (-y) ELSE d1[u].rub)
           /\ d2[u].usd = d1[u].usd
  BY <1>1, <1>2, UpdateMoney
<1> HIDE DEF d2
<1>4. /\ d3 \in [Users -> Money]
      /\ \A u \in Users :
           /\ d3[u].usd = (IF u = s THEN d2[u].usd + (-x) ELSE d2[u].usd)
           /\ d3[u].rub = d2[u].rub
  BY <1>1, <1>3, UpdateMoney
<1> HIDE DEF d3
<1>5. /\ d4 \in [Users -> Money]
      /\ \A u \in Users :
           /\ d4[u].rub = (IF u = s THEN d3[u].rub + y ELSE d3[u].rub)
           /\ d4[u].usd = d3[u].usd
  BY <1>4, UpdateMoney
<1> HIDE DEF d4
<1>6. f \in [Users -> Money] /\ \A u \in Users :
        /\ f[u].usd = (IF u = s THEN d[u].usd - x
                       ELSE IF u = b THEN d[u].usd + x ELSE d[u].usd)
        /\ f[u].rub = (IF u = s THEN d[u].rub + y
                       ELSE IF u = b THEN d[u].rub - y ELSE d[u].rub)
  BY DEF Money, Paid
<1> HIDE DEF f
<1>7. \A u \in Users : d[u].usd \in Int /\ d[u].rub \in Int
  BY DEF Money
<1>8. \A u \in Users :
        /\ d4[u].usd = (IF u = s THEN d[u].usd - x
                        ELSE IF u = b THEN d[u].usd + x ELSE d[u].usd)
        /\ d4[u].rub = (IF u = s THEN d[u].rub + y
                        ELSE IF u = b THEN d[u].rub - y ELSE d[u].rub)
  <2> SUFFICES ASSUME NEW u \in Users
               PROVE  /\ d4[u].usd = (IF u = s THEN d[u].usd - x
                                      ELSE IF u = b THEN d[u].usd + x
                                      ELSE d[u].usd)
                      /\ d4[u].rub = (IF u = s THEN d[u].rub + y
                                      ELSE IF u = b THEN d[u].rub - y
                                      ELSE d[u].rub)
    OBVIOUS
  <2>1. /\ d4[u].usd = (IF u = s THEN d2[u].usd + (-x) ELSE d2[u].usd)
        /\ d2[u].usd = (IF u = b THEN d[u].usd + x ELSE d[u].usd)
    BY <1>2, <1>3, <1>4, <1>5
  <2>2. /\ d4[u].rub = (IF u = s THEN d2[u].rub + y ELSE d2[u].rub)
        /\ d2[u].rub = (IF u = b THEN d[u].rub + (-y) ELSE d[u].rub)
    BY <1>2, <1>3, <1>4, <1>5
  <2> QED BY <1>7, <2>1, <2>2
<1>9. d4 = f
  <2>1. \A u \in Users : d4[u] = f[u]
    <3> SUFFICES ASSUME NEW u \in Users PROVE d4[u] = f[u]
      OBVIOUS
    <3>1. /\ d4[u] \in Money /\ f[u] \in Money
          /\ d4[u].usd = f[u].usd /\ d4[u].rub = f[u].rub
      BY <1>5, <1>6, <1>8
    <3> QED BY <3>1 DEF Money
  <2> QED BY <1>5, <1>6, <2>1
<1>10. \A u \in Users : /\ d1[u].usd \in {d[u].usd, d4[u].usd}
                        /\ d1[u].rub \in {d[u].rub, d4[u].rub}
  BY <1>2, <1>8
<1>11. \A u \in Users : /\ d2[u].usd \in {d[u].usd, d4[u].usd}
                        /\ d2[u].rub \in {d[u].rub, d4[u].rub}
  BY <1>2, <1>3, <1>7, <1>8
<1>12. \A u \in Users : /\ d3[u].usd \in {d[u].usd, d4[u].usd}
                        /\ d3[u].rub \in {d[u].rub, d4[u].rub}
  <2> SUFFICES ASSUME NEW u \in Users
               PROVE  /\ d3[u].usd \in {d[u].usd, d4[u].usd}
                      /\ d3[u].rub \in {d[u].rub, d4[u].rub}
    OBVIOUS
  <2>1. /\ d3[u].usd = (IF u = s THEN d2[u].usd + (-x) ELSE d2[u].usd)
        /\ d3[u].rub = d2[u].rub
        /\ d2[u].usd = (IF u = b THEN d[u].usd + x ELSE d[u].usd)
        /\ d2[u].rub = (IF u = b THEN d[u].rub + (-y) ELSE d[u].rub)
    BY <1>2, <1>3, <1>4
  <2>2. d3[u].usd \in {d[u].usd, d4[u].usd}
    BY <1>7, <1>8, <2>1
  <2>3. d3[u].rub \in {d[u].rub, d4[u].rub}
    BY <1>7, <1>8, <2>1
  <2> QED BY <2>2, <2>3
<1> QED BY <1>9, <1>10, <1>11, <1>12 DEF d1, d2, d3, d4, f

Statements ==
  {statement(k, w, x) : k \in {"take", "deactivate", "insert", "usd", "rub"},
                        w \in Users \cup Nat, x \in Int \cup Deal}

(* What the statements are made of.                                        *)
LEMMA StatementIn ==
  /\ \A w \in Users, x \in Int : /\ statement("take", w, x) \in Statements
                                 /\ statement("deactivate", w, x) \in Statements
                                 /\ statement("usd", w, x) \in Statements
                                 /\ statement("rub", w, x) \in Statements
  /\ \A w \in Nat, x \in Deal : statement("insert", w, x) \in Statements
  BY DEF Statements

(* The payment leads from the old balances to the new ones.                *)
LEMMA PayLeads ==
  ASSUME NEW tx, tx.buyer \in Users, tx.seller \in Users,
         tx.buyer # tx.seller, tx.usd \in Int32, tx.price \in Int32,
         data \in [Users -> Balance], NEW q, NEW h, Distinct(h)
  PROVE  /\ Leads(PayStatements(tx), Tab(data, q, h), Tab(Pay(tx), q, h))
         /\ PayStatements(tx) \in Seq(Statements)
<1> DEFINE b == tx.buyer
           s == tx.seller
           x == tx.usd
           y == Wrap(tx.price * tx.usd)
           d1 == AddUsd(data, b, x)
           d2 == AddRub(d1, b, -y)
           d3 == AddUsd(d2, s, -x)
           d4 == AddRub(d3, s, y)
           a1 == statement("usd", b, x)
           a2 == statement("rub", b, -y)
           a3 == statement("usd", s, -x)
           a4 == statement("rub", s, y)
           fin == Tab(Pay(tx), q, h)
<1>1. x \in Int /\ y \in Int /\ -x \in Int /\ -y \in Int
  <2>1. tx.price \in Int /\ tx.usd \in Int
    BY Int32IsInt
  <2>2. y \in Int
    BY <2>1, WrapType, Int32IsInt
  <2> QED BY <2>1, <2>2
<1>2. /\ data \in [Users -> Money]
      /\ \A u \in Users : data[u].usd \in Int32 /\ data[u].rub \in Int32
  BY Int32IsInt DEF Balance, Money
<1>3. Pay(tx) = Paid(data, b, s, x, y)
  BY DEF Pay, Paid
<1>4. PayStatements(tx) = <<a1, a2, a3, a4>>
  BY DEF PayStatements
<1> HIDE DEF x, y, b, s
<1>5. b \in Users /\ s \in Users /\ b # s
  BY DEF b, s
<1>6. /\ Pay(tx) = d4
      /\ \A u \in Users : \A e \in {d1, d2, d3} :
           /\ e[u].usd \in {data[u].usd, d4[u].usd}
           /\ e[u].rub \in {data[u].rub, d4[u].rub}
  BY <1>1, <1>2, <1>3, <1>5, PayStages
<1>7. /\ a1 \in Statements /\ a2 \in Statements /\ a3 \in Statements
      /\ a4 \in Statements
  BY <1>1, <1>5, StatementIn
<1>8. /\ Exec(a1, Tab(data, q, h)) = Tab(d1, q, h)
      /\ Exec(a2, Tab(d1, q, h)) = Tab(d2, q, h)
      /\ Exec(a3, Tab(d2, q, h)) = Tab(d3, q, h)
      /\ Exec(a4, Tab(d3, q, h)) = Tab(d4, q, h)
  BY ExecTab
<1> HIDE DEF a1, a2, a3, a4, d1, d2, d3, d4
<1>9. ASSUME NEW e \in {d1, d2, d3, d4}
      PROVE  /\ UniqueIn(Tab(e, q, h))
             /\ InRange(fin) => InRange(Tab(e, q, h))
  <2>1. UniqueIn(Tab(e, q, h))
    BY ChecksTab
  <2>2. ASSUME InRange(fin) PROVE InRange(Tab(e, q, h))
    <3>1. /\ \A id \in DOMAIN q : q[id].usd \in Int32
          /\ \A u \in Users : d4[u].usd \in Int32 /\ d4[u].rub \in Int32
      BY <1>6, <2>2, ChecksTab
    <3>2. \A u \in Users : e[u].usd \in Int32 /\ e[u].rub \in Int32
      <4> SUFFICES ASSUME NEW u \in Users
                   PROVE  e[u].usd \in Int32 /\ e[u].rub \in Int32
        OBVIOUS
      <4>1. /\ data[u].usd \in Int32 /\ data[u].rub \in Int32
            /\ d4[u].usd \in Int32 /\ d4[u].rub \in Int32
        BY <1>2, <3>1
      <4>2. CASE e = d4
        BY <4>1, <4>2
      <4>3. CASE e \in {d1, d2, d3}
        <5>1. /\ e[u].usd \in {data[u].usd, d4[u].usd}
              /\ e[u].rub \in {data[u].rub, d4[u].rub}
          BY <1>6, <4>3
        <5> QED BY <4>1, <5>1
      <4> QED BY <1>9, <4>2, <4>3
    <3> QED BY <3>1, <3>2, ChecksTab
  <2> QED BY <2>1, <2>2
<1>10. fin = Tab(d4, q, h)
  BY <1>6
<1> HIDE DEF fin
<1>11. <<>> \in Seq(Statements) /\ Leads(<<>>, Tab(d4, q, h), fin)
  BY <1>10, LeadsNil
<1> DEFINE q4 == <<a4>> \o <<>>
           q3 == <<a3>> \o q4
           q2 == <<a2>> \o q3
           q1 == <<a1>> \o q2
<1>12. Leads(q4, Tab(d3, q, h), fin) /\ q4 \in Seq(Statements)
  BY <1>7, <1>8, <1>9, <1>11, LeadsCons
<1> HIDE DEF q4
<1>13. Leads(q3, Tab(d2, q, h), fin) /\ q3 \in Seq(Statements)
  BY <1>7, <1>8, <1>9, <1>12, LeadsCons
<1> HIDE DEF q3
<1>14. Leads(q2, Tab(d1, q, h), fin) /\ q2 \in Seq(Statements)
  BY <1>7, <1>8, <1>9, <1>13, LeadsCons
<1> HIDE DEF q2
<1>15. Leads(q1, Tab(data, q, h), fin) /\ q1 \in Seq(Statements)
  BY <1>7, <1>8, <1>9, <1>14, LeadsCons
<1>16. PayStatements(tx) = q1
  <2>1. <<a1, a2, a3, a4>> = <<a1>> \o (<<a2>> \o (<<a3>> \o (<<a4>> \o <<>>)))
    <3>1. \A a, b_, c, d \in Statements :
            <<a, b_, c, d>> = <<a>> \o (<<b_>> \o (<<c>> \o (<<d>> \o <<>>)))
      BY FourCons
    <3>2. PICK e1, e2, e3, e4 \in Statements :
            e1 = a1 /\ e2 = a2 /\ e3 = a3 /\ e4 = a4
      BY <1>7
    <3>3. <<e1, e2, e3, e4>> = <<e1>> \o (<<e2>> \o (<<e3>> \o (<<e4>> \o <<>>)))
      BY <3>1, SMTT(60)
    <3> QED BY <3>2, <3>3, Zenon
  <2> QED BY <1>4, <2>1, Zenon DEF q1, q2, q3, q4
<1> QED BY <1>15, <1>16 DEF fin

(* The UPDATEs of table requests in a settlement, by the requests closed.  *)
LEMMA SettlementShape ==
  ASSUME IInv, NEW r \in snap, pc = "for"
  PROVE  LET tx == SettlementOf(r)
             owner(id) == requests[id].user
             other == IF tx.closed[1] = lot.id THEN r.id ELSE lot.id
         IN \/ /\ Len(tx.closed) = 1
               /\ tx.rows = Deactivate(TakeUsd(requests, owner(other), tx.usd),
                                       owner(tx.closed[1]))
               /\ owner(other) \in Users /\ owner(tx.closed[1]) \in Users
               /\ tx.closed[1] \in Nat
            \/ /\ Len(tx.closed) = 2
               /\ tx.rows = Deactivate(Deactivate(requests, owner(tx.closed[1])),
                                       owner(tx.closed[2]))
               /\ owner(tx.closed[1]) \in Users /\ owner(tx.closed[2]) \in Users
               /\ tx.closed[1] \in Nat /\ tx.closed[2] \in Nat
<1> DEFINE tx == SettlementOf(r)
<1>1. /\ lot.id # r.id /\ lot.id \in Nat /\ r.id \in Nat
      /\ lot.id \in DOMAIN requests /\ r.id \in DOMAIN requests
  BY SettlementFacts DEF Match, Lot, IInv, SnapInv, SnapRow
<1>2. requests[lot.id].user \in Users /\ requests[r.id].user \in Users
  BY <1>1 DEF IInv, TypeOK, Row
<1>3. CASE lot.usd > r.usd
  <2>1. tx = closeRequest(r.id, lot.id, r.usd, r.price)
    BY <1>3 DEF SettlementOf
  <2>2. /\ tx.closed = <<r.id>> /\ tx.usd = r.usd
        /\ tx.rows = Deactivate(TakeUsd(requests, requests[lot.id].user, r.usd),
                                requests[r.id].user)
    BY <2>1 DEF closeRequest
  <2>3. tx.closed[1] = r.id /\ Len(tx.closed) = 1
    BY <2>2
  <2> QED BY <1>1, <1>2, <2>2, <2>3
<1>4. CASE ~(lot.usd > r.usd) /\ lot.usd < r.usd
  <2>1. tx = closeRequest(lot.id, r.id, lot.usd, r.price)
    BY <1>4 DEF SettlementOf
  <2>2. /\ tx.closed = <<lot.id>> /\ tx.usd = lot.usd
        /\ tx.rows = Deactivate(TakeUsd(requests, requests[r.id].user, lot.usd),
                                requests[lot.id].user)
    BY <2>1 DEF closeRequest
  <2>3. tx.closed[1] = lot.id /\ Len(tx.closed) = 1
    BY <2>2
  <2> QED BY <1>1, <1>2, <2>2, <2>3
<1>5. CASE ~(lot.usd > r.usd) /\ ~(lot.usd < r.usd)
  <2>1. PICK c1, c2 : /\ {c1, c2} = {lot.id, r.id}
                      /\ tx.closed = <<c1, c2>>
                      /\ tx.rows = Deactivate(Deactivate(requests,
                                                         requests[c1].user),
                                              requests[c2].user)
    BY <1>5 DEF SettlementOf, closeTwoWayRequests
  <2>2. tx.closed[1] = c1 /\ tx.closed[2] = c2 /\ Len(tx.closed) = 2
    BY <2>1
  <2> QED BY <1>1, <1>2, <2>1, <2>2
<1> QED BY <1>3, <1>4, <1>5

(* UPDATE ... SET active = false changes no usd_count.                     *)
LEMMA DeactivateKeepsUsd ==
  ASSUME TypeOK, NEW u \in Users, NEW v \in Users, NEW x \in Int
  PROVE  LET t == TakeUsd(requests, u, x)
             a == Deactivate(t, v)
             b == Deactivate(requests, u)
             c == Deactivate(b, v)
         IN /\ DOMAIN a = DOMAIN t /\ \A id \in DOMAIN t : a[id].usd = t[id].usd
            /\ DOMAIN b = DOMAIN requests
            /\ \A id \in DOMAIN requests : b[id].usd \in Int32
            /\ DOMAIN c = DOMAIN requests
            /\ \A id \in DOMAIN requests : c[id].usd \in Int32
<1>1. LET t == TakeUsd(requests, u, x)
          a == Deactivate(t, v)
      IN DOMAIN a = DOMAIN t /\ \A id \in DOMAIN t : a[id].usd = t[id].usd
  BY DEF TypeOK, Deactivate, TakeUsd, Row
<1>2. LET b == Deactivate(requests, u)
          c == Deactivate(b, v)
      IN /\ DOMAIN b = DOMAIN requests
         /\ \A id \in DOMAIN requests : b[id].usd \in Int32
         /\ DOMAIN c = DOMAIN requests
         /\ \A id \in DOMAIN requests : c[id].usd \in Int32
  BY DEF TypeOK, Deactivate, Row
<1> QED BY <1>1, <1>2

(* Who pays whom in a settlement, and how much.                            *)
LEMMA SettlementParties ==
  ASSUME IInv, NEW r \in snap, pc = "for"
  PROVE  LET tx == SettlementOf(r) IN
         /\ tx.buyer \in Users /\ tx.seller \in Users /\ tx.buyer # tx.seller
         /\ tx.usd \in Int32 /\ tx.price \in Int32
<1>1. Settlement(SettlementOf(r), r) /\ r \in Match /\ lot \in Lot
  BY SettlementFacts
<1>2. r.user # lot.user
  BY DEF IInv, SnapInv, SnapRow
<1>3. r.user \in Users /\ lot.user \in Users /\ r.price \in Int32
  BY <1>1 DEF Match, Lot
<1> QED BY <1>1, <1>2, <1>3 DEF Settlement

(* A settlement that closes one request.                                   *)
LEMMA OneLeads ==
  ASSUME IInv, Distinct(deal_history), NEW r \in snap, pc = "for",
         Len(SettlementOf(r).closed) = 1
  PROVE  Leads(StatementsOf(r), Tables, Final(r))
<1> DEFINE tx == SettlementOf(r)
           c1 == tx.closed[1]
           other == IF c1 = lot.id THEN r.id ELSE lot.id
           u1 == requests[c1].user
           u2 == requests[other].user
           x == tx.usd
           t1 == TakeUsd(requests, u2, x)
           h1 == Append(deal_history, DealRow(tx, c1))
           pay == PayStatements(tx)
           a1 == statement("take", u2, x)
           a2 == statement("insert", c1, DealRow(tx, c1))
           a3 == statement("deactivate", u1, 0)
<1>1. /\ tx.rows = Deactivate(t1, u1) /\ u1 \in Users /\ u2 \in Users
      /\ c1 \in Nat
  BY SettlementShape
<1>2. Enter(tx) = h1 /\ DealRow(tx, c1) \in Deal
  BY EnterAppends
<1>3. h1 \in Seq(Deal) /\ Distinct(h1)
  BY SettlesDistinct
<1>4. /\ tx.buyer \in Users /\ tx.seller \in Users /\ tx.buyer # tx.seller
      /\ x \in Int32 /\ tx.price \in Int32
  BY SettlementParties
<1>5. StatementsOf(r) = (<<a1>> \o <<a2, a3>>) \o pay
  BY DEF StatementsOf, DealRow
<1> HIDE DEF tx, c1, other, x, u1, u2
<1>6. x \in Int /\ 0 \in Int /\ TypeOK /\ data \in [Users -> Balance]
  BY <1>4, Int32IsInt DEF IInv, TypeOK
<1>7. a1 \in Statements /\ a2 \in Statements /\ a3 \in Statements
  BY <1>1, <1>2, <1>6, StatementIn
<1> DEFINE fin == Tab(Pay(tx), tx.rows, h1)
<1>8. /\ Leads(pay, Tab(data, tx.rows, h1), fin) /\ pay \in Seq(Statements)
  BY <1>3, <1>4, <1>6, PayLeads DEF x
<1>9. Tables = Tab(data, requests, deal_history) /\ Final(r) = fin
  BY <1>2 DEF Tables, Tab, Final, tx
<1>10. /\ Exec(a1, Tab(data, requests, deal_history)) = Tab(data, t1, deal_history)
       /\ Exec(a2, Tab(data, t1, deal_history)) = Tab(data, t1, h1)
       /\ Exec(a3, Tab(data, t1, h1)) = Tab(data, tx.rows, h1)
  <2> HIDE DEF t1, h1
  <2> QED BY <1>1, ExecTab DEF t1, h1
<1>11. /\ DOMAIN tx.rows = DOMAIN t1
       /\ \A id \in DOMAIN t1 : tx.rows[id].usd = t1[id].usd
  BY <1>1, <1>6, DeactivateKeepsUsd
<1>12. \A u \in Users : data[u].usd \in Int32 /\ data[u].rub \in Int32
  BY <1>6 DEF Balance
<1> HIDE DEF t1, h1, pay, a1, a2, a3
<1>13. /\ UniqueIn(Tab(data, t1, deal_history)) /\ UniqueIn(Tab(data, t1, h1))
       /\ UniqueIn(Tab(data, tx.rows, h1))
  BY <1>3, ChecksTab
<1>14. InRange(fin) => /\ InRange(Tab(data, t1, deal_history))
                       /\ InRange(Tab(data, t1, h1))
                       /\ InRange(Tab(data, tx.rows, h1))
  BY <1>11, <1>12, ChecksTab
<1> HIDE DEF fin
<1> DEFINE q3 == <<a3>> \o pay
           q2 == <<a2>> \o q3
           q1 == <<a1>> \o q2
<1>15. Leads(q3, Tab(data, t1, h1), fin) /\ q3 \in Seq(Statements)
  BY <1>7, <1>8, <1>10, <1>13, <1>14, LeadsCons
<1> HIDE DEF q3
<1>16. Leads(q2, Tab(data, t1, deal_history), fin) /\ q2 \in Seq(Statements)
  BY <1>7, <1>10, <1>13, <1>14, <1>15, LeadsCons
<1> HIDE DEF q2
<1>17. Leads(q1, Tab(data, requests, deal_history), fin)
  BY <1>7, <1>10, <1>13, <1>14, <1>16, LeadsCons
<1>18. (<<a1>> \o <<a2, a3>>) \o pay = q1
  <2>1. <<a2, a3>> \o pay = <<a2>> \o (<<a3>> \o pay)
    BY <1>7, <1>8, PairCons
  <2>2. <<a1>> \in Seq(Statements) /\ <<a2, a3>> \in Seq(Statements)
    BY <1>7
  <2>3. (<<a1>> \o <<a2, a3>>) \o pay = <<a1>> \o (<<a2, a3>> \o pay)
    BY <1>8, <2>2, ConcatAssociative
  <2> QED BY <2>1, <2>3 DEF q2, q3
<1> QED BY <1>5, <1>9, <1>17, <1>18

(* A settlement that closes both requests.                                 *)
LEMMA TwoLeads ==
  ASSUME IInv, Distinct(deal_history), NEW r \in snap, pc = "for",
         Len(SettlementOf(r).closed) = 2
  PROVE  Leads(StatementsOf(r), Tables, Final(r))
<1> DEFINE tx == SettlementOf(r)
           c1 == tx.closed[1]
           c2 == tx.closed[2]
           u1 == requests[c1].user
           u2 == requests[c2].user
           t1 == Deactivate(requests, u1)
           h1 == Append(deal_history, DealRow(tx, c1))
           h2 == Append(h1, DealRow(tx, c2))
           pay == PayStatements(tx)
           a1 == statement("insert", c1, DealRow(tx, c1))
           a2 == statement("deactivate", u1, 0)
           a3 == statement("insert", c2, DealRow(tx, c2))
           a4 == statement("deactivate", u2, 0)
<1>1. /\ tx.rows = Deactivate(t1, u2) /\ u1 \in Users /\ u2 \in Users
      /\ c1 \in Nat /\ c2 \in Nat
  BY SettlementShape
<1>2. /\ Enter(tx) = h2 /\ DealRow(tx, c1) \in Deal /\ DealRow(tx, c2) \in Deal
  BY EnterAppends
<1>3. Distinct(h1) /\ Distinct(h2)
  BY <1>2, SettlesDistinct
<1>4. /\ tx.buyer \in Users /\ tx.seller \in Users /\ tx.buyer # tx.seller
      /\ tx.usd \in Int32 /\ tx.price \in Int32
  BY SettlementParties
<1>5. StatementsOf(r) = (<<a1, a2>> \o <<a3, a4>>) \o pay
  BY DEF StatementsOf, DealRow
<1> HIDE DEF tx, c1, c2, u1, u2
<1>6. 0 \in Int /\ TypeOK /\ data \in [Users -> Balance]
  BY DEF IInv, TypeOK
<1>7. /\ a1 \in Statements /\ a2 \in Statements /\ a3 \in Statements
      /\ a4 \in Statements
  BY <1>1, <1>2, <1>6, StatementIn
<1> DEFINE fin == Tab(Pay(tx), tx.rows, h2)
<1>8. /\ Leads(pay, Tab(data, tx.rows, h2), fin) /\ pay \in Seq(Statements)
  BY <1>3, <1>4, <1>6, PayLeads
<1>9. Tables = Tab(data, requests, deal_history) /\ Final(r) = fin
  BY <1>2 DEF Tables, Tab, Final, tx
<1>10. /\ Exec(a1, Tab(data, requests, deal_history)) = Tab(data, requests, h1)
       /\ Exec(a2, Tab(data, requests, h1)) = Tab(data, t1, h1)
       /\ Exec(a3, Tab(data, t1, h1)) = Tab(data, t1, h2)
       /\ Exec(a4, Tab(data, t1, h2)) = Tab(data, tx.rows, h2)
  <2> HIDE DEF t1, h1, h2
  <2> QED BY <1>1, ExecTab DEF t1, h1, h2
<1>11. /\ DOMAIN t1 = DOMAIN requests /\ DOMAIN tx.rows = DOMAIN requests
       /\ \A id \in DOMAIN requests : /\ requests[id].usd \in Int32
                                      /\ t1[id].usd \in Int32
                                      /\ tx.rows[id].usd \in Int32
  BY <1>1, <1>6, DeactivateKeepsUsd DEF TypeOK, Row
<1>12. \A u \in Users : data[u].usd \in Int32 /\ data[u].rub \in Int32
  BY <1>6 DEF Balance
<1> HIDE DEF t1, h1, h2, pay, a1, a2, a3, a4
<1>13. /\ UniqueIn(Tab(data, requests, h1)) /\ UniqueIn(Tab(data, t1, h1))
       /\ UniqueIn(Tab(data, t1, h2)) /\ UniqueIn(Tab(data, tx.rows, h2))
  BY <1>3, ChecksTab
<1>14. /\ InRange(Tab(data, requests, h1)) /\ InRange(Tab(data, t1, h1))
       /\ InRange(Tab(data, t1, h2)) /\ InRange(Tab(data, tx.rows, h2))
  BY <1>11, <1>12, ChecksTab
<1> HIDE DEF fin
<1> DEFINE q4 == <<a4>> \o pay
           q3 == <<a3>> \o q4
           q2 == <<a2>> \o q3
           q1 == <<a1>> \o q2
<1>15. Leads(q4, Tab(data, t1, h2), fin) /\ q4 \in Seq(Statements)
  BY <1>7, <1>8, <1>10, <1>13, <1>14, LeadsCons
<1> HIDE DEF q4
<1>16. Leads(q3, Tab(data, t1, h1), fin) /\ q3 \in Seq(Statements)
  BY <1>7, <1>10, <1>13, <1>14, <1>15, LeadsCons
<1> HIDE DEF q3
<1>17. Leads(q2, Tab(data, requests, h1), fin) /\ q2 \in Seq(Statements)
  BY <1>7, <1>10, <1>13, <1>14, <1>16, LeadsCons
<1> HIDE DEF q2
<1>18. Leads(q1, Tab(data, requests, deal_history), fin)
  BY <1>7, <1>10, <1>13, <1>14, <1>17, LeadsCons
<1>19. (<<a1, a2>> \o <<a3, a4>>) \o pay = q1
  <2>1. <<a3, a4>> \o pay = q3
    BY <1>7, <1>8, PairCons DEF q3, q4
  <2>2. <<a1, a2>> \o q3 = <<a1>> \o (<<a2>> \o q3)
    BY <1>7, <1>16, PairCons
  <2>3. <<a1, a2>> \in Seq(Statements) /\ <<a3, a4>> \in Seq(Statements)
    BY <1>7
  <2>4. (<<a1, a2>> \o <<a3, a4>>) \o pay = <<a1, a2>> \o (<<a3, a4>> \o pay)
    BY <1>8, <2>3, ConcatAssociative
  <2> QED BY <2>1, <2>2, <2>4 DEF q2
<1> QED BY <1>5, <1>9, <1>18, <1>19

(* Whatever the comparison of the loop chose, the statements lead from the *)
(* committed tables to those that MatchOne commits.                        *)
LEMMA StatementsLead ==
  ASSUME IInv, Distinct(deal_history), NEW r \in snap, pc = "for"
  PROVE  Leads(StatementsOf(r), Tables, Final(r)) /\ InRange(Tables)
<1>1. Len(SettlementOf(r).closed) \in {1, 2}
  BY EnterAppends
<1>2. InRange(Tables)
  BY DEF InRange, Tables, IInv, TypeOK, Row, Balance
<1> QED BY <1>1, <1>2, OneLeads, TwoLeads

-----------------------------------------------------------------------------
(* The invariant. *)

(* The lot being executed is the newest one. *)
LotIsNewest == pc # "idle" => lot.id = Len(placed)

WorkerIsRecord ==
  worker # NoWorker => worker = [tables |-> worker.tables, began |-> worker.began]

(* A settlement in progress is one of the row that the loop visits next,   *)
(* and what is left of it leads from the tables of the transaction to      *)
(* those that MatchOne commits.                                            *)
SettlementInProgress ==
  todo # None =>
    /\ todo = [row |-> todo.row, statements |-> todo.statements]
    /\ IsNext(todo.row)
    /\ worker # NoWorker
    /\ InRange(worker.tables)
    /\ Leads(todo.statements, worker.tables, Final(todo.row))

WInv == /\ WorkerIsRecord
        /\ ReadsSeeCommitted
        /\ DealsAreDated
        /\ SettlementInProgress

SInv == /\ IInv
        /\ Distinct(deal_history)
        /\ LotIsNewest
        /\ WInv

(* A settlement that no statement has committed yet aims at the same       *)
(* tables after each statement.                                            *)
LEMMA FinalKept ==
  ASSUME NEW r, UNCHANGED vars
  PROVE  Final(r)' = Final(r)
<1>1. PICK tx : tx = SettlementOf(r)
  OBVIOUS
<1>2. SettlementOf(r)' = tx
  BY <1>1 DEF SettlementOf, closeRequest, closeTwoWayRequests, vars, dbVars,
              execVars
<1>3. Enter(tx)' = Enter(tx)
  BY DEF Enter, vars, dbVars
<1>4. Pay(tx)' = Pay(tx)
  BY DEF Pay, vars, dbVars
<1>5. Final(r)' = [data |-> Pay(tx)', requests |-> tx.rows,
                   deal_history |-> Enter(tx)']
  BY <1>2 DEF Final
<1> QED BY <1>1, <1>3, <1>4, <1>5 DEF Final

(* A transaction that MakeTransaction finds or opens.                      *)
LEMMA OpenedFacts ==
  ASSUME SInv
  PROVE  /\ Opened = [tables |-> Opened.tables, began |-> Opened.began]
         /\ Opened # NoWorker
         /\ todo = None => Opened.tables = Tables
         /\ todo # None => Opened = worker
         /\ pc # "idle" => Opened.began = lot.id
<1>1. Opened = [tables |-> Opened.tables, began |-> Opened.began]
  BY DEF Opened, SInv, WInv, WorkerIsRecord
<1>2. \A t, b : [tables |-> t, began |-> b] # <<>>
  OBVIOUS
<1>3. Opened # NoWorker
  BY <1>1, <1>2 DEF NoWorker
<1>4. /\ todo = None => Opened.tables = Tables
      /\ todo # None => Opened = worker
      /\ pc # "idle" => Opened.began = lot.id
  BY DEF Opened, SInv, WInv, ReadsSeeCommitted, SettlementInProgress,
         DealsAreDated, LotIsNewest
<1> QED BY <1>1, <1>3, <1>4

(* The handler of a lot ends or goes on with the same lot.                 *)
LEMMA NewestNext == IInv /\ LotIsNewest /\ [Next]_vars => LotIsNewest'
<1> SUFFICES ASSUME IInv, LotIsNewest, [Next]_vars PROVE LotIsNewest'
  OBVIOUS
<1>1. ASSUME NEW u \in Users, NEW op \in Op, NEW n \in Counts,
             NEW p \in Prices, CreateLot(u, op, n, p)
      PROVE  LotIsNewest'
  <2> DEFINE o == [user |-> u, op |-> op, usd |-> n, price |-> p]
  <2>1. lot'.id = Len(placed) + 1 /\ placed' = Append(placed, o)
    BY <1>1 DEF CreateLot
  <2>2. placed \in Seq(Order) /\ o \in Order
    BY InputAssumption DEF IInv, TypeOK, Order
  <2> HIDE DEF o
  <2> QED BY <2>1, <2>2 DEF LotIsNewest
<1>2. ASSUME NEW why, Stop(why) PROVE LotIsNewest'
  BY <1>2 DEF Stop, LotIsNewest
<1>3. CASE QueryMatches
  BY <1>3 DEF QueryMatches, LotIsNewest, histVars
<1>4. CASE ReturnResponses
  BY <1>4 DEF ReturnResponses, LotIsNewest
<1>5. ASSUME NEW r \in snap, MatchOne(r) PROVE LotIsNewest'
  BY <1>5 DEF MatchOne, IsNext, LotIsNewest
<1>6. ASSUME NEW u \in Users, NEW id \in 1 .. MaxRequests, Cancel(u, id)
      PROVE  LotIsNewest'
  BY <1>2, <1>6 DEF Cancel, CancelDeletes, CancelRefused, Answer, LotIsNewest,
                    histVars
<1>7. CASE Restart \/ UNCHANGED vars
  BY <1>7 DEF Restart, vars, execVars, histVars, LotIsNewest
<1> QED BY <1>1, <1>2, <1>3, <1>4, <1>5, <1>6, <1>7
        DEF Next, Handler, MatchRefused, Kill

-----------------------------------------------------------------------------
(* The steps. *)

(* What the database checks of the final tables is what MatchOne asks.     *)
LEMMA FinalRange ==
  ASSUME NEW r
  PROVE  RangeHolds(SettlementOf(r)) <=> InRange(Final(r))
<1>1. /\ Final(r).data = Pay(SettlementOf(r))
      /\ Final(r).requests = SettlementOf(r).rows
  BY DEF Final
<1> QED BY <1>1 DEF RangeHolds, InRange

(* A statement of the settlement in progress: the unique index admits it,  *)
(* and when a column is out of range then MatchOne is refused as well.     *)
LEMMA StatementFacts ==
  ASSUME SInv, todo # None, todo.statements # <<>>, NEW t,
         t = Exec(Head(todo.statements), Opened.tables)
  PROVE  /\ UniqueIn(t)
         /\ InRange(Final(todo.row)) => InRange(t)
         /\ Leads(Tail(todo.statements), t, Final(todo.row))
<1>1. Opened = worker
  BY OpenedFacts
<1>2. Leads(todo.statements, worker.tables, Final(todo.row))
  BY DEF SInv, WInv, SettlementInProgress
<1> QED BY <1>1, <1>2, LeadsStep

(* A failed statement is a refused MatchOne.                               *)
LEMMA FailedStatement ==
  ASSUME SInv, Statement
  PROVE  \/ UNCHANGED vars
         \/ \E r \in snap : MatchRefused(r)
<1>1. PICK t : t = Exec(Head(todo.statements), Opened.tables)
  OBVIOUS
<1>2. /\ todo # None /\ todo.statements # <<>>
      /\ \/ UNCHANGED vars
         \/ /\ ~(UniqueIn(t) /\ InRange(t))
            /\ Stop(IF UniqueIn(t) THEN "out_of_range" ELSE "integrity")
  BY <1>1 DEF Statement
<1>3. UniqueIn(t) /\ (InRange(Final(todo.row)) => InRange(t))
  BY <1>1, <1>2, StatementFacts
<1>4. CASE ~InRange(t) /\ Stop("out_of_range")
  <2>1. ~RangeHolds(SettlementOf(todo.row))
    BY <1>3, <1>4, FinalRange
  <2>2. IsNext(todo.row)
    BY <1>2 DEF SInv, WInv, SettlementInProgress
  <2>3. todo.row \in snap /\ pc = "for" /\ IInv
    BY <2>2 DEF IsNext, SInv
  <2>4. IntegrityHolds(todo.row)
    BY <2>3, SettlesInIntegrity
  <2>5. MatchRefused(todo.row)
    BY <1>4, <2>1, <2>2, <2>4 DEF MatchRefused
  <2> QED BY <2>3, <2>5
<1> QED BY <1>2, <1>3, <1>4

(* What is committed is what MatchOne commits.                             *)
LEMMA CommitIsMatch ==
  ASSUME SInv, Commit
  PROVE  \E r \in snap : MatchOne(r)
<1>1. PICK r : r = todo.row
  OBVIOUS
<1>2. /\ todo # None /\ todo.statements = <<>>
      /\ data' = worker.tables.data
      /\ requests' = worker.tables.requests
      /\ deal_history' = worker.tables.deal_history
      /\ Matched(r, SettlementOf(r))
      /\ UNCHANGED <<server, lot, placed, cut>>
  BY <1>1 DEF Commit
<1>3. /\ IsNext(r) /\ InRange(worker.tables)
      /\ Leads(todo.statements, worker.tables, Final(r))
  BY <1>1, <1>2 DEF SInv, WInv, SettlementInProgress
<1>4. worker.tables = Final(r)
  BY <1>2, <1>3, LeadsEnd
<1>5. /\ data' = Pay(SettlementOf(r))
      /\ requests' = SettlementOf(r).rows
      /\ deal_history' = Enter(SettlementOf(r))
  BY <1>2, <1>4 DEF Final
<1>6. RangeHolds(SettlementOf(r))
  BY <1>3, <1>4, FinalRange
<1>7. r \in snap /\ pc = "for" /\ IInv
  BY <1>3 DEF IsNext, SInv
<1>8. IntegrityHolds(r)
  BY <1>7, SettlesInIntegrity
<1>9. MatchOne(r)
  BY <1>2, <1>3, <1>5, <1>6, <1>8 DEF MatchOne
<1> QED BY <1>7, <1>9

(* The SELECTs of a settlement find both requests.                         *)
LEMMA BeginFinds ==
  ASSUME SInv, NEW r \in snap, Begin(r)
  PROVE  /\ todo' = [row |-> r, statements |-> StatementsOf(r)]
         /\ worker' = Opened
         /\ UNCHANGED vars
         /\ IsNext(r) /\ pc = "for" /\ todo = None
<1>1. pc = "for" /\ IsNext(r) /\ IInv
  BY DEF Begin, IsNext, SInv
<1>2. {r.id, lot.id} \subseteq DOMAIN requests
  BY <1>1, SettlesInIntegrity DEF IntegrityHolds
<1> QED BY <1>1, <1>2 DEF Begin

(* Every step of the database manager is a step of OrderBook, or changes   *)
(* nothing that is committed.                                              *)
LEMMA StepRefines == SInv /\ [SNext]_svars => [Next]_vars
<1> SUFFICES ASSUME SInv, [SNext]_svars PROVE [Next]_vars
  OBVIOUS
<1>1. ASSUME NEW u \in Users, NEW op \in Op, NEW n \in Counts,
             NEW p \in Prices, StoreLot(u, op, n, p)
      PROVE  Next
  BY <1>1 DEF StoreLot, Next
<1>2. CASE Query \/ Return
  BY <1>2 DEF Query, Return, Next, Handler
<1>3. CASE Statement
  BY <1>3, FailedStatement DEF Next, Handler
<1>4. CASE Commit
  BY <1>4, CommitIsMatch DEF Next, Handler
<1>5. ASSUME NEW r \in snap, Begin(r) PROVE UNCHANGED vars
  BY <1>5, BeginFinds
<1>6. ASSUME NEW u \in Users, NEW id \in 1 .. MaxRequests,
             Delete(u, id) \/ Refuse(u, id)
      PROVE  Next
  BY <1>6 DEF Delete, Refuse, Next, Cancel
<1>7. CASE Read \/ Register \/ UNCHANGED svars
  BY <1>7 DEF Read, Register, svars
<1>8. CASE Die \/ Reconnect
  BY <1>8 DEF Die, Reconnect, Next
<1> QED BY <1>1, <1>2, <1>3, <1>4, <1>5, <1>6, <1>7, <1>8 DEF SNext, Running

(* A handler that leaves no transaction behind.                            *)
LEMMA ClosedInv ==
  ASSUME worker' = NoWorker, todo' = None
  PROVE  WInv'
BY DEF WInv, WorkerIsRecord, ReadsSeeCommitted, DealsAreDated,
       SettlementInProgress

(* A handler that only reads, and leaves its transaction open.             *)
LEMMA ReadInv ==
  ASSUME SInv, todo = None, todo' = None,
         worker' = Opened \/ (UNCHANGED worker /\ worker # NoWorker),
         UNCHANGED dbVars,
         pc' # "idle" => pc # "idle" /\ lot' = lot
  PROVE  WInv'
<1>1. worker' = Opened
  BY DEF Opened
<1>2. /\ Opened = [tables |-> Opened.tables, began |-> Opened.began]
      /\ Opened.tables = Tables
      /\ pc # "idle" => Opened.began = lot.id
  BY OpenedFacts
<1>3. Tables' = Tables
  BY DEF Tables, dbVars
<1>4. WorkerIsRecord'
  BY <1>1, <1>2 DEF WorkerIsRecord
<1>5. ReadsSeeCommitted'
  BY <1>1, <1>2, <1>3 DEF ReadsSeeCommitted
<1>6. DealsAreDated'
  BY <1>1, <1>2 DEF DealsAreDated
<1>7. SettlementInProgress'
  BY DEF SettlementInProgress
<1> QED BY <1>4, <1>5, <1>6, <1>7 DEF WInv

(* A settlement begins in a transaction that holds the committed tables.   *)
LEMMA BeginInv ==
  ASSUME SInv, NEW r \in snap, Begin(r)
  PROVE  WInv'
<1>1. /\ todo' = [row |-> r, statements |-> StatementsOf(r)]
      /\ worker' = Opened /\ UNCHANGED vars
      /\ IsNext(r) /\ pc = "for" /\ todo = None
  BY BeginFinds
<1>2. /\ Opened = [tables |-> Opened.tables, began |-> Opened.began]
      /\ Opened.tables = Tables /\ Opened.began = lot.id
      /\ Opened # NoWorker
  BY <1>1, OpenedFacts
<1>3. PICK ss : ss = StatementsOf(r)
  OBVIOUS
<1>4. todo'.row = r /\ todo'.statements = ss
  BY <1>1, <1>3
<1>5. WorkerIsRecord'
  BY <1>1, <1>2 DEF WorkerIsRecord
<1>6. todo' # None
  <2>1. \A a, b : [row |-> a, statements |-> b] # <<>>
    OBVIOUS
  <2> QED BY <1>1, <2>1 DEF None
<1>7. ReadsSeeCommitted'
  BY <1>6 DEF ReadsSeeCommitted
<1>8. DealsAreDated'
  BY <1>1, <1>2 DEF DealsAreDated, vars, execVars
<1>9. SettlementInProgress'
  <2>1. Leads(ss, Tables, Final(r)) /\ InRange(Tables)
    BY <1>1, <1>3, StatementsLead DEF SInv
  <2>2. Final(r)' = Final(r)
    BY <1>1, FinalKept
  <2>3. IsNext(r)'
    BY <1>1 DEF IsNext, vars, execVars
  <2>4. Leads(ss, worker'.tables, Final(r)') /\ InRange(worker'.tables)
    BY <1>1, <1>2, <2>1, <2>2
  <2>5. todo' = [row |-> r, statements |-> ss] /\ worker' # NoWorker
    BY <1>1, <1>2, <1>3
  <2> QED BY <1>4, <2>3, <2>4, <2>5 DEF SettlementInProgress
<1> QED BY <1>5, <1>7, <1>8, <1>9 DEF WInv

(* A settlement goes on by a statement, or ends with the process.          *)
LEMMA StatementInv == ASSUME SInv, Statement PROVE WInv'
<1>1. PICK t : t = Exec(Head(todo.statements), Opened.tables)
  OBVIOUS
<1>2. CASE Ended
  BY <1>2, ClosedInv DEF Ended
<1>3. CASE ~Ended
  <2>1. /\ todo # None /\ todo.statements # <<>> /\ InRange(t)
        /\ worker' = [Opened EXCEPT !.tables = t]
        /\ todo' = [todo EXCEPT !.statements = Tail(@)]
        /\ UNCHANGED vars
    BY <1>1, <1>3 DEF Statement
  <2>2. /\ Opened = [tables |-> Opened.tables, began |-> Opened.began]
        /\ pc # "idle" => Opened.began = lot.id
    BY OpenedFacts
  <2>3. /\ todo = [row |-> todo.row, statements |-> todo.statements]
        /\ IsNext(todo.row)
    BY <2>1 DEF SInv, WInv, SettlementInProgress
  <2>4. Leads(Tail(todo.statements), t, Final(todo.row))
    BY <1>1, <2>1, StatementFacts
  <2>5. PICK r, q : r = todo.row /\ q = Tail(todo.statements)
    OBVIOUS
  <2>6. todo' = [row |-> r, statements |-> q] /\ todo'.row = r
        /\ todo'.statements = q
    BY <2>1, <2>3, <2>5
  <2>7. PICK b : b = Opened.began
    OBVIOUS
  <2>8. worker' = [tables |-> t, began |-> b] /\ worker'.tables = t
        /\ worker'.began = b
    BY <2>1, <2>2, <2>7
  <2>9. worker' # NoWorker /\ todo' # None
    <3>1. /\ \A x, y : [row |-> x, statements |-> y] # <<>>
          /\ \A x, y : [tables |-> x, began |-> y] # <<>>
      OBVIOUS
    <3> QED BY <2>6, <2>8, <3>1 DEF None, NoWorker
  <2>10. WorkerIsRecord' /\ ReadsSeeCommitted'
    BY <2>8, <2>9 DEF WorkerIsRecord, ReadsSeeCommitted
  <2>11. DealsAreDated'
    BY <2>1, <2>2, <2>7, <2>8 DEF DealsAreDated, vars, execVars
  <2>12. SettlementInProgress'
    <3>1. Final(r)' = Final(r)
      BY <2>1, FinalKept
    <3>2. IsNext(r)'
      BY <2>1, <2>3, <2>5 DEF IsNext, vars, execVars
    <3>3. Leads(q, t, Final(r)')
      BY <2>4, <2>5, <3>1
    <3> QED BY <2>1, <2>6, <2>8, <2>9, <3>2, <3>3 DEF SettlementInProgress
  <2> QED BY <2>10, <2>11, <2>12 DEF WInv
<1> QED BY <1>2, <1>3

(* Every step keeps the invariant of the transaction.                      *)
LEMMA StepInv == SInv /\ [SNext]_svars => SInv'
<1> SUFFICES ASSUME SInv, [SNext]_svars PROVE SInv'
  OBVIOUS
<1>1. IInv' /\ Distinct(deal_history)' /\ LotIsNewest'
  <2>1. [Next]_vars
    BY StepRefines
  <2> QED BY <2>1, NextInv, NextDistinct, NewestNext DEF SInv
<1> SUFFICES WInv'
  BY <1>1 DEF SInv
<1>2. todo # None => pc = "for"
  BY DEF SInv, WInv, SettlementInProgress, IsNext
<1>3. ASSUME NEW u \in Users, NEW op \in Op, NEW n \in Counts,
             NEW p \in Prices, StoreLot(u, op, n, p)
      PROVE  WInv'
  <2>1. todo' = None /\ worker' = NoWorker
    BY <1>2, <1>3 DEF StoreLot, CreateLot
  <2> QED BY <2>1, ClosedInv
<1>4. CASE Query
  BY <1>2, <1>4, ReadInv DEF Query, QueryMatches
<1>5. CASE Return
  <2>1. /\ todo = None /\ todo' = None /\ UNCHANGED dbVars /\ pc' = "idle"
        /\ worker' = Opened \/ UNCHANGED worker
    BY <1>2, <1>5 DEF Return, ReturnResponses
  <2>2. CASE worker' = NoWorker
    BY <2>1, <2>2, ClosedInv
  <2>3. CASE worker' # NoWorker
    BY <2>1, <2>3, ReadInv
  <2> QED BY <2>2, <2>3
<1>6. CASE Statement
  BY <1>6, StatementInv
<1>7. CASE Commit \/ Die \/ Reconnect
  BY <1>7, ClosedInv DEF Commit, Die, Reconnect, Ended
<1>8. ASSUME NEW r \in snap, Begin(r) PROVE WInv'
  BY <1>8, BeginInv
<1>9. ASSUME NEW u \in Users, NEW id \in 1 .. MaxRequests, Delete(u, id)
      PROVE  WInv'
  <2>1. todo' = None /\ worker' = NoWorker
    BY <1>2, <1>9 DEF Delete, CancelDeletes
  <2> QED BY <2>1, ClosedInv
<1>10. ASSUME NEW u \in Users, NEW id \in 1 .. MaxRequests, Refuse(u, id)
       PROVE  WInv'
  <2>1. /\ todo = None /\ todo' = None /\ worker' = Opened
        /\ UNCHANGED dbVars /\ pc' = "idle"
    BY <1>2, <1>10 DEF Refuse, CancelRefused, Answer
  <2> QED BY <2>1, ReadInv
<1>11. CASE Read
  <2>1. /\ todo = None /\ todo' = None /\ worker' = Opened
        /\ UNCHANGED dbVars /\ pc' = "idle"
    BY <1>2, <1>11 DEF Read, vars, execVars
  <2> QED BY <2>1, ReadInv
<1>12. CASE Register
  <2>1. /\ todo' = None /\ worker' = [tables |-> Tables, began |-> Len(placed)]
        /\ pc' = "idle" /\ UNCHANGED <<data, requests, deal_history>>
    BY <1>2, <1>12 DEF Register, vars, dbVars, execVars
  <2>2. Tables' = Tables
    BY <2>1 DEF Tables
  <2>3. worker'.tables = Tables' /\ worker' # NoWorker
    BY <2>1, <2>2 DEF NoWorker
  <2> QED BY <2>1, <2>3
          DEF WInv, WorkerIsRecord, ReadsSeeCommitted, DealsAreDated,
              SettlementInProgress
<1>13. CASE UNCHANGED svars
  <2>1. UNCHANGED vars /\ worker' = worker /\ todo' = todo
    BY <1>13 DEF svars
  <2>2. UNCHANGED <<data, requests, deal_history, pc, lot, snap>>
    BY <2>1 DEF vars, dbVars, execVars
  <2>3. PICK r, ss : r = todo.row /\ ss = todo.statements
    OBVIOUS
  <2>4. Final(r)' = Final(r) /\ IsNext(r)' = IsNext(r)
    BY <2>1, <2>2, FinalKept DEF IsNext
  <2>5. SettlementInProgress'
    BY <2>1, <2>3, <2>4 DEF SettlementInProgress, SInv, WInv
  <2> QED BY <2>1, <2>2, <2>5
          DEF SInv, WInv, WorkerIsRecord, ReadsSeeCommitted, DealsAreDated, Tables
<1> QED BY <1>3, <1>4, <1>5, <1>6, <1>7, <1>8, <1>9, <1>10, <1>11, <1>12,
          <1>13
        DEF SNext, Running

(* The invariant holds at the start.                                       *)
LEMMA StartInv == SInit => SInv
<1> SUFFICES ASSUME SInit PROVE SInv
  OBVIOUS
<1>1. Init /\ worker = NoWorker /\ todo = None
  BY DEF SInit
<1>2. Distinct(deal_history) /\ LotIsNewest
  BY <1>1 DEF Init, Distinct, LotIsNewest
<1>3. WInv
  BY <1>1 DEF WInv, WorkerIsRecord, ReadsSeeCommitted, DealsAreDated,
              SettlementInProgress
<1> QED BY <1>1, <1>2, <1>3, InitInv DEF SInv

-----------------------------------------------------------------------------
(* The theorems. *)

(* The invariant holds throughout.                                         *)
LEMMA TransactionInvariant == SSpec => []SInv
BY StartInv, StepInv, PTL DEF SSpec

(* The statements of network::closeRequest and                             *)
(* closeTwoWayRequests, each of which can fail, in a transaction that an   *)
(* earlier handler may have left open, implement the atomic settlements of *)
(* OrderBook: whatever is proved of Spec holds of the committed tables.    *)
THEOREM StatementsAreAtomic == SSpec => Spec
<1>1. SInit => Init
  BY DEF SInit
<1>2. SInv /\ [SNext]_svars => [Next]_vars
  BY StepRefines
<1> QED BY <1>1, <1>2, TransactionInvariant, PTL DEF SSpec, Spec

(* A handler that goes on in a transaction left open by an earlier one     *)
(* (worker_ is reset by CommitTransactions only) reads the committed       *)
(* tables.                                                                 *)
THEOREM OpenTransactionIsClean == SSpec => []ReadsSeeCommitted
<1>1. SInv => ReadsSeeCommitted
  BY DEF SInv, WInv
<1> QED BY <1>1, TransactionInvariant, PTL

(* The NOW() that a settlement enters in deal_history is later than the    *)
(* lot it settles.                                                         *)
THEOREM DealDatesFollowLots == SSpec => []DealsAreDated
<1>1. SInv => DealsAreDated
  BY DEF SInv, WInv
<1> QED BY <1>1, TransactionInvariant, PTL
=============================================================================
