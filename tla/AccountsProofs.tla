--------------------------- MODULE AccountsProofs ----------------------------
(***************************************************************************)
(* Proofs about what is added up and counted over the tables of OrderBook: *)
(* the balances, the fill of a lot and the missed matches of               *)
(* OrderBookAccounts, and the answer to UPDATE_REQUEST of Quotation.       *)
(***************************************************************************)
EXTENDS OrderBookAccounts, Quotation, OrderBookProofs, FiniteSetTheorems

-----------------------------------------------------------------------------
(* Sums.  A sum over a finite set is defined by a recursion that takes the *)
(* elements in an order nobody knows.  It is computed here by counting: a  *)
(* positive value as that many units, a negative one as that many units of *)
(* the negated function.                                                   *)
Units(f, s) == UNION {{x} \X (1 .. f[x]) : x \in s}

Neg(f) == [x \in DOMAIN f |-> -f[x]]

Total(f, s) == Cardinality(Units(f, s)) - Cardinality(Units(Neg(f), s))

(* The units of finitely many integers are finitely many.                  *)
LEMMA UnitsFinite ==
  ASSUME NEW s, IsFiniteSet(s), NEW f, \A x \in s : f[x] \in Int
  PROVE  IsFiniteSet(Units(f, s)) /\ Cardinality(Units(f, s)) \in Nat
<1> DEFINE T == {{x} \X (1 .. f[x]) : x \in s}
           F == [x \in s |-> {x} \X (1 .. f[x])]
<1>1. F \in Surjection(s, T)
  BY DEF Surjection
<1>2. IsFiniteSet(T)
  BY <1>1, FS_Surjection
<1>3. ASSUME NEW t \in T PROVE IsFiniteSet(t)
  <2>1. PICK x \in s : t = {x} \X (1 .. f[x])
    OBVIOUS
  <2>2. IsFiniteSet({x})
    BY FS_Singleton
  <2>4. 1 \in Int /\ f[x] \in Int
    OBVIOUS
  <2>3. IsFiniteSet(1 .. f[x])
    BY <2>4, FS_Interval
  <2> QED BY <2>1, <2>2, <2>3, FS_Product
<1> HIDE DEF T
<1>4. IsFiniteSet(UNION T)
  BY <1>2, <1>3, FS_UNION
<1> QED BY <1>4, FS_CardinalityType DEF Units, T

(* One more element adds its value to the number of units, if positive.    *)
LEMMA UnitsAdd ==
  ASSUME NEW s, IsFiniteSet(s), NEW x, x \notin s, NEW f,
         \A y \in s \cup {x} : f[y] \in Int
  PROVE  Cardinality(Units(f, s \cup {x})) =
           Cardinality(Units(f, s)) + (IF f[x] > 0 THEN f[x] ELSE 0)
<1> DEFINE A == Units(f, s)
           B == {x} \X (1 .. f[x])
<1>1. Units(f, s \cup {x}) = A \cup B
  BY DEF Units
<1>2. A \cap B = {}
  BY DEF Units
<1>3. IsFiniteSet(A) /\ Cardinality(A) \in Nat
  BY UnitsFinite
<1>4. IsFiniteSet({x}) /\ Cardinality({x}) = 1
  BY FS_Singleton
<1>5. 1 \in Int /\ f[x] \in Int
  OBVIOUS
<1>6. IsFiniteSet(1 .. f[x])
      /\ Cardinality(1 .. f[x]) = IF f[x] > 0 THEN f[x] ELSE 0
  BY <1>5, FS_Interval
<1>7. IsFiniteSet(B) /\ Cardinality(B) = 1 * Cardinality(1 .. f[x])
  BY <1>4, <1>6, FS_Product
<1>8. Cardinality(B) = IF f[x] > 0 THEN f[x] ELSE 0
  BY <1>5, <1>6, <1>7
<1> HIDE DEF A, B
<1>9. Cardinality(A \cup B) = Cardinality(A) + Cardinality(B) - Cardinality({})
  BY <1>2, <1>3, <1>7, FS_Union
<1>10. Cardinality({}) = 0
  BY FS_EmptySet
<1>11. PICK a \in Nat : a = Cardinality(A)
  BY <1>3
<1>12. PICK n \in Int : n = f[x]
  BY <1>5
<1>13. PICK b \in Nat : b = Cardinality(B) /\ b = IF n > 0 THEN n ELSE 0
  BY <1>8, <1>12
<1>14. Cardinality(A \cup B) = a + b
  BY <1>9, <1>10, <1>11, <1>13
<1> QED BY <1>1, <1>11, <1>12, <1>13, <1>14 DEF A

(* One more element adds its value to the total.                           *)
LEMMA TotalAdd ==
  ASSUME NEW D, NEW f \in [D -> Int], NEW s \in SUBSET D, IsFiniteSet(s),
         NEW x \in D, x \notin s
  PROVE  /\ Total(f, s) \in Int
         /\ Total(f, s \cup {x}) = f[x] + Total(f, s)
<1>1. \A y \in D : f[y] \in Int /\ Neg(f)[y] = -f[y] /\ Neg(f)[y] \in Int
  BY DEF Neg
<1>2. /\ Cardinality(Units(f, s)) \in Nat
      /\ Cardinality(Units(Neg(f), s)) \in Nat
  BY <1>1, UnitsFinite
<1>3. Cardinality(Units(f, s \cup {x})) =
        Cardinality(Units(f, s)) + (IF f[x] > 0 THEN f[x] ELSE 0)
  BY <1>1, UnitsAdd
<1>4. Cardinality(Units(Neg(f), s \cup {x})) =
        Cardinality(Units(Neg(f), s)) + (IF -f[x] > 0 THEN -f[x] ELSE 0)
  <2>1. \A y \in s \cup {x} : Neg(f)[y] \in Int
    BY <1>1
  <2>2. PICK m : m = Neg(f)
    OBVIOUS
  <2>3. Cardinality(Units(m, s \cup {x})) =
          Cardinality(Units(m, s)) + (IF m[x] > 0 THEN m[x] ELSE 0)
    BY <2>1, <2>2, UnitsAdd
  <2> QED BY <1>1, <2>2, <2>3
<1> QED BY <1>1, <1>2, <1>3, <1>4 DEF Total

(* The total of nothing is 0.                                              *)
LEMMA TotalEmpty == ASSUME NEW f PROVE Total(f, {}) = 0
<1>1. Units(f, {}) = {} /\ Units(Neg(f), {}) = {}
  BY DEF Units
<1> QED BY <1>1, FS_EmptySet DEF Total

(* The function g of the subsets of S solves the recursion that defines    *)
(* the sum of f over S.                                                    *)
Sums(g, f, S) ==
  g = [s \in SUBSET S |->
         IF s = {} THEN 0
         ELSE LET x == CHOOSE x \in s : TRUE IN f[x] + g[s \ {x}]]

(* The sum is the total, whatever element the recursion chooses: the total *)
(* satisfies the equation of the recursion, and a smallest set on which    *)
(* another solution differs from it cannot exist.                          *)
LEMMA SumIsTotal ==
  ASSUME NEW D, NEW f \in [D -> Int], NEW S \in SUBSET D, IsFiniteSet(S)
  PROVE  SumFunctionOnSet(f, S) = Total(f, S)
<1> DEFINE pick(s) == CHOOSE x \in s : TRUE
           h == [s \in SUBSET S |-> Total(f, s)]
           g == CHOOSE g : Sums(g, f, S)
<1>1. SumFunctionOnSet(f, S) = g[S]
  BY DEF SumFunctionOnSet, FoldFunctionOnSet, MapThenFoldSet, Sums
<1>2. \A s \in SUBSET S : s # {} => pick(s) \in s
  OBVIOUS
<1>3. ASSUME NEW s \in SUBSET S, s # {}
      PROVE  Total(f, s) = f[pick(s)] + Total(f, s \ {pick(s)})
  <2>1. PICK x : x = pick(s)
    OBVIOUS
  <2>2. x \in s /\ x \in D
    BY <1>2, <1>3, <2>1
  <2> DEFINE r == s \ {x}
  <2>3. r \in SUBSET D /\ x \notin r /\ s = r \cup {x} /\ r \in SUBSET S
    BY <2>2
  <2>4. IsFiniteSet(r)
    BY <2>3, FS_Subset
  <2> HIDE DEF r
  <2>5. Total(f, r \cup {x}) = f[x] + Total(f, r)
    BY <2>2, <2>3, <2>4, TotalAdd
  <2> QED BY <2>1, <2>3, <2>5 DEF r
<1>4. Sums(h, f, S)
  BY <1>2, <1>3, TotalEmpty DEF Sums
<1>5. Sums(g, f, S)
  BY <1>4
<1> HIDE DEF g
<1> DEFINE bad == {s \in SUBSET S : g[s] # Total(f, s)}
<1>6. ASSUME bad # {} PROVE FALSE
  <2>1. FiniteSubsetsOf(S) = SUBSET S
    BY FS_FiniteSubsetsOfFinite
  <2>2. IsWellFoundedOn(StrictSubsetOrdering(S), SUBSET S)
    BY <2>1, FS_StrictSubsetOrderingWellFounded
  <2>3. PICK s \in bad : \A t \in bad : ~(<<t, s>> \in StrictSubsetOrdering(S))
    <3> HIDE DEF bad
    <3>1. bad \subseteq SUBSET S
      BY DEF bad
    <3> QED BY <1>6, <2>2, <3>1, WFMin
  <2>4. s \in SUBSET S /\ g[s] # Total(f, s)
    OBVIOUS
  <2>5. CASE s = {}
    BY <1>5, <2>4, <2>5, TotalEmpty DEF Sums
  <2>6. CASE s # {}
    <3>1. PICK x : x = pick(s)
      OBVIOUS
    <3>2. x \in s
      BY <1>2, <2>4, <2>6, <3>1
    <3> DEFINE r == s \ {x}
    <3>3. r \in SUBSET S /\ <<r, s>> \in StrictSubsetOrdering(S)
      BY <2>4, <3>2 DEF StrictSubsetOrdering
    <3>4. g[r] = Total(f, r)
      BY <2>3, <3>3
    <3>5. g[s] = f[x] + g[r]
      BY <1>5, <2>4, <2>6, <3>1 DEF Sums
    <3>6. Total(f, s) = f[x] + Total(f, r)
      BY <1>3, <2>4, <2>6, <3>1
    <3> QED BY <2>4, <3>4, <3>5, <3>6
  <2> QED BY <2>5, <2>6
<1> QED BY <1>1, <1>6

(* One more element adds its value to the sum, and a sum of integers is an *)
(* integer.                                                                *)
LEMMA SumAdd ==
  ASSUME NEW s, IsFiniteSet(s), NEW x, x \notin s, NEW d, d = s \cup {x},
         NEW f \in [d -> Int], NEW g \in [s -> Int],
         \A y \in s : g[y] = f[y]
  PROVE  SumFunction(f) = SumFunction(g) + f[x]
<1>1. /\ SumFunction(f) = SumFunctionOnSet(f, s \cup {x})
      /\ SumFunction(g) = SumFunctionOnSet(g, s)
  BY DEF SumFunction
<1>2. IsFiniteSet(s \cup {x})
  BY FS_AddElement
<1>3. SumFunctionOnSet(f, s \cup {x}) = Total(f, s \cup {x})
  BY <1>2, SumIsTotal
<1>4. SumFunctionOnSet(g, s) = Total(g, s)
  BY SumIsTotal
<1>5. Total(f, s) \in Int /\ Total(f, s \cup {x}) = f[x] + Total(f, s)
  BY TotalAdd
<1>6. Total(g, s) = Total(f, s)
  <2>1. Units(g, s) = Units(f, s)
    BY DEF Units
  <2>2. \A y \in s : Neg(g)[y] = Neg(f)[y]
    BY DEF Neg
  <2>3. Units(Neg(g), s) = Units(Neg(f), s)
    BY <2>2 DEF Units
  <2> QED BY <2>1, <2>3 DEF Total
<1> QED BY <1>1, <1>3, <1>4, <1>5, <1>6

(* A sum of integers is an integer.                                        *)
LEMMA SumType ==
  ASSUME NEW s, IsFiniteSet(s), NEW f \in [s -> Int]
  PROVE  SumFunction(f) \in Int
<1>1. SumFunction(f) = Total(f, s)
  BY SumIsTotal DEF SumFunction
<1>2. \A y \in s : f[y] \in Int /\ Neg(f)[y] \in Int
  BY DEF Neg
<1>3. /\ Cardinality(Units(f, s)) \in Nat
      /\ Cardinality(Units(Neg(f), s)) \in Nat
  BY <1>2, UnitsFinite
<1> QED BY <1>1, <1>3 DEF Total

(* The sum of nothing is 0.                                                *)
LEMMA SumEmpty ==
  ASSUME NEW f \in [{} -> Int]
  PROVE  SumFunction(f) = 0
  BY FS_EmptySet, SumIsTotal, TotalEmpty DEF SumFunction

(* A committed transfer adds its money to the sums it takes part in.       *)
LEMMA TradesAdd ==
  ASSUME NEW ts \in SUBSET Trade, IsFiniteSet(ts), NEW t \in Trade, t \notin ts
  PROVE  /\ UsdOf(ts) \in Int /\ UsdOf(ts \cup {t}) = UsdOf(ts) + t.usd
         /\ RubOf(ts) \in Int
         /\ RubOf(ts \cup {t}) = RubOf(ts) + Wrap(t.usd * t.price)
<1>1. \A x \in Trade : x.usd \in Int /\ Wrap(x.usd * x.price) \in Int
  BY Int32IsInt, WrapType DEF Trade
<1>0. PICK d : d = ts \cup {t}
  OBVIOUS
<1> DEFINE f == [x \in d |-> x.usd]
           g == [x \in ts |-> x.usd]
           rf == [x \in d |-> Wrap(x.usd * x.price)]
           rg == [x \in ts |-> Wrap(x.usd * x.price)]
<1>2. /\ f \in [d -> Int] /\ g \in [ts -> Int]
      /\ rf \in [d -> Int] /\ rg \in [ts -> Int]
  BY <1>0, <1>1
<1>3. /\ \A x \in ts : g[x] = f[x] /\ rg[x] = rf[x]
      /\ f[t] = t.usd /\ rf[t] = Wrap(t.usd * t.price)
  BY <1>0
<1>4. /\ UsdOf(ts) = SumFunction(g) /\ UsdOf(ts \cup {t}) = SumFunction(f)
      /\ RubOf(ts) = SumFunction(rg) /\ RubOf(ts \cup {t}) = SumFunction(rf)
  BY <1>0 DEF UsdOf, RubOf
<1> HIDE DEF f, g, rf, rg
<1>5. SumFunction(g) \in Int /\ SumFunction(rg) \in Int
  BY <1>2, SumType
<1>6. (\A x \in ts : g[x] = f[x]) /\ (\A x \in ts : rg[x] = rf[x])
  BY <1>3
<1>7. SumFunction(f) = SumFunction(g) + f[t]
  <2>1. PICK ff \in [d -> Int] : ff = f
    BY <1>2
  <2>2. PICK gg \in [ts -> Int] : gg = g
    BY <1>2
  <2>3. \A y \in ts : gg[y] = ff[y]
    BY <1>6, <2>1, <2>2
  <2>4. SumFunction(ff) = SumFunction(gg) + ff[t]
    BY <1>0, <2>3, SumAdd
  <2> QED BY <2>1, <2>2, <2>4
<1>8. SumFunction(rf) = SumFunction(rg) + rf[t]
  <2>1. PICK ff \in [d -> Int] : ff = rf
    BY <1>2
  <2>2. PICK gg \in [ts -> Int] : gg = rg
    BY <1>2
  <2>3. \A y \in ts : gg[y] = ff[y]
    BY <1>6, <2>1, <2>2
  <2>4. SumFunction(ff) = SumFunction(gg) + ff[t]
    BY <1>0, <2>3, SumAdd
  <2> QED BY <2>1, <2>2, <2>4
<1> QED BY <1>3, <1>4, <1>5, <1>7, <1>8

(* No transfer, no money.                                                  *)
LEMMA TradesEmpty == UsdOf({}) = 0 /\ RubOf({}) = 0
  BY SumEmpty DEF UsdOf, RubOf

(* Sums of finitely many transfers are integers.                           *)
LEMMA TradesSumType ==
  ASSUME NEW ts \in SUBSET Trade, IsFiniteSet(ts)
  PROVE  UsdOf(ts) \in Int /\ RubOf(ts) \in Int
<1>1. \A x \in ts : x.usd \in Int /\ Wrap(x.usd * x.price) \in Int
  BY Int32IsInt, WrapType DEF Trade
<1> QED BY <1>1, SumType DEF UsdOf, RubOf

(* Quotient and remainder.                                                 *)
LEMMA DivMod ==
  ASSUME NEW x \in Int, NEW m \in Nat \ {0}
  PROVE  /\ x \div m \in Int /\ x % m \in 0 .. m - 1
         /\ x = m * (x \div m) + (x % m)
<1>1. x \div m \in Int /\ x % m \in 0 .. m - 1
  OBVIOUS
<1>2. x = m * (x \div m) + (x % m)
  OBVIOUS
<1> QED BY <1>1, <1>2

(* The remainder is the only number of its range that fits.                *)
LEMMA ModUnique ==
  ASSUME NEW m \in Nat \ {0}, NEW p \in Int, NEW q \in Int,
         NEW r \in 0 .. m - 1, NEW s \in 0 .. m - 1, m * p + r = m * q + s
  PROVE  r = s
<1>1. m * (p - q) = s - r
  OBVIOUS
<1>2. CASE p - q >= 1
  <2>1. m * (p - q) >= m
    BY <1>2
  <2> QED BY <1>1, <2>1
<1>3. CASE p - q <= -1
  <2>1. m * (p - q) <= -m
    BY <1>3
  <2> QED BY <1>1, <2>1
<1>4. CASE p = q
  BY <1>1, <1>4
<1> QED BY <1>2, <1>3, <1>4

(* A remainder may be taken before an addition.                            *)
LEMMA ModAdd ==
  ASSUME NEW x \in Int, NEW b \in Int, NEW m \in Nat \ {0}
  PROVE  ((x % m) + b) % m = (x + b) % m
<1>1. PICK q \in Int, r \in 0 .. m - 1 : x = m * q + r /\ r = x % m
  BY DivMod
<1>2. PICK p \in Int, s \in 0 .. m - 1 : r + b = m * p + s /\ s = (r + b) % m
  <2>1. r + b \in Int
    OBVIOUS
  <2> QED BY <2>1, DivMod
<1>3. PICK o \in Int, t \in 0 .. m - 1 : x + b = m * o + t /\ t = (x + b) % m
  <2>1. x + b \in Int
    OBVIOUS
  <2> QED BY <2>1, DivMod
<1>4. m * (q + p) + s = m * o + t
  BY <1>1, <1>2, <1>3
<1>5. q + p \in Int
  OBVIOUS
<1>6. s = t
  BY <1>4, <1>5, ModUnique
<1> QED BY <1>1, <1>2, <1>3, <1>6

(* The wrapped sum is the same whether or not the running sum was wrapped. *)
LEMMA WrapAdd ==
  ASSUME NEW a \in Int, NEW b \in Int
  PROVE  Wrap(Wrap(a) + b) = Wrap(a + b)
<1>1. PICK h \in Nat \ {0} : h = MaxInt + 1
  BY BoundsAssumption
<1>2. PICK m \in Nat \ {0} : m = 2 * h
  OBVIOUS
<1>3. \A x \in Int : Wrap(x) = ((x + h) % m) - h
  BY <1>1, <1>2, BoundsAssumption DEF Wrap
<1>4. PICK x \in Int : x = a + h
  OBVIOUS
<1>5. ((x % m) + b) % m = (x + b) % m
  BY ModAdd
<1>6. Wrap(a) = (x % m) - h /\ x % m \in Int
  BY <1>3, <1>4
<1>7. Wrap(Wrap(a) + b) = (((x % m) + b) % m) - h
  <2>1. Wrap(a) + b \in Int /\ Wrap(a) + b + h = (x % m) + b
    BY <1>6
  <2> QED BY <1>3, <2>1
<1>8. Wrap(a + b) = ((x + b) % m) - h
  <2>1. a + b \in Int /\ a + b + h = x + b
    BY <1>4
  <2> QED BY <1>3, <2>1
<1> QED BY <1>5, <1>7, <1>8

(* The counter of a handler starts at the wrapped sum of nothing.          *)
LEMMA WrapZero == Wrap(0) = 0
<1>1. PICK h \in Nat \ {0} : h = MaxInt + 1
  BY BoundsAssumption
<1>2. PICK m \in Nat \ {0} : m = 2 * h
  OBVIOUS
<1>3. h \in 0 .. m - 1 /\ h = m * 0 + h
  BY <1>2
<1>4. h % m \in 0 .. m - 1 /\ h = m * (h \div m) + (h % m) /\ h \div m \in Int
  BY DivMod
<1>5. 0 \in Int /\ (m * 0) + h = m * (h \div m) + (h % m)
  BY <1>2, <1>4
<1>6. h = h % m
  BY <1>3, <1>4, <1>5, ModUnique
<1>7. Wrap(0) = (h % m) - h
  BY <1>1, <1>2, BoundsAssumption DEF Wrap
<1> QED BY <1>6, <1>7

-----------------------------------------------------------------------------
(* The invariant of the transfers. *)

(* The transfers are finitely many, and each settled one of its two lots,  *)
(* so that the one which the handler adds next is new.                     *)
TradesSettle ==
  /\ IsFiniteSet(trades)
  /\ \A t \in trades : t.sell \in Settled \/ t.buy \in Settled

(* The handler executes the lot that was placed last, as it was placed.    *)
LotIsNewest ==
  pc # "idle" => lot.id = Len(placed) /\ placed[lot.id].usd = lot.usd

(* NoMissedMatch while a handler runs: said of the lots it does not work   *)
(* on.                                                                     *)
NoEarlierMissed ==
  \A s, b \in DOMAIN requests :
    /\ requests[s].op = "sell" /\ requests[s].active
    /\ requests[b].op = "buy" /\ requests[b].active
    /\ requests[s].user # requests[b].user
    /\ requests[s].price <= requests[b].price
    /\ pc # "idle" => lot.id \notin {s, b}
    => LET k == IF s > b THEN s ELSE b IN
       k \in cut \/ Wrap(UsdOf(TakenBy(k))) = placed[k].usd

AInv ==
  /\ TradesSettle
  /\ LotIsNewest
  /\ BalancesExplained
  /\ FillAccounting
  /\ NoEarlierMissed

(* The invariant holds of empty tables.                                    *)
LEMMA InitAccounts == Init => AInv
<1> SUFFICES ASSUME Init PROVE AInv
  OBVIOUS
<1>1. TradesSettle
  BY FS_EmptySet DEF Init, TradesSettle
<1>2. BalancesExplained
  <2>1. \A u : Bought(u) = {} /\ Sold(u) = {}
    BY DEF Init, Bought, Sold
  <2>2. \A u : /\ UsdOf(Bought(u)) = 0 /\ UsdOf(Sold(u)) = 0
               /\ RubOf(Bought(u)) = 0 /\ RubOf(Sold(u)) = 0
    BY <2>1, TradesEmpty
  <2>3. \A u \in Users : data[u].usd = 0 /\ data[u].rub = 0
    BY DEF Init
  <2>4. ASSUME NEW u \in Users
        PROVE  /\ data[u].usd = UsdOf(Bought(u)) - UsdOf(Sold(u))
               /\ data[u].rub = RubOf(Sold(u)) - RubOf(Bought(u))
    <3>1. /\ UsdOf(Bought(u)) = 0 /\ UsdOf(Sold(u)) = 0
          /\ RubOf(Bought(u)) = 0 /\ RubOf(Sold(u)) = 0
      BY <2>2
    <3>2. data[u].usd = 0 /\ data[u].rub = 0
      BY <2>3
    <3> QED BY <3>1, <3>2
  <2> QED BY <2>4 DEF BalancesExplained
<1>3. LotIsNewest /\ FillAccounting /\ NoEarlierMissed
  BY DEF Init, LotIsNewest, FillAccounting, NoEarlierMissed
<1> QED BY <1>1, <1>2, <1>3 DEF AInv

(* Without a new transfer the sums stay as they are.                       *)
LEMMA SameTransfers ==
  ASSUME AInv, UNCHANGED <<data, trades, deal_history, placed>>
  PROVE  /\ TradesSettle' /\ BalancesExplained'
         /\ \A k : UsdOf(TakenBy(k))' = UsdOf(TakenBy(k))
<1>1. TradesSettle'
  BY DEF AInv, TradesSettle, Settled
<1>2. BalancesExplained'
  BY DEF AInv, BalancesExplained, Bought, Sold, UsdOf, RubOf
<1>3. \A k : UsdOf(TakenBy(k))' = UsdOf(TakenBy(k))
  BY DEF TakenBy, UsdOf
<1> QED BY <1>1, <1>2, <1>3

(* A stop of the process: the lot it cuts off is the later one of every    *)
(* pair that it belongs to.                                                *)
LEMMA StopAccounts ==
  ASSUME IInv, AInv, NEW why, Stop(why)
  PROVE  AInv'
<1>1. /\ pc' = "idle" /\ UNCHANGED <<data, requests, deal_history, placed, trades>>
      /\ cut' = IF pc = "idle" THEN cut ELSE cut \cup {lot.id}
  BY DEF Stop, dbVars
<1>2. /\ TradesSettle' /\ BalancesExplained'
      /\ \A k : UsdOf(TakenBy(k))' = UsdOf(TakenBy(k))
  BY <1>1, SameTransfers
<1>3. LotIsNewest' /\ FillAccounting'
  BY <1>1 DEF LotIsNewest, FillAccounting
<1>4. NoEarlierMissed'
  <2>1. \A i \in DOMAIN requests : i \in 1 .. Len(placed)
    BY DEF IInv, TypeOK
  <2>2. \A s, b \in DOMAIN requests :
          pc # "idle" /\ lot.id \in {s, b} => lot.id = IF s > b THEN s ELSE b
    BY <2>1 DEF AInv, LotIsNewest, IInv, TypeOK
  <2> QED BY <1>1, <1>2, <2>2 DEF AInv, NoEarlierMissed
<1> QED BY <1>2, <1>3, <1>4 DEF AInv

(* Storing a lot: nothing is taken by it yet.                              *)
LEMMA CreateLotAccounts ==
  ASSUME IInv, AInv, NEW u \in Users, NEW op \in Op, NEW n \in Counts,
         NEW p \in Prices, CreateLot(u, op, n, p)
  PROVE  AInv'
<1>0. PICK id : id = Len(placed) + 1
  OBVIOUS
<1>1. /\ placed \in Seq(Order) /\ id \in Nat /\ id \notin DOMAIN placed
      /\ DOMAIN requests \subseteq DOMAIN placed
      /\ \A i \in DOMAIN placed : i \in Nat /\ i < id
      /\ n \in Int
  BY <1>0, InputAssumption, Int32IsInt DEF IInv, TypeOK
<1>2. /\ placed' = Append(placed, [user |-> u, op |-> op, usd |-> n,
                                   price |-> p])
      /\ requests' = [i \in DOMAIN requests \cup {id} |->
                       IF i = id
                       THEN [user |-> u, op |-> op, usd |-> n, price |-> p,
                             active |-> TRUE]
                       ELSE requests[i]]
      /\ lot' = [id |-> id, user |-> u, op |-> op, usd |-> n, price |-> p]
      /\ pc = "idle" /\ pc' = "while" /\ done' = 0
      /\ UNCHANGED <<data, deal_history, trades, cut>>
  BY <1>0 DEF CreateLot
<1>3. /\ Len(placed') = id
      /\ placed'[id] = [user |-> u, op |-> op, usd |-> n, price |-> p]
      /\ \A i \in DOMAIN placed : placed'[i] = placed[i]
  BY <1>0, <1>1, <1>2 DEF Order
<1>4. /\ DOMAIN requests' = DOMAIN requests \cup {id}
      /\ requests'[id].usd = n
      /\ \A i \in DOMAIN requests : requests'[i] = requests[i]
  BY <1>1, <1>2
<1>5. \A t \in trades : /\ t.sell \in DOMAIN placed /\ t.buy \in DOMAIN placed
                        /\ t.sell # id /\ t.buy # id
  BY <1>1 DEF IInv, TradeTerms
<1>6. TradesSettle'
  BY <1>2 DEF AInv, TradesSettle, Settled
<1>7. BalancesExplained'
  <2>1. \A v : Bought(v)' = Bought(v) /\ Sold(v)' = Sold(v)
    BY <1>2, <1>3, <1>5 DEF Bought, Sold
  <2>2. \A v : /\ UsdOf(Bought(v))' = UsdOf(Bought(v))
               /\ UsdOf(Sold(v))' = UsdOf(Sold(v))
               /\ RubOf(Bought(v))' = RubOf(Bought(v))
               /\ RubOf(Sold(v))' = RubOf(Sold(v))
    BY <2>1 DEF UsdOf, RubOf
  <2> QED BY <1>2, <2>2 DEF AInv, BalancesExplained
<1>8. LotIsNewest'
  BY <1>2, <1>3 DEF LotIsNewest
<1>9. \A k : UsdOf(TakenBy(k))' = UsdOf(TakenBy(k))
  BY <1>2 DEF TakenBy, UsdOf
<1>10. FillAccounting'
  <2>1. TakenBy(id) = {}
    BY <1>5 DEF TakenBy
  <2>2. UsdOf(TakenBy(id))' = 0
    BY <1>9, <2>1, TradesEmpty
  <2>3. lot'.id = id /\ lot'.usd = n
    BY <1>2
  <2>4. UsdOf(TakenBy(lot.id))' = 0
    BY <2>2, <2>3 DEF TakenBy, UsdOf
  <2> QED BY <1>1, <1>2, <1>4, <2>3, <2>4, WrapZero DEF FillAccounting
<1>11. NoEarlierMissed'
  <2> SUFFICES ASSUME NEW s \in DOMAIN requests', NEW b \in DOMAIN requests',
                      NEW k, k = IF s > b THEN s ELSE b,
                      requests'[s].op = "sell", requests'[s].active,
                      requests'[b].op = "buy", requests'[b].active,
                      requests'[s].user # requests'[b].user,
                      requests'[s].price <= requests'[b].price,
                      lot'.id \notin {s, b}
               PROVE  k \in cut \/ Wrap(UsdOf(TakenBy(k))) = placed'[k].usd
    <3>1. pc' # "idle" /\ cut' = cut
      BY <1>2
    <3> QED BY <1>9, <3>1 DEF NoEarlierMissed
  <2>1. s \in DOMAIN requests /\ b \in DOMAIN requests /\ k \in DOMAIN placed
    BY <1>1, <1>2, <1>4
  <2> QED BY <1>2, <1>3, <1>4, <2>1 DEF AInv, NoEarlierMissed
<1> QED BY <1>6, <1>7, <1>8, <1>10, <1>11 DEF AInv

(* The end of the handler: every row its lot still meets would have been   *)
(* in the result of the last query, or its counter says it has enough.     *)
LEMMA ReturnResponsesAccounts == IInv /\ AInv /\ ReturnResponses => AInv'
<1> SUFFICES ASSUME IInv, AInv, ReturnResponses PROVE AInv'
  OBVIOUS
<1>1. /\ pc = "while" /\ pc' = "idle"
      /\ done = lot.usd \/ Matching = {}
      /\ UNCHANGED <<data, requests, deal_history, placed, trades, cut>>
  BY DEF ReturnResponses, dbVars, histVars
<1>2. /\ TradesSettle' /\ BalancesExplained'
      /\ \A k : UsdOf(TakenBy(k))' = UsdOf(TakenBy(k))
  BY <1>1, SameTransfers
<1>3. LotIsNewest' /\ FillAccounting'
  BY <1>1 DEF LotIsNewest, FillAccounting
<1>4. /\ \A i \in DOMAIN requests : i \in 1 .. Len(placed)
      /\ lot.id = Len(placed) /\ placed[lot.id].usd = lot.usd
      /\ lot \in Lot /\ lot.id \in DOMAIN requests
      /\ requests[lot.id].user = lot.user /\ requests[lot.id].op = lot.op
      /\ requests[lot.id].price = lot.price
      /\ \A i \in DOMAIN requests : requests[i].price \in Int
  BY <1>1, Int32IsInt DEF IInv, TypeOK, AInv, LotIsNewest, LotInv, RowsAsPlaced, Row
<1>5. NoEarlierMissed'
  <2> SUFFICES ASSUME NEW s \in DOMAIN requests, NEW b \in DOMAIN requests,
                      NEW k, k = IF s > b THEN s ELSE b,
                      requests[s].op = "sell", requests[s].active,
                      requests[b].op = "buy", requests[b].active,
                      requests[s].user # requests[b].user,
                      requests[s].price <= requests[b].price
               PROVE  k \in cut \/ Wrap(UsdOf(TakenBy(k))) = placed[k].usd
    BY <1>1, <1>2 DEF NoEarlierMissed
  <2>1. CASE lot.id \notin {s, b}
    BY <1>1, <2>1 DEF AInv, NoEarlierMissed
  <2>2. CASE lot.id \in {s, b}
    <3>1. k = lot.id
      BY <1>4, <2>2 DEF IInv, TypeOK
    <3>2. \E i \in {s, b} : i \in Matching
      BY <1>4, <2>2 DEF Matching, Acceptable
    <3>3. done = lot.usd
      BY <1>1, <3>2
    <3>4. lot.id \notin Settled
      BY <1>4, <2>2 DEF IInv, SettledLeavesMarket, Lot
    <3>5. done = Wrap(UsdOf(TakenBy(lot.id)))
      BY <1>1, <3>4 DEF AInv, FillAccounting
    <3> QED BY <1>4, <3>1, <3>3, <3>5
  <2> QED BY <2>1, <2>2
<1> QED BY <1>2, <1>3, <1>5 DEF AInv

(* The steps that change at most the copy of the rows, the responses and   *)
(* whether the server is up, or delete rows while no handler runs.         *)
LEMMA QuietAccounts ==
  ASSUME IInv, AInv, UNCHANGED <<data, deal_history, placed, trades, cut, lot, done>>,
         pc = "idle" <=> pc' = "idle",
         DOMAIN requests' \subseteq DOMAIN requests,
         pc # "idle" => requests' = requests,
         \A i \in DOMAIN requests' : requests'[i] = requests[i]
  PROVE  AInv'
<1>1. /\ TradesSettle' /\ BalancesExplained'
      /\ \A k : UsdOf(TakenBy(k))' = UsdOf(TakenBy(k))
  BY SameTransfers
<1>2. LotIsNewest'
  BY DEF AInv, LotIsNewest
<1>3. FillAccounting'
  <2>1. UsdOf(TakenBy(lot.id))' = UsdOf(TakenBy(lot.id)) /\ Settled' = Settled
    BY DEF TakenBy, UsdOf, Settled
  <2> QED BY <2>1 DEF AInv, FillAccounting
<1>4. NoEarlierMissed'
  BY <1>1 DEF AInv, NoEarlierMissed
<1> QED BY <1>1, <1>2, <1>3, <1>4 DEF AInv

(* A committed transfer is not among the earlier ones, since neither of    *)
(* its lots was settled before and one of them is now.                     *)
LEMMA NewTrade ==
  ASSUME IInv, AInv, NEW r \in snap, MatchOne(r)
  PROVE  \E t \in Trade :
           /\ trades' = trades \cup {t} /\ t \notin trades
           /\ t.sell = (IF lot.op = "sell" THEN lot.id ELSE r.id)
           /\ t.buy = (IF lot.op = "sell" THEN r.id ELSE lot.id)
           /\ t.usd = SettlementOf(r).usd /\ t.price = SettlementOf(r).price
           /\ TradesSettle'
<1>1. PICK tx : tx = SettlementOf(r)
  OBVIOUS
<1>2. PICK t : t = [sell  |-> IF lot.op = "sell" THEN lot.id ELSE r.id,
                    buy   |-> IF lot.op = "sell" THEN r.id ELSE lot.id,
                    usd   |-> tx.usd,
                    price |-> tx.price]
  OBVIOUS
<1>3. /\ pc = "for" /\ deal_history' = Enter(tx)
      /\ trades' = trades \cup {t}
  BY <1>1, <1>2 DEF MatchOne, Matched, IsNext
<1>4. /\ Settlement(tx, r) /\ r \in Match /\ lot \in Lot
      /\ lot.id \notin Settled /\ r.id \notin Settled
  BY <1>1, <1>3, SettlementFacts DEF IInv, SnapInv, SnapRow
<1>5. Settled' = Settled \cup Closed(tx)
  BY <1>1, <1>3, EnterFacts
<1>6. t \in Trade
  BY <1>2, <1>4 DEF Trade, Settlement, Match, Lot
<1>7. /\ t.sell = (IF lot.op = "sell" THEN lot.id ELSE r.id)
      /\ t.buy = (IF lot.op = "sell" THEN r.id ELSE lot.id)
      /\ t.usd = tx.usd /\ t.price = tx.price
  BY <1>2
<1>8. t \notin trades
  BY <1>4, <1>7 DEF AInv, TradesSettle
<1>9. TradesSettle'
  <2>1. IsFiniteSet(trades \cup {t})
    BY FS_AddElement DEF AInv, TradesSettle
  <2>2. \E c \in {r.id, lot.id} : c \in Closed(tx)
    BY <1>4 DEF Settlement, Closed
  <2>3. t.sell \in Settled' \/ t.buy \in Settled'
    BY <1>5, <1>7, <2>2
  <2>4. \A x \in trades : x.sell \in Settled' \/ x.buy \in Settled'
    BY <1>5 DEF AInv, TradesSettle
  <2> QED BY <1>3, <2>1, <2>3, <2>4 DEF TradesSettle
<1> QED BY <1>1, <1>3, <1>6, <1>7, <1>8, <1>9

(* The four UPDATEs of a transaction are the sums of its one new transfer. *)
LEMMA MatchOneBalances ==
  ASSUME IInv, AInv, NEW r \in snap, MatchOne(r)
  PROVE  BalancesExplained'
<1>1. PICK tx : tx = SettlementOf(r)
  OBVIOUS
<1>2. PICK t \in Trade :
           /\ trades' = trades \cup {t} /\ t \notin trades
           /\ t.sell = (IF lot.op = "sell" THEN lot.id ELSE r.id)
           /\ t.buy = (IF lot.op = "sell" THEN r.id ELSE lot.id)
           /\ t.usd = tx.usd /\ t.price = tx.price
  BY <1>1, NewTrade
<1>3. pc = "for" /\ data' = Pay(tx) /\ placed' = placed
  BY <1>1 DEF MatchOne, IsNext
<1>4. /\ Settlement(tx, r) /\ r \in Match /\ lot \in Lot
      /\ r.user # lot.user /\ r.user \in Users /\ lot.user \in Users
      /\ placed[r.id].user = r.user /\ placed[lot.id].user = lot.user
  BY <1>1, <1>3, SettlementFacts
     DEF IInv, SnapInv, SnapRow, LotInv, RowsAsPlaced, Match, Lot
<1>5. /\ placed[t.buy].user = tx.buyer /\ placed[t.sell].user = tx.seller
      /\ tx.buyer \in Users /\ tx.seller \in Users /\ tx.buyer # tx.seller
  BY <1>2, <1>4 DEF Settlement
<1>6. PICK n \in Int, m \in Int : n = t.usd /\ m = Wrap(t.usd * t.price)
  BY <1>2, Int32IsInt, WrapType DEF Trade
<1>7. tx.usd = n /\ Wrap(tx.price * tx.usd) = m
  <2>1. t.usd \in Int /\ t.price \in Int
    BY <1>2, Int32IsInt DEF Trade
  <2>2. t.usd * t.price = t.price * t.usd
    BY <2>1
  <2> QED BY <1>2, <1>6, <2>2
<1>8. \A u \in Users :
        /\ data'[u].usd = data[u].usd + (IF u = tx.buyer THEN n ELSE 0)
                                      - (IF u = tx.seller THEN n ELSE 0)
        /\ data'[u].rub = data[u].rub + (IF u = tx.seller THEN m ELSE 0)
                                      - (IF u = tx.buyer THEN m ELSE 0)
  <2>1. /\ data \in [Users -> Balance]
        /\ \A u \in Users : data[u].usd \in Int /\ data[u].rub \in Int
    BY Int32IsInt DEF IInv, TypeOK, Balance
  <2> SUFFICES ASSUME NEW u \in Users
               PROVE
        /\ data'[u].usd = data[u].usd + (IF u = tx.buyer THEN n ELSE 0)
                                      - (IF u = tx.seller THEN n ELSE 0)
        /\ data'[u].rub = data[u].rub + (IF u = tx.seller THEN m ELSE 0)
                                      - (IF u = tx.buyer THEN m ELSE 0)
    OBVIOUS
  <2>2. Pay(tx) =
          [data EXCEPT
             ![tx.buyer]  = [usd |-> @.usd + n, rub |-> @.rub - m],
             ![tx.seller] = [usd |-> @.usd - n, rub |-> @.rub + m]]
    BY <1>7 DEF Pay
  <2>3. CASE u = tx.buyer
    <3>1. data'[u] = [usd |-> data[u].usd + n, rub |-> data[u].rub - m]
      BY <1>3, <1>5, <2>1, <2>2, <2>3
    <3> QED BY <1>5, <2>1, <2>3, <3>1
  <2>4. CASE u = tx.seller
    <3>1. data'[u] = [usd |-> data[u].usd - n, rub |-> data[u].rub + m]
      BY <1>3, <1>5, <2>1, <2>2, <2>4
    <3> QED BY <1>5, <2>1, <2>4, <3>1
  <2>5. CASE u # tx.buyer /\ u # tx.seller
    <3>1. data'[u] = data[u]
      BY <1>3, <1>5, <2>1, <2>2, <2>5
    <3> QED BY <2>1, <2>5, <3>1
  <2> QED BY <2>3, <2>4, <2>5
<1>9. \A u : /\ Bought(u)' = Bought(u) \cup (IF u = tx.buyer THEN {t} ELSE {})
             /\ Sold(u)' = Sold(u) \cup (IF u = tx.seller THEN {t} ELSE {})
  BY <1>2, <1>3, <1>5 DEF Bought, Sold
<1>10. \A u : /\ Bought(u) \in SUBSET Trade /\ Sold(u) \in SUBSET Trade
              /\ IsFiniteSet(Bought(u)) /\ IsFiniteSet(Sold(u))
              /\ t \notin Bought(u) /\ t \notin Sold(u)
  <2>1. IsFiniteSet(trades) /\ trades \subseteq Trade
    BY DEF AInv, TradesSettle, IInv, TypeOK
  <2>2. \A u : Bought(u) \in SUBSET trades /\ Sold(u) \in SUBSET trades
    BY DEF Bought, Sold
  <2> QED BY <1>2, <2>1, <2>2, FS_Subset
<1>11. ASSUME NEW u \in Users
       PROVE  /\ UsdOf(Bought(u)) \in Int /\ UsdOf(Sold(u)) \in Int
              /\ RubOf(Bought(u)) \in Int /\ RubOf(Sold(u)) \in Int
              /\ UsdOf(Bought(u))' =
                   UsdOf(Bought(u)) + (IF u = tx.buyer THEN n ELSE 0)
              /\ UsdOf(Sold(u))' =
                   UsdOf(Sold(u)) + (IF u = tx.seller THEN n ELSE 0)
              /\ RubOf(Bought(u))' =
                   RubOf(Bought(u)) + (IF u = tx.buyer THEN m ELSE 0)
              /\ RubOf(Sold(u))' =
                   RubOf(Sold(u)) + (IF u = tx.seller THEN m ELSE 0)
  <2>1. PICK ob : ob = Bought(u)
    OBVIOUS
  <2>2. PICK os : os = Sold(u)
    OBVIOUS
  <2>3. PICK nb : nb = ob \cup (IF u = tx.buyer THEN {t} ELSE {})
    OBVIOUS
  <2>4. PICK ns : ns = os \cup (IF u = tx.seller THEN {t} ELSE {})
    OBVIOUS
  <2>5. /\ UsdOf(ob) \in Int /\ UsdOf(ob \cup {t}) = UsdOf(ob) + n
        /\ RubOf(ob) \in Int /\ RubOf(ob \cup {t}) = RubOf(ob) + m
    BY <1>6, <1>10, <2>1, TradesAdd
  <2>6. /\ UsdOf(os) \in Int /\ UsdOf(os \cup {t}) = UsdOf(os) + n
        /\ RubOf(os) \in Int /\ RubOf(os \cup {t}) = RubOf(os) + m
    BY <1>6, <1>10, <2>2, TradesAdd
  <2>7. /\ nb = IF u = tx.buyer THEN ob \cup {t} ELSE ob
        /\ ns = IF u = tx.seller THEN os \cup {t} ELSE os
    BY <2>3, <2>4
  <2>8. /\ UsdOf(nb) = UsdOf(ob) + (IF u = tx.buyer THEN n ELSE 0)
        /\ RubOf(nb) = RubOf(ob) + (IF u = tx.buyer THEN m ELSE 0)
    BY <2>5, <2>7
  <2>9. /\ UsdOf(ns) = UsdOf(os) + (IF u = tx.seller THEN n ELSE 0)
        /\ RubOf(ns) = RubOf(os) + (IF u = tx.seller THEN m ELSE 0)
    BY <2>6, <2>7
  <2>10. Bought(u)' = nb /\ Sold(u)' = ns
    BY <1>9, <2>1, <2>2, <2>3, <2>4
  <2>11. /\ UsdOf(Bought(u))' = UsdOf(nb) /\ UsdOf(Sold(u))' = UsdOf(ns)
         /\ RubOf(Bought(u))' = RubOf(nb) /\ RubOf(Sold(u))' = RubOf(ns)
    BY <2>10 DEF UsdOf, RubOf
  <2> QED BY <2>1, <2>2, <2>5, <2>6, <2>8, <2>9, <2>11
<1> SUFFICES ASSUME NEW u \in Users
             PROVE  /\ data'[u].usd = UsdOf(Bought(u))' - UsdOf(Sold(u))'
                    /\ data'[u].rub = RubOf(Sold(u))' - RubOf(Bought(u))'
  BY DEF BalancesExplained
<1>12. /\ data[u].usd = UsdOf(Bought(u)) - UsdOf(Sold(u))
       /\ data[u].rub = RubOf(Sold(u)) - RubOf(Bought(u))
  BY DEF AInv, BalancesExplained
<1> QED BY <1>8, <1>11, <1>12

(* What the handlers of the other lots took is not touched by a transfer   *)
(* of the newest one.                                                      *)
LEMMA MatchOneTaken ==
  ASSUME IInv, AInv, NEW r \in snap, MatchOne(r)
  PROVE  /\ \A k \in DOMAIN placed :
              k # lot.id => UsdOf(TakenBy(k))' = UsdOf(TakenBy(k))
         /\ UsdOf(TakenBy(lot.id)) \in Int
         /\ UsdOf(TakenBy(lot.id))' =
              UsdOf(TakenBy(lot.id)) + SettlementOf(r).usd
<1>1. PICK t \in Trade :
           /\ trades' = trades \cup {t} /\ t \notin trades
           /\ t.sell = (IF lot.op = "sell" THEN lot.id ELSE r.id)
           /\ t.buy = (IF lot.op = "sell" THEN r.id ELSE lot.id)
           /\ t.usd = SettlementOf(r).usd
  BY NewTrade
<1>2. /\ pc = "for" /\ UNCHANGED <<lot, placed>>
  BY DEF MatchOne, IsNext
<1>3. PICK j : j = lot.id /\ j = lot'.id
  BY <1>2
<1>4. /\ j = Len(placed) /\ j \in Nat /\ placed \in Seq(Order)
      /\ r.id \in DOMAIN placed /\ j \in DOMAIN placed
      /\ j \in {t.sell, t.buy} /\ r.id \in {t.sell, t.buy}
      /\ {t.sell, t.buy} = {j, r.id}
  BY <1>1, <1>2, <1>3, SettlementFacts
     DEF IInv, TypeOK, AInv, LotIsNewest, SnapInv, SnapRow
<1>5. DOMAIN placed = 1 .. j
  BY <1>4
<1>6. ASSUME NEW k \in DOMAIN placed, k # j
      PROVE  UsdOf(TakenBy(k))' = UsdOf(TakenBy(k))
  <2>1. ~({t.sell, t.buy} \subseteq 1 .. k)
    BY <1>4, <1>5, <1>6
  <2>2. TakenBy(k)' = TakenBy(k)
    BY <1>1, <2>1 DEF TakenBy
  <2> QED BY <2>2 DEF UsdOf
<1>7. TakenBy(j)' = TakenBy(j) \cup {t}
  <2>1. {t.sell, t.buy} \subseteq 1 .. j /\ j \in {t.sell, t.buy}
    BY <1>4, <1>5
  <2> QED BY <1>1, <2>1 DEF TakenBy
<1>8. PICK ts : ts = TakenBy(j)
  OBVIOUS
<1>9. ts \in SUBSET Trade /\ IsFiniteSet(ts) /\ t \notin ts
  <2>1. IsFiniteSet(trades) /\ trades \subseteq Trade
    BY DEF AInv, TradesSettle, IInv, TypeOK
  <2>2. ts \in SUBSET trades
    BY <1>8 DEF TakenBy
  <2> QED BY <1>1, <2>1, <2>2, FS_Subset
<1>10. UsdOf(ts) \in Int /\ UsdOf(ts \cup {t}) = UsdOf(ts) + t.usd
  BY <1>9, TradesAdd
<1>11. UsdOf(TakenBy(j))' = UsdOf(ts \cup {t})
  BY <1>7, <1>8 DEF UsdOf
<1>12. UsdOf(TakenBy(lot.id))' = UsdOf(TakenBy(j))'
  BY <1>3 DEF TakenBy, UsdOf
<1> QED BY <1>1, <1>3, <1>6, <1>8, <1>10, <1>11, <1>12

(* A transaction that leaves the lot open takes from its row what it adds  *)
(* to the counter.                                                         *)
LEMMA MatchOneFill ==
  ASSUME IInv, AInv, NEW r \in snap, MatchOne(r)
  PROVE  FillAccounting'
<1> SUFFICES ASSUME lot.id \notin Settled'
             PROVE  /\ requests'[lot.id].usd = lot.usd - UsdOf(TakenBy(lot.id))'
                    /\ done' = Wrap(UsdOf(TakenBy(lot.id))')
  BY DEF FillAccounting, MatchOne
<1>1. PICK tx : tx = SettlementOf(r)
  OBVIOUS
<1>2. /\ pc = "for" /\ deal_history' = Enter(tx) /\ requests' = tx.rows
      /\ done' = DoneAfter(r)
  BY <1>1 DEF MatchOne, Matched, IsNext
<1>3. /\ r \in Match /\ lot \in Lot /\ Settlement(tx, r)
      /\ lot.id \in DOMAIN requests /\ lot.id \notin Settled /\ lot.id # r.id
      /\ requests[lot.id].user = lot.user /\ requests[lot.id].op = lot.op
      /\ r.id \in DOMAIN requests /\ requests[r.id].user = r.user
      /\ r.user # lot.user /\ r.usd \in Int /\ lot.usd \in Int
      /\ requests[lot.id] \in Row
  BY <1>1, <1>2, SettlementFacts, Int32IsInt
     DEF IInv, SnapInv, SnapRow, LotInv, Match, Lot, TypeOK
<1>4. lot.id \notin Closed(tx)
  BY <1>1, <1>2, EnterFacts
<1>5. lot.usd > r.usd
  <2>1. CASE lot.usd < r.usd
    <3>1. tx.closed = <<lot.id>>
      BY <1>1, <1>3, <2>1 DEF SettlementOf, closeRequest
    <3> QED BY <1>4, <3>1 DEF Closed
  <2>2. CASE lot.usd = r.usd
    <3>1. tx.closed \in {<<lot.id, r.id>>, <<r.id, lot.id>>}
      BY <1>1, <1>3, <2>2 DEF SettlementOf, closeTwoWayRequests
    <3> QED BY <1>4, <3>1 DEF Closed
  <2> QED BY <1>3, <2>1, <2>2
<1>6. /\ tx.usd = r.usd
      /\ tx.rows = Deactivate(TakeUsd(requests, lot.user, r.usd), r.user)
  BY <1>1, <1>3, <1>5 DEF SettlementOf, closeRequest
<1>7. requests'[lot.id].usd = requests[lot.id].usd - r.usd
  BY <1>2, <1>3, <1>6 DEF Deactivate, TakeUsd, Row
<1>8. done' = Wrap(done + r.usd)
  BY <1>2, <1>5 DEF DoneAfter
<1>9. PICK a \in Int : a = UsdOf(TakenBy(lot.id))
  BY MatchOneTaken
<1>10. UsdOf(TakenBy(lot.id))' = a + r.usd
  BY <1>1, <1>6, <1>9, MatchOneTaken
<1>11. requests[lot.id].usd = lot.usd - a /\ done = Wrap(a)
  BY <1>2, <1>3, <1>9 DEF AInv, FillAccounting
<1>12. Wrap(Wrap(a) + r.usd) = Wrap(a + r.usd)
  BY <1>3, WrapAdd
<1>13. requests'[lot.id].usd = lot.usd - (a + r.usd)
  BY <1>3, <1>7, <1>9, <1>11
<1> QED BY <1>8, <1>10, <1>11, <1>12, <1>13

(* One committed iteration of the for loop preserves the invariant.        *)
LEMMA MatchOneAccounts ==
  ASSUME IInv, AInv, NEW r \in snap, MatchOne(r)
  PROVE  AInv'
<1>1. TradesSettle' /\ BalancesExplained' /\ FillAccounting'
  BY NewTrade, MatchOneBalances, MatchOneFill
<1>2. /\ pc = "for" /\ pc' # "idle" /\ requests' = SettlementOf(r).rows
      /\ UNCHANGED <<lot, placed, cut>>
  BY DEF MatchOne, Matched, IsNext
<1>3. LotIsNewest'
  BY <1>2 DEF AInv, LotIsNewest
<1>4. NoEarlierMissed'
  <2>1. Settlement(SettlementOf(r), r)
    BY <1>2, SettlementFacts
  <2>2. /\ DOMAIN requests' = DOMAIN requests
        /\ \A i \in DOMAIN requests :
             /\ requests'[i].user = requests[i].user
             /\ requests'[i].op = requests[i].op
             /\ requests'[i].price = requests[i].price
             /\ requests'[i].active => requests[i].active
    BY <1>2, <2>1 DEF Settlement
  <2>3. DOMAIN requests \subseteq DOMAIN placed
    BY DEF IInv, TypeOK
  <2> SUFFICES ASSUME NEW s \in DOMAIN requests, NEW b \in DOMAIN requests,
                      NEW k, k = IF s > b THEN s ELSE b,
                      requests'[s].op = "sell", requests'[s].active,
                      requests'[b].op = "buy", requests'[b].active,
                      requests'[s].user # requests'[b].user,
                      requests'[s].price <= requests'[b].price,
                      lot.id \notin {s, b}
               PROVE  k \in cut \/ Wrap(UsdOf(TakenBy(k))') = placed[k].usd
    BY <1>2, <2>2 DEF NoEarlierMissed
  <2>4. k \in DOMAIN placed /\ k # lot.id
    BY <2>3
  <2>5. UsdOf(TakenBy(k))' = UsdOf(TakenBy(k))
    BY <2>4, MatchOneTaken
  <2>6. k \in cut \/ Wrap(UsdOf(TakenBy(k))) = placed[k].usd
    BY <2>2 DEF AInv, NoEarlierMissed
  <2> QED BY <2>5, <2>6
<1> QED BY <1>1, <1>3, <1>4 DEF AInv

(* Every step preserves the invariant of the transfers.                    *)
LEMMA NextAccounts == IInv /\ AInv /\ [Next]_vars => AInv'
<1> SUFFICES ASSUME IInv, AInv, [Next]_vars PROVE AInv'
  OBVIOUS
<1>1. ASSUME NEW u \in Users, NEW op \in Op, NEW n \in Counts,
             NEW p \in Prices, CreateLot(u, op, n, p)
      PROVE  AInv'
  BY <1>1, CreateLotAccounts
<1>2. CASE QueryMatches
  BY <1>2, QuietAccounts DEF QueryMatches, dbVars, histVars
<1>3. CASE ReturnResponses
  BY <1>3, ReturnResponsesAccounts
<1>4. ASSUME NEW r \in snap, MatchOne(r) PROVE AInv'
  BY <1>4, MatchOneAccounts
<1>5. ASSUME NEW why, Stop(why) PROVE AInv'
  BY <1>5, StopAccounts
<1>6. ASSUME NEW u \in Users, NEW id \in 1 .. MaxRequests, Cancel(u, id)
      PROVE  AInv'
  <2>1. CASE CancelDeletes(u, id)
    <3>1. CASE id \in Settled
      BY <1>5, <2>1, <3>1 DEF CancelDeletes
    <3>2. CASE id \notin Settled
      BY <2>1, <3>2, QuietAccounts DEF CancelDeletes, Answer, histVars
    <3> QED BY <3>1, <3>2
  <2>2. CASE CancelRefused(u, id)
    BY <2>2, QuietAccounts DEF CancelRefused, Answer, dbVars, histVars
  <2> QED BY <1>6, <2>1, <2>2 DEF Cancel
<1>7. CASE Restart \/ UNCHANGED vars
  BY <1>7, QuietAccounts DEF Restart, vars, dbVars, execVars, histVars
<1> QED
  BY <1>1, <1>2, <1>3, <1>4, <1>5, <1>6, <1>7
     DEF Next, Handler, MatchRefused, Kill

(* The invariants of the tables and of the transfers, together.            *)
LEMMA AccountsInvariant == Spec => [](IInv /\ AInv)
  BY InitInv, InitAccounts, NextInv, NextAccounts, PTL DEF Spec

(* The balances of table data are what the committed transfers of each     *)
(* user add up to, in every state in which the process can die, for every  *)
(* number of lots and every width of an int.                               *)
THEOREM BalancesAddUp == Spec => []BalancesExplained
<1>1. AInv => BalancesExplained
  BY DEF AInv
<1> QED BY <1>1, AccountsInvariant, PTL

(* While a handler runs, the count left in the lot's row and the wrapping  *)
(* counter usd_selling/usd_buying agree with the transfers it has made.    *)
THEOREM FillsAddUp == Spec => []FillAccounting
<1>1. AInv => FillAccounting
  BY DEF AInv
<1> QED BY <1>1, AccountsInvariant, PTL

(* Two active lots of two users whose prices meet are only left over when  *)
(* the handler of the later one was cut off, or its counter had reached    *)
(* the count of its lot.                                                   *)
THEOREM MatchesNotMissed == Spec => []NoMissedMatch
<1>1. AInv => NoMissedMatch
  BY DEF AInv, NoEarlierMissed, NoMissedMatch
<1> QED BY <1>1, AccountsInvariant, PTL

-----------------------------------------------------------------------------
(* UPDATE_REQUEST. *)

(* Rows with different requests, all of them still in the table, are as    *)
(* many as the requests that the query joins to them.                      *)
LEMMA QuotedCount ==
  ASSUME IInv, Distinct(deal_history), NEW rows \in SUBSET DOMAIN deal_history
  PROVE  Cardinality(Quoted(rows)) = Cardinality(rows)
<1> DEFINE f == [i \in rows |-> deal_history[i].request]
<1>1. deal_history \in Seq(Deal)
  BY DEF IInv, TypeOK
<1>2. DOMAIN deal_history = 1 .. Len(deal_history) /\ Len(deal_history) \in Nat
  BY <1>1
<1>3. IsFiniteSet(rows)
  <2>1. IsFiniteSet(1 .. Len(deal_history))
    BY <1>2, FS_Interval
  <2> QED BY <1>2, <2>1, FS_Subset
<1>4. \A i \in rows : deal_history[i].request \in DOMAIN requests
  BY DEF IInv, SettledLeavesMarket, Settled
<1>5. f \in [rows -> Quoted(rows)]
  BY <1>4 DEF Quoted
<1>6. \A i, j \in rows : f[i] = f[j] => i = j
  BY DEF Distinct
<1>7. \A id \in Quoted(rows) : \E i \in rows : f[i] = id
  BY DEF Quoted
<1> HIDE DEF f
<1>8. f \in Bijection(rows, Quoted(rows))
  BY <1>5, <1>6, <1>7 DEF Bijection, Injection, Surjection, IsInjective
<1>9. ExistsBijection(rows, Quoted(rows))
  BY <1>8 DEF ExistsBijection
<1> QED BY <1>3, <1>9, FS_Bijection

(* The prices and the dates of an answer to UPDATE_REQUEST are equally     *)
(* many, whichever rows of one date each of the two queries cut off.       *)
THEOREM QuotationsMatch == Spec => []QuotationComplete
<1>1. IInv /\ Distinct(deal_history) => QuotationComplete
  <2> SUFFICES ASSUME IInv, Distinct(deal_history),
                      NEW r1 \in Recents, NEW r2 \in Recents
               PROVE  Cardinality(Quoted(r1)) = Cardinality(r2)
    BY DEF QuotationComplete
  <2>1. /\ r1 \in SUBSET DOMAIN deal_history
        /\ Cardinality(r1) = Cardinality(r2)
    BY DEF Recents
  <2> QED BY <2>1, QuotedCount
<1> QED BY <1>1, DistinctInvariant, PTL
=============================================================================
