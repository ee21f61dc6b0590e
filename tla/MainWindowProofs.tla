-------------------------- MODULE MainWindowProofs --------------------------
(***************************************************************************)
(* Proofs about MainWindow, for every number of lots, reports and messages *)
(* under way: what the window keeps about its lots agrees with the server, *)
(* for every user in part and for a patient one in full.                   *)
(***************************************************************************)
EXTENDS MainWindow, FiniteSetTheorems, SequenceTheorems, TLAPS

(* Messages and lots. *)
Request == [type : {"lot"}, order : Order]
             \cup [type : {"cancel"}, lot : LotIds]
             \cup [type : {"balance", "update", "authorization", "register"}]

Answer == [type : {"success"}, lot : LotIds, is_to_cancel : BOOLEAN]
            \cup [type : {"report"}, lot : LotIds \cup {OtherLot}]
            \cup [type : {"bad", "balance", "update", "authorization"}]

LotRecord ==
  [order : Order, state : {"live", "withdrawn", "settled", "sold", "cancelled"}]

(* Ids are given out one after the other, and never more than are ordered. *)
LotsOK ==
  /\ requests \in Seq(Request)
  /\ responses \in Seq(Answer)
  /\ lots = [id \in DOMAIN lots |-> lots[id]]
  /\ \A id \in DOMAIN lots : lots[id] \in LotRecord
  /\ Cardinality(DOMAIN lots) \in Nat
  /\ DOMAIN lots = FirstId .. FirstId + Cardinality(DOMAIN lots) - 1
  /\ Placed <= MaxLots

MapsOK ==
  /\ to_add_requests = [r \in DOMAIN to_add_requests |-> to_add_requests[r]]
  /\ idx_by_lot = [r \in DOMAIN idx_by_lot |-> idx_by_lot[r]]
  /\ lot_by_idx = [id \in DOMAIN lot_by_idx |-> lot_by_idx[id]]

(* InputWindow is shown by a button that connected one slot. *)
DialogOK ==
  /\ input_shown \in BOOLEAN /\ hasty \in BOOLEAN /\ shifted \in BOOLEAN
  /\ Len(slots) <= 1
  /\ input_shown => slots # <<>>

(* A response that acknowledges a lot or, if b, a cancellation. *)
IsAck(m, b) == m.type = "success" /\ m.is_to_cancel = b

Acks(rs, b) == {rs[i].lot : i \in {j \in DOMAIN rs : IsAck(rs[j], b)}}

(* Acknowledgements are about lots of the server, one for each, and        *)
(* reports about lots of others or settled ones.                           *)
AckOK(m, ls) ==
  /\ m.type = "success" =>
       /\ m.lot \in DOMAIN ls
       /\ m.is_to_cancel <=> ls[m.lot].state = "cancelled"
  /\ m.type = "report" /\ m.lot # OtherLot =>
       m.lot \in DOMAIN ls /\ ls[m.lot].state = "settled"

AcksOK(rs, ls) ==
  /\ \A i \in DOMAIN rs : AckOK(rs[i], ls)
  /\ \A i, j \in DOMAIN rs :
       rs[i].type = "success" /\ rs[j].type = "success"
         /\ rs[i].lot = rs[j].lot => i = j

(* The lots that reports under way are about. *)
Reps(rs) == {rs[i].lot : i \in {j \in DOMAIN rs : rs[j].type = "report"}}

(* A lot of the user is reported once and after its acknowledgement: one   *)
(* that is settled before the window knows of it has its report under way. *)
ReportsOK(rs, ls) ==
  /\ \A i, j \in DOMAIN rs :
       rs[i].type = "report" /\ rs[j].type = "report"
         /\ rs[i].lot = rs[j].lot /\ rs[i].lot # OtherLot => i = j
  /\ \A i, j \in DOMAIN rs :
       rs[i].type = "report" /\ IsAck(rs[j], FALSE)
         /\ rs[i].lot = rs[j].lot => j < i
  /\ \A id \in Acks(rs, FALSE) : ls[id].state = "settled" => id \in Reps(rs)

(* A lot is known to the window: its acknowledgement is executed. *)
Known(id) == id \in DOMAIN lots /\ id \notin Acks(responses, FALSE)

(* Only lots that the window knows are cancelled. *)
CancelsKnown ==
  /\ \A i \in DOMAIN requests :
       requests[i].type = "cancel" => Known(requests[i].lot)
  /\ \A r \in DOMAIN idx_by_lot : Known(idx_by_lot[r])

(* A patient user waits for one lot at a time, and no cancellation is      *)
(* answered before it.                                                     *)
OneLot(rs) ==
  \A i, j \in DOMAIN rs :
    rs[i].type = "lot" => /\ rs[j].type = "lot" => i = j
                          /\ rs[j].type = "cancel" => i < j

OneAck(rs) ==
  \A i, j \in DOMAIN rs :
    IsAck(rs[i], FALSE) => /\ IsAck(rs[j], FALSE) => i = j
                           /\ IsAck(rs[j], TRUE) => i < j

(* The orders of the lots that are under way. *)
Orders(rs) == {rs[i].order : i \in LotRequests(rs)}
Awaited == Orders(requests) \cup {lots[id].order : id \in Acks(responses, FALSE)}

(* The lot is filed under the row that it will get. *)
Filed ==
  /\ Awaited = {} => DOMAIN to_add_requests = {}
  /\ Awaited # {} => DOMAIN to_add_requests = {Len(rows) + 1}
  /\ \A o \in Awaited : to_add_requests[Len(rows) + 1] = o

PatientOK ==
  ~hasty =>
    /\ OneLot(requests)
    /\ OneAck(responses)
    /\ Orders(requests) # {} =>
         Acks(responses, FALSE) = {} /\ Acks(responses, TRUE) = {}
    /\ Filed

WInv ==
  /\ TypeOK
  /\ LotsOK
  /\ MapsOK
  /\ DialogOK
  /\ AcksOK(responses, lots)
  /\ ReportsOK(responses, lots)
  /\ CancelsKnown
  /\ WindowKnowsItsLots
  /\ PatientOK
  /\ PatientSurvives
  /\ PatientRowsExact

-----------------------------------------------------------------------------
(* Queues. *)

(* The first message leaves a queue.                                       *)
LEMMA Pop ==
  ASSUME NEW T, NEW q \in Seq(T), q # <<>>
  PROVE  /\ Tail(q) \in Seq(T) /\ Len(Tail(q)) = Len(q) - 1
         /\ 1 \in DOMAIN q /\ Head(q) = q[1]
         /\ \A i \in DOMAIN Tail(q) : i + 1 \in DOMAIN q /\ Tail(q)[i] = q[i + 1]
         /\ \A i \in DOMAIN q :
              i = 1 \/ (i - 1 \in DOMAIN Tail(q) /\ Tail(q)[i - 1] = q[i])
         /\ \A i \in DOMAIN q : i \in Nat /\ i >= 1
  OBVIOUS

(* A message is added to a queue.                                          *)
LEMMA Push ==
  ASSUME NEW T, NEW q \in Seq(T), NEW e \in T
  PROVE  /\ Append(q, e) \in Seq(T)
         /\ DOMAIN Append(q, e) = DOMAIN q \cup {Len(q) + 1}
         /\ Append(q, e)[Len(q) + 1] = e
         /\ Len(q) + 1 \notin DOMAIN q
         /\ \A i \in DOMAIN q : Append(q, e)[i] = q[i] /\ i < Len(q) + 1
  OBVIOUS

(* A response is executed.                                                 *)
LEMMA PopAcks ==
  ASSUME NEW T, NEW q \in Seq(T), q # <<>>, NEW ls, AcksOK(q, ls)
  PROVE  /\ AcksOK(Tail(q), ls)
         /\ \A b : Acks(Tail(q), b) =
              IF IsAck(Head(q), b) THEN Acks(q, b) \ {Head(q).lot} ELSE Acks(q, b)
         /\ \A b : IsAck(Head(q), b) => Head(q).lot \in Acks(q, b)
         /\ AckOK(Head(q), ls)
<1> DEFINE p == Tail(q)
<1>1. /\ 1 \in DOMAIN q /\ Head(q) = q[1]
      /\ \A i \in DOMAIN p : i + 1 \in DOMAIN q /\ p[i] = q[i + 1]
      /\ \A i \in DOMAIN q : i = 1 \/ (i - 1 \in DOMAIN p /\ p[i - 1] = q[i])
      /\ \A i \in DOMAIN p : i \in Nat /\ i >= 1
  <2>1. p \in Seq(T)
    BY Pop
  <2>2. \A i \in DOMAIN p : i \in Nat /\ i >= 1
    BY <2>1
  <2> QED BY <2>2, Pop
<1> HIDE DEF p
<1>2. AcksOK(p, ls)
  <2>1. ASSUME NEW i \in DOMAIN p PROVE AckOK(p[i], ls)
    BY <1>1 DEF AcksOK
  <2>2. ASSUME NEW i \in DOMAIN p, NEW j \in DOMAIN p,
               p[i].type = "success", p[j].type = "success", p[i].lot = p[j].lot
        PROVE  i = j
    <3>1. i + 1 = j + 1
      BY <1>1, <2>2 DEF AcksOK
    <3> QED BY <1>1, <3>1
  <2> QED BY <2>1, <2>2 DEF AcksOK
<1>3. ASSUME NEW b
      PROVE  Acks(p, b) = IF IsAck(Head(q), b) THEN Acks(q, b) \ {Head(q).lot}
                          ELSE Acks(q, b)
  <2>1. ASSUME NEW id \in Acks(p, b)
        PROVE  id \in Acks(q, b) /\ (IsAck(Head(q), b) => id # Head(q).lot)
    <3>1. PICK i \in DOMAIN p : IsAck(p[i], b) /\ id = p[i].lot
      BY DEF Acks
    <3>2. i + 1 \in DOMAIN q /\ p[i] = q[i + 1] /\ i + 1 # 1
      BY <1>1
    <3>3. id \in Acks(q, b)
      BY <3>1, <3>2 DEF Acks
    <3>4. IsAck(Head(q), b) => id # Head(q).lot
      BY <1>1, <3>1, <3>2 DEF AcksOK, IsAck
    <3> QED BY <3>3, <3>4
  <2>2. ASSUME NEW id \in Acks(q, b), IsAck(Head(q), b) => id # Head(q).lot
        PROVE  id \in Acks(p, b)
    <3>1. PICK i \in DOMAIN q : IsAck(q[i], b) /\ id = q[i].lot
      BY DEF Acks
    <3>2. i # 1
      BY <1>1, <2>2, <3>1
    <3>3. i - 1 \in DOMAIN p /\ p[i - 1] = q[i]
      BY <1>1, <3>2
    <3> QED BY <3>1, <3>3 DEF Acks
  <2> QED BY <2>1, <2>2
<1>4. \A b : IsAck(Head(q), b) => Head(q).lot \in Acks(q, b)
  BY <1>1 DEF Acks
<1>5. AckOK(Head(q), ls)
  BY <1>1 DEF AcksOK
<1> QED BY <1>2, <1>3, <1>4, <1>5 DEF p

(* A patient user's acknowledgements.                                      *)
LEMMA PopOneAck ==
  ASSUME NEW T, NEW q \in Seq(T), q # <<>>, OneAck(q)
  PROVE  /\ OneAck(Tail(q))
         /\ IsAck(Head(q), FALSE) => Acks(Tail(q), FALSE) = {}
         /\ IsAck(Head(q), TRUE) => Acks(q, FALSE) = {}
<1> DEFINE p == Tail(q)
<1>1. /\ 1 \in DOMAIN q /\ Head(q) = q[1]
      /\ \A i \in DOMAIN p : i + 1 \in DOMAIN q /\ p[i] = q[i + 1]
      /\ \A i \in DOMAIN p : i \in Nat /\ i >= 1
      /\ \A i \in DOMAIN q : i \in Nat /\ i >= 1
  <2>1. p \in Seq(T)
    BY Pop
  <2>2. \A i \in DOMAIN p : i \in Nat /\ i >= 1
    BY <2>1
  <2> QED BY <2>2, Pop
<1> HIDE DEF p
<1>2. OneAck(p)
  <2> SUFFICES ASSUME NEW i \in DOMAIN p, NEW j \in DOMAIN p, IsAck(p[i], FALSE)
               PROVE  /\ IsAck(p[j], FALSE) => i = j
                      /\ IsAck(p[j], TRUE) => i < j
    BY DEF OneAck
  <2>1. ASSUME IsAck(p[j], FALSE) PROVE i = j
    <3>1. i + 1 = j + 1
      BY <1>1, <2>1 DEF OneAck
    <3> QED BY <1>1, <3>1
  <2>2. ASSUME IsAck(p[j], TRUE) PROVE i < j
    <3>1. i + 1 < j + 1
      BY <1>1, <2>2 DEF OneAck
    <3> QED BY <1>1, <3>1
  <2> QED BY <2>1, <2>2
<1>3. ASSUME IsAck(Head(q), FALSE), NEW i \in DOMAIN p PROVE ~IsAck(p[i], FALSE)
  <2>1. i + 1 # 1 /\ i + 1 \in DOMAIN q /\ p[i] = q[i + 1]
    BY <1>1
  <2> QED BY <1>1, <1>3, <2>1 DEF OneAck
<1>4. ASSUME IsAck(Head(q), TRUE), NEW i \in DOMAIN q PROVE ~IsAck(q[i], FALSE)
  <2>1. IsAck(q[i], FALSE) => i < 1
    BY <1>1, <1>4 DEF OneAck
  <2>2. ~(i < 1)
    BY <1>1
  <2> QED BY <2>1, <2>2
<1> QED BY <1>2, <1>3, <1>4 DEF p, Acks

(* The server answers.                                                     *)
LEMMA PushAcks ==
  ASSUME NEW T, NEW q \in Seq(T), NEW e \in T, NEW ls, AcksOK(q, ls),
         AckOK(e, ls),
         e.type = "success" => e.lot \notin Acks(q, TRUE) \cup Acks(q, FALSE),
         \A x \in T : x.type = "success" => x.is_to_cancel \in BOOLEAN
  PROVE  /\ AcksOK(Append(q, e), ls)
         /\ \A b : Acks(Append(q, e), b) =
              IF IsAck(e, b) THEN Acks(q, b) \cup {e.lot} ELSE Acks(q, b)
<1> DEFINE p == Append(q, e)
           n == Len(q) + 1
<1>1. /\ DOMAIN p = DOMAIN q \cup {n} /\ p[n] = e /\ n \notin DOMAIN q
      /\ \A i \in DOMAIN q : p[i] = q[i] /\ q[i] \in T
  BY Push
<1> HIDE DEF p, n
<1>2. \A i \in DOMAIN q : q[i].type = "success" =>
        q[i].lot \in Acks(q, TRUE) \cup Acks(q, FALSE)
  BY <1>1 DEF Acks, IsAck
<1>3. AcksOK(p, ls)
  BY <1>1, <1>2 DEF AcksOK
<1>4. \A b : Acks(p, b) =
        IF IsAck(e, b) THEN Acks(q, b) \cup {e.lot} ELSE Acks(q, b)
  BY <1>1 DEF Acks
<1> QED BY <1>3, <1>4 DEF p

(* The server answers a patient user.                                      *)
LEMMA PushOneAck ==
  ASSUME NEW T, NEW q \in Seq(T), NEW e \in T, OneAck(q),
         IsAck(e, FALSE) => Acks(q, TRUE) = {} /\ Acks(q, FALSE) = {}
  PROVE  OneAck(Append(q, e))
<1> DEFINE p == Append(q, e)
           n == Len(q) + 1
<1>1. /\ DOMAIN p = DOMAIN q \cup {n} /\ p[n] = e /\ n \notin DOMAIN q
      /\ \A i \in DOMAIN q : p[i] = q[i] /\ i < n
  BY Push
<1> HIDE DEF p, n
<1>2. IsAck(e, FALSE) => ~IsAck(e, TRUE)
  BY DEF IsAck
<1>3. \A b : Acks(q, b) = {} => \A i \in DOMAIN q : ~IsAck(q[i], b)
  BY DEF Acks
<1>4. OneAck(p)
  BY <1>1, <1>2, <1>3 DEF OneAck
<1> QED BY <1>4 DEF p

(* A response is executed, perhaps a report.                               *)
LEMMA PopReports ==
  ASSUME NEW T, NEW q \in Seq(T), q # <<>>, NEW ls, ReportsOK(q, ls),
         Acks(Tail(q), FALSE) \subseteq Acks(q, FALSE)
  PROVE  /\ ReportsOK(Tail(q), ls)
         /\ Head(q).type = "report" =>
              Head(q).lot \in Reps(q) /\ Head(q).lot \notin Acks(q, FALSE)
         /\ \A x : x # OtherLot =>
              (x \in Reps(Tail(q)) <=>
                 x \in Reps(q) /\ ~(Head(q).type = "report" /\ Head(q).lot = x))
<1> DEFINE p == Tail(q)
<1>1. /\ 1 \in DOMAIN q /\ Head(q) = q[1]
      /\ \A i \in DOMAIN p : i + 1 \in DOMAIN q /\ p[i] = q[i + 1] /\ i + 1 # 1
      /\ \A i \in DOMAIN q : i = 1 \/ (i - 1 \in DOMAIN p /\ p[i - 1] = q[i])
      /\ \A i \in DOMAIN p : i \in Nat /\ i >= 1
      /\ \A i \in DOMAIN q : i \in Nat /\ i >= 1
  <2>1. p \in Seq(T)
    BY Pop
  <2>2. \A i \in DOMAIN p : i \in Nat /\ i >= 1 /\ i + 1 # 1
    BY <2>1
  <2> QED BY <2>2, Pop
<1>2. Acks(p, FALSE) \subseteq Acks(q, FALSE)
  OBVIOUS
<1> HIDE DEF p
<1>3. ASSUME Head(q).type = "report"
      PROVE  Head(q).lot \in Reps(q) /\ Head(q).lot \notin Acks(q, FALSE)
  <2>1. Head(q).lot \in Reps(q)
    BY <1>1, <1>3 DEF Reps
  <2>2. ASSUME NEW j \in DOMAIN q, IsAck(q[j], FALSE), q[j].lot = Head(q).lot
        PROVE  FALSE
    <3>1. j < 1
      BY <1>1, <1>3, <2>2 DEF ReportsOK
    <3> QED BY <1>1, <3>1
  <2> QED BY <2>1, <2>2 DEF Acks
<1>4. ASSUME NEW x, x # OtherLot
      PROVE  x \in Reps(p) <=>
               x \in Reps(q) /\ ~(Head(q).type = "report" /\ Head(q).lot = x)
  <2>1. ASSUME x \in Reps(p)
        PROVE  x \in Reps(q) /\ ~(Head(q).type = "report" /\ Head(q).lot = x)
    <3>1. PICK i \in DOMAIN p : p[i].type = "report" /\ x = p[i].lot
      BY <2>1 DEF Reps
    <3>2. i + 1 \in DOMAIN q /\ p[i] = q[i + 1] /\ i + 1 # 1
      BY <1>1
    <3>3. x \in Reps(q)
      BY <3>1, <3>2 DEF Reps
    <3>4. ~(q[1].type = "report" /\ q[1].lot = x)
      BY <1>1, <1>4, <3>1, <3>2 DEF ReportsOK
    <3> QED BY <1>1, <3>3, <3>4
  <2>2. ASSUME x \in Reps(q), ~(Head(q).type = "report" /\ Head(q).lot = x)
        PROVE  x \in Reps(p)
    <3>1. PICK i \in DOMAIN q : q[i].type = "report" /\ x = q[i].lot
      BY <2>2 DEF Reps
    <3>2. i - 1 \in DOMAIN p /\ p[i - 1] = q[i]
      BY <1>1, <2>2, <3>1
    <3> QED BY <3>1, <3>2 DEF Reps
  <2> QED BY <2>1, <2>2
<1>5. ReportsOK(p, ls)
  <2>1. ASSUME NEW i \in DOMAIN p, NEW j \in DOMAIN p,
               p[i].type = "report", p[j].type = "report",
               p[i].lot = p[j].lot, p[i].lot # OtherLot
        PROVE  i = j
    <3>1. /\ i + 1 \in DOMAIN q /\ j + 1 \in DOMAIN q
          /\ q[i + 1].type = "report" /\ q[j + 1].type = "report"
          /\ q[i + 1].lot = q[j + 1].lot /\ q[i + 1].lot # OtherLot
      BY <1>1, <2>1
    <3>2. i + 1 = j + 1
      BY <3>1 DEF ReportsOK
    <3> QED BY <1>1, <3>2
  <2>2. ASSUME NEW i \in DOMAIN p, NEW j \in DOMAIN p,
               p[i].type = "report", IsAck(p[j], FALSE), p[i].lot = p[j].lot
        PROVE  j < i
    <3>1. j + 1 < i + 1
      BY <1>1, <2>2 DEF ReportsOK
    <3> QED BY <1>1, <3>1
  <2>3. ASSUME NEW id \in Acks(p, FALSE), ls[id].state = "settled"
        PROVE  id \in Reps(p)
    <3>1. id \in Acks(q, FALSE) /\ id \in Reps(q)
      BY <1>2, <2>3 DEF ReportsOK
    <3>2. ~(Head(q).type = "report" /\ Head(q).lot = id)
      BY <1>3, <3>1
    <3>3. PICK i \in DOMAIN q : q[i].type = "report" /\ id = q[i].lot
      BY <3>1 DEF Reps
    <3>4. i - 1 \in DOMAIN p /\ p[i - 1] = q[i]
      BY <1>1, <3>2, <3>3
    <3> QED BY <3>3, <3>4 DEF Reps
  <2> QED BY <2>1, <2>2, <2>3 DEF ReportsOK
<1> QED BY <1>3, <1>4, <1>5 DEF p

(* The server answers, perhaps by a report, while lots change to ks.       *)
LEMMA PushReports ==
  ASSUME NEW T, NEW q \in Seq(T), NEW e \in T, NEW ls, NEW ks,
         ReportsOK(q, ls),
         e.type = "report" /\ e.lot # OtherLot => e.lot \notin Reps(q),
         IsAck(e, FALSE) => e.lot \notin Reps(q) /\ ks[e.lot].state # "settled",
         \A x \in Acks(q, FALSE) : ks[x].state = "settled" =>
           ls[x].state = "settled" \/ (e.type = "report" /\ e.lot = x)
  PROVE  /\ ReportsOK(Append(q, e), ks)
         /\ Reps(Append(q, e)) =
              IF e.type = "report" THEN Reps(q) \cup {e.lot} ELSE Reps(q)
<1> DEFINE p == Append(q, e)
           n == Len(q) + 1
<1>1. /\ DOMAIN p = DOMAIN q \cup {n} /\ p[n] = e /\ n \notin DOMAIN q
      /\ \A i \in DOMAIN q : p[i] = q[i] /\ i < n
  BY Push
<1> HIDE DEF p, n
<1>2. Reps(p) = IF e.type = "report" THEN Reps(q) \cup {e.lot} ELSE Reps(q)
  BY <1>1 DEF Reps
<1>3. IsAck(e, FALSE) => e.type # "report"
  BY DEF IsAck
<1>4. \A i \in DOMAIN q : q[i].type = "report" => q[i].lot \in Reps(q)
  BY DEF Reps
<1>5. ASSUME NEW i \in DOMAIN p, NEW j \in DOMAIN p,
             p[i].type = "report", p[j].type = "report",
             p[i].lot = p[j].lot, p[i].lot # OtherLot
      PROVE  i = j
  BY <1>1, <1>4, <1>5 DEF ReportsOK
<1>6. ASSUME NEW i \in DOMAIN p, NEW j \in DOMAIN p,
             p[i].type = "report", IsAck(p[j], FALSE), p[i].lot = p[j].lot
      PROVE  j < i
  BY <1>1, <1>3, <1>4, <1>6 DEF ReportsOK
<1>7. ASSUME NEW id \in Acks(p, FALSE), ks[id].state = "settled"
      PROVE  id \in Reps(p)
  <2>1. PICK i \in DOMAIN p : IsAck(p[i], FALSE) /\ id = p[i].lot
    BY <1>7 DEF Acks
  <2>2. i \in DOMAIN q
    BY <1>1, <1>7, <2>1
  <2>3. id \in Acks(q, FALSE)
    BY <1>1, <2>1, <2>2 DEF Acks
  <2> QED BY <1>2, <1>7, <2>3 DEF ReportsOK
<1>8. ReportsOK(p, ks)
  BY <1>5, <1>6, <1>7 DEF ReportsOK
<1> QED BY <1>2, <1>8 DEF p

(* A request that is no lot leaves for the server, or arrives there.       *)
LEMMA PushOther ==
  ASSUME NEW T, NEW q \in Seq(T), NEW e \in T, e.type # "lot"
  PROVE  /\ LotRequests(Append(q, e)) = LotRequests(q)
         /\ Orders(Append(q, e)) = Orders(q)
         /\ OneLot(q) => OneLot(Append(q, e))
<1> DEFINE p == Append(q, e)
           n == Len(q) + 1
<1>1. /\ DOMAIN p = DOMAIN q \cup {n} /\ p[n] = e /\ n \notin DOMAIN q
      /\ \A i \in DOMAIN q : p[i] = q[i] /\ i < n
  BY Push
<1> HIDE DEF p, n
<1>2. LotRequests(p) = LotRequests(q) /\ LotRequests(q) \subseteq DOMAIN q
  BY <1>1 DEF LotRequests
<1>3. Orders(p) = Orders(q)
  BY <1>1, <1>2 DEF Orders
<1>4. OneLot(q) => OneLot(p)
  BY <1>1 DEF OneLot
<1> QED BY <1>2, <1>3, <1>4 DEF p

(* A lot is ordered.                                                       *)
LEMMA PushLot ==
  ASSUME NEW T, NEW q \in Seq(T), NEW e \in T, e.type = "lot"
  PROVE  /\ Cardinality(LotRequests(Append(q, e))) = Cardinality(LotRequests(q)) + 1
         /\ Orders(Append(q, e)) = Orders(q) \cup {e.order}
         /\ (\A i \in DOMAIN q : q[i].type \notin {"lot", "cancel"})
              => OneLot(Append(q, e)) /\ Orders(q) = {}
<1> DEFINE p == Append(q, e)
           n == Len(q) + 1
<1>1. /\ DOMAIN p = DOMAIN q \cup {n} /\ p[n] = e /\ n \notin DOMAIN q
      /\ \A i \in DOMAIN q : p[i] = q[i] /\ i < n
  BY Push
<1>2. IsFiniteSet(LotRequests(q))
  <2>1. DOMAIN q = 1 .. Len(q) /\ 1 \in Int /\ Len(q) \in Int
    OBVIOUS
  <2>2. IsFiniteSet(DOMAIN q)
    BY <2>1, FS_Interval
  <2> QED BY <2>2, FS_Subset DEF LotRequests
<1> HIDE DEF p, n
<1>3. /\ LotRequests(p) = LotRequests(q) \cup {n} /\ n \notin LotRequests(q)
      /\ LotRequests(q) \subseteq DOMAIN q
  BY <1>1 DEF LotRequests
<1>4. Cardinality(LotRequests(p)) = Cardinality(LotRequests(q)) + 1
  BY <1>2, <1>3, FS_AddElement
<1>5. Orders(p) = Orders(q) \cup {e.order}
  BY <1>1, <1>3 DEF Orders
<1>6. ASSUME \A i \in DOMAIN q : q[i].type \notin {"lot", "cancel"}
      PROVE  OneLot(p) /\ Orders(q) = {}
  BY <1>1, <1>6 DEF OneLot, Orders, LotRequests
<1> QED BY <1>4, <1>5, <1>6 DEF p

(* The server takes a request.                                             *)
LEMMA PopRequest ==
  ASSUME NEW T, NEW q \in Seq(T), q # <<>>
  PROVE  /\ Head(q).type # "lot" => /\ Orders(Tail(q)) = Orders(q)
                                    /\ Cardinality(LotRequests(Tail(q)))
                                         = Cardinality(LotRequests(q))
         /\ Head(q).type = "lot" =>
              /\ Cardinality(LotRequests(Tail(q))) + 1
                   = Cardinality(LotRequests(q))
              /\ Orders(q) = Orders(Tail(q)) \cup {Head(q).order}
         /\ OneLot(q) => /\ OneLot(Tail(q))
                         /\ Head(q).type = "lot" => Orders(Tail(q)) = {}
                         /\ Head(q).type = "cancel" => Orders(q) = {}
         /\ IsFiniteSet(LotRequests(q))
<1> DEFINE p == Tail(q)
<1>1. /\ 1 \in DOMAIN q /\ Head(q) = q[1]
      /\ \A i \in DOMAIN p : i + 1 \in DOMAIN q /\ p[i] = q[i + 1]
      /\ \A i \in DOMAIN q : i = 1 \/ (i - 1 \in DOMAIN p /\ p[i - 1] = q[i])
      /\ \A i \in DOMAIN p : i \in Nat /\ i >= 1
      /\ \A i \in DOMAIN q : i \in Nat /\ i >= 1
  <2>1. p \in Seq(T)
    BY Pop
  <2>2. \A i \in DOMAIN p : i \in Nat /\ i >= 1
    BY <2>1
  <2> QED BY <2>2, Pop
<1>2. IsFiniteSet(LotRequests(q)) /\ IsFiniteSet(LotRequests(p))
  <2>1. p \in Seq(T)
    BY Pop
  <2> HIDE DEF p
  <2>2. /\ DOMAIN q = 1 .. Len(q) /\ 1 \in Int /\ Len(q) \in Int
        /\ DOMAIN p = 1 .. Len(p) /\ Len(p) \in Int
    BY <2>1
  <2>3. IsFiniteSet(DOMAIN q) /\ IsFiniteSet(DOMAIN p)
    BY <2>2, FS_Interval
  <2> QED BY <2>3, FS_Subset DEF LotRequests
<1> HIDE DEF p
<1> DEFINE rest == LotRequests(q) \ {1}
           f == [i \in rest |-> i - 1]
<1>3. /\ \A i \in rest : i - 1 \in LotRequests(p) /\ p[i - 1] = q[i]
      /\ \A i \in LotRequests(p) : i + 1 \in rest /\ p[i] = q[i + 1]
      /\ \A i \in rest : i \in Nat
      /\ \A i \in LotRequests(p) : i \in Nat
  BY <1>1 DEF LotRequests
<1>4. IsFiniteSet(rest)
  BY <1>2, FS_Subset
<1>5. Cardinality(LotRequests(p)) = Cardinality(rest)
  <2>1. f \in [rest -> LotRequests(p)]
    BY <1>3
  <2>2. \A i, j \in rest : f[i] = f[j] => i = j
    BY <1>3
  <2>3. ASSUME NEW k \in LotRequests(p) PROVE \E i \in rest : f[i] = k
    <3>1. k + 1 \in rest /\ (k + 1) - 1 = k
      BY <1>3
    <3> QED BY <3>1
  <2>4. f \in Bijection(rest, LotRequests(p))
    BY <2>1, <2>2, <2>3 DEF Bijection, Injection, Surjection, IsInjective
  <2> HIDE DEF rest, f
  <2> QED BY <1>4, <2>4, FS_Bijection DEF ExistsBijection
<1>6. Orders(p) = {q[i].order : i \in rest}
  <2> HIDE DEF rest
  <2>1. ASSUME NEW o \in Orders(p) PROVE o \in {q[i].order : i \in rest}
    BY <1>3 DEF Orders
  <2>2. ASSUME NEW o \in {q[i].order : i \in rest} PROVE o \in Orders(p)
    BY <1>3 DEF Orders
  <2> QED BY <2>1, <2>2
<1>7. Cardinality(rest) = IF 1 \in LotRequests(q)
                          THEN Cardinality(LotRequests(q)) - 1
                          ELSE Cardinality(LotRequests(q))
  BY <1>2, FS_RemoveElement
<1>8. Cardinality(LotRequests(q)) \in Nat
  BY <1>2, FS_CardinalityType
<1>9. 1 \in LotRequests(q) <=> Head(q).type = "lot"
  BY <1>1 DEF LotRequests
<1>10. ASSUME Head(q).type # "lot" PROVE Orders(p) = Orders(q)
  <2>1. rest = LotRequests(q)
    BY <1>9, <1>10
  <2> QED BY <1>6, <2>1 DEF Orders
<1>11. ASSUME Head(q).type = "lot"
       PROVE  Orders(q) = Orders(p) \cup {Head(q).order}
  <2>1. LotRequests(q) = rest \cup {1}
    BY <1>9, <1>11
  <2> HIDE DEF rest
  <2>2. Orders(q) = {q[i].order : i \in rest \cup {1}}
    BY <2>1 DEF Orders
  <2>3. ASSUME NEW o \in Orders(q) PROVE o \in Orders(p) \cup {Head(q).order}
    BY <1>1, <1>6, <2>2
  <2>4. ASSUME NEW o \in Orders(p) \cup {Head(q).order} PROVE o \in Orders(q)
    BY <1>1, <1>6, <2>2
  <2> QED BY <2>3, <2>4
<1>12. ASSUME OneLot(q) PROVE OneLot(p)
  <2> SUFFICES ASSUME NEW i \in DOMAIN p, NEW j \in DOMAIN p, p[i].type = "lot"
               PROVE  /\ p[j].type = "lot" => i = j
                      /\ p[j].type = "cancel" => i < j
    BY DEF OneLot
  <2>1. i \in Nat /\ j \in Nat
    BY <1>1
  <2>2. /\ p[j].type = "lot" => i + 1 = j + 1
        /\ p[j].type = "cancel" => i + 1 < j + 1
    BY <1>1, <1>12 DEF OneLot
  <2> QED BY <2>1, <2>2
<1>13. ASSUME OneLot(q), Head(q).type = "lot" PROVE Orders(p) = {}
  <2>1. \A i \in rest : i = 1
    BY <1>1, <1>13 DEF OneLot, LotRequests
  <2>2. rest = {}
    BY <2>1
  <2> QED BY <1>6, <2>2
<1>14. ASSUME OneLot(q), Head(q).type = "cancel" PROVE Orders(q) = {}
  <2>1. \A i \in LotRequests(q) : i < 1 /\ i \in Nat /\ i >= 1
    BY <1>1, <1>14 DEF OneLot, LotRequests
  <2>2. LotRequests(q) = {}
    BY <2>1
  <2> QED BY <2>2 DEF Orders
<1> HIDE DEF rest, f
<1> QED BY <1>2, <1>5, <1>7, <1>8, <1>9, <1>10, <1>11, <1>12, <1>13, <1>14 DEF p

-----------------------------------------------------------------------------
(* Steps that leave lists, maps and lots alone. *)

(* WindowKnowsItsLots, of given maps and messages. *)
KnowsLots(map, ls, rs) ==
  DOMAIN map = ({id \in DOMAIN ls : ls[id].state # "cancelled"}
                  \ Acks(rs, FALSE)) \cup Acks(rs, TRUE)

(* It is what WindowKnowsItsLots says,                                     *)
LEMMA KnowsNow ==
  WindowKnowsItsLots <=> /\ app # "lot_by_idx.at"
                         /\ KnowsLots(lot_by_idx, lots, responses)
<1>1. \A b : Acknowledged(b) = Acks(responses, b)
  BY DEF Acknowledged, Acks, IsAck
<1> QED BY <1>1 DEF WindowKnowsItsLots, KnowsLots

(* before a step and after it.                                             *)
LEMMA KnowsNext ==
  WindowKnowsItsLots' <=> /\ app' # "lot_by_idx.at"
                          /\ KnowsLots(lot_by_idx', lots', responses')
<1>1. \A b : Acknowledged(b)' = Acks(responses', b)
  BY DEF Acknowledged, Acks, IsAck
<1> QED BY <1>1 DEF WindowKnowsItsLots, KnowsLots

(* The lot was settled under its own id, and the report is executed. *)
Told(id, ls, rs) == ls[id].state = "settled" /\ id \notin Reps(rs)

(* What a row says, and PatientRowsExact, of given maps and messages. *)
RowRight(w, ls, rs) ==
  /\ w.text.says = "request" =>
       /\ w.text.usd = ls[w.lot].order.usd
       /\ w.text.op # ls[w.lot].order.op
  /\ w.text.says = "completed" <=> Told(w.lot, ls, rs)

RowsExact(ws, by_row, by_lot, ls, rs) ==
  /\ DOMAIN by_row = DOMAIN ws
  /\ DOMAIN by_lot = {ws[r].lot : r \in DOMAIN ws}
  /\ \A r \in DOMAIN ws :
       /\ by_row[r] = ws[r].lot
       /\ by_lot[ws[r].lot] = r
       /\ RowRight(ws[r], ls, rs)

(* It is what PatientRowsExact says,                                       *)
LEMMA RowsNow ==
  PatientRowsExact <=>
    (~hasty /\ ~shifted /\ app \notin Thrown =>
       RowsExact(rows, idx_by_lot, lot_by_idx, lots, responses))
<1>1. ReportsUnderWay = Reps(responses)
  BY DEF ReportsUnderWay, Reps
<1> QED BY <1>1 DEF PatientRowsExact, RowsExact, RowRight, Told

(* before a step and after it.                                             *)
LEMMA RowsNext ==
  PatientRowsExact' <=>
    (~hasty' /\ ~shifted' /\ app' \notin Thrown =>
       RowsExact(rows', idx_by_lot', lot_by_idx', lots', responses'))
<1>1. ReportsUnderWay' = Reps(responses')
  BY DEF ReportsUnderWay, Reps
<1> QED BY <1>1 DEF PatientRowsExact, RowsExact, RowRight, Told

(* The window goes on, or ends as it may. *)
AppGoesOn ==
  /\ app' = app \/ app' \in {"main", "std::stoi", "idx_by_lot.at"}
  /\ app \in Thrown => app' = app

(* Requests q and responses p that mean the same to the window. *)
SameLots(q, p) ==
  /\ q \in Seq(Request) /\ p \in Seq(Answer)
  /\ Cardinality(LotRequests(q)) = Cardinality(LotRequests(requests))
  /\ Orders(q) = Orders(requests)
  /\ OneLot(requests) => OneLot(q)
  /\ \A i \in DOMAIN q : q[i].type = "cancel" => Known(q[i].lot)
  /\ AcksOK(p, lots)
  /\ Acks(p, TRUE) = Acks(responses, TRUE)
  /\ Acks(p, FALSE) = Acks(responses, FALSE)
  /\ OneAck(responses) => OneAck(p)

SameReports(p) == ReportsOK(p, lots) /\ \A x : x # OtherLot =>
                    (x \in Reps(p) <=> x \in Reps(responses))

(* The lot of another is none of the user's,                               *)
LEMMA OtherLotIsNone == OtherLot \notin LotIds
  BY BoundsAssumption DEF OtherLot, LotIds

(* and no row is about it.                                                 *)
LEMMA RowLots == ASSUME WInv PROVE \A r \in DOMAIN rows : rows[r].lot # OtherLot
<1>1. rows \in Seq(Row)
  BY DEF WInv, TypeOK
<1>2. \A r \in DOMAIN rows : rows[r] \in Row
  BY <1>1
<1> QED BY <1>2, OtherLotIsNone DEF Row

(* Messages that are not about lots come and go.                           *)
LEMMA QuietInv ==
  ASSUME WInv, UNCHANGED <<list, maps, dialog, lots, history>>, AppGoesOn,
         SameLots(requests', responses'), SameReports(responses')
  PROVE  WInv'
<1>1. /\ UNCHANGED <<rows, current, ReportModel, to_add_requests, idx_by_lot,
                     lot_by_idx, slots, input_shown, lots, hasty, shifted>>
  BY DEF list, maps, dialog, history
<1>2. TypeOK'
  BY <1>1 DEF WInv, TypeOK, AppGoesOn, Thrown
<1>3. LotsOK'
  BY <1>1 DEF WInv, LotsOK, SameLots, Placed
<1>4. MapsOK' /\ DialogOK'
  BY <1>1 DEF WInv, MapsOK, DialogOK
<1>5. AcksOK(responses, lots)'
  BY <1>1 DEF SameLots
<1>6. \A id : Known(id)' = Known(id)
  BY <1>1 DEF Known, SameLots
<1>7. CancelsKnown'
  BY <1>1, <1>6 DEF WInv, CancelsKnown, SameLots
<1>8. WindowKnowsItsLots'
  <2>1. app' # "lot_by_idx.at"
    BY DEF WInv, WindowKnowsItsLots, AppGoesOn
  <2>2. KnowsLots(lot_by_idx', lots', responses')
    BY <1>1, KnowsNow DEF WInv, KnowsLots, SameLots
  <2> QED BY <2>1, <2>2, KnowsNext
<1>9. PatientOK'
  <2>1. Awaited' = Awaited
    BY <1>1 DEF Awaited, SameLots
  <2>2. Filed' = Filed
    BY <1>1, <2>1 DEF Filed
  <2> QED BY <1>1, <2>2 DEF WInv, PatientOK, SameLots
<1>10. PatientSurvives'
  BY <1>1 DEF WInv, PatientSurvives, AppGoesOn
<1>11. PatientRowsExact'
  <2> SUFFICES ASSUME ~hasty, ~shifted, app' \notin Thrown
               PROVE  RowsExact(rows', idx_by_lot', lot_by_idx', lots', responses')
    BY <1>1, RowsNext
  <2>1. app \notin Thrown
    BY DEF AppGoesOn
  <2>2. RowsExact(rows, idx_by_lot, lot_by_idx, lots, responses)
    BY <2>1, RowsNow DEF WInv
  <2>3. \A r \in DOMAIN rows : rows[r].lot # OtherLot
    BY RowLots
  <2>4. \A r \in DOMAIN rows :
          Told(rows[r].lot, lots, responses') <=> Told(rows[r].lot, lots, responses)
    BY <2>3 DEF Told, SameReports
  <2> QED BY <1>1, <2>2, <2>4 DEF RowsExact, RowRight
<1>12. ReportsOK(responses, lots)'
  BY <1>1 DEF SameReports
<1> QED BY <1>2, <1>3, <1>4, <1>5, <1>7, <1>8, <1>9, <1>10, <1>11, <1>12 DEF WInv

(* The queues as they are.                                                 *)
LEMMA SameQueues ==
  ASSUME WInv PROVE SameLots(requests, responses) /\ SameReports(responses)
  BY DEF WInv, LotsOK, CancelsKnown, SameLots, SameReports

(* A request that is no lot is sent.                                       *)
LEMMA SendOther ==
  ASSUME WInv, NEW q, SameLots(q, responses), NEW e \in Request,
         e.type # "lot", e.type = "cancel" => Known(e.lot)
  PROVE  SameLots(Append(q, e), responses)
<1>1. q \in Seq(Request)
  BY DEF SameLots
<1>2. /\ Append(q, e) \in Seq(Request)
      /\ DOMAIN Append(q, e) = DOMAIN q \cup {Len(q) + 1}
      /\ Append(q, e)[Len(q) + 1] = e
      /\ \A i \in DOMAIN q : Append(q, e)[i] = q[i]
  BY <1>1, Push
<1>3. /\ LotRequests(Append(q, e)) = LotRequests(q)
      /\ Orders(Append(q, e)) = Orders(q)
      /\ OneLot(q) => OneLot(Append(q, e))
  BY <1>1, PushOther
<1>4. PICK p : p = Append(q, e)
  OBVIOUS
<1> QED BY <1>2, <1>3, <1>4 DEF SameLots

(* A response that is no acknowledgement is executed.                      *)
LEMMA ExecuteOther ==
  ASSUME WInv, responses # <<>>, Head(responses).type # "success"
  PROVE  /\ SameLots(requests, Tail(responses))
         /\ ReportsOK(Tail(responses), lots)
         /\ Head(responses).type # "report" => SameReports(Tail(responses))
<1>1. responses \in Seq(Answer) /\ AcksOK(responses, lots)
  BY DEF WInv, LotsOK
<1>2. Tail(responses) \in Seq(Answer)
  BY <1>1, Pop
<1>3. AcksOK(Tail(responses), lots)
  BY <1>1, PopAcks
<1>4. \A b : Acks(Tail(responses), b) = Acks(responses, b)
  <2>1. \A b : ~IsAck(Head(responses), b)
    BY DEF IsAck
  <2> QED BY <1>1, <2>1, PopAcks
<1>5. OneAck(responses) => OneAck(Tail(responses))
  BY <1>1, PopOneAck
<1>6. /\ ReportsOK(Tail(responses), lots)
      /\ \A x : x # OtherLot =>
           (x \in Reps(Tail(responses)) <=>
              /\ x \in Reps(responses)
              /\ ~(Head(responses).type = "report" /\ Head(responses).lot = x))
  <2>1. ReportsOK(responses, lots)
    BY DEF WInv
  <2> QED BY <1>1, <1>4, <2>1, PopReports
<1>7. Head(responses).type # "report" => SameReports(Tail(responses))
  BY <1>6 DEF SameReports
<1> QED BY <1>2, <1>3, <1>4, <1>5, <1>6, <1>7, SameQueues DEF SameLots

(* The server answers a request that is no lot by no acknowledgement.      *)
LEMMA ServeOther ==
  ASSUME WInv, requests # <<>>, Head(requests).type # "lot",
         NEW e \in Answer, e.type \notin {"success", "report"}
  PROVE  /\ SameLots(Tail(requests), Append(responses, e))
         /\ SameReports(Append(responses, e))
<1>1. /\ responses \in Seq(Answer) /\ AcksOK(responses, lots)
      /\ requests \in Seq(Request)
  BY DEF WInv, LotsOK
<1>2. /\ Tail(requests) \in Seq(Request)
      /\ \A i \in DOMAIN Tail(requests) :
           i + 1 \in DOMAIN requests /\ Tail(requests)[i] = requests[i + 1]
  BY <1>1, Pop
<1>3. /\ Cardinality(LotRequests(Tail(requests))) = Cardinality(LotRequests(requests))
      /\ Orders(Tail(requests)) = Orders(requests)
      /\ OneLot(requests) => OneLot(Tail(requests))
  BY <1>1, PopRequest
<1>4. \A i \in DOMAIN Tail(requests) :
        Tail(requests)[i].type = "cancel" => Known(Tail(requests)[i].lot)
  BY <1>2 DEF WInv, CancelsKnown
<1>5. Append(responses, e) \in Seq(Answer)
  BY <1>1, Push
<1>6. /\ AckOK(e, lots)
      /\ \A b : ~IsAck(e, b)
  BY DEF AckOK, IsAck
<1>7. \A x \in Answer : x.type = "success" => x.is_to_cancel \in BOOLEAN
  BY DEF Answer
<1>8. /\ AcksOK(Append(responses, e), lots)
      /\ \A b : Acks(Append(responses, e), b) =
           IF IsAck(e, b) THEN Acks(responses, b) \cup {e.lot}
           ELSE Acks(responses, b)
  BY <1>1, <1>6, <1>7, PushAcks
<1>9. OneAck(responses) => OneAck(Append(responses, e))
  BY <1>1, <1>6, PushOneAck
<1>10. SameReports(Append(responses, e))
  <2>1. ReportsOK(responses, lots)
    BY DEF WInv
  <2>2. /\ ReportsOK(Append(responses, e), lots)
        /\ Reps(Append(responses, e)) = Reps(responses)
    BY <1>1, <1>6, <2>1, PushReports
  <2> QED BY <2>2 DEF SameReports
<1> QED BY <1>2, <1>3, <1>4, <1>5, <1>6, <1>8, <1>9, <1>10 DEF SameLots

(* Buttons that send no lot, an input that std::stoi refuses, responses    *)
(* that change a label, the chart or the window shown, and requests that   *)
(* the server answers without touching a lot.                              *)
LEMMA QuietSteps ==
  ASSUME WInv,
         \/ \E request \in {AuthorizationRequest, RegistrationRequest} :
              AuthClicked(request)
         \/ DeleteClicked \/ UpdateClicked \/ BadInput
         \/ Authorized \/ LabelShown \/ ChartShown
         \/ ServerLogin \/ ServerReads
         \/ UNCHANGED vars
  PROVE  WInv'
<1>1. /\ requests \in Seq(Request) /\ responses \in Seq(Answer)
      /\ SameLots(requests, responses) /\ SameReports(responses)
  BY SameQueues DEF WInv, LotsOK
<1>2. ASSUME NEW call \in {"std::stoi", "idx_by_lot.at"}, app = "main", Throw(call)
      PROVE  WInv'
  BY <1>1, <1>2, QuietInv DEF Throw, AppGoesOn, Thrown
<1>3. ASSUME NEW request \in {AuthorizationRequest, RegistrationRequest},
             AuthClicked(request)
      PROVE  WInv'
  <2>1. request \in Request /\ request.type \notin {"lot", "cancel"}
    BY DEF AuthorizationRequest, RegistrationRequest, Request
  <2>2. requests' = Append(requests, request)
    <3>1. requests' = requests \o <<request>>
      BY <1>3 DEF AuthClicked, Send
    <3> QED BY <1>1, <2>1, <3>1
  <2>3. SameLots(requests', responses')
    BY <1>1, <1>3, <2>1, <2>2, SendOther DEF AuthClicked
  <2> QED BY <1>1, <1>3, <2>3, QuietInv DEF AuthClicked, AppGoesOn
<1>4. CASE DeleteClicked
  <2>1. CASE current \notin DOMAIN idx_by_lot
    BY <1>2, <1>4, <2>1 DEF DeleteClicked
  <2>2. CASE current \in DOMAIN idx_by_lot
    <3>1. PICK e : e = CancelRequest(idx_by_lot[current])
      OBVIOUS
    <3>2. e \in Request /\ e.type = "cancel" /\ Known(e.lot)
      BY <2>2, <3>1 DEF WInv, TypeOK, CancelsKnown, CancelRequest, Request
    <3>3. requests' = Append(requests, e)
      <4>1. requests' = requests \o <<e>>
        BY <1>4, <2>2, <3>1 DEF DeleteClicked, Send
      <4> QED BY <1>1, <3>2, <4>1
    <3>4. SameLots(requests', responses')
      BY <1>1, <1>4, <2>2, <3>2, <3>3, SendOther DEF DeleteClicked
    <3> QED BY <1>1, <1>4, <2>2, <3>4, QuietInv DEF DeleteClicked, AppGoesOn
  <2> QED BY <2>1, <2>2
<1>5. CASE UpdateClicked
  <2>1. PICK a, b : a = UpdateRequest /\ b = BalanceRequest
    OBVIOUS
  <2>2. /\ a \in Request /\ a.type \notin {"lot", "cancel"}
        /\ b \in Request /\ b.type \notin {"lot", "cancel"}
    BY <2>1 DEF UpdateRequest, BalanceRequest, Request
  <2>3. requests' = Append(Append(requests, a), b)
    <3>1. requests' = requests \o <<a, b>>
      BY <1>5, <2>1 DEF UpdateClicked, Send
    <3> QED BY <1>1, <2>2, <3>1
  <2>4. SameLots(Append(requests, a), responses)
    BY <1>1, <2>2, SendOther
  <2>5. SameLots(requests', responses')
    BY <1>5, <2>2, <2>3, <2>4, SendOther DEF UpdateClicked
  <2> QED BY <1>1, <1>5, <2>5, QuietInv DEF UpdateClicked, AppGoesOn
<1>6. CASE BadInput
  BY <1>2, <1>6 DEF BadInput
<1>7. CASE Authorized \/ LabelShown \/ ChartShown
  <2>1. /\ responses # <<>> /\ Head(responses).type \notin {"success", "report"}
        /\ app \in {"auth", "main"} /\ app' \in {app, "main"}
        /\ responses' = Tail(responses)
        /\ UNCHANGED <<list, maps, dialog, requests, lots, history>>
    BY <1>7 DEF Authorized, LabelShown, ChartShown, Response, Executed
  <2>2. SameLots(requests', responses') /\ SameReports(responses')
    BY <2>1, ExecuteOther
  <2> QED BY <2>1, <2>2, QuietInv DEF AppGoesOn, Thrown
<1>8. CASE ServerLogin \/ ServerReads
  <2>1. \E e \in Answer :
          /\ e.type \notin {"success", "report"}
          /\ Head(requests).type # "lot" /\ requests # <<>>
          /\ requests' = Tail(requests) /\ Reply(e) /\ UNCHANGED lots
    <3>1. CASE ServerLogin
      <4>1. \A type \in {"authorization", "bad"} :
              [type |-> type] \in Answer
              /\ [type |-> type].type \notin {"success", "report"}
        BY DEF Answer
      <4> QED BY <3>1, <4>1 DEF ServerLogin, Serves
    <3>2. CASE ServerReads
      <4>1. /\ requests # <<>> /\ Head(requests).type \in {"update", "balance"}
            /\ Head(requests) \in Request
        BY <1>1, <3>2 DEF ServerReads, Serves
      <4>2. Head(requests) \in Answer
        BY <4>1 DEF Request, Answer
      <4> QED BY <3>2, <4>1, <4>2 DEF ServerReads
    <3> QED BY <1>8, <3>1, <3>2
  <2>2. PICK e \in Answer :
          /\ e.type \notin {"success", "report"}
          /\ Head(requests).type # "lot" /\ requests # <<>>
          /\ requests' = Tail(requests) /\ Reply(e) /\ UNCHANGED lots
    BY <2>1
  <2>3. responses' = Append(responses, e)
    BY <2>2 DEF Reply
  <2>4. SameLots(requests', responses') /\ SameReports(responses')
    BY <2>2, <2>3, ServeOther
  <2> QED BY <2>2, <2>4, QuietInv DEF Reply, AppGoesOn
<1>9. CASE UNCHANGED vars
  BY <1>1, <1>9, QuietInv DEF vars, AppGoesOn
<1> QED BY <1>3, <1>4, <1>5, <1>6, <1>7, <1>8, <1>9

(* Selecting a row, and the two buttons that open the dialog.              *)
LEMMA DialogSteps ==
  ASSUME WInv,
         \/ \E op \in Op : SideClicked(op)
         \/ \E row \in 1 .. MaxLots : Select(row)
  PROVE  WInv'
<1>1. UNCHANGED <<app, rows, ReportModel, to_add_requests, idx_by_lot,
                  lot_by_idx, requests, responses, lots, hasty, shifted>>
  BY DEF SideClicked, Select, list, maps, history
<1>2. TypeOK' /\ DialogOK'
  <2>1. ASSUME NEW op \in Op, SideClicked(op) PROVE TypeOK' /\ DialogOK'
    <3>1. slots' = <<op>> /\ input_shown' = TRUE /\ current' = current
      BY <2>1 DEF SideClicked, connect, list
    <3>2. slots' \in Seq(Op) /\ Len(slots') = 1 /\ slots' # <<>>
      BY <3>1
    <3> QED BY <1>1, <3>1, <3>2 DEF WInv, TypeOK, DialogOK
  <2>2. ASSUME NEW row \in 1 .. MaxLots, Select(row) PROVE TypeOK' /\ DialogOK'
    <3>1. /\ current' = row /\ row \in DOMAIN rows
          /\ UNCHANGED <<slots, input_shown>>
      BY <2>2 DEF Select, dialog
    <3>2. row \in 0 .. Len(rows)
      BY <3>1 DEF WInv, TypeOK
    <3> QED BY <1>1, <3>1, <3>2 DEF WInv, TypeOK, DialogOK
  <2> QED BY <2>1, <2>2
<1>3. /\ LotsOK' /\ MapsOK'
      /\ AcksOK(responses, lots)' /\ ReportsOK(responses, lots)'
  BY <1>1 DEF WInv, LotsOK, MapsOK, Placed
<1>4. CancelsKnown'
  BY <1>1 DEF WInv, CancelsKnown, Known
<1>5. WindowKnowsItsLots'
  BY <1>1, KnowsNow, KnowsNext DEF WInv
<1>6. PatientOK'
  BY <1>1 DEF WInv, PatientOK, Filed, Awaited
<1>7. PatientSurvives' /\ PatientRowsExact'
  <2>1. PatientSurvives'
    BY <1>1 DEF WInv, PatientSurvives
  <2>2. PatientRowsExact'
    BY <1>1, RowsNow, RowsNext DEF WInv
  <2> QED BY <2>1, <2>2
<1> QED BY <1>2, <1>3, <1>4, <1>5, <1>6, <1>7 DEF WInv

-----------------------------------------------------------------------------
(* A lot is ordered. *)

(* The button of the dialog: the request is filed under the next row.      *)
LEMMA OkClickedInv ==
  ASSUME WInv, NEW usd \in Counts, OkClicked(usd)
  PROVE  WInv'
<1>1. /\ app = "main" /\ app' = app /\ input_shown
      /\ Placed + Len(slots) <= MaxLots
      /\ input_shown' = FALSE
      /\ hasty' = (hasty \/ Unanswered)
      /\ UNCHANGED <<rows, current, ReportModel, idx_by_lot, lot_by_idx, slots,
                     responses, lots, shifted>>
  BY DEF OkClicked, list
<1>2. slots \in Seq(Op) /\ Len(slots) = 1 /\ Head(slots) \in Op
  <2>1. slots \in Seq(Op) /\ Len(slots) <= 1 /\ slots # <<>>
    BY <1>1 DEF WInv, TypeOK, DialogOK
  <2> QED BY <2>1
<1>3. PICK o : o = [op |-> Head(slots), usd |-> usd]
  OBVIOUS
<1>4. o \in Order
  BY <1>2, <1>3 DEF Order
<1>5. PICK e : e = [type |-> "lot", order |-> o]
  OBVIOUS
<1>6. e \in Request /\ e.type = "lot" /\ e.order = o
  BY <1>4, <1>5 DEF Request
<1>7. requests \in Seq(Request) /\ responses \in Seq(Answer)
  BY DEF WInv, LotsOK
<1>8. requests' = Append(requests, e)
  <2>1. requests' = requests \o [i \in DOMAIN slots |-> CreateLotRequest(slots[i], usd)]
    BY DEF OkClicked, Send
  <2>2. DOMAIN slots = {1} /\ Head(slots) = slots[1]
    BY <1>2
  <2>3. CreateLotRequest(slots[1], usd) = e
    BY <1>3, <1>5, <2>2 DEF CreateLotRequest
  <2>4. [i \in DOMAIN slots |-> CreateLotRequest(slots[i], usd)] = <<e>>
    BY <2>2, <2>3
  <2> QED BY <1>6, <1>7, <2>1, <2>4
<1>9. PICK k : k = Len(rows) + 1 /\ k \in Nat /\ k > 0
  <2>1. rows \in Seq(Row)
    BY DEF WInv, TypeOK
  <2> QED BY <2>1
<1>10. /\ DOMAIN to_add_requests' = DOMAIN to_add_requests \cup {k}
       /\ to_add_requests' = [r \in DOMAIN to_add_requests' |-> to_add_requests'[r]]
       /\ \A r \in DOMAIN to_add_requests : to_add_requests'[r] = to_add_requests[r]
       /\ k \notin DOMAIN to_add_requests => to_add_requests'[k] = o
  BY <1>3, <1>9 DEF OkClicked, Emplace
<1>11. TypeOK'
  BY <1>1, <1>4, <1>9, <1>10 DEF WInv, TypeOK
<1>12. LotsOK'
  <2>1. requests' \in Seq(Request)
    BY <1>6, <1>7, <1>8, Push
  <2>2. Cardinality(LotRequests(requests')) = Cardinality(LotRequests(requests)) + 1
    BY <1>6, <1>7, <1>8, PushLot
  <2>3. Cardinality(LotRequests(requests)) \in Nat
    <3>1. DOMAIN requests = 1 .. Len(requests) /\ 1 \in Int /\ Len(requests) \in Int
      BY <1>7
    <3>2. IsFiniteSet(DOMAIN requests)
      BY <3>1, FS_Interval
    <3>3. IsFiniteSet(LotRequests(requests))
      BY <3>2, FS_Subset DEF LotRequests
    <3> QED BY <3>3, FS_CardinalityType
  <2>4. Cardinality(DOMAIN lots) \in Nat /\ MaxLots \in Nat
    BY BoundsAssumption DEF WInv, LotsOK
  <2>5. Placed' <= MaxLots
    BY <1>1, <1>2, <2>2, <2>3, <2>4 DEF Placed
  <2> QED BY <1>1, <2>1, <2>5 DEF WInv, LotsOK
<1>13. MapsOK' /\ DialogOK'
  <2>1. hasty' \in BOOLEAN
    BY <1>1 DEF WInv, DialogOK, Unanswered
  <2> QED BY <1>1, <1>10, <2>1 DEF WInv, MapsOK, DialogOK
<1>14. AcksOK(responses, lots)' /\ ReportsOK(responses, lots)'
  BY <1>1 DEF WInv
<1>15. CancelsKnown'
  <2>1. \A id : Known(id)' = Known(id)
    BY <1>1 DEF Known
  <2>2. \A i \in DOMAIN requests' : requests'[i].type = "cancel" =>
          i \in DOMAIN requests /\ requests'[i] = requests[i]
    BY <1>6, <1>7, <1>8, Push
  <2> QED BY <1>1, <2>1, <2>2 DEF WInv, CancelsKnown
<1>16. WindowKnowsItsLots'
  BY <1>1, KnowsNow, KnowsNext DEF WInv
<1>17. PatientOK'
  <2> SUFFICES ASSUME ~hasty'
               PROVE  /\ OneLot(requests')
                      /\ OneAck(responses')
                      /\ Acks(responses', FALSE) = {} /\ Acks(responses', TRUE) = {}
                      /\ Filed'
    BY DEF PatientOK
  <2>1. ~hasty /\ ~Unanswered
    BY <1>1
  <2>2. /\ \A i \in DOMAIN requests : requests[i].type \notin {"lot", "cancel"}
        /\ \A i \in DOMAIN responses : responses[i].type # "success"
    BY <2>1 DEF Unanswered
  <2>3. \A b : Acks(responses, b) = {}
    BY <2>2 DEF Acks, IsAck
  <2>4. OneLot(requests') /\ Orders(requests) = {} /\ Orders(requests') = {o}
    <3>1. OneLot(requests') /\ Orders(requests) = {}
      BY <1>6, <1>7, <1>8, <2>2, PushLot
    <3>2. Orders(requests') = Orders(requests) \cup {e.order}
      BY <1>6, <1>7, <1>8, PushLot
    <3> QED BY <1>6, <3>1, <3>2
  <2>5. OneAck(responses)
    BY <2>1 DEF WInv, PatientOK
  <2>6. Awaited = {} /\ Awaited' = {o}
    BY <1>1, <2>3, <2>4 DEF Awaited
  <2>7. DOMAIN to_add_requests = {}
    BY <2>1, <2>6 DEF WInv, PatientOK, Filed
  <2>8. DOMAIN to_add_requests' = {k} /\ to_add_requests'[k] = o
    BY <1>10, <2>7
  <2>9. Filed'
    BY <1>1, <1>9, <2>6, <2>8 DEF Filed
  <2> QED BY <1>1, <2>3, <2>4, <2>5, <2>9
<1>18. PatientSurvives' /\ PatientRowsExact'
  <2>1. ~hasty' => ~hasty
    BY <1>1
  <2>2. PatientSurvives'
    BY <1>1 DEF PatientSurvives
  <2>3. PatientRowsExact'
    BY <1>1, <2>1, RowsNow, RowsNext DEF WInv
  <2> QED BY <2>2, <2>3
<1> QED BY <1>11, <1>12, <1>13, <1>14, <1>15, <1>16, <1>17, <1>18 DEF WInv

-----------------------------------------------------------------------------
(* The server. *)

(* Lots keep their orders, and stay settled. *)
LotsGoOn ==
  /\ DOMAIN lots \subseteq DOMAIN lots'
  /\ \A id \in DOMAIN lots :
       /\ lots'[id].order = lots[id].order
       /\ lots[id].state = "settled" => lots'[id].state = "settled"

(* The window knows lots of the server only.                               *)
LEMMA KnownLots ==
  ASSUME WInv
  PROVE  /\ \A b : Acks(responses, b) \subseteq DOMAIN lots
         /\ DOMAIN lot_by_idx \subseteq DOMAIN lots
         /\ Acks(responses, FALSE) \cap Acks(responses, TRUE) = {}
         /\ \A id \in Acks(responses, FALSE) : lots[id].state # "cancelled"
         /\ \A id \in Acks(responses, TRUE) : lots[id].state = "cancelled"
<1>1. AcksOK(responses, lots) /\ KnowsLots(lot_by_idx, lots, responses)
  BY KnowsNow DEF WInv
<1>2. \A b : \A id \in Acks(responses, b) :
        /\ id \in DOMAIN lots
        /\ b = TRUE <=> lots[id].state = "cancelled"
  <2> SUFFICES ASSUME NEW b, NEW id \in Acks(responses, b)
               PROVE  /\ id \in DOMAIN lots
                      /\ b = TRUE <=> lots[id].state = "cancelled"
    OBVIOUS
  <2>1. PICK i \in DOMAIN responses : IsAck(responses[i], b) /\ id = responses[i].lot
    BY DEF Acks
  <2>2. AckOK(responses[i], lots) /\ responses[i] \in Answer
    BY <1>1 DEF AcksOK, WInv, LotsOK
  <2>3. responses[i].is_to_cancel = b /\ responses[i].is_to_cancel \in BOOLEAN
    BY <2>1, <2>2 DEF IsAck, Answer
  <2> QED BY <2>1, <2>2, <2>3 DEF IsAck, AckOK
<1> QED BY <1>1, <1>2 DEF KnowsLots

(* Reports under way are about lots of others or settled ones.             *)
LEMMA KnownReports ==
  ASSUME WInv
  PROVE  \A x \in Reps(responses) : x # OtherLot =>
           x \in DOMAIN lots /\ lots[x].state = "settled"
<1>1. AcksOK(responses, lots)
  BY DEF WInv
<1> QED BY <1>1 DEF Reps, AcksOK, AckOK

(* What the window shows stays right while the server goes on.             *)
LEMMA WindowWaits ==
  ASSUME WInv, UNCHANGED <<app, list, maps, dialog, history>>, LotsGoOn,
         DOMAIN lots' \subseteq LotIds,
         \A x \in DOMAIN lots :
           Told(x, lots', responses') <=> Told(x, lots, responses)
  PROVE  /\ TypeOK' /\ MapsOK' /\ DialogOK'
         /\ PatientSurvives' /\ PatientRowsExact'
         /\ UNCHANGED <<app, rows, current, ReportModel, to_add_requests,
                        idx_by_lot, lot_by_idx, slots, input_shown, hasty,
                        shifted>>
<1>1. UNCHANGED <<app, rows, current, ReportModel, to_add_requests,
                  idx_by_lot, lot_by_idx, slots, input_shown, hasty, shifted>>
  BY DEF list, maps, dialog, history
<1>2. TypeOK'
  BY <1>1 DEF WInv, TypeOK
<1>3. MapsOK' /\ DialogOK' /\ PatientSurvives'
  BY <1>1 DEF WInv, MapsOK, DialogOK, PatientSurvives
<1>4. PatientRowsExact'
  <2> SUFFICES ASSUME ~hasty, ~shifted, app \notin Thrown
               PROVE  RowsExact(rows, idx_by_lot, lot_by_idx, lots', responses')
    BY <1>1, RowsNext
  <2>1. RowsExact(rows, idx_by_lot, lot_by_idx, lots, responses)
    BY RowsNow DEF WInv
  <2>2. \A r \in DOMAIN rows : rows[r].lot \in DOMAIN lots
    BY <2>1, KnownLots DEF RowsExact
  <2>3. \A r \in DOMAIN rows : RowRight(rows[r], lots', responses')
    <3> SUFFICES ASSUME NEW r \in DOMAIN rows
                 PROVE  RowRight(rows[r], lots', responses')
      OBVIOUS
    <3>1. /\ lots'[rows[r].lot].order = lots[rows[r].lot].order
          /\ Told(rows[r].lot, lots', responses')
               <=> Told(rows[r].lot, lots, responses)
      BY <2>2 DEF LotsGoOn
    <3>2. RowRight(rows[r], lots, responses)
      BY <2>1 DEF RowsExact
    <3> QED BY <3>1, <3>2 DEF RowRight
  <2> QED BY <2>1, <2>3 DEF RowsExact
<1> QED BY <1>1, <1>2, <1>3, <1>4

(* The acknowledgements under way stay right when a lot changes that they  *)
(* are not about.                                                          *)
LEMMA AcksGoOn ==
  ASSUME WInv, LotsGoOn,
         \A b : \A id \in Acks(responses, b) :
           lots'[id].state = "cancelled" <=> lots[id].state = "cancelled"
  PROVE  AcksOK(responses, lots')
<1>1. AcksOK(responses, lots)
  BY DEF WInv
<1>2. ASSUME NEW i \in DOMAIN responses PROVE AckOK(responses[i], lots')
  <2>1. AckOK(responses[i], lots)
    BY <1>1 DEF AcksOK
  <2>2. responses[i].type = "success" =>
          responses[i].lot \in Acks(responses, responses[i].is_to_cancel)
    BY DEF Acks, IsAck
  <2> QED BY <2>1, <2>2 DEF AckOK, LotsGoOn
<1> QED BY <1>1, <1>2 DEF AcksOK

(* A lot is stored at the server and acknowledged.                         *)
LEMMA ServerLotInv == ASSUME WInv, ServerLot PROVE WInv'
<1>1. PICK id, n : n = Cardinality(DOMAIN lots) /\ id = FirstId + n
  OBVIOUS
<1>2. PICK o : o = Head(requests).order
  OBVIOUS
<1>3. PICK rec : rec = [order |-> o, state |-> "live"]
  OBVIOUS
<1>4. PICK e : e = [type |-> "success", lot |-> id, is_to_cancel |-> FALSE]
  OBVIOUS
<1>5. /\ requests # <<>> /\ Head(requests).type = "lot"
      /\ lots' = Emplace(lots, id, rec)
      /\ requests' = Tail(requests) /\ responses' = Append(responses, e)
      /\ UNCHANGED <<app, list, maps, dialog, history>>
  BY <1>1, <1>2, <1>3, <1>4 DEF ServerLot, Serves, Reply
<1>6. /\ requests \in Seq(Request) /\ responses \in Seq(Answer)
      /\ \A x \in DOMAIN lots : lots[x] \in LotRecord
      /\ n \in Nat /\ DOMAIN lots = FirstId .. FirstId + n - 1
      /\ FirstId \in Nat \ {0} /\ MaxLots \in Nat
      /\ n + Cardinality(LotRequests(requests)) <= MaxLots
  BY <1>1, BoundsAssumption DEF WInv, LotsOK, Placed
<1>7. /\ Cardinality(LotRequests(requests')) + 1 = Cardinality(LotRequests(requests))
      /\ Orders(requests) = Orders(requests') \cup {o}
      /\ OneLot(requests) => OneLot(requests') /\ Orders(requests') = {}
      /\ IsFiniteSet(LotRequests(requests))
  BY <1>2, <1>5, <1>6, PopRequest
<1>8. /\ requests' \in Seq(Request)
      /\ \A i \in DOMAIN requests' :
           i + 1 \in DOMAIN requests /\ requests'[i] = requests[i + 1]
  BY <1>5, <1>6, Pop
<1>9. n + 1 <= MaxLots /\ n + 1 + Cardinality(LotRequests(requests')) <= MaxLots
  <2>1. IsFiniteSet(LotRequests(requests'))
    <3>1. DOMAIN requests' = 1 .. Len(requests') /\ 1 \in Int /\ Len(requests') \in Int
      BY <1>8
    <3>2. IsFiniteSet(DOMAIN requests')
      BY <3>1, FS_Interval
    <3> QED BY <3>2, FS_Subset DEF LotRequests
  <2>2. Cardinality(LotRequests(requests')) \in Nat
    BY <2>1, FS_CardinalityType
  <2> QED BY <1>6, <1>7, <2>2
<1>10. id \in LotIds /\ id \notin DOMAIN lots /\ id # OtherLot
  <2>1. /\ id = FirstId + n /\ n \in Nat /\ FirstId \in Nat /\ MaxLots \in Nat
        /\ n + 1 <= MaxLots
    BY <1>1, <1>6, <1>9
  <2>2. id \in FirstId .. FirstId + MaxLots - 1 /\ id # FirstId - 1
    BY <2>1
  <2>3. id \notin FirstId .. FirstId + n - 1
    BY <2>1
  <2> QED BY <1>6, <2>2, <2>3 DEF LotIds, OtherLot
<1>11. o \in Order /\ rec \in LotRecord /\ rec.order = o /\ rec.state = "live"
  <2>1. Head(requests) \in Request
    BY <1>5, <1>6
  <2>2. o \in Order
    BY <1>2, <1>5, <2>1 DEF Request
  <2> QED BY <1>3, <2>2 DEF LotRecord
<1>12. /\ DOMAIN lots' = DOMAIN lots \cup {id}
       /\ lots'[id] = rec
       /\ \A x \in DOMAIN lots : lots'[x] = lots[x]
       /\ lots' = [x \in DOMAIN lots' |-> lots'[x]]
  BY <1>5, <1>10 DEF Emplace
<1>13. DOMAIN lots' \subseteq LotIds /\ LotsGoOn
  BY <1>10, <1>12 DEF WInv, TypeOK, LotsGoOn
<1>14. e \in Answer /\ e.type = "success" /\ e.lot = id /\ e.is_to_cancel = FALSE
  BY <1>4, <1>10 DEF Answer
<1>15. \A b : Acks(responses, b) \subseteq DOMAIN lots
  BY KnownLots
<1>16. ReportsOK(responses', lots') /\ Reps(responses') = Reps(responses)
  <2>1. ReportsOK(responses, lots)
    BY DEF WInv
  <2>2. id \notin Reps(responses)
    BY <1>10, KnownReports
  <2>3. \A x \in Acks(responses, FALSE) : lots'[x] = lots[x]
    BY <1>12, <1>15
  <2>4. lots'[id].state # "settled"
    BY <1>11, <1>12
  <2>5. /\ e.type # "report"
        /\ e.lot \notin Reps(responses) /\ lots'[e.lot].state # "settled"
    BY <1>14, <2>2, <2>4
  <2>6. \A x \in Acks(responses, FALSE) :
          lots'[x].state = "settled" => lots[x].state = "settled"
    BY <2>3
  <2>7. e \in Answer /\ responses \in Seq(Answer)
    BY <1>6, <1>14
  <2>8. /\ ReportsOK(Append(responses, e), lots')
        /\ Reps(Append(responses, e)) = Reps(responses)
    BY <2>1, <2>5, <2>6, <2>7, PushReports
  <2> QED BY <1>5, <2>8
<1>17. /\ TypeOK' /\ MapsOK' /\ DialogOK' /\ PatientSurvives' /\ PatientRowsExact'
       /\ UNCHANGED <<app, rows, to_add_requests, idx_by_lot, lot_by_idx, hasty>>
  <2>1. \A x \in DOMAIN lots :
          Told(x, lots', responses') <=> Told(x, lots, responses)
    BY <1>12, <1>16 DEF Told
  <2> QED BY <1>5, <1>13, <2>1, WindowWaits
<1>18. AcksOK(responses, lots')
  BY <1>12, <1>13, <1>15, AcksGoOn
<1>19. /\ AcksOK(responses', lots')
       /\ Acks(responses', FALSE) = Acks(responses, FALSE) \cup {id}
       /\ Acks(responses', TRUE) = Acks(responses, TRUE)
  <2>1. AckOK(e, lots') /\ IsAck(e, FALSE) /\ ~IsAck(e, TRUE)
    BY <1>11, <1>12, <1>14 DEF AckOK, IsAck
  <2>2. \A x \in Answer : x.type = "success" => x.is_to_cancel \in BOOLEAN
    BY DEF Answer
  <2>3. e.lot \notin Acks(responses, TRUE) \cup Acks(responses, FALSE)
    BY <1>10, <1>14, <1>15
  <2>4. /\ AcksOK(Append(responses, e), lots')
        /\ \A b : Acks(Append(responses, e), b) =
             IF IsAck(e, b) THEN Acks(responses, b) \cup {e.lot}
             ELSE Acks(responses, b)
    BY <1>6, <1>14, <1>18, <2>1, <2>2, <2>3, PushAcks
  <2> QED BY <1>5, <1>14, <2>1, <2>4
<1>20. LotsOK'
  <2>1. responses' \in Seq(Answer)
    BY <1>5, <1>6, <1>14, Push
  <2>2. DOMAIN lots' = FirstId .. FirstId + n
    <3>1. /\ id = FirstId + n /\ n \in Nat /\ FirstId \in Nat
      BY <1>1, <1>6
    <3>2. (FirstId .. FirstId + n - 1) \cup {id} = FirstId .. FirstId + n
      BY <3>1
    <3> QED BY <1>6, <1>12, <3>2
  <2>3. Cardinality(DOMAIN lots') = n + 1
    <3>1. FirstId \in Int /\ FirstId + n \in Int
      BY <1>6
    <3> QED BY <1>6, <2>2, <3>1, FS_Interval
  <2>4. Placed' <= MaxLots
    BY <1>9, <2>3 DEF Placed
  <2>5. /\ Cardinality(DOMAIN lots') \in Nat
        /\ DOMAIN lots' = FirstId .. FirstId + Cardinality(DOMAIN lots') - 1
    BY <1>6, <2>2, <2>3
  <2> QED BY <1>6, <1>8, <1>11, <1>12, <2>1, <2>4, <2>5 DEF LotsOK
<1>21. CancelsKnown'
  <2>1. \A x : Known(x) => Known(x)'
    BY <1>10, <1>12, <1>19 DEF Known
  <2> QED BY <1>8, <1>17, <2>1 DEF WInv, CancelsKnown
<1>22. WindowKnowsItsLots'
  <2>1. KnowsLots(lot_by_idx, lots, responses) /\ app # "lot_by_idx.at"
    BY KnowsNow DEF WInv
  <2>2. KnowsLots(lot_by_idx', lots', responses')
    BY <1>10, <1>12, <1>17, <1>19, <2>1 DEF KnowsLots
  <2> QED BY <1>17, <2>1, <2>2, KnowsNext
<1>23. PatientOK'
  <2> SUFFICES ASSUME ~hasty
               PROVE  /\ OneLot(requests') /\ OneAck(responses')
                      /\ Orders(requests') = {} /\ Filed'
    BY <1>17 DEF PatientOK
  <2>1. /\ OneLot(requests) /\ OneAck(responses) /\ Filed
        /\ Acks(responses, FALSE) = {} /\ Acks(responses, TRUE) = {}
    BY <1>7 DEF WInv, PatientOK
  <2>2. OneAck(responses')
    BY <1>5, <1>6, <1>14, <2>1, PushOneAck
  <2>3. Orders(requests') = {} /\ Awaited = {o}
    BY <1>7, <2>1 DEF Awaited
  <2>4. Awaited' = {o}
    BY <1>11, <1>12, <1>19, <2>1, <2>3 DEF Awaited
  <2>5. Filed'
    BY <1>17, <2>1, <2>3, <2>4 DEF Filed
  <2> QED BY <1>7, <2>1, <2>2, <2>3, <2>5
<1> QED BY <1>16, <1>17, <1>19, <1>20, <1>21, <1>22, <1>23 DEF WInv

(* A live lot is cancelled; any other cancellation is refused.             *)
LEMMA ServerCancelInv == ASSUME WInv, ServerCancel PROVE WInv'
<1>1. PICK id : id = Head(requests).lot
  OBVIOUS
<1>2. /\ requests # <<>> /\ Head(requests).type = "cancel"
      /\ requests' = Tail(requests)
  BY DEF ServerCancel, Serves
<1>3. /\ requests \in Seq(Request) /\ responses \in Seq(Answer)
      /\ \A x \in DOMAIN lots : lots[x] \in LotRecord
      /\ lots = [x \in DOMAIN lots |-> lots[x]]
  BY DEF WInv, LotsOK
<1>4. Known(id) /\ id \in DOMAIN lots /\ id \in LotIds
  <2>1. 1 \in DOMAIN requests /\ Head(requests) = requests[1]
    BY <1>2, <1>3, Pop
  <2> QED BY <1>1, <1>2, <2>1 DEF WInv, CancelsKnown, Known, TypeOK
<1>5. CASE lots[id].state # "live"
  <2>1. PICK e : e = [type |-> "bad"]
    OBVIOUS
  <2>2. e \in Answer /\ e.type = "bad"
    BY <2>1 DEF Answer
  <2>3. UNCHANGED lots /\ Reply(e)
    BY <1>1, <1>5, <2>1 DEF ServerCancel
  <2>4. SameLots(requests', responses') /\ SameReports(responses')
    BY <1>2, <2>2, <2>3, ServeOther DEF Reply
  <2> QED BY <2>3, <2>4, QuietInv DEF Reply, AppGoesOn
<1>6. CASE lots[id].state = "live"
  <2>1. PICK e : e = [type |-> "success", lot |-> id, is_to_cancel |-> TRUE]
    OBVIOUS
  <2>2. /\ lots' = [lots EXCEPT ![id].state = "cancelled"]
        /\ responses' = Append(responses, e)
        /\ UNCHANGED <<app, list, maps, dialog, history>>
    BY <1>1, <1>6, <2>1 DEF ServerCancel, Reply
  <2>3. /\ DOMAIN lots' = DOMAIN lots
        /\ lots' = [x \in DOMAIN lots' |-> lots'[x]]
        /\ lots'[id].state = "cancelled" /\ lots'[id].order = lots[id].order
        /\ lots'[id] \in LotRecord
        /\ \A x \in DOMAIN lots : x # id => lots'[x] = lots[x]
    <3>1. lots[id] \in LotRecord
      BY <1>3, <1>4
    <3>2. lots'[id] = [lots[id] EXCEPT !.state = "cancelled"]
      BY <1>3, <1>4, <2>2
    <3>3. /\ lots'[id].state = "cancelled" /\ lots'[id].order = lots[id].order
          /\ lots'[id] \in LotRecord
      BY <3>1, <3>2 DEF LotRecord
    <3> QED BY <1>3, <1>4, <2>2, <3>3
  <2>4. DOMAIN lots' \subseteq LotIds /\ LotsGoOn
    BY <1>6, <2>3 DEF WInv, TypeOK, LotsGoOn
  <2>5. e \in Answer /\ e.type = "success" /\ e.lot = id /\ e.is_to_cancel = TRUE
    BY <1>4, <2>1 DEF Answer
  <2>6. ReportsOK(responses', lots') /\ Reps(responses') = Reps(responses)
    <3>1. ReportsOK(responses, lots)
      BY DEF WInv
    <3>2. ~IsAck(e, FALSE)
      BY <2>5 DEF IsAck
    <3>3. \A x \in Acks(responses, FALSE) :
            lots'[x].state = "settled" => lots[x].state = "settled"
      BY <2>3, KnownLots
    <3> QED BY <1>3, <2>2, <2>5, <3>1, <3>2, <3>3, PushReports
  <2>7. /\ TypeOK' /\ MapsOK' /\ DialogOK' /\ PatientSurvives'
         /\ PatientRowsExact'
         /\ UNCHANGED <<app, rows, to_add_requests, idx_by_lot, lot_by_idx, hasty>>
    <3>1. \A x \in DOMAIN lots :
            Told(x, lots', responses') <=> Told(x, lots, responses)
      BY <1>6, <2>3, <2>6 DEF Told
    <3> QED BY <2>2, <2>4, <3>1, WindowWaits
  <2>8. id \notin Acks(responses, FALSE) /\ id \notin Acks(responses, TRUE)
    BY <1>4, <1>6, KnownLots DEF Known
  <2>9. AcksOK(responses, lots')
    <3>1. \A b : \A x \in Acks(responses, b) : x # id
      <4>1. \A b : Acks(responses, b) \subseteq
              Acks(responses, FALSE) \cup Acks(responses, TRUE)
        <5>1. \A i \in DOMAIN responses : responses[i].type = "success"
                => responses[i].is_to_cancel \in {TRUE, FALSE}
          <6>1. \A x \in Answer : x.type = "success" => x.is_to_cancel \in {TRUE, FALSE}
            BY DEF Answer
          <6>2. \A i \in DOMAIN responses : responses[i] \in Answer
            BY <1>3
          <6> QED BY <6>1, <6>2
        <5> QED BY <5>1 DEF Acks, IsAck
      <4> QED BY <2>8, <4>1
    <3>2. \A b : Acks(responses, b) \subseteq DOMAIN lots
      BY KnownLots
    <3> QED BY <2>3, <2>4, <3>1, <3>2, AcksGoOn
  <2>10. /\ AcksOK(responses', lots')
        /\ Acks(responses', FALSE) = Acks(responses, FALSE)
        /\ Acks(responses', TRUE) = Acks(responses, TRUE) \cup {id}
    <3>1. AckOK(e, lots') /\ IsAck(e, TRUE) /\ ~IsAck(e, FALSE)
      BY <1>4, <2>3, <2>5 DEF AckOK, IsAck
    <3>2. \A x \in Answer : x.type = "success" => x.is_to_cancel \in BOOLEAN
      BY DEF Answer
    <3>3. e.lot \notin Acks(responses, TRUE) \cup Acks(responses, FALSE)
      BY <2>5, <2>8
    <3>4. /\ AcksOK(Append(responses, e), lots')
          /\ \A b : Acks(Append(responses, e), b) =
               IF IsAck(e, b) THEN Acks(responses, b) \cup {e.lot}
               ELSE Acks(responses, b)
      BY <1>3, <2>5, <2>9, <3>1, <3>2, <3>3, PushAcks
    <3> QED BY <2>2, <2>5, <3>1, <3>4
  <2>11. /\ Orders(requests') = Orders(requests)
         /\ Cardinality(LotRequests(requests')) = Cardinality(LotRequests(requests))
         /\ OneLot(requests) => OneLot(requests') /\ Orders(requests) = {}
    BY <1>2, <1>3, PopRequest
  <2>12. /\ requests' \in Seq(Request)
         /\ \A i \in DOMAIN requests' :
              i + 1 \in DOMAIN requests /\ requests'[i] = requests[i + 1]
    BY <1>2, <1>3, Pop
  <2>13. LotsOK'
    <3>1. responses' \in Seq(Answer)
      BY <1>3, <2>2, <2>5, Push
    <3>2. Placed' = Placed
      BY <2>3, <2>11 DEF Placed
    <3> QED BY <1>3, <2>3, <2>12, <3>1, <3>2 DEF WInv, LotsOK
  <2>14. CancelsKnown'
    <3>1. \A x : Known(x) => Known(x)'
      BY <2>3, <2>10 DEF Known
    <3> QED BY <2>7, <2>12, <3>1 DEF WInv, CancelsKnown
  <2>15. WindowKnowsItsLots'
    <3>1. KnowsLots(lot_by_idx, lots, responses) /\ app # "lot_by_idx.at"
      BY KnowsNow DEF WInv
    <3>2. id \in DOMAIN lot_by_idx
      BY <1>4, <1>6, <2>8, <3>1 DEF KnowsLots
    <3>3. KnowsLots(lot_by_idx', lots', responses')
      BY <2>3, <2>7, <2>10, <3>1, <3>2 DEF KnowsLots
    <3> QED BY <2>7, <3>1, <3>3, KnowsNext
  <2>16. PatientOK'
    <3> SUFFICES ASSUME ~hasty
                 PROVE  /\ OneLot(requests') /\ OneAck(responses')
                        /\ Orders(requests') = {} /\ Filed'
      BY <2>7 DEF PatientOK
    <3>1. OneLot(requests) /\ OneAck(responses) /\ Filed
      BY DEF WInv, PatientOK
    <3>2. OneAck(responses')
      <4>1. ~IsAck(e, FALSE)
        BY <2>5 DEF IsAck
      <4> QED BY <1>3, <2>2, <2>5, <3>1, <4>1, PushOneAck
    <3>3. Awaited' = Awaited
      <4>1. \A x \in Acks(responses, FALSE) : lots'[x].order = lots[x].order
        BY <2>4, KnownLots DEF LotsGoOn
      <4> QED BY <2>10, <2>11, <4>1 DEF Awaited
    <3>4. Filed'
      BY <2>7, <3>1, <3>3 DEF Filed
    <3> QED BY <2>11, <3>1, <3>2, <3>4
  <2> QED BY <2>6, <2>7, <2>10, <2>13, <2>14, <2>15, <2>16 DEF WInv
<1> QED BY <1>5, <1>6

(* Lots after a deal that settles id, or none if id is not the user's. *)
DealLots(id) ==
  /\ DOMAIN lots' = DOMAIN lots
  /\ lots' = [x \in DOMAIN lots' |-> lots'[x]]
  /\ \A x \in DOMAIN lots :
       /\ lots'[x] \in LotRecord /\ lots'[x].order = lots[x].order
       /\ lots'[x].state = "settled" <=> lots[x].state = "settled" \/ x = id
       /\ lots'[x].state = "cancelled" <=> lots[x].state = "cancelled"
  /\ id # OtherLot => id \in DOMAIN lots /\ lots[id].state # "settled"

(* A deal is reported.                                                     *)
LEMMA ReportInv ==
  ASSUME WInv, NEW id \in LotIds \cup {OtherLot}, Report(id), DealLots(id)
  PROVE  WInv'
<1>1. PICK e : e = [type |-> "report", lot |-> id]
  OBVIOUS
<1>2. /\ responses' = Append(responses, e) /\ requests' = requests
      /\ UNCHANGED <<app, list, maps, dialog, history>>
  BY <1>1 DEF Report, Reply
<1>3. e \in Answer /\ e.type = "report" /\ e.lot = id /\ \A b : ~IsAck(e, b)
  BY <1>1 DEF Answer, IsAck
<1>4. /\ requests \in Seq(Request) /\ responses \in Seq(Answer)
      /\ DOMAIN lots \subseteq LotIds
  BY DEF WInv, LotsOK, TypeOK
<1>5. /\ DOMAIN lots' = DOMAIN lots
      /\ \A x \in DOMAIN lots :
           /\ lots'[x] \in LotRecord /\ lots'[x].order = lots[x].order
           /\ lots[x].state = "settled" => lots'[x].state = "settled"
           /\ lots'[x].state = "cancelled" <=> lots[x].state = "cancelled"
      /\ id # OtherLot => id \in DOMAIN lots /\ lots'[id].state = "settled"
  BY DEF DealLots
<1>6. DOMAIN lots' \subseteq LotIds /\ LotsGoOn
  BY <1>5 DEF WInv, TypeOK, LotsGoOn
<1>7. ReportsOK(responses', lots') /\ Reps(responses') = Reps(responses) \cup {id}
  <2>1. ReportsOK(responses, lots)
    BY DEF WInv
  <2>2. id # OtherLot => id \notin Reps(responses)
    BY KnownReports DEF DealLots
  <2>3. \A x \in Acks(responses, FALSE) : x \in DOMAIN lots
    BY KnownLots
  <2>4. \A x \in Acks(responses, FALSE) : lots'[x].state = "settled" =>
          lots[x].state = "settled" \/ (e.type = "report" /\ e.lot = x)
    BY <1>3, <2>3 DEF DealLots
  <2>5. /\ ReportsOK(Append(responses, e), lots')
        /\ Reps(Append(responses, e)) = Reps(responses) \cup {e.lot}
    BY <1>3, <1>4, <2>1, <2>2, <2>4, PushReports
  <2> QED BY <1>2, <1>3, <2>5
<1>8. /\ TypeOK' /\ MapsOK' /\ DialogOK' /\ PatientSurvives'
      /\ PatientRowsExact'
      /\ UNCHANGED <<app, rows, to_add_requests, idx_by_lot, lot_by_idx, hasty>>
  <2>1. ASSUME NEW x \in DOMAIN lots
        PROVE  Told(x, lots', responses') <=> Told(x, lots, responses)
    <3>1. lots'[x].state = "settled" <=> lots[x].state = "settled" \/ x = id
      BY DEF DealLots
    <3>2. x \in Reps(responses') <=> x \in Reps(responses) \/ x = id
      BY <1>7
    <3>3. x = id => lots[x].state # "settled"
      BY <1>4, OtherLotIsNone DEF DealLots
    <3> QED BY <3>1, <3>2, <3>3 DEF Told
  <2> QED BY <1>2, <1>6, <2>1, WindowWaits
<1>9. AcksOK(responses, lots')
  <2>1. \A b : Acks(responses, b) \subseteq DOMAIN lots
    BY KnownLots
  <2> QED BY <1>5, <1>6, <2>1, AcksGoOn
<1>10. AcksOK(responses', lots') /\ \A b : Acks(responses', b) = Acks(responses, b)
  <2>1. AckOK(e, lots')
    BY <1>3, <1>5 DEF AckOK
  <2>2. \A x \in Answer : x.type = "success" => x.is_to_cancel \in BOOLEAN
    BY DEF Answer
  <2>3. /\ AcksOK(Append(responses, e), lots')
        /\ \A b : Acks(Append(responses, e), b) =
             IF IsAck(e, b) THEN Acks(responses, b) \cup {e.lot}
             ELSE Acks(responses, b)
    BY <1>3, <1>4, <1>9, <2>1, <2>2, PushAcks
  <2> QED BY <1>2, <1>3, <2>3
<1>11. LotsOK'
  <2>1. responses' \in Seq(Answer)
    BY <1>2, <1>3, <1>4, Push
  <2> QED BY <1>2, <1>5, <2>1 DEF WInv, LotsOK, Placed, DealLots
<1>12. CancelsKnown'
  BY <1>2, <1>5, <1>8, <1>10 DEF WInv, CancelsKnown, Known
<1>13. WindowKnowsItsLots'
  <2>1. KnowsLots(lot_by_idx, lots, responses) /\ app # "lot_by_idx.at"
    BY KnowsNow DEF WInv
  <2>2. KnowsLots(lot_by_idx', lots', responses')
    <3>1. {x \in DOMAIN lots' : lots'[x].state # "cancelled"}
            = {x \in DOMAIN lots : lots[x].state # "cancelled"}
      BY <1>5
    <3>2. /\ Acks(responses', FALSE) = Acks(responses, FALSE)
          /\ Acks(responses', TRUE) = Acks(responses, TRUE)
      BY <1>10
    <3> QED BY <1>8, <2>1, <3>1, <3>2 DEF KnowsLots
  <2> QED BY <1>8, <2>1, <2>2, KnowsNext
<1>14. PatientOK'
  <2>1. OneAck(responses) => OneAck(responses')
    BY <1>2, <1>3, <1>4, PushOneAck
  <2>2. Awaited' = Awaited
    <3>1. \A x \in Acks(responses, FALSE) : lots'[x].order = lots[x].order
      BY <1>5, KnownLots
    <3> QED BY <1>2, <1>10, <3>1 DEF Awaited
  <2>3. Filed' = Filed
    BY <1>8, <2>2 DEF Filed
  <2> QED BY <1>2, <1>8, <1>10, <2>1, <2>3 DEF WInv, PatientOK
<1> QED BY <1>7, <1>8, <1>10, <1>11, <1>12, <1>13, <1>14 DEF WInv

(* A lot of the user is settled, under its own id or not.                  *)
LEMMA SettledLots ==
  ASSUME WInv, NEW id, NEW s \in {"settled", "sold"}, Open(id), Settle(id, s)
  PROVE  /\ DOMAIN lots' = DOMAIN lots
         /\ lots' = [x \in DOMAIN lots' |-> lots'[x]]
         /\ \A x \in DOMAIN lots :
              /\ lots'[x] \in LotRecord /\ lots'[x].order = lots[x].order
              /\ lots'[x].state = IF x = id THEN s
                                  ELSE IF lots[x].state = "live" THEN "withdrawn"
                                  ELSE lots[x].state
<1>1. lots' = [i \in DOMAIN lots |-> [lots[i] EXCEPT !.state =
        IF i = id THEN s
        ELSE IF lots[i].state = "live" THEN "withdrawn" ELSE lots[i].state]]
  BY DEF Settle
<1>2. \A x \in DOMAIN lots : lots[x] \in LotRecord
  BY DEF WInv, LotsOK
<1>3. \A rec \in LotRecord :
        \A t \in {"live", "withdrawn", "settled", "sold", "cancelled"} :
          /\ [rec EXCEPT !.state = t] \in LotRecord
          /\ [rec EXCEPT !.state = t].state = t
          /\ [rec EXCEPT !.state = t].order = rec.order
  BY DEF LotRecord
<1>4. ASSUME NEW x \in DOMAIN lots
      PROVE  /\ lots'[x] \in LotRecord /\ lots'[x].order = lots[x].order
             /\ lots'[x].state = IF x = id THEN s
                                 ELSE IF lots[x].state = "live" THEN "withdrawn"
                                 ELSE lots[x].state
  <2>1. PICK t : t = IF x = id THEN s
                     ELSE IF lots[x].state = "live" THEN "withdrawn"
                     ELSE lots[x].state
    OBVIOUS
  <2>2. t \in {"live", "withdrawn", "settled", "sold", "cancelled"}
    BY <1>2, <2>1 DEF LotRecord
  <2>3. lots'[x] = [lots[x] EXCEPT !.state = t]
    BY <1>1, <2>1
  <2>4. /\ [lots[x] EXCEPT !.state = t] \in LotRecord
        /\ [lots[x] EXCEPT !.state = t].state = t
        /\ [lots[x] EXCEPT !.state = t].order = lots[x].order
    BY <1>2, <1>3, <2>2
  <2> QED BY <2>1, <2>3, <2>4
<1> QED BY <1>1, <1>4

(* The three ways in which a deal is reported to the user.                 *)
LEMMA DealSteps ==
  ASSUME WInv, NEW id \in LotIds,
         ServerCompletes(id) \/ ServerSells(id) \/ ServerFills(id)
  PROVE  WInv'
<1>1. /\ id \in DOMAIN lots /\ lots[id].state \in {"live", "withdrawn"}
      /\ id # OtherLot /\ OtherLot \notin DOMAIN lots
  BY OtherLotIsNone DEF ServerCompletes, ServerSells, ServerFills, Open, WInv, TypeOK
<1>2. CASE ServerCompletes(id)
  <2>1. Open(id) /\ Settle(id, "settled") /\ Report(id)
    BY <1>2 DEF ServerCompletes
  <2>2. DealLots(id)
    BY <1>1, <2>1, SettledLots DEF DealLots
  <2> QED BY <2>1, <2>2, ReportInv
<1>3. CASE ServerSells(id)
  <2>1. Open(id) /\ Settle(id, "sold") /\ Report(OtherLot)
    BY <1>3 DEF ServerSells
  <2>2. DealLots(OtherLot)
    BY <1>1, <2>1, SettledLots DEF DealLots
  <2> QED BY <2>1, <2>2, ReportInv
<1>4. CASE ServerFills(id)
  <2>1. /\ Report(OtherLot) /\ lots' = lots
        /\ lots = [x \in DOMAIN lots |-> lots[x]]
        /\ \A x \in DOMAIN lots : lots[x] \in LotRecord
    BY <1>4 DEF ServerFills, WInv, LotsOK
  <2>2. DealLots(OtherLot)
    BY <1>1, <2>1 DEF DealLots
  <2> QED BY <2>1, <2>2, ReportInv
<1> QED BY <1>2, <1>3, <1>4

-----------------------------------------------------------------------------
(* Acknowledgements and reports are executed. *)

(* Only a hasty user loses the client to to_add_requests.at.               *)
LEMMA HastyThrow ==
  ASSUME WInv, hasty, Throw("to_add_requests.at")
  PROVE  WInv'
<1>1. /\ app' = "to_add_requests.at"
      /\ UNCHANGED <<rows, current, ReportModel, to_add_requests, idx_by_lot,
                     lot_by_idx, slots, input_shown, requests, responses, lots,
                     hasty, shifted>>
  BY DEF Throw, list, maps, dialog, history
<1>2. TypeOK'
  BY <1>1 DEF WInv, TypeOK, Thrown
<1>3. /\ LotsOK' /\ MapsOK' /\ DialogOK'
      /\ AcksOK(responses, lots)' /\ ReportsOK(responses, lots)'
  BY <1>1 DEF WInv, LotsOK, MapsOK, DialogOK, Placed
<1>4. CancelsKnown'
  BY <1>1 DEF WInv, CancelsKnown, Known
<1>5. WindowKnowsItsLots'
  BY <1>1, KnowsNow, KnowsNext DEF WInv
<1>6. PatientOK' /\ PatientSurvives' /\ PatientRowsExact'
  BY <1>1 DEF PatientOK, PatientSurvives, PatientRowsExact
<1> QED BY <1>2, <1>3, <1>4, <1>5, <1>6 DEF WInv

(* A row is appended for the lot, and the request is no longer filed.      *)
LEMMA LotAcknowledgedInv == ASSUME WInv, LotAcknowledged PROVE WInv'
<1>1. PICK m : m = Head(responses)
  OBVIOUS
<1>2. PICK idx : idx = m.lot
  OBVIOUS
<1>3. rows \in Seq(Row)
  BY DEF WInv, TypeOK
<1>4. PICK k : k = Len(rows) + 1 /\ k \in Nat /\ k > 0
  BY <1>3
<1>5. /\ requests \in Seq(Request) /\ responses \in Seq(Answer)
      /\ responses # <<>> /\ AcksOK(responses, lots)
  BY DEF LotAcknowledged, Response, WInv, LotsOK
<1>6. IsAck(m, FALSE) /\ ~IsAck(m, TRUE) /\ m \in Answer
  <2>1. m \in Answer /\ m.type = "success" /\ ~m.is_to_cancel
    BY <1>1, <1>5 DEF LotAcknowledged, Response
  <2>2. m.is_to_cancel \in BOOLEAN
    BY <2>1 DEF Answer
  <2> QED BY <2>1, <2>2 DEF IsAck
<1>7. idx \in Acks(responses, FALSE)
  BY <1>1, <1>2, <1>5, <1>6, PopAcks
<1>8. /\ idx \in DOMAIN lots /\ lots[idx].state # "cancelled" /\ idx \in LotIds
      /\ idx \notin Acks(responses, TRUE) /\ idx \notin DOMAIN lot_by_idx
  <2>1. /\ idx \in DOMAIN lots /\ lots[idx].state # "cancelled"
        /\ idx \notin Acks(responses, TRUE)
    BY <1>7, KnownLots
  <2>2. KnowsLots(lot_by_idx, lots, responses)
    BY KnowsNow DEF WInv
  <2> QED BY <1>7, <2>1, <2>2 DEF KnowsLots, WInv, TypeOK
<1>9. ~hasty => /\ DOMAIN to_add_requests = {k} /\ to_add_requests[k] = lots[idx].order
                /\ Orders(requests) = {} /\ OneLot(requests) /\ OneAck(responses)
  <2>1. lots[idx].order \in Awaited
    BY <1>7 DEF Awaited
  <2> QED BY <1>4, <1>7, <2>1 DEF WInv, PatientOK, Filed
<1>10. CASE k \notin DOMAIN to_add_requests
  <2>1. hasty
    BY <1>9, <1>10 DEF WInv, DialogOK
  <2>2. Throw("to_add_requests.at")
    BY <1>4, <1>10 DEF LotAcknowledged
  <2> QED BY <2>1, <2>2, HastyThrow
<1>11. CASE k \in DOMAIN to_add_requests
  <2>1. PICK o : o = to_add_requests[k]
    OBVIOUS
  <2>2. PICK w : w = [lot |-> idx, text |-> RequestText(o)]
    OBVIOUS
  <2>3. /\ rows' = Append(rows, w) /\ current' = k
        /\ lot_by_idx' = Emplace(lot_by_idx, idx, k)
        /\ idx_by_lot' = Emplace(idx_by_lot, k, idx)
        /\ to_add_requests' = Erase(to_add_requests, k)
        /\ responses' = Tail(responses)
        /\ UNCHANGED <<app, ReportModel, slots, input_shown, requests, lots,
                       hasty, shifted>>
    BY <1>1, <1>2, <1>4, <1>11, <2>1, <2>2
       DEF LotAcknowledged, filedErased, Executed, dialog, history
  <2>4. o \in Order
    BY <1>11, <2>1 DEF WInv, TypeOK
  <2>5. /\ w \in Row /\ w.lot = idx /\ w.text.says = "request"
        /\ w.text.usd = o.usd /\ w.text.op # o.op
    <3>1. /\ RequestText(o) \in Text /\ RequestText(o).says = "request"
          /\ RequestText(o).usd = o.usd /\ RequestText(o).op # o.op
      BY <2>4 DEF RequestText, request_type, SELL_USD, Text, Order, Op
    <3> QED BY <1>8, <2>2, <3>1 DEF Row
  <2>6. /\ rows' \in Seq(Row) /\ Len(rows') = k
        /\ DOMAIN rows' = DOMAIN rows \cup {k} /\ k \notin DOMAIN rows
        /\ rows'[k] = w /\ \A r \in DOMAIN rows : rows'[r] = rows[r]
    BY <1>3, <1>4, <2>3, <2>5
  <2>7. /\ DOMAIN lot_by_idx' = DOMAIN lot_by_idx \cup {idx}
        /\ lot_by_idx'[idx] = k
        /\ \A x \in DOMAIN lot_by_idx : lot_by_idx'[x] = lot_by_idx[x]
        /\ lot_by_idx' = [x \in DOMAIN lot_by_idx' |-> lot_by_idx'[x]]
    BY <1>8, <2>3 DEF Emplace
  <2>8. /\ DOMAIN idx_by_lot' = DOMAIN idx_by_lot \cup {k}
        /\ k \notin DOMAIN idx_by_lot => idx_by_lot'[k] = idx
        /\ \A r \in DOMAIN idx_by_lot : idx_by_lot'[r] = idx_by_lot[r]
        /\ idx_by_lot' = [r \in DOMAIN idx_by_lot' |-> idx_by_lot'[r]]
    BY <2>3 DEF Emplace
  <2>9. /\ DOMAIN to_add_requests' = DOMAIN to_add_requests \ {k}
        /\ \A r \in DOMAIN to_add_requests' : to_add_requests'[r] = to_add_requests[r]
        /\ to_add_requests' = [r \in DOMAIN to_add_requests' |-> to_add_requests'[r]]
    BY <2>3 DEF Erase
  <2>10. /\ AcksOK(responses', lots')
         /\ Acks(responses', FALSE) = Acks(responses, FALSE) \ {idx}
         /\ Acks(responses', TRUE) = Acks(responses, TRUE)
    BY <1>1, <1>2, <1>5, <1>6, <2>3, PopAcks
  <2>11. TypeOK'
    <3>1. k \in 0 .. Len(rows')
      BY <1>4, <2>6
    <3>2. \A r \in DOMAIN idx_by_lot' : r > 0 /\ idx_by_lot'[r] \in LotIds
      BY <1>4, <1>8, <2>8 DEF WInv, TypeOK
    <3>3. \A x \in DOMAIN lot_by_idx' : x \in LotIds /\ lot_by_idx'[x] > 0
      BY <1>4, <1>8, <2>7 DEF WInv, TypeOK
    <3> QED BY <2>3, <2>6, <2>9, <3>1, <3>2, <3>3 DEF WInv, TypeOK
  <2>12. LotsOK' /\ MapsOK' /\ DialogOK'
    <3>1. responses' \in Seq(Answer)
      BY <1>5, <2>3, Pop
    <3>2. LotsOK'
      BY <2>3, <3>1 DEF WInv, LotsOK, Placed
    <3> QED BY <2>3, <2>7, <2>8, <2>9, <3>2 DEF WInv, MapsOK, DialogOK
  <2>13. CancelsKnown'
    <3>1. \A x : Known(x) => Known(x)'
      BY <2>3, <2>10 DEF Known
    <3>2. Known(idx)'
      BY <1>8, <2>3, <2>10 DEF Known
    <3> QED BY <2>3, <2>8, <3>1, <3>2 DEF WInv, CancelsKnown
  <2>14. WindowKnowsItsLots'
    <3>1. KnowsLots(lot_by_idx, lots, responses) /\ app # "lot_by_idx.at"
      BY KnowsNow DEF WInv
    <3>2. KnowsLots(lot_by_idx', lots', responses')
      BY <1>8, <2>3, <2>7, <2>10, <3>1 DEF KnowsLots
    <3> QED BY <2>3, <3>1, <3>2, KnowsNext
  <2>15. PatientOK'
    <3> SUFFICES ASSUME ~hasty
                 PROVE  /\ OneLot(requests') /\ OneAck(responses')
                        /\ Orders(requests') = {} /\ Filed'
      BY <2>3 DEF PatientOK
    <3>1. OneAck(responses') /\ Acks(responses', FALSE) = {}
      BY <1>1, <1>5, <1>6, <1>9, <2>3, PopOneAck
    <3>2. Awaited' = {}
      BY <1>9, <2>3, <3>1 DEF Awaited
    <3>3. DOMAIN to_add_requests' = {}
      BY <1>9, <2>9
    <3>4. Filed'
      BY <3>2, <3>3 DEF Filed
    <3> QED BY <1>9, <2>3, <3>1, <3>4
  <2>16. PatientSurvives'
    BY <2>3 DEF WInv, PatientSurvives
  <2>17. /\ ReportsOK(responses', lots')
         /\ \A x : x # OtherLot => (x \in Reps(responses') <=> x \in Reps(responses))
    <3>1. ReportsOK(responses, lots) /\ m.type # "report"
      BY <1>6 DEF WInv, IsAck
    <3>2. Acks(Tail(responses), FALSE) \subseteq Acks(responses, FALSE)
      BY <2>3, <2>10
    <3> QED BY <1>1, <1>5, <2>3, <3>1, <3>2, PopReports
  <2>18. PatientRowsExact'
    <3> SUFFICES ASSUME ~hasty, ~shifted, app \notin Thrown
                 PROVE  RowsExact(rows', idx_by_lot', lot_by_idx', lots, responses')
      BY <2>3, RowsNext
    <3>1. RowsExact(rows, idx_by_lot, lot_by_idx, lots, responses)
      BY RowsNow DEF WInv
    <3>2. DOMAIN idx_by_lot' = DOMAIN rows' /\ idx_by_lot'[k] = idx
      BY <2>6, <2>8, <3>1 DEF RowsExact
    <3>3. DOMAIN lot_by_idx' = {rows'[r].lot : r \in DOMAIN rows'}
      BY <2>5, <2>6, <2>7, <3>1 DEF RowsExact
    <3>4. ASSUME NEW r \in DOMAIN rows'
          PROVE  /\ idx_by_lot'[r] = rows'[r].lot
                 /\ lot_by_idx'[rows'[r].lot] = r
                 /\ RowRight(rows'[r], lots, responses')
      <4>1. CASE r = k
        <5>1. o = lots[idx].order
          BY <1>9, <2>1
        <5>2. ~Told(idx, lots, responses')
          BY <1>7, <1>8, <2>17, OtherLotIsNone DEF WInv, ReportsOK, Told
        <5>3. RowRight(w, lots, responses')
          BY <2>5, <5>1, <5>2 DEF RowRight
        <5> QED BY <2>5, <2>6, <2>7, <3>2, <4>1, <5>3
      <4>2. CASE r # k
        <5>1. /\ r \in DOMAIN rows /\ rows'[r] = rows[r]
              /\ rows[r].lot \in DOMAIN lot_by_idx
              /\ idx_by_lot[r] = rows[r].lot /\ lot_by_idx[rows[r].lot] = r
              /\ r \in DOMAIN idx_by_lot
              /\ RowRight(rows[r], lots, responses)
          BY <2>6, <3>1, <4>2 DEF RowsExact
        <5>2. rows[r].lot # OtherLot
          BY <5>1, RowLots
        <5>3. RowRight(rows[r], lots, responses')
          BY <2>17, <5>1, <5>2 DEF RowRight, Told
        <5> QED BY <2>7, <2>8, <5>1, <5>3
      <4> QED BY <4>1, <4>2
    <3> QED BY <3>2, <3>3, <3>4 DEF RowsExact
  <2> QED BY <2>10, <2>11, <2>12, <2>13, <2>14, <2>15, <2>16, <2>17, <2>18 DEF WInv
<1> QED BY <1>10, <1>11

(* A row is removed from a list.                                           *)
LEMMA RemoveRow ==
  ASSUME NEW T, NEW q \in Seq(T), NEW i \in DOMAIN q
  PROVE  /\ Seqs!RemoveAt(q, i) \in Seq(T)
         /\ Len(Seqs!RemoveAt(q, i)) = Len(q) - 1
         /\ i = Len(q) => \A r \in 1 .. Len(q) - 1 : Seqs!RemoveAt(q, i)[r] = q[r]
<1>1. i \in Nat /\ i >= 1 /\ i <= Len(q) /\ Len(q) \in Nat
  OBVIOUS
<1>2. PICK a : a = SubSeq(q, 1, i - 1)
  OBVIOUS
<1>3. PICK b : b = SubSeq(q, i + 1, Len(q))
  OBVIOUS
<1>4. a \in Seq(T) /\ Len(a) = i - 1 /\ \A r \in 1 .. i - 1 : a[r] = q[r]
  BY <1>1, <1>2
<1>5. b \in Seq(T) /\ Len(b) = Len(q) - i
  BY <1>1, <1>3
<1>6. PICK c : c = a \o b
  OBVIOUS
<1>7. /\ c \in Seq(T) /\ Len(c) = Len(a) + Len(b)
      /\ \A r \in 1 .. Len(a) : c[r] = a[r]
  <2>1. /\ c \in Seq(T) /\ Len(c) = Len(a) + Len(b)
        /\ \A r \in 1 .. Len(a) + Len(b) :
             c[r] = IF r <= Len(a) THEN a[r] ELSE b[r - Len(a)]
    BY <1>4, <1>5, <1>6, ConcatProperties
  <2>2. \A r \in 1 .. Len(a) : r \in 1 .. Len(a) + Len(b) /\ r <= Len(a)
    BY <1>1, <1>4, <1>5
  <2> QED BY <2>1, <2>2
<1>8. Seqs!RemoveAt(q, i) = c
  BY <1>2, <1>3, <1>6 DEF Seqs!RemoveAt
<1>9. Len(c) = Len(q) - 1
  BY <1>1, <1>4, <1>5, <1>7
<1>10. i = Len(q) => \A r \in 1 .. Len(q) - 1 : c[r] = q[r]
  BY <1>4, <1>7
<1> QED BY <1>7, <1>8, <1>9, <1>10

(* A row is removed from the window: its lot is forgotten, and the current *)
(* row stays a row.                                                        *)
LEMMA CancelAcknowledgedInv == ASSUME WInv, CancelAcknowledged PROVE WInv'
<1>1. PICK m : m = Head(responses)
  OBVIOUS
<1>2. PICK idx : idx = m.lot
  OBVIOUS
<1>3. /\ rows \in Seq(Row) /\ requests \in Seq(Request) /\ responses \in Seq(Answer)
      /\ responses # <<>> /\ AcksOK(responses, lots)
  BY DEF CancelAcknowledged, Response, WInv, TypeOK, LotsOK
<1>4. IsAck(m, TRUE) /\ ~IsAck(m, FALSE) /\ m \in Answer
  <2>1. m \in Answer /\ m.type = "success" /\ m.is_to_cancel
    BY <1>1, <1>3 DEF CancelAcknowledged, Response
  <2>2. m.is_to_cancel \in BOOLEAN
    BY <2>1 DEF Answer
  <2> QED BY <2>1, <2>2 DEF IsAck
<1>5. idx \in Acks(responses, TRUE)
  BY <1>1, <1>2, <1>3, <1>4, PopAcks
<1>6. KnowsLots(lot_by_idx, lots, responses) /\ app # "lot_by_idx.at"
  BY KnowsNow DEF WInv
<1>7. /\ idx \in DOMAIN lot_by_idx /\ lots[idx].state = "cancelled"
      /\ idx \notin Acks(responses, FALSE)
  BY <1>5, <1>6, KnownLots DEF KnowsLots
<1>8. PICK j : j = lot_by_idx[idx]
  OBVIOUS
<1>9. /\ rows' = RowsWithout(j) /\ current' = CurrentWithout(j)
      /\ idx_by_lot' = Erase(idx_by_lot, j)
      /\ lot_by_idx' = Erase(lot_by_idx, idx)
      /\ shifted' = (shifted \/ j # Len(rows))
      /\ responses' = Tail(responses)
      /\ UNCHANGED <<app, ReportModel, to_add_requests, slots, input_shown,
                     requests, lots, hasty>>
  BY <1>1, <1>2, <1>7, <1>8 DEF CancelAcknowledged, forget, Executed, dialog
<1>10. /\ DOMAIN lot_by_idx' = DOMAIN lot_by_idx \ {idx}
       /\ \A x \in DOMAIN lot_by_idx' : lot_by_idx'[x] = lot_by_idx[x]
       /\ lot_by_idx' = [x \in DOMAIN lot_by_idx' |-> lot_by_idx'[x]]
       /\ DOMAIN idx_by_lot' = DOMAIN idx_by_lot \ {j}
       /\ \A r \in DOMAIN idx_by_lot' : idx_by_lot'[r] = idx_by_lot[r]
       /\ idx_by_lot' = [r \in DOMAIN idx_by_lot' |-> idx_by_lot'[r]]
  BY <1>9 DEF Erase
<1>11. /\ AcksOK(responses', lots')
       /\ Acks(responses', FALSE) = Acks(responses, FALSE)
       /\ Acks(responses', TRUE) = Acks(responses, TRUE) \ {idx}
  BY <1>1, <1>2, <1>3, <1>4, <1>9, PopAcks
<1>12. TypeOK'
  <2>1. rows' \in Seq(Row) /\ current' \in 0 .. Len(rows')
    <3>1. CASE j \notin DOMAIN rows
      BY <1>3, <1>9, <3>1 DEF RowsWithout, CurrentWithout, WInv, TypeOK
    <3>2. CASE j \in DOMAIN rows
      <4>1. rows' \in Seq(Row) /\ Len(rows') = Len(rows) - 1
        BY <1>3, <1>9, <3>2, RemoveRow DEF RowsWithout
      <4>2. /\ Len(rows) \in Nat /\ j \in 1 .. Len(rows)
            /\ current \in 0 .. Len(rows)
        BY <1>3, <3>2 DEF WInv, TypeOK
      <4>3. current' = IF current > j \/ current = Len(rows)
                       THEN current - 1 ELSE current
        BY <1>9, <3>2 DEF CurrentWithout
      <4> QED BY <4>1, <4>2, <4>3
    <3> QED BY <3>1, <3>2
  <2> QED BY <1>9, <1>10, <2>1 DEF WInv, TypeOK
<1>13. LotsOK' /\ MapsOK' /\ DialogOK'
  <2>1. responses' \in Seq(Answer)
    BY <1>3, <1>9, Pop
  <2>2. LotsOK'
    BY <1>9, <2>1 DEF WInv, LotsOK, Placed
  <2>3. shifted' \in BOOLEAN
    BY <1>9 DEF WInv, DialogOK
  <2> QED BY <1>9, <1>10, <2>2, <2>3 DEF WInv, MapsOK, DialogOK
<1>14. CancelsKnown'
  <2>1. \A x : Known(x) => Known(x)'
    BY <1>9, <1>11 DEF Known
  <2> QED BY <1>9, <1>10, <2>1 DEF WInv, CancelsKnown
<1>15. WindowKnowsItsLots'
  <2>1. KnowsLots(lot_by_idx', lots', responses')
    BY <1>6, <1>7, <1>9, <1>10, <1>11 DEF KnowsLots
  <2> QED BY <1>6, <1>9, <2>1, KnowsNext
<1>16. PatientOK'
  <2> SUFFICES ASSUME ~hasty
               PROVE  /\ OneLot(requests') /\ OneAck(responses')
                      /\ Orders(requests') = {} /\ Filed'
    BY <1>9 DEF PatientOK
  <2>1. /\ OneLot(requests) /\ OneAck(responses) /\ Filed
        /\ Orders(requests) = {}
    BY <1>5 DEF WInv, PatientOK
  <2>2. OneAck(responses') /\ Acks(responses, FALSE) = {}
    BY <1>1, <1>3, <1>4, <1>9, <2>1, PopOneAck
  <2>3. Awaited = {} /\ Awaited' = {}
    BY <1>9, <1>11, <2>1, <2>2 DEF Awaited
  <2>4. Filed'
    BY <1>9, <2>1, <2>3 DEF Filed
  <2> QED BY <1>9, <2>1, <2>2, <2>4
<1>17. PatientSurvives'
  BY <1>9 DEF WInv, PatientSurvives
<1>18. /\ ReportsOK(responses', lots')
       /\ \A x : x # OtherLot => (x \in Reps(responses') <=> x \in Reps(responses))
  <2>1. ReportsOK(responses, lots) /\ m.type # "report"
    BY <1>4 DEF WInv, IsAck
  <2>2. Acks(Tail(responses), FALSE) \subseteq Acks(responses, FALSE)
    BY <1>9, <1>11
  <2> QED BY <1>1, <1>3, <1>9, <2>1, <2>2, PopReports
<1>19. PatientRowsExact'
  <2> SUFFICES ASSUME ~hasty, ~shifted, j = Len(rows), app \notin Thrown
               PROVE  RowsExact(rows', idx_by_lot', lot_by_idx', lots, responses')
    BY <1>9, RowsNext
  <2>1. /\ DOMAIN idx_by_lot = DOMAIN rows
        /\ DOMAIN lot_by_idx = {rows[r].lot : r \in DOMAIN rows}
        /\ \A r \in DOMAIN rows :
             /\ idx_by_lot[r] = rows[r].lot
             /\ lot_by_idx[rows[r].lot] = r
             /\ RowRight(rows[r], lots, responses)
    BY RowsNow DEF WInv, RowsExact
  <2>2. j \in DOMAIN rows /\ rows[j].lot = idx
    BY <1>7, <1>8, <2>1
  <2>3. /\ DOMAIN rows' = DOMAIN rows \ {j}
        /\ \A r \in DOMAIN rows' : rows'[r] = rows[r]
    <3>1. /\ rows' \in Seq(Row) /\ Len(rows') = Len(rows) - 1
          /\ \A r \in 1 .. Len(rows) - 1 : rows'[r] = rows[r]
      BY <1>3, <1>9, <2>2, RemoveRow DEF RowsWithout
    <3>2. DOMAIN rows' = 1 .. Len(rows) - 1
      BY <3>1
    <3>3. 1 .. Len(rows) - 1 = DOMAIN rows \ {j}
      BY <1>3, <2>2
    <3> QED BY <3>1, <3>2, <3>3
  <2>4. DOMAIN lot_by_idx' = {rows'[r].lot : r \in DOMAIN rows'}
    <3>1. ASSUME NEW x \in DOMAIN lot_by_idx'
          PROVE  x \in {rows'[r].lot : r \in DOMAIN rows'}
      BY <1>10, <2>1, <2>2, <2>3
    <3>2. ASSUME NEW r \in DOMAIN rows' PROVE rows'[r].lot \in DOMAIN lot_by_idx'
      <4>1. rows[r].lot # idx
        BY <1>8, <2>1, <2>3
      <4> QED BY <1>10, <2>1, <2>3, <4>1
    <3> QED BY <3>1, <3>2
  <2>5. ASSUME NEW r \in DOMAIN rows'
        PROVE  /\ idx_by_lot'[r] = rows'[r].lot
               /\ lot_by_idx'[rows'[r].lot] = r
               /\ RowRight(rows'[r], lots, responses')
    <3>1. r \in DOMAIN rows /\ r # j /\ rows'[r] = rows[r] /\ r \in DOMAIN idx_by_lot'
      BY <1>10, <2>1, <2>3
    <3>2. rows[r].lot \in DOMAIN lot_by_idx'
      BY <2>4, <3>1
    <3>3. lot_by_idx'[rows'[r].lot] = r
      BY <1>10, <2>1, <3>1, <3>2
    <3>4. rows[r].lot # OtherLot
      BY <3>1, RowLots
    <3>5. RowRight(rows[r], lots, responses')
      BY <1>18, <2>1, <3>1, <3>4 DEF RowRight, Told
    <3> QED BY <1>10, <2>1, <3>1, <3>3, <3>5
  <2>6. DOMAIN idx_by_lot' = DOMAIN rows'
    BY <1>10, <2>1, <2>3
  <2> QED BY <2>4, <2>5, <2>6 DEF RowsExact
<1> QED BY <1>9, <1>11, <1>12, <1>13, <1>14, <1>15, <1>16, <1>17, <1>18, <1>19 DEF WInv

(* A report is appended, and the row of its lot changes its text.          *)
LEMMA ReportedInv == ASSUME WInv, Reported PROVE WInv'
<1>1. PICK m : m = Head(responses)
  OBVIOUS
<1>2. PICK idx : idx = m.lot
  OBVIOUS
<1>3. PICK j : j = lot_by_idx[idx]
  OBVIOUS
<1>4. /\ rows \in Seq(Row) /\ requests \in Seq(Request) /\ responses \in Seq(Answer)
      /\ responses # <<>> /\ AcksOK(responses, lots)
      /\ ReportModel \in Seq(LotIds \cup {OtherLot})
      /\ m.type = "report"
  BY <1>1 DEF Reported, Response, WInv, TypeOK, LotsOK
<1>5. idx \in LotIds \cup {OtherLot}
  <2>1. m \in Answer
    BY <1>1, <1>4
  <2> QED BY <1>2, <1>4, <2>1 DEF Answer
<1>6. idx \in DOMAIN lots => lots[idx].state = "settled"
  <2>1. AckOK(m, lots)
    BY <1>1, <1>4, PopAcks
  <2>2. OtherLot \notin LotIds
    BY OtherLotIsNone
  <2>3. DOMAIN lots \subseteq LotIds
    BY DEF WInv, TypeOK
  <2> QED BY <1>2, <1>4, <2>1, <2>2, <2>3 DEF AckOK
<1>7. PICK text : text = [says   |-> "completed",
                          report |-> IF j \in DOMAIN ReportModel'
                                     THEN ReportModel'[j] ELSE NoReport]
  OBVIOUS
<1>8. /\ ReportModel' = Append(ReportModel, idx)
      /\ rows' = IF idx \in DOMAIN lot_by_idx /\ j \in DOMAIN rows
                 THEN [rows EXCEPT ![j].text = text] ELSE rows
      /\ responses' = Tail(responses)
      /\ UNCHANGED <<app, current, to_add_requests, idx_by_lot, lot_by_idx,
                     slots, input_shown, requests, lots, hasty, shifted>>
  BY <1>1, <1>2, <1>3, <1>7 DEF Reported, Executed, maps, dialog, history
<1>9. ReportModel' \in Seq(LotIds \cup {OtherLot})
  BY <1>4, <1>5, <1>8
<1>10. text \in Text /\ text.says = "completed"
  <2>1. j \in DOMAIN ReportModel' => ReportModel'[j] \in LotIds \cup {OtherLot}
    BY <1>9
  <2> QED BY <1>7, <2>1 DEF Text
<1>11. /\ DOMAIN rows' = DOMAIN rows /\ Len(rows') = Len(rows)
       /\ rows' \in Seq(Row)
       /\ \A r \in DOMAIN rows :
            /\ rows'[r].lot = rows[r].lot
            /\ r # j => rows'[r] = rows[r]
            /\ IF r = j /\ idx \in DOMAIN lot_by_idx
               THEN rows'[r].text = text ELSE rows'[r] = rows[r]
  <2>1. CASE idx \in DOMAIN lot_by_idx /\ j \in DOMAIN rows
    <3>1. PICK w : w = [rows[j] EXCEPT !.text = text]
      OBVIOUS
    <3>2. rows[j] \in Row
      BY <1>4, <2>1
    <3>3. w \in Row /\ w.lot = rows[j].lot /\ w.text = text
      BY <1>10, <3>1, <3>2 DEF Row
    <3>4. rows' = [rows EXCEPT ![j] = w]
      BY <1>4, <1>8, <2>1, <3>1
    <3>5. DOMAIN rows' = DOMAIN rows /\ Len(rows') = Len(rows) /\ rows' \in Seq(Row)
      BY <1>4, <2>1, <3>3, <3>4
    <3>6. /\ rows'[j] = w
          /\ \A r \in DOMAIN rows : r # j => rows'[r] = rows[r]
      BY <1>4, <2>1, <3>4
    <3> QED BY <2>1, <3>3, <3>5, <3>6
  <2>2. CASE ~(idx \in DOMAIN lot_by_idx /\ j \in DOMAIN rows)
    <3>1. rows' = rows
      BY <1>8, <2>2
    <3> QED BY <1>4, <2>2, <3>1
  <2> QED BY <2>1, <2>2
<1>12. SameLots(requests, responses')
  BY <1>1, <1>4, <1>8, ExecuteOther
<1>13. TypeOK'
  BY <1>8, <1>9, <1>11 DEF WInv, TypeOK
<1>14. LotsOK' /\ MapsOK' /\ DialogOK' /\ AcksOK(responses', lots')
  BY <1>8, <1>12 DEF WInv, LotsOK, MapsOK, DialogOK, SameLots, Placed
<1>15. CancelsKnown'
  <2>1. \A x : Known(x)' = Known(x)
    BY <1>8, <1>12 DEF Known, SameLots
  <2> QED BY <1>8, <2>1 DEF WInv, CancelsKnown
<1>16. WindowKnowsItsLots'
  <2>1. KnowsLots(lot_by_idx', lots', responses')
    BY <1>8, <1>12, KnowsNow DEF WInv, KnowsLots, SameLots
  <2> QED BY <1>8, <2>1, KnowsNow, KnowsNext DEF WInv
<1>17. PatientOK'
  <2>1. Awaited' = Awaited
    BY <1>8, <1>12 DEF Awaited, SameLots
  <2>2. Filed' = Filed
    BY <1>8, <1>11, <2>1 DEF Filed
  <2> QED BY <1>8, <1>12, <2>2 DEF WInv, PatientOK, SameLots
<1>18. PatientSurvives'
  BY <1>8 DEF WInv, PatientSurvives
<1>19. /\ ReportsOK(responses', lots) /\ idx \notin Acks(responses, FALSE)
       /\ \A x : x # OtherLot =>
            (x \in Reps(responses') <=> x \in Reps(responses) /\ x # idx)
  <2>1. ReportsOK(responses, lots)
    BY DEF WInv
  <2>2. Acks(Tail(responses), FALSE) \subseteq Acks(responses, FALSE)
    BY <1>8, <1>12 DEF SameLots
  <2> QED BY <1>1, <1>2, <1>4, <1>8, <2>1, <2>2, PopReports
<1>20. PatientRowsExact'
  <2> SUFFICES ASSUME ~hasty, ~shifted, app \notin Thrown
               PROVE  RowsExact(rows', idx_by_lot, lot_by_idx, lots, responses')
    BY <1>8, RowsNext
  <2>1. /\ DOMAIN idx_by_lot = DOMAIN rows
        /\ DOMAIN lot_by_idx = {rows[r].lot : r \in DOMAIN rows}
        /\ \A r \in DOMAIN rows :
             /\ idx_by_lot[r] = rows[r].lot
             /\ lot_by_idx[rows[r].lot] = r
             /\ RowRight(rows[r], lots, responses)
    BY RowsNow DEF WInv, RowsExact
  <2>2. {rows'[r].lot : r \in DOMAIN rows'} = {rows[r].lot : r \in DOMAIN rows}
    BY <1>11
  <2>3. ASSUME NEW r \in DOMAIN rows PROVE RowRight(rows'[r], lots, responses')
    <3>1. rows[r].lot # OtherLot /\ rows[r].lot \in DOMAIN lot_by_idx
      BY <2>1, RowLots
    <3>2. CASE rows[r].lot = idx
      <4>1. r = j /\ idx \in DOMAIN lot_by_idx
        BY <1>3, <2>1, <3>1, <3>2
      <4>2. rows'[r].text.says = "completed" /\ rows'[r].lot = idx
        BY <1>10, <1>11, <3>2, <4>1
      <4>3. idx \in DOMAIN lots
        BY <4>1, KnownLots
      <4>4. Told(idx, lots, responses')
        BY <1>6, <1>19, <3>1, <3>2, <4>3 DEF Told
      <4> QED BY <4>2, <4>4 DEF RowRight
    <3>3. CASE rows[r].lot # idx
      <4>1. ~(r = j /\ idx \in DOMAIN lot_by_idx)
        <5>1. ASSUME r = j, idx \in DOMAIN lot_by_idx PROVE FALSE
          <6>1. PICK q \in DOMAIN rows : idx = rows[q].lot
            BY <2>1, <5>1
          <6>2. q = j
            BY <1>3, <2>1, <6>1
          <6> QED BY <3>3, <5>1, <6>1, <6>2
        <5> QED BY <5>1
      <4>2. rows'[r] = rows[r]
        BY <1>11, <4>1
      <4> QED BY <1>19, <2>1, <3>1, <3>3, <4>2 DEF RowRight, Told
    <3> QED BY <3>2, <3>3
  <2>4. \A r \in DOMAIN rows : idx_by_lot[r] = rows'[r].lot /\ lot_by_idx[rows'[r].lot] = r
    BY <1>11, <2>1
  <2> QED BY <1>11, <2>1, <2>2, <2>3, <2>4 DEF RowsExact
<1>21. ReportsOK(responses', lots')
  BY <1>8, <1>19
<1> QED BY <1>13, <1>14, <1>15, <1>16, <1>17, <1>18, <1>20, <1>21 DEF WInv

-----------------------------------------------------------------------------
(* The inductive invariant holds at the beginning.                         *)
LEMMA InitInv == Init => WInv
<1> SUFFICES ASSUME Init PROVE WInv
  OBVIOUS
<1>1. /\ app = "auth" /\ rows = <<>> /\ current = 0 /\ ReportModel = <<>>
      /\ to_add_requests = <<>> /\ idx_by_lot = <<>> /\ lot_by_idx = <<>>
      /\ slots = <<>> /\ input_shown = FALSE
      /\ requests = <<>> /\ responses = <<>> /\ lots = <<>>
      /\ hasty = FALSE /\ shifted = FALSE
  BY DEF Init
<1>2. /\ DOMAIN lots = {} /\ DOMAIN requests = {} /\ DOMAIN responses = {}
      /\ DOMAIN rows = {} /\ DOMAIN to_add_requests = {}
      /\ DOMAIN idx_by_lot = {} /\ DOMAIN lot_by_idx = {}
  BY <1>1
<1>3. TypeOK
  BY <1>1, <1>2 DEF TypeOK
<1>4. LotsOK
  <2>1. LotRequests(requests) = {}
    BY <1>2 DEF LotRequests
  <2>2. Cardinality(DOMAIN lots) = 0 /\ Cardinality(LotRequests(requests)) = 0
    BY <1>2, <2>1, FS_EmptySet
  <2>3. DOMAIN lots = FirstId .. FirstId + 0 - 1
    BY <1>2, BoundsAssumption
  <2>4. Placed <= MaxLots
    BY <2>2, BoundsAssumption DEF Placed
  <2>5. lots = [id \in DOMAIN lots |-> lots[id]]
    BY <1>1
  <2> QED BY <1>1, <1>2, <2>2, <2>3, <2>4, <2>5 DEF LotsOK
<1>5. MapsOK /\ DialogOK
  <2>1. MapsOK
    BY <1>1 DEF MapsOK
  <2>2. Len(slots) <= 1
    BY <1>1
  <2>3. DialogOK
    BY <1>1, <2>2 DEF DialogOK
  <2> QED BY <2>1, <2>3
<1>6. AcksOK(responses, lots) /\ CancelsKnown
  BY <1>2 DEF AcksOK, CancelsKnown
<1>7. /\ \A b : Acks(responses, b) = {}
      /\ ReportsOK(responses, lots)
  BY <1>2 DEF Acks, ReportsOK
<1>8. WindowKnowsItsLots
  <2>1. KnowsLots(lot_by_idx, lots, responses)
    BY <1>2, <1>7 DEF KnowsLots
  <2> QED BY <1>1, <2>1, KnowsNow
<1>9. PatientOK
  <2>1. Orders(requests) = {} /\ Awaited = {}
    BY <1>2, <1>7 DEF Orders, LotRequests, Awaited
  <2>2. OneLot(requests) /\ OneAck(responses) /\ Filed
    BY <1>2, <2>1 DEF OneLot, OneAck, Filed
  <2> QED BY <2>1, <2>2 DEF PatientOK
<1>10. PatientSurvives /\ PatientRowsExact
  BY <1>1, <1>2 DEF PatientSurvives, PatientRowsExact
<1> QED BY <1>3, <1>4, <1>5, <1>6, <1>7, <1>8, <1>9, <1>10 DEF WInv

(* Every step keeps it.                                                    *)
LEMMA NextInv == WInv /\ [Next]_vars => WInv'
<1> SUFFICES ASSUME WInv, [Next]_vars PROVE WInv'
  OBVIOUS
<1>1. CASE \/ \E request \in {AuthorizationRequest, RegistrationRequest} :
                AuthClicked(request)
           \/ DeleteClicked \/ UpdateClicked \/ BadInput
           \/ Authorized \/ LabelShown \/ ChartShown
           \/ ServerLogin \/ ServerReads
           \/ UNCHANGED vars
  BY <1>1, QuietSteps
<1>2. CASE \/ \E op \in Op : SideClicked(op)
           \/ \E row \in 1 .. MaxLots : Select(row)
  BY <1>2, DialogSteps
<1>3. CASE \E usd \in Counts : OkClicked(usd)
  BY <1>3, OkClickedInv
<1>4. CASE LotAcknowledged
  BY <1>4, LotAcknowledgedInv
<1>5. CASE CancelAcknowledged
  BY <1>5, CancelAcknowledgedInv
<1>6. CASE Reported
  BY <1>6, ReportedInv
<1>7. CASE ServerLot
  BY <1>7, ServerLotInv
<1>8. CASE ServerCancel
  BY <1>8, ServerCancelInv
<1>9. CASE \E id \in LotIds :
             ServerCompletes(id) \/ ServerSells(id) \/ ServerFills(id)
  BY <1>9, DealSteps
<1> QED BY <1>1, <1>2, <1>3, <1>4, <1>5, <1>6, <1>7, <1>8, <1>9 DEF Next

(* All that the window keeps is what its invariant says it is.             *)
LEMMA WindowInvariant == Spec => []WInv
  BY InitInv, NextInv, PTL DEF Spec

(* Rows, current row, reports, maps and slots keep their types: the        *)
(* current row stays a row through every removal that the window makes.    *)
THEOREM WindowTypes == Spec => []TypeOK
<1>1. WInv => TypeOK
  BY DEF WInv
<1> QED BY <1>1, WindowInvariant, PTL

(* Apart from acknowledgements under way, the window knows exactly the     *)
(* lots that exist at the server, and lot_by_idx.at never throws, however  *)
(* the user clicks and whatever the server refuses or settles meanwhile.   *)
THEOREM WindowKnows == Spec => []WindowKnowsItsLots
<1>1. WInv => WindowKnowsItsLots
  BY DEF WInv
<1> QED BY <1>1, WindowInvariant, PTL

(* A user who waits for the answers never loses the client to              *)
(* to_add_requests.at: the row under which sell_clicked or buy_clicked     *)
(* files a lot is the row that its acknowledgement inserts.                *)
THEOREM PatientUserSurvives == Spec => []PatientSurvives
<1>1. WInv => PatientSurvives
  BY DEF WInv
<1> QED BY <1>1, WindowInvariant, PTL

(* While such a user's removals take last rows only, every row belongs to  *)
(* its lot in both maps.  It says "completed" exactly when the lot was     *)
(* settled under its own id and the report has arrived, and until then the *)
(* count that was ordered and the side that was not.                       *)
THEOREM PatientUserSeesLots == Spec => []PatientRowsExact
<1>1. WInv => PatientRowsExact
  BY DEF WInv
<1> QED BY <1>1, WindowInvariant, PTL
=============================================================================
