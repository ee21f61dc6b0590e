--------------------------- MODULE SessionProofs ---------------------------
(***************************************************************************)
(* Proofs about Session, for any sessions, users and number of messages.   *)
(***************************************************************************)
EXTENDS Session, FiniteSetTheorems, SequenceTheorems, TLAPS

(* The operations and the queue of a session between two handlers. *)
SessionOK(x) ==
  /\ x.writes <= 1
  /\ x.writes = 1 => x.pending > 0
  /\ x.conn \in {"none", "handshake"} =>
       x.reads = 0 /\ x.writes = 0 /\ x.failing = 0 /\ x.pending = 0
  /\ x.conn = "open" =>
       /\ x.pending > 0 => x.writes = 1
       /\ x.reads + x.writes > 0

(* The same inside a handler, once the completed read is taken away. *)
QueueOK(x) ==
  /\ x.writes <= 1
  /\ x.writes = 1 => x.pending > 0
  /\ x.conn \in {"open", "closed"}
  /\ x.conn = "open" /\ x.pending > 0 => x.writes = 1

IOInv ==
  /\ io \in [Sessions -> IO]
  /\ \A s \in Sessions : SessionOK(io[s])

-----------------------------------------------------------------------------
(* The methods of a session, field by field. *)
LEMMA DoRead ==
  ASSUME NEW x \in IO
  PROVE  LET y == doRead(x) IN
         /\ y \in IO
         /\ y.conn = x.conn /\ y.writes = x.writes /\ y.pending = x.pending
         /\ x.conn # "closed" => y.reads = x.reads + 1 /\ y.failing = x.failing
  BY DEF doRead, IO

(* doWrite starts one write, or an operation that will fail.               *)
LEMMA DoWrite ==
  ASSUME NEW x \in IO
  PROVE  LET y == doWrite(x) IN
         /\ y \in IO
         /\ y.conn = x.conn /\ y.reads = x.reads /\ y.pending = x.pending
         /\ x.conn = "closed" => y.writes = x.writes
         /\ x.conn # "closed" => y.writes = x.writes + 1
                                 /\ y.failing = x.failing
  BY DEF doWrite, IO

(* Queueing n responses starts a write only on an empty queue.             *)
LEMMA AddResponses ==
  ASSUME NEW x \in IO, NEW n \in Nat
  PROVE  LET y == addResponses(x, n) IN
         /\ y \in IO
         /\ y.conn = x.conn /\ y.reads = x.reads /\ y.pending = x.pending + n
         /\ x.conn = "closed" => y.writes = x.writes
         /\ x.conn # "closed" =>
              /\ y.writes = IF x.pending = 0 /\ n > 0 THEN x.writes + 1
                            ELSE x.writes
              /\ y.failing = x.failing
         /\ n = 0 => y = x
<1> DEFINE z == [x EXCEPT !.pending = @ + n]
<1>1. /\ z \in IO /\ z.conn = x.conn /\ z.reads = x.reads
      /\ z.writes = x.writes /\ z.failing = x.failing
      /\ z.pending = x.pending + n
      /\ n = 0 => z = x
  BY DEF IO
<1>2. addResponses(x, n) = IF x.pending = 0 /\ n > 0 THEN doWrite(z) ELSE z
  BY DEF addResponses
<1> HIDE DEF z
<1>3. CASE x.pending = 0 /\ n > 0
  BY <1>1, <1>2, <1>3, DoWrite
<1>4. CASE ~(x.pending = 0 /\ n > 0)
  BY <1>1, <1>2, <1>4
<1> QED BY <1>3, <1>4

(* Queueing n responses keeps one write per non-empty queue. *)
LEMMA AddResponsesQueue ==
  ASSUME NEW x \in IO, QueueOK(x), NEW n \in Nat
  PROVE  LET y == addResponses(x, n) IN
         /\ y \in IO /\ QueueOK(y)
         /\ n > 0 /\ y.conn = "open" => y.writes = 1
<1> DEFINE y == addResponses(x, n)
<1>1. /\ y \in IO
      /\ y.conn = x.conn /\ y.reads = x.reads /\ y.pending = x.pending + n
      /\ x.conn = "closed" => y.writes = x.writes
      /\ x.conn # "closed" =>
           y.writes = IF x.pending = 0 /\ n > 0 THEN x.writes + 1 ELSE x.writes
  BY AddResponses
<1> HIDE DEF y
<1>2. QueueOK(y) /\ (n > 0 /\ y.conn = "open" => y.writes = 1)
  BY <1>1 DEF QueueOK, IO
<1> QED BY <1>1, <1>2 DEF y

(* Pushing reports to a session keeps it in order.                         *)
LEMMA AddResponsesOK ==
  ASSUME NEW x \in IO, SessionOK(x), NEW n \in Nat,
         n > 0 => x.reads + x.writes + x.failing # 0
  PROVE  addResponses(x, n) \in IO /\ SessionOK(addResponses(x, n))
<1> DEFINE y == addResponses(x, n)
<1>1. /\ y \in IO
      /\ y.conn = x.conn /\ y.reads = x.reads /\ y.pending = x.pending + n
      /\ x.conn = "closed" => y.writes = x.writes
      /\ x.conn # "closed" =>
           y.writes = IF x.pending = 0 /\ n > 0 THEN x.writes + 1 ELSE x.writes
      /\ n = 0 => y = x
  BY AddResponses
<1> HIDE DEF y
<1>2. CASE n = 0
  BY <1>1, <1>2 DEF y
<1>3. CASE n > 0
  <2>1. x.conn \in {"open", "closed"}
    BY <1>3 DEF SessionOK, IO
  <2>2. SessionOK(y)
    BY <1>1, <1>3, <2>1 DEF SessionOK, IO
  <2> QED BY <1>1, <2>2 DEF y
<1> QED BY <1>2, <1>3

(* A completed read leaves the queue as it was.                            *)
LEMMA AfterReadQueue ==
  ASSUME IOInv, NEW s \in Sessions, io[s].reads > 0
  PROVE  AfterRead(s) \in IO /\ QueueOK(AfterRead(s))
  BY DEF IOInv, AfterRead, SessionOK, QueueOK, IO

(* What a handler that answers with at least one response leaves. *)
LEMMA AnsweredOK ==
  ASSUME NEW x \in IO, QueueOK(x), NEW n \in Nat, n > 0
  PROVE  addResponses(x, n) \in IO /\ SessionOK(addResponses(x, n))
<1> DEFINE y == addResponses(x, n)
<1>1. y \in IO /\ QueueOK(y) /\ (y.conn = "open" => y.writes = 1)
  BY AddResponsesQueue
<1> HIDE DEF y
<1>2. SessionOK(y)
  BY <1>1 DEF QueueOK, SessionOK, IO
<1> QED BY <1>1, <1>2 DEF y

(* Every handler that ends in close preserves the invariant.               *)
LEMMA CloseInv ==
  ASSUME IOInv, NEW s \in Sessions, NEW x \in IO, x.writes <= 1,
         x.writes = 1 => x.pending > 0, close(s, x)
  PROVE  IOInv'
  BY DEF IOInv, close, SessionOK, IO

(* A step that only changes the state of session s. *)
LEMMA OneSessionInv ==
  ASSUME IOInv, NEW s \in Sessions, NEW x \in IO, SessionOK(x),
         io' = [io EXCEPT ![s] = x]
  PROVE  IOInv'
  BY DEF IOInv

(* The reports of a lot request are finitely many.                         *)
LEMMA ReportsCount ==
  ASSUME NEW told \in Matches
  PROVE  /\ Len(told) \in Nat
         /\ \A q \in Sessions : Reports(q, told) \in Nat
<1>1. PICK n \in 0 .. MaxMatches : told \in [1 .. n -> accounts]
  BY DEF Matches
<1>2. told \in Seq(accounts) /\ DOMAIN told = 1 .. n
  BY <1>1, MessagesAssumption
<1>3. IsFiniteSet(DOMAIN told)
  BY <1>2, FS_Interval, MessagesAssumption
<1>4. \A q \in Sessions :
        IsFiniteSet({i \in DOMAIN told :
                       /\ told[i] \in DOMAIN active_sessions
                       /\ active_sessions[told[i]] = q
                       /\ ~Expired(q)})
  BY <1>3, FS_Subset
<1> QED BY <1>2, <1>4, FS_CardinalityType DEF Reports

(* A lot request, with all the reports it pushes, preserves it.            *)
LEMMA TradingRequestInv ==
  ASSUME IOInv, NEW s \in Sessions, NEW told \in Matches,
         TradingRequest(s, told)
  PROVE  IOInv'
<1>1. /\ Len(told) \in Nat
      /\ \A q \in Sessions : Reports(q, told) \in Nat
  BY ReportsCount
<1>2. \A q \in Sessions : Reports(q, told) > 0 =>
        io[q].reads + io[q].writes + io[q].failing # 0
  <2> SUFFICES ASSUME NEW q \in Sessions, Expired(q)
               PROVE  Reports(q, told) = 0
    BY DEF Expired
  <2>1. {i \in DOMAIN told : /\ told[i] \in DOMAIN active_sessions
                             /\ active_sessions[told[i]] = q
                             /\ ~Expired(q)} = {}
    OBVIOUS
  <2> QED BY <2>1, FS_EmptySet DEF Reports
<1> DEFINE mine == addResponses(AfterRead(s), Reports(s, told))
           all  == addResponses(mine, 1 + Len(told))
<1>3. all \in IO /\ SessionOK(all)
  <2>1. AfterRead(s) \in IO /\ QueueOK(AfterRead(s))
    BY AfterReadQueue DEF TradingRequest, Received
  <2>2. mine \in IO /\ QueueOK(mine)
    BY <1>1, <2>1, AddResponsesQueue
  <2> HIDE DEF mine
  <2>3. 1 + Len(told) \in Nat /\ 1 + Len(told) > 0
    BY <1>1
  <2> QED BY <2>2, <2>3, AnsweredOK
<1>4. \A q \in Sessions : /\ addResponses(io[q], Reports(q, told)) \in IO
                          /\ SessionOK(addResponses(io[q], Reports(q, told)))
  BY <1>1, <1>2, AddResponsesOK DEF IOInv
<1>5. io' = [q \in Sessions |->
                  IF q = s THEN all ELSE addResponses(io[q], Reports(q, told))]
  BY DEF TradingRequest
<1> HIDE DEF all
<1> QED BY <1>3, <1>4, <1>5 DEF IOInv

(* Every step of the specification preserves the invariant.                *)
LEMMA SocketsNext == IOInv /\ [SessionNext]_sessionVars => IOInv'
<1> SUFFICES ASSUME IOInv, [SessionNext]_sessionVars PROVE IOInv'
  OBVIOUS
<1>1. CASE UNCHANGED sessionVars
  BY <1>1 DEF sessionVars, IOInv
<1>2. ASSUME NEW s \in Sessions, Accept(s) PROVE IOInv'
  BY <1>2 DEF Accept, IOInv, SessionOK, IO
<1>3. ASSUME NEW s \in Sessions, HandshakeDone(s) PROVE IOInv'
  <2> DEFINE x == [io[s] EXCEPT !.conn = "open"]
  <2>1. /\ x \in IO /\ x.conn = "open" /\ x.reads = 0 /\ x.writes = 0
        /\ x.pending = 0
    BY <1>3 DEF HandshakeDone, IOInv, SessionOK, IO
  <2>2. io' = [io EXCEPT ![s] = doRead(x)]
    BY <1>3 DEF HandshakeDone, IOInv
  <2> HIDE DEF x
  <2>3. doRead(x) \in IO /\ SessionOK(doRead(x))
    BY <2>1, DoRead DEF SessionOK
  <2> QED BY <2>2, <2>3, OneSessionInv
<1>4. ASSUME NEW s \in Sessions, HandshakeFails(s) PROVE IOInv'
  BY <1>4, CloseInv DEF HandshakeFails, IOInv, SessionOK, IO
<1>5. ASSUME NEW s \in Sessions, Received(s),
             io' = [io EXCEPT ![s] = addResponses(AfterRead(s), 1)]
      PROVE  IOInv'
  <2>1. AfterRead(s) \in IO /\ QueueOK(AfterRead(s))
    BY <1>5, AfterReadQueue DEF Received
  <2>2. /\ addResponses(AfterRead(s), 1) \in IO
        /\ SessionOK(addResponses(AfterRead(s), 1))
    BY <2>1, AnsweredOK
  <2> QED BY <1>5, <2>2, OneSessionInv
<1>6. ASSUME NEW s \in Sessions, OtherRequest(s) PROVE IOInv'
  BY <1>5, <1>6 DEF OtherRequest, IOInv
<1>7. ASSUME NEW s \in Sessions, NEW u \in Users,
             AuthorizationRequest(s, u) \/ RegisterRequest(s, u)
      PROVE  IOInv'
  BY <1>5, <1>7 DEF AuthorizationRequest, RegisterRequest, Authorize, IOInv
<1>8. ASSUME NEW s \in Sessions, NEW told \in Matches,
             TradingRequest(s, told)
      PROVE  IOInv'
  BY <1>8, TradingRequestInv
<1>9. ASSUME NEW s \in Sessions, ReadFails(s) PROVE IOInv'
  BY <1>9, CloseInv DEF ReadFails, IOInv, SessionOK, IO
<1>10. ASSUME NEW s \in Sessions, WriteDone(s) PROVE IOInv'
  <2>1. afterWrite(io[s]) \in IO /\ SessionOK(afterWrite(io[s]))
    <3> DEFINE y == [io[s] EXCEPT !.writes = @ - 1, !.pending = @ - 1]
    <3>1. io[s] \in IO /\ SessionOK(io[s]) /\ io[s].writes > 0
      BY <1>10 DEF WriteDone, IOInv
    <3>2. /\ io[s].writes = 1 /\ io[s].conn \in {"open", "closed"}
          /\ io[s].pending \in Nat /\ io[s].pending > 0
      BY <3>1 DEF SessionOK, IO
    <3>3. afterWrite(io[s]) = IF y.pending # 0 THEN doWrite(y) ELSE doRead(y)
      BY DEF afterWrite
    <3>4. /\ y.conn = io[s].conn /\ y.writes = 0 /\ y \in IO
      <4> DEFINE x == io[s]
      <4>1. x \in IO /\ x.writes - 1 = 0 /\ x.pending - 1 \in Nat
        BY <3>1, <3>2
      <4> DEFINE z == [x EXCEPT !.writes = @ - 1]
      <4>2. /\ z \in IO /\ z.conn = x.conn /\ z.writes = 0
            /\ z.pending = x.pending
        BY <4>1 DEF IO
      <4>3. y = [z EXCEPT !.pending = @ - 1]
        BY <4>1 DEF IO
      <4> HIDE DEF y, z
      <4> QED BY <4>1, <4>2, <4>3 DEF IO
    <3> HIDE DEF y
    <3>5. CASE y.pending # 0
      BY <3>2, <3>3, <3>4, <3>5, DoWrite DEF SessionOK, IO
    <3>6. CASE y.pending = 0
      BY <3>2, <3>3, <3>4, <3>6, DoRead DEF SessionOK, IO
    <3> QED BY <3>5, <3>6
  <2> QED BY <1>10, <2>1, OneSessionInv DEF WriteDone, IOInv
<1>11. ASSUME NEW s \in Sessions, WriteFails(s) PROVE IOInv'
  BY <1>11, CloseInv DEF WriteFails, IOInv, SessionOK, IO
<1>12. ASSUME NEW s \in Sessions, OperationFails(s) PROVE IOInv'
  BY <1>12, CloseInv DEF OperationFails, IOInv, SessionOK, IO
<1> QED BY <1>1, <1>2, <1>3, <1>4, <1>6, <1>7, <1>8, <1>9, <1>10, <1>11, <1>12
        DEF SessionNext

(* The invariant of sockets and queues holds in every reachable state.     *)
LEMMA SessionInvariant == SessionSpec => []IOInv
<1>1. SessionInit => IOInv
  BY DEF SessionInit, IOInv, SessionOK, IO
<1> QED BY <1>1, SocketsNext, PTL DEF SessionSpec

(* An open session always waits for a read or a write, whatever is pushed  *)
(* to it and in whatever order the handlers run.                           *)
THEOREM SessionsListen == SessionSpec => []NeverDeaf
<1>1. IOInv => NeverDeaf
  BY DEF IOInv, NeverDeaf, SessionOK
<1> QED BY <1>1, SessionInvariant, PTL

(* No second write is started while resp_buffer_ is being sent, and no     *)
(* queued response waits without a write.                                  *)
THEOREM WritesAreSerial == SessionSpec => []OneWriteAtATime
<1>1. IOInv => OneWriteAtATime
  BY DEF IOInv, OneWriteAtATime, SessionOK
<1> QED BY <1>1, SessionInvariant, PTL

-----------------------------------------------------------------------------
(* The registries.  What RegistryExact says of each user is not inductive  *)
(* by itself: that close takes the right entries away needs to know whose  *)
(* each token is, and that a login is made on an open socket needs to know *)
(* what a session has outstanding before its first login.                  *)

(* The token of a session was issued to it. *)
TokenOfSession ==
  \A s \in Sessions :
    user_id[s] # JohnDoe => issued[user_id[s]].session = s

(* A session that never logged in waits for one operation at most, and for *)
(* nothing but failures once it is closed.                                 *)
StrangerOK(x) ==
  /\ x.reads + x.writes <= 1
  /\ x.conn = "closed" => x.reads = 0 /\ x.writes = 0
  /\ x.conn # "closed" => x.failing = 0

Strangers ==
  \A s \in Sessions :
    /\ io[s].conn \in {"none", "handshake"} => user_id[s] = JohnDoe
    /\ user_id[s] = JohnDoe => StrangerOK(io[s])

(* Reports only go to sessions that logged in. *)
NamesLoggedIn ==
  \A u \in DOMAIN active_sessions : user_id[active_sessions[u]] # JohnDoe

(* The session of a login keeps its token as long as the token is valid    *)
(* and the user's logins do not overlap.                                   *)
LoginsKept ==
  \A t \in DOMAIN active_users :
    active_users[t] \notin muddled => user_id[issued[t].session] = t

(* The token of an open session that has logged in is valid. *)
TokensValid ==
  \A s \in Sessions :
    io[s].conn = "open" /\ user_id[s] # JohnDoe =>
      user_id[s] \in DOMAIN active_users

RInv ==
  /\ IOInv
  /\ SessionTypeOK
  /\ RegistryExact
  /\ TokenOfSession
  /\ Strangers
  /\ NamesLoggedIn
  /\ LoginsKept
  /\ TokensValid

(* What RegistryExact says of user u, in its three parts. *)
ReportsFind(u) ==
  u \in DOMAIN active_sessions =>
    /\ io[active_sessions[u]].conn = "open"
    /\ LoggedIn(active_sessions[u], u)

OpenIsKnown(u) ==
  \A s \in Sessions :
    io[s].conn = "open" /\ LoggedIn(s, u) =>
      /\ u \in DOMAIN active_sessions /\ active_sessions[u] = s
      /\ user_id[s] \in DOMAIN active_users

TokensEnd(u) ==
  \A t \in DOMAIN active_users :
    active_users[t] = u => io[issued[t].session].conn = "open"

(* The parts make up the whole, before and after a step.                   *)
LEMMA ExactParts ==
  /\ RegistryExact <=> \A u \in Users \ muddled :
                         ReportsFind(u) /\ OpenIsKnown(u) /\ TokensEnd(u)
  /\ RegistryExact' <=> \A u \in Users \ muddled' :
                          ReportsFind(u)' /\ OpenIsKnown(u)' /\ TokensEnd(u)'
  BY DEF RegistryExact, ReportsFind, OpenIsKnown, TokensEnd

(* JohnDoe is no token.                                                    *)
LEMMA TokensArePositive ==
  ASSUME SessionTypeOK
  PROVE  /\ DOMAIN issued = 1 .. Len(issued) /\ Len(issued) \in Nat
         /\ JohnDoe \notin DOMAIN issued
         /\ \A t \in DOMAIN issued : /\ issued[t].session \in Sessions
                                     /\ issued[t].user \in Users
<1>1. issued \in Seq([session : Sessions, user : Users])
  BY DEF SessionTypeOK
<1>2. DOMAIN issued = 1 .. Len(issued) /\ Len(issued) \in Nat
  BY <1>1
<1> DEFINE R == [session : Sessions, user : Users]
<1>3. \A t \in DOMAIN issued : issued[t] \in R
  <2>1. issued \in Seq(R)
    BY <1>1
  <2> HIDE DEF R
  <2> QED BY <1>2, <2>1, ElementOfSeq
<1> QED BY <1>2, <1>3 DEF JohnDoe

(* A step that touches no registry and opens or closes no session that has *)
(* logged in.                                                              *)
Quiet ==
  /\ UNCHANGED <<registry, issued, muddled>>
  /\ \A q \in Sessions :
       \/ io'[q].conn = io[q].conn
       \/ io[q].conn \in {"none", "handshake"}

(* Such a step leaves the registries exact.                                *)
LEMMA QuietKeeps ==
  ASSUME RInv, Quiet
  PROVE  /\ RegistryExact' /\ TokenOfSession' /\ NamesLoggedIn'
         /\ LoginsKept' /\ TokensValid'
<1>1. TokenOfSession' /\ NamesLoggedIn' /\ LoginsKept'
  BY DEF RInv, Quiet, registry, TokenOfSession, NamesLoggedIn, LoginsKept
<1>2. \A q \in Sessions : /\ io[q].conn = "open" => io'[q].conn = "open"
                          /\ io'[q].conn = "open" =>
                               io[q].conn = "open" \/ user_id[q] = JohnDoe
  BY DEF RInv, Quiet, Strangers
<1>3. \A q \in Sessions, u \in Users : LoggedIn(q, u)' <=> LoggedIn(q, u)
  BY DEF Quiet, registry, LoggedIn
<1>4. ASSUME NEW u \in Users \ muddled
      PROVE  ReportsFind(u)' /\ OpenIsKnown(u)' /\ TokensEnd(u)'
  <2>1. ReportsFind(u) /\ OpenIsKnown(u) /\ TokensEnd(u)
    BY <1>4, ExactParts DEF RInv
  <2>2. ReportsFind(u)'
    BY <1>2, <1>3, <2>1 DEF ReportsFind, Quiet, registry, RInv, SessionTypeOK
  <2>3. OpenIsKnown(u)'
    BY <1>2, <1>3, <2>1 DEF OpenIsKnown, Quiet, registry, LoggedIn
  <2>4. TokensEnd(u)'
    BY <1>2, <2>1, TokensArePositive DEF TokensEnd, Quiet, registry, RInv, SessionTypeOK
  <2> QED BY <2>2, <2>3, <2>4
<1>5. TokensValid'
  BY <1>2 DEF RInv, Quiet, registry, TokensValid
<1> QED BY <1>1, <1>4, <1>5, ExactParts DEF Quiet

(* A login, by itself or after a registration, is entered exactly.         *)
LEMMA AuthorizeKeeps ==
  ASSUME RInv, NEW s \in Sessions, NEW v \in Users, Received(s),
         Authorize(s, v)
  PROVE  /\ RegistryExact' /\ TokenOfSession' /\ Strangers'
         /\ NamesLoggedIn' /\ LoginsKept' /\ TokensValid'
<1> DEFINE t == Len(issued) + 1
<1>1. /\ DOMAIN issued = 1 .. Len(issued) /\ Len(issued) \in Nat
      /\ JohnDoe \notin DOMAIN issued
      /\ \A i \in DOMAIN issued : /\ issued[i].session \in Sessions
                                  /\ issued[i].user \in Users
  BY TokensArePositive DEF RInv
<1>2. t \notin DOMAIN issued /\ t # JohnDoe
  BY <1>1 DEF JohnDoe
<1>3. /\ DOMAIN issued' = DOMAIN issued \cup {t}
      /\ \A i \in DOMAIN issued : issued'[i] = issued[i]
      /\ issued'[t].session = s /\ issued'[t].user = v
  <2> DEFINE R == [session : Sessions, user : Users]
             r == [session |-> s, user |-> v]
  <2>1. issued \in Seq(R) /\ r \in R /\ issued' = Append(issued, r)
    BY DEF RInv, SessionTypeOK, Authorize
  <2>2. r.session = s /\ r.user = v
    OBVIOUS
  <2> HIDE DEF R, r
  <2>3. /\ Len(issued') = Len(issued) + 1 /\ issued'[Len(issued) + 1] = r
        /\ \A i \in 1 .. Len(issued) : issued'[i] = issued[i]
        /\ DOMAIN issued' = 1 .. Len(issued) + 1
    BY <2>1
  <2> QED BY <1>1, <2>2, <2>3
<1>4. /\ user_id' = [user_id EXCEPT ![s] = t]
      /\ active_users' = [i \in DOMAIN active_users \cup {t} |->
                            IF i = t THEN v ELSE active_users[i]]
      /\ active_sessions' = [u \in DOMAIN active_sessions \cup {v} |->
                               IF u \in DOMAIN active_sessions
                               THEN active_sessions[u] ELSE s]
      /\ muddled' = muddled \cup Overlapping(s, v)
  BY DEF Authorize
<1> HIDE DEF t
<1>5. /\ user_id'[s] = t
      /\ \A q \in Sessions : q # s => user_id'[q] = user_id[q]
      /\ \A q \in Sessions : user_id[q] \in DOMAIN issued \cup {JohnDoe}
  BY <1>4 DEF RInv, SessionTypeOK
<1>6. /\ \A q \in Sessions : q # s => io'[q] = io[q]
      /\ io'[s].conn = io[s].conn
      /\ io[s].conn \in {"open", "closed"}
      /\ user_id[s] = JohnDoe => io[s].conn = "open"
  <2>1. AfterRead(s) \in IO /\ AfterRead(s).conn = io[s].conn
    BY DEF AfterRead, Received, RInv, IOInv, IO
  <2>2. io' = [io EXCEPT ![s] = addResponses(AfterRead(s), 1)]
    BY DEF Authorize
  <2>3. addResponses(AfterRead(s), 1).conn = io[s].conn
    BY <2>1, AddResponses
  <2>4. io[s] \in IO /\ SessionOK(io[s]) /\ io[s].reads > 0
    BY DEF RInv, IOInv, Received
  <2>5. io[s].conn \in {"open", "closed"}
    BY <2>4 DEF SessionOK, IO
  <2>6. user_id[s] = JohnDoe => StrangerOK(io[s])
    BY DEF RInv, Strangers
  <2>7. user_id[s] = JohnDoe => io[s].conn = "open"
    BY <2>4, <2>5, <2>6 DEF StrangerOK, IO
  <2> QED BY <2>2, <2>3, <2>5, <2>7 DEF RInv, IOInv
<1>7. TokenOfSession'
  BY <1>1, <1>2, <1>3, <1>5 DEF RInv, TokenOfSession
<1>8. Strangers'
  BY <1>2, <1>5, <1>6 DEF RInv, Strangers
<1>9. NamesLoggedIn'
  BY <1>2, <1>4, <1>5 DEF RInv, SessionTypeOK, NamesLoggedIn
<1>10. \A u \in Users : LoggedIn(s, u) => u \in muddled'
  BY <1>4 DEF Overlapping
<1>11. \A i \in DOMAIN active_users' :
         \/ i = t /\ active_users'[i] = v
         \/ /\ i \in DOMAIN active_users /\ i \in DOMAIN issued
            /\ active_users'[i] = active_users[i]
            /\ active_users[i] = issued[i].user
            /\ issued'[i].session = issued[i].session
            /\ issued[i].session \in Sessions
  BY <1>1, <1>2, <1>3, <1>4 DEF RInv, SessionTypeOK
<1>12. \A q \in Sessions, u \in Users :
         q # s => (LoggedIn(q, u)' <=> LoggedIn(q, u))
  BY <1>3, <1>5 DEF LoggedIn
<1>13. \A u \in Users : LoggedIn(s, u)' <=> u = v
  BY <1>2, <1>3, <1>5 DEF LoggedIn
<1>14. LoginsKept'
  <2> SUFFICES ASSUME NEW i \in DOMAIN active_users',
                      active_users'[i] \notin muddled'
               PROVE  user_id'[issued'[i].session] = i
    BY DEF LoginsKept
  <2>1. CASE i = t
    BY <1>3, <1>5, <2>1
  <2>2. CASE i # t
    <3>1. /\ i \in DOMAIN active_users /\ i \in DOMAIN issued
          /\ active_users'[i] = active_users[i]
          /\ active_users[i] = issued[i].user
          /\ issued'[i].session = issued[i].session
          /\ issued[i].session \in Sessions
      BY <1>11, <2>2
    <3>2. user_id[issued[i].session] = i
      BY <1>4, <3>1 DEF RInv, LoginsKept
    <3>3. issued[i].session # s
      BY <1>1, <1>10, <3>1, <3>2 DEF LoggedIn
    <3> QED BY <1>5, <3>1, <3>2, <3>3
  <2> QED BY <2>1, <2>2
<1>15. DOMAIN active_users \cup {t} = DOMAIN active_users'
  BY <1>4
<1>16. ASSUME v \notin muddled'
       PROVE  ReportsFind(v)' /\ OpenIsKnown(v)' /\ TokensEnd(v)'
  <2>1. /\ user_id[s] = JohnDoe
        /\ \A q \in Sessions \ {s} : LoggedIn(q, v) => io[q].conn = "closed"
    BY <1>4, <1>16 DEF Overlapping
  <2>2. ReportsFind(v) /\ OpenIsKnown(v) /\ TokensEnd(v)
    BY <1>4, <1>16, ExactParts DEF RInv
  <2>3. v \notin DOMAIN active_sessions
    <3> SUFFICES ASSUME v \in DOMAIN active_sessions PROVE FALSE
      OBVIOUS
    <3>1. active_sessions[v] \in Sessions
      BY DEF RInv, SessionTypeOK
    <3> QED BY <2>1, <2>2, <3>1 DEF ReportsFind, LoggedIn
  <2>4. v \in DOMAIN active_sessions' /\ active_sessions'[v] = s
    BY <1>4, <2>3
  <2>5. ReportsFind(v)'
    BY <1>6, <1>13, <2>1, <2>4 DEF ReportsFind
  <2>6. OpenIsKnown(v)'
    BY <1>5, <1>6, <1>12, <1>15, <2>1, <2>4 DEF OpenIsKnown
  <2>7. TokensEnd(v)'
    BY <1>3, <1>6, <1>11, <2>1, <2>2 DEF TokensEnd
  <2> QED BY <2>5, <2>6, <2>7
<1>17. ASSUME NEW u \in Users \ muddled', u # v
       PROVE  ReportsFind(u)' /\ OpenIsKnown(u)' /\ TokensEnd(u)'
  <2>1. ~LoggedIn(s, u)
    BY <1>10, <1>17
  <2>2. ReportsFind(u) /\ OpenIsKnown(u) /\ TokensEnd(u)
    BY <1>4, <1>17, ExactParts DEF RInv
  <2>3. /\ u \in DOMAIN active_sessions' <=> u \in DOMAIN active_sessions
        /\ u \in DOMAIN active_sessions =>
             /\ active_sessions'[u] = active_sessions[u]
             /\ active_sessions[u] \in Sessions
    BY <1>4, <1>17 DEF RInv, SessionTypeOK
  <2>4. ReportsFind(u)'
    BY <1>6, <1>12, <2>1, <2>2, <2>3 DEF ReportsFind
  <2>5. OpenIsKnown(u)'
    BY <1>5, <1>6, <1>12, <1>13, <1>15, <1>17, <2>2, <2>3 DEF OpenIsKnown
  <2>6. TokensEnd(u)'
    BY <1>6, <1>11, <1>17, <2>2 DEF TokensEnd
  <2> QED BY <2>4, <2>5, <2>6
<1>18. TokensValid'
  BY <1>2, <1>5, <1>6, <1>15 DEF RInv, TokensValid
<1> QED BY <1>7, <1>8, <1>9, <1>14, <1>16, <1>17, <1>18, ExactParts

(* close takes exactly the entries of its session away, also when it runs  *)
(* a second time or on a session whose user is logged in from another.     *)
LEMMA CloseKeeps ==
  ASSUME RInv, NEW s \in Sessions, NEW x \in IO, close(s, x),
         user_id[s] = JohnDoe => x.reads = 0 /\ x.writes = 0
  PROVE  /\ SessionTypeOK' /\ RegistryExact' /\ TokenOfSession' /\ Strangers'
         /\ NamesLoggedIn' /\ LoginsKept' /\ TokensValid'
<1> DEFINE known == user_id[s] \in DOMAIN active_users
           w == active_users[user_id[s]]
           y == [x EXCEPT !.conn = "closed"]
<1>1. /\ known =>
           /\ active_sessions' = [u \in DOMAIN active_sessions \ {w} |->
                                    active_sessions[u]]
           /\ active_users' = [i \in DOMAIN active_users \ {user_id[s]} |->
                                 active_users[i]]
      /\ ~known => UNCHANGED <<active_users, active_sessions>>
      /\ UNCHANGED <<user_id, accounts, messages, issued, muddled>>
  BY DEF close, erase
<1>2. /\ y \in IO /\ y.conn = "closed" /\ y.reads = x.reads
      /\ y.writes = x.writes
  BY DEF IO
<1>3. io' = [io EXCEPT ![s] = y]
  BY DEF close
<1> HIDE DEF y
<1>4. /\ \A q \in Sessions : q # s => io'[q] = io[q]
      /\ io'[s] = y
      /\ io' \in [Sessions -> IO]
  BY <1>2, <1>3 DEF RInv, IOInv
<1>5. /\ JohnDoe \notin DOMAIN issued
      /\ \A i \in DOMAIN issued : /\ issued[i].session \in Sessions
                                  /\ issued[i].user \in Users
  BY TokensArePositive DEF RInv
<1>6. known => /\ w = issued[user_id[s]].user /\ user_id[s] \in DOMAIN issued
               /\ user_id[s] # JohnDoe
  BY <1>5 DEF RInv, SessionTypeOK
<1> HIDE DEF known, w
<1>7. \A u \in DOMAIN active_sessions' :
        /\ u \in DOMAIN active_sessions /\ active_sessions'[u] = active_sessions[u]
        /\ known => u # w
  BY <1>1
<1>8. \A i \in DOMAIN active_users' :
        /\ i \in DOMAIN active_users /\ active_users'[i] = active_users[i]
        /\ i # user_id[s]
  BY <1>1 DEF known
<1>9. SessionTypeOK'
  <2>1. /\ DOMAIN active_users' \subseteq DOMAIN issued'
        /\ \A i \in DOMAIN active_users' : active_users'[i] = issued'[i].user
    BY <1>1, <1>8 DEF RInv, SessionTypeOK
  <2>2. /\ DOMAIN active_sessions' \subseteq Users
        /\ \A u \in DOMAIN active_sessions' : active_sessions'[u] \in Sessions
    BY <1>7 DEF RInv, SessionTypeOK
  <2>3. /\ user_id' \in [Sessions -> {JohnDoe} \cup DOMAIN issued']
        /\ accounts' \subseteq Users /\ messages' \in 0 .. MaxMessages
        /\ issued' \in Seq([session : Sessions, user : Users])
        /\ muddled' \subseteq Users
    BY <1>1 DEF RInv, SessionTypeOK
  <2> QED BY <1>4, <2>1, <2>2, <2>3 DEF SessionTypeOK
<1>10. TokenOfSession' /\ LoginsKept'
  BY <1>1, <1>8 DEF RInv, TokenOfSession, LoginsKept
<1>11. NamesLoggedIn'
  BY <1>1, <1>7 DEF RInv, NamesLoggedIn
<1>12. Strangers'
  <2> SUFFICES ASSUME NEW q \in Sessions
               PROVE  /\ io'[q].conn \in {"none", "handshake"} =>
                           user_id[q] = JohnDoe
                      /\ user_id[q] = JohnDoe => StrangerOK(io'[q])
    BY <1>1 DEF Strangers
  <2>1. CASE q = s
    BY <1>2, <1>4, <2>1 DEF StrangerOK, IO
  <2>2. CASE q # s
    BY <1>4, <2>2 DEF RInv, Strangers
  <2> QED BY <2>1, <2>2
<1>13. \A q \in Sessions, u \in Users : LoggedIn(q, u)' <=> LoggedIn(q, u)
  BY <1>1 DEF LoggedIn
<1>14. ASSUME NEW u \in Users \ muddled
       PROVE  ReportsFind(u)' /\ OpenIsKnown(u)' /\ TokensEnd(u)'
  <2>1. ReportsFind(u) /\ OpenIsKnown(u) /\ TokensEnd(u)
    BY <1>14, ExactParts DEF RInv
  <2>2. \A v \in DOMAIN active_sessions : active_sessions[v] \in Sessions
    BY DEF RInv, SessionTypeOK
  <2>3. ReportsFind(u)'
    <3> SUFFICES ASSUME u \in DOMAIN active_sessions'
                 PROVE  /\ io'[active_sessions'[u]].conn = "open"
                        /\ LoggedIn(active_sessions[u], u)'
      BY <1>7 DEF ReportsFind
    <3>1. /\ u \in DOMAIN active_sessions /\ active_sessions[u] \in Sessions
          /\ active_sessions'[u] = active_sessions[u]
          /\ io[active_sessions[u]].conn = "open"
          /\ LoggedIn(active_sessions[u], u)
      BY <1>7, <2>1, <2>2 DEF ReportsFind
    <3>2. active_sessions[u] # s
      BY <1>6, <1>7, <2>1, <3>1 DEF OpenIsKnown, LoggedIn, known
    <3> QED BY <1>4, <1>13, <3>1, <3>2
  <2>4. OpenIsKnown(u)'
    <3> SUFFICES ASSUME NEW q \in Sessions, io'[q].conn = "open",
                        LoggedIn(q, u)
                 PROVE  /\ u \in DOMAIN active_sessions'
                        /\ active_sessions'[u] = q
                        /\ user_id[q] \in DOMAIN active_users'
      BY <1>1, <1>13 DEF OpenIsKnown
    <3>1. q # s /\ io[q].conn = "open"
      BY <1>2, <1>4
    <3>2. /\ u \in DOMAIN active_sessions /\ active_sessions[u] = q
          /\ user_id[q] \in DOMAIN active_users
      BY <2>1, <3>1 DEF OpenIsKnown
    <3>3. CASE known
      <4>1. issued[user_id[s]].session = s
        BY <1>6, <3>3 DEF RInv, TokenOfSession
      <4>2. u # w
        <5> SUFFICES ASSUME u = w PROVE FALSE
          OBVIOUS
        <5>1. io[s].conn = "open"
          BY <2>1, <3>3, <4>1 DEF TokensEnd, known, w
        <5>2. LoggedIn(s, u)
          BY <1>6, <3>3 DEF LoggedIn
        <5> QED BY <2>1, <3>1, <3>2, <5>1, <5>2 DEF OpenIsKnown
      <4>3. user_id[q] # user_id[s]
        BY <3>1, <4>1 DEF RInv, TokenOfSession, LoggedIn
      <4> QED BY <1>1, <3>2, <3>3, <4>2, <4>3
    <3>4. CASE ~known
      BY <1>1, <3>2, <3>4
    <3> QED BY <3>3, <3>4
  <2>5. TokensEnd(u)'
    <3> SUFFICES ASSUME NEW i \in DOMAIN active_users', active_users'[i] = u
                 PROVE  io'[issued[i].session].conn = "open"
      BY <1>1 DEF TokensEnd
    <3>1. /\ i \in DOMAIN active_users /\ active_users[i] = u
          /\ i # user_id[s] /\ i \in DOMAIN issued /\ issued[i].user = u
      BY <1>8 DEF RInv, SessionTypeOK
    <3>2. user_id[issued[i].session] = i
      BY <1>14, <3>1 DEF RInv, LoginsKept
    <3>3. io[issued[i].session].conn = "open"
      BY <2>1, <3>1 DEF TokensEnd
    <3> QED BY <1>4, <1>5, <3>1, <3>2, <3>3
  <2> QED BY <2>3, <2>4, <2>5
<1>15. muddled' = muddled
  BY <1>1
<1>16. TokensValid'
  <2> SUFFICES ASSUME NEW q \in Sessions, io'[q].conn = "open",
                      user_id[q] # JohnDoe
               PROVE  user_id[q] \in DOMAIN active_users'
    BY <1>1 DEF TokensValid
  <2>1. q # s /\ io[q].conn = "open"
    BY <1>2, <1>4
  <2>2. user_id[q] \in DOMAIN active_users
    BY <2>1 DEF RInv, TokensValid
  <2>3. known => user_id[q] # user_id[s]
    BY <1>6, <2>1 DEF RInv, TokenOfSession
  <2> QED BY <1>1, <2>2, <2>3
<1> QED BY <1>9, <1>10, <1>11, <1>12, <1>14, <1>15, <1>16, ExactParts

(* A quiet step that keeps the sessions without a login in order preserves *)
(* the whole invariant.                                                    *)
LEMMA QuietInv ==
  ASSUME RInv, Quiet, IOInv', Strangers', UNCHANGED accounts,
         messages' \in 0 .. MaxMessages
  PROVE  RInv'
<1>1. SessionTypeOK'
  BY DEF RInv, Quiet, registry, SessionTypeOK, IOInv
<1> QED BY <1>1, QuietKeeps DEF RInv

(* The same when the step changes the socket of one session only.          *)
LEMMA OneQuietInv ==
  ASSUME RInv, IOInv', NEW s \in Sessions, NEW x \in IO,
         io' = [io EXCEPT ![s] = x],
         x.conn = io[s].conn \/ (/\ io[s].conn \in {"none", "handshake"}
                                 /\ x.conn \in {"handshake", "open"}),
         user_id[s] = JohnDoe => StrangerOK(x),
         UNCHANGED <<registry, accounts, issued, muddled>>,
         messages' \in 0 .. MaxMessages
  PROVE  RInv'
<1>1. io'[s] = x /\ \A q \in Sessions : q # s => io'[q] = io[q]
  BY DEF RInv, IOInv
<1>2. Quiet
  BY <1>1 DEF Quiet
<1>3. Strangers'
  BY <1>1 DEF RInv, Strangers, registry
<1> QED BY <1>2, <1>3, QuietInv

(* A login preserves it.                                                   *)
LEMMA AuthorizeInv ==
  ASSUME RInv, IOInv', NEW s \in Sessions, NEW v \in Users, Received(s),
         Authorize(s, v), accounts' \subseteq Users
  PROVE  RInv'
<1> DEFINE R == [session : Sessions, user : Users]
           r == [session |-> s, user |-> v]
           t == Len(issued) + 1
<1>1. issued \in Seq(R) /\ r \in R /\ issued' = Append(issued, r) /\ r.user = v
  BY DEF RInv, SessionTypeOK, Authorize
<1>2. /\ issued' \in Seq(R)
      /\ DOMAIN issued' = DOMAIN issued \cup {t}
      /\ \A i \in DOMAIN issued : issued'[i] = issued[i]
      /\ issued'[t] = r /\ t \notin DOMAIN issued
  <2> HIDE DEF R, r
  <2>1. /\ Len(issued) \in Nat /\ DOMAIN issued = 1 .. Len(issued)
        /\ issued' \in Seq(R) /\ DOMAIN issued' = 1 .. Len(issued) + 1
        /\ issued'[Len(issued) + 1] = r
        /\ \A i \in 1 .. Len(issued) : issued'[i] = issued[i]
    BY <1>1
  <2> QED BY <2>1
<1>3. /\ user_id' = [user_id EXCEPT ![s] = t]
      /\ active_users' = [i \in DOMAIN active_users \cup {t} |->
                            IF i = t THEN v ELSE active_users[i]]
      /\ active_sessions' = [u \in DOMAIN active_sessions \cup {v} |->
                               IF u \in DOMAIN active_sessions
                               THEN active_sessions[u] ELSE s]
      /\ muddled' = muddled \cup Overlapping(s, v)
      /\ messages' = messages + 1
  BY DEF Authorize
<1> HIDE DEF t, r
<1>4. user_id' \in [Sessions -> {JohnDoe} \cup DOMAIN issued']
  BY <1>2, <1>3 DEF RInv, SessionTypeOK
<1>5. /\ DOMAIN active_users' \subseteq DOMAIN issued'
      /\ \A i \in DOMAIN active_users' : active_users'[i] = issued'[i].user
  BY <1>1, <1>2, <1>3 DEF RInv, SessionTypeOK
<1>6. /\ DOMAIN active_sessions' \subseteq Users
      /\ \A u \in DOMAIN active_sessions' : active_sessions'[u] \in Sessions
  BY <1>3 DEF RInv, SessionTypeOK
<1>7. messages' \in 0 .. MaxMessages /\ muddled' \subseteq Users
  BY <1>3, MessagesAssumption DEF RInv, SessionTypeOK, Received, Overlapping
<1>8. SessionTypeOK'
  BY <1>2, <1>4, <1>5, <1>6, <1>7 DEF SessionTypeOK, IOInv
<1> QED BY <1>8, AuthorizeKeeps DEF RInv

(* A handler that ends in close preserves it.                              *)
LEMMA CloseRInv ==
  ASSUME RInv, IOInv', NEW s \in Sessions, NEW x \in IO, close(s, x),
         user_id[s] = JohnDoe => x.reads = 0 /\ x.writes = 0
  PROVE  RInv'
  BY CloseKeeps DEF RInv

(* The answer to one request leaves a session without a login in order.    *)
LEMMA StrangerAnswered ==
  ASSUME RInv, NEW s \in Sessions, io[s].reads > 0
  PROVE  LET y == addResponses(AfterRead(s), 1) IN
         /\ y \in IO /\ y.conn = io[s].conn
         /\ user_id[s] = JohnDoe => StrangerOK(y)
<1> DEFINE x == AfterRead(s)
           y == addResponses(x, 1)
<1>1. /\ io[s] \in IO
      /\ user_id[s] = JohnDoe => StrangerOK(io[s])
  BY DEF RInv, Strangers, IOInv
<1>2. /\ x \in IO /\ x.conn = io[s].conn /\ x.reads = io[s].reads - 1
      /\ x.writes = io[s].writes /\ x.failing = io[s].failing
  BY DEF AfterRead, RInv, IOInv, IO
<1>3. /\ y \in IO /\ y.conn = x.conn /\ y.reads = x.reads
      /\ x.conn # "closed" => /\ y.writes <= x.writes + 1
                              /\ y.failing = x.failing
  <2> HIDE DEF x
  <2>1. /\ y \in IO /\ y.conn = x.conn /\ y.reads = x.reads
        /\ x.conn # "closed" =>
             /\ y.writes = IF x.pending = 0 /\ 1 > 0 THEN x.writes + 1
                           ELSE x.writes
             /\ y.failing = x.failing
    BY <1>2, AddResponses
  <2>2. x.writes \in Nat
    BY <1>2 DEF IO
  <2> HIDE DEF y
  <2> QED BY <2>1, <2>2
<1> HIDE DEF x, y
<1>4. ASSUME user_id[s] = JohnDoe PROVE StrangerOK(y)
  BY <1>1, <1>2, <1>3, <1>4 DEF StrangerOK, IO, RInv, IOInv, Strangers
<1> QED BY <1>2, <1>3, <1>4 DEF x, y

(* A written response does, too.                                           *)
LEMMA StrangerWritten ==
  ASSUME RInv, NEW s \in Sessions, io[s].writes > 0
  PROVE  LET y == afterWrite(io[s]) IN
         /\ y \in IO /\ y.conn = io[s].conn
         /\ user_id[s] = JohnDoe => StrangerOK(y)
<1> DEFINE x == io[s]
           z == [x EXCEPT !.writes = @ - 1]
           y == [z EXCEPT !.pending = @ - 1]
<1>1. /\ x \in IO /\ SessionOK(x)
      /\ user_id[s] = JohnDoe => StrangerOK(x)
  BY DEF RInv, Strangers, IOInv
<1>2. /\ x.writes = 1 /\ x.pending \in Nat /\ x.pending > 0
      /\ x.conn \in {"open", "closed"} /\ x.reads \in Nat
  BY <1>1 DEF SessionOK, IO
<1>3. afterWrite(x) = IF y.pending # 0 THEN doWrite(y) ELSE doRead(y)
  BY <1>1 DEF afterWrite, IO
<1> HIDE DEF x
<1>4. /\ z \in IO /\ z.conn = x.conn /\ z.writes = 0 /\ z.reads = x.reads
      /\ z.failing = x.failing /\ z.pending = x.pending
  BY <1>1, <1>2 DEF IO
<1> HIDE DEF z
<1>5. /\ y \in IO /\ y.conn = x.conn /\ y.writes = 0 /\ y.reads = x.reads
      /\ y.failing = x.failing
  BY <1>2, <1>4 DEF IO
<1> HIDE DEF y
<1>6. afterWrite(x) \in IO /\ afterWrite(x).conn = x.conn
  BY <1>3, <1>5, DoRead, DoWrite
<1>7. ASSUME user_id[s] = JohnDoe PROVE StrangerOK(afterWrite(x))
  <2>1. x.conn = "open" /\ x.reads = 0 /\ x.failing = 0
    BY <1>1, <1>2, <1>7 DEF StrangerOK
  <2>2. CASE y.pending # 0
    BY <1>3, <1>5, <2>1, <2>2, DoWrite DEF StrangerOK
  <2>3. CASE y.pending = 0
    BY <1>3, <1>5, <2>1, <2>3, DoRead DEF StrangerOK
  <2> QED BY <2>2, <2>3
<1> QED BY <1>6, <1>7 DEF x

(* A lot request reports to sessions that logged in and to no other.       *)
LEMMA TradingRequestRInv ==
  ASSUME RInv, IOInv', NEW s \in Sessions, NEW told \in Matches,
         TradingRequest(s, told)
  PROVE  RInv'
<1>1. user_id[s] # JohnDoe
  BY TokensArePositive DEF TradingRequest, RInv, SessionTypeOK
<1>2. /\ Len(told) \in Nat
      /\ \A q \in Sessions : Reports(q, told) \in Nat
  BY ReportsCount
<1>3. \A q \in Sessions : user_id[q] = JohnDoe => Reports(q, told) = 0
  <2> SUFFICES ASSUME NEW q \in Sessions, user_id[q] = JohnDoe
               PROVE  Reports(q, told) = 0
    OBVIOUS
  <2>1. {i \in DOMAIN told : /\ told[i] \in DOMAIN active_sessions
                             /\ active_sessions[told[i]] = q
                             /\ ~Expired(q)} = {}
    BY DEF RInv, NamesLoggedIn
  <2> QED BY <2>1, FS_EmptySet DEF Reports
<1> DEFINE mine == addResponses(AfterRead(s), Reports(s, told))
           all  == addResponses(mine, 1 + Len(told))
<1>4. io' = [q \in Sessions |->
                  IF q = s THEN all ELSE addResponses(io[q], Reports(q, told))]
  BY DEF TradingRequest
<1>5. AfterRead(s) \in IO /\ AfterRead(s).conn = io[s].conn
  <2>1. io[s] \in IO /\ io[s].reads > 0
    BY DEF TradingRequest, Received, RInv, IOInv
  <2> QED BY <2>1 DEF AfterRead, IO
<1>6. mine \in IO /\ mine.conn = io[s].conn
  BY <1>2, <1>5, AddResponses
<1> HIDE DEF mine
<1>7. 1 + Len(told) \in Nat
  BY <1>2
<1>8. all.conn = io[s].conn
  BY <1>6, <1>7, AddResponses
<1> HIDE DEF all
<1>9. \A q \in Sessions : q # s =>
        /\ io'[q].conn = io[q].conn
        /\ user_id[q] = JohnDoe => io'[q] = io[q]
  BY <1>2, <1>3, <1>4, AddResponses DEF RInv, IOInv
<1>10. Quiet
  BY <1>4, <1>8, <1>9 DEF Quiet, TradingRequest
<1>11. Strangers'
  BY <1>1, <1>4, <1>8, <1>9 DEF RInv, Strangers, TradingRequest, registry
<1>12. messages' \in 0 .. MaxMessages /\ UNCHANGED accounts
  BY MessagesAssumption DEF TradingRequest, Received, RInv, SessionTypeOK
<1> QED BY <1>10, <1>11, <1>12, QuietInv

(* Every step of the specification preserves the invariant.                *)
LEMMA RegistryNext == RInv /\ [SessionNext]_sessionVars => RInv'
<1> SUFFICES ASSUME RInv, [SessionNext]_sessionVars PROVE RInv'
  OBVIOUS
<1>1. IOInv'
  BY SocketsNext DEF RInv
<1>2. CASE UNCHANGED sessionVars
  <2>1. UNCHANGED <<io, registry, accounts, messages, issued, muddled>>
    BY <1>2 DEF sessionVars
  <2>2. Quiet /\ Strangers' /\ messages' \in 0 .. MaxMessages
    BY <2>1 DEF Quiet, Strangers, registry, RInv, SessionTypeOK
  <2> QED BY <1>1, <2>1, <2>2, QuietInv
<1>3. \A q \in Sessions : io[q] \in IO /\ SessionOK(io[q])
  BY DEF RInv, IOInv
<1>4. \A q \in Sessions : user_id[q] = JohnDoe => StrangerOK(io[q])
  BY DEF RInv, Strangers
<1>5. messages \in 0 .. MaxMessages
  BY DEF RInv, SessionTypeOK
<1>6. ASSUME NEW s \in Sessions, Accept(s) PROVE RInv'
  <2> DEFINE x == [io[s] EXCEPT !.conn = "handshake"]
  <2>1. x \in IO /\ x.conn = "handshake" /\ StrangerOK(x)
    BY <1>3, <1>6 DEF Accept, StrangerOK, SessionOK, IO
  <2>2. io' = [io EXCEPT ![s] = x]
    BY <1>6 DEF Accept
  <2> HIDE DEF x
  <2> QED BY <1>1, <1>5, <1>6, <2>1, <2>2, OneQuietInv DEF Accept
<1>7. ASSUME NEW s \in Sessions, HandshakeDone(s) PROVE RInv'
  <2> DEFINE x == [io[s] EXCEPT !.conn = "open"]
  <2>1. /\ x \in IO /\ x.conn = "open" /\ x.reads = 0 /\ x.writes = 0
        /\ x.failing = 0
    BY <1>3, <1>7 DEF HandshakeDone, SessionOK, IO
  <2>2. io' = [io EXCEPT ![s] = doRead(x)]
    BY <1>7 DEF HandshakeDone, RInv, IOInv
  <2> HIDE DEF x
  <2>3. /\ doRead(x) \in IO /\ StrangerOK(doRead(x))
        /\ doRead(x).conn = "open"
    BY <2>1, DoRead DEF StrangerOK
  <2> QED BY <1>1, <1>5, <1>7, <2>2, <2>3, OneQuietInv DEF HandshakeDone
<1>8. ASSUME NEW s \in Sessions, HandshakeFails(s) PROVE RInv'
  BY <1>1, <1>3, <1>8, CloseRInv DEF HandshakeFails, SessionOK
<1>9. ASSUME NEW s \in Sessions, OtherRequest(s) PROVE RInv'
  <2> DEFINE y == addResponses(AfterRead(s), 1)
  <2>1. /\ y \in IO /\ y.conn = io[s].conn
        /\ user_id[s] = JohnDoe => StrangerOK(y)
    BY <1>9, StrangerAnswered DEF OtherRequest, Received
  <2>2. io' = [io EXCEPT ![s] = y] /\ messages' \in 0 .. MaxMessages
    BY <1>5, <1>9, MessagesAssumption DEF OtherRequest, Received
  <2> HIDE DEF y
  <2> QED BY <1>1, <1>9, <2>1, <2>2, OneQuietInv DEF OtherRequest
<1>10. ASSUME NEW s \in Sessions, NEW u \in Users,
              AuthorizationRequest(s, u) \/ RegisterRequest(s, u)
       PROVE  RInv'
  BY <1>1, <1>10, AuthorizeInv
     DEF AuthorizationRequest, RegisterRequest, RInv, SessionTypeOK
<1>11. ASSUME NEW s \in Sessions, NEW told \in Matches,
              TradingRequest(s, told)
       PROVE  RInv'
  BY <1>1, <1>11, TradingRequestRInv
<1>12. ASSUME NEW s \in Sessions, ReadFails(s) PROVE RInv'
  <2> DEFINE x == [io[s] EXCEPT !.reads = @ - 1]
  <2>1. /\ x \in IO /\ x.reads = io[s].reads - 1 /\ x.writes = io[s].writes
    BY <1>3, <1>12 DEF ReadFails, IO
  <2>2. user_id[s] = JohnDoe => x.reads = 0 /\ x.writes = 0
    BY <1>3, <1>4, <1>12, <2>1 DEF ReadFails, StrangerOK, IO
  <2>3. close(s, x)
    BY <1>12 DEF ReadFails
  <2> HIDE DEF x
  <2> QED BY <1>1, <2>1, <2>2, <2>3, CloseRInv
<1>13. ASSUME NEW s \in Sessions, WriteDone(s) PROVE RInv'
  <2> DEFINE y == afterWrite(io[s])
  <2>1. /\ y \in IO /\ y.conn = io[s].conn
        /\ user_id[s] = JohnDoe => StrangerOK(y)
    BY <1>13, StrangerWritten DEF WriteDone
  <2>2. io' = [io EXCEPT ![s] = y]
    BY <1>13 DEF WriteDone, RInv, IOInv
  <2> HIDE DEF y
  <2> QED BY <1>1, <1>5, <1>13, <2>1, <2>2, OneQuietInv DEF WriteDone
<1>14. ASSUME NEW s \in Sessions, WriteFails(s) PROVE RInv'
  <2> DEFINE x == [io[s] EXCEPT !.writes = @ - 1]
  <2>1. /\ x \in IO /\ x.writes = io[s].writes - 1 /\ x.reads = io[s].reads
    BY <1>3, <1>14 DEF WriteFails, IO
  <2>2. user_id[s] = JohnDoe => x.reads = 0 /\ x.writes = 0
    BY <1>3, <1>4, <1>14, <2>1 DEF WriteFails, StrangerOK, IO
  <2>3. close(s, x)
    BY <1>14 DEF WriteFails
  <2> HIDE DEF x
  <2> QED BY <1>1, <2>1, <2>2, <2>3, CloseRInv
<1>15. ASSUME NEW s \in Sessions, OperationFails(s) PROVE RInv'
  <2> DEFINE x == [io[s] EXCEPT !.failing = @ - 1]
  <2>1. /\ x \in IO /\ x.writes = io[s].writes /\ x.reads = io[s].reads
    BY <1>3, <1>15 DEF OperationFails, IO
  <2>2. user_id[s] = JohnDoe => x.reads = 0 /\ x.writes = 0
    BY <1>3, <1>4, <1>15, <2>1 DEF OperationFails, StrangerOK, IO
  <2>3. close(s, x)
    BY <1>15 DEF OperationFails
  <2> HIDE DEF x
  <2> QED BY <1>1, <2>1, <2>2, <2>3, CloseRInv
<1> QED BY <1>2, <1>6, <1>7, <1>8, <1>9, <1>10, <1>11, <1>12, <1>13, <1>14, <1>15
        DEF SessionNext

(* The server starts with empty registries and no session.                 *)
LEMMA RegistryInit == SessionInit => RInv
<1> SUFFICES ASSUME SessionInit PROVE RInv
  OBVIOUS
<1>1. IOInv
  BY DEF SessionInit, IOInv, SessionOK, IO
<1>2. /\ DOMAIN issued = {} /\ DOMAIN active_users = {}
      /\ DOMAIN active_sessions = {}
      /\ issued \in Seq([session : Sessions, user : Users])
  BY DEF SessionInit
<1>3. SessionTypeOK
  BY <1>1, <1>2, MessagesAssumption DEF SessionInit, IOInv, SessionTypeOK
<1>4. /\ RegistryExact /\ TokenOfSession /\ NamesLoggedIn /\ LoginsKept
      /\ TokensValid
  BY <1>2 DEF SessionInit, RegistryExact, TokenOfSession, NamesLoggedIn,
              LoginsKept, LoggedIn, TokensValid
<1>5. Strangers
  BY DEF SessionInit, Strangers, StrangerOK
<1> QED BY <1>1, <1>3, <1>4, <1>5 DEF RInv

(* The invariant of the registries holds in every reachable state.         *)
LEMMA RegistryInvariant == SessionSpec => []RInv
  BY RegistryInit, RegistryNext, PTL DEF SessionSpec

(* Every variable of the server keeps its type; a token in active_users_   *)
(* always names the user it was issued for.                                *)
THEOREM SessionTypes == SessionSpec => []SessionTypeOK
<1>1. RInv => SessionTypeOK
  BY DEF RInv
<1> QED BY <1>1, RegistryInvariant, PTL

(* Whatever order connections, logins, failures and late handlers come in, *)
(* a user with one login at a time is in the registries exactly while the  *)
(* session is open.                                                        *)
THEOREM RegistriesAreExact == SessionSpec => []RegistryExact
<1>1. RInv => RegistryExact
  BY DEF RInv
<1> QED BY <1>1, RegistryInvariant, PTL

(* The login of an open session survives every close of other sessions of  *)
(* its user and every late handler, however the user's logins overlap.     *)
THEOREM LoginsAreKept == SessionSpec => []LoginsSurvive
<1>1. RInv => LoginsSurvive
  BY DEF RInv, LoginsSurvive, TokensValid, TokenOfSession, LoggedIn, SessionTypeOK
<1> QED BY <1>1, RegistryInvariant, PTL
=============================================================================
