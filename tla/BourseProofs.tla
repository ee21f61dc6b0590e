---------------------------- MODULE BourseProofs ----------------------------
(***************************************************************************)
(* Proofs about the composed server, for every number of sessions, users,  *)
(* lots and messages: the sessions leave the trading core as it is, the    *)
(* trading core leaves the sessions as they are, a client knows each lot   *)
(* of its own before it is told of a deal on it, and is told of each deal  *)
(* once.                                                                   *)
(***************************************************************************)
EXTENDS Bourse, AccountsProofs, SessionProofs

-----------------------------------------------------------------------------
(* The trading core in the server. *)

(* Every step of the server is a step of the trading core, or leaves it    *)
(* alone.                                                                  *)
LEMMA ServerStepTrades == [BNext]_bvars => [Next]_vars
<1> SUFFICES ASSUME [BNext]_bvars PROVE [Next]_vars
  OBVIOUS
<1>1. ASSUME NEW s \in Sessions, SessionStep(s) PROVE UNCHANGED vars
  BY <1>1 DEF SessionStep
<1>2. ASSUME NEW s \in Sessions, NEW u \in Users, Login(s, u)
      PROVE  UNCHANGED vars
  BY <1>2 DEF Login
<1>3. ASSUME NEW s \in Sessions, NEW u \in Users, NEW op \in Op,
             NEW n \in Counts, NEW p \in Prices, LotRequest(s, u, op, n, p)
      PROVE  Next
  BY <1>3 DEF LotRequest, Next
<1>4. ASSUME NEW s \in Sessions, NEW u \in Users, NEW id \in 1 .. MaxRequests,
             CancelRequest(s, u, id)
      PROVE  Next
  BY <1>4 DEF CancelRequest, Next
<1>5. CASE Query \/ Return
  BY <1>5 DEF Query, Return, Next, Handler
<1>6. ASSUME NEW r \in snap, Match1(r) PROVE Next
  BY <1>6 DEF Match1, Next, Handler
<1>7. CASE Crash
  BY <1>7 DEF Crash, Next, Handler
<1>8. CASE Reboot
  BY <1>8 DEF Reboot, Next
<1>9. CASE UNCHANGED bvars
  BY <1>9 DEF bvars
<1> QED BY <1>1, <1>2, <1>3, <1>4, <1>5, <1>6, <1>7, <1>8, <1>9 DEF BNext

(* The server with its sessions, logins, disconnects and crashes runs the  *)
(* trading core of execRequest as OrderBook specifies it: no session can   *)
(* bring the tables into a state that the handlers alone do not reach, and *)
(* what is proved of OrderBook holds of the whole server.                  *)
THEOREM ServerTrades == BSpec => Spec
<1>1. BInit => Init
  BY DEF BInit
<1> QED BY <1>1, ServerStepTrades, PTL DEF BSpec, Spec

-----------------------------------------------------------------------------
(* The invariant. *)

(* A session that reports to u are sent to was logged in as u last, or     *)
(* logged in as several users, who are muddled.                            *)
RegisteredAs ==
  \A u \in DOMAIN active_sessions :
    LET q == active_sessions[u] IN
    /\ q \in Sessions
    /\ user_id[q] # JohnDoe
    /\ issued[user_id[q]].user = u \/ issued[user_id[q]].user \in muddled

LogsOK ==
  /\ mail \in [Sessions -> Seq(Response)]
  /\ origin \in Seq(Sessions)
  /\ Len(origin) = Len(placed)
  /\ \A s \in Sessions : \A i \in DOMAIN mail[s] :
       mail[s][i].type = "report" => mail[s][i].lot \in DOMAIN placed

(* The session whose lot is being executed, and what it will be told.      *)
(* While its handler runs, no other can close it.                          *)
ServingOK ==
  /\ pc = "idle" => serving = NoSession
  /\ pc # "idle" =>
       /\ serving \in Sessions
       /\ io[serving].reads > 0
       /\ LoggedIn(serving, lot.user)
       /\ lot.user \notin muddled => io[serving].conn = "open"
       /\ origin[lot.id] = serving
       /\ resps # <<>>
       /\ resps[1] = SuccessReqResponse(lot.id, FALSE)
       /\ \A i \in DOMAIN resps :
            resps[i].type = "report" => resps[i].lot \in DOMAIN placed

(* A session that ended, and that nothing holds any more. *)
Gone(s) == io[s].conn = "closed" /\ Expired(s)

Acked(id) ==
  \E j \in DOMAIN mail[origin[id]] :
    mail[origin[id]][j] = SuccessReqResponse(id, FALSE)

(* A lot is acknowledged to the session it came from, unless its handler   *)
(* still runs or was ended, with the session, by a crash.                  *)
AckQueued ==
  \A id \in DOMAIN placed :
    \/ pc # "idle" /\ id = lot.id
    \/ Gone(origin[id])
    \/ Acked(id)

CInv ==
  /\ RegisteredAs
  /\ LogsOK
  /\ ServingOK
  /\ AckQueued
  /\ AckBeforeReport

(* The invariant of the server: that of the trading core, that of the      *)
(* sessions, and what relates the two.                                     *)
BInv == IInv /\ AInv /\ RInv /\ CInv

-----------------------------------------------------------------------------
(* The sessions in the server: what is proved of them in SessionProofs     *)
(* holds although handlers are interrupted by pushed reports and crashes.  *)

(* A session in use is not closed, or something is outstanding on it.      *)
LEMMA InUse ==
  ASSUME RInv, NEW s \in Sessions
  PROVE  /\ io[s] \in IO /\ SessionOK(io[s])
         /\ io[s].reads > 0 => ~Expired(s) /\ io[s].conn \in {"open", "closed"}
         /\ io[s].writes > 0 => ~Expired(s)
         /\ io[s].failing > 0 => ~Expired(s)
         /\ io[s].conn = "open" => ~Expired(s)
  BY DEF RInv, IOInv, SessionOK, IO, Expired

(* The handlers that do not trade are steps of Session.                    *)
LEMMA SessionStepRegistry ==
  ASSUME RInv, NEW s \in Sessions, SessionStep(s)
  PROVE  RInv'
<1>1. SessionNext
  BY DEF SessionStep, SessionNext
<1> QED BY <1>1, RegistryNext

(* So are the logins.                                                      *)
LEMMA LoginRegistry ==
  ASSUME RInv, NEW s \in Sessions, NEW u \in Users, Login(s, u)
  PROVE  RInv'
<1>1. SessionNext
  BY DEF Login, SessionNext
<1> QED BY <1>1, RegistryNext

(* A step that leaves the sessions alone, but for the count of requests.   *)
LEMMA UntouchedRegistry ==
  ASSUME RInv, UNCHANGED <<io, loginVars>>, messages' \in 0 .. MaxMessages
  PROVE  RInv'
<1>1. UNCHANGED <<registry, accounts, issued, muddled>>
  BY DEF loginVars
<1>2. IOInv'
  BY DEF RInv, IOInv
<1>3. Quiet /\ Strangers'
  BY <1>1 DEF Quiet, RInv, Strangers, registry
<1> QED BY <1>1, <1>2, <1>3, QuietInv

(* A request that is read is counted.                                      *)
LEMMA RequestCounted ==
  ASSUME RInv, NEW s, NEW u, RequestOf(s, u)
  PROVE  messages' \in 0 .. MaxMessages
  BY MessagesAssumption DEF RequestOf, Received, RInv, SessionTypeOK

(* Reports are pushed to sessions that logged in and are still held.       *)
LEMMA PushRegistry ==
  ASSUME RInv, RegisteredAs, NEW r \in snap, Match1(r)
  PROVE  RInv'
<1>1. UNCHANGED <<registry, accounts, issued, muddled, messages>>
  BY DEF Match1, loginVars
<1>2. PICK R : R = Reachable(r.user)
  OBVIOUS
<1>3. io' = [q \in Sessions |-> IF q \in R THEN addResponses(io[q], 1)
                                ELSE io[q]]
  BY <1>2 DEF Match1
<1>4. \A q \in R : q \in Sessions /\ user_id[q] # JohnDoe /\ ~Expired(q)
  BY <1>2 DEF Reachable, RegisteredAs
<1>5. ASSUME NEW q \in Sessions
      PROVE  /\ io'[q] \in IO /\ SessionOK(io'[q]) /\ io'[q].conn = io[q].conn
             /\ user_id[q] = JohnDoe => io'[q] = io[q]
  <2>1. io[q] \in IO /\ SessionOK(io[q])
    BY InUse
  <2>2. CASE q \in R
    <3>1. io[q].reads + io[q].writes + io[q].failing # 0
      BY <1>4, <2>2 DEF Expired
    <3>2. 1 \in Nat
      OBVIOUS
    <3>3. /\ addResponses(io[q], 1) \in IO
          /\ SessionOK(addResponses(io[q], 1))
      BY <2>1, <3>1, <3>2, AddResponsesOK
    <3>4. addResponses(io[q], 1).conn = io[q].conn
      BY <2>1, <3>2, AddResponses
    <3> QED BY <1>3, <1>4, <2>2, <3>3, <3>4
  <2>3. CASE q \notin R
    BY <1>3, <2>1, <2>3
  <2> QED BY <2>2, <2>3
<1>6. IOInv'
  <2>1. io' \in [Sessions -> IO]
    BY <1>3, <1>5
  <2> QED BY <1>5, <2>1 DEF IOInv
<1>7. Quiet
  BY <1>1, <1>5 DEF Quiet
<1>8. Strangers'
  BY <1>1, <1>5 DEF RInv, Strangers, registry
<1>9. messages' \in 0 .. MaxMessages
  BY <1>1 DEF RInv, SessionTypeOK
<1> QED BY <1>1, <1>6, <1>7, <1>8, <1>9, QuietInv

(* An answer to a request neither opens nor closes its session.            *)
LEMMA AnswerConn ==
  ASSUME RInv, NEW s \in Sessions, io[s].reads > 0, NEW n \in Nat
  PROVE  addResponses(AfterRead(s), n).conn = io[s].conn
<1>1. AfterRead(s) \in IO
  BY AfterReadQueue DEF RInv
<1>2. AfterRead(s).conn = io[s].conn
  BY InUse DEF AfterRead, IO
<1> QED BY <1>1, <1>2, AddResponses

(* The answers of a lot request are queued on a session that logged in.    *)
LEMMA ReturnRegistry ==
  ASSUME RInv, ServingOK, resps \in Seq(Response), Return
  PROVE  RInv'
<1>1. /\ pc # "idle"
      /\ UNCHANGED <<registry, accounts, issued, muddled, messages>>
  BY DEF Return, ReturnResponses, loginVars
<1>2. PICK s \in Sessions : s = serving
  BY <1>1 DEF ServingOK
<1>3. io[s].reads > 0 /\ user_id[s] # JohnDoe /\ resps # <<>>
  BY <1>1, <1>2 DEF ServingOK, LoggedIn
<1>4. Len(resps) \in Nat /\ Len(resps) > 0
  BY <1>3
<1>5. AfterRead(s) \in IO /\ QueueOK(AfterRead(s))
  BY <1>3, AfterReadQueue DEF RInv
<1>7. PICK x : x = addResponses(AfterRead(s), Len(resps))
  OBVIOUS
<1>8. x \in IO /\ SessionOK(x) /\ x.conn = io[s].conn
  BY <1>3, <1>4, <1>5, <1>7, AnsweredOK, AnswerConn
<1>9. io' = [io EXCEPT ![s] = x]
  BY <1>2, <1>7 DEF Return
<1>10. IOInv'
  BY <1>8, <1>9, OneSessionInv DEF RInv
<1>11. messages' \in 0 .. MaxMessages
  BY <1>1 DEF RInv, SessionTypeOK
<1> QED BY <1>1, <1>3, <1>8, <1>9, <1>10, <1>11, OneQuietInv

(* A cancellation is, for the sessions, a request with one answer.         *)
LEMMA CancelRegistry ==
  ASSUME RInv, NEW s \in Sessions, NEW u, NEW id, CancelRequest(s, u, id),
         server' = "up"
  PROVE  RInv'
<1>1. OtherRequest(s)
  BY DEF CancelRequest, RequestOf, OtherRequest, loginVars
<1>2. SessionNext
  BY <1>1 DEF SessionNext
<1> QED BY <1>2, RegistryNext

(* The end of the process leaves empty registries and dead sessions.       *)
LEMMA LostRegistry ==
  ASSUME RInv, SessionsLost, messages' \in 0 .. MaxMessages
  PROVE  RInv'
<1> DEFINE dead == [conn |-> "closed", reads |-> 0, writes |-> 0,
                    failing |-> 0, pending |-> 0]
<1>1. /\ io' = [s \in Sessions |-> IF io[s].conn = "none" THEN io[s] ELSE dead]
      /\ user_id' = [s \in Sessions |-> JohnDoe]
      /\ active_users' = <<>> /\ active_sessions' = <<>>
      /\ UNCHANGED <<accounts, issued, muddled>>
  BY DEF SessionsLost
<1>2. dead \in IO /\ SessionOK(dead) /\ StrangerOK(dead) /\ dead.conn = "closed"
  BY DEF IO, SessionOK, StrangerOK
<1> HIDE DEF dead
<1>3. /\ io' \in [Sessions -> IO]
      /\ \A s \in Sessions : SessionOK(io'[s])
  BY <1>1, <1>2 DEF RInv, IOInv
<1>4. IOInv'
  BY <1>3 DEF IOInv
<1>5. DOMAIN active_users' = {} /\ DOMAIN active_sessions' = {}
  BY <1>1
<1>6. SessionTypeOK'
  BY <1>1, <1>3, <1>5 DEF RInv, SessionTypeOK
<1>7. Strangers'
  <2>1. \A s \in Sessions : io[s].conn = "none" => StrangerOK(io[s])
    BY DEF RInv, Strangers
  <2> QED BY <1>1, <1>2, <2>1 DEF Strangers
<1>8. TokenOfSession' /\ NamesLoggedIn' /\ LoginsKept' /\ TokensValid'
  BY <1>1, <1>5 DEF TokenOfSession, NamesLoggedIn, LoginsKept, TokensValid
<1>9. \A q \in Sessions, u \in Users : ~LoggedIn(q, u)'
  BY <1>1 DEF LoggedIn
<1>10. RegistryExact'
  BY <1>5, <1>9 DEF RegistryExact
<1> QED BY <1>4, <1>6, <1>7, <1>8, <1>10 DEF RInv

-----------------------------------------------------------------------------
(* Sessions that are gone, and the users that sessions are known by. *)

(* A step that moves one session, which is not gone. *)
Moves(s) == ~Gone(s) /\ \A q \in Sessions \ {s} : io'[q] = io[q]

(* A session that is gone stays as it is.                                  *)
LEMMA MovesKeeps ==
  ASSUME NEW s \in Sessions, Moves(s)
  PROVE  \A q \in Sessions : Gone(q) => Gone(q)'
  BY DEF Moves, Gone, Expired

(* The handlers that do not trade move one session.                        *)
LEMMA SessionMoves ==
  ASSUME RInv, NEW s \in Sessions, SessionStep(s)
  PROVE  Moves(s)
<1>1. /\ io[s].reads > 0 => ~Expired(s)
      /\ io[s].writes > 0 => ~Expired(s)
      /\ io[s].failing > 0 => ~Expired(s)
  BY InUse
<1>2. \/ io[s].conn \in {"none", "handshake"}
      \/ io[s].reads > 0 \/ io[s].writes > 0 \/ io[s].failing > 0
  BY DEF SessionStep, Accept, HandshakeDone, HandshakeFails, OtherRequest,
         ReadFails, WriteDone, WriteFails, OperationFails, Received
<1>3. \E y : io' = [io EXCEPT ![s] = y]
  BY DEF SessionStep, Accept, HandshakeDone, HandshakeFails, OtherRequest,
         ReadFails, WriteDone, WriteFails, OperationFails, close
<1>4. io \in [Sessions -> IO]
  BY DEF RInv, IOInv
<1> QED BY <1>1, <1>2, <1>3, <1>4 DEF Moves, Gone

(* The registries lose entries at most. *)
Shrinks ==
  /\ UNCHANGED <<user_id, issued, muddled>>
  /\ DOMAIN active_sessions' \subseteq DOMAIN active_sessions
  /\ \A u \in DOMAIN active_sessions' : active_sessions'[u] = active_sessions[u]

(* close clears the entries of its session, which leaves the others right. *)
LEMMA SessionShrinks ==
  ASSUME RegisteredAs, NEW s \in Sessions, SessionStep(s)
  PROVE  RegisteredAs' /\ muddled' = muddled
<1>1. ASSUME NEW x, close(s, x) PROVE Shrinks
  <2>1. UNCHANGED <<issued, muddled, user_id>>
    BY <1>1 DEF close, erase
  <2>2. CASE user_id[s] \in DOMAIN active_users
    BY <1>1, <2>1, <2>2 DEF close, erase, Shrinks
  <2>3. CASE user_id[s] \notin DOMAIN active_users
    BY <1>1, <2>1, <2>3 DEF close, erase, Shrinks
  <2> QED BY <2>2, <2>3
<1>2. CASE UNCHANGED <<user_id, active_users, active_sessions, issued, muddled>>
  <2>1. Shrinks
    BY <1>2 DEF Shrinks
  <2> QED BY <2>1 DEF RegisteredAs, Shrinks
<1>3. CASE Shrinks
  BY <1>3 DEF RegisteredAs, Shrinks
<1> QED BY <1>1, <1>2, <1>3
        DEF SessionStep, Accept, HandshakeDone, HandshakeFails,
            OtherRequest, ReadFails, WriteDone, WriteFails,
            OperationFails, registry

(* A login issues a token; a session that is registered for another user   *)
(* is muddled by it.                                                       *)
LEMMA LoginKeeps ==
  ASSUME RInv, RegisteredAs, NEW s \in Sessions, NEW u \in Users,
         Authorize(s, u)
  PROVE  RegisteredAs' /\ muddled \subseteq muddled'
<1> DEFINE t == Len(issued) + 1
           login == [session |-> s, user |-> u]
<1>1. /\ issued \in Seq([session : Sessions, user : Users])
      /\ login \in [session : Sessions, user : Users] /\ login.user = u
  BY DEF RInv, SessionTypeOK
<1> HIDE DEF login
<1>2. /\ issued' = Append(issued, login)
      /\ active_users' = [i \in DOMAIN active_users \cup {t} |->
                            IF i = t THEN u ELSE active_users[i]]
      /\ active_sessions' = [v \in DOMAIN active_sessions \cup {u} |->
                               IF v \in DOMAIN active_sessions
                               THEN active_sessions[v] ELSE s]
      /\ user_id' = [user_id EXCEPT ![s] = t]
      /\ muddled' = muddled \cup Overlapping(s, u)
  BY DEF Authorize, login
<1>3. /\ issued' \in Seq([session : Sessions, user : Users])
      /\ DOMAIN issued' = DOMAIN issued \cup {t}
      /\ t \notin DOMAIN issued /\ t \in Nat \ {0}
      /\ issued'[t] = login
      /\ \A i \in DOMAIN issued : issued'[i] = issued[i]
  BY <1>1, <1>2
<1> HIDE DEF t
<1>4. /\ user_id' \in [Sessions -> {JohnDoe} \cup DOMAIN issued']
      /\ user_id'[s] = t
      /\ \A q \in Sessions \ {s} : user_id'[q] = user_id[q]
  BY <1>2, <1>3 DEF RInv, SessionTypeOK
<1>6. ASSUME NEW v \in DOMAIN active_sessions', NEW q, q = active_sessions'[v]
      PROVE  /\ q \in Sessions
             /\ user_id'[q] # JohnDoe
             /\ \/ issued'[user_id'[q]].user = v
                \/ issued'[user_id'[q]].user \in muddled'
  <2>1. CASE q = s /\ v \in DOMAIN active_sessions
    <3>1. user_id[s] # JohnDoe
      BY <1>2, <1>6, <2>1 DEF RegisteredAs
    <3>2. u \in Overlapping(s, u)
      BY <3>1 DEF Overlapping
    <3> QED BY <1>1, <1>2, <1>3, <1>4, <2>1, <3>2 DEF JohnDoe
  <2>2. CASE q # s
    <3>1. v \in DOMAIN active_sessions /\ q = active_sessions[v]
      BY <1>2, <1>6, <2>2
    <3>2. /\ q \in Sessions /\ user_id[q] # JohnDoe
          /\ \/ issued[user_id[q]].user = v
             \/ issued[user_id[q]].user \in muddled
      BY <3>1 DEF RegisteredAs
    <3>3. user_id'[q] = user_id[q] /\ user_id[q] \in DOMAIN issued
      BY <1>4, <2>2, <3>2 DEF RInv, SessionTypeOK
    <3> QED BY <1>2, <1>3, <3>2, <3>3
  <2>3. CASE v \notin DOMAIN active_sessions
    <3>1. v = u /\ q = s
      BY <1>2, <1>6, <2>3
    <3> QED BY <1>1, <1>3, <1>4, <3>1 DEF JohnDoe
  <2> QED BY <2>1, <2>2, <2>3
<1>7. RegisteredAs'
  BY <1>6 DEF RegisteredAs
<1> QED BY <1>2, <1>7

-----------------------------------------------------------------------------
(* What is queued. *)

(* Nothing that was queued is taken back. *)
MailGrows ==
  \A s \in Sessions : \A i \in DOMAIN mail[s] :
    i \in DOMAIN mail'[s] /\ mail'[s][i] = mail[s][i]

(* The lots keep their origin and owner. *)
LotsKept ==
  \A id \in DOMAIN placed :
    /\ id \in DOMAIN placed'
    /\ placed'[id].user = placed[id].user
    /\ origin'[id] = origin[id]

(* What AckBeforeReport says of message i of session s. *)
AckedBefore(s, i) ==
  mail[s][i].type = "report" /\ origin[mail[s][i].lot] = s
    /\ placed[mail[s][i].lot].user \notin muddled =>
       \E j \in 1 .. i - 1 :
         mail[s][j] = SuccessReqResponse(mail[s][i].lot, FALSE)

(* A message that was preceded by an acknowledgement still is.             *)
LEMMA OldMail ==
  ASSUME LogsOK, AckBeforeReport, MailGrows, LotsKept, muddled \subseteq muddled',
         NEW s \in Sessions, NEW i \in DOMAIN mail[s]
  PROVE  /\ AckedBefore(s, i)'
         /\ mail'[s][i].type = "report" => mail'[s][i].lot \in DOMAIN placed'
<1>1. PICK m : m = mail[s][i] /\ m = mail'[s][i]
  BY DEF MailGrows
<1>2. m.type = "report" =>
        m.lot \in DOMAIN placed /\ m.lot \in DOMAIN placed'
        /\ placed'[m.lot].user = placed[m.lot].user /\ origin'[m.lot] = origin[m.lot]
  BY <1>1 DEF LogsOK, LotsKept
<1>3. ASSUME m.type = "report", origin'[m.lot] = s,
             placed'[m.lot].user \notin muddled'
      PROVE  \E j \in 1 .. i - 1 : mail'[s][j] = SuccessReqResponse(m.lot, FALSE)
  <2>1. PICK j \in 1 .. i - 1 : mail[s][j] = SuccessReqResponse(m.lot, FALSE)
    BY <1>1, <1>2, <1>3 DEF AckBeforeReport
  <2>2. mail[s] \in Seq(Response)
    BY DEF LogsOK
  <2>3. j \in DOMAIN mail[s]
    BY <2>2
  <2> QED BY <2>1, <2>3 DEF MailGrows
<1> QED BY <1>1, <1>2, <1>3 DEF AckedBefore

(* The invariants of the mail, when the messages that are added obey them. *)
LEMMA MailKeeps ==
  ASSUME LogsOK, AckBeforeReport, MailGrows, LotsKept, muddled \subseteq muddled',
         \A s \in Sessions : \A i \in DOMAIN mail'[s] :
           i \in DOMAIN mail[s] \/
             /\ AckedBefore(s, i)'
             /\ mail'[s][i].type = "report" => mail'[s][i].lot \in DOMAIN placed'
  PROVE  /\ AckBeforeReport'
         /\ \A s \in Sessions : \A i \in DOMAIN mail'[s] :
              mail'[s][i].type = "report" => mail'[s][i].lot \in DOMAIN placed'
<1>1. \A s \in Sessions : \A i \in DOMAIN mail'[s] :
        /\ AckedBefore(s, i)'
        /\ mail'[s][i].type = "report" => mail'[s][i].lot \in DOMAIN placed'
  BY OldMail
<1>2. AckBeforeReport'
  BY <1>1 DEF AckBeforeReport, AckedBefore
<1> QED BY <1>1, <1>2

(* Acknowledgements stay, and so do the sessions that are gone.            *)
LEMMA AcksKept ==
  ASSUME LogsOK, AckQueued, MailGrows, LotsKept, DOMAIN placed' = DOMAIN placed,
         \A s \in Sessions : Gone(s) => Gone(s)',
         NEW served, served = lot.id,
         pc # "idle" => \/ pc' # "idle" /\ lot' = lot
                        \/ Gone(origin[served])'
                        \/ Acked(served)'
  PROVE  AckQueued'
<1>1. ASSUME NEW id \in DOMAIN placed
      PROVE  \/ pc' # "idle" /\ id = lot'.id
             \/ Gone(origin[id])'
             \/ Acked(id)'
  <2>1. PICK q \in Sessions : q = origin[id] /\ q = origin'[id]
    <3>1. id \in DOMAIN origin
      BY DEF LogsOK
    <3> QED BY <3>1 DEF LogsOK, LotsKept
  <2>2. CASE pc # "idle" /\ id = lot.id
    BY <2>2
  <2>3. CASE Gone(q)
    <3>1. Gone(q)'
      BY <2>3
    <3> QED BY <2>1, <3>1 DEF Gone
  <2>4. CASE Acked(id)
    BY <2>1, <2>4 DEF Acked, MailGrows
  <2> QED BY <2>1, <2>2, <2>3, <2>4 DEF AckQueued
<1> QED BY <1>1 DEF AckQueued

-----------------------------------------------------------------------------
(* The steps. *)

(* A step that touches neither the tables nor the mail.                    *)
LEMMA SessionOnly ==
  ASSUME BInv, pc = "idle", UNCHANGED <<vars, serving, mail, origin>>,
         RegisteredAs', muddled \subseteq muddled', NEW s \in Sessions, Moves(s)
  PROVE  CInv'
<1>1. pc' = "idle" /\ placed' = placed
  BY DEF vars, execVars, histVars
<1>2. ServingOK'
  BY <1>1 DEF ServingOK, BInv, CInv
<1>3. MailGrows /\ LotsKept
  BY <1>1 DEF MailGrows, LotsKept
<1>4. AckBeforeReport'
  BY <1>3, MailKeeps DEF BInv, CInv
<1>5. LogsOK'
  BY <1>1 DEF BInv, CInv, LogsOK
<1>6. \A q \in Sessions : Gone(q) => Gone(q)'
  BY MovesKeeps
<1>7. AckQueued'
  <2>1. PICK served : served = lot.id
    OBVIOUS
  <2> QED BY <1>1, <1>3, <1>6, <2>1, AcksKept DEF BInv, CInv
<1> QED BY <1>2, <1>4, <1>5, <1>7 DEF CInv

(* Handlers that neither log in nor trade.                                 *)
LEMMA SessionStepInv ==
  ASSUME BInv, NEW s \in Sessions, SessionStep(s)
  PROVE  CInv'
<1>1. Moves(s) /\ RegisteredAs' /\ muddled' = muddled
  BY SessionMoves, SessionShrinks DEF BInv, CInv
<1>2. pc = "idle" /\ UNCHANGED <<vars, serving, mail, origin>>
  BY DEF SessionStep, Idle
<1> QED BY <1>1, <1>2, SessionOnly

(* A request that was read moves its session.                              *)
LEMMA ReadMoves ==
  ASSUME RInv, NEW s \in Sessions, Received(s), NEW y,
         io' = [io EXCEPT ![s] = y]
  PROVE  Moves(s)
<1>1. ~Expired(s) /\ io \in [Sessions -> IO]
  BY InUse DEF Received, RInv, IOInv
<1> QED BY <1>1 DEF Moves, Gone

(* AUTHORIZATION_REQUEST and REGISTER_REQUEST.                             *)
LEMMA LoginInv ==
  ASSUME BInv, NEW s \in Sessions, NEW u \in Users, Login(s, u)
  PROVE  CInv'
<1>1. /\ Received(s) /\ Authorize(s, u)
      /\ pc = "idle" /\ UNCHANGED <<vars, serving, mail, origin>>
  BY DEF Login, Idle, AuthorizationRequest, RegisterRequest
<1>2. Moves(s)
  BY <1>1, ReadMoves DEF Authorize, BInv
<1>3. RegisteredAs' /\ muddled \subseteq muddled'
  BY <1>1, LoginKeeps DEF BInv, CInv
<1> QED BY <1>1, <1>2, <1>3, SessionOnly

(* A step inside a handler, or none, that the sessions do not notice.      *)
LEMMA UnnoticedInv ==
  ASSUME BInv, UNCHANGED <<io, loginVars, serving, mail, origin, lot, resps,
                           placed>>,
         pc' = "idle" <=> pc = "idle"
  PROVE  CInv'
<1>1. UNCHANGED <<user_id, active_users, active_sessions, issued, muddled>>
  BY DEF loginVars, registry
<1>2. RegisteredAs'
  BY <1>1 DEF BInv, CInv, RegisteredAs
<1>3. LogsOK' /\ ServingOK'
  BY <1>1 DEF BInv, CInv, LogsOK, ServingOK, LoggedIn
<1>4. MailGrows /\ LotsKept /\ \A q \in Sessions : Gone(q) => Gone(q)'
  BY DEF MailGrows, LotsKept, Gone, Expired
<1>5. AckBeforeReport'
  BY <1>1, <1>4, MailKeeps DEF BInv, CInv
<1>6. AckQueued'
  <2>1. PICK served : served = lot.id
    OBVIOUS
  <2> QED BY <1>4, <2>1, AcksKept DEF BInv, CInv
<1> QED BY <1>2, <1>3, <1>5, <1>6 DEF CInv

(* SELL_USD_REQUEST and BUY_USD_REQUEST up to the first commit.            *)
LEMMA LotRequestInv ==
  ASSUME BInv, NEW s \in Sessions, NEW u \in Users, NEW op \in Op,
         NEW n \in Counts, NEW p \in Prices, LotRequest(s, u, op, n, p)
  PROVE  CInv'
<1> DEFINE id == Len(placed) + 1
           o == [user |-> u, op |-> op, usd |-> n, price |-> p]
<1>1. /\ Received(s) /\ user_id[s] \in DOMAIN active_users
      /\ u = active_users[user_id[s]]
      /\ serving' = s /\ origin' = Append(origin, s) /\ mail' = mail
      /\ UNCHANGED <<io, user_id, active_users, active_sessions, issued, muddled>>
  BY DEF LotRequest, RequestOf, loginVars, registry
<1>2. /\ pc = "idle" /\ pc' = "while"
      /\ placed' = Append(placed, o)
      /\ lot' = [id |-> id, user |-> u, op |-> op, usd |-> n, price |-> p]
      /\ lot'.id = id /\ lot'.user = u
      /\ resps' = <<SuccessReqResponse(id, FALSE)>>
  BY DEF LotRequest, CreateLot
<1>3. io[s].reads > 0
  BY <1>1 DEF Received
<1>4. LoggedIn(s, u) /\ (u \notin muddled => io[s].conn = "open")
  <2>1. /\ user_id[s] \in DOMAIN issued /\ issued[user_id[s]].user = u
        /\ user_id[s] # JohnDoe
    BY <1>1, TokensArePositive DEF BInv, RInv, SessionTypeOK
  <2>2. issued[user_id[s]].session = s
    BY <2>1 DEF BInv, RInv, TokenOfSession
  <2>3. u \notin muddled => io[s].conn = "open"
    BY <1>1, <2>2 DEF BInv, RInv, RegistryExact
  <2> QED BY <2>1, <2>3 DEF LoggedIn
<1>5. RegisteredAs'
  BY <1>1 DEF BInv, CInv, RegisteredAs
<1>6. /\ placed \in Seq(Order) /\ o \in Order
      /\ origin \in Seq(Sessions) /\ Len(origin) = Len(placed)
  BY InputAssumption DEF BInv, IInv, TypeOK, CInv, LogsOK, Order
<1> HIDE DEF o
<1>7. /\ DOMAIN placed' = DOMAIN placed \cup {id}
      /\ origin'[id] = s /\ origin' \in Seq(Sessions)
      /\ Len(origin') = Len(placed')
      /\ \A i \in DOMAIN placed : /\ placed'[i] = placed[i]
                                  /\ origin'[i] = origin[i]
                                  /\ origin[i] \in Sessions
  BY <1>1, <1>2, <1>6
<1>8. MailGrows /\ LotsKept
  BY <1>1, <1>7 DEF MailGrows, LotsKept
<1>9. AckBeforeReport' /\ LogsOK'
  <2>1. muddled \subseteq muddled'
    BY <1>1
  <2>2. /\ AckBeforeReport'
        /\ \A q \in Sessions : \A i \in DOMAIN mail'[q] :
             mail'[q][i].type = "report" => mail'[q][i].lot \in DOMAIN placed'
    BY <1>1, <1>8, <2>1, MailKeeps DEF BInv, CInv
  <2> QED BY <1>1, <1>7, <2>2 DEF BInv, CInv, LogsOK
<1> HIDE DEF id
<1>10. ServingOK'
  <2>1. LoggedIn(s, u)'
    BY <1>1, <1>4 DEF LoggedIn
  <2>2. /\ resps' # <<>> /\ resps'[1] = SuccessReqResponse(id, FALSE)
        /\ DOMAIN resps' = {1}
    BY <1>2
  <2>3. SuccessReqResponse(id, FALSE).type # "report"
    BY DEF SuccessReqResponse
  <2> QED BY <1>1, <1>2, <1>3, <1>4, <1>7, <2>1, <2>2, <2>3 DEF ServingOK
<1>11. AckQueued'
  <2>1. ASSUME NEW i \in DOMAIN placed
        PROVE  Gone(origin[i])' \/ Acked(i)'
    <3>1. PICK q \in Sessions : q = origin[i] /\ q = origin'[i]
      BY <1>7
    <3>2. CASE Gone(q)
      <4>1. Gone(q)'
        BY <1>1, <3>2 DEF Gone, Expired
      <4> QED BY <3>1, <4>1 DEF Gone, Expired
    <3>3. CASE Acked(i)
      BY <1>1, <3>1, <3>3 DEF Acked
    <3> QED BY <1>2, <3>1, <3>2, <3>3 DEF BInv, CInv, AckQueued
  <2> QED BY <1>2, <1>7, <2>1 DEF AckQueued
<1> QED BY <1>5, <1>9, <1>10, <1>11 DEF CInv

(* A counterparty that is reached has a session that is not gone.          *)
LEMMA ReachableFacts ==
  ASSUME NEW u, NEW q \in Reachable(u)
  PROVE  /\ q \in Sessions /\ u \in DOMAIN active_sessions
         /\ active_sessions[u] = q /\ ~Gone(q)
  BY DEF Reachable, Gone

(* The report that a match appends names one of the two lots, and both     *)
(* users.                                                                  *)
LEMMA MatchReport ==
  ASSUME BInv, NEW r \in snap, MatchOne(r)
  PROVE  \E m \in Response :
           /\ resps' = Append(resps, m)
           /\ m.type = "report"
           /\ m.lot \in {r.id, lot.id}
           /\ {m.seller, m.buyer} = {lot.user, r.user}
<1> DEFINE tx == SettlementOf(r)
           m == Report(tx.closed[1], tx.told, tx.price, tx.seller, tx.buyer)
<1>1. resps' = Append(resps, m) /\ pc = "for"
  BY DEF MatchOne, Matched, IsNext
<1>2. /\ m.type = "report" /\ m.lot = tx.closed[1]
      /\ m.seller = tx.seller /\ m.buyer = tx.buyer
  BY DEF Report
<1>3. Settlement(tx, r)
  BY <1>1, SettlementFacts DEF BInv
<1>4. /\ tx.closed[1] \in {r.id, lot.id}
      /\ {tx.seller, tx.buyer} = {lot.user, r.user}
  BY <1>3 DEF Settlement
<1>5. resps \in Seq(Response) /\ resps' \in Seq(Response)
  <2>1. IInv'
    BY MatchOneInv DEF BInv
  <2> QED BY <2>1 DEF BInv, IInv, TypeOK
<1> HIDE DEF m, tx
<1>6. Len(resps') = Len(resps) + 1 /\ resps'[Len(resps) + 1] = m
  BY <1>1, <1>5
<1>7. m \in Response
  BY <1>5, <1>6, ElementOfSeq
<1> QED BY <1>1, <1>2, <1>4, <1>7

(* One match: who is told of it on a session that placed a lot of the deal *)
(* had that lot acknowledged there, or logged in as several users.         *)
LEMMA Match1Inv ==
  ASSUME BInv, NEW r \in snap, Match1(r)
  PROVE  CInv'
<1>1. PICK m \in Response : /\ resps' = Append(resps, m) /\ m.type = "report"
                            /\ m.lot \in {r.id, lot.id}
  BY MatchReport DEF Match1
<1>2. /\ pc = "for" /\ pc' # "idle"
      /\ UNCHANGED <<serving, origin, lot, placed, user_id, active_users,
                     active_sessions, issued, muddled>>
  BY DEF Match1, MatchOne, Matched, IsNext, loginVars, registry
<1>3. resps \in Seq(Response)
  BY DEF BInv, IInv, TypeOK
<1>4. resps'[Len(resps')] = m
  BY <1>1, <1>3
<1>5. PICK R : R = Reachable(r.user)
  OBVIOUS
<1>6. /\ io' = [q \in Sessions |-> IF q \in R
                                   THEN addResponses(io[q], 1) ELSE io[q]]
      /\ mail' = [q \in Sessions |-> IF q \in R THEN Append(mail[q], m)
                                     ELSE mail[q]]
  BY <1>4, <1>5 DEF Match1
<1>7. \A q \in R : /\ q \in Sessions /\ r.user \in DOMAIN active_sessions
                   /\ active_sessions[r.user] = q /\ ~Gone(q)
  BY <1>5, ReachableFacts
<1>8. /\ r.id \in DOMAIN placed /\ lot.id \in DOMAIN placed /\ r.id # lot.id
      /\ r.user # lot.user /\ placed[lot.id].user = lot.user
  BY <1>2, SettlementFacts
     DEF BInv, IInv, TypeOK, LotInv, SnapInv, SnapRow, RowsAsPlaced
<1>9. \A q \in Sessions : /\ io'[q].reads = io[q].reads
                          /\ io'[q].conn = io[q].conn
                          /\ Gone(q) => Gone(q)'
  <2> SUFFICES ASSUME NEW q \in Sessions
               PROVE  /\ io'[q].reads = io[q].reads
                      /\ io'[q].conn = io[q].conn
                      /\ Gone(q) => Gone(q)'
    OBVIOUS
  <2>1. io[q] \in IO /\ 1 \in Nat
    BY InUse DEF BInv
  <2>2. /\ addResponses(io[q], 1).reads = io[q].reads
        /\ addResponses(io[q], 1).conn = io[q].conn
    BY <2>1, AddResponses
  <2>3. q \notin R => io'[q] = io[q]
    BY <1>6
  <2>4. Gone(q) => Gone(q)'
    BY <1>7, <2>3 DEF Gone, Expired
  <2> QED BY <1>6, <2>2, <2>3, <2>4
<1>10. RegisteredAs'
  BY <1>2 DEF BInv, CInv, RegisteredAs
<1>11. \A q \in Sessions :
         /\ mail[q] \in Seq(Response)
         /\ mail'[q] \in Seq(Response)
         /\ \A i \in DOMAIN mail[q] : /\ i \in DOMAIN mail'[q]
                                      /\ mail'[q][i] = mail[q][i]
         /\ \A i \in DOMAIN mail'[q] :
              i \in DOMAIN mail[q] \/
                (q \in R /\ mail'[q][i] = m /\ i = Len(mail[q]) + 1)
  BY <1>6 DEF BInv, CInv, LogsOK
<1>12. MailGrows /\ LotsKept
  BY <1>2, <1>11 DEF MailGrows, LotsKept
<1>13. ASSUME NEW q \in R, origin[m.lot] = q, placed[m.lot].user \notin muddled
       PROVE  \E j \in DOMAIN mail[q] :
                mail[q][j] = SuccessReqResponse(m.lot, FALSE)
  <2>1. CASE m.lot = lot.id
    <3>1. /\ q = serving /\ issued[user_id[q]].user = lot.user
      BY <1>2, <1>13, <2>1 DEF BInv, CInv, ServingOK, LoggedIn
    <3>2. \/ issued[user_id[q]].user = r.user
          \/ issued[user_id[q]].user \in muddled
      BY <1>7 DEF BInv, CInv, RegisteredAs
    <3> QED BY <1>8, <1>13, <2>1, <3>1, <3>2
  <2>2. CASE m.lot = r.id
    BY <1>7, <1>8, <1>13, <2>2 DEF BInv, CInv, AckQueued, Acked
  <2> QED BY <1>1, <2>1, <2>2
<1>14. ASSUME NEW q \in Sessions, NEW i \in DOMAIN mail'[q],
              i \notin DOMAIN mail[q]
       PROVE  /\ AckedBefore(q, i)'
              /\ mail'[q][i].type = "report" => mail'[q][i].lot \in DOMAIN placed'
  <2>1. q \in R /\ mail'[q][i] = m /\ i = Len(mail[q]) + 1
    BY <1>11, <1>14
  <2>2. m.lot \in DOMAIN placed'
    BY <1>1, <1>2, <1>8
  <2>3. ASSUME origin[m.lot] = q, placed[m.lot].user \notin muddled
        PROVE  \E j \in 1 .. i - 1 : mail'[q][j] = SuccessReqResponse(m.lot, FALSE)
    <3>1. PICK j \in DOMAIN mail[q] : mail[q][j] = SuccessReqResponse(m.lot, FALSE)
      BY <1>13, <2>1, <2>3
    <3>2. j \in 1 .. i - 1 /\ mail'[q][j] = mail[q][j]
      BY <1>11, <2>1
    <3> QED BY <3>1, <3>2
  <2> QED BY <1>2, <2>1, <2>2, <2>3 DEF AckedBefore
<1>15. AckBeforeReport' /\ LogsOK'
  <2>1. muddled \subseteq muddled'
    BY <1>2
  <2>2. /\ AckBeforeReport'
        /\ \A q \in Sessions : \A i \in DOMAIN mail'[q] :
             mail'[q][i].type = "report" => mail'[q][i].lot \in DOMAIN placed'
    BY <1>12, <1>14, <2>1, MailKeeps DEF BInv, CInv
  <2>3. mail' \in [Sessions -> Seq(Response)]
    BY <1>6, <1>11
  <2> QED BY <1>2, <2>2, <2>3 DEF BInv, CInv, LogsOK
<1>16. ServingOK'
  <2>1. /\ resps' # <<>> /\ resps'[1] = resps[1]
        /\ \A i \in DOMAIN resps' : (i \in DOMAIN resps /\ resps'[i] = resps[i])
                                     \/ resps'[i] = m
    <3>1. resps # <<>>
      BY <1>2 DEF BInv, CInv, ServingOK
    <3> QED BY <1>1, <1>3, <3>1
  <2>2. /\ serving \in Sessions /\ io'[serving].reads > 0
        /\ lot.user \notin muddled => io'[serving].conn = "open"
    <3>1. /\ serving \in Sessions /\ io[serving].reads > 0
          /\ lot.user \notin muddled => io[serving].conn = "open"
      BY <1>2 DEF BInv, CInv, ServingOK
    <3> QED BY <1>9, <3>1
  <2>4. LoggedIn(serving, lot.user)'
    BY <1>2 DEF BInv, CInv, ServingOK, LoggedIn
  <2> QED BY <1>1, <1>2, <1>8, <2>1, <2>2, <2>4 DEF BInv, CInv, ServingOK
<1>17. AckQueued'
  <2>1. PICK served : served = lot.id
    OBVIOUS
  <2>2. \A q \in Sessions : Gone(q) => Gone(q)'
    BY <1>9
  <2> QED BY <1>2, <1>12, <2>1, <2>2, AcksKept DEF BInv, CInv
<1> QED BY <1>10, <1>15, <1>16, <1>17 DEF CInv

(* Responses that are queued follow what is queued already.                *)
LEMMA QueueGrows ==
  ASSUME LogsOK, NEW s \in Sessions, NEW rs \in Seq(Response), Queue(s, rs)
  PROVE  /\ mail' \in [Sessions -> Seq(Response)]
         /\ MailGrows
         /\ mail[s] \in Seq(Response)
         /\ \A k \in DOMAIN rs : /\ Len(mail[s]) + k \in DOMAIN mail'[s]
                                 /\ mail'[s][Len(mail[s]) + k] = rs[k]
         /\ \A q \in Sessions : \A i \in DOMAIN mail'[q] :
              i \in DOMAIN mail[q] \/
                (q = s /\ \E k \in DOMAIN rs : /\ i = Len(mail[s]) + k
                                               /\ mail'[q][i] = rs[k])
<1>1. mail \in [Sessions -> Seq(Response)] /\ mail[s] \in Seq(Response)
  BY DEF LogsOK
<1>2. mail' = [mail EXCEPT ![s] = mail[s] \o rs]
  BY <1>1 DEF Queue
<1>3. PICK old : old = mail[s] /\ old \in Seq(Response)
  BY <1>1
<1>4. PICK new : new = old \o rs /\ new \in Seq(Response)
  <2>1. old \o rs \in Seq(Response)
    BY <1>3
  <2> QED BY <2>1
<1>5. /\ \A i \in DOMAIN old : i \in DOMAIN new /\ new[i] = old[i]
      /\ \A k \in DOMAIN rs : /\ Len(old) + k \in DOMAIN new
                              /\ new[Len(old) + k] = rs[k]
  BY <1>3, <1>4
<1>6. ASSUME NEW i \in DOMAIN new, i \notin DOMAIN old
      PROVE  \E k \in DOMAIN rs : i = Len(old) + k /\ new[i] = rs[k]
  <2>1. i - Len(old) \in DOMAIN rs /\ i = Len(old) + (i - Len(old))
    BY <1>3, <1>4, <1>6
  <2> QED BY <1>5, <2>1
<1>7. /\ mail'[s] = new
      /\ \A q \in Sessions \ {s} : mail'[q] = mail[q]
  BY <1>1, <1>2, <1>3, <1>4
<1>8. mail' \in [Sessions -> Seq(Response)]
  BY <1>1, <1>2, <1>3, <1>4
<1>9. MailGrows
  BY <1>3, <1>5, <1>7 DEF MailGrows
<1> QED BY <1>1, <1>3, <1>5, <1>6, <1>7, <1>8, <1>9

(* The answers of a lot request are queued, the acknowledgement first.     *)
LEMMA ReturnInv == ASSUME BInv, Return PROVE CInv'
<1>1. /\ pc # "idle" /\ pc' = "idle" /\ Queue(serving, resps)
      /\ serving' = NoSession
      /\ UNCHANGED <<origin, placed, user_id, active_users, active_sessions,
                     issued, muddled>>
  BY DEF Return, ReturnResponses, loginVars, registry, histVars
<1>2. /\ serving \in Sessions /\ io[serving].reads > 0
      /\ origin[lot.id] = serving /\ resps # <<>>
      /\ resps[1] = SuccessReqResponse(lot.id, FALSE)
      /\ \A i \in DOMAIN resps :
           resps[i].type = "report" => resps[i].lot \in DOMAIN placed
  BY <1>1 DEF BInv, CInv, ServingOK
<1>3. resps \in Seq(Response) /\ Len(resps) \in Int /\ 1 \in DOMAIN resps
  <2>1. resps \in Seq(Response)
    BY DEF BInv, IInv, TypeOK
  <2> QED BY <1>2, <2>1
<1>4. PICK s \in Sessions : s = serving
  BY <1>2
<1>5. PICK rs \in Seq(Response) : rs = resps
  BY <1>3
<1>6. LogsOK /\ Queue(s, rs)
  BY <1>1, <1>4, <1>5 DEF BInv, CInv
<1>7. /\ mail' \in [Sessions -> Seq(Response)] /\ MailGrows
      /\ mail[s] \in Seq(Response)
      /\ \A k \in DOMAIN rs : /\ Len(mail[s]) + k \in DOMAIN mail'[s]
                              /\ mail'[s][Len(mail[s]) + k] = rs[k]
      /\ \A q \in Sessions : \A i \in DOMAIN mail'[q] :
           i \in DOMAIN mail[q] \/
             (q = s /\ \E k \in DOMAIN rs : /\ i = Len(mail[s]) + k
                                            /\ mail'[q][i] = rs[k])
  BY <1>6, QueueGrows
<1>8. Moves(s)
  <2>1. ~Expired(s) /\ io \in [Sessions -> IO]
    BY <1>2, <1>4, InUse DEF BInv, RInv, IOInv
  <2>2. \E y : io' = [io EXCEPT ![s] = y]
    BY <1>4 DEF Return
  <2> QED BY <2>1, <2>2 DEF Moves, Gone
<1>9. RegisteredAs' /\ muddled \subseteq muddled'
  BY <1>1 DEF BInv, CInv, RegisteredAs
<1>10. LotsKept
  BY <1>1 DEF LotsKept
<1>11. \A q \in Sessions : Gone(q) => Gone(q)'
  BY <1>8, MovesKeeps
<1>12. ASSUME NEW q \in Sessions, NEW i \in DOMAIN mail'[q],
              i \notin DOMAIN mail[q]
       PROVE  /\ AckedBefore(q, i)'
              /\ mail'[q][i].type = "report" => mail'[q][i].lot \in DOMAIN placed'
  <2>1. q = s /\ \E k \in DOMAIN rs : i = Len(mail[s]) + k /\ mail'[q][i] = rs[k]
    BY <1>7, <1>12
  <2>2. PICK k \in DOMAIN rs : i = Len(mail[s]) + k /\ mail'[q][i] = rs[k]
    BY <2>1
  <2>3. PICK m : m = rs[k]
    OBVIOUS
  <2>4. m.type = "report" => m.lot \in DOMAIN placed'
    BY <1>1, <1>2, <1>5, <2>3
  <2>5. ASSUME m.type = "report", origin[m.lot] = s
        PROVE  \E j \in 1 .. i - 1 : mail'[s][j] = SuccessReqResponse(m.lot, FALSE)
    <3>1. Len(mail[s]) \in Nat /\ k \in Nat \ {0}
      BY <1>7
    <3>2. CASE m.lot = lot.id
      <4>1. SuccessReqResponse(lot.id, FALSE).type # "report"
        BY DEF SuccessReqResponse
      <4>2. k # 1
        BY <1>2, <1>5, <2>3, <2>5, <4>1
      <4>3. Len(mail[s]) + 1 \in 1 .. i - 1
        BY <2>2, <3>1, <4>2
      <4>4. mail'[s][Len(mail[s]) + 1] = SuccessReqResponse(m.lot, FALSE)
        BY <1>2, <1>3, <1>5, <1>7, <3>2
      <4> QED BY <4>3, <4>4
    <3>3. CASE m.lot # lot.id
      <4>1. m.lot \in DOMAIN placed /\ ~Gone(s)
        BY <1>2, <1>5, <1>8, <2>3, <2>5 DEF Moves
      <4>2. PICK j \in DOMAIN mail[s] :
              mail[s][j] = SuccessReqResponse(m.lot, FALSE)
        BY <2>5, <3>3, <4>1 DEF BInv, CInv, AckQueued, Acked
      <4>3. j \in 1 .. i - 1
        BY <1>7, <2>2, <3>1, <4>2
      <4> QED BY <1>7, <4>2, <4>3 DEF MailGrows
    <3> QED BY <3>2, <3>3
  <2> QED BY <1>1, <2>1, <2>2, <2>3, <2>4, <2>5 DEF AckedBefore
<1>13. AckBeforeReport' /\ LogsOK'
  <2>1. /\ AckBeforeReport'
        /\ \A q \in Sessions : \A i \in DOMAIN mail'[q] :
             mail'[q][i].type = "report" => mail'[q][i].lot \in DOMAIN placed'
    BY <1>7, <1>9, <1>10, <1>12, MailKeeps DEF BInv, CInv
  <2> QED BY <1>1, <1>7, <2>1 DEF BInv, CInv, LogsOK
<1>14. ServingOK'
  BY <1>1 DEF ServingOK
<1>15. AckQueued'
  <2>1. PICK served : served = lot.id
    OBVIOUS
  <2>2. Acked(served)'
    <3>1. origin'[served] = s
      BY <1>1, <1>2, <1>4, <2>1
    <3>2. PICK j \in DOMAIN mail'[s] : mail'[s][j] = SuccessReqResponse(served, FALSE)
      <4>1. /\ Len(mail[s]) + 1 \in DOMAIN mail'[s]
            /\ mail'[s][Len(mail[s]) + 1] = rs[1]
        BY <1>3, <1>5, <1>7
      <4> QED BY <1>2, <1>5, <2>1, <4>1
    <3> QED BY <3>1, <3>2 DEF Acked
  <2> QED BY <1>1, <1>7, <1>10, <1>11, <2>1, <2>2, AcksKept DEF BInv, CInv
<1> QED BY <1>9, <1>13, <1>14, <1>15 DEF CInv

(* The process ends, and with it the sessions.                             *)
LEMMA LostInv ==
  ASSUME BInv, NEW why, Stop(why), SessionsLost
  PROVE  CInv'
<1> DEFINE dead == [conn |-> "closed", reads |-> 0, writes |-> 0,
                    failing |-> 0, pending |-> 0]
<1>1. pc' = "idle" /\ placed' = placed
  BY DEF Stop
<1>2. /\ io' = [s \in Sessions |-> IF io[s].conn = "none" THEN io[s] ELSE dead]
      /\ user_id' = [s \in Sessions |-> JohnDoe]
      /\ active_users' = <<>> /\ active_sessions' = <<>>
      /\ UNCHANGED <<issued, muddled, mail, origin>>
  BY DEF SessionsLost
<1>3. dead.conn = "closed" /\ dead.reads + dead.writes + dead.failing = 0
  OBVIOUS
<1> HIDE DEF dead
<1>4. serving' = NoSession
  BY DEF SessionsLost
<1>5. RegisteredAs'
  <2>1. DOMAIN active_sessions' = {}
    BY <1>2
  <2> QED BY <2>1 DEF RegisteredAs
<1>7. ServingOK' /\ LogsOK'
  BY <1>1, <1>2, <1>4 DEF ServingOK, LogsOK, BInv, CInv
<1>8. MailGrows /\ LotsKept
  BY <1>1, <1>2 DEF MailGrows, LotsKept
<1>9. AckBeforeReport'
  <2>1. muddled \subseteq muddled'
    BY <1>2
  <2> QED BY <1>2, <1>8, <2>1, MailKeeps DEF BInv, CInv
<1>10. ASSUME NEW q \in Sessions, io[q].conn # "none" PROVE Gone(q)'
  BY <1>2, <1>3, <1>10 DEF Gone, Expired
<1>11. \A q \in Sessions : Gone(q) => Gone(q)'
  BY <1>10 DEF Gone
<1>12. AckQueued'
  <2>1. PICK served : served = lot.id
    OBVIOUS
  <2>2. ASSUME pc # "idle" PROVE Gone(origin[served])'
    <3>1. PICK q \in Sessions : q = serving /\ q = origin[served]
      BY <2>1, <2>2 DEF BInv, CInv, ServingOK
    <3>2. io[q].conn # "none"
      BY <2>2, <3>1, InUse DEF BInv, CInv, ServingOK
    <3>3. Gone(q)'
      BY <1>10, <3>2
    <3> QED BY <1>2, <3>1, <3>3 DEF Gone, Expired
  <2> QED BY <1>1, <1>8, <1>11, <2>1, <2>2, AcksKept DEF BInv, CInv
<1> QED BY <1>5, <1>7, <1>9, <1>12 DEF CInv

(* A cancellation that does not stop the process answers, and with no      *)
(* report.                                                                 *)
LEMMA CancelAnswers ==
  ASSUME NEW u, NEW id \in 1 .. MaxRequests, Cancel(u, id), ~Stop("integrity")
  PROVE  \E x \in Response : x.type # "report" /\ Answer(x)
<1>1. CASE CancelDeletes(u, id)
  <2>1. Answer(SuccessReqResponse(id, TRUE))
    BY <1>1 DEF CancelDeletes
  <2>2. /\ SuccessReqResponse(id, TRUE) \in Response
        /\ SuccessReqResponse(id, TRUE).type # "report"
    <3>1. id \in Nat
      BY BoundsAssumption
    <3> QED BY <3>1 DEF SuccessReqResponse, Response
  <2> QED BY <2>1, <2>2
<1>2. CASE CancelRefused(u, id)
  <2>1. PICK x : /\ x \in {"request has already been made",
                           "this request is not available to you"}
                 /\ Answer(BadResponse(x))
    BY <1>2 DEF CancelRefused
  <2>2. BadResponse(x) \in Response /\ BadResponse(x).type # "report"
    BY <2>1 DEF BadResponse, Response
  <2> QED BY <2>1, <2>2
<1> QED BY <1>1, <1>2 DEF Cancel

(* CANCEL_REQUEST: its answer is no report.                                *)
LEMMA CancelRequestInv ==
  ASSUME BInv, NEW s \in Sessions, NEW u \in Users,
         NEW id \in 1 .. MaxRequests, CancelRequest(s, u, id)
  PROVE  CInv'
<1>1. Received(s) /\ Cancel(u, id) /\ pc = "idle" /\ server = "up"
  BY DEF CancelRequest, RequestOf, Cancel, CancelDeletes, CancelRefused
<1>2. CASE Stop("integrity")
  <2>1. SessionsLost
    BY <1>2 DEF CancelRequest, Stop
  <2> QED BY <1>2, <2>1, LostInv
<1>3. CASE ~Stop("integrity")
  <2>1. \E x \in Response : x.type # "report" /\ Answer(x)
    BY <1>1, <1>3, CancelAnswers
  <2>2. PICK x \in Response : x.type # "report" /\ Answer(x)
    BY <2>1
  <2>3. server' = "up" /\ pc' = "idle" /\ resps' = <<x>> /\ placed' = placed
    BY <1>1, <2>2 DEF Answer, histVars
  <2>4. /\ io' = [io EXCEPT ![s] = addResponses(AfterRead(s), 1)]
        /\ Queue(s, <<x>>)
        /\ UNCHANGED <<serving, origin, user_id, active_users,
                       active_sessions, issued, muddled>>
    BY <2>3 DEF CancelRequest, loginVars, registry
  <2>5. Moves(s)
    BY <1>1, <2>4, ReadMoves DEF BInv
  <2>6. \A q \in Sessions : Gone(q) => Gone(q)'
    BY <2>5, MovesKeeps
  <2>7. RegisteredAs' /\ muddled \subseteq muddled'
    BY <2>4 DEF BInv, CInv, RegisteredAs
  <2>8. PICK rs \in Seq(Response) : rs = <<x>>
    <3>1. <<x>> \in Seq(Response)
      BY <2>2
    <3> QED BY <3>1
  <2>9. LogsOK /\ Queue(s, rs)
    BY <2>4, <2>8 DEF BInv, CInv
  <2>10. /\ mail' \in [Sessions -> Seq(Response)] /\ MailGrows
         /\ \A q \in Sessions : \A i \in DOMAIN mail'[q] :
              i \in DOMAIN mail[q] \/
                (q = s /\ \E k \in DOMAIN rs : /\ i = Len(mail[s]) + k
                                               /\ mail'[q][i] = rs[k])
    BY <2>9, QueueGrows
  <2>11. \A k \in DOMAIN rs : rs[k] = x
    BY <2>8
  <2>12. LotsKept
    BY <2>3, <2>4 DEF LotsKept
  <2>13. ASSUME NEW q \in Sessions, NEW i \in DOMAIN mail'[q],
                i \notin DOMAIN mail[q]
         PROVE  /\ AckedBefore(q, i)'
                /\ mail'[q][i].type = "report"
                     => mail'[q][i].lot \in DOMAIN placed'
    <3>1. mail'[q][i] = x
      BY <2>10, <2>11, <2>13
    <3> QED BY <2>2, <3>1 DEF AckedBefore
  <2>14. AckBeforeReport' /\ LogsOK'
    <3>1. /\ AckBeforeReport'
          /\ \A q \in Sessions : \A i \in DOMAIN mail'[q] :
               mail'[q][i].type = "report" => mail'[q][i].lot \in DOMAIN placed'
      BY <2>7, <2>10, <2>12, <2>13, MailKeeps DEF BInv, CInv
    <3> QED BY <2>3, <2>4, <2>10, <3>1 DEF BInv, CInv, LogsOK
  <2>15. ServingOK'
    BY <1>1, <2>3, <2>4 DEF ServingOK, BInv, CInv
  <2>16. AckQueued'
    <3>1. PICK served : served = lot.id
      OBVIOUS
    <3> QED BY <1>1, <2>3, <2>6, <2>10, <2>12, <3>1, AcksKept DEF BInv, CInv
  <2> QED BY <2>7, <2>14, <2>15, <2>16 DEF CInv
<1> QED BY <1>2, <1>3

(* Every step of the server keeps the invariant of the sessions.           *)
LEMMA ServerStepRegistry == BInv /\ [BNext]_bvars => RInv'
<1> SUFFICES ASSUME BInv, [BNext]_bvars PROVE RInv'
  OBVIOUS
<1>1. /\ RInv /\ RegisteredAs /\ ServingOK /\ resps \in Seq(Response)
      /\ messages \in 0 .. MaxMessages
  BY DEF BInv, RInv, SessionTypeOK, CInv, IInv, TypeOK
<1>2. ASSUME NEW s \in Sessions, SessionStep(s) PROVE RInv'
  BY <1>1, <1>2, SessionStepRegistry
<1>3. ASSUME NEW s \in Sessions, NEW u \in Users, Login(s, u) PROVE RInv'
  BY <1>1, <1>3, LoginRegistry
<1>4. ASSUME NEW s \in Sessions, NEW u \in Users, NEW op \in Op,
             NEW n \in Counts, NEW p \in Prices, LotRequest(s, u, op, n, p)
      PROVE  RInv'
  <2>1. RequestOf(s, u) /\ UNCHANGED <<io, loginVars>>
    BY <1>4 DEF LotRequest
  <2> QED BY <1>1, <2>1, RequestCounted, UntouchedRegistry
<1>5. ASSUME NEW s \in Sessions, NEW u \in Users, NEW id \in 1 .. MaxRequests,
             CancelRequest(s, u, id)
      PROVE  RInv'
  <2>1. CASE server' = "up"
    BY <1>1, <1>5, <2>1, CancelRegistry
  <2>2. CASE server' # "up"
    <3>1. RequestOf(s, u) /\ SessionsLost
      BY <1>5, <2>2 DEF CancelRequest
    <3> QED BY <1>1, <3>1, RequestCounted, LostRegistry
  <2> QED BY <2>1, <2>2
<1>6. CASE Query \/ Reboot \/ UNCHANGED bvars
  <2>1. UNCHANGED <<io, loginVars, messages>>
    BY <1>6 DEF Query, Reboot, bvars
  <2> QED BY <1>1, <2>1, UntouchedRegistry
<1>7. CASE Return
  BY <1>1, <1>7, ReturnRegistry
<1>8. ASSUME NEW r \in snap, Match1(r) PROVE RInv'
  BY <1>1, <1>8, PushRegistry
<1>9. CASE Crash
  BY <1>1, <1>9, LostRegistry DEF Crash
<1> QED BY <1>2, <1>3, <1>4, <1>5, <1>6, <1>7, <1>8, <1>9 DEF BNext

(* Every step of the server keeps the invariant.                           *)
LEMMA ServerStepInv == BInv /\ [BNext]_bvars => BInv'
<1> SUFFICES ASSUME BInv, [BNext]_bvars PROVE BInv'
  OBVIOUS
<1>1. IInv' /\ AInv' /\ RInv'
  BY ServerStepTrades, NextInv, NextAccounts, ServerStepRegistry DEF BInv
<1> SUFFICES CInv'
  BY <1>1 DEF BInv
<1>2. ASSUME NEW s \in Sessions, SessionStep(s) PROVE CInv'
  BY <1>2, SessionStepInv
<1>3. ASSUME NEW s \in Sessions, NEW u \in Users, Login(s, u) PROVE CInv'
  BY <1>3, LoginInv
<1>4. ASSUME NEW s \in Sessions, NEW u \in Users, NEW op \in Op,
             NEW n \in Counts, NEW p \in Prices, LotRequest(s, u, op, n, p)
      PROVE  CInv'
  BY <1>4, LotRequestInv
<1>5. ASSUME NEW s \in Sessions, NEW u \in Users, NEW id \in 1 .. MaxRequests,
             CancelRequest(s, u, id)
      PROVE  CInv'
  BY <1>5, CancelRequestInv
<1>6. CASE Query \/ Reboot \/ UNCHANGED bvars
  BY <1>6, UnnoticedInv DEF Query, Reboot, bvars, vars, QueryMatches, Restart,
                            execVars, histVars
<1>7. CASE Return
  BY <1>7, ReturnInv
<1>8. ASSUME NEW r \in snap, Match1(r) PROVE CInv'
  BY <1>8, Match1Inv
<1>9. CASE Crash
  BY <1>9, LostInv DEF Crash, Kill, MatchRefused
<1> QED BY <1>2, <1>3, <1>4, <1>5, <1>6, <1>7, <1>8, <1>9 DEF BNext

(* The server starts in the invariant.                                     *)
LEMMA ServerInitInv == BInit => BInv
<1> SUFFICES ASSUME BInit PROVE BInv
  OBVIOUS
<1>1. IInv /\ AInv /\ RInv
  BY InitInv, InitAccounts, RegistryInit DEF BInit
<1>2. pc = "idle" /\ placed = <<>> /\ origin = <<>> /\ serving = NoSession
      /\ mail = [s \in Sessions |-> <<>>] /\ DOMAIN active_sessions = {}
  BY DEF BInit, Init, SessionInit
<1>3. RegisteredAs
  BY <1>2 DEF RegisteredAs
<1>4. LogsOK /\ ServingOK /\ AckQueued /\ AckBeforeReport
  BY <1>2 DEF LogsOK, ServingOK, AckQueued, AckBeforeReport
<1> QED BY <1>1, <1>3, <1>4 DEF BInv, CInv

(* A report on a lot follows the acknowledgement of the lot on the session *)
(* that placed it: execRequest pushes reports to a counterparty's session  *)
(* at once, but those on the lot being executed are queued only after its  *)
(* acknowledgement, and a session whose lot was never acknowledged was     *)
(* lost with the process.                                                  *)
THEOREM LotsKnownBeforeDeals == BSpec => []AckBeforeReport
<1>1. BInv => AckBeforeReport
  BY DEF BInv, CInv
<1> QED BY <1>1, ServerInitInv, ServerStepInv, PTL DEF BSpec

-----------------------------------------------------------------------------
(* Sessions keep what Session promises, inside the server. *)

(* What Session promises of sockets and registries holds in the server,    *)
(* where a handler pushes reports between its commits and the process may  *)
(* stop at any point and start again with the sessions lost: an open       *)
(* session waits for something, one write at most is in flight, the        *)
(* registries name exactly the users that are connected once, and the      *)
(* login of an open session stays valid.                                   *)
THEOREM ServerSessions ==
  BSpec => [](/\ NeverDeaf /\ OneWriteAtATime
              /\ RegistryExact /\ LoginsSurvive)
<1>1. BInv => NeverDeaf /\ OneWriteAtATime /\ RegistryExact
  BY DEF BInv, RInv, IOInv, NeverDeaf, OneWriteAtATime, SessionOK
<1>2. BInv => LoginsSurvive
  BY DEF BInv, RInv, LoginsSurvive, TokensValid, TokenOfSession, LoggedIn,
         SessionTypeOK
<1> QED BY <1>1, <1>2, ServerInitInv, ServerStepInv, PTL DEF BSpec

-----------------------------------------------------------------------------
(* The deals that a session is told of. *)

(* The reports among the messages q. *)
Reported(q) == {i \in DOMAIN q : q[i].type = "report"}

(* The messages q report n deals, each one of user u. *)
Tells(q, u, n) ==
  /\ Cardinality(Reported(q)) = n
  /\ \A i \in Reported(q) : u \in {q[i].seller, q[i].buyer}

Deals(u) == {t \in trades : u \in {placed[t.sell].user, placed[t.buy].user}}

(* A session without a user was told nothing. *)
NoneTold ==
  \A s \in Sessions :
    user_id[s] = JohnDoe /\ io[s].conn # "closed" => Reported(Sent(s)) = {}

DInv ==
  /\ joined \in [Sessions -> Int]
  /\ NoneTold
  /\ DealsReportedOnce

(* DealsReportedOnce in these terms, before and after a step.              *)
LEMMA ReportedOnce ==
  /\ DealsReportedOnce <=>
       \A s \in Sessions, u \in Users \ muddled :
         io[s].conn = "open" /\ LoggedIn(s, u) =>
           Tells(Sent(s), u, Cardinality(Deals(u)) - joined[s])
  /\ DealsReportedOnce' <=>
       \A s \in Sessions, u \in Users \ muddled' :
         io'[s].conn = "open" /\ LoggedIn(s, u)' =>
           Tells(Sent(s)', u, Cardinality(Deals(u)') - joined'[s])
  BY DEF DealsReportedOnce, Told, Tells, Reported, DealsOf, Deals

(* A message more is a deal more if it is a report, and none if it is not. *)
LEMMA TellsMore ==
  ASSUME NEW q \in Seq(Response), NEW m \in Response
  PROVE  /\ m.type # "report" => Reported(Append(q, m)) = Reported(q)
         /\ \A u, n : Tells(q, u, n) /\ m.type # "report"
                        => Tells(Append(q, m), u, n)
         /\ \A u, n : /\ Tells(q, u, n) /\ m.type = "report"
                      /\ u \in {m.seller, m.buyer}
                      => Tells(Append(q, m), u, n + 1)
<1>1. PICK k : k = Len(q) + 1
  OBVIOUS
<1>2. PICK p : p = Append(q, m)
  OBVIOUS
<1>3. /\ k \notin DOMAIN q /\ DOMAIN p = DOMAIN q \cup {k}
      /\ p[k] = m /\ \A i \in DOMAIN q : p[i] = q[i]
      /\ DOMAIN q = 1 .. Len(q) /\ Len(q) \in Nat
  BY <1>1, <1>2
<1>4. IsFiniteSet(Reported(q))
  <2>1. IsFiniteSet(1 .. Len(q))
    BY <1>3, FS_Interval
  <2> QED BY <1>3, <2>1, FS_Subset DEF Reported
<1>5. CASE m.type # "report"
  <2>1. Reported(p) = Reported(q)
    BY <1>3, <1>5 DEF Reported
  <2>2. \A i \in Reported(q) : p[i] = q[i]
    BY <1>3 DEF Reported
  <2> QED BY <1>2, <1>5, <2>1, <2>2 DEF Tells
<1>6. CASE m.type = "report"
  <2>1. Reported(p) = Reported(q) \cup {k} /\ k \notin Reported(q)
    BY <1>3, <1>6 DEF Reported
  <2>2. \A i \in Reported(q) : p[i] = q[i]
    BY <1>3 DEF Reported
  <2>3. Cardinality(Reported(p)) = Cardinality(Reported(q)) + 1
    BY <1>4, <2>1, FS_AddElement
  <2>4. ASSUME NEW u, NEW n, Tells(q, u, n), u \in {m.seller, m.buyer}
        PROVE  Tells(p, u, n + 1)
    <3>1. \A i \in Reported(p) : u \in {p[i].seller, p[i].buyer}
      BY <1>3, <2>1, <2>2, <2>4 DEF Tells
    <3>2. Cardinality(Reported(p)) = n + 1
      BY <2>3, <2>4 DEF Tells
    <3> QED BY <3>1, <3>2 DEF Tells
  <2> QED BY <1>2, <1>6, <2>4
<1> QED BY <1>5, <1>6

(* What is sent is a sequence of messages.                                 *)
LEMMA SentType ==
  ASSUME BInv, NEW s \in Sessions
  PROVE  Sent(s) \in Seq(Response) /\ mail[s] \in Seq(Response)
<1>1. mail[s] \in Seq(Response) /\ resps \in Seq(Response)
  BY DEF BInv, IInv, TypeOK, CInv, LogsOK
<1>2. mail[s] \o resps \in Seq(Response)
  BY <1>1
<1> QED BY <1>1, <1>2 DEF Sent

(* The deals of a user are finitely many, and stay without a new transfer. *)
LEMMA SameDeals ==
  ASSUME BInv
  PROVE  /\ \A u : IsFiniteSet(Deals(u)) /\ Cardinality(Deals(u)) \in Nat
         /\ trades' = trades /\ LotsKept => \A u : Deals(u)' = Deals(u)
<1>1. \A u : IsFiniteSet(Deals(u))
  BY FS_Subset DEF BInv, AInv, TradesSettle, Deals
<1>2. \A u : Cardinality(Deals(u)) \in Nat
  BY <1>1, FS_CardinalityType
<1>3. ASSUME trades' = trades, LotsKept PROVE \A u : Deals(u)' = Deals(u)
  <2>1. \A t \in trades : /\ placed'[t.sell].user = placed[t.sell].user
                          /\ placed'[t.buy].user = placed[t.buy].user
    BY <1>3 DEF LotsKept, BInv, IInv, TradeTerms
  <2> QED BY <1>3, <2>1 DEF Deals
<1> QED BY <1>1, <1>2, <1>3

(* A step without a deal or a login tells nobody of a deal.                *)
LEMMA NoDealKeeps ==
  ASSUME BInv, DInv, LotsKept,
         UNCHANGED <<trades, joined, user_id, issued, muddled>>,
         \A q \in Sessions :
           /\ io'[q].conn = "open" => io[q].conn \in {"handshake", "open"}
           /\ io'[q].conn # "closed" => io[q].conn # "closed"
           /\ \/ Sent(q)' = Sent(q)
              \/ \E m \in Response : /\ m.type # "report"
                                     /\ Sent(q)' = Append(Sent(q), m)
  PROVE  DInv'
<1>1. \A q \in Sessions : /\ Reported(Sent(q)') = Reported(Sent(q))
                          /\ \A u, n : Tells(Sent(q), u, n) => Tells(Sent(q)', u, n)
  BY SentType, TellsMore
<1>2. NoneTold'
  <2> SUFFICES ASSUME NEW s \in Sessions, user_id[s] = JohnDoe,
                      io'[s].conn # "closed"
               PROVE  Reported(Sent(s)') = {}
    BY DEF NoneTold
  <2> QED BY <1>1 DEF DInv, NoneTold
<1>3. ASSUME NEW s \in Sessions, NEW u \in Users \ muddled,
             io'[s].conn = "open", LoggedIn(s, u)'
      PROVE  Tells(Sent(s)', u, Cardinality(Deals(u)') - joined'[s])
  <2>1. LoggedIn(s, u) /\ user_id[s] # JohnDoe
    BY <1>3 DEF LoggedIn
  <2>2. io[s].conn = "open"
    BY <1>3, <2>1 DEF BInv, RInv, Strangers
  <2>3. Deals(u)' = Deals(u)
    BY SameDeals
  <2>4. Tells(Sent(s), u, Cardinality(Deals(u)) - joined[s])
    BY <2>1, <2>2, ReportedOnce DEF DInv
  <2> QED BY <1>1, <2>3, <2>4
<1>4. DealsReportedOnce'
  BY <1>3, ReportedOnce
<1> QED BY <1>2, <1>4 DEF DInv

(* A session is opened by its handshake and by nothing else, and never     *)
(* again once it is closed.                                                *)
LEMMA SessionConn ==
  ASSUME RInv, NEW s \in Sessions, SessionStep(s), NEW q \in Sessions
  PROVE  /\ io'[q].conn = "open" => io[q].conn \in {"handshake", "open"}
         /\ io'[q].conn # "closed" => io[q].conn # "closed"
<1>1. io \in [Sessions -> IO] /\ io[s] \in IO
  BY DEF RInv, IOInv
<1>2. CASE q # s
  <2>1. io'[q] = io[q]
    BY <1>2, SessionMoves DEF Moves
  <2> QED BY <2>1
<1>3. CASE q = s
  <2>1. ASSUME NEW x \in IO, close(s, x) PROVE io'[s].conn = "closed"
    <3>1. [x EXCEPT !.conn = "closed"].conn = "closed"
      BY DEF IO
    <3> QED BY <1>1, <2>1, <3>1 DEF close
  <2>2. CASE Accept(s)
    BY <1>1, <1>3, <2>2 DEF Accept, IO
  <2>3. CASE HandshakeDone(s)
    BY <1>3, <2>3 DEF HandshakeDone
  <2>4. CASE HandshakeFails(s)
    BY <1>1, <1>3, <2>1, <2>4 DEF HandshakeFails
  <2>5. CASE OtherRequest(s)
    <3>1. addResponses(AfterRead(s), 1).conn = io[s].conn
      BY <2>5, AnswerConn DEF OtherRequest, Received
    <3> QED BY <1>1, <1>3, <2>5, <3>1 DEF OtherRequest
  <2>6. CASE ReadFails(s)
    <3>1. [io[s] EXCEPT !.reads = @ - 1] \in IO
      BY <1>1, <2>6 DEF ReadFails, IO
    <3> QED BY <1>3, <2>1, <2>6, <3>1 DEF ReadFails
  <2>7. CASE WriteDone(s)
    <3>1. afterWrite(io[s]).conn = io[s].conn
      BY <2>7, StrangerWritten DEF WriteDone
    <3> QED BY <1>1, <1>3, <2>7, <3>1 DEF WriteDone
  <2>8. CASE WriteFails(s)
    <3>1. [io[s] EXCEPT !.writes = @ - 1] \in IO
      BY <1>1, <2>8 DEF WriteFails, IO
    <3> QED BY <1>3, <2>1, <2>8, <3>1 DEF WriteFails
  <2>9. CASE OperationFails(s)
    <3>1. [io[s] EXCEPT !.failing = @ - 1] \in IO
      BY <1>1, <2>9 DEF OperationFails, IO
    <3> QED BY <1>3, <2>1, <2>9, <3>1 DEF OperationFails
  <2> QED BY <2>2, <2>3, <2>4, <2>5, <2>6, <2>7, <2>8, <2>9 DEF SessionStep
<1> QED BY <1>2, <1>3

(* Between two handlers, what was sent is what was queued.                 *)
LEMMA SentIdle ==
  ASSUME BInv, pc = "idle", NEW s \in Sessions
  PROVE  Sent(s) = mail[s]
  BY NoSessionAssumption DEF BInv, CInv, ServingOK, Sent

(* Handlers that neither log in nor trade tell nobody.                     *)
LEMMA SessionStepDeals ==
  ASSUME BInv, DInv, NEW s \in Sessions, SessionStep(s)
  PROVE  DInv'
<1>1. UNCHANGED <<trades, placed, resps, joined, serving, mail, origin>>
  BY DEF SessionStep, vars, execVars, histVars
<1>2. UNCHANGED <<user_id, issued, muddled>>
  BY DEF SessionStep, Accept, HandshakeDone, HandshakeFails, OtherRequest,
         ReadFails, WriteDone, WriteFails, OperationFails, close, erase,
         registry
<1>3. LotsKept /\ \A q \in Sessions : Sent(q)' = Sent(q)
  BY <1>1 DEF LotsKept, Sent
<1>4. \A q \in Sessions :
        /\ io'[q].conn = "open" => io[q].conn \in {"handshake", "open"}
        /\ io'[q].conn # "closed" => io[q].conn # "closed"
  BY SessionConn DEF BInv
<1> QED BY <1>1, <1>2, <1>3, <1>4, NoDealKeeps

(* A user who logs in, once, is told of no deal before the login: its      *)
(* session was nobody's.                                                   *)
LEMMA LoginDeals ==
  ASSUME BInv, DInv, NEW s \in Sessions, NEW u \in Users, Login(s, u)
  PROVE  DInv'
<1>1. /\ Received(s) /\ Authorize(s, u)
      /\ joined' = [joined EXCEPT ![s] = DealsOf(u)]
      /\ UNCHANGED <<trades, placed, resps, serving, mail, origin>>
  BY DEF Login, AuthorizationRequest, RegisterRequest, vars, execVars, histVars
<1>2. \A q \in Sessions : Sent(q)' = Sent(q)
  BY <1>1 DEF Sent
<1>3. \A v : /\ Deals(v)' = Deals(v)
             /\ Cardinality(Deals(v)) \in Nat
  <2>1. LotsKept
    BY <1>1 DEF LotsKept
  <2> QED BY <1>1, <2>1, SameDeals
<1>4. /\ joined' \in [Sessions -> Int]
      /\ joined'[s] = Cardinality(Deals(u))
      /\ \A q \in Sessions \ {s} : joined'[q] = joined[q]
  <2>1. DealsOf(u) = Cardinality(Deals(u))
    BY DEF DealsOf, Deals
  <2>2. PICK n \in Nat : n = DealsOf(u) /\ n = Cardinality(Deals(u))
    BY <1>3, <2>1
  <2>3. joined' = [joined EXCEPT ![s] = n] /\ joined \in [Sessions -> Int]
    BY <1>1, <2>2 DEF DInv
  <2> QED BY <2>2, <2>3
<1>5. /\ user_id' = [user_id EXCEPT ![s] = Len(issued) + 1]
      /\ issued' = Append(issued, [session |-> s, user |-> u])
      /\ muddled' = muddled \cup Overlapping(s, u)
      /\ \A q \in Sessions \ {s} : io'[q] = io[q]
  BY <1>1, ReadMoves DEF Authorize, Moves, BInv
<1>6. /\ Len(issued) \in Nat
      /\ issued'[Len(issued) + 1].user = u
      /\ \A i \in DOMAIN issued : issued'[i] = issued[i]
  <2>1. PICK e : e = [session |-> s, user |-> u]
    OBVIOUS
  <2>2. e \in [session : Sessions, user : Users] /\ e.user = u
    BY <2>1
  <2>3. issued \in Seq([session : Sessions, user : Users])
    BY DEF BInv, RInv, SessionTypeOK
  <2> QED BY <1>5, <2>1, <2>2, <2>3
<1>7. /\ user_id'[s] = Len(issued) + 1 /\ user_id'[s] # JohnDoe
      /\ \A q \in Sessions \ {s} :
           user_id'[q] = user_id[q] /\ user_id[q] \in DOMAIN issued \cup {JohnDoe}
  BY <1>5, <1>6 DEF BInv, RInv, SessionTypeOK, JohnDoe
<1>8. NoneTold'
  <2> SUFFICES ASSUME NEW q \in Sessions, user_id'[q] = JohnDoe,
                      io'[q].conn # "closed"
               PROVE  Reported(Sent(q)') = {}
    BY DEF NoneTold
  <2>1. q # s
    BY <1>7
  <2> QED BY <1>2, <1>5, <1>7, <2>1 DEF DInv, NoneTold
<1>9. ASSUME NEW q \in Sessions, NEW v \in Users \ muddled',
             io'[q].conn = "open", LoggedIn(q, v)'
      PROVE  Tells(Sent(q)', v, Cardinality(Deals(v)') - joined'[q])
  <2>1. CASE q # s
    <3>1. LoggedIn(q, v) /\ io[q].conn = "open" /\ v \notin muddled
      BY <1>5, <1>6, <1>7, <1>9, <2>1 DEF LoggedIn
    <3>2. Tells(Sent(q), v, Cardinality(Deals(v)) - joined[q])
      BY <3>1, ReportedOnce DEF DInv
    <3> QED BY <1>2, <1>3, <1>4, <2>1, <3>2
  <2>2. CASE q = s
    <3>1. v = u
      BY <1>6, <1>7, <1>9, <2>2 DEF LoggedIn
    <3>2. user_id[s] = JohnDoe
      BY <1>5, <1>9, <3>1 DEF Overlapping
    <3>3. io[s].conn # "closed"
      BY <1>1, <3>2 DEF BInv, RInv, Strangers, StrangerOK, Received
    <3>4. Reported(Sent(s)) = {}
      BY <3>2, <3>3 DEF DInv, NoneTold
    <3>5. Tells(Sent(s), u, 0)
      BY <3>4, FS_EmptySet DEF Tells
    <3>6. Cardinality(Deals(u)) - joined'[s] = 0
      BY <1>3, <1>4
    <3> QED BY <1>2, <1>3, <2>2, <3>1, <3>5, <3>6
  <2> QED BY <2>1, <2>2
<1>10. DealsReportedOnce'
  BY <1>9, ReportedOnce
<1> QED BY <1>4, <1>8, <1>10 DEF DInv

(* A lot that is stored is acknowledged, and no deal yet.                  *)
LEMMA LotRequestDeals ==
  ASSUME BInv, DInv, NEW s \in Sessions, NEW u \in Users, NEW op \in Op,
         NEW n \in Counts, NEW p \in Prices, LotRequest(s, u, op, n, p)
  PROVE  DInv'
<1>1. /\ pc = "idle" /\ serving' = s
      /\ origin' = Append(origin, s)
      /\ UNCHANGED <<trades, io, mail, joined, user_id, issued, muddled>>
  BY DEF LotRequest, CreateLot, loginVars, registry
<1>2. PICK o : o = [user |-> u, op |-> op, usd |-> n, price |-> p]
  OBVIOUS
<1>3. /\ placed' = Append(placed, o) /\ o \in Order
      /\ placed \in Seq(Order) /\ origin \in Seq(Sessions)
      /\ Len(origin) = Len(placed)
  BY <1>2, InputAssumption
     DEF LotRequest, CreateLot, Order, BInv, IInv, TypeOK, CInv, LogsOK
<1>4. LotsKept
  BY <1>1, <1>3 DEF LotsKept
<1>5. PICK m : m = SuccessReqResponse(Len(placed) + 1, FALSE)
  OBVIOUS
<1>6. m \in Response /\ m.type # "report" /\ resps' = <<m>>
  <2>1. Len(placed) + 1 \in Nat
    BY <1>3
  <2>2. resps' = <<m>>
    BY <1>5 DEF LotRequest, CreateLot
  <2> QED BY <1>5, <2>1, <2>2 DEF SuccessReqResponse, Response
<1>7. ASSUME NEW q \in Sessions
      PROVE  Sent(q)' = Sent(q) \/ Sent(q)' = Append(Sent(q), m)
  <2>1. Sent(q) = mail[q] /\ mail[q] \in Seq(Response)
    BY <1>1, SentIdle, SentType
  <2>2. Sent(q)' = IF q = s THEN mail[q] \o <<m>> ELSE mail[q]
    BY <1>1, <1>6 DEF Sent
  <2>3. mail[q] \o <<m>> = Append(mail[q], m)
    BY <1>6, <2>1
  <2> QED BY <2>1, <2>2, <2>3
<1>8. \A q \in Sessions :
        \/ Sent(q)' = Sent(q)
        \/ \E x \in Response : x.type # "report" /\ Sent(q)' = Append(Sent(q), x)
  BY <1>6, <1>7
<1> QED BY <1>1, <1>4, <1>8, NoDealKeeps

(* Appending to the answers of the running handler appends to what the     *)
(* session has been sent.                                                  *)
LEMMA ConcatAppend ==
  ASSUME NEW a \in Seq(Response), NEW b \in Seq(Response), NEW m \in Response
  PROVE  a \o Append(b, m) = Append(a \o b, m)
<1>1. <<m>> \in Seq(Response)
  OBVIOUS
<1>2. Append(b, m) = b \o <<m>>
  BY AppendIsConcat
<1>3. a \o b \in Seq(Response)
  BY ConcatProperties
<1>4. Append(a \o b, m) = (a \o b) \o <<m>>
  BY <1>3, AppendIsConcat
<1>5. (a \o b) \o <<m>> = a \o (b \o <<m>>)
  BY <1>1, ConcatAssociative
<1> QED BY <1>2, <1>4, <1>5

(* A deal is reported to both parties: to the one whose lot is executed    *)
(* with the answers of the handler, to the other by the session that       *)
(* active_sessions names, and to no third user.                            *)
LEMMA Match1Deals ==
  ASSUME BInv, DInv, NEW r \in snap, Match1(r)
  PROVE  DInv'
<1>1. PICK m \in Response : /\ resps' = Append(resps, m) /\ m.type = "report"
                            /\ {m.seller, m.buyer} = {lot.user, r.user}
  BY MatchReport DEF Match1
<1>2. /\ pc = "for"
      /\ UNCHANGED <<serving, lot, placed, joined, user_id, issued, muddled>>
  BY DEF Match1, MatchOne, Matched, IsNext, loginVars, registry
<1>3. resps \in Seq(Response) /\ resps'[Len(resps')] = m
  <2>1. resps \in Seq(Response)
    BY DEF BInv, IInv, TypeOK
  <2> QED BY <1>1, <2>1
<1>4. PICK R : R = Reachable(r.user)
  OBVIOUS
<1>5. /\ io' = [q \in Sessions |-> IF q \in R
                                   THEN addResponses(io[q], 1) ELSE io[q]]
      /\ mail' = [q \in Sessions |-> IF q \in R THEN Append(mail[q], m)
                                     ELSE mail[q]]
  BY <1>3, <1>4 DEF Match1
<1>6. \A q \in Sessions : io'[q].conn = io[q].conn
  <2> SUFFICES ASSUME NEW q \in Sessions PROVE io'[q].conn = io[q].conn
    OBVIOUS
  <2>1. io[q] \in IO /\ 1 \in Nat
    BY InUse DEF BInv
  <2>2. addResponses(io[q], 1).conn = io[q].conn
    BY <2>1, AddResponses
  <2> QED BY <1>5, <2>2
<1>7. /\ r.user \in Users /\ lot.user \in Users /\ r.user # lot.user
      /\ placed[lot.id].user = lot.user /\ placed[r.id].user = r.user
  BY <1>2, SettlementFacts
     DEF BInv, IInv, TypeOK, LotInv, SnapInv, SnapRow, RowsAsPlaced, Match, Lot
<1>8. PICK t \in Trade :
        /\ trades' = trades \cup {t} /\ t \notin trades
        /\ t.sell = (IF lot.op = "sell" THEN lot.id ELSE r.id)
        /\ t.buy = (IF lot.op = "sell" THEN r.id ELSE lot.id)
  BY NewTrade DEF BInv, Match1
<1>9. {placed[t.sell].user, placed[t.buy].user} = {lot.user, r.user}
  BY <1>7, <1>8
<1>10. \A u : /\ u \in {lot.user, r.user} =>
                   Cardinality(Deals(u)') = Cardinality(Deals(u)) + 1
              /\ u \notin {lot.user, r.user} => Deals(u)' = Deals(u)
              /\ Cardinality(Deals(u)) \in Nat
  <2> SUFFICES ASSUME NEW u
               PROVE  /\ u \in {lot.user, r.user} =>
                           Cardinality(Deals(u)') = Cardinality(Deals(u)) + 1
                      /\ u \notin {lot.user, r.user} => Deals(u)' = Deals(u)
                      /\ Cardinality(Deals(u)) \in Nat
    OBVIOUS
  <2>1. /\ u \in {lot.user, r.user} => Deals(u)' = Deals(u) \cup {t}
        /\ u \notin {lot.user, r.user} => Deals(u)' = Deals(u)
        /\ t \notin Deals(u)
    BY <1>2, <1>8, <1>9 DEF Deals
  <2>2. IsFiniteSet(Deals(u)) /\ Cardinality(Deals(u)) \in Nat
    BY SameDeals
  <2>3. Cardinality(Deals(u) \cup {t}) = Cardinality(Deals(u)) + 1
    BY <2>1, <2>2, FS_AddElement
  <2> QED BY <2>1, <2>2, <2>3
<1>11. \A q \in R : /\ q \in Sessions /\ user_id[q] # JohnDoe
                    /\ \/ issued[user_id[q]].user = r.user
                       \/ issued[user_id[q]].user \in muddled
  BY <1>4, ReachableFacts DEF BInv, CInv, RegisteredAs
<1>12. serving \in Sessions /\ LoggedIn(serving, lot.user)
       /\ (lot.user \notin muddled => io[serving].conn = "open")
  BY <1>2 DEF BInv, CInv, ServingOK
<1>13. \A q \in Sessions : q \notin R =>
         Sent(q)' = IF q = serving THEN Append(Sent(q), m) ELSE Sent(q)
  <2> SUFFICES ASSUME NEW q \in Sessions, q \notin R
               PROVE  Sent(q)' = IF q = serving THEN Append(Sent(q), m)
                                 ELSE Sent(q)
    OBVIOUS
  <2>1. mail'[q] = mail[q] /\ mail[q] \in Seq(Response)
    BY <1>5, SentType
  <2>2. mail[q] \o Append(resps, m) = Append(mail[q] \o resps, m)
    BY <1>1, <1>3, <2>1, ConcatAppend
  <2> QED BY <1>1, <1>2, <2>1, <2>2 DEF Sent
<1>14. \A q \in R : q # serving => Sent(q)' = Append(Sent(q), m)
  BY <1>2, <1>5, <1>11 DEF Sent
<1>15. NoneTold'
  <2> SUFFICES ASSUME NEW q \in Sessions, user_id[q] = JohnDoe,
                      io[q].conn # "closed"
               PROVE  Reported(Sent(q)') = {}
    BY <1>2, <1>6 DEF NoneTold
  <2>1. q \notin R /\ q # serving
    BY <1>11, <1>12 DEF LoggedIn
  <2> QED BY <1>13, <2>1 DEF DInv, NoneTold
<1>16. ASSUME NEW s \in Sessions, NEW u \in Users \ muddled,
              io'[s].conn = "open", LoggedIn(s, u)'
       PROVE  Tells(Sent(s)', u, Cardinality(Deals(u)') - joined'[s])
  <2>1. /\ io[s].conn = "open" /\ LoggedIn(s, u) /\ user_id[s] # JohnDoe
        /\ issued[user_id[s]].user = u
    BY <1>2, <1>6, <1>16 DEF LoggedIn
  <2>2. Tells(Sent(s), u, Cardinality(Deals(u)) - joined[s])
    BY <2>1, ReportedOnce DEF DInv
  <2>3. u \in DOMAIN active_sessions /\ active_sessions[u] = s
    BY <2>1 DEF BInv, RInv, RegistryExact
  <2>4. s \in R => u = r.user
    BY <1>11, <1>16, <2>1
  <2>5. s = serving => u = lot.user
    BY <1>12, <2>1 DEF LoggedIn
  <2>6. Sent(s) \in Seq(Response) /\ joined[s] \in Int
        /\ Cardinality(Deals(u)) \in Nat
    BY <1>10, SentType DEF DInv
  <2>7. CASE u \in {lot.user, r.user}
    <3>1. Sent(s)' = Append(Sent(s), m)
      <4>1. CASE u = lot.user
        <5>1. s = serving
          BY <1>7, <1>12, <1>16, <2>3, <4>1 DEF BInv, RInv, RegistryExact
        <5> QED BY <1>7, <1>13, <2>4, <4>1, <5>1
      <4>2. CASE u = r.user
        <5>1. ~Expired(s)
          BY <2>1, InUse DEF BInv
        <5>2. s \in R
          BY <1>4, <2>3, <4>2, <5>1 DEF Reachable
        <5> QED BY <1>7, <1>14, <2>5, <4>2, <5>2
      <4> QED BY <2>7, <4>1, <4>2
    <3>2. u \in {m.seller, m.buyer}
      BY <1>1, <2>7
    <3>3. Tells(Append(Sent(s), m), u, Cardinality(Deals(u)) - joined[s] + 1)
      BY <1>1, <2>2, <2>6, <3>2, TellsMore
    <3>4. Cardinality(Deals(u)) - joined[s] + 1
            = Cardinality(Deals(u)') - joined'[s]
      BY <1>2, <1>10, <2>6, <2>7
    <3> QED BY <3>1, <3>3, <3>4
  <2>8. CASE u \notin {lot.user, r.user}
    <3>1. Sent(s)' = Sent(s)
      BY <1>13, <2>4, <2>5, <2>8
    <3>2. Deals(u)' = Deals(u) /\ joined' = joined
      BY <1>2, <1>10, <2>8
    <3> QED BY <2>2, <3>1, <3>2
  <2> QED BY <2>7, <2>8
<1>17. DealsReportedOnce'
  BY <1>2, <1>16, ReportedOnce
<1> QED BY <1>2, <1>15, <1>17 DEF DInv

(* The answers that are queued are those that were counted already.        *)
LEMMA ReturnDeals == ASSUME BInv, DInv, Return PROVE DInv'
<1>1. /\ pc # "idle" /\ serving' = NoSession /\ Queue(serving, resps)
      /\ UNCHANGED <<trades, placed, origin, joined, user_id, issued, muddled>>
  BY DEF Return, ReturnResponses, loginVars, registry, histVars
<1>2. PICK s \in Sessions : s = serving
  BY <1>1 DEF BInv, CInv, ServingOK
<1>3. mail' = [mail EXCEPT ![s] = mail[s] \o resps]
      /\ mail \in [Sessions -> Seq(Response)]
  BY <1>1, <1>2 DEF Queue, BInv, CInv, LogsOK
<1>4. \A q \in Sessions : Sent(q)' = Sent(q)
  BY <1>1, <1>2, <1>3, NoSessionAssumption DEF Sent
<1>5. \A q \in Sessions : io'[q].conn = io[q].conn
  <2>1. io[s].reads > 0 /\ Len(resps) \in Nat
    BY <1>1, <1>2 DEF BInv, CInv, ServingOK, IInv, TypeOK
  <2>2. PICK y : y = addResponses(AfterRead(s), Len(resps))
    OBVIOUS
  <2>3. y.conn = io[s].conn
    BY <2>1, <2>2, AnswerConn DEF BInv
  <2>4. io' = [io EXCEPT ![s] = y] /\ io \in [Sessions -> IO]
    BY <1>2, <2>2 DEF Return, BInv, RInv, IOInv
  <2> QED BY <2>3, <2>4
<1>6. LotsKept
  BY <1>1 DEF LotsKept
<1> QED BY <1>1, <1>4, <1>5, <1>6, NoDealKeeps

(* A cancellation is answered, and no deal.                                *)
LEMMA CancelDeals ==
  ASSUME BInv, DInv, NEW s \in Sessions, NEW u \in Users,
         NEW id \in 1 .. MaxRequests, CancelRequest(s, u, id), ~Stop("integrity")
  PROVE  DInv'
<1>1. Received(s) /\ Cancel(u, id) /\ pc = "idle" /\ server = "up"
  BY DEF CancelRequest, RequestOf, Cancel, CancelDeletes, CancelRefused
<1>2. PICK m \in Response : m.type # "report" /\ Answer(m)
  BY <1>1, CancelAnswers
<1>3. /\ server' = "up" /\ resps' = <<m>>
      /\ UNCHANGED <<placed, trades>>
  BY <1>1, <1>2 DEF Answer, histVars
<1>4. /\ io' = [io EXCEPT ![s] = addResponses(AfterRead(s), 1)]
      /\ mail' = [mail EXCEPT ![s] = @ \o <<m>>]
      /\ UNCHANGED <<serving, joined, origin, user_id, issued, muddled>>
  BY <1>3 DEF CancelRequest, Queue, loginVars, registry
<1>5. \A q \in Sessions : io'[q].conn = io[q].conn
  <2>1. addResponses(AfterRead(s), 1).conn = io[s].conn
    BY <1>1, AnswerConn DEF Received, BInv
  <2>2. io \in [Sessions -> IO]
    BY DEF BInv, RInv, IOInv
  <2> QED BY <1>4, <2>1, <2>2
<1>6. ASSUME NEW q \in Sessions
      PROVE  Sent(q)' = Sent(q) \/ Sent(q)' = Append(Sent(q), m)
  <2>1. Sent(q) = mail[q] /\ mail[q] \in Seq(Response)
    BY <1>1, SentIdle, SentType
  <2>2. serving' # q
    BY <1>1, <1>4, NoSessionAssumption DEF BInv, CInv, ServingOK
  <2>3. mail \in [Sessions -> Seq(Response)]
    BY DEF BInv, CInv, LogsOK
  <2>4. Sent(q)' = IF q = s THEN mail[q] \o <<m>> ELSE mail[q]
    BY <1>4, <2>2, <2>3 DEF Sent
  <2>5. mail[q] \o <<m>> = Append(mail[q], m)
    BY <2>1
  <2> QED BY <2>1, <2>4, <2>5
<1>7. \A q \in Sessions :
        \/ Sent(q)' = Sent(q)
        \/ \E x \in Response : x.type # "report" /\ Sent(q)' = Append(Sent(q), x)
  BY <1>2, <1>6
<1>8. LotsKept
  BY <1>3, <1>4 DEF LotsKept
<1> QED BY <1>3, <1>4, <1>5, <1>7, <1>8, NoDealKeeps

(* Nobody is logged in after the process ended.                            *)
LEMMA LostDeals == ASSUME BInv, DInv, SessionsLost PROVE DInv'
<1>1. /\ user_id' = [s \in Sessions |-> JohnDoe]
      /\ \A s \in Sessions : io[s].conn # "none" => io'[s].conn = "closed"
      /\ serving' = NoSession /\ mail' = mail /\ joined' = joined
  BY DEF SessionsLost
<1>2. DealsReportedOnce'
  <2>1. \A q \in Sessions, u \in Users : ~LoggedIn(q, u)'
    BY <1>1 DEF LoggedIn
  <2> QED BY <2>1, ReportedOnce
<1>3. NoneTold'
  <2> SUFFICES ASSUME NEW s \in Sessions, io'[s].conn # "closed"
               PROVE  Reported(Sent(s)') = {}
    BY DEF NoneTold
  <2>1. io[s].conn = "none" /\ user_id[s] = JohnDoe
    BY <1>1 DEF BInv, RInv, Strangers
  <2>2. s # serving
    <3>1. io[s].reads = 0
      BY <2>1, InUse DEF BInv, SessionOK
    <3>2. serving = NoSession \/ io[serving].reads > 0
      BY DEF BInv, CInv, ServingOK
    <3> QED BY <3>1, <3>2, NoSessionAssumption
  <2>3. Sent(s)' = Sent(s)
    BY <1>1, <2>2, NoSessionAssumption DEF Sent
  <2> QED BY <2>1, <2>3 DEF DInv, NoneTold
<1> QED BY <1>1, <1>2, <1>3 DEF DInv

(* Every step of the server keeps the reports complete.                    *)
LEMMA ServerStepDeals == BInv /\ DInv /\ [BNext]_bvars => DInv'
<1> SUFFICES ASSUME BInv, DInv, [BNext]_bvars PROVE DInv'
  OBVIOUS
<1>1. ASSUME NEW s \in Sessions, SessionStep(s) PROVE DInv'
  BY <1>1, SessionStepDeals
<1>2. ASSUME NEW s \in Sessions, NEW u \in Users, Login(s, u) PROVE DInv'
  BY <1>2, LoginDeals
<1>3. ASSUME NEW s \in Sessions, NEW u \in Users, NEW op \in Op,
             NEW n \in Counts, NEW p \in Prices, LotRequest(s, u, op, n, p)
      PROVE  DInv'
  BY <1>3, LotRequestDeals
<1>4. ASSUME NEW s \in Sessions, NEW u \in Users, NEW id \in 1 .. MaxRequests,
             CancelRequest(s, u, id)
      PROVE  DInv'
  <2>1. CASE Stop("integrity")
    <3>1. SessionsLost
      BY <1>4, <2>1 DEF CancelRequest, Stop
    <3> QED BY <3>1, LostDeals
  <2>2. CASE ~Stop("integrity")
    BY <1>4, <2>2, CancelDeals
  <2> QED BY <2>1, <2>2
<1>5. CASE Query \/ Reboot \/ UNCHANGED bvars
  <2>1. /\ UNCHANGED <<trades, placed, resps>>
        /\ UNCHANGED <<io, serving, mail, joined, origin, user_id, issued, muddled>>
    BY <1>5 DEF Query, Reboot, bvars, vars, QueryMatches, Restart, execVars,
                histVars, loginVars, registry
  <2>2. LotsKept /\ \A q \in Sessions : Sent(q)' = Sent(q)
    BY <2>1 DEF LotsKept, Sent
  <2> QED BY <2>1, <2>2, NoDealKeeps
<1>6. CASE Return
  BY <1>6, ReturnDeals
<1>7. ASSUME NEW r \in snap, Match1(r) PROVE DInv'
  BY <1>7, Match1Deals
<1>8. CASE Crash
  BY <1>8, LostDeals DEF Crash
<1> QED BY <1>1, <1>2, <1>3, <1>4, <1>5, <1>6, <1>7, <1>8 DEF BNext

(* A user who is logged in from one session at a time is told each deal of *)
(* its own exactly once from the login on, and no deal of others, although *)
(* the parties of a deal are told in two ways (the handler's own answers,  *)
(* and a report pushed to the session that active_sessions names), and     *)
(* whatever logins, disconnects and crashes come between.                  *)
THEOREM DealsAreReported == BSpec => []DealsReportedOnce
<1>1. BInit => BInv /\ DInv
  <2> SUFFICES ASSUME BInit PROVE DInv
    BY ServerInitInv
  <2>1. /\ \A s \in Sessions : Sent(s) = <<>>
        /\ joined \in [Sessions -> Int]
        /\ \A s \in Sessions, u \in Users : ~LoggedIn(s, u)
    BY NoSessionAssumption DEF BInit, SessionInit, Sent, LoggedIn
  <2>2. NoneTold
    BY <2>1 DEF NoneTold, Reported
  <2>3. DealsReportedOnce
    BY <2>1 DEF DealsReportedOnce
  <2> QED BY <2>1, <2>2, <2>3 DEF DInv
<1>2. BInv /\ DInv /\ [BNext]_bvars => BInv' /\ DInv'
  BY ServerStepInv, ServerStepDeals
<1>3. DInv => DealsReportedOnce
  BY DEF DInv
<1> QED BY <1>1, <1>2, <1>3, PTL DEF BSpec
-----------------------------------------------------------------------------
(* The operations outstanding on a session. *)

Ops(x) == x.reads + x.writes + x.failing

(* Whoever reports are sent to logged in, as that user, on that session. *)
ReportsGoToLogins ==
  \A u \in DOMAIN active_sessions : \E i \in DOMAIN issued :
    issued[i].session = active_sessions[u] /\ issued[i].user = u

OInv == ReadsBounded /\ ReportsGoToLogins

(* Responses that are queued start one operation at most.                  *)
LEMMA OpsQueued ==
  ASSUME NEW x \in IO, NEW n \in Nat
  PROVE  Ops(addResponses(x, n)) <= Ops(x) + 1
<1> DEFINE z == [x EXCEPT !.pending = @ + n]
<1>1. /\ z \in IO /\ z.reads = x.reads /\ z.writes = x.writes
      /\ z.failing = x.failing
  BY DEF IO
<1>2. addResponses(x, n) = IF x.pending = 0 /\ n > 0 THEN doWrite(z) ELSE z
  BY DEF addResponses
<1> HIDE DEF z
<1>3. Ops(doWrite(z)) = Ops(z) + 1 /\ Ops(z) = Ops(x) /\ Ops(x) \in Nat
  BY <1>1 DEF doWrite, Ops, IO
<1> QED BY <1>2, <1>3

(* The answers to a request take the place of the read that brought it.    *)
LEMMA OpsAnswered ==
  ASSUME RInv, NEW s \in Sessions, io[s].reads > 0, NEW n \in Nat
  PROVE  Ops(addResponses(AfterRead(s), n)) <= Ops(io[s])
<1>1. io[s] \in IO
  BY InUse
<1>2. AfterRead(s) \in IO /\ Ops(AfterRead(s)) = Ops(io[s]) - 1
      /\ Ops(io[s]) \in Nat
  BY <1>1 DEF AfterRead, Ops, IO
<1>3. PICK x : x = AfterRead(s)
  OBVIOUS
<1>4. /\ Ops(addResponses(x, n)) <= Ops(x) + 1
      /\ Ops(addResponses(x, n)) \in Int
  <2>1. x \in IO
    BY <1>2, <1>3
  <2>2. addResponses(x, n) \in IO
    BY <2>1, AddResponses
  <2>3. Ops(addResponses(x, n)) \in Int
    BY <2>2 DEF Ops, IO
  <2> QED BY <2>1, <2>3, OpsQueued
<1> QED BY <1>2, <1>3, <1>4

(* The next write or a read takes the place of the write that completed.   *)
LEMMA OpsWritten ==
  ASSUME RInv, NEW s \in Sessions, io[s].writes > 0
  PROVE  Ops(afterWrite(io[s])) = Ops(io[s])
<1>1. PICK x : x = io[s]
  OBVIOUS
<1>2. x \in IO /\ x.writes \in Nat /\ x.writes > 0 /\ x.pending \in Nat
      /\ x.pending > 0
  BY <1>1, InUse DEF SessionOK, IO
<1> DEFINE z == [x EXCEPT !.writes = @ - 1]
           y == [z EXCEPT !.pending = @ - 1]
<1>3. afterWrite(x) = IF y.pending # 0 THEN doWrite(y) ELSE doRead(y)
  BY <1>2 DEF afterWrite, IO
<1>4. z \in IO /\ Ops(z) = Ops(x) - 1 /\ z.pending = x.pending
  BY <1>2 DEF IO, Ops
<1> HIDE DEF z
<1>5. y \in IO /\ Ops(y) = Ops(z)
  BY <1>2, <1>4 DEF IO, Ops
<1> HIDE DEF y
<1>6. Ops(doWrite(y)) = Ops(y) + 1 /\ Ops(doRead(y)) = Ops(y) + 1
      /\ Ops(x) \in Nat
  BY <1>2, <1>5 DEF doWrite, doRead, Ops, IO
<1> QED BY <1>1, <1>3, <1>4, <1>5, <1>6

(* Logins are never forgotten. *)
IssuedKept ==
  \A i \in DOMAIN issued : i \in DOMAIN issued' /\ issued'[i] = issued[i]

(* Operations stay bounded in a step that starts none, but the first read  *)
(* and one for a deal that a session is told of.                           *)
LEMMA OpsBounded ==
  ASSUME BInv, BInv', ReadsBounded, LotsKept, IssuedKept, trades \subseteq trades',
         \A s \in Sessions :
           \/ Ops(io'[s]) <= Ops(io[s])
           \/ Ops(io'[s]) <= 1
           \/ /\ Ops(io'[s]) <= Ops(io[s]) + 1
              /\ \E t \in TakenFrom(s)' : t \notin trades
  PROVE  ReadsBounded'
<1> SUFFICES ASSUME NEW s \in Sessions
             PROVE  Ops(io'[s]) <= 1 + Cardinality(TakenFrom(s)')
  BY DEF ReadsBounded, Ops
<1>1. Ops(io[s]) \in Nat /\ Ops(io'[s]) \in Nat
  BY InUse DEF BInv, RInv, IOInv, Ops, IO
<1>2. PICK A : A = TakenFrom(s)
  OBVIOUS
<1>3. PICK B : B = TakenFrom(s)'
  OBVIOUS
<1>4. IsFiniteSet(A) /\ IsFiniteSet(B)
  <2>1. IsFiniteSet(trades) /\ IsFiniteSet(trades')
    BY DEF BInv, AInv, TradesSettle
  <2>2. A \subseteq trades /\ B \subseteq trades'
    BY <1>2, <1>3 DEF TakenFrom
  <2> QED BY <2>1, <2>2, FS_Subset
<1>5. A \subseteq B
  <2> SUFFICES ASSUME NEW t \in trades, t \in A PROVE t \in B
    BY <1>2 DEF TakenFrom
  <2> DEFINE taken == IF t.sell < t.buy THEN t.sell ELSE t.buy
  <2>1. placed'[taken].user = placed[taken].user
    BY DEF LotsKept, BInv, IInv, TradeTerms
  <2>2. PICK i \in DOMAIN issued :
          issued[i].session = s /\ issued[i].user = placed[taken].user
    BY <1>2 DEF TakenFrom
  <2>3. /\ i \in DOMAIN issued' /\ issued'[i].session = s
        /\ issued'[i].user = placed'[taken].user
    BY <2>1, <2>2 DEF IssuedKept
  <2> QED BY <1>3, <2>3 DEF TakenFrom
<1>6. /\ Cardinality(A) \in Nat /\ Cardinality(B) \in Nat
      /\ Cardinality(A) <= Cardinality(B)
  BY <1>4, <1>5, FS_CardinalityType, FS_Subset
<1>7. Ops(io[s]) <= 1 + Cardinality(A)
  BY <1>2 DEF ReadsBounded, Ops
<1>8. CASE Ops(io'[s]) <= Ops(io[s]) \/ Ops(io'[s]) <= 1
  BY <1>1, <1>3, <1>6, <1>7, <1>8
<1>9. CASE /\ Ops(io'[s]) <= Ops(io[s]) + 1
           /\ \E t \in TakenFrom(s)' : t \notin trades
  <2>1. PICK t \in B : t \notin A
    BY <1>2, <1>3, <1>9 DEF TakenFrom
  <2>2. Cardinality(A \cup {t}) = Cardinality(A) + 1
    BY <1>4, <2>1, FS_AddElement
  <2>3. Cardinality(A \cup {t}) <= Cardinality(B)
    BY <1>4, <1>5, <2>1, FS_Subset
  <2> QED BY <1>1, <1>3, <1>6, <1>7, <1>9, <2>2, <2>3
<1> QED BY <1>8, <1>9

(* A handler that does not trade answers, goes on or ends.                 *)
LEMMA SessionStepOps ==
  ASSUME RInv, NEW s \in Sessions, SessionStep(s)
  PROVE  \A q \in Sessions : Ops(io'[q]) <= Ops(io[q]) \/ Ops(io'[q]) <= 1
<1>1. io \in [Sessions -> IO] /\ io[s] \in IO /\ SessionOK(io[s])
      /\ \A q \in Sessions : Ops(io[q]) \in Nat
  BY DEF RInv, IOInv, Ops, IO
<1>2. ASSUME NEW x, io' = [io EXCEPT ![s] = x], Ops(x) <= Ops(io[s]) \/ Ops(x) <= 1
      PROVE  \A q \in Sessions : Ops(io'[q]) <= Ops(io[q]) \/ Ops(io'[q]) <= 1
  BY <1>1, <1>2
<1>3. CASE Accept(s)
  <2>1. Ops([io[s] EXCEPT !.conn = "handshake"]) = Ops(io[s])
    BY <1>1 DEF Ops, IO
  <2>2. io' = [io EXCEPT ![s] = [io[s] EXCEPT !.conn = "handshake"]]
    BY <1>1, <1>3 DEF Accept
  <2> QED BY <1>1, <1>2, <2>1, <2>2
<1>4. CASE HandshakeDone(s)
  <2>1. PICK x : x = [io[s] EXCEPT !.conn = "open"]
    OBVIOUS
  <2>2. x \in IO /\ Ops(x) = 0
    BY <1>1, <1>4, <2>1 DEF HandshakeDone, SessionOK, Ops, IO
  <2>3. Ops(doRead(x)) <= 1
    BY <2>2 DEF doRead, Ops, IO
  <2>4. io' = [io EXCEPT ![s] = doRead(x)]
    BY <1>1, <1>4, <2>1 DEF HandshakeDone
  <2> QED BY <1>2, <2>3, <2>4
<1>5. ASSUME NEW x \in IO, close(s, x), Ops(x) <= Ops(io[s])
      PROVE  \A q \in Sessions : Ops(io'[q]) <= Ops(io[q]) \/ Ops(io'[q]) <= 1
  <2>1. PICK y : y = [x EXCEPT !.conn = "closed"]
    OBVIOUS
  <2>2. Ops(y) = Ops(x)
    BY <2>1 DEF Ops, IO
  <2>3. io' = [io EXCEPT ![s] = y]
    BY <1>5, <2>1 DEF close
  <2> QED BY <1>2, <1>5, <2>2, <2>3
<1>6. CASE HandshakeFails(s)
  BY <1>1, <1>5, <1>6 DEF HandshakeFails
<1>7. CASE OtherRequest(s)
  <2>1. io[s].reads > 0 /\ 1 \in Nat
        /\ io' = [io EXCEPT ![s] = addResponses(AfterRead(s), 1)]
    BY <1>7 DEF OtherRequest, Received
  <2>2. Ops(addResponses(AfterRead(s), 1)) <= Ops(io[s])
    BY <2>1, OpsAnswered
  <2> QED BY <1>2, <2>1, <2>2
<1>8. CASE ReadFails(s)
  <2>1. PICK x : x = [io[s] EXCEPT !.reads = @ - 1]
    OBVIOUS
  <2>2. x \in IO /\ Ops(x) <= Ops(io[s]) /\ close(s, x)
    BY <1>1, <1>8, <2>1 DEF ReadFails, Ops, IO
  <2> QED BY <1>5, <2>2
<1>9. CASE WriteDone(s)
  <2>1. io' = [io EXCEPT ![s] = afterWrite(io[s])]
    BY <1>1, <1>9 DEF WriteDone
  <2>2. Ops(afterWrite(io[s])) <= Ops(io[s])
    BY <1>1, <1>9, OpsWritten DEF WriteDone
  <2> QED BY <1>2, <2>1, <2>2
<1>10. CASE WriteFails(s)
  <2>1. PICK x : x = [io[s] EXCEPT !.writes = @ - 1]
    OBVIOUS
  <2>2. x \in IO /\ Ops(x) <= Ops(io[s]) /\ close(s, x)
    BY <1>1, <1>10, <2>1 DEF WriteFails, Ops, IO
  <2> QED BY <1>5, <2>2
<1>11. CASE OperationFails(s)
  <2>1. PICK x : x = [io[s] EXCEPT !.failing = @ - 1]
    OBVIOUS
  <2>2. x \in IO /\ Ops(x) <= Ops(io[s]) /\ close(s, x)
    BY <1>1, <1>11, <2>1 DEF OperationFails, Ops, IO
  <2> QED BY <1>5, <2>2
<1> QED BY <1>3, <1>4, <1>6, <1>7, <1>8, <1>9, <1>10, <1>11 DEF SessionStep

(* One match: the session that is told of it is that of the older lot's    *)
(* user, and the deal is new.                                              *)
LEMMA Match1Ops ==
  ASSUME BInv, BInv', OInv, NEW r \in snap, Match1(r)
  PROVE  OInv'
<1>1. /\ pc = "for"
      /\ UNCHANGED <<placed, origin, issued, active_sessions, lot>>
  BY DEF Match1, MatchOne, Matched, IsNext, loginVars, registry
<1>2. PICK R : R = Reachable(r.user)
  OBVIOUS
<1>3. io' = [q \in Sessions |-> IF q \in R THEN addResponses(io[q], 1)
                                ELSE io[q]]
  BY <1>2 DEF Match1
<1>4. /\ r.id \in DOMAIN placed /\ lot.id = Len(placed) /\ r.id # lot.id
      /\ placed[r.id].user = r.user
  BY <1>1, SettlementFacts
     DEF BInv, IInv, AInv, LotIsNewest, TypeOK, LotInv, SnapInv, SnapRow,
         RowsAsPlaced
<1>5. r.id \in Nat /\ lot.id \in Nat /\ r.id < lot.id
  <2>1. placed \in Seq(Order)
    BY DEF BInv, IInv, TypeOK
  <2> QED BY <1>4, <2>1
<1>6. PICK t \in Trade :
        /\ trades' = trades \cup {t} /\ t \notin trades
        /\ t.sell = (IF lot.op = "sell" THEN lot.id ELSE r.id)
        /\ t.buy = (IF lot.op = "sell" THEN r.id ELSE lot.id)
  BY NewTrade DEF BInv, Match1
<1>7. (IF t.sell < t.buy THEN t.sell ELSE t.buy) = r.id
  BY <1>5, <1>6
<1>8. ASSUME NEW q \in Sessions
      PROVE  \/ Ops(io'[q]) <= Ops(io[q])
             \/ Ops(io'[q]) <= 1
             \/ /\ Ops(io'[q]) <= Ops(io[q]) + 1
                /\ \E d \in TakenFrom(q)' : d \notin trades
  <2>1. io[q] \in IO /\ Ops(io[q]) \in Nat /\ 1 \in Nat
    BY InUse DEF BInv, Ops, IO
  <2>2. CASE q \notin R
    BY <1>3, <2>1, <2>2
  <2>3. CASE q \in R
    <3>1. r.user \in DOMAIN active_sessions /\ active_sessions[r.user] = q
      BY <1>2, <2>3, ReachableFacts
    <3>2. PICK i \in DOMAIN issued :
            issued[i].session = q /\ issued[i].user = r.user
      BY <3>1 DEF OInv, ReportsGoToLogins
    <3>3. t \in TakenFrom(q)'
      BY <1>1, <1>4, <1>6, <1>7, <3>2 DEF TakenFrom
    <3>4. Ops(io'[q]) <= Ops(io[q]) + 1
      BY <1>3, <2>1, <2>3, OpsQueued
    <3> QED BY <1>6, <3>3, <3>4
  <2> QED BY <2>2, <2>3
<1>9. LotsKept /\ IssuedKept /\ trades \subseteq trades'
  BY <1>1, <1>6 DEF LotsKept, IssuedKept
<1>10. ReadsBounded'
  BY <1>8, <1>9, OpsBounded DEF OInv
<1>11. ReportsGoToLogins'
  BY <1>1 DEF OInv, ReportsGoToLogins
<1> QED BY <1>10, <1>11 DEF OInv

(* A login is one more that reports may go to, and is answered.            *)
LEMMA LoginOps ==
  ASSUME BInv, BInv', OInv, NEW s \in Sessions, NEW u \in Users, Login(s, u)
  PROVE  OInv'
<1>1. Received(s) /\ Authorize(s, u) /\ UNCHANGED <<placed, trades, origin>>
  BY DEF Login, AuthorizationRequest, RegisterRequest, vars, histVars
<1> DEFINE R == [session : Sessions, user : Users]
           login == [session |-> s, user |-> u]
           t == Len(issued) + 1
<1>2. /\ issued \in Seq(R) /\ login \in R /\ issued' = Append(issued, login)
      /\ login.session = s /\ login.user = u
  BY <1>1 DEF BInv, RInv, SessionTypeOK, Authorize
<1> HIDE DEF R, login
<1>3. IssuedKept /\ t \in DOMAIN issued' /\ issued'[t] = login
  BY <1>2 DEF IssuedKept
<1> HIDE DEF t
<1>4. ReportsGoToLogins'
  <2> SUFFICES ASSUME NEW v \in DOMAIN active_sessions'
               PROVE  \E i \in DOMAIN issued' :
                        /\ issued'[i].session = active_sessions'[v]
                        /\ issued'[i].user = v
    BY DEF ReportsGoToLogins
  <2>1. active_sessions' = [w \in DOMAIN active_sessions \cup {u} |->
                              IF w \in DOMAIN active_sessions
                              THEN active_sessions[w] ELSE s]
    BY <1>1 DEF Authorize
  <2>2. CASE v \in DOMAIN active_sessions
    BY <1>3, <2>1, <2>2 DEF OInv, ReportsGoToLogins, IssuedKept
  <2>3. CASE v \notin DOMAIN active_sessions
    <3>1. v = u /\ active_sessions'[v] = s
      BY <2>1, <2>3
    <3> QED BY <1>2, <1>3, <3>1
  <2> QED BY <2>2, <2>3
<1>5. \A q \in Sessions : Ops(io'[q]) <= Ops(io[q])
  <2>1. io \in [Sessions -> IO] /\ io[s].reads > 0 /\ 1 \in Nat
        /\ io' = [io EXCEPT ![s] = addResponses(AfterRead(s), 1)]
    BY <1>1 DEF BInv, RInv, IOInv, Authorize, Received
  <2>2. Ops(addResponses(AfterRead(s), 1)) <= Ops(io[s])
    BY <2>1, OpsAnswered DEF BInv
  <2>3. \A q \in Sessions : Ops(io[q]) \in Nat
    BY <2>1 DEF Ops, IO
  <2> QED BY <2>1, <2>2, <2>3
<1>6. LotsKept /\ trades \subseteq trades'
  BY <1>1 DEF LotsKept
<1>7. ReadsBounded'
  BY <1>3, <1>5, <1>6, OpsBounded DEF OInv
<1> QED BY <1>4, <1>7 DEF OInv

(* A step without a deal or a login starts no operation but the first.     *)
LEMMA NoDealOps ==
  ASSUME BInv, BInv', OInv, LotsKept, UNCHANGED <<trades, issued>>,
         \A q \in Sessions : Ops(io'[q]) <= Ops(io[q]) \/ Ops(io'[q]) <= 1,
         DOMAIN active_sessions' \subseteq DOMAIN active_sessions,
         \A v \in DOMAIN active_sessions' : active_sessions'[v] = active_sessions[v]
  PROVE  OInv'
<1>1. IssuedKept /\ trades \subseteq trades'
  BY DEF IssuedKept
<1>2. ReadsBounded'
  BY <1>1, OpsBounded DEF OInv
<1>3. ReportsGoToLogins'
  BY DEF OInv, ReportsGoToLogins
<1> QED BY <1>2, <1>3 DEF OInv
(* Every step of the server keeps the operations bounded.                  *)
LEMMA ServerStepOps == BInv /\ OInv /\ [BNext]_bvars => OInv'
<1> SUFFICES ASSUME BInv, OInv, [BNext]_bvars PROVE OInv'
  OBVIOUS
<1>1. BInv'
  BY ServerStepInv
<1>2. io \in [Sessions -> IO] /\ \A q \in Sessions : Ops(io[q]) \in Nat
  BY DEF BInv, RInv, IOInv, Ops, IO
<1>3. ASSUME NEW s \in Sessions, SessionStep(s) PROVE OInv'
  <2>1. UNCHANGED <<placed, trades, origin>>
    BY <1>3 DEF SessionStep, vars, histVars
  <2>2. LotsKept
    BY <2>1 DEF LotsKept
  <2>3. Shrinks
    BY <1>3 DEF SessionStep, Accept, HandshakeDone, HandshakeFails,
                OtherRequest, ReadFails, WriteDone, WriteFails,
                OperationFails, close, erase, registry, Shrinks
  <2>4. \A q \in Sessions : Ops(io'[q]) <= Ops(io[q]) \/ Ops(io'[q]) <= 1
    BY <1>3, SessionStepOps DEF BInv
  <2> QED BY <1>1, <2>1, <2>2, <2>3, <2>4, NoDealOps DEF Shrinks
<1>4. ASSUME NEW s \in Sessions, NEW u \in Users, Login(s, u) PROVE OInv'
  BY <1>1, <1>4, LoginOps
<1>5. ASSUME NEW s \in Sessions, NEW u \in Users, NEW op \in Op,
             NEW n \in Counts, NEW p \in Prices, LotRequest(s, u, op, n, p)
      PROVE  OInv'
  <2>1. UNCHANGED <<trades, io, issued, active_sessions>>
        /\ origin' = Append(origin, s)
    BY <1>5 DEF LotRequest, CreateLot, loginVars, registry
  <2>2. PICK o \in Order : placed' = Append(placed, o)
    <3>1. [user |-> u, op |-> op, usd |-> n, price |-> p] \in Order
      BY InputAssumption DEF Order
    <3> QED BY <1>5, <3>1 DEF LotRequest, CreateLot
  <2>3. LotsKept
    BY <2>1, <2>2 DEF LotsKept, BInv, IInv, TypeOK, CInv, LogsOK
  <2> QED BY <1>1, <1>2, <2>1, <2>3, NoDealOps
<1>6. ASSUME SessionsLost, LotsKept, trades' = trades PROVE OInv'
  <2>1. DOMAIN active_sessions' = {} /\ issued' = issued
    BY <1>6 DEF SessionsLost
  <2>2. \A q \in Sessions : Ops(io'[q]) <= Ops(io[q]) \/ Ops(io'[q]) <= 1
    <3>1. Ops([conn |-> "closed", reads |-> 0, writes |-> 0,
               failing |-> 0, pending |-> 0]) <= 1
      BY DEF Ops
    <3> QED BY <1>2, <1>6, <3>1 DEF SessionsLost
  <2> QED BY <1>1, <1>6, <2>1, <2>2, NoDealOps
<1>7. ASSUME NEW s \in Sessions, NEW u \in Users, NEW id \in 1 .. MaxRequests,
             CancelRequest(s, u, id)
      PROVE  OInv'
  <2>1. Received(s) /\ Cancel(u, id)
    BY <1>7 DEF CancelRequest, RequestOf
  <2>2. CASE Stop("integrity")
    <3>1. SessionsLost
      BY <1>7, <2>2 DEF CancelRequest, Stop
    <3>2. UNCHANGED <<placed, trades>> /\ origin' = origin
      BY <2>2, <3>1 DEF Stop, histVars, SessionsLost
    <3> QED BY <1>6, <3>1, <3>2 DEF LotsKept
  <2>3. CASE ~Stop("integrity")
    <3>1. PICK m \in Response : Answer(m)
      BY <2>1, <2>3, CancelAnswers
    <3>2. server' = "up" /\ UNCHANGED <<placed, trades>>
      BY <2>1, <3>1 DEF Answer, histVars, Cancel, CancelDeletes, CancelRefused
    <3>3. /\ io' = [io EXCEPT ![s] = addResponses(AfterRead(s), 1)]
          /\ UNCHANGED <<origin, issued, active_sessions>>
      BY <1>7, <3>2 DEF CancelRequest, loginVars, registry
    <3>4. io[s].reads > 0 /\ 1 \in Nat
      BY <2>1 DEF Received
    <3>5. Ops(addResponses(AfterRead(s), 1)) <= Ops(io[s])
      BY <3>4, OpsAnswered DEF BInv
    <3>6. \A q \in Sessions : Ops(io'[q]) <= Ops(io[q]) \/ Ops(io'[q]) <= 1
      BY <1>2, <3>3, <3>5
    <3>7. LotsKept
      BY <3>2, <3>3 DEF LotsKept
    <3> QED BY <1>1, <3>2, <3>3, <3>6, <3>7, NoDealOps
  <2> QED BY <2>2, <2>3
<1>8. CASE Query \/ Reboot \/ UNCHANGED bvars
  <2>1. UNCHANGED <<trades, placed, io, origin, issued, active_sessions>>
    BY <1>8 DEF Query, Reboot, bvars, vars, QueryMatches, Restart, execVars,
                histVars, loginVars, registry
  <2>2. LotsKept
    BY <2>1 DEF LotsKept
  <2> QED BY <1>1, <1>2, <2>1, <2>2, NoDealOps
<1>9. CASE Return
  <2>1. /\ pc # "idle"
        /\ UNCHANGED <<trades, placed, origin, issued, active_sessions>>
    BY <1>9 DEF Return, ReturnResponses, loginVars, registry, histVars
  <2>2. PICK s \in Sessions : s = serving
    BY <2>1 DEF BInv, CInv, ServingOK
  <2>3. io[s].reads > 0 /\ Len(resps) \in Nat
    BY <2>1, <2>2 DEF BInv, CInv, ServingOK, IInv, TypeOK
  <2>4. PICK y : y = addResponses(AfterRead(s), Len(resps))
    OBVIOUS
  <2>5. Ops(y) <= Ops(io[s])
    BY <2>3, <2>4, OpsAnswered DEF BInv
  <2>6. io' = [io EXCEPT ![s] = y]
    BY <1>9, <2>2, <2>4 DEF Return
  <2>7. \A q \in Sessions : Ops(io'[q]) <= Ops(io[q]) \/ Ops(io'[q]) <= 1
    BY <1>2, <2>5, <2>6
  <2>8. LotsKept
    BY <2>1 DEF LotsKept
  <2> QED BY <1>1, <2>1, <2>7, <2>8, NoDealOps
<1>10. ASSUME NEW r \in snap, Match1(r) PROVE OInv'
  BY <1>1, <1>10, Match1Ops
<1>11. CASE Crash
  <2>1. SessionsLost /\ UNCHANGED <<placed, trades>> /\ origin' = origin
    BY <1>11 DEF Crash, Kill, MatchRefused, Stop, histVars, SessionsLost
  <2> QED BY <1>6, <2>1 DEF LotsKept
<1> QED BY <1>3, <1>4, <1>5, <1>7, <1>8, <1>9, <1>10, <1>11 DEF BNext

(* Operations of a session overlap only as far as deals were pushed to it: *)
(* however requests, answers, failures and crashes interleave, a session   *)
(* has one operation outstanding, and at most one more for each deal in    *)
(* which another's newer lot took a lot of a user who logged in on it.     *)
THEOREM OperationsAreBounded == BSpec => []ReadsBounded
<1>1. BInit => OInv
  <2> SUFFICES ASSUME BInit PROVE OInv
    OBVIOUS
  <2>1. trades = {} /\ DOMAIN active_sessions = {}
        /\ \A s \in Sessions : Ops(io[s]) = 0
    BY DEF BInit, Init, SessionInit, Ops
  <2>2. \A s \in Sessions : TakenFrom(s) = {} /\ Cardinality(TakenFrom(s)) = 0
    BY <2>1, FS_EmptySet DEF TakenFrom
  <2> QED BY <2>1, <2>2 DEF OInv, ReadsBounded, ReportsGoToLogins, Ops
<1>2. BInv /\ OInv /\ [BNext]_bvars => BInv' /\ OInv'
  BY ServerStepInv, ServerStepOps
<1>3. OInv => ReadsBounded
  BY DEF OInv
<1> QED BY <1>1, <1>2, <1>3, ServerInitInv, PTL DEF BSpec
=============================================================================
