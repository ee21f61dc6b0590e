------------------------------ MODULE Session ------------------------------
(***************************************************************************)
(* The connections of the server: network::Session, the accept loop of     *)
(* network::Server, its two registries active_users_ and active_sessions_, *)
(* and what execRequest does to them.                                      *)
(*                                                                         *)
(* The server has one thread; each action is one completion handler of     *)
(* boost::asio, run to its end.  A session is kept alive by its            *)
(* outstanding operations only.  Those started before its socket is closed *)
(* may still complete either way, since the completion may be queued       *)
(* already; those started on a closed socket fail.                         *)
(*                                                                         *)
(* What trading does to the tables is the subject of OrderBook: here a lot *)
(* request is a choice of the users it trades with, match by match.        *)
(***************************************************************************)
EXTENDS Participants, Integers, Sequences, FiniteSets

CONSTANTS
  Sessions,     \* the connections clients ever make
  MaxMessages,  \* bound on the requests that clients send
  MaxMatches    \* bound on the matches of one lot request

ASSUME MessagesAssumption == MaxMessages \in Nat /\ MaxMatches \in Nat

VARIABLES
  io,               \* the state of each session's socket and queue
  user_id,          \* each session's user_id_: a token, or JohnDoe
  active_users,     \* the registry from tokens to users
  active_sessions,  \* the registry from users to sessions
  accounts,         \* the users that have a row in table data
  messages,         \* how many requests were read
  issued,           \* history: every login; its index is the token issued
  muddled           \* history: users not logged in from one session at a time

registry == <<user_id, active_users, active_sessions>>
sessionVars == <<io, registry, accounts, messages, issued, muddled>>

JohnDoe == 0

(* conn: of the socket; reads, writes: operations started while it was     *)
(* open; failing: operations started after it was closed; pending: the     *)
(* length of pending_responses_.                                           *)
IO == [conn : {"none", "handshake", "open", "closed"},
       reads : Nat, writes : Nat, failing : Nat, pending : Nat]

SessionTypeOK ==
  /\ io \in [Sessions -> IO]
  /\ user_id \in [Sessions -> {JohnDoe} \cup DOMAIN issued]
  /\ DOMAIN active_users \subseteq DOMAIN issued
  /\ \A t \in DOMAIN active_users : active_users[t] = issued[t].user
  /\ DOMAIN active_sessions \subseteq Users
  /\ \A u \in DOMAIN active_sessions : active_sessions[u] \in Sessions
  /\ accounts \subseteq Users
  /\ messages \in 0 .. MaxMessages
  /\ issued \in Seq([session : Sessions, user : Users])
  /\ muddled \subseteq Users

SessionInit ==
  /\ io = [s \in Sessions |-> [conn |-> "none", reads |-> 0, writes |-> 0,
                               failing |-> 0, pending |-> 0]]
  /\ user_id = [s \in Sessions |-> JohnDoe]
  /\ active_users = <<>>
  /\ active_sessions = <<>>
  /\ accounts \in SUBSET Users
  /\ messages = 0
  /\ issued = <<>>
  /\ muddled = {}

-----------------------------------------------------------------------------
(* The methods of a session, on its state x. *)

doRead(x) == IF x.conn = "closed" THEN [x EXCEPT !.failing = @ + 1]
             ELSE [x EXCEPT !.reads = @ + 1]

doWrite(x) == IF x.conn = "closed" THEN [x EXCEPT !.failing = @ + 1]
              ELSE [x EXCEPT !.writes = @ + 1]

(* Mutant: a write is started for every response. *)
addResponsesAlwaysWrites(x, n) ==
  IF n = 0 THEN x ELSE doWrite([x EXCEPT !.pending = @ + n])

(* addResponsesQueue, and the same lines in the handler of doRead: n       *)
(* responses are queued, and a write is started if none is in progress.    *)
addResponses(x, n) ==
  LET y == [x EXCEPT !.pending = @ + n] IN
  IF x.pending = 0 /\ n > 0 THEN doWrite(y) ELSE y

(* Mutant: after the last response the session does not read again. *)
afterWriteStops(x) ==
  LET y == [x EXCEPT !.writes = @ - 1, !.pending = @ - 1] IN
  IF y.pending # 0 THEN doWrite(y) ELSE y

(* Mutant: a write is not followed by the next one. *)
afterWriteReads(x) == doRead([x EXCEPT !.writes = @ - 1, !.pending = @ - 1])

(* Mutant: the response is popped twice. *)
afterWritePopsTwice(x) ==
  LET y == [x EXCEPT !.writes = @ - 1, !.pending = @ - 2] IN
  IF y.pending # 0 THEN doWrite(y) ELSE doRead(y)

(* Mutant: the session reads again after every write. *)
afterWriteReadsToo(x) ==
  LET y == doRead([x EXCEPT !.writes = @ - 1, !.pending = @ - 1]) IN
  IF y.pending # 0 THEN doWrite(y) ELSE y

(* The handler of doWrite on success. *)
afterWrite(x) ==
  LET y == [x EXCEPT !.writes = @ - 1, !.pending = @ - 1] IN
  IF y.pending # 0 THEN doWrite(y) ELSE doRead(y)

(* Mutant: the token is kept. *)
eraseKeepsToken(s) ==
  /\ IF user_id[s] \in DOMAIN active_users
     THEN active_sessions' =
            [u \in DOMAIN active_sessions \ {active_users[user_id[s]]} |->
               active_sessions[u]]
     ELSE UNCHANGED active_sessions
  /\ UNCHANGED <<user_id, active_users>>

(* Mutant: the tokens of all logins of the user go. *)
eraseUser(s) ==
  /\ IF user_id[s] \in DOMAIN active_users
     THEN LET u == active_users[user_id[s]] IN
          /\ active_sessions' =
               [v \in DOMAIN active_sessions \ {u} |-> active_sessions[v]]
          /\ active_users' =
               [t \in {i \in DOMAIN active_users : active_users[i] # u} |->
                  active_users[t]]
     ELSE UNCHANGED <<active_users, active_sessions>>
  /\ UNCHANGED user_id

(* The part of close that clears the registries. *)
erase(s) ==
  /\ IF user_id[s] \in DOMAIN active_users
     THEN /\ active_sessions' =
               [u \in DOMAIN active_sessions \ {active_users[user_id[s]]} |->
                  active_sessions[u]]
          /\ active_users' =
               [t \in DOMAIN active_users \ {user_id[s]} |-> active_users[t]]
     ELSE UNCHANGED <<active_users, active_sessions>>
  /\ UNCHANGED user_id

(* A handler that ended with an error: x is the state without it. *)
close(s, x) ==
  /\ io' = [io EXCEPT ![s] = [x EXCEPT !.conn = "closed"]]
  /\ erase(s)
  /\ UNCHANGED <<accounts, messages, issued, muddled>>

-----------------------------------------------------------------------------
(* doAccept and start.  An accept that fails changes nothing: doAccept     *)
(* goes on with a new session, and the one that was made for it is gone.   *)
Accept(s) ==
  /\ io[s].conn = "none"
  /\ io' = [io EXCEPT ![s].conn = "handshake"]
  /\ UNCHANGED <<registry, accounts, messages, issued, muddled>>

HandshakeDone(s) ==
  /\ io[s].conn = "handshake"
  /\ io' = [io EXCEPT ![s] = doRead([@ EXCEPT !.conn = "open"])]
  /\ UNCHANGED <<registry, accounts, messages, issued, muddled>>

HandshakeFails(s) == io[s].conn = "handshake" /\ close(s, io[s])

-----------------------------------------------------------------------------
(* The handler of doRead on success, by the branches of execRequest. *)

Received(s) == io[s].reads > 0 /\ messages < MaxMessages

(* The state of s without the read that completed. *)
AfterRead(s) == [io[s] EXCEPT !.reads = @ - 1]

(* Requests answered by one response that leave the registries alone:      *)
(* GET_BALANCE, CANCEL, UPDATE, an unknown type, and every BadResponse.    *)
OtherRequest(s) ==
  /\ Received(s)
  /\ messages' = messages + 1
  /\ io' = [io EXCEPT ![s] = addResponses(AfterRead(s), 1)]
  /\ UNCHANGED <<registry, accounts, issued, muddled>>

LoggedIn(s, u) == user_id[s] # JohnDoe /\ issued[user_id[s]].user = u

(* The users whose logins overlap once s logs in as u. *)
Overlapping(s, u) ==
  {v \in Users : LoggedIn(s, v)}
    \cup {v \in {u} : user_id[s] # JohnDoe
                        \/ \E q \in Sessions \ {s} : LoggedIn(q, u)
                                                     /\ io[q].conn # "closed"}

(* AUTHORIZATION_REQUEST with the right password.  The token is random and *)
(* none that is in use; emplace keeps an entry that is already there.      *)
Authorize(s, u) ==
  LET t == Len(issued) + 1 IN
  /\ issued' = Append(issued, [session |-> s, user |-> u])
  /\ active_users' = [i \in DOMAIN active_users \cup {t} |->
                        IF i = t THEN u ELSE active_users[i]]
  /\ active_sessions' = [v \in DOMAIN active_sessions \cup {u} |->
                           IF v \in DOMAIN active_sessions
                           THEN active_sessions[v] ELSE s]
  /\ user_id' = [user_id EXCEPT ![s] = t]
  /\ io' = [io EXCEPT ![s] = addResponses(AfterRead(s), 1)]
  /\ messages' = messages + 1
  /\ muddled' = muddled \cup Overlapping(s, u)

AuthorizationRequest(s, u) ==
  /\ Received(s)
  /\ u \in accounts
  /\ Authorize(s, u)
  /\ UNCHANGED accounts

(* REGISTER_REQUEST of a new name falls through to the authorization. *)
RegisterRequest(s, u) ==
  /\ Received(s)
  /\ u \notin accounts
  /\ accounts' = accounts \cup {u}
  /\ Authorize(s, u)

(* A session is destroyed when its last operation has completed. *)
Expired(s) == io[s].reads + io[s].writes + io[s].failing = 0

(* The counterparties of the matches of a lot, in their order. *)
Matches == UNION {[1 .. n -> accounts] : n \in 0 .. MaxMatches}

(* The number of reports pushed to session q for the matches in told. *)
Reports(q, told) ==
  Cardinality({i \in DOMAIN told : /\ told[i] \in DOMAIN active_sessions
                                   /\ active_sessions[told[i]] = q
                                   /\ ~Expired(q)})

(* SELL_USD_REQUEST and BUY_USD_REQUEST: a report to the counterparty of   *)
(* each match, then the acknowledgement and the same reports to s.         *)
TradingRequest(s, told) ==
  LET token == user_id[s] IN
  /\ Received(s)
  /\ token \in DOMAIN active_users
  /\ \A i \in DOMAIN told : told[i] # active_users[token]
  /\ messages' = messages + 1
  /\ io' = [q \in Sessions |->
              IF q = s
              THEN addResponses(addResponses(AfterRead(s), Reports(s, told)),
                                1 + Len(told))
              ELSE addResponses(io[q], Reports(q, told))]
  /\ UNCHANGED <<registry, accounts, issued, muddled>>

(* The other completions. *)
ReadFails(s) ==
  io[s].reads > 0 /\ close(s, [io[s] EXCEPT !.reads = @ - 1])

WriteDone(s) ==
  /\ io[s].writes > 0
  /\ io' = [io EXCEPT ![s] = afterWrite(@)]
  /\ UNCHANGED <<registry, accounts, messages, issued, muddled>>

WriteFails(s) ==
  io[s].writes > 0 /\ close(s, [io[s] EXCEPT !.writes = @ - 1])

(* Mutant: an operation that failed is started again. *)
OperationRetried(s) == io[s].failing > 0 /\ close(s, io[s])

OperationFails(s) ==
  io[s].failing > 0 /\ close(s, [io[s] EXCEPT !.failing = @ - 1])

SessionNext ==
  \E s \in Sessions :
    \/ Accept(s) \/ HandshakeDone(s) \/ HandshakeFails(s)
    \/ OtherRequest(s)
    \/ \E u \in Users : AuthorizationRequest(s, u) \/ RegisterRequest(s, u)
    \/ \E told \in Matches : TradingRequest(s, told)
    \/ ReadFails(s) \/ WriteDone(s) \/ WriteFails(s) \/ OperationFails(s)

SessionSpec == SessionInit /\ [][SessionNext]_sessionVars

(* TCP and boost::asio complete every write, one way or the other, and     *)
(* every operation on a closed socket.                                     *)
FairSessionSpec ==
  /\ SessionSpec
  /\ \A s \in Sessions :
       /\ WF_sessionVars(WriteDone(s) \/ WriteFails(s))
       /\ WF_sessionVars(io[s].conn = "closed" /\ ReadFails(s))
       /\ WF_sessionVars(OperationFails(s))

-----------------------------------------------------------------------------
(* The properties. *)

(* INVARIANT.  An open session is never deaf: a read or a write of it is   *)
(* outstanding, whatever reports are pushed to it between its own requests *)
(* and answers.  Otherwise nothing would hold it and it would vanish with  *)
(* its client still connected.                                             *)
NeverDeaf ==
  \A s \in Sessions : io[s].conn = "open" => io[s].reads + io[s].writes > 0

(* INVARIANT.  At most one write of a session is outstanding, and one is   *)
(* as long as a response is queued: resp_buffer_ is overwritten by the     *)
(* next doWrite, and nobody else would send what is queued.                *)
OneWriteAtATime ==
  \A s \in Sessions :
    /\ io[s].writes <= 1
    /\ io[s].conn = "open" => (io[s].writes = 1 <=> io[s].pending > 0)

(* INVARIANT.  As long as a user is logged in from one session at a time,  *)
(* and that session logs in once, the registries say exactly who is        *)
(* connected: reports find the open session of the user, tokens end with   *)
(* their session, also when handlers run after close or close runs twice.  *)
RegistryExact ==
  \A u \in Users \ muddled :
    /\ u \in DOMAIN active_sessions =>
         /\ io[active_sessions[u]].conn = "open"
         /\ LoggedIn(active_sessions[u], u)
    /\ \A s \in Sessions :
         io[s].conn = "open" /\ LoggedIn(s, u) =>
           /\ u \in DOMAIN active_sessions /\ active_sessions[u] = s
           /\ user_id[s] \in DOMAIN active_users
    /\ \A t \in DOMAIN active_users :
         active_users[t] = u => io[issued[t].session].conn = "open"

(* INVARIANT.  For every user, however many logins overlap: an open        *)
(* session that has logged in keeps the right to trade.  Its token is      *)
(* registered for the user it logged in as, and is no other session's, so  *)
(* that closing another session of that user, or the late handlers of one, *)
(* may lose it its reports but never its login.                            *)
LoginsSurvive ==
  \A s \in Sessions :
    user_id[s] # JohnDoe =>
      /\ io[s].conn = "open" =>
           /\ user_id[s] \in DOMAIN active_users
           /\ LoggedIn(s, active_users[user_id[s]])
      /\ issued[user_id[s]].session = s

(* LIVENESS, under FairSessionSpec.  Every queued response is sent or the  *)
(* connection is closed.                                                   *)
ResponsesLeave ==
  \A s \in Sessions :
    (io[s].pending > 0) ~> (io[s].pending = 0 \/ io[s].conn = "closed")

(* LIVENESS, under FairSessionSpec.  A closed session is destroyed: no     *)
(* operation keeps it alive for ever, although handlers on a closed        *)
(* session may start new ones.                                             *)
ClosedIsDestroyed ==
  \A s \in Sessions : (io[s].conn = "closed") ~> Expired(s)
=============================================================================
