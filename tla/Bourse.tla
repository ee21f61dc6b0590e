------------------------------- MODULE Bourse -------------------------------
(***************************************************************************)
(* The server as a whole: the sessions and registries of Session with the  *)
(* trading core of OrderBook.  Here the counterparties that a lot's        *)
(* handler tells are those of the deals it commits, and the sessions are   *)
(* lost when the process stops.                                            *)
(*                                                                         *)
(* The thread that executes a lot request (pc # "idle") runs no other      *)
(* handler until it has queued the responses.  Until then the read that    *)
(* delivered the request counts as outstanding: its handler holds the      *)
(* session that it serves.                                                 *)
(***************************************************************************)
EXTENDS OrderBook, Session

CONSTANT NoSession  \* no lot request is being executed

ASSUME NoSessionAssumption == NoSession \notin Sessions

VARIABLES
  serving,  \* the session whose lot request is being executed
  mail,     \* history: acknowledgements and reports queued for each session
  joined,   \* history: the deals of its user when a session logged in
  origin    \* history: the session that each lot came from

loginVars == <<registry, accounts, issued, muddled>>
bvars == <<vars, io, loginVars, messages, serving, mail, joined, origin>>

BInit ==
  /\ Init
  /\ SessionInit
  /\ serving = NoSession
  /\ mail = [s \in Sessions |-> <<>>]
  /\ joined = [s \in Sessions |-> 0]
  /\ origin = <<>>

(* The number of deals that u was a party of. *)
DealsOf(u) ==
  Cardinality({t \in trades : u \in {placed[t.sell].user, placed[t.buy].user}})

Idle == server = "up" /\ pc = "idle"

-----------------------------------------------------------------------------
(* Handlers that do not trade. *)

SessionStep(s) ==
  /\ Idle
  /\ \/ Accept(s) \/ HandshakeDone(s) \/ HandshakeFails(s)
     \/ OtherRequest(s)
     \/ ReadFails(s) \/ WriteDone(s) \/ WriteFails(s)
     \/ OperationFails(s)
  /\ UNCHANGED <<vars, serving, mail, joined, origin>>

Login(s, u) ==
  /\ Idle
  /\ AuthorizationRequest(s, u) \/ RegisterRequest(s, u)
  /\ joined' = [joined EXCEPT ![s] = DealsOf(u)]
  /\ UNCHANGED <<vars, serving, mail, origin>>

(* A request on session s whose token is registered. *)
RequestOf(s, u) ==
  /\ Received(s)
  /\ user_id[s] \in DOMAIN active_users
  /\ u = active_users[user_id[s]]
  /\ messages' = messages + 1

-----------------------------------------------------------------------------
(* SELL_USD_REQUEST and BUY_USD_REQUEST. *)

LotRequest(s, u, op, n, p) ==
  /\ RequestOf(s, u)
  /\ CreateLot(u, op, n, p)
  /\ serving' = s
  /\ origin' = Append(origin, s)
  /\ UNCHANGED <<io, loginVars, mail, joined>>

(* Mutant: a session that is writing is not told. *)
ReachableIdle(u) ==
  {q \in Sessions : /\ u \in DOMAIN active_sessions
                    /\ active_sessions[u] = q
                    /\ io[q].pending = 0
                    /\ ~Expired(q)}

(* The session that active_sessions names, if its weak_ptr has not         *)
(* expired.                                                                *)
Reachable(u) ==
  {q \in Sessions : /\ u \in DOMAIN active_sessions
                    /\ active_sessions[u] = q
                    /\ ~Expired(q)}

(* One match and the report to its counterparty. *)
Match1(r) ==
  /\ MatchOne(r)
  /\ io' = [q \in Sessions |-> IF q \in Reachable(r.user)
                               THEN addResponses(io[q], 1) ELSE io[q]]
  /\ mail' = [q \in Sessions |-> IF q \in Reachable(r.user)
                                 THEN Append(mail[q], resps'[Len(resps')])
                                 ELSE mail[q]]
  /\ UNCHANGED <<loginVars, messages, serving, joined, origin>>

Query == QueryMatches /\ UNCHANGED <<io, loginVars, messages, serving, mail,
                                     joined, origin>>

(* Mutant: the acknowledgement is queued last. *)
QueueAckLast(s, rs) == mail' = [mail EXCEPT ![s] = @ \o Tail(rs) \o <<rs[1]>>]

(* pending_responses_.insert(end, new_resps) *)
Queue(s, rs) == mail' = [mail EXCEPT ![s] = @ \o rs]

Return ==
  /\ ReturnResponses
  /\ io' = [io EXCEPT ![serving] = addResponses(AfterRead(serving), Len(resps))]
  /\ Queue(serving, resps)
  /\ serving' = NoSession
  /\ UNCHANGED <<loginVars, messages, joined, origin>>

-----------------------------------------------------------------------------
(* The process ends: its sessions and registries are gone. *)
SessionsLost ==
  /\ io' = [s \in Sessions |->
              IF io[s].conn = "none" THEN io[s]
              ELSE [conn |-> "closed", reads |-> 0, writes |-> 0,
                    failing |-> 0, pending |-> 0]]
  /\ user_id' = [s \in Sessions |-> JohnDoe]
  /\ active_users' = <<>> /\ active_sessions' = <<>>
  /\ serving' = NoSession
  /\ UNCHANGED <<accounts, issued, muddled, mail, joined, origin>>

Crash ==
  /\ Kill \/ \E r \in snap : MatchRefused(r)
  /\ SessionsLost
  /\ UNCHANGED messages

Reboot == Restart /\ UNCHANGED <<io, loginVars, messages, serving, mail, joined,
                                 origin>>

(* CANCEL_REQUEST *)
CancelRequest(s, u, id) ==
  /\ RequestOf(s, u)
  /\ Cancel(u, id)
  /\ IF server' = "up"
     THEN /\ io' = [io EXCEPT ![s] = addResponses(AfterRead(s), 1)]
          /\ Queue(s, resps')
          /\ UNCHANGED <<loginVars, serving, joined, origin>>
     ELSE SessionsLost

BNext ==
  \/ \E s \in Sessions :
       \/ SessionStep(s)
       \/ \E u \in Users :
            \/ Login(s, u)
            \/ \E op \in Op, n \in Counts, p \in Prices :
                 LotRequest(s, u, op, n, p)
            \/ \E id \in 1 .. MaxRequests : CancelRequest(s, u, id)
  \/ Query \/ Return
  \/ \E r \in snap : Match1(r)
  \/ Crash \/ Reboot

BSpec == BInit /\ [][BNext]_bvars

-----------------------------------------------------------------------------
(* The properties. *)

(* The messages for session s, with what its handler is about to queue,    *)
(* and the reports among them.                                             *)
Sent(s) == IF s = serving THEN mail[s] \o resps ELSE mail[s]
Told(s) == {i \in DOMAIN Sent(s) : Sent(s)[i].type = "report"}

(* INVARIANT.  A user who is logged in from one session at a time is told  *)
(* each of its deals exactly once on that session, from its login on,      *)
(* whether its own lot or another's completed the deal, and is told of no  *)
(* other deal.                                                             *)
DealsReportedOnce ==
  \A s \in Sessions, u \in Users \ muddled :
    io[s].conn = "open" /\ LoggedIn(s, u) =>
      /\ Cardinality(Told(s)) = DealsOf(u) - joined[s]
      /\ \A i \in Told(s) : u \in {Sent(s)[i].seller, Sent(s)[i].buyer}

(* The deals in which a newer lot took one of a user who ever logged in on *)
(* session s: s may have been told of them while it did not write.         *)
TakenFrom(s) ==
  {t \in trades :
     LET taken == IF t.sell < t.buy THEN t.sell ELSE t.buy IN
     \E i \in DOMAIN issued :
       issued[i].session = s /\ issued[i].user = placed[taken].user}

(* INVARIANT.  Operations of a session overlap only as far as reports were *)
(* pushed to it: each such deal may end in one more doRead.  The answers   *)
(* to its own requests, a lot's loop with its reports included, never add  *)
(* one.                                                                    *)
ReadsBounded ==
  \A s \in Sessions :
    io[s].reads + io[s].writes + io[s].failing <= 1 + Cardinality(TakenFrom(s))

(* INVARIANT.  A report on a lot follows the acknowledgement of the lot on *)
(* the session that placed it: the client knows the lot by then.           *)
AckBeforeReport ==
  \A s \in Sessions : \A i \in DOMAIN mail[s] :
    LET m == mail[s][i] IN
    m.type = "report" /\ origin[m.lot] = s /\ placed[m.lot].user \notin muddled =>
      \E j \in 1 .. i - 1 : mail[s][j] = SuccessReqResponse(m.lot, FALSE)
=============================================================================
