----------------------------- MODULE Settlement -----------------------------
(***************************************************************************)
(* The database manager under the handlers of OrderBook: a settlement is   *)
(* executed statement by statement in the transaction worker_, and can     *)
(* stop at each.  worker_ is opened by the first statement that finds none *)
(* and closed by CommitTransactions only, so that handlers which just read *)
(* (balance, quotation, login, a refused cancellation, a query without a   *)
(* match) leave it open to the next handler.                               *)
(*                                                                         *)
(* data, requests and deal_history are the tables as committed.            *)
(***************************************************************************)
EXTENDS OrderBook

VARIABLES
  worker,  \* worker_: the tables as the open transaction sees them
  todo     \* statements of the settlement of row todo.row still to execute

svars == <<vars, worker, todo>>

(* worker_ is null. *)
NoWorker == <<>>

(* No settlement is being executed. *)
None == <<>>

(* began: the lot that was the newest when the transaction was opened,     *)
(* which stands for the time that NOW() returns in it.                     *)
SInit == Init /\ worker = NoWorker /\ todo = None

Tables == [data |-> data, requests |-> requests, deal_history |-> deal_history]

(* MakeTransaction and MakeTransaction1 as far as they open worker_. *)
Opened ==
  IF worker = NoWorker THEN [tables |-> Tables, began |-> Len(placed)]
  ELSE worker

-----------------------------------------------------------------------------
(* The statements of a settlement that write. *)

statement(kind, who, x) == [kind |-> kind, who |-> who, x |-> x]

(* The end that both functions have in common. *)
PayStatements(tx) ==
  LET rub == Wrap(tx.price * tx.usd) IN
  <<statement("usd", tx.buyer, tx.usd), statement("rub", tx.buyer, -rub),
    statement("usd", tx.seller, -tx.usd), statement("rub", tx.seller, rub)>>

(* closeRequest settles one request, closeTwoWayRequests both; date as in  *)
(* OrderBook.                                                              *)
StatementsOf(r) ==
  LET tx == SettlementOf(r)
      owner(id) == requests[id].user
      other == IF tx.closed[1] = lot.id THEN r.id ELSE lot.id
      close(id) == <<statement("insert", id,
                               [buyer |-> tx.buyer, seller |-> tx.seller,
                                request |-> id,
                                date |-> Len(deal_history) + 1]),
                     statement("deactivate", owner(id), 0)>>
  IN (IF Len(tx.closed) = 1
      THEN <<statement("take", owner(other), tx.usd)>> \o close(tx.closed[1])
      ELSE close(tx.closed[1]) \o close(tx.closed[2]))
     \o PayStatements(tx)

(* The tables t after a statement. *)
Exec(s, t) ==
  CASE s.kind = "take" -> [t EXCEPT !.requests = TakeUsd(@, s.who, s.x)]
    [] s.kind = "deactivate" -> [t EXCEPT !.requests = Deactivate(@, s.who)]
    [] s.kind = "insert" -> [t EXCEPT !.deal_history = Append(@, s.x)]
    [] s.kind = "usd" -> [t EXCEPT !.data[s.who].usd = @ + s.x]
    [] s.kind = "rub" -> [t EXCEPT !.data[s.who].rub = @ + s.x]

(* What the database checks at each statement. *)
UniqueIn(t) ==
  \A i, j \in DOMAIN t.deal_history :
    t.deal_history[i].request = t.deal_history[j].request => i = j
InRange(t) ==
  /\ \A id \in DOMAIN t.requests : t.requests[id].usd \in Int32
  /\ \A u \in Users : t.data[u].usd \in Int32 /\ t.data[u].rub \in Int32

-----------------------------------------------------------------------------
(* The handlers of OrderBook between settlements, and worker_. *)

(* Mutant: the transaction goes on after the lot is stored. *)
LotKeepsWorker(u, op, n, p) ==
  /\ CreateLot(u, op, n, p)
  /\ worker' = [Opened EXCEPT !.tables.requests = requests']
  /\ UNCHANGED todo

(* INSERT ... RETURNING id, committed. *)
StoreLot(u, op, n, p) ==
  CreateLot(u, op, n, p) /\ worker' = NoWorker /\ UNCHANGED todo

Query == QueryMatches /\ worker' = Opened /\ UNCHANGED todo

(* The loop ends by its counter, or by a query without a match. *)
Return ==
  /\ ReturnResponses
  /\ worker' = IF done = lot.usd THEN worker ELSE Opened
  /\ UNCHANGED todo

(* Mutant: the DELETE is not committed. *)
CancelUncommitted(u, id) ==
  /\ server = "up" /\ pc = "idle"
  /\ Owns(u, id) /\ requests[id].active
  /\ worker' = [Opened EXCEPT !.tables.requests =
                  [i \in DOMAIN requests \ {id} |-> requests[i]]]
  /\ UNCHANGED <<vars, todo>>

Delete(u, id) == CancelDeletes(u, id) /\ worker' = NoWorker /\ UNCHANGED todo

Refuse(u, id) == CancelRefused(u, id) /\ worker' = Opened /\ UNCHANGED todo

(* GET_BALANCE_REQUEST, UPDATE_REQUEST, AUTHORIZATION_REQUEST, and          *)
(* REGISTER_REQUEST of a name that is occupied.                            *)
Read ==
  /\ server = "up" /\ pc = "idle"
  /\ worker' = Opened
  /\ UNCHANGED <<vars, todo>>

(* REGISTER_REQUEST of a new name commits the new row of data, which has   *)
(* no lots and no money yet, and the SELECT of the login that follows      *)
(* opens worker_ anew.                                                     *)
Register ==
  /\ server = "up" /\ pc = "idle"
  /\ worker' = [tables |-> Tables, began |-> Len(placed)]
  /\ UNCHANGED <<vars, todo>>

Ended == worker' = NoWorker /\ todo' = None

Die == Kill /\ Ended

(* The constructor of DataBaseManager: createTables finds the tables and   *)
(* commits.                                                                *)
Reconnect == Restart /\ Ended

-----------------------------------------------------------------------------
(* closeRequest and closeTwoWayRequests. *)

(* Their SELECTs; exec1 throws if a request is not there. *)
Begin(r) ==
  /\ todo = None
  /\ IsNext(r)
  /\ IF {r.id, lot.id} \subseteq DOMAIN requests
     THEN /\ todo' = [row |-> r, statements |-> StatementsOf(r)]
          /\ worker' = Opened
          /\ UNCHANGED vars
     ELSE Stop("integrity") /\ Ended

(* Mutant: every statement is a transaction of its own. *)
StatementCommits ==
  LET t == Exec(Head(todo.statements), Opened.tables) IN
  /\ todo # None /\ todo.statements # <<>>
  /\ UniqueIn(t) /\ InRange(t)
  /\ data' = t.data /\ requests' = t.requests
  /\ deal_history' = t.deal_history
  /\ worker' = NoWorker
  /\ todo' = [todo EXCEPT !.statements = Tail(@)]
  /\ UNCHANGED <<server, execVars, histVars>>

Statement ==
  LET t == Exec(Head(todo.statements), Opened.tables) IN
  /\ todo # None /\ todo.statements # <<>>
  /\ IF UniqueIn(t) /\ InRange(t)
     THEN /\ worker' = [Opened EXCEPT !.tables = t]
          /\ todo' = [todo EXCEPT !.statements = Tail(@)]
          /\ UNCHANGED vars
     ELSE Stop(IF UniqueIn(t) THEN "out_of_range" ELSE "integrity") /\ Ended

(* CommitTransactions, and the rest of the iteration as in MatchOne. *)
Commit ==
  LET r == todo.row
      tx == SettlementOf(r)
  IN /\ todo # None /\ todo.statements = <<>>
     /\ data' = worker.tables.data
     /\ requests' = worker.tables.requests
     /\ deal_history' = worker.tables.deal_history
     /\ Matched(r, tx)
     /\ UNCHANGED <<server, lot, placed, cut>>
     /\ Ended

(* The steps of the lot handler. *)
Running ==
  \/ Query \/ Return \/ Statement \/ Commit
  \/ \E r \in snap : Begin(r)

SNext ==
  \/ \E u \in Users, op \in Op, n \in Counts, p \in Prices :
       StoreLot(u, op, n, p)
  \/ Running
  \/ \E u \in Users, id \in 1 .. MaxRequests : Delete(u, id) \/ Refuse(u, id)
  \/ Read \/ Register \/ Die \/ Reconnect

SSpec == SInit /\ [][SNext]_svars /\ WF_svars(Running)

-----------------------------------------------------------------------------
(* The properties. *)

(* INVARIANT.  Outside a settlement the open transaction holds no write    *)
(* that is not committed: the next handler, which goes on in it, reads     *)
(* what is in the tables (a balance, the matching lots), and a crash loses *)
(* nothing that was answered.                                              *)
ReadsSeeCommitted ==
  worker # NoWorker /\ todo = None => worker.tables = Tables

(* INVARIANT.  The date of a deal is later than its lot: NOW() is the      *)
(* start of the transaction, and a settlement never runs in one that an    *)
(* earlier handler has left open.                                          *)
DealsAreDated ==
  worker # NoWorker /\ pc # "idle" => worker.began = lot.id

(* REFINEMENT.  The statements, wherever they fail, implement the atomic   *)
(* MatchOne of OrderBook: nothing of an unfinished settlement is ever in   *)
(* the tables.  A handler that runs also finishes.                         *)
BookSpec == FairSpec
=============================================================================
