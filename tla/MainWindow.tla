----------------------------- MODULE MainWindow -----------------------------
(***************************************************************************)
(* The windows of the client: MainWindow with its list of lots and its     *)
(* list of reports, AuthWindow and InputWindow.  Each action is one slot,  *)
(* run to its end by the event loop.                                       *)
(*                                                                         *)
(* Requests leave and responses arrive in order (module Client); the       *)
(* server's handlers are reduced to what they answer to this window, the   *)
(* only one in which its user is logged in.  Rows are numbered from 1      *)
(* here, and from 0 in the code.  Widgets and labels that nothing reads    *)
(* again (balance, chart, last error) are left out.                        *)
(***************************************************************************)
EXTENDS Integers, Sequences, FiniteSets

Seqs == INSTANCE SequencesExt

CONSTANTS
  Counts,       \* the usd_count values that the user enters
  FirstId,      \* id of the first lot; smaller ids are lots of others
  MaxLots,      \* bound on the lots the user places
  MaxReports,   \* bound on the reports of the server
  MaxInFlight   \* bound on the messages under way when a button is pressed

ASSUME BoundsAssumption ==
  /\ FirstId \in Nat \ {0} /\ MaxLots \in Nat
  /\ MaxReports \in Nat /\ MaxInFlight \in Nat

VARIABLES
  app,              \* the window that is shown, or which call threw
  rows,             \* Model: the rows of ListView
  current,          \* ListView->currentIndex(), 0 if there is none
  ReportModel,      \* the lots that the reports shown are about
  to_add_requests,  \* lots without acknowledgement, by the row they will get
  idx_by_lot,       \* from rows to lot ids
  lot_by_idx,       \* from lot ids to rows
  slots,            \* slots connected to InputWindow::set_price
  input_shown,      \* InputWindow is shown
  requests,         \* requests on the way to the server
  responses,        \* responses on the way to the window
  lots,             \* the user's lots in the server's tables, by id
  hasty,            \* history: a lot placed before the last answer was there
  shifted           \* history: a row above another one was removed

maps == <<to_add_requests, idx_by_lot, lot_by_idx>>
list == <<rows, current, ReportModel>>
dialog == <<slots, input_shown>>
history == <<hasty, shifted>>
vars == <<app, list, maps, dialog, requests, responses, lots, history>>

Op == {"sell", "buy"}
Order == [op : Op, usd : Counts]
LotIds == FirstId .. FirstId + MaxLots - 1
OtherLot == FirstId - 1
NoReport == 0

(* A row: the lot that it was made for (history), and what it says. *)
Text == [says : {"request"}, op : Op, usd : Counts]
          \cup [says : {"completed"}, report : LotIds \cup {OtherLot, NoReport}]
Row == [lot : LotIds, text : Text]

(* What threw an exception that ended the client. *)
Thrown == {"std::stoi", "to_add_requests.at", "idx_by_lot.at", "lot_by_idx.at"}

TypeOK ==
  /\ app \in {"auth", "main"} \cup Thrown
  /\ rows \in Seq(Row)
  /\ current \in 0 .. Len(rows)
  /\ ReportModel \in Seq(LotIds \cup {OtherLot})
  /\ \A r \in DOMAIN to_add_requests : r > 0 /\ to_add_requests[r] \in Order
  /\ \A r \in DOMAIN idx_by_lot : r > 0 /\ idx_by_lot[r] \in LotIds
  /\ \A id \in DOMAIN lot_by_idx : id \in LotIds /\ lot_by_idx[id] > 0
  /\ slots \in Seq(Op)
  /\ DOMAIN lots \subseteq LotIds

Init ==
  /\ app = "auth"
  /\ rows = <<>> /\ current = 0 /\ ReportModel = <<>>
  /\ to_add_requests = <<>> /\ idx_by_lot = <<>> /\ lot_by_idx = <<>>
  /\ slots = <<>> /\ input_shown = FALSE
  /\ requests = <<>> /\ responses = <<>>
  /\ lots = <<>>
  /\ hasty = FALSE /\ shifted = FALSE

(* std::map: emplace keeps an entry that is already there. *)
Emplace(f, k, v) ==
  [i \in DOMAIN f \cup {k} |-> IF i \in DOMAIN f THEN f[i] ELSE v]
Erase(f, k) == [i \in DOMAIN f \ {k} |-> f[i]]

Throw(call) ==
  /\ app' = call
  /\ UNCHANGED <<list, maps, dialog, requests, responses, lots, history>>

-----------------------------------------------------------------------------
(* The requests.  The token that they carry is left out. *)

CreateLotRequest(op, usd) == [type |-> "lot", order |-> [op |-> op, usd |-> usd]]
BalanceRequest       == [type |-> "balance"]
CancelRequest(id)    == [type |-> "cancel", lot |-> id]
AuthorizationRequest == [type |-> "authorization"]
RegistrationRequest  == [type |-> "register"]
UpdateRequest        == [type |-> "update"]

-----------------------------------------------------------------------------
(* What the user does. *)

Send(rs) == requests' = requests \o rs

MaySend == Len(requests) + Len(responses) < MaxInFlight

(* The two buttons of AuthWindow. *)
AuthClicked(request) ==
  /\ app = "auth" /\ MaySend
  /\ Send(<<request>>)
  /\ UNCHANGED <<app, list, maps, dialog, responses, lots, history>>

(* Mutant: the slot of the other button stays connected. *)
connectKeeps(op) == slots' = IF slots = <<op>> THEN slots ELSE Append(slots, op)

(* input_window->disconnect(), connect(...) *)
connect(op) == slots' = <<op>>

(* sell_clicked and buy_clicked *)
SideClicked(op) ==
  /\ app = "main"
  /\ connect(op)
  /\ input_shown' = TRUE
  /\ UNCHANGED <<app, list, maps, requests, responses, lots, history>>

(* A lot or a cancellation whose answer is not executed yet. *)
Unanswered ==
  \/ \E i \in DOMAIN requests : requests[i].type \in {"lot", "cancel"}
  \/ \E i \in DOMAIN responses : responses[i].type = "success"

LotRequests(rs) == {i \in DOMAIN rs : rs[i].type = "lot"}

Placed == Cardinality(DOMAIN lots) + Cardinality(LotRequests(requests))

(* The button of InputWindow: each connected slot, sell or buy, files its  *)
(* request under the row count and writes it.                              *)
OkClicked(usd) ==
  /\ app = "main" /\ input_shown
  /\ MaySend /\ Placed + Len(slots) <= MaxLots
  /\ input_shown' = FALSE
  /\ to_add_requests' = Emplace(to_add_requests, Len(rows) + 1,
                                [op |-> Head(slots), usd |-> usd])
  /\ Send([i \in DOMAIN slots |-> CreateLotRequest(slots[i], usd)])
  /\ hasty' = (hasty \/ Unanswered)
  /\ UNCHANGED <<app, list, idx_by_lot, lot_by_idx, slots, responses, lots,
                 shifted>>

(* The same button when std::stoi does not take what was entered. *)
BadInput == app = "main" /\ input_shown /\ Throw("std::stoi")

Select(row) ==
  /\ app = "main"
  /\ row \in DOMAIN rows
  /\ current' = row
  /\ UNCHANGED <<app, rows, ReportModel, maps, dialog, requests, responses,
                 lots, history>>

(* delete_clicked *)
DeleteClicked ==
  /\ app = "main"
  /\ IF current \notin DOMAIN idx_by_lot
     THEN Throw("idx_by_lot.at")
     ELSE /\ MaySend
          /\ Send(<<CancelRequest(idx_by_lot[current])>>)
          /\ UNCHANGED <<app, list, maps, dialog, responses, lots, history>>

(* on_updateButton_clicked *)
UpdateClicked ==
  /\ app = "main" /\ MaySend
  /\ Send(<<UpdateRequest, BalanceRequest>>)
  /\ UNCHANGED <<app, list, maps, dialog, responses, lots, history>>

-----------------------------------------------------------------------------
(* execResponse, by the type of the first response. *)

Response(type) ==
  /\ app \in {"auth", "main"}
  /\ responses # <<>>
  /\ Head(responses).type = type

Executed == responses' = Tail(responses)

(* The types of RequestAction and OperationType that the text of a row     *)
(* compares.                                                               *)
request_type(order) == IF order.op = "sell" THEN 0 ELSE 1
SELL_USD == 1

RequestText(order) ==
  [says |-> "request",
   op   |-> IF request_type(order) = SELL_USD THEN "sell" ELSE "buy",
   usd  |-> order.usd]

(* Mutant: the request stays filed under the row. *)
filedStays(row) == UNCHANGED to_add_requests

(* to_add_requests.erase(row) *)
filedErased(row) == to_add_requests' = Erase(to_add_requests, row)

(* SUCCESS_SET_RESPONSE of a lot. *)
LotAcknowledged ==
  LET idx == Head(responses).lot
      row == Len(rows) + 1
  IN /\ Response("success") /\ ~Head(responses).is_to_cancel
     /\ IF row \notin DOMAIN to_add_requests
        THEN Throw("to_add_requests.at")
        ELSE /\ rows' = Append(rows, [lot  |-> idx,
                                      text |-> RequestText(to_add_requests[row])])
             /\ current' = row
             /\ lot_by_idx' = Emplace(lot_by_idx, idx, row)
             /\ idx_by_lot' = Emplace(idx_by_lot, row, idx)
             /\ filedErased(row)
             /\ Executed
             /\ UNCHANGED <<app, ReportModel, dialog, requests, lots, history>>

(* Mutant: the rows below go too. *)
RowsAbove(row) == IF row \in DOMAIN rows THEN SubSeq(rows, 1, row - 1) ELSE rows

(* removeRows ignores a row that does not exist. *)
RowsWithout(row) == IF row \in DOMAIN rows THEN Seqs!RemoveAt(rows, row) ELSE rows

(* External: Qt keeps the current item; if it is removed, the next one or, *)
(* at the end, the one before becomes current.                             *)
CurrentWithout(row) ==
  IF row \in DOMAIN rows /\ (current > row \/ current = Len(rows))
  THEN current - 1 ELSE current

(* Mutant: the lot stays in lot_by_idx. *)
forgetRowOnly(idx) ==
  /\ idx_by_lot' = Erase(idx_by_lot, lot_by_idx[idx])
  /\ UNCHANGED <<lot_by_idx, to_add_requests>>

(* The two maps after a cancellation; the rows below keep their numbers. *)
forget(idx) ==
  /\ idx_by_lot' = Erase(idx_by_lot, lot_by_idx[idx])
  /\ lot_by_idx' = Erase(lot_by_idx, idx)
  /\ UNCHANGED to_add_requests

(* SUCCESS_SET_RESPONSE of a cancellation. *)
CancelAcknowledged ==
  LET idx == Head(responses).lot IN
  /\ Response("success") /\ Head(responses).is_to_cancel
  /\ IF idx \notin DOMAIN lot_by_idx
     THEN Throw("lot_by_idx.at")
     ELSE /\ rows' = RowsWithout(lot_by_idx[idx])
          /\ current' = CurrentWithout(lot_by_idx[idx])
          /\ forget(idx)
          /\ shifted' = (shifted \/ lot_by_idx[idx] # Len(rows))
          /\ Executed
          /\ UNCHANGED <<app, ReportModel, dialog, requests, lots, hasty>>

(* AUTHORIZATION_RESPONSE *)
Authorized ==
  /\ Response("authorization")
  /\ app' = "main"
  /\ Executed
  /\ UNCHANGED <<list, maps, dialog, requests, lots, history>>

(* REPORT.  The text of the lot's row is made from the report that stands  *)
(* in the row of the same number.                                          *)
Reported ==
  LET idx == Head(responses).lot
      row == lot_by_idx[idx]
  IN /\ Response("report")
     /\ ReportModel' = Append(ReportModel, idx)
     /\ rows' = IF idx \in DOMAIN lot_by_idx /\ row \in DOMAIN rows
                THEN [rows EXCEPT ![row].text =
                        [says   |-> "completed",
                         report |-> IF row \in DOMAIN ReportModel'
                                    THEN ReportModel'[row] ELSE NoReport]]
                ELSE rows
     /\ Executed
     /\ UNCHANGED <<app, current, maps, dialog, requests, lots, history>>

(* BAD_RESPONSE and GET_BALANCE_RESPONSE change a label. *)
LabelShown ==
  /\ Response("bad") \/ Response("balance")
  /\ Executed
  /\ UNCHANGED <<app, list, maps, dialog, requests, lots, history>>

(* UPDATE_RESPONSE and updateCharts draw the chart. *)
ChartShown ==
  /\ Response("update")
  /\ Executed
  /\ UNCHANGED <<app, list, maps, dialog, requests, lots, history>>

-----------------------------------------------------------------------------
(* The server.  A lot of the user is live; withdrawn, when another of the  *)
(* user's lots was settled; settled and reported under its own id; sold,   *)
(* that is settled and reported under the id of the buyer; or cancelled.   *)

Serves(type) == requests # <<>> /\ Head(requests).type = type

Reply(resp) ==
  /\ responses' = Append(responses, resp)
  /\ UNCHANGED <<app, list, maps, dialog, history>>

ServerLot ==
  LET id == FirstId + Cardinality(DOMAIN lots) IN
  /\ Serves("lot")
  /\ lots' = Emplace(lots, id, [order |-> Head(requests).order, state |-> "live"])
  /\ requests' = Tail(requests)
  /\ Reply([type |-> "success", lot |-> id, is_to_cancel |-> FALSE])

ServerCancel ==
  LET id == Head(requests).lot IN
  /\ Serves("cancel")
  /\ requests' = Tail(requests)
  /\ IF lots[id].state = "live"
     THEN /\ lots' = [lots EXCEPT ![id].state = "cancelled"]
          /\ Reply([type |-> "success", lot |-> id, is_to_cancel |-> TRUE])
     ELSE UNCHANGED lots /\ Reply([type |-> "bad"])

ServerLogin ==
  /\ Serves("authorization") \/ Serves("register")
  /\ requests' = Tail(requests)
  /\ \E type \in {"authorization", "bad"} : Reply([type |-> type])
  /\ UNCHANGED lots

ServerReads ==
  /\ Serves("update") \/ Serves("balance")
  /\ requests' = Tail(requests)
  /\ Reply(Head(requests))
  /\ UNCHANGED lots

Reports ==
  Len(ReportModel) + Len(SelectSeq(responses, LAMBDA r : r.type = "report"))

Open(id) == id \in DOMAIN lots /\ lots[id].state \in {"live", "withdrawn"}

(* UPDATE requests SET active = false WHERE user_id = ... *)
Settle(id, state) ==
  lots' = [i \in DOMAIN lots |-> [lots[i] EXCEPT !.state =
             IF i = id THEN state ELSE IF @ = "live" THEN "withdrawn" ELSE @]]

Report(id) ==
  /\ Reports < MaxReports
  /\ Reply([type |-> "report", lot |-> id])
  /\ UNCHANGED requests

(* closeRequest completes the lot, or it is the buyer's in                 *)
(* closeTwoWayRequests: both report its id.                                *)
ServerCompletes(id) == Open(id) /\ Settle(id, "settled") /\ Report(id)

(* It is the seller's in closeTwoWayRequests, which reports the buyer's id. *)
ServerSells(id) ==
  /\ Open(id) /\ lots[id].order.op = "sell"
  /\ Settle(id, "sold")
  /\ Report(OtherLot)

(* closeRequest fills the lot in part and completes that of the other. *)
ServerFills(id) == Open(id) /\ UNCHANGED lots /\ Report(OtherLot)

-----------------------------------------------------------------------------
Next ==
  \/ \E request \in {AuthorizationRequest, RegistrationRequest} :
       AuthClicked(request)
  \/ DeleteClicked \/ UpdateClicked \/ BadInput
  \/ \E op \in Op : SideClicked(op)
  \/ \E usd \in Counts : OkClicked(usd)
  \/ \E row \in 1 .. MaxLots : Select(row)
  \/ LotAcknowledged \/ CancelAcknowledged \/ Authorized \/ Reported
  \/ LabelShown \/ ChartShown
  \/ ServerLot \/ ServerCancel \/ ServerLogin \/ ServerReads
  \/ \E id \in LotIds : ServerCompletes(id) \/ ServerSells(id) \/ ServerFills(id)

Spec == Init /\ [][Next]_vars

-----------------------------------------------------------------------------
(* The properties. *)

Acknowledged(to_cancel) ==
  {responses[i].lot : i \in {j \in DOMAIN responses :
     responses[j].type = "success" /\ responses[j].is_to_cancel = to_cancel}}

(* INVARIANT.  Apart from the acknowledgements that are under way, the     *)
(* window knows exactly the lots that exist at the server, in spite of     *)
(* cancellations sent twice, refused, or overtaken by a deal.  So a report *)
(* on a lot of the user finds its row number, and no acknowledgement of a  *)
(* cancellation makes lot_by_idx.at throw.                                 *)
WindowKnowsItsLots ==
  /\ app # "lot_by_idx.at"
  /\ DOMAIN lot_by_idx =
       ({id \in DOMAIN lots : lots[id].state # "cancelled"}
          \ Acknowledged(FALSE)) \cup Acknowledged(TRUE)

(* INVARIANT.  A user who waits for the answers to lots and cancellations  *)
(* before placing the next lot never loses the client to                   *)
(* to_add_requests.at: the row under which a lot is filed is the row that  *)
(* its acknowledgement inserts, also when rows were removed before.        *)
PatientSurvives == ~hasty => app # "to_add_requests.at"

ReportsUnderWay ==
  {responses[i].lot : i \in {j \in DOMAIN responses : responses[j].type = "report"}}

(* INVARIANT.  For such a user, and as long as only last rows were         *)
(* removed, list and maps agree: each row belongs to its lot in both maps, *)
(* and it says "completed" exactly when that lot was settled under its own *)
(* id and the report has arrived, however reports and acknowledgements     *)
(* follow each other.  Until then it names the usd_count that was ordered, *)
(* and the opposite side: the text compares a RequestAction with an        *)
(* OperationType, and a lot to sell reads "Request to buy".                *)
PatientRowsExact ==
  ~hasty /\ ~shifted /\ app \notin Thrown =>
    /\ DOMAIN idx_by_lot = DOMAIN rows
    /\ DOMAIN lot_by_idx = {rows[r].lot : r \in DOMAIN rows}
    /\ \A r \in DOMAIN rows :
         LET id == rows[r].lot IN
         /\ idx_by_lot[r] = id
         /\ lot_by_idx[id] = r
         /\ rows[r].text.says = "request" =>
              /\ rows[r].text.usd = lots[id].order.usd
              /\ rows[r].text.op # lots[id].order.op
         /\ rows[r].text.says = "completed" <=>
              lots[id].state = "settled" /\ id \notin ReportsUnderWay

(* ACTION PROPERTY, violated.  The button "cancel" cancels the lot of the  *)
(* row that is selected.                                                   *)
CancelsSelected ==
  [][DeleteClicked /\ app' = "main"
       => requests' = Append(requests, CancelRequest(rows[current].lot))]_vars
=============================================================================
