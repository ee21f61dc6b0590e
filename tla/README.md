# A formal model of the online bourse

This directory holds TLA+ modules that model the bourse, its server and its client,
the TLC configurations that check them on small instances, and proofs that TLAPS checks
for every instance. The source is the reference; paths below are relative to the
repository (`src/network/server.cpp`, ...). `PROJECT.json` maps each definition to
the lines it models (there with the prefix `src/` of the checkout).

## 1. The system

A client (Qt) sends JSON requests over TLS to one server process; the server keeps
its state in three PostgreSQL tables and answers with JSON responses. A user sells
or buys dollars by placing a *lot*. The handler of a new lot matches it at once
against the lots already in the table, and tells each counterparty that is
connected.

| Component | State | Operations | Interacts with |
|---|---|---|---|
| Trading core: `execRequest` (SELL, BUY, CANCEL), `closeRequest`, `closeTwoWayRequests` | tables `data`, `requests`, `deal_history`; the locals of the matching loop | place a lot, match it, settle a match, cancel a lot | database manager; registries (reports) |
| Quotation: UPDATE_REQUEST | none (reads the tables) | two queries, paired by index | trading core's tables |
| Accounts: REGISTER, AUTHORIZATION, GET_BALANCE | `data`, `active_users_`, `active_sessions_` | register, log in, read a balance | sessions |
| Sessions: `network::Session`, accept loop of `network::Server` | socket, `pending_responses_`, `user_id_`, buffers | accept, handshake, `doRead`, `doWrite`, `addResponsesQueue`, `close` | `execRequest`; other sessions, by reports |
| Database manager | connection, the open transaction `worker_` | `MakeTransaction`, `MakeTransaction1`, `CommitTransactions`, `createTables` | all handlers |
| Client connection: `network::Client` | socket, `pending_requests_`, token | connect, handshake, `write`, `doWrite`, `doRead`, `close` | window, by signals |
| Main window and dialogs | list rows, `to_add_requests`, `lot_by_idx`, `idx_by_lot` | sell, buy, cancel, `execResponse` | client |
| Messages, utilities | none | JSON, SHA1, `unquoted`, `toUnixTime`, logging | all |

What is hard in this code:

* **Old copies.** The matching loop settles rows it read before its own earlier
  commits, and compares each with the lot's original count.
* **Updates by user.** `UPDATE requests ... WHERE user_id = ...` changes every lot of
  a user, not the one that traded.
* **Several commits in one handler.** The lot is committed, then each match. The
  server has one thread, so no handler runs inside another, but the process can stop
  in between: an exception of pqxx leaves `io_context.run()` and ends `main`.
* **Numbers.** Counts and prices are any `int`: zero and negative ones are accepted,
  C++ products and the local counter wrap, SQL columns refuse instead.
* **Callbacks.** Reports are pushed into a session between its own read and write
  handlers; completions queued before `close` still run after it; `close` may run
  several times.
* **A transaction that stays open.** `worker_` is opened by the first statement that
  finds none and closed by `CommitTransactions` only. Handlers that just read leave it
  to the next handler, which goes on in it.
* **Two threads in the client.** The window posts to the worker and gets signals from
  it. The worker ends when nothing is outstanding. A button can be pressed before the
  connection is made.
* **Rows and maps.** The window files a lot under a row number that it will get later,
  and keeps row numbers in two maps when rows are removed.

What makes each component correct: the tables' constraints are never violated, money
only moves in complete deals on terms both orders accept, a settled lot never comes
back, no match is missed, the loop ends (trading core); both queries give equally many
rows and a point is one deal (quotation); nobody waits for a session that does not
listen, responses leave one at a time, registries name who is connected (sessions);
nothing of an unfinished settlement is ever visible (database manager); each connected
party is told each of its deals once (server as a whole); requests leave in the order of
the clicks, responses are executed, closing the window ends the client (client
connection); rows and maps name the same lots (window).

## 2. Modules

| Module | What it is |
|---|---|
| `Participants` | the users, as the trading core and the sessions both know them |
| `OrderBook` | the trading core: tables, lot handler, cancellation, stop and restart |
| `Exchange` | what the trading core promises: the life of a lot, and when money moves |
| `OrderBookAccounts` | properties of `OrderBook` that add up transfers |
| `Quotation` | the answers UPDATE_REQUEST can give in a state of the tables |
| `Session` | sessions, registries, accounts, the accept loop |
| `Settlement` | the database manager: `OrderBook` with each settlement executed statement by statement |
| `Bourse` | the whole server: `Session` composed with `OrderBook` |
| `Client` | the client's connection and its two threads |
| `Link` | what `Client` promises: requests delivered in order |
| `MainWindow` | the window, its dialogs and maps, with the server reduced to what it answers to this window |
| `OrderBookProofs`, `ExchangeProofs` | theorems about the trading core and its refinement of `Exchange` |
| `AccountsProofs` | theorems about sums and counts over the tables: balances, fills, missed matches, the quotation |
| `SettlementProofs` | theorems about the statements of settlements; rests on `OrderBookProofs` |
| `BourseProofs` | theorems about the whole server; rests on `OrderBookProofs`, `AccountsProofs` and `SessionProofs` |
| `SessionProofs`, `ClientProofs`, `MainWindowProofs` | theorems about sessions, the client's connection and the window |
| `MCOrderBook`, `MCSession`, `MCSettlement`, `MCBourse`, `MCClient`, `MCMainWindow` | instances for TLC |

### OrderBook

`data`, `requests`, `deal_history` are the tables. `pc`, `lot`, `done`, `snap`, `resps`
are the lot handler's position and locals: `lot` the parsed request with the id
returned by the INSERT, `done` is `usd_selling`/`usd_buying`, `snap` the rows of
`matching_requests` not visited yet, `resps` the responses so far. `server` says
whether the process runs, or why it stopped. `placed`, `trades` and `cut` are history
variables: no action reads them except that the length of `placed` is the serial
number of the last lot.

An action is one committed transaction with the code around it:

| Action | Code (`src/network/server.cpp`) |
|---|---|
| `CreateLot` | INSERT, commit and acknowledgement (99-110, 156-167) |
| `QueryMatches` | head of `while (true)` and the query (111-121, 168-178) |
| `MatchOne` | one iteration of the for loop with `closeRequest` or `closeTwoWayRequests` (123-151, 180-209, 315-419) |
| `MatchRefused` | such an iteration when the database raises an error |
| `ReturnResponses` | both `break`s and the return |
| `CancelDeletes`, `CancelRefused` | CANCEL_REQUEST (225-246) |
| `Kill`, `Restart` | the process stops anywhere, and starts again on the same tables |

`closeRequest` and `closeTwoWayRequests` yield a record of what their statements do:
the table `requests` they leave, the requests they enter in `deal_history`, who pays
whom, and the count the report tells. `MatchOne` applies it. The two branches for sell
and buy are the same code with the comparison of prices turned round, and are one
action. `IsTop` keeps the freedom that SQL has: `ORDER BY rub_price DESC LIMIT n` cuts
off rows of equal price in any order. A `date` is a serial number, equal for the two
rows of one transaction, since `NOW()` is the start of the transaction.

Abstracted: user names (a user is an id), the text of SQL and JSON, authorization (in
`Session`), the push of reports (in `Bourse`), the statements of a transaction (in
`Settlement`). Integer arithmetic keeps its width:
`Wrap` is what the build does with C++ `int`, `RangeHolds` what PostgreSQL does with
`integer`. The space missing before `ORDER BY` in the matching query (line 120) is
accepted by PostgreSQL before version 15, which the model assumes.

### Session

`io[s]` counts the operations of session `s` that are outstanding: `reads` and `writes`
started on an open socket, `failing` those started on a closed one; `pending` is the
length of `pending_responses_`. One action is one completion handler. An operation
started on an open socket may still succeed after `close`, because its completion may
be queued already. `TradingRequest` chooses the counterparties of the matches freely,
with repetitions. An accept that fails has no action: `doAccept` goes on with a new
session and nothing else changes. A token is the index of its login in the history `issued`: the server
draws tokens at random until it finds one not in use, and the model never draws one
that was used before. The `user_id` of a request is the token of its session.
`accounts` is any set of users at the start, so that a start on old tables is covered.

`muddled` is a history variable: the users that were logged in from two sessions at
once, or whose session logged in twice. For them `emplace` keeps the first entry and
the close of either session removes it, so `RegistryExact` leaves them out. What these
users keep is their logins: `LoginsSurvive` says for every user that an open session
which has logged in can go on trading, whatever other sessions of the user do. The other
properties hold for all.

Not in the model: overlapping `async_read_some` calls share `data_`, which can happen
after a report is pushed to an idle session (each such write ends in one more
`doRead`; `ReadsBounded` in `Bourse` bounds how many can overlap); what then is in the buffer depends on the inside of boost::asio. Otherwise a
completed read is one whole request: both ends write a message with one call and the
messages are far shorter than a TLS record, and a read on a TLS stream returns bytes of
one record. The same holds for responses in the client.

### Exchange

A lot is live, withdrawn, settled or cancelled. `Transfer` moves money between two
users, keeps their total, settles at most one lot of each and at least one in all, of
the right side, and withdraws the other live lots of a user whose lot is settled. Lots
that are withdrawn can still be settled (the handler holds an older copy) but not
cancelled. `OrderBook!ExchangeSpec` is this specification under the mapping from
tables to lots (`StateOf`); steps of the loop that commit nothing, stops and restarts
are stuttering steps.

### Settlement

Extends `OrderBook` with `worker`, the tables as the open transaction sees them together
with the time it began, and `todo`, the statements of the running settlement that are
still to execute. `Begin` makes the SELECTs of `closeRequest` or `closeTwoWayRequests`
and lists their writing statements (`StatementsOf`, in the order of the code),
`Statement` executes one of them in `worker`, and `Commit` is `CommitTransactions` with
the rest of the iteration. A statement that the database refuses throws: the process
stops and the database rolls back. `Die` can come between any two statements. The other
handlers are those of `OrderBook`, with what they do to `worker_`: a commit resets it
(`StoreLot`, `Delete`, `Register`, whose authorization then opens a new one), a handler that only reads leaves it open (`Read`, `Refuse`,
`Return` after a query without rows). `BookSpec` says that all this implements
`OrderBook`.

### Bourse

Extends `OrderBook` and `Session`, which share the users: `SessionStep` and `Login` are
the actions of `Session` while no lot request is executed. `LotRequest` starts the lot
handler for the session `serving`, in the place of `Session`'s `TradingRequest`; until
the handler returns, the read that delivered the request counts as outstanding, since
the handler holds the session. `Match1` is `MatchOne` with the report
that `active_sessions_` leads to, `Return` queues the handler's responses on the serving
session. `Crash` is a stop of the process by an exception or from outside: sessions and
registries are lost; `Reboot` starts it again. `mail` is the history of what was queued
for each session, `joined` how many deals the user had when the session logged in,
`origin` the session of each lot. As in `Session`, users in `muddled` are left out of
the properties about reports. `ReadsBounded` is about all of them: a session has one
operation outstanding, and one more at most for each deal in which another user's newer
lot took a lot of a user who logged in on it.

### Client and Link

`net` holds the socket's phase, the outstanding operations, `pending_requests_` and
`msg_`; `posts` the functions that `write` and `close` posted; `worker` and `window` the
two threads. One action is one posted function, one completion handler, or one event of
the window. The constructor has started `async_connect`. A write that is started while
the socket is not connected fails (`doomed`), and its handler closes the socket; one
started during the handshake completes with the handshake. When no operation is
outstanding and nothing is posted, `io_context.run()` returns (`WorkerEnds`), and what
is posted later is never run. `faulty` and `early` are history: that the network or the
server failed, that a write was started before the handshake. Of the server only its
writes are seen (`ServerAnswers`). `RequestLinkSpec` is `Link` with `net.sent` as what was delivered.

A consequence the model shows: a button pressed before the connection is made starts a
write that fails, the socket is closed, and this and all later requests stay in the
queue. `RequestsAreSent` therefore excepts `early`. What holds after an early write, a
failure or a close is `FailureEndsWorker`: nothing is retried, and the worker ends.

### MainWindow

`rows`, `current`, `ReportModel` are the two list models and the selection;
`to_add_requests`, `idx_by_lot`, `lot_by_idx` the maps of the code, with `std::map`'s
`emplace` and `erase`; `slots` what is connected to the input dialog. One action is one
slot: a button, or `execResponse` for one type of response. A call that throws leaves
the slot and `main` and ends the client (`app` names the call): `std::stoi` on input
that is not a number, `idx_by_lot.at` when nothing or an unknown row is selected,
`to_add_requests.at` when a lot was placed before the answer to an earlier one.
Messages are in two queues in order. The handlers of the server are reduced to what they
answer to this window (`ServerLot`, `ServerCancel`, `ServerLogin`, `ServerReads`) and to
the three ways in which a deal reaches it. The deal completes a lot of the user, which is
reported under its own id (`ServerCompletes`: the completed lot of `closeRequest`, or the
buyer's of `closeTwoWayRequests`); it sells a lot two-way, which is reported under the
buyer's id (`ServerSells`); or it fills a lot in part and is reported under the id of the
completed lot of the other party (`ServerFills`). The first two withdraw the user's other
live lots. It is assumed that this window is the only one in which its user is logged in,
so that reports go to it and all lots of the user are its own. Each row remembers the lot
it was made for. `hasty` (a lot placed while another lot or a cancellation was unanswered)
and `shifted` (a row above another removed) are history: they bound what the code can
promise.

## 3. Runs

| Run | Instance | Checks |
|---|---|---|
| `trading` | 3 users, counts 1-2, prices 1-2, 3 lots, all LIMITs 2 | `IntegrityNeverBroken`, `SettledLeavesMarket`, `TradeTerms`, `ReportsAreSettled`, `QuotationComplete`, `ExchangeSpec` |
| `edges` | 3 users, counts -1, 0, 2, 3, an `int` in -4 .. 3, LIMIT 1 | `TypeOK`, `BalancesExplained`, `FillAccounting`, `NoMissedMatch` |
| `statements` | 3 users, counts 1-2, 3 lots, an `int` in -4 .. 3, LIMIT 1, with fairness | `ReadsSeeCommitted`, `DealsAreDated`, `BookSpec`, `HandlerTerminates` |
| `sessions` | 2 sessions, 2 users, 5 messages, 2 matches per lot, with fairness | `SessionTypeOK`, `NeverDeaf`, `OneWriteAtATime`, `RegistryExact`, `LoginsSurvive`, `ResponsesLeave`, `ClosedIsDestroyed` |
| `bourse` | 3 sessions, 2 users, counts 1-2 at price 2, 3 lots, 5 messages, an `int` in -4 .. 3 | `DealsReportedOnce`, `AckBeforeReport`, `ReadsBounded` |
| `client` | 2 requests, 3 clicks, 2 responses, with fairness | `TypeOK`, `QueueIsServed`, `WorkerOutlivesConnection`, `RequestLinkSpec`, `RequestsAreSent`, `ResponsesAreExecuted`, `FailureEndsWorker`, `JoinReturns` |
| `window` | 3 lots of 1 dollar, 2 reports, 2 messages under way | `TypeOK`, `WindowKnowsItsLots`, `PatientSurvives`, `PatientRowsExact` |
| `overfill`, `filled_active`, `refused_cancel`, `points` | as `trading` | one property each, violated: section 4 |
| `cancel_other` | as `window` | `CancelsSelected`, violated: section 4 |

Why the bounds are enough: three lots are the fewest with which one handler settles two
rows of one copy, the second of them already deactivated by the first (two lots of one
user); with LIMIT 1 and three users the same number needs two rounds with a match in
each. They also give a user a lot placed after a settled one. With an `int` of three
bits one product (3 * 2) and one sum (2 + 2) wrap, and a balance reaches the limit of
its column. The LIMIT 2 of the quotation cuts through the two rows of a two-way deal. In
`statements` the same three users and LIMIT 1 give a handler a second round with a match,
and the balances reach the limit of their columns after a first deal, so that a
settlement is refused at a payment, after its writes to `requests` and `deal_history`;
stops from outside come after every other statement too. In `sessions`
two connections allow a user to log in from both, or one to trade while the other is
pushed reports, and five messages allow two logins, lots on both sides and a request on
a closed session; the third connection, with one user on two of them while another
trades, is in `bourse`. There a deal of 2 dollars costs 4 rubles, which the column
refuses, so the process stops by an exception as well as from outside; five messages are
two logins and three lots, or a login after a restart. `MaxMatches` bounds only
`Session`'s free choice of counterparties, which `Bourse` does not use. Three requests in `client` are
one being written, one queued and one posted; two responses are one executed and one
arriving. Three lots in `window` let a row between two others be removed, and two
messages under way let a lot be placed before an answer, and a deal overtake a
cancellation. Two reports are the fewest with which a deal of another lot comes before
the one that completes a lot, so that the text of a row is taken from another report;
one count is enough there, since the window does nothing with it but show it, and which
order a row shows is told by the side; `PatientUserSeesLots` is for any counts. Users and sessions are symmetric in `trading`, `edges` and `bourse`, which
check no liveness. Deadlock is checked in the runs of the trading core and in
`statements`; the other runs stop when connections, messages or lots are used up.

Fairness. `OrderBook!FairSpec` is weak fairness of the lot handler's steps: it never
waits, so a running thread executes it to its end. `FairSessionSpec` is weak fairness
of the completion of writes, of reads on a closed socket, and of operations started on
a closed socket: boost::asio completes these. For a write it also means that a client
keeps reading or disconnects; the server has no timeout. Nothing obliges clients to
connect, send requests or disconnect. `Settlement!SSpec` has weak fairness of the lot
handler's steps, as `OrderBook` has. `Client!FairSpec` is weak fairness of both threads
(posted functions, queued signals, the join) and of the network: a connect, a handshake
and a write complete or fail; a read completes when a response is there or the socket is
closed. The client has no timeout, so a server that accepts and never answers the
handshake is excluded by this assumption.

## 4. Where the code differs from what is said of it

Five runs state what a test or a label of the repository says and show that the code does
something else (`findings` in `PROJECT.json` quotes the lines):

* `overfill`: a lot can trade more than its count, because each row is compared with
  the original count.
* `filled_active`: a lot that several smaller lots fill exactly stays active with the
  count 0.
* `refused_cancel`: a lot that never traded is answered "request has already been made",
  because a settlement deactivates all lots of the user.
* `points`: a point of the quotation can pair the price of one deal with the date of
  another.
* `cancel_other`: after a row above was removed, the cancel button cancels a lot other
  than the one selected.

Three more disagreements are in the model without a run of their own. `RequestText`
compares the type of a request (0 sells, 1 buys) with `OperationType::SELL_USD`, which
is 1, so the row of a lot that sells says "buy" and the other way round:
`PatientRowsExact` states that the side in a row is always the opposite of the ordered
one. A two-way deal is reported to both parties under the buyer's id, so the seller's row
never says "completed"; `PatientRowsExact` says "completed" exactly of the lots that were
settled under their own id and whose report has arrived. `Reported` takes the text of a
completed row from the report list at the number of that row, so it can be the text of
another report, or none; no property is about that text.

The other properties are stated so that they hold in spite of these.

## 5. Proofs

TLAPS proves the theorems below for every value of the constants. The assumptions on
constants are: bounds are natural numbers, LIMITs are at least 1 (`BoundsAssumption`,
`MessagesAssumption`, `HistoryAssumption`), counts and prices are `int`s of the width chosen
(`InputAssumption`), the function that closes the socket is no request
(`RequestsAssumption`), and the value that says that no session is served is no session
(`NoSessionAssumption`). TLC evaluates them in the runs.

| Theorem | States |
|---|---|
| `TypeCorrect`, `Integrity`, `SettledStaysOut`, `TermsKept`, `ReportsTrue` | `Spec => []P` for `TypeOK`, `IntegrityNeverBroken`, `SettledLeavesMarket`, `TradeTerms`, `ReportsAreSettled` of the trading core |
| `CoreIsExchange` | `Spec => ExchangeSpec`: the trading core implements `Exchange` |
| `BalancesAddUp`, `FillsAddUp`, `MatchesNotMissed`, `QuotationsMatch` | `Spec => []P` for `BalancesExplained`, `FillAccounting`, `NoMissedMatch`, `QuotationComplete` |
| `StatementsAreAtomic` | `SSpec => Spec`: settlements statement by statement implement the atomic ones; this is `BookSpec` without its fairness |
| `OpenTransactionIsClean`, `DealDatesFollowLots` | `SSpec => []P` for `ReadsSeeCommitted`, `DealsAreDated` |
| `SessionsListen`, `WritesAreSerial`, `SessionTypes`, `RegistriesAreExact`, `LoginsAreKept` | `SessionSpec => []P` for `NeverDeaf`, `OneWriteAtATime`, `SessionTypeOK`, `RegistryExact`, `LoginsSurvive` |
| `ServerTrades` | `BSpec => Spec`: the whole server implements the trading core, so the theorems about `OrderBook` are theorems about the server |
| `ServerSessions` | `BSpec => [](NeverDeaf /\ OneWriteAtATime /\ RegistryExact /\ LoginsSurvive)`: what is proved of the sessions holds in the whole server, with its crashes |
| `LotsKnownBeforeDeals`, `DealsAreReported`, `OperationsAreBounded` | `BSpec => []P` for `AckBeforeReport`, `DealsReportedOnce`, `ReadsBounded` |
| `ClientTypes`, `QueueServed`, `WorkerOutlives` | `Spec => []P` for `TypeOK`, `QueueIsServed`, `WorkerOutlivesConnection` of the client |
| `ClientIsLink` | `Spec => RequestLinkSpec`: the client implements `Link` |
| `WindowTypes`, `WindowKnows`, `PatientUserSurvives`, `PatientUserSeesLots` | `Spec => []P` for `TypeOK`, `WindowKnowsItsLots`, `PatientSurvives`, `PatientRowsExact` of the window |

There is one lemma per action, or per group of actions that disturb the same parts.

**Trading core** (`IInv`). None of the properties is inductive alone: that a row of the
old copy can be settled without violating the unique index of `deal_history` needs that
it is still in the table and not settled (`SnapRow`). This survives each iteration since
an iteration settles only its own row and the lot, ids in the copy are distinct, and rows
are deleted only by CANCEL_REQUEST, which cannot run in between. That the lot itself is
not settled twice needs `LotInv`: once it is settled the counter equals the count, so
both loops end. And the query may return no settled row because settled rows are
inactive (`SettledLeavesMarket`), which also keeps CANCEL_REQUEST away from them.
`TradeTerms` needs `RowsAsPlaced` and the price comparison kept in `SnapRow`.
`SettlementFacts` collects what the three branches of the loop have in common.

**Exchange.** From `IInv`, each commit is one step of `Exchange` and everything else
leaves the mapped state alone. The one commit that is hard is `MatchOne`: the lots that
`UPDATE ... WHERE user_id` deactivates are the live lots that `Transfer` withdraws, the
requests entered in `deal_history` are those it settles, and the total of the two
balances is kept because both are changed by the same, possibly wrapped, product.

**Accounts** (`AInv`, on top of `IInv`). The properties add up transfers with
`SumFunction`, which picks the elements of a set one after the other, so what one more
element does to a sum would take an induction over sets. The proofs go another way: the
units of a family of integers are counted as the elements of a finite set (`Units`,
`Total`), and one more element adds as many units as its value (`TotalAdd`, from the
theorems about cardinalities). The total satisfies the recursive equation of the sum, and
a smallest set on which the two differ cannot exist (`SumIsTotal`: the subsets of a
finite set are well-founded, and that a non-empty collection of them has a minimal member
is a fact without operator parameters). Hence `SumAdd`, for sums of any length.

A transfer is not among the earlier ones, because one of its lots is settled by it and
neither was before (`TradesSettle`, `NewTrade`), so each commit adds exactly its own transfer to the sums; the counter may be wrapped at each addition or once
at the end (`WrapAdd`); and since the lot being executed is the newest
(`LotIsNewest`), a transfer changes what its own handler took and nothing that another
handler took. `NoEarlierMissed` is `NoMissedMatch` for the lots that the running handler
does not work on. When it returns, the last query was empty or its counter equals the
count; when it is cut off, its lot is in `cut`.

**Quotation.** The two queries return equally many rows if each recent deal joins with
exactly one row of `requests`: the foreign key holds (`Integrity`) and no request is
entered twice (`DistinctInvariant`, from the same facts as the unique index).

**Statements** (`SInv`). A settlement in progress is described by where it leads:
executing the rest of `todo` on the tables of the open transaction gives what `MatchOne`
commits (`Leads`, shown for the lists of statements of both functions). So `Commit` is
`MatchOne`, all earlier statements stutter, and a refused statement is `MatchRefused`
since some column or the unique index would refuse the whole. `ReadsSeeCommitted` and
`DealsAreDated` are parts of the invariant: the latter needs that the lot being executed
is the newest (`LotIsNewest`), since it is its INSERT that ended the older transaction.

**Sessions** (`IOInv`, `RInv`). A queued response and a write go together while a session
is open, at most one write is outstanding, and a session that is not writing is reading.
`AddResponsesQueue` shows this for a push inside a handler, when the completed read is
already gone. For the registries: a token belongs to the session it was issued to
(`TokenOfSession`), a session that never logged in has no late completion that could log
it in after `close` and still be registered (`Strangers`), and the session of a login
keeps its token while the token is valid and the user's logins do not overlap
(`LoginsKept`). `LoginsSurvive` needs no such exception: the token of an open session is
valid (`TokensValid`), because `close` erases the token of its own session only, and no
two sessions have one token.

**Server** (`BInv`, `DInv`, `OInv`). `BInv` is `IInv`, `AInv`, the invariant `RInv` of the
sessions, and `CInv`, which relates the two parts. That the sessions keep `RInv` is shown
for the actions that `Bourse` adds: a push between two commits of a handler, the answers
at its end, a crash. `AckBeforeReport` needs two facts that hold between the steps of two
sessions: a lot is acknowledged in the mail of the session it came from, or its handler
still runs, or that session is gone (`AckQueued`); and the session to which a report for
a user goes is logged in as that user, unless the user is muddled (`RegisteredAs`). While
a handler runs, its first response is the acknowledgement (`ServingOK`), and its own
reports are queued behind it. `DealsReportedOnce` needs in addition that a session
without a user was told nothing (`NoneTold`), so that a first login starts counting at
zero, and that a transfer is new (`NewTrade`), so that the number of a party's deals
grows by one. For both parties one report is added: to the lot's owner among the
handler's answers, whose session is open while its handler runs (`ServingOK`), to the
other through `active_sessions_`, which leads to its session by `RegistryExact` and
which has not expired because it is open. A session of a third user gets none
(`RegisteredAs`). For `ReadsBounded`, an answer takes the place of the read that brought
the request (`OpsAnswered`), the next write or read that of a completed write
(`OpsWritten`), and a push adds one operation at most (`OpsQueued`); the session it goes
to once logged in as the user who is told (`ReportsGoToLogins`), and the deal is new and
took that user's lot, which is older than the one being executed.

**Client** (`IInv`). What was sent, what is queued and what is posted, one behind the
other, are what the window asked for (`AskedInv`), which gives the order of `Link`; how
many operations are outstanding follows from the phase of the socket and the queue
(`NetOK`), which gives `QueueIsServed` and that the worker has something to wait for.

**Window** (`WInv`). For every user: each lot has at most one acknowledgement under way,
of the lot or of its cancellation (`AcksOK`), and only lots that the window knows are
cancelled (`CancelsKnown`), so an acknowledged cancellation always finds its lot. For a
user who is not hasty: at most one lot is under way, no cancellation is answered before
it (`OneLot`, `OneAck`), and `to_add_requests` holds exactly that lot's order under the
row that comes next (`Filed`); hence `to_add_requests.at` does not throw and the new row
has the text of its own lot. That a row says "completed" exactly of a lot that was
completed and told needs what is under way (`ReportsOK`): a lot is reported once, after
it is settled and behind its acknowledgement, and a settled lot without a row has its
report still to come.

Only model-checked: `HandlerTerminates`, `ResponsesLeave`, `ClosedIsDestroyed`,
`RequestsAreSent`, `ResponsesAreExecuted`, `FailureEndsWorker`, `JoinReturns`, and the fairness in `BookSpec`,
since liveness and `ENABLED` are outside the prover. Every invariant and every safety
refinement that a passing run checks is proved.

## 6. Not modelled

* The text of JSON, SHA1, quoting, time conversion and logging: pure functions and
  output. `makeRequest`: nothing calls it.
* Widgets, labels, the chart and the layout: nothing reads them back. The token that the
  window's requests carry: it is the one the server answered the login with, as `Session`
  assumes.
* The inside of TLS; a certificate that is refused is a handshake that fails.
* Overlapping reads of one session, which share `data_` (section 2, Session).
* The creation of tables on an empty database; their constraints are modelled.
* The mutex of the database manager: the process has one thread.

## 7. Status

All components with state are modelled, and every safety property that the passing runs
check is also proved for all instances. What could be added: a proof of the liveness
properties with a prover that supports fairness, and a model of overlapping reads, for
which the behaviour of boost::asio would have to be fixed first.
