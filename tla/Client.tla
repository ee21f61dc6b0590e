------------------------------- MODULE Client -------------------------------
(***************************************************************************)
(* The connection of the client: network::Client, the worker thread of     *)
(* MainWindow that runs its io_context, and the start and end of the       *)
(* window as far as they concern it.                                       *)
(*                                                                         *)
(* Two threads: the window posts writes and the close, and executes the    *)
(* signal "response" from its event queue; the worker runs one posted      *)
(* function or one completion handler at a time, and ends as soon as       *)
(* neither is left: nothing else keeps io_context.run() going.             *)
(*                                                                         *)
(* A write on a TLS stream before its handshake is started fails; one      *)
(* started during the handshake completes with it.  A message is shorter   *)
(* than a TLS record, so that a read is exactly one message.               *)
(***************************************************************************)
EXTENDS Integers, Sequences

CONSTANTS
  Requests,   \* what the window asks for
  MaxAsked,   \* bound on the requests of the window
  MaxAnswers  \* bound on the responses of the server

ASSUME BoundsAssumption == MaxAsked \in Nat /\ MaxAnswers \in Nat

VARIABLES
  net,      \* socket_, its outstanding operations, the queue and the buffer
  posts,    \* functions posted and not run, in order
  worker,   \* the worker thread: "running" or "ended"
  window,   \* "open", "closing" (in the destructor) or "gone"
  answers,  \* responses: sent by the server, read, executed
  asked     \* history: what the window wrote

vars == <<net, posts, worker, window, answers, asked>>

NoRequest == 0
CloseSocket == 1

(* A posted request is not mistaken for the posted close. *)
ASSUME RequestsAssumption == CloseSocket \notin Requests

(* connect .. write: operations outstanding; doomed: those started when    *)
(* they could not succeed any more, or not yet; pending: pending_requests_; *)
(* msg: msg_.  History: sent is what was handed to the network, faulty     *)
(* that network or server failed, early that a write was started before    *)
(* the handshake.                                                          *)
Net == [sock : {"connecting", "handshake", "up", "refused", "closed"},
        connect : Nat, handshake : Nat, read : Nat, write : Nat, doomed : Nat,
        pending : Seq(Requests), msg : Requests \cup {NoRequest},
        sent : Seq(Requests), faulty : BOOLEAN, early : BOOLEAN]

TypeOK ==
  /\ net \in Net
  /\ posts \in Seq(Requests \cup {CloseSocket})
  /\ worker \in {"running", "ended"}
  /\ window \in {"open", "closing", "gone"}
  /\ answers.sent \in 0 .. MaxAnswers
  /\ answers.read \in 0 .. answers.sent
  /\ answers.executed \in 0 .. answers.read
  /\ asked \in Seq(Requests) /\ Len(asked) <= MaxAsked

(* The constructors: async_connect is started before the worker is. *)
Init ==
  /\ net = [sock |-> "connecting", connect |-> 1, handshake |-> 0, read |-> 0,
            write |-> 0, doomed |-> 0, pending |-> <<>>, msg |-> NoRequest,
            sent |-> <<>>, faulty |-> FALSE, early |-> FALSE]
  /\ posts = <<>>
  /\ worker = "running" /\ window = "open"
  /\ answers = [sent |-> 0, read |-> 0, executed |-> 0]
  /\ asked = <<>>

-----------------------------------------------------------------------------
(* The window's thread. *)

(* Client::write, called by every button. *)
write(r) ==
  /\ window = "open"
  /\ Len(asked) < MaxAsked
  /\ asked' = Append(asked, r)
  /\ posts' = Append(posts, r)
  /\ UNCHANGED <<net, worker, window, answers>>

(* The event loop executes a queued signal (MainWindow::execResponse). *)
execResponse ==
  /\ window = "open"
  /\ answers.executed < answers.read
  /\ answers' = [answers EXCEPT !.executed = @ + 1]
  /\ UNCHANGED <<net, posts, worker, window, asked>>

(* Mutant: the destructor joins the worker without closing. *)
closeNothing == UNCHANGED posts

(* Client::close *)
close == posts' = Append(posts, CloseSocket)

(* ~MainWindow up to the join. *)
Destroy ==
  /\ window = "open"
  /\ window' = "closing"
  /\ close
  /\ UNCHANGED <<net, worker, answers, asked>>

Join ==
  /\ window = "closing"
  /\ worker = "ended"
  /\ window' = "gone"
  /\ UNCHANGED <<net, posts, worker, answers, asked>>

-----------------------------------------------------------------------------
(* The methods that the worker's handlers call, on the state x. *)

Closed(x) == [x EXCEPT !.sock = "closed"]

(* External: an operation completes; its handler is to run. *)
Done(x, kind) == [x EXCEPT ![kind] = @ - 1]

(* Mutant: the read is not started. *)
doReadNever(x) == x

doRead(x) ==
  IF x.sock = "closed" THEN [x EXCEPT !.doomed = @ + 1]
  ELSE [x EXCEPT !.read = @ + 1]

(* msg_ is made from the request r. *)
Load(x, r) ==
  [[x EXCEPT !.msg = r] EXCEPT !.early = @ \/ x.sock = "connecting"]

asyncWrite(x) ==
  IF x.sock \in {"handshake", "up"} THEN [x EXCEPT !.write = @ + 1]
  ELSE [x EXCEPT !.doomed = @ + 1]

(* Mutant: the newest request of the queue instead of the oldest. *)
doWriteNewest(x) == asyncWrite(Load(x, x.pending[Len(x.pending)]))

doWrite(x) == asyncWrite(Load(x, Head(x.pending)))

(* Mutant: a write is started for every request. *)
pushAlwaysWrites(x, r) == doWrite([x EXCEPT !.pending = Append(@, r)])

(* The function that write posts: a write is started if none is in         *)
(* progress.                                                               *)
push(x, r) ==
  LET y == [x EXCEPT !.pending = Append(@, r)] IN
  IF x.pending = <<>> THEN doWrite(y) ELSE y

(* Mutant: the next request is not written. *)
popStops(x) == [x EXCEPT !.pending = Tail(@)]

(* The handler of doWrite without error. *)
pop(x) ==
  LET y == [x EXCEPT !.pending = Tail(@)] IN
  IF y.pending # <<>> THEN doWrite(y) ELSE y

-----------------------------------------------------------------------------
(* The worker's thread. *)

(* A handler runs and leaves the state x. *)
Handler(x) ==
  /\ worker = "running"
  /\ net' = x
  /\ UNCHANGED <<worker, window, asked>>

Completion(x) == Handler(x) /\ UNCHANGED <<posts, answers>>

(* The functions that write and close post. *)
RunPost ==
  /\ posts # <<>>
  /\ posts' = Tail(posts)
  /\ Handler(IF Head(posts) = CloseSocket THEN Closed(net)
             ELSE push(net, Head(posts)))
  /\ UNCHANGED answers

(* doHandshake without error.  The socket may be closed by now. *)
Connected ==
  /\ net.connect > 0
  /\ LET x == Done(net, "connect") IN
     Completion(IF x.sock = "connecting"
                THEN [x EXCEPT !.sock = "handshake", !.handshake = @ + 1]
                ELSE [x EXCEPT !.doomed = @ + 1])

(* The handler of async_handshake. *)
HandshakeDone ==
  /\ net.handshake > 0
  /\ LET x == Done(net, "handshake") IN
     Completion(doRead(IF x.sock = "handshake" THEN [x EXCEPT !.sock = "up"]
                       ELSE x))

(* Its error branch closes nothing; a write that waits for the handshake   *)
(* fails with it.  Once a request has passed the handshake is complete.    *)
HandshakeFails ==
  /\ net.handshake > 0
  /\ net.sent = <<>> \/ net.sock = "closed"
  /\ LET x == [Done(net, "handshake") EXCEPT !.write = 0,
                                         !.doomed = @ + net.write] IN
     Completion(IF x.sock = "closed" THEN x
                ELSE [x EXCEPT !.sock = "refused", !.faulty = TRUE])

(* Mutant: the error branch reads again. *)
FailsReadsAgain(kind) ==
  /\ net[kind] > 0
  /\ Completion(doRead(Closed([Done(net, kind) EXCEPT
       !.faulty = @ \/ (kind # "doomed" /\ net.sock # "closed")])))

(* A handler whose error branch closes the socket. *)
Fails(kind) ==
  /\ net[kind] > 0
  /\ Completion(Closed([Done(net, kind) EXCEPT
       !.faulty = @ \/ (kind # "doomed" /\ net.sock # "closed")]))

WriteDone ==
  /\ net.write > 0
  /\ Completion(pop([Done(net, "write") EXCEPT !.sent = Append(@, net.msg)]))

(* Mutant: the signal is emitted twice. *)
ReadDoneEmitsTwice ==
  /\ net.read > 0 /\ answers.read < answers.sent
  /\ answers' = [answers EXCEPT !.read = @ + 2]
  /\ Handler(doRead(Done(net, "read")))
  /\ UNCHANGED posts

(* The handler of doRead without error: the signal is queued. *)
ReadDone ==
  /\ net.read > 0 /\ answers.read < answers.sent
  /\ answers' = [answers EXCEPT !.read = @ + 1]
  /\ Handler(doRead(Done(net, "read")))
  /\ UNCHANGED posts

(* io_context.run() returns; what is posted later is never run. *)
WorkerEnds ==
  /\ worker = "running"
  /\ posts = <<>>
  /\ net.connect + net.handshake + net.read + net.write + net.doomed = 0
  /\ worker' = "ended"
  /\ UNCHANGED <<net, posts, window, answers, asked>>

(* The server writes a response or a report (Session::doWrite). *)
ServerAnswers ==
  /\ net.sent # <<>> /\ net.sock \in {"handshake", "up"}
  /\ answers.sent < MaxAnswers
  /\ answers' = [answers EXCEPT !.sent = @ + 1]
  /\ UNCHANGED <<net, posts, worker, window, asked>>

ConnectEnds == Connected \/ Fails("connect")
HandshakeEnds == HandshakeDone \/ HandshakeFails
WriteEnds == WriteDone \/ Fails("write")
ReadEnds == ReadDone \/ Fails("read")
Aborted == net.sock = "closed" /\ Fails("read")

Next ==
  \/ \E r \in Requests : write(r)
  \/ execResponse \/ Destroy \/ Join
  \/ RunPost
  \/ ConnectEnds \/ HandshakeEnds \/ WriteEnds \/ ReadEnds \/ Fails("doomed")
  \/ WorkerEnds
  \/ ServerAnswers

Spec == Init /\ [][Next]_vars

(* Both threads run.  The network completes what was started one way or    *)
(* the other, except a read: it waits for a response or for the close.     *)
FairSpec ==
  /\ Spec
  /\ WF_vars(execResponse) /\ WF_vars(Join)
  /\ WF_vars(RunPost) /\ WF_vars(WorkerEnds)
  /\ WF_vars(ConnectEnds) /\ WF_vars(HandshakeEnds) /\ WF_vars(WriteEnds)
  /\ WF_vars(ReadDone) /\ WF_vars(Aborted) /\ WF_vars(Fails("doomed"))

-----------------------------------------------------------------------------
(* The properties. *)

(* INVARIANT.  On a connection that was not closed, requests are queued    *)
(* exactly while one write is in progress: msg_ is not overwritten under   *)
(* it, and no queued request is forgotten.                                 *)
QueueIsServed ==
  net.sock # "closed" =>
    net.write + net.doomed = IF net.pending = <<>> THEN 0 ELSE 1

(* INVARIANT.  The worker, which nothing but outstanding operations keeps  *)
(* running, does not end while the connection is being made or is up: from *)
(* async_connect to the close there is no gap between two operations.      *)
WorkerOutlivesConnection ==
  worker = "ended" => net.sock \in {"closed", "refused"}

(* LIVENESS, under FairSpec.  A request that the window writes is sent,    *)
(* unless the network or the server fails, the window closes, or the user  *)
(* was early: a button pressed before the connection is made starts a      *)
(* write that fails, which closes the socket and leaves all requests stuck *)
(* in the queue.                                                           *)
RequestsAreSent ==
  \A n \in 1 .. MaxAsked :
    (Len(asked) >= n) ~>
      (Len(net.sent) >= n \/ net.faulty \/ net.early \/ window # "open")

(* LIVENESS, under FairSpec.  A response that reaches an open connection   *)
(* is executed by the window, unless the connection or the window closes.  *)
ResponsesAreExecuted ==
  \A n \in 1 .. MaxAnswers :
    (answers.sent >= n) ~>
      (answers.executed >= n \/ net.sock = "closed" \/ window # "open")

(* LIVENESS, under FairSpec.  The destructor of the window returns: the    *)
(* close that it posts ends whatever the worker waits for, in any phase of *)
(* the connection, and the worker with it; if the worker had ended before, *)
(* the close is never run and nobody waits for it.                         *)
JoinReturns == (window = "closing") ~> (window = "gone")

(* LIVENESS, under FairSpec.  A connection that failed, that the server    *)
(* refused, or on which a button was pressed too early is given up:        *)
(* whatever is posted and queued by then, and even though the handshake    *)
(* that fails closes nothing, no operation is started again for ever and   *)
(* the worker ends.                                                        *)
FailureEndsWorker ==
  (net.faulty \/ net.early \/ net.sock = "closed") ~> (worker = "ended")

RequestLink == INSTANCE Link WITH Messages <- Requests, delivered <- net.sent

(* REFINEMENT.  Requests reach the network in the order in which the       *)
(* window wrote them, none twice and none skipped, although they pass      *)
(* through posted functions, a queue and one shared buffer.                *)
RequestLinkSpec == RequestLink!Spec
=============================================================================
