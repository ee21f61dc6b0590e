---------------------------- MODULE ClientProofs ----------------------------
(***************************************************************************)
(* Proofs about Client, for any requests and any number of requests and    *)
(* responses.                                                              *)
(***************************************************************************)
EXTENDS Client, TLAPS

(* Before the close each phase of the connection has its one operation.    *)
PhaseInv(x) ==
  x.sock # "closed" =>
    /\ x.connect = IF x.sock = "connecting" THEN 1 ELSE 0
    /\ x.handshake = IF x.sock = "handshake" THEN 1 ELSE 0
    /\ x.read = IF x.sock = "up" THEN 1 ELSE 0

(* The queue and the write in progress, also on a closed socket: a write   *)
(* that had been started before the close is of the request at the head.   *)
QueueInv(x) ==
  /\ x.write <= 1
  /\ x.write = 1 => x.pending # <<>> /\ x.msg = Head(x.pending)
  /\ x.sock # "closed" =>
       x.write + x.doomed = IF x.pending = <<>> THEN 0 ELSE 1

NetOK(x) == x \in Net /\ PhaseInv(x) /\ QueueInv(x)

AnswersOK ==
  /\ answers \in [sent : Nat, read : Nat, executed : Nat]
  /\ answers.executed <= answers.read
  /\ answers.read <= answers.sent
  /\ answers.sent <= MaxAnswers

(* The posted close, if any, is the last post. *)
ClosePosted == posts # <<>> /\ posts[Len(posts)] = CloseSocket

(* How many requests are posted. *)
Requested == Len(posts) - (IF ClosePosted THEN 1 ELSE 0)

(* The sequences s and q and the first m of p, one behind the other, are a. *)
InLine(a, s, q, p, m) ==
  /\ Len(a) = Len(s) + Len(q) + m
  /\ \A i \in 1 .. Len(s) : a[i] = s[i]
  /\ \A i \in 1 .. Len(q) : a[Len(s) + i] = q[i]
  /\ \A i \in 1 .. m : a[Len(s) + Len(q) + i] = p[i]

(* What was sent, is queued and is posted make up what was asked. *)
AskedInv ==
  /\ InLine(asked, net.sent, net.pending, posts, Requested)
  /\ ClosePosted => window # "open"

IInv ==
  /\ TypeOK
  /\ NetOK(net)
  /\ AnswersOK
  /\ AskedInv
  /\ WorkerOutlivesConnection

-----------------------------------------------------------------------------
(* The methods that handlers call keep the state of the connection in      *)
(* order.                                                                  *)

(* Filling msg_ changes nothing else.                                     *)
LEMMA LoadOnly ==
  ASSUME NEW x \in Net, NEW r \in Requests
  PROVE  LET y == Load(x, r) IN
         /\ y \in Net
         /\ y.sock = x.sock /\ y.connect = x.connect
         /\ y.handshake = x.handshake /\ y.read = x.read
         /\ y.write = x.write /\ y.doomed = x.doomed
         /\ y.pending = x.pending /\ y.sent = x.sent
         /\ y.msg = r
<1> DEFINE m == [x EXCEPT !.msg = r]
           e == m.early \/ x.sock = "connecting"
<1>1. /\ m \in Net /\ m.msg = r
      /\ m.sock = x.sock /\ m.connect = x.connect /\ m.handshake = x.handshake
      /\ m.read = x.read /\ m.write = x.write /\ m.doomed = x.doomed
      /\ m.pending = x.pending /\ m.sent = x.sent
  BY DEF Net
<1>2. e \in BOOLEAN
  OBVIOUS
<1>3. Load(x, r) = [m EXCEPT !.early = e]
  BY Zenon DEF Load
<1> HIDE DEF m, e
<1> QED BY <1>1, <1>2, <1>3 DEF Net

(* Another queue, or another history, changes nothing else.                *)
LEMMA SetPending ==
  ASSUME NEW x \in Net, NEW q \in Seq(Requests)
  PROVE  LET y == [x EXCEPT !.pending = q] IN
         /\ y \in Net /\ y.pending = q
         /\ y.sock = x.sock /\ y.connect = x.connect
         /\ y.handshake = x.handshake /\ y.read = x.read
         /\ y.write = x.write /\ y.doomed = x.doomed
         /\ y.sent = x.sent /\ y.msg = x.msg
  BY DEF Net

(* Likewise the history of what was sent.                                  *)
LEMMA SetSent ==
  ASSUME NEW x \in Net, NEW q \in Seq(Requests)
  PROVE  LET y == [x EXCEPT !.sent = q] IN
         /\ y \in Net /\ y.sent = q
         /\ y.sock = x.sock /\ y.connect = x.connect
         /\ y.handshake = x.handshake /\ y.read = x.read
         /\ y.write = x.write /\ y.doomed = x.doomed
         /\ y.pending = x.pending /\ y.msg = x.msg
  BY DEF Net

Operations == {"connect", "handshake", "read", "write", "doomed"}

(* A completed operation is not outstanding any more; nothing else         *)
(* changes.                                                                *)
LEMMA DoneOnly ==
  ASSUME NEW x \in Net, NEW kind \in Operations, x[kind] > 0
  PROVE  LET y == Done(x, kind) IN
         /\ y \in Net
         /\ y.connect = IF kind = "connect" THEN x.connect - 1 ELSE x.connect
         /\ y.handshake =
              IF kind = "handshake" THEN x.handshake - 1 ELSE x.handshake
         /\ y.read = IF kind = "read" THEN x.read - 1 ELSE x.read
         /\ y.write = IF kind = "write" THEN x.write - 1 ELSE x.write
         /\ y.doomed = IF kind = "doomed" THEN x.doomed - 1 ELSE x.doomed
         /\ y.sock = x.sock
         /\ y.pending = x.pending /\ y.sent = x.sent /\ y.msg = x.msg
<1>1. CASE kind = "connect"
  BY <1>1, SMTT(30) DEF Done, Net
<1>2. CASE kind = "handshake"
  BY <1>2, SMTT(30) DEF Done, Net
<1>3. CASE kind = "read"
  BY <1>3, SMTT(30) DEF Done, Net
<1>4. CASE kind = "write"
  BY <1>4, SMTT(30) DEF Done, Net
<1>5. CASE kind = "doomed"
  BY <1>5, SMTT(30) DEF Done, Net
<1> QED BY <1>1, <1>2, <1>3, <1>4, <1>5 DEF Operations

(* The write is started, or an operation that will fail.                   *)
LEMMA AsyncWrite ==
  ASSUME NEW x \in Net
  PROVE  LET y == asyncWrite(x) IN
         /\ y \in Net
         /\ y.sock = x.sock /\ y.connect = x.connect
         /\ y.handshake = x.handshake /\ y.read = x.read
         /\ y.pending = x.pending /\ y.sent = x.sent /\ y.msg = x.msg
         /\ y.write + y.doomed = x.write + x.doomed + 1
         /\ x.sock = "closed" => y.write = x.write
         /\ y.write >= x.write /\ y.doomed >= x.doomed
<1>1. CASE x.sock \in {"handshake", "up"}
  <2> DEFINE y == [x EXCEPT !.write = @ + 1]
  <2>1. asyncWrite(x) = y
    BY <1>1 DEF asyncWrite
  <2>2. /\ y \in Net /\ y.write = x.write + 1 /\ y.doomed = x.doomed
        /\ y.sock = x.sock /\ y.connect = x.connect
        /\ y.handshake = x.handshake /\ y.read = x.read
        /\ y.pending = x.pending /\ y.sent = x.sent /\ y.msg = x.msg
    BY DEF Net
  <2>3. x.write \in Nat /\ x.doomed \in Nat
    BY DEF Net
  <2> HIDE DEF y
  <2> QED BY <1>1, <2>1, <2>2, <2>3
<1>2. CASE x.sock \notin {"handshake", "up"}
  <2> DEFINE y == [x EXCEPT !.doomed = @ + 1]
  <2>1. asyncWrite(x) = y
    BY <1>2 DEF asyncWrite
  <2>2. /\ y \in Net /\ y.write = x.write /\ y.doomed = x.doomed + 1
        /\ y.sock = x.sock /\ y.connect = x.connect
        /\ y.handshake = x.handshake /\ y.read = x.read
        /\ y.pending = x.pending /\ y.sent = x.sent /\ y.msg = x.msg
    BY DEF Net
  <2>3. x.write \in Nat /\ x.doomed \in Nat
    BY DEF Net
  <2> HIDE DEF y
  <2> QED BY <1>2, <2>1, <2>2, <2>3
<1> QED BY <1>1, <1>2

(* doWrite starts a write of the request at the head, or an operation that *)
(* will fail.                                                              *)
LEMMA DoWrite ==
  ASSUME NEW x \in Net, x.pending # <<>>
  PROVE  LET y == doWrite(x) IN
         /\ y \in Net
         /\ y.sock = x.sock /\ y.connect = x.connect
         /\ y.handshake = x.handshake /\ y.read = x.read
         /\ y.pending = x.pending /\ y.sent = x.sent
         /\ y.msg = Head(x.pending)
         /\ y.write + y.doomed = x.write + x.doomed + 1
         /\ x.sock = "closed" => y.write = x.write
         /\ y.write >= x.write /\ y.doomed >= x.doomed
<1>1. Head(x.pending) \in Requests
  BY DEF Net
<1> QED BY <1>1, LoadOnly, AsyncWrite DEF doWrite

(* A read is started, or an operation that will fail.                      *)
LEMMA DoRead ==
  ASSUME NEW x \in Net
  PROVE  LET y == doRead(x) IN
         /\ y \in Net
         /\ y.sock = x.sock /\ y.connect = x.connect
         /\ y.handshake = x.handshake /\ y.write = x.write
         /\ y.pending = x.pending /\ y.sent = x.sent /\ y.msg = x.msg
         /\ x.sock # "closed" => y.read = x.read + 1 /\ y.doomed = x.doomed
<1>1. CASE x.sock = "closed"
  BY <1>1 DEF doRead, Net
<1>2. CASE x.sock # "closed"
  <2> DEFINE y == [x EXCEPT !.read = @ + 1]
  <2>1. doRead(x) = y
    BY <1>2 DEF doRead
  <2>2. /\ y \in Net /\ y.read = x.read + 1 /\ y.doomed = x.doomed
        /\ y.sock = x.sock /\ y.connect = x.connect
        /\ y.handshake = x.handshake /\ y.write = x.write
        /\ y.pending = x.pending /\ y.sent = x.sent /\ y.msg = x.msg
    BY DEF Net
  <2> HIDE DEF y
  <2> QED BY <1>2, <2>1, <2>2
<1> QED BY <1>1, <1>2

(* Closing the socket leaves operations and queue as they are.             *)
LEMMA ClosedOnly ==
  ASSUME NEW x \in Net
  PROVE  LET y == Closed(x) IN
         /\ y \in Net /\ y.sock = "closed"
         /\ y.write = x.write
         /\ y.pending = x.pending /\ y.sent = x.sent /\ y.msg = x.msg
  BY DEF Closed, Net

(* The function that write posts appends its request and starts a write    *)
(* only if none is in progress.                                            *)
LEMMA Push ==
  ASSUME NEW x, NetOK(x), NEW r \in Requests
  PROVE  LET y == push(x, r) IN
         /\ NetOK(y)
         /\ y.sock = x.sock /\ y.sent = x.sent
         /\ y.pending = Append(x.pending, r)
<1> DEFINE q == Append(x.pending, r)
           z == [x EXCEPT !.pending = q]
<1>1. x \in Net /\ PhaseInv(x) /\ QueueInv(x) /\ x.pending \in Seq(Requests)
      /\ x.write \in Nat /\ x.doomed \in Nat
  BY DEF NetOK, Net
<1>2. /\ z \in Net /\ z.pending = Append(x.pending, r) /\ z.pending # <<>>
      /\ z.sock = x.sock /\ z.connect = x.connect /\ z.handshake = x.handshake
      /\ z.read = x.read /\ z.write = x.write /\ z.doomed = x.doomed
      /\ z.sent = x.sent /\ z.msg = x.msg
  <2>1. q \in Seq(Requests) /\ q # <<>>
    BY <1>1
  <2> QED BY <1>1, <2>1, SetPending
<1>3. push(x, r) = IF x.pending = <<>> THEN doWrite(z) ELSE z
  BY DEF push
<1> HIDE DEF z
<1>4. CASE x.pending = <<>>
  <2> DEFINE y == doWrite(z)
  <2>1. /\ y \in Net
        /\ y.sock = x.sock /\ y.connect = x.connect
        /\ y.handshake = x.handshake /\ y.read = x.read
        /\ y.pending = z.pending /\ y.sent = x.sent
        /\ y.msg = Head(z.pending)
        /\ y.write + y.doomed = x.write + x.doomed + 1
        /\ x.sock = "closed" => y.write = x.write
        /\ y.write >= x.write /\ y.doomed >= x.doomed
    BY <1>2, DoWrite
  <2>2. y.write \in Nat /\ y.doomed \in Nat
    BY <2>1 DEF Net
  <2> HIDE DEF y
  <2>3. PhaseInv(y)
    BY <1>1, <2>1 DEF PhaseInv
  <2>4. QueueInv(y)
    BY <1>1, <1>2, <1>4, <2>1, <2>2 DEF QueueInv
  <2> QED BY <1>2, <1>3, <1>4, <2>1, <2>3, <2>4 DEF y, NetOK
<1>5. CASE x.pending # <<>>
  <2>1. Head(z.pending) = Head(x.pending)
    BY <1>1, <1>2, <1>5
  <2>2. PhaseInv(z) /\ QueueInv(z)
    BY <1>1, <1>2, <1>5, <2>1 DEF PhaseInv, QueueInv
  <2> QED BY <1>2, <1>3, <1>5, <2>2 DEF NetOK
<1> QED BY <1>4, <1>5

(* The state once the write in progress has completed.                     *)
Written(x) == pop([Done(x, "write") EXCEPT !.sent = Append(@, x.msg)])

(* A completed write sends the request at the head, and starts the next    *)
(* one if there is one.                                                    *)
LEMMA Pop ==
  ASSUME NEW x, NetOK(x), x.write > 0
  PROVE  LET y == Written(x) IN
         /\ NetOK(y)
         /\ y.sock = x.sock
         /\ x.pending # <<>>
         /\ y.sent = Append(x.sent, Head(x.pending))
         /\ y.pending = Tail(x.pending)
<1>1. /\ x \in Net /\ PhaseInv(x) /\ QueueInv(x) /\ x.pending \in Seq(Requests)
      /\ x.write \in Nat /\ x.doomed \in Nat /\ x.sent \in Seq(Requests)
  BY DEF NetOK, Net
<1>2. x.write = 1 /\ x.pending # <<>> /\ x.msg = Head(x.pending)
      /\ (x.sock # "closed" => x.doomed = 0)
  BY <1>1 DEF QueueInv
<1>3. x.msg \in Requests
  BY <1>1, <1>2
<1>4. /\ Tail(x.pending) \in Seq(Requests)
      /\ Append(x.sent, x.msg) \in Seq(Requests)
  BY <1>1, <1>2, <1>3
<1> DEFINE w == Done(x, "write")
           z == [w EXCEPT !.sent = Append(x.sent, x.msg)]
           v == [z EXCEPT !.pending = Tail(x.pending)]
<1>5. /\ w \in Net /\ w.write = 0 /\ w.sock = x.sock
      /\ w.connect = x.connect /\ w.handshake = x.handshake /\ w.read = x.read
      /\ w.doomed = x.doomed /\ w.sent = x.sent /\ w.pending = x.pending
  <2>1. "write" \in Operations
    BY DEF Operations
  <2> QED BY <1>1, <1>2, <2>1, DoneOnly
<1>6. /\ z \in Net /\ z.write = 0 /\ z.sock = x.sock
      /\ z.connect = x.connect /\ z.handshake = x.handshake /\ z.read = x.read
      /\ z.doomed = x.doomed /\ z.sent = Append(x.sent, x.msg)
      /\ z.pending = x.pending
  <2> HIDE DEF w
  <2> QED BY <1>4, <1>5, SetSent
<1>7. Written(x) = IF v.pending # <<>> THEN doWrite(v) ELSE v
  <2>1. z = [Done(x, "write") EXCEPT !.sent = Append(@, x.msg)]
    BY <1>5
  <2> HIDE DEF z
  <2>2. Written(x) = pop(z)
    BY <2>1 DEF Written
  <2>3. [z EXCEPT !.pending = Tail(@)] = v
    BY <1>6
  <2> HIDE DEF v
  <2> QED BY <2>2, <2>3 DEF pop
<1>8. /\ v \in Net /\ v.write = 0 /\ v.sock = x.sock
      /\ v.connect = x.connect /\ v.handshake = x.handshake /\ v.read = x.read
      /\ v.doomed = x.doomed /\ v.sent = Append(x.sent, Head(x.pending))
      /\ v.pending = Tail(x.pending)
  <2> HIDE DEF z
  <2> QED BY <1>2, <1>4, <1>6, SetPending
<1> HIDE DEF v
<1>9. CASE v.pending # <<>>
  <2> DEFINE y == doWrite(v)
  <2>1. /\ y \in Net
        /\ y.sock = v.sock /\ y.connect = v.connect
        /\ y.handshake = v.handshake /\ y.read = v.read
        /\ y.pending = v.pending /\ y.sent = v.sent
        /\ y.msg = Head(v.pending)
        /\ y.write + y.doomed = v.write + v.doomed + 1
        /\ v.sock = "closed" => y.write = v.write
        /\ y.write >= v.write /\ y.doomed >= v.doomed
    BY <1>8, <1>9, DoWrite
  <2>2. y.write \in Nat /\ y.doomed \in Nat
    BY <2>1 DEF Net
  <2> HIDE DEF y
  <2>3. PhaseInv(y)
    BY <1>1, <1>8, <2>1 DEF PhaseInv
  <2>4. QueueInv(y)
    <3>1. /\ y.write <= 1
          /\ y.sock # "closed" => y.write + y.doomed = 1
      BY <1>1, <1>2, <1>8, <2>1, <2>2
    <3>2. y.pending # <<>> /\ y.msg = Head(y.pending)
      BY <1>9, <2>1
    <3> QED BY <3>1, <3>2 DEF QueueInv
  <2> QED BY <1>2, <1>7, <1>8, <1>9, <2>1, <2>3, <2>4 DEF y, NetOK
<1>10. CASE v.pending = <<>>
  <2>1. PhaseInv(v)
    BY <1>1, <1>8 DEF PhaseInv
  <2>2. QueueInv(v)
    <3>1. v.write = 0 /\ (v.sock # "closed" => v.write + v.doomed = 0)
      BY <1>2, <1>8
    <3> QED BY <1>10, <3>1 DEF QueueInv
  <2> QED BY <1>2, <1>7, <1>8, <1>10, <2>1, <2>2 DEF NetOK
<1> QED BY <1>9, <1>10

-----------------------------------------------------------------------------
(* The handlers keep the connection in order.  All but RunPost and         *)
(* WriteDone leave the queue alone.                                        *)

SameQueue == net'.sent = net.sent /\ net'.pending = net.pending

(* The handshake follows the connect.                                      *)
LEMMA ConnectedNet ==
  ASSUME NetOK(net), Connected
  PROVE  NetOK(net') /\ SameQueue
<1> DEFINE x == Done(net, "connect")
<1>1. net \in Net /\ PhaseInv(net) /\ QueueInv(net) /\ net.connect \in Nat
  BY DEF NetOK, Net
<1>2. /\ x \in Net /\ x.connect = net.connect - 1 /\ x.sock = net.sock
      /\ x.handshake = net.handshake /\ x.read = net.read
      /\ x.write = net.write /\ x.doomed = net.doomed
      /\ x.pending = net.pending /\ x.sent = net.sent /\ x.msg = net.msg
  <2>1. "connect" \in Operations
    BY DEF Operations
  <2> QED BY <1>1, <2>1, DoneOnly DEF Connected
<1>3. net' = IF x.sock = "connecting"
             THEN [x EXCEPT !.sock = "handshake", !.handshake = @ + 1]
             ELSE [x EXCEPT !.doomed = @ + 1]
  BY DEF Connected, Completion, Handler
<1> HIDE DEF x
<1>4. CASE x.sock = "connecting"
  <2>1. /\ net' \in Net /\ net'.sock = "handshake"
        /\ net'.connect = x.connect
        /\ net'.handshake = x.handshake + 1 /\ net'.read = x.read
        /\ net'.write = x.write /\ net'.doomed = x.doomed
        /\ net'.pending = x.pending /\ net'.sent = x.sent /\ net'.msg = x.msg
    <3> DEFINE y == [x EXCEPT !.sock = "handshake"]
    <3>1. /\ y \in Net /\ y.sock = "handshake" /\ y.connect = x.connect
          /\ y.handshake = x.handshake /\ y.read = x.read
          /\ y.write = x.write /\ y.doomed = x.doomed
          /\ y.pending = x.pending /\ y.sent = x.sent /\ y.msg = x.msg
      BY <1>2 DEF Net
    <3>2. net' = [y EXCEPT !.handshake = @ + 1]
      BY <1>2, <1>3, <1>4 DEF Net
    <3> HIDE DEF y
    <3> QED BY <3>1, <3>2 DEF Net
  <2>2. PhaseInv(net')
    BY <1>1, <1>2, <1>4, <2>1 DEF PhaseInv
  <2>3. QueueInv(net')
    BY <1>1, <1>2, <1>4, <2>1 DEF QueueInv
  <2> QED BY <1>2, <2>1, <2>2, <2>3 DEF NetOK, SameQueue
<1>5. CASE x.sock # "connecting"
  <2>1. /\ net' \in Net /\ net'.sock = x.sock /\ net'.write = x.write
        /\ net'.pending = x.pending /\ net'.sent = x.sent /\ net'.msg = x.msg
    BY <1>2, <1>3, <1>5 DEF Net
  <2>2. net'.sock = "closed"
    BY <1>1, <1>2, <1>5, <2>1 DEF PhaseInv, Connected
  <2>3. PhaseInv(net') /\ QueueInv(net')
    BY <1>1, <1>2, <2>1, <2>2 DEF PhaseInv, QueueInv
  <2> QED BY <1>2, <2>1, <2>3 DEF NetOK, SameQueue
<1> QED BY <1>4, <1>5

(* The first read follows the handshake.                                   *)
LEMMA HandshakeDoneNet ==
  ASSUME NetOK(net), HandshakeDone
  PROVE  NetOK(net') /\ SameQueue
<1> DEFINE x == Done(net, "handshake")
           z == IF x.sock = "handshake" THEN [x EXCEPT !.sock = "up"] ELSE x
<1>1. net \in Net /\ PhaseInv(net) /\ QueueInv(net) /\ net.handshake \in Nat
  BY DEF NetOK, Net
<1>2. /\ x \in Net /\ x.handshake = net.handshake - 1 /\ x.sock = net.sock
      /\ x.connect = net.connect /\ x.read = net.read
      /\ x.write = net.write /\ x.doomed = net.doomed
      /\ x.pending = net.pending /\ x.sent = net.sent /\ x.msg = net.msg
  <2>1. "handshake" \in Operations
    BY DEF Operations
  <2> QED BY <1>1, <2>1, DoneOnly DEF HandshakeDone
<1>3. net' = doRead(z)
  BY DEF HandshakeDone, Completion, Handler
<1> HIDE DEF x
<1>4. /\ z \in Net /\ z.connect = x.connect /\ z.handshake = x.handshake
      /\ z.read = x.read /\ z.write = x.write /\ z.doomed = x.doomed
      /\ z.pending = x.pending /\ z.sent = x.sent /\ z.msg = x.msg
      /\ z.sock = IF x.sock = "handshake" THEN "up" ELSE x.sock
  <2>1. CASE x.sock = "handshake"
    BY <1>2, <2>1 DEF Net
  <2>2. CASE x.sock # "handshake"
    BY <1>2, <2>2
  <2> QED BY <2>1, <2>2
<1> HIDE DEF z
<1>5. /\ net' \in Net /\ net'.sock = z.sock /\ net'.connect = z.connect
      /\ net'.handshake = z.handshake /\ net'.write = z.write
      /\ net'.pending = z.pending /\ net'.sent = z.sent /\ net'.msg = z.msg
      /\ z.sock # "closed" => net'.read = z.read + 1 /\ net'.doomed = z.doomed
  BY <1>3, <1>4, DoRead
<1>6. net.sock = "handshake" \/ net.sock = "closed"
  BY <1>1 DEF PhaseInv, HandshakeDone
<1>7. PhaseInv(net')
  BY <1>1, <1>2, <1>4, <1>5, <1>6 DEF PhaseInv
<1>8. QueueInv(net')
  BY <1>1, <1>2, <1>4, <1>5, <1>6 DEF QueueInv
<1> QED BY <1>2, <1>4, <1>5, <1>7, <1>8 DEF NetOK, SameQueue

(* A failed handshake dooms the write that waits for it.                   *)
LEMMA HandshakeFailsNet ==
  ASSUME NetOK(net), HandshakeFails
  PROVE  NetOK(net') /\ SameQueue
<1> DEFINE x == Done(net, "handshake")
           w == [x EXCEPT !.write = 0]
           z == [w EXCEPT !.doomed = @ + net.write]
<1>1. /\ net \in Net /\ PhaseInv(net) /\ QueueInv(net)
      /\ net.handshake \in Nat /\ net.write \in Nat /\ net.doomed \in Nat
  BY DEF NetOK, Net
<1>2. /\ x \in Net /\ x.handshake = net.handshake - 1 /\ x.sock = net.sock
      /\ x.connect = net.connect /\ x.read = net.read
      /\ x.write = net.write /\ x.doomed = net.doomed
      /\ x.pending = net.pending /\ x.sent = net.sent /\ x.msg = net.msg
  <2>1. "handshake" \in Operations
    BY DEF Operations
  <2> QED BY <1>1, <2>1, DoneOnly DEF HandshakeFails
<1>3. net' = IF z.sock = "closed" THEN z
             ELSE [z EXCEPT !.sock = "refused", !.faulty = TRUE]
  <2>1. z = [Done(net, "handshake") EXCEPT !.write = 0,
                                           !.doomed = @ + net.write]
    BY <1>2 DEF Net
  <2> HIDE DEF z
  <2> QED BY <2>1 DEF HandshakeFails, Completion, Handler
<1> HIDE DEF x
<1>4. /\ w \in Net /\ w.write = 0 /\ w.sock = x.sock /\ w.connect = x.connect
      /\ w.handshake = x.handshake /\ w.read = x.read /\ w.doomed = x.doomed
      /\ w.pending = x.pending /\ w.sent = x.sent /\ w.msg = x.msg
  BY <1>2 DEF Net
<1> HIDE DEF w
<1>5. /\ z \in Net /\ z.write = 0 /\ z.sock = x.sock /\ z.connect = x.connect
      /\ z.handshake = x.handshake /\ z.read = x.read
      /\ z.doomed = net.doomed + net.write
      /\ z.pending = x.pending /\ z.sent = x.sent /\ z.msg = x.msg
  <2> DEFINE d == w.doomed + net.write
  <2>1. d \in Nat /\ d = net.doomed + net.write
    BY <1>1, <1>2, <1>4
  <2>2. z = [w EXCEPT !.doomed = d]
    OBVIOUS
  <2> HIDE DEF d, z
  <2> QED BY <1>4, <2>1, <2>2 DEF Net
<1> HIDE DEF z
<1>6. CASE z.sock = "closed"
  <2>1. PhaseInv(z) /\ QueueInv(z)
    BY <1>5, <1>6 DEF PhaseInv, QueueInv
  <2> QED BY <1>2, <1>3, <1>5, <1>6, <2>1 DEF NetOK, SameQueue
<1>7. CASE z.sock # "closed"
  <2> DEFINE y == [z EXCEPT !.sock = "refused"]
  <2>1. /\ y \in Net /\ y.sock = "refused" /\ y.write = 0
        /\ y.connect = z.connect /\ y.handshake = z.handshake
        /\ y.read = z.read /\ y.doomed = z.doomed
        /\ y.pending = z.pending /\ y.sent = z.sent /\ y.msg = z.msg
    BY <1>5 DEF Net
  <2>2. net' = [y EXCEPT !.faulty = TRUE]
    BY <1>3, <1>5, <1>7 DEF Net
  <2> HIDE DEF y
  <2>3. /\ net' \in Net /\ net'.sock = "refused" /\ net'.write = 0
        /\ net'.connect = z.connect /\ net'.handshake = z.handshake
        /\ net'.read = z.read /\ net'.doomed = z.doomed
        /\ net'.pending = z.pending /\ net'.sent = z.sent /\ net'.msg = z.msg
    BY <2>1, <2>2 DEF Net
  <2>4. net.sock = "handshake"
    BY <1>1, <1>2, <1>5, <1>7 DEF PhaseInv, HandshakeFails
  <2>5. PhaseInv(net')
    BY <1>1, <1>2, <1>5, <2>3, <2>4 DEF PhaseInv
  <2>6. QueueInv(net')
    BY <1>1, <1>2, <1>5, <2>3, <2>4 DEF QueueInv
  <2> QED BY <1>2, <1>5, <2>3, <2>5, <2>6 DEF NetOK, SameQueue
<1> QED BY <1>6, <1>7

(* An error closes the socket and leaves the queue as it is.               *)
LEMMA FailsNet ==
  ASSUME NetOK(net), NEW kind \in Operations, Fails(kind)
  PROVE  NetOK(net') /\ SameQueue
<1> DEFINE x == Done(net, kind)
           e == x.faulty \/ (kind # "doomed" /\ net.sock # "closed")
           z == [x EXCEPT !.faulty = e]
<1>1. net \in Net /\ QueueInv(net) /\ net.write \in Nat
  BY DEF NetOK, Net
<1>2. /\ x \in Net /\ x.write <= net.write /\ x.write \in Nat
      /\ x.pending = net.pending /\ x.sent = net.sent /\ x.msg = net.msg
  <2>1. /\ x \in Net
        /\ x.write = IF kind = "write" THEN net.write - 1 ELSE net.write
        /\ x.pending = net.pending /\ x.sent = net.sent /\ x.msg = net.msg
    BY <1>1, DoneOnly DEF Fails
  <2>2. x.write \in Nat
    BY <2>1 DEF Net
  <2> QED BY <1>1, <2>1, <2>2
<1>3. net' = Closed(z)
  BY Zenon DEF Fails, Completion, Handler
<1>4. e \in BOOLEAN
  OBVIOUS
<1> HIDE DEF x, e
<1>5. /\ z \in Net /\ z.write = x.write
      /\ z.pending = x.pending /\ z.sent = x.sent /\ z.msg = x.msg
  BY <1>2, <1>4 DEF Net
<1> HIDE DEF z
<1>6. /\ net' \in Net /\ net'.sock = "closed" /\ net'.write = x.write
      /\ net'.pending = x.pending /\ net'.sent = x.sent /\ net'.msg = x.msg
  BY <1>3, <1>5, ClosedOnly
<1>7. PhaseInv(net') /\ QueueInv(net')
  BY <1>1, <1>2, <1>6 DEF PhaseInv, QueueInv
<1> QED BY <1>2, <1>6, <1>7 DEF NetOK, SameQueue

(* A read is followed by the next.                                         *)
LEMMA ReadDoneNet ==
  ASSUME NetOK(net), ReadDone
  PROVE  NetOK(net') /\ SameQueue
<1> DEFINE x == Done(net, "read")
<1>1. net \in Net /\ PhaseInv(net) /\ QueueInv(net) /\ net.read \in Nat
  BY DEF NetOK, Net
<1>2. /\ x \in Net /\ x.read = net.read - 1 /\ x.sock = net.sock
      /\ x.connect = net.connect /\ x.handshake = net.handshake
      /\ x.write = net.write /\ x.doomed = net.doomed
      /\ x.pending = net.pending /\ x.sent = net.sent /\ x.msg = net.msg
  <2>1. "read" \in Operations
    BY DEF Operations
  <2> QED BY <1>1, <2>1, DoneOnly DEF ReadDone
<1>3. net' = doRead(x)
  BY DEF ReadDone, Handler
<1> HIDE DEF x
<1>4. /\ net' \in Net /\ net'.sock = x.sock /\ net'.connect = x.connect
      /\ net'.handshake = x.handshake /\ net'.write = x.write
      /\ net'.pending = x.pending /\ net'.sent = x.sent /\ net'.msg = x.msg
      /\ x.sock # "closed" => net'.read = x.read + 1 /\ net'.doomed = x.doomed
  BY <1>2, <1>3, DoRead
<1>5. PhaseInv(net')
  BY <1>1, <1>2, <1>4 DEF PhaseInv
<1>6. QueueInv(net')
  BY <1>1, <1>2, <1>4 DEF QueueInv
<1> QED BY <1>2, <1>4, <1>5, <1>6 DEF NetOK, SameQueue

-----------------------------------------------------------------------------
(* Nothing is lost or reordered between the window and the network.        *)

QueueTypes ==
  /\ net.sent \in Seq(Requests) /\ net.pending \in Seq(Requests)
  /\ posts \in Seq(Requests \cup {CloseSocket})
  /\ asked \in Seq(Requests)

(* The types that the queue's proofs need.                                 *)
LEMMA IInvQueueTypes ==
  ASSUME IInv
  PROVE  QueueTypes /\ AskedInv /\ NetOK(net)
  BY DEF IInv, TypeOK, Net, QueueTypes

(* The head and the tail of a sequence that is not empty.                  *)
LEMMA HeadTail ==
  ASSUME NEW P, NEW p \in Seq(P), p # <<>>
  PROVE  /\ Len(p) \in Nat /\ Len(p) >= 1 /\ p[1] = Head(p) /\ Head(p) \in P
         /\ Tail(p) \in Seq(P) /\ Len(Tail(p)) = Len(p) - 1
         /\ \A i \in 1 .. Len(p) - 1 : Tail(p)[i] = p[i + 1]
  OBVIOUS

(* The first post is a request if a request is posted.                     *)
LEMMA LineHead ==
  ASSUME NEW R, NEW P, NEW a \in Seq(R), NEW s \in Seq(R), NEW q \in Seq(R),
         NEW p \in Seq(P), NEW m \in Nat, m > 0,
         InLine(a, s, q, p, m)
  PROVE  p[1] \in R
<1> DEFINE n == Len(s) + Len(q)
<1>1. n \in Nat /\ Len(a) = n + m /\ a[n + 1] = p[1]
  BY DEF InLine
<1> HIDE DEF n
<1>2. n + 1 \in 1 .. Len(a)
  BY <1>1
<1>3. a[n + 1] \in R
  BY <1>2
<1> QED BY <1>1, <1>3

(* The first of the queue is the oldest request that was not sent.         *)
LEMMA LineNext ==
  ASSUME NEW R, NEW a \in Seq(R), NEW s \in Seq(R), NEW q \in Seq(R),
         q # <<>>, NEW p, NEW m \in Nat,
         InLine(a, s, q, p, m)
  PROVE  Len(s) < Len(a) /\ a[Len(s) + 1] = Head(q)
<1>1. /\ Len(s) \in Nat /\ Len(q) \in Nat /\ Len(q) >= 1
      /\ q[1] = Head(q)
  BY HeadTail
<1>2. Len(a) = Len(s) + Len(q) + m /\ a[Len(s) + 1] = q[1]
  BY <1>1 DEF InLine
<1> QED BY <1>1, <1>2

(* With no request posted, what else is posted does not matter.            *)
LEMMA LineEnd ==
  ASSUME NEW a, NEW s, NEW q, NEW p, NEW p2, InLine(a, s, q, p, 0)
  PROVE  InLine(a, s, q, p2, 0)
  BY DEF InLine

(* A new request goes to the end of the line.                              *)
LEMMA LineAsk ==
  ASSUME NEW R, NEW P, NEW a \in Seq(R), NEW s \in Seq(R), NEW q \in Seq(R),
         NEW p \in Seq(P), NEW r \in R, r \in P,
         InLine(a, s, q, p, Len(p))
  PROVE  InLine(Append(a, r), s, q, Append(p, r), Len(p) + 1)
<1>1. /\ Len(a) \in Nat /\ Len(s) \in Nat /\ Len(q) \in Nat /\ Len(p) \in Nat
      /\ Len(Append(a, r)) = Len(a) + 1
      /\ Append(a, r)[Len(a) + 1] = r /\ Append(p, r)[Len(p) + 1] = r
      /\ \A i \in 1 .. Len(a) : Append(a, r)[i] = a[i]
      /\ \A i \in 1 .. Len(p) : Append(p, r)[i] = p[i]
  OBVIOUS
<1> DEFINE a2 == Append(a, r)
           p2 == Append(p, r)
<1> HIDE DEF a2, p2
<1> QED BY <1>1 DEF InLine, a2, p2

(* What is posted behind the requests does not disturb them.               *)
LEMMA LineClose ==
  ASSUME NEW R, NEW P, NEW a \in Seq(R), NEW s \in Seq(R), NEW q \in Seq(R),
         NEW p \in Seq(P), NEW c \in P,
         InLine(a, s, q, p, Len(p))
  PROVE  InLine(a, s, q, Append(p, c), Len(p))
<1>1. \A i \in 1 .. Len(p) : Append(p, c)[i] = p[i]
  OBVIOUS
<1> QED BY <1>1 DEF InLine

(* The first post becomes the last of the queue.                           *)
LEMMA LinePush ==
  ASSUME NEW R, NEW P, NEW a \in Seq(R), NEW s \in Seq(R), NEW q \in Seq(R),
         NEW p \in Seq(P), p # <<>>, Head(p) \in R,
         NEW m \in Nat, m > 0, m <= Len(p),
         InLine(a, s, q, p, m)
  PROVE  InLine(a, s, Append(q, Head(p)), Tail(p), m - 1)
<1> DEFINE q2 == Append(q, Head(p))
           p2 == Tail(p)
<1>1. /\ Len(a) \in Nat /\ Len(s) \in Nat /\ Len(q) \in Nat /\ Len(p) \in Nat
      /\ Len(q2) = Len(q) + 1 /\ q2[Len(q) + 1] = p[1]
      /\ \A i \in 1 .. Len(q) : q2[i] = q[i]
      /\ \A i \in 1 .. Len(p) - 1 : p2[i] = p[i + 1]
  OBVIOUS
<1> HIDE DEF q2, p2
<1>2. Len(a) = Len(s) + Len(q2) + (m - 1)
  BY <1>1 DEF InLine
<1>3. ASSUME NEW i \in 1 .. Len(q2)
      PROVE  a[Len(s) + i] = q2[i]
  <2>1. CASE i \in 1 .. Len(q)
    BY <1>1, <2>1 DEF InLine
  <2>2. CASE i = Len(q) + 1
    <3>1. a[Len(s) + Len(q) + 1] = p[1]
      BY DEF InLine
    <3> QED BY <1>1, <2>2, <3>1
  <2> QED BY <1>1, <2>1, <2>2
<1>4. ASSUME NEW i \in 1 .. m - 1
      PROVE  a[Len(s) + Len(q2) + i] = p2[i]
  <2>1. i + 1 \in 1 .. m /\ i \in 1 .. Len(p) - 1
    BY <1>1
  <2>2. a[Len(s) + Len(q) + (i + 1)] = p[i + 1]
    BY <2>1 DEF InLine
  <2>3. Len(s) + Len(q) + (i + 1) = Len(s) + Len(q2) + i
    BY <1>1
  <2> QED BY <1>1, <2>1, <2>2, <2>3
<1>5. \A i \in 1 .. Len(s) : a[i] = s[i]
  BY DEF InLine
<1> QED BY <1>2, <1>3, <1>4, <1>5 DEF InLine, q2, p2

(* The first of the queue becomes the last that was sent.                  *)
LEMMA LineSent ==
  ASSUME NEW R, NEW P, NEW a \in Seq(R), NEW s \in Seq(R), NEW q \in Seq(R),
         q # <<>>, NEW p \in Seq(P), NEW m \in Nat,
         InLine(a, s, q, p, m)
  PROVE  InLine(a, Append(s, Head(q)), Tail(q), p, m)
<1> DEFINE s2 == Append(s, Head(q))
           q2 == Tail(q)
<1>1. /\ Len(a) \in Nat /\ Len(s) \in Nat /\ Len(q) \in Nat /\ Len(q) > 0
      /\ Len(s2) = Len(s) + 1 /\ s2[Len(s) + 1] = q[1]
      /\ Len(q2) = Len(q) - 1
      /\ \A i \in 1 .. Len(s) : s2[i] = s[i]
      /\ \A i \in 1 .. Len(q2) : q2[i] = q[i + 1]
  OBVIOUS
<1> HIDE DEF s2, q2
<1>2. Len(a) = Len(s2) + Len(q2) + m
  BY <1>1 DEF InLine
<1>3. ASSUME NEW i \in 1 .. Len(s2)
      PROVE  a[i] = s2[i]
  <2>1. CASE i \in 1 .. Len(s)
    BY <1>1, <2>1 DEF InLine
  <2>2. CASE i = Len(s) + 1
    <3>1. a[Len(s) + 1] = q[1]
      BY <1>1 DEF InLine
    <3> QED BY <1>1, <2>2, <3>1
  <2> QED BY <1>1, <2>1, <2>2
<1>4. ASSUME NEW i \in 1 .. Len(q2)
      PROVE  a[Len(s2) + i] = q2[i]
  <2>1. i + 1 \in 1 .. Len(q)
    BY <1>1
  <2>2. a[Len(s) + (i + 1)] = q[i + 1]
    BY <2>1 DEF InLine
  <2>3. Len(s) + (i + 1) = Len(s2) + i
    BY <1>1
  <2> QED BY <1>1, <2>1, <2>2, <2>3
<1>5. ASSUME NEW i \in 1 .. m
      PROVE  a[Len(s2) + Len(q2) + i] = p[i]
  <2>1. Len(s) + Len(q) + i = Len(s2) + Len(q2) + i
    BY <1>1
  <2> QED BY <2>1 DEF InLine
<1> QED BY <1>2, <1>3, <1>4, <1>5 DEF InLine, s2, q2
(* The post at the head is the close only if it is the only one; otherwise *)
(* it is the oldest request that is not queued.                            *)
LEMMA HeadPost ==
  ASSUME QueueTypes, AskedInv, posts # <<>>
  PROVE  /\ Head(posts) = CloseSocket => Len(posts) = 1 /\ ClosePosted
         /\ Head(posts) # CloseSocket =>
              /\ Head(posts) \in Requests
              /\ Requested \in Nat /\ Requested > 0 /\ Requested <= Len(posts)
<1>1. /\ Len(posts) \in Nat /\ Len(posts) >= 1 /\ posts[1] = Head(posts)
      /\ Head(posts) \in Requests \cup {CloseSocket}
  BY HeadTail DEF QueueTypes
<1>2. CASE Head(posts) = CloseSocket
  <2>1. ASSUME Requested > 0
        PROVE  FALSE
    <3>1. Requested \in Nat
      BY <1>1 DEF Requested
    <3>2. posts[1] \in Requests
      BY <2>1, <3>1, LineHead DEF AskedInv, QueueTypes
    <3> QED BY <1>1, <1>2, <3>2, RequestsAssumption
  <2>2. CASE ClosePosted
    <3>1. Requested = Len(posts) - 1
      BY <2>2 DEF Requested
    <3> QED BY <1>1, <1>2, <2>1, <2>2, <3>1
  <2>3. CASE ~ClosePosted
    <3>1. Requested = Len(posts)
      BY <1>1, <2>3 DEF Requested
    <3> QED BY <1>1, <2>1, <3>1
  <2> QED BY <2>2, <2>3
<1>3. CASE Head(posts) # CloseSocket
  <2>1. ClosePosted => Len(posts) > 1
    BY <1>1, <1>3 DEF ClosePosted
  <2> QED BY <1>1, <1>3, <2>1 DEF Requested
<1> QED BY <1>2, <1>3

(* What leaves queue and posts alone.                                      *)
LEMMA QueueKept ==
  ASSUME AskedInv, SameQueue, posts' = posts, asked' = asked,
         window # "open" => window' # "open"
  PROVE  AskedInv'
<1>1. ClosePosted' = ClosePosted /\ Requested' = Requested
  BY DEF ClosePosted, Requested
<1> QED BY <1>1 DEF AskedInv, SameQueue

(* Client::write posts the new request behind all others.                  *)
LEMMA WriteQueue ==
  ASSUME QueueTypes, AskedInv, NEW r \in Requests, write(r)
  PROVE  AskedInv'
<1>1. /\ posts' = Append(posts, r) /\ asked' = Append(asked, r)
      /\ net' = net /\ window = "open"
  BY DEF write
<1>2. ~ClosePosted /\ Requested = Len(posts)
  BY <1>1 DEF AskedInv, Requested, QueueTypes
<1>3. ~ClosePosted' /\ Requested' = Len(posts) + 1
  <2>1. /\ Len(posts) \in Nat /\ Len(posts') = Len(posts) + 1
        /\ posts'[Len(posts) + 1] = r
    BY <1>1 DEF QueueTypes
  <2> QED BY <2>1, RequestsAssumption DEF ClosePosted, Requested
<1>4. InLine(Append(asked, r), net.sent, net.pending, Append(posts, r),
             Len(posts) + 1)
  BY <1>2, LineAsk DEF AskedInv, QueueTypes
<1> QED BY <1>1, <1>3, <1>4 DEF AskedInv

(* The close is posted behind all requests.                                *)
LEMMA DestroyQueue ==
  ASSUME QueueTypes, AskedInv, Destroy
  PROVE  AskedInv'
<1>1. /\ posts' = Append(posts, CloseSocket) /\ asked' = asked
      /\ net' = net /\ window = "open" /\ window' # "open"
  BY DEF Destroy, close
<1>2. ~ClosePosted /\ Requested = Len(posts)
  BY <1>1 DEF AskedInv, Requested, QueueTypes
<1>3. ClosePosted' /\ Requested' = Len(posts)
  <2>1. /\ Len(posts) \in Nat /\ Len(posts') = Len(posts) + 1
        /\ posts'[Len(posts) + 1] = CloseSocket /\ posts' # <<>>
    BY <1>1 DEF QueueTypes
  <2> QED BY <2>1 DEF ClosePosted, Requested
<1>4. InLine(asked, net.sent, net.pending, Append(posts, CloseSocket),
             Len(posts))
  BY <1>2, LineClose DEF AskedInv, QueueTypes
<1> QED BY <1>1, <1>3, <1>4 DEF AskedInv

(* The worker closes the socket, or moves the oldest post to the end of    *)
(* the queue.                                                              *)
LEMMA RunPostNet ==
  ASSUME QueueTypes, AskedInv, NetOK(net), RunPost
  PROVE  /\ NetOK(net')
         /\ net'.sent = net.sent
         /\ Head(posts) = CloseSocket => net'.pending = net.pending
         /\ Head(posts) # CloseSocket =>
              net'.pending = Append(net.pending, Head(posts))
<1>1. CASE Head(posts) = CloseSocket
  <2>1. net' = Closed(net)
    BY <1>1 DEF RunPost, Handler
  <2>2. net \in Net /\ QueueInv(net)
    BY DEF NetOK
  <2>3. /\ net' \in Net /\ net'.sock = "closed" /\ net'.write = net.write
        /\ net'.pending = net.pending /\ net'.sent = net.sent
        /\ net'.msg = net.msg
    BY <2>1, <2>2, ClosedOnly
  <2>4. PhaseInv(net') /\ QueueInv(net')
    BY <2>2, <2>3 DEF PhaseInv, QueueInv
  <2> QED BY <1>1, <2>3, <2>4 DEF NetOK
<1>2. CASE Head(posts) # CloseSocket
  <2>1. net' = push(net, Head(posts))
    BY <1>2 DEF RunPost, Handler
  <2>2. Head(posts) \in Requests
    BY <1>2, HeadPost DEF RunPost
  <2> QED BY <1>2, <2>1, <2>2, Push
<1> QED BY <1>1, <1>2

(* So a request changes places without overtaking another.                 *)
LEMMA RunPostQueue ==
  ASSUME QueueTypes, AskedInv, NetOK(net), RunPost
  PROVE  AskedInv'
<1>1. /\ posts # <<>> /\ posts' = Tail(posts) /\ asked' = asked
      /\ window' = window
  BY DEF RunPost, Handler
<1>2. /\ Len(posts) \in Nat /\ Len(posts) >= 1 /\ posts[1] = Head(posts)
      /\ Len(posts') = Len(posts) - 1
      /\ \A i \in 1 .. Len(posts') : posts'[i] = posts[i + 1]
      /\ (posts' # <<>> <=> Len(posts') > 0)
  <2>1. /\ posts' \in Seq(Requests \cup {CloseSocket})
        /\ Len(posts) \in Nat /\ Len(posts) >= 1 /\ posts[1] = Head(posts)
        /\ Len(posts') = Len(posts) - 1
        /\ \A i \in 1 .. Len(posts) - 1 : posts'[i] = posts[i + 1]
    BY <1>1, HeadTail DEF QueueTypes
  <2>2. posts' # <<>> <=> Len(posts') > 0
    BY <2>1
  <2> QED BY <2>1, <2>2
<1>3. CASE Head(posts) = CloseSocket
  <2>1. Len(posts) = 1 /\ ClosePosted
    BY <1>1, <1>3, HeadPost
  <2>2. net'.sent = net.sent /\ net'.pending = net.pending
    BY <1>3, RunPostNet
  <2>3. ~ClosePosted' /\ Requested = 0 /\ Requested' = 0
    <3>1. posts' = <<>> /\ ~ClosePosted'
      BY <1>2, <2>1 DEF ClosePosted
    <3>2. Requested' = 0
      BY <3>1 DEF Requested, ClosePosted
    <3>3. Requested = 0
      BY <2>1 DEF Requested
    <3> QED BY <3>1, <3>2, <3>3
  <2>4. InLine(asked, net.sent, net.pending, posts', 0)
    BY <2>3, LineEnd DEF AskedInv
  <2> QED BY <1>1, <2>2, <2>3, <2>4 DEF AskedInv
<1>4. CASE Head(posts) # CloseSocket
  <2>1. /\ Head(posts) \in Requests
        /\ Requested \in Nat /\ Requested > 0 /\ Requested <= Len(posts)
    BY <1>1, <1>4, HeadPost
  <2>2. /\ net'.sent = net.sent
        /\ net'.pending = Append(net.pending, Head(posts))
    BY <1>4, RunPostNet
  <2>3. (ClosePosted' <=> ClosePosted) /\ Requested' = Requested - 1
    <3>1. CASE Len(posts) = 1
      BY <1>2, <1>4, <3>1 DEF ClosePosted, Requested
    <3>2. CASE Len(posts) > 1
      <4>1. Len(posts') \in 1 .. Len(posts') /\ Len(posts') + 1 = Len(posts)
        BY <1>2, <3>2
      <4>2. posts'[Len(posts')] = posts[Len(posts)]
        BY <1>2, <4>1
      <4>3. ClosePosted' <=> ClosePosted
        BY <1>1, <1>2, <3>2, <4>2 DEF ClosePosted
      <4> QED BY <1>2, <4>3 DEF Requested
    <3> QED BY <1>2, <3>1, <3>2
  <2>4. InLine(asked, net.sent, Append(net.pending, Head(posts)),
               Tail(posts), Requested - 1)
    BY <1>1, <2>1, LinePush DEF AskedInv, QueueTypes
  <2> QED BY <1>1, <2>2, <2>3, <2>4 DEF AskedInv
<1> QED BY <1>3, <1>4

(* A completed write sends the oldest request that was not sent.           *)
LEMMA WriteDoneNet ==
  ASSUME NetOK(net), WriteDone
  PROVE  /\ NetOK(net')
         /\ net.pending # <<>>
         /\ net'.sent = Append(net.sent, Head(net.pending))
         /\ net'.pending = Tail(net.pending)
<1>1. net' = Written(net) /\ net.write > 0
  BY DEF WriteDone, Completion, Handler, Written
<1> QED BY <1>1, Pop

(* So it leaves the order of what is under way as it is.                   *)
LEMMA WriteDoneQueue ==
  ASSUME QueueTypes, AskedInv, NetOK(net), WriteDone
  PROVE  AskedInv'
<1>1. /\ net.pending # <<>>
      /\ net'.sent = Append(net.sent, Head(net.pending))
      /\ net'.pending = Tail(net.pending)
  BY WriteDoneNet
<1>2. posts' = posts /\ asked' = asked /\ window' = window
  BY DEF WriteDone, Completion, Handler
<1>3. Requested \in Nat
  BY DEF Requested, ClosePosted, QueueTypes
<1>4. InLine(asked, Append(net.sent, Head(net.pending)), Tail(net.pending),
             posts, Requested)
  BY <1>1, <1>3, LineSent DEF AskedInv, QueueTypes
<1>5. ClosePosted' = ClosePosted /\ Requested' = Requested
  BY <1>2 DEF ClosePosted, Requested
<1> QED BY <1>1, <1>2, <1>4, <1>5 DEF AskedInv

-----------------------------------------------------------------------------
(* The invariant.                                                          *)

(* The invariant holds once the window is made.                            *)
LEMMA InitIInv == Init => IInv
<1> SUFFICES ASSUME Init PROVE IInv
  OBVIOUS
<1>1. net \in Net
  BY DEF Init, Net, NoRequest
<1>2. PhaseInv(net) /\ QueueInv(net)
  BY DEF Init, PhaseInv, QueueInv
<1>3. AnswersOK
  BY BoundsAssumption DEF Init, AnswersOK
<1>4. TypeOK
  BY <1>1, BoundsAssumption DEF Init, TypeOK
<1>5. ~ClosePosted /\ Requested = 0
  BY DEF Init, ClosePosted, Requested
<1>6. AskedInv
  BY <1>5 DEF Init, AskedInv, InLine
<1>7. WorkerOutlivesConnection
  BY DEF Init, WorkerOutlivesConnection
<1> QED BY <1>1, <1>2, <1>3, <1>4, <1>6, <1>7 DEF IInv, NetOK

(* The worker does not end before the close unless the handshake failed:   *)
(* every other phase has its operation.                                    *)
LEMMA WorkerEndsLate ==
  ASSUME NetOK(net), WorkerEnds
  PROVE  net.sock \in {"closed", "refused"}
<1>1. /\ net.connect \in Nat /\ net.handshake \in Nat /\ net.read \in Nat
      /\ net.write \in Nat /\ net.doomed \in Nat
      /\ net.sock \in {"connecting", "handshake", "up", "refused", "closed"}
  BY DEF NetOK, Net
<1>2. net.connect = 0 /\ net.handshake = 0 /\ net.read = 0
  <2>1. \A a, b, c, d, e \in Nat :
          a + b + c + d + e = 0 => a = 0 /\ b = 0 /\ c = 0
    OBVIOUS
  <2>2. net.connect + net.handshake + net.read + net.write + net.doomed = 0
    BY DEF WorkerEnds
  <2> QED BY <1>1, <2>1, <2>2
<1> QED BY <1>1, <1>2 DEF NetOK, PhaseInv

(* What the parts of the invariant give for the typing of the next state.  *)
LEMMA TypesNext ==
  ASSUME NetOK(net'), AnswersOK',
         posts' \in Seq(Requests \cup {CloseSocket}),
         worker' \in {"running", "ended"},
         window' \in {"open", "closing", "gone"},
         asked' \in Seq(Requests), Len(asked') <= MaxAsked
  PROVE  TypeOK'
<1>1. /\ answers'.sent \in Nat /\ answers'.read \in Nat
      /\ answers'.executed \in Nat
  BY DEF AnswersOK
<1>2. /\ answers'.sent \in 0 .. MaxAnswers
      /\ answers'.read \in 0 .. answers'.sent
      /\ answers'.executed \in 0 .. answers'.read
  BY <1>1, BoundsAssumption DEF AnswersOK
<1> QED BY <1>2 DEF TypeOK, NetOK

CompletionStep ==
  \/ Connected \/ HandshakeDone \/ HandshakeFails \/ ReadDone
  \/ \E kind \in Operations : Fails(kind)

(* The handlers that leave the queue alone keep the invariant.             *)
LEMMA CompletionIInv ==
  ASSUME IInv, CompletionStep
  PROVE  IInv'
<1>1. NetOK(net') /\ SameQueue
  BY ConnectedNet, HandshakeDoneNet, HandshakeFailsNet, ReadDoneNet, FailsNet
     DEF CompletionStep, IInv
<1>2. /\ posts' = posts /\ worker = "running" /\ worker' = worker
      /\ window' = window /\ asked' = asked
  BY DEF CompletionStep, Connected, HandshakeDone, HandshakeFails, ReadDone,
         Fails, Completion, Handler
<1>3. AnswersOK'
  <2>1. CASE ReadDone
    <3>1. /\ answers' = [answers EXCEPT !.read = @ + 1]
          /\ answers.read < answers.sent
      BY <2>1 DEF ReadDone
    <3> QED BY <3>1 DEF AnswersOK, IInv
  <2>2. CASE ~ReadDone
    <3>1. answers' = answers
      BY <2>2 DEF CompletionStep, Connected, HandshakeDone, HandshakeFails,
                  Fails, Completion
    <3> QED BY <3>1 DEF AnswersOK, IInv
  <2> QED BY <2>1, <2>2
<1>4. AskedInv'
  <2>1. AskedInv /\ (window # "open" => window' # "open")
    BY <1>2 DEF IInv
  <2> QED BY <1>1, <1>2, <2>1, QueueKept
<1>5. WorkerOutlivesConnection'
  BY <1>2 DEF WorkerOutlivesConnection
<1>6. TypeOK'
  <2>1. /\ posts' \in Seq(Requests \cup {CloseSocket})
        /\ worker' \in {"running", "ended"}
        /\ window' \in {"open", "closing", "gone"}
        /\ asked' \in Seq(Requests) /\ Len(asked') <= MaxAsked
    BY <1>2 DEF IInv, TypeOK
  <2> QED BY <1>1, <1>3, <2>1, TypesNext
<1> QED BY <1>1, <1>3, <1>4, <1>5, <1>6 DEF IInv

(* The window's steps, the end of the worker and the server's answers      *)
(* leave the connection alone.                                             *)
LEMMA NetKept ==
  ASSUME IInv, net' = net
  PROVE  NetOK(net') /\ SameQueue
  BY DEF IInv, SameQueue

(* Every step keeps the invariant.                                         *)
LEMMA NextIInv == IInv /\ [Next]_vars => IInv'
<1> SUFFICES ASSUME IInv, [Next]_vars PROVE IInv'
  OBVIOUS
<1> USE DEF IInv
<1>0. QueueTypes /\ AskedInv /\ NetOK(net)
  BY IInvQueueTypes
<1>T. /\ posts \in Seq(Requests \cup {CloseSocket})
      /\ worker \in {"running", "ended"}
      /\ window \in {"open", "closing", "gone"}
      /\ asked \in Seq(Requests) /\ Len(asked) <= MaxAsked
  BY DEF TypeOK
<1>1. CASE \E r \in Requests : write(r)
  <2>1. PICK r \in Requests : write(r)
    BY <1>1
  <2>2. /\ net' = net /\ worker' = worker /\ window' = window
        /\ answers' = answers /\ posts' = Append(posts, r)
        /\ asked' = Append(asked, r) /\ Len(asked) < MaxAsked
    BY <2>1 DEF write
  <2>3. NetOK(net') /\ AnswersOK' /\ WorkerOutlivesConnection'
    BY <1>0, <2>2 DEF AnswersOK, WorkerOutlivesConnection
  <2>4. AskedInv'
    BY <1>0, <2>1, WriteQueue
  <2>5. /\ posts' \in Seq(Requests \cup {CloseSocket})
        /\ asked' \in Seq(Requests) /\ Len(asked') <= MaxAsked
    BY <1>T, <2>2, BoundsAssumption
  <2>6. TypeOK'
    BY <1>T, <2>2, <2>3, <2>5, TypesNext
  <2> QED BY <2>3, <2>4, <2>6
<1>2. CASE execResponse \/ ServerAnswers
  <2>1. /\ net' = net /\ worker' = worker /\ window' = window
        /\ posts' = posts /\ asked' = asked
    BY <1>2 DEF execResponse, ServerAnswers
  <2>2. NetOK(net') /\ SameQueue /\ WorkerOutlivesConnection'
    BY <2>1, NetKept DEF WorkerOutlivesConnection
  <2>3. AskedInv'
    BY <1>0, <2>1, <2>2, QueueKept
  <2>4. AnswersOK'
    <3>1. CASE execResponse
      <4>1. /\ answers' = [answers EXCEPT !.executed = @ + 1]
            /\ answers.executed < answers.read
        BY <3>1 DEF execResponse
      <4> QED BY <4>1 DEF AnswersOK
    <3>2. CASE ServerAnswers
      <4>1. /\ answers' = [answers EXCEPT !.sent = @ + 1]
            /\ answers.sent < MaxAnswers
        BY <3>2 DEF ServerAnswers
      <4> QED BY <4>1, BoundsAssumption DEF AnswersOK
    <3> QED BY <1>2, <3>1, <3>2
  <2>5. TypeOK'
    BY <1>T, <2>1, <2>2, <2>4, TypesNext
  <2> QED BY <2>2, <2>3, <2>4, <2>5
<1>3. CASE Destroy
  <2>1. /\ net' = net /\ worker' = worker /\ window' = "closing"
        /\ answers' = answers /\ posts' = Append(posts, CloseSocket)
        /\ asked' = asked
    BY <1>3 DEF Destroy, close
  <2>2. NetOK(net') /\ AnswersOK' /\ WorkerOutlivesConnection'
    BY <1>0, <2>1 DEF AnswersOK, WorkerOutlivesConnection
  <2>3. AskedInv'
    BY <1>0, <1>3, DestroyQueue
  <2>4. posts' \in Seq(Requests \cup {CloseSocket})
    BY <1>T, <2>1
  <2>5. TypeOK'
    BY <1>T, <2>1, <2>2, <2>4, TypesNext
  <2> QED BY <2>2, <2>3, <2>5
<1>4. CASE Join
  <2>1. /\ net' = net /\ worker' = worker /\ window' = "gone"
        /\ answers' = answers /\ posts' = posts /\ asked' = asked
    BY <1>4 DEF Join
  <2>2. NetOK(net') /\ SameQueue /\ AnswersOK' /\ WorkerOutlivesConnection'
    BY <2>1, NetKept DEF AnswersOK, WorkerOutlivesConnection
  <2>3. AskedInv'
    BY <1>0, <2>1, <2>2, QueueKept
  <2>4. TypeOK'
    BY <1>T, <2>1, <2>2, TypesNext
  <2> QED BY <2>2, <2>3, <2>4
<1>5. CASE RunPost
  <2>1. /\ worker = "running" /\ worker' = worker /\ window' = window
        /\ answers' = answers /\ posts # <<>> /\ posts' = Tail(posts)
        /\ asked' = asked
    BY <1>5 DEF RunPost, Handler
  <2>2. NetOK(net') /\ AnswersOK' /\ WorkerOutlivesConnection'
    BY <1>0, <1>5, <2>1, RunPostNet DEF AnswersOK, WorkerOutlivesConnection
  <2>3. AskedInv'
    BY <1>0, <1>5, RunPostQueue
  <2>4. posts' \in Seq(Requests \cup {CloseSocket})
    BY <1>T, <2>1, HeadTail
  <2>5. TypeOK'
    BY <1>T, <2>1, <2>2, <2>4, TypesNext
  <2> QED BY <2>2, <2>3, <2>5
<1>6. CASE WriteDone
  <2>1. /\ worker = "running" /\ worker' = worker /\ window' = window
        /\ answers' = answers /\ posts' = posts /\ asked' = asked
    BY <1>6 DEF WriteDone, Completion, Handler
  <2>2. NetOK(net') /\ AnswersOK' /\ WorkerOutlivesConnection'
    BY <1>0, <1>6, <2>1, WriteDoneNet DEF AnswersOK, WorkerOutlivesConnection
  <2>3. AskedInv'
    BY <1>0, <1>6, WriteDoneQueue
  <2>4. TypeOK'
    BY <1>T, <2>1, <2>2, TypesNext
  <2> QED BY <2>2, <2>3, <2>4
<1>7. CASE WorkerEnds
  <2>1. /\ net' = net /\ worker' = "ended" /\ window' = window
        /\ answers' = answers /\ posts' = posts /\ asked' = asked
    BY <1>7 DEF WorkerEnds
  <2>2. NetOK(net') /\ SameQueue /\ AnswersOK'
    BY <2>1, NetKept DEF AnswersOK
  <2>3. WorkerOutlivesConnection'
    BY <1>0, <1>7, <2>1, WorkerEndsLate DEF WorkerOutlivesConnection
  <2>4. AskedInv'
    BY <1>0, <2>1, <2>2, QueueKept
  <2>5. TypeOK'
    BY <1>T, <2>1, <2>2, TypesNext
  <2> QED BY <2>2, <2>3, <2>4, <2>5
<1>8. CASE CompletionStep
  BY <1>8, CompletionIInv
<1>9. CASE UNCHANGED vars
  <2>1. /\ net' = net /\ worker' = worker /\ window' = window
        /\ answers' = answers /\ posts' = posts /\ asked' = asked
    BY <1>9 DEF vars
  <2>2. NetOK(net') /\ SameQueue /\ AnswersOK' /\ WorkerOutlivesConnection'
    BY <2>1, NetKept DEF AnswersOK, WorkerOutlivesConnection
  <2>3. AskedInv'
    BY <1>0, <2>1, <2>2, QueueKept
  <2>4. TypeOK'
    BY <1>T, <2>1, <2>2, TypesNext
  <2> QED BY <2>2, <2>3, <2>4
<1> QED
  <2>1. Next => \/ \E r \in Requests : write(r)
                \/ execResponse \/ ServerAnswers \/ Destroy \/ Join \/ RunPost
                \/ WriteDone \/ WorkerEnds \/ CompletionStep
    BY DEF Next, ConnectEnds, HandshakeEnds, WriteEnds, ReadEnds,
           CompletionStep, Operations
  <2> QED BY <1>1, <1>2, <1>3, <1>4, <1>5, <1>6, <1>7, <1>8, <1>9, <2>1

(* So the invariant holds in every state of the client.                    *)
LEMMA Invariance == Spec => []IInv
  BY InitIInv, NextIInv, PTL DEF Spec

-----------------------------------------------------------------------------
(* The theorems.                                                           *)

(* Types: in particular no counter of operations becomes negative, and no  *)
(* response is executed before it is read, or read before it is sent.      *)
THEOREM ClientTypes == Spec => []TypeOK
<1>1. IInv => TypeOK
  BY DEF IInv
<1> QED BY <1>1, Invariance, PTL

(* Requests are queued exactly while one write is in progress, as long as  *)
(* the socket is open: Client::push and Client::pop never have two writes  *)
(* share msg_, and never leave a request behind.                           *)
THEOREM QueueServed == Spec => []QueueIsServed
<1>1. IInv => QueueIsServed
  BY DEF IInv, NetOK, QueueInv, QueueIsServed
<1> QED BY <1>1, Invariance, PTL

(* io_context.run() does not return while the connection is being made or  *)
(* is up.                                                                  *)
THEOREM WorkerOutlives == Spec => []WorkerOutlivesConnection
<1>1. IInv => WorkerOutlivesConnection
  BY DEF IInv
<1> QED BY <1>1, Invariance, PTL

(* What the window asks reaches the network in that order, without loss in *)
(* the middle and without duplication: the client implements the link.     *)
THEOREM ClientIsLink == Spec => RequestLinkSpec
<1>1. Init => RequestLink!Init
  BY DEF Init, RequestLink!Init
<1>2. IInv /\ [Next]_vars => [RequestLink!Next]_(RequestLink!vars)
  <2> SUFFICES ASSUME IInv, [Next]_vars
               PROVE  [RequestLink!Next]_(RequestLink!vars)
    OBVIOUS
  <2>0. QueueTypes /\ AskedInv /\ NetOK(net)
    BY IInvQueueTypes
  <2>1. CASE \E r \in Requests : write(r)
    BY <2>1 DEF write, RequestLink!Next, RequestLink!Ask
  <2>2. CASE WriteDone
    <3>1. /\ net.pending # <<>>
          /\ net'.sent = Append(net.sent, Head(net.pending))
      BY <2>0, <2>2, WriteDoneNet
    <3>2. asked' = asked
      BY <2>2 DEF WriteDone, Completion, Handler
    <3>3. Requested \in Nat
      BY <2>0 DEF Requested, ClosePosted, QueueTypes
    <3>4. /\ Len(net.sent) < Len(asked)
          /\ asked[Len(net.sent) + 1] = Head(net.pending)
      BY <2>0, <3>1, <3>3, LineNext DEF AskedInv, QueueTypes
    <3> QED BY <3>1, <3>2, <3>4
            DEF RequestLink!Next, RequestLink!Deliver
  <2>3. CASE RunPost
    BY <2>0, <2>3, RunPostNet DEF RunPost, Handler, RequestLink!vars
  <2>4. CASE CompletionStep
    <3>1. SameQueue
      BY <2>0, <2>4, ConnectedNet, HandshakeDoneNet, HandshakeFailsNet,
         ReadDoneNet, FailsNet DEF CompletionStep
    <3>2. asked' = asked
      BY <2>4 DEF CompletionStep, Connected, HandshakeDone, HandshakeFails,
                  ReadDone, Fails, Completion, Handler
    <3> QED BY <3>1, <3>2 DEF SameQueue, RequestLink!vars
  <2>5. CASE \/ execResponse \/ ServerAnswers \/ Destroy \/ Join
             \/ WorkerEnds \/ UNCHANGED vars
    <3>1. net' = net /\ asked' = asked
      BY <2>5 DEF execResponse, ServerAnswers, Destroy, Join, WorkerEnds, vars
    <3> QED BY <3>1 DEF RequestLink!vars
  <2> QED
    <3>1. Next => \/ \E r \in Requests : write(r)
                  \/ execResponse \/ ServerAnswers \/ Destroy \/ Join
                  \/ RunPost \/ WriteDone \/ WorkerEnds \/ CompletionStep
      BY DEF Next, ConnectEnds, HandshakeEnds, WriteEnds, ReadEnds,
             CompletionStep, Operations
    <3> QED BY <2>1, <2>2, <2>3, <2>4, <2>5, <3>1
<1> QED BY <1>1, <1>2, Invariance, PTL
        DEF Spec, RequestLinkSpec, RequestLink!Spec
=============================================================================
