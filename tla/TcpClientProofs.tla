--------------------------- MODULE TcpClientProofs ---------------------------
(***************************************************************************)
(* Proofs about TcpClient and its Connector, for any programs, any bounds  *)
(* and any delays.  What a functor or a callback finds follows from where  *)
(* the one attempt to connect is, which is at one place at a time:         *)
(* startInLoop is queued, the timer of retry is set, the channel is        *)
(* enabled, the connection is there, or removeConnection is about to       *)
(* restart the connector.                                                  *)
(***************************************************************************)
EXTENDS TcpClient, TLAPS

(* The delays are numbers of milliseconds. *)
ClientConstants == kInitRetryDelayMs \in Nat /\ kMaxRetryDelayMs \in Nat

(* A program that calls connect() first and in one thread only, and destroys *)
(* the client when no functor of the connector is queued.                    *)
Careful(p) == p.patient /\ ("connect" \notin p.loopOps \/ "connect" \notin p.threadOps)
CarefulPrograms == \A p \in ClientPrograms : Careful(p)

(* A program that lets the client reconnect calls stop() in the loop thread: *)
(* in another one it may come between the test of connect_ in                *)
(* removeConnection and restart(), which sets connect_ again.                *)
StopsInLoop(p) == ~(p.retry_ /\ "stop" \in p.threadOps)
ProgramsStopInLoop == \A p \in ClientPrograms : StopsInLoop(p)

-----------------------------------------------------------------------------
(* The functors that the client, its connector and its connection queue. *)
ClientFunctors == {"startInLoop", "stopInLoop", "resetChannel", "forceCloseInLoop",
                   "connectDestroyed", "shutdownInLoop"}

(* The types of the variables; one timer of retry is set at a time. *)
ConnectorType ==
  [connect_ : BOOLEAN, state_ : {"kDisconnected", "kConnecting", "kConnected"},
   channel_ : {"none", "enabled", "removed"}, retryDelayMs_ : Nat, retries : Nat, open : Nat,
   failed : SUBSET STRING, gaveUp : BOOLEAN]

(* The types of the variables. *)
ClientTypes ==
  /\ client \in ClientPrograms
  /\ connector \in ConnectorType
  /\ connector.retries \in {0, 1} /\ connector.failed = {}
  /\ alive \in BOOLEAN /\ clientConnect \in BOOLEAN /\ kept \in BOOLEAN /\ restarting \in BOOLEAN
  /\ phase \in {"poll", "events", "functors"}
  /\ pending \in Seq(ClientFunctors) /\ batch \in Seq(ClientFunctors)
  /\ clientCalled \subseteq BOOLEAN \X {"connect", "disconnect", "stop", "destroy"}

(* A functor is queued once. *)
OnceIn(s, f) == \A k, m \in 1 .. Len(s) : s[k] = f /\ s[m] = f => k = m
QueuedOnce(f) ==
  /\ OnceIn(pending, f) /\ OnceIn(batch, f)
  /\ f \notin Elements(pending) \/ f \notin Elements(batch)

(* Each phase of the loop leaves nothing of the one before. *)
ClientLoopOK ==
  /\ ready # {} => phase = "events"
  /\ batch # <<>> => phase = "functors"

(* The operations the program calls in the loop thread, and in the other one. *)
ClientOps(inLoop) == IF inLoop THEN client.loopOps ELSE client.threadOps

(* Before the call of connect() nothing has happened, and that call is not repeated. *)
FirstOK ==
  /\ clientCalled = {} =>
       /\ connector = NewConnector /\ alive /\ ~kept /\ conn = "none" /\ ready = {}
       /\ pending = <<>> /\ batch = <<>> /\ ~restarting
  /\ clientCalled # {} =>
       \A b \in BOOLEAN : "connect" \in ClientOps(b) => <<b, "connect">> \in clientCalled

(* An attempt to connect is at one place at a time. *)
AttemptOK ==
  /\ QueuedOnce("startInLoop")
  /\ "startInLoop" \in Queued =>
       connector.retries = 0 /\ connector.channel_ = "none" /\ connector.state_ = "kDisconnected"
       /\ ~HasConnection /\ ~restarting
  /\ connector.retries = 1 =>
       connector.channel_ # "enabled" /\ connector.state_ = "kDisconnected"
       /\ ~HasConnection /\ ~restarting
  /\ connector.channel_ = "enabled" <=> connector.state_ = "kConnecting"
  /\ connector.channel_ = "enabled" => ~HasConnection /\ ~restarting
  /\ restarting => ~HasConnection /\ connector.channel_ = "none"
  /\ DescriptorsAccounted

(* removeAndResetChannel queues one resetChannel, and no connection is there when   *)
(* the functors are about to run it.                                                *)
ResetOK ==
  /\ QueuedOnce("resetChannel")
  /\ connector.channel_ = "removed" <=> "resetChannel" \in Queued
  /\ ("resetChannel" \in Elements(pending) /\ phase # "events") => ~HasConnection

(* What poll() reported is still there when it is handled. *)
ReadyOK ==
  /\ "connector" \in ready => connector.channel_ = "enabled"
  /\ "timer" \in ready => connector.retries = 1 /\ connector.channel_ = "none"
  /\ "conn" \in ready => HasConnection /\ connector.channel_ = "none"
  /\ "kept" \in ready => kept

(* Once the client is destroyed its connection calls no function of the client; the *)
(* connector is kept by the timer of ~TcpClient while a functor or callback needs   *)
(* it, and does not connect again.                                                  *)
ClientGone ==
  /\ kept => ~alive
  /\ "forceCloseInLoop" \in Queued => ~alive
  /\ ~alive =>
       /\ ~restarting
       /\ HasConnection => closeCallback_ = "detail"
       /\ kept => ~HasConnection
       /\ kept /\ connector.channel_ = "enabled" => "stopInLoop" \in Queued
       /\ connector.connect_ =>
            "startInLoop" \notin Queued /\ connector.retries = 0 /\ connector.channel_ # "enabled"
       /\ (~kept \/ "kept" \in ready) =>
            connector.channel_ = "none" /\ Queued \cap ConnectorFunctors = {}

(* The inductive invariant of TcpClient. *)
ClientInv ==
  ClientTypes /\ ClientLoopOK /\ FirstOK /\ AttemptOK /\ ResetOK /\ ReadyOK /\ ClientGone

-----------------------------------------------------------------------------

(* What Elements holds, by the positions of a queue. *)
LEMMA ElementsOf ==
  ASSUME NEW s \in Seq(ClientFunctors)
  PROVE  \A f : f \in Elements(s) <=> \E k \in 1 .. Len(s) : s[k] = f
  BY DEF Elements

(* queueInLoop appends a functor to a queue. *)
LEMMA Appended ==
  ASSUME NEW s \in Seq(ClientFunctors), NEW e \in ClientFunctors
  PROVE  /\ Append(s, e) \in Seq(ClientFunctors) /\ Append(s, e) # <<>>
         /\ Elements(Append(s, e)) = Elements(s) \cup {e}
         /\ \A f : OnceIn(s, f) /\ (f # e \/ f \notin Elements(s)) => OnceIn(Append(s, e), f)
<1> DEFINE r == Append(s, e)
<1>1. r \in Seq(ClientFunctors) /\ Len(r) = Len(s) + 1 /\ Len(s) \in Nat
  OBVIOUS
<1>2. r[Len(s) + 1] = e /\ \A k \in 1 .. Len(s) : r[k] = s[k]
  OBVIOUS
<1> HIDE DEF r
<1>3. \A k \in 1 .. Len(r) : k = Len(s) + 1 \/ k \in 1 .. Len(s)
  BY <1>1
<1>4. \A k \in 1 .. Len(s) : k \in 1 .. Len(r)
  BY <1>1
<1>5. Len(s) + 1 \in 1 .. Len(r)
  BY <1>1
<1>6. Elements(r) = Elements(s) \cup {e}
  <2>1. \A f : f \in Elements(r) <=> f \in Elements(s) \/ f = e
    <3> TAKE f
    <3>1. ASSUME f \in Elements(r) PROVE f \in Elements(s) \/ f = e
      <4>1. PICK k \in 1 .. Len(r) : r[k] = f
        BY <1>1, <3>1, ElementsOf
      <4>2. CASE k \in 1 .. Len(s)
        BY <1>2, <4>1, <4>2, ElementsOf
      <4> QED
        BY <1>2, <1>3, <4>1, <4>2, Zenon
    <3>2. ASSUME f \in Elements(s) PROVE f \in Elements(r)
      <4>1. PICK k \in 1 .. Len(s) : s[k] = f
        BY <3>2, ElementsOf
      <4> QED
        BY <1>1, <1>2, <1>4, <4>1, ElementsOf
    <3>3. e \in Elements(r)
      BY <1>1, <1>2, <1>5, ElementsOf, Zenon
    <3> QED
      BY <3>1, <3>2, <3>3
  <2> QED
    BY <2>1, Zenon
<1>7. ASSUME NEW f, OnceIn(s, f), f # e \/ f \notin Elements(s) PROVE OnceIn(r, f)
  <2> SUFFICES ASSUME NEW k \in 1 .. Len(r), NEW m \in 1 .. Len(r), r[k] = f, r[m] = f PROVE k = m
    BY DEF OnceIn
  <2>1. CASE f # e
    BY <1>2, <1>3, <1>7, <2>1, Zenon DEF OnceIn
  <2>2. CASE f \notin Elements(s)
    BY <1>2, <1>3, <2>2, ElementsOf, Zenon
  <2> QED
    BY <1>7, <2>1, <2>2
<1>8. r # <<>>
  BY <1>1
<1> QED
  BY <1>1, <1>6, <1>7, <1>8 DEF r

(* doPendingFunctors takes the first functor of its batch. *)
LEMMA Taken ==
  ASSUME NEW s \in Seq(ClientFunctors), s # <<>>
  PROVE  /\ Tail(s) \in Seq(ClientFunctors) /\ Head(s) \in ClientFunctors
         /\ Elements(s) = Elements(Tail(s)) \cup {Head(s)}
         /\ \A f : OnceIn(s, f) => OnceIn(Tail(s), f)
         /\ OnceIn(s, Head(s)) => Head(s) \notin Elements(Tail(s))
<1> DEFINE r == Tail(s)
           h == Head(s)
<1>1. /\ r \in Seq(ClientFunctors) /\ Len(s) = Len(r) + 1 /\ Len(r) \in Nat /\ h = s[1]
      /\ h \in ClientFunctors
  OBVIOUS
<1>2. \A k \in 1 .. Len(r) : r[k] = s[k + 1]
  OBVIOUS
<1> HIDE DEF r, h
<1>3. \A k \in 1 .. Len(s) : k = 1 \/ (k - 1 \in 1 .. Len(r) /\ k = (k - 1) + 1)
  BY <1>1
<1>4. \A k \in 1 .. Len(r) : k + 1 \in 1 .. Len(s) /\ k + 1 # 1
  BY <1>1
<1>5. 1 \in 1 .. Len(s)
  BY <1>1
<1>6. Elements(s) = Elements(r) \cup {h}
  <2>1. \A f : f \in Elements(s) <=> f \in Elements(r) \/ f = h
    <3> TAKE f
    <3>1. ASSUME f \in Elements(s) PROVE f \in Elements(r) \/ f = h
      <4>1. PICK k \in 1 .. Len(s) : s[k] = f
        BY <3>1, ElementsOf, Zenon
      <4>2. CASE k = 1
        BY <1>1, <4>1, <4>2
      <4>3. CASE k # 1
        <5>1. k - 1 \in 1 .. Len(r) /\ r[k - 1] = s[k]
          BY <1>2, <1>3, <4>3
        <5> QED
          BY <1>1, <4>1, <5>1, ElementsOf, Zenon
      <4> QED
        BY <4>2, <4>3
    <3>2. ASSUME f \in Elements(r) PROVE f \in Elements(s)
      <4>1. PICK k \in 1 .. Len(r) : r[k] = f
        BY <1>1, <3>2, ElementsOf
      <4> QED
        BY <1>1, <1>2, <1>4, <4>1, ElementsOf
    <3>3. h \in Elements(s)
      BY <1>1, <1>5, ElementsOf, Zenon
    <3> QED
      BY <3>1, <3>2, <3>3
  <2> QED
    BY <2>1, Zenon
<1>7. ASSUME NEW f, OnceIn(s, f) PROVE OnceIn(r, f)
  <2> SUFFICES ASSUME NEW k \in 1 .. Len(r), NEW m \in 1 .. Len(r), r[k] = f, r[m] = f PROVE k = m
    BY Zenon DEF OnceIn
  <2>1. /\ k + 1 \in 1 .. Len(s) /\ m + 1 \in 1 .. Len(s)
        /\ k + 1 = m + 1 => k = m
    BY <1>1, <1>4
  <2>2. s[k + 1] = f /\ s[m + 1] = f
    BY <1>2
  <2>3. k + 1 = m + 1
    BY <1>7, <2>1, <2>2, Zenon DEF OnceIn
  <2> QED
    BY <2>1, <2>3
<1>8. ASSUME OnceIn(s, h) PROVE h \notin Elements(r)
  BY <1>1, <1>2, <1>4, <1>5, <1>8, ElementsOf DEF OnceIn
<1> QED
  BY <1>1, <1>6, <1>7, <1>8 DEF r, h

-----------------------------------------------------------------------------
(* What the handlers of Connector return. *)
SameConnect(d, c) == d \in ConnectorType /\ d.connect_ = c.connect_ /\ d.failed = c.failed

(* Close leaves all but the descriptor. *)
LEMMA CloseFields ==
  ASSUME NEW c \in ConnectorType, c.open = 1
  PROVE  /\ SameConnect(Close(c), c) /\ Close(c).open = 0
         /\ Close(c).state_ = c.state_ /\ Close(c).channel_ = c.channel_
         /\ Close(c).retries = c.retries
  BY DEF Close, SameConnect, ConnectorType

(* retry() closes the descriptor, and sets its timer if connect_ is set. *)
LEMMA RetryFields ==
  ASSUME ClientConstants, NEW c \in ConnectorType, c.open = 1
  PROVE  /\ SameConnect(Retry(c), c)
         /\ Retry(c).state_ = "kDisconnected" /\ Retry(c).channel_ = c.channel_
         /\ Retry(c).open = 0
         /\ Retry(c).retries = IF c.connect_ THEN c.retries + 1 ELSE c.retries
<1> DEFINE b == Close(c)
           d == [b EXCEPT !.state_ = "kDisconnected"]
           delay == IF d.retryDelayMs_ * 2 < kMaxRetryDelayMs THEN d.retryDelayMs_ * 2
                    ELSE kMaxRetryDelayMs
           e == [d EXCEPT !.retries = @ + 1]
           g == [e EXCEPT !.retryDelayMs_ = delay]
<1>1. /\ SameConnect(b, c) /\ b.open = 0 /\ b.channel_ = c.channel_ /\ b.retries = c.retries
  BY CloseFields
<1>2. Retry(c) = IF c.connect_
                 THEN [d EXCEPT !.retries = @ + 1,
                                !.retryDelayMs_ = IF @ * 2 < kMaxRetryDelayMs THEN @ * 2
                                                  ELSE kMaxRetryDelayMs]
                 ELSE d
  BY DEF Retry
<1> HIDE DEF b
<1>3. /\ SameConnect(d, c) /\ d.open = 0 /\ d.channel_ = c.channel_ /\ d.retries = c.retries
      /\ d.state_ = "kDisconnected"
  BY <1>1 DEF SameConnect, ConnectorType
<1> HIDE DEF d
<1>4. delay \in Nat
  BY <1>3 DEF SameConnect, ConnectorType, ClientConstants
<1> HIDE DEF delay
<1>5. /\ SameConnect(e, c) /\ e.open = 0 /\ e.channel_ = c.channel_ /\ e.retries = c.retries + 1
      /\ e.state_ = "kDisconnected"
  BY <1>3 DEF SameConnect, ConnectorType
<1>6. c.connect_ => Retry(c) = g
  <2>1. d \in ConnectorType
    BY <1>3 DEF SameConnect
  <2> QED
    BY <1>2, <2>1 DEF delay, ConnectorType
<1> HIDE DEF e
<1>7. /\ SameConnect(g, c) /\ g.open = 0 /\ g.channel_ = c.channel_ /\ g.retries = c.retries + 1
      /\ g.state_ = "kDisconnected"
  BY <1>4, <1>5 DEF SameConnect, ConnectorType
<1> HIDE DEF g
<1>8. CASE c.connect_
  BY <1>6, <1>7, <1>8
<1>9. CASE ~c.connect_
  BY <1>2, <1>3, <1>9
<1> QED
  BY <1>8, <1>9

(* An idle connector: nothing is being tried. *)
IdleOrLost(c) ==
  c.channel_ = "none" /\ c.state_ = "kDisconnected" /\ c.retries = 0 /\ c.open = 0

(* An idle connector, or one that tries: its channel or the timer of retry is set. *)
Tried(c) ==
  \/ IdleOrLost(c)
  \/ c.channel_ = "enabled" /\ c.state_ = "kConnecting" /\ c.retries = 0 /\ c.open = 1
  \/ c.channel_ = "none" /\ c.state_ = "kDisconnected" /\ c.retries = 1 /\ c.open = 0

(* connect() of the connector ends with the channel enabled, the timer of retry set, *)
(* or nothing.                                                                        *)
LEMMA ConnectFields ==
  ASSUME ClientConstants, NEW c \in ConnectorType, IdleOrLost(c),
         NEW result \in {"inProgress", "again", "error"}
  PROVE  SameConnect(Connect(c, result), c) /\ Tried(Connect(c, result))
<1> DEFINE d == [c EXCEPT !.open = @ + 1]
<1>1. /\ d \in ConnectorType /\ d.open = 1 /\ d.connect_ = c.connect_ /\ d.failed = c.failed
      /\ d.state_ = "kDisconnected" /\ d.channel_ = "none" /\ d.retries = 0
  BY DEF IdleOrLost, ConnectorType
<1>2. Connect(c, result) = CASE result = "inProgress" -> Connecting(d)
                             [] result = "again" -> Retry(d)
                             [] result = "error" -> [Close(d) EXCEPT !.gaveUp = TRUE]
  BY DEF Connect
<1> HIDE DEF d
<1>3. CASE result = "inProgress"
  BY <1>1, <1>2, <1>3, ZenonT(60)
     DEF Connecting, AssertThat, SameConnect, Tried, ConnectorType
<1>4. CASE result = "again"
  BY <1>1, <1>2, <1>4, RetryFields DEF SameConnect, Tried, IdleOrLost
<1>5. CASE result = "error"
  <2> DEFINE b == Close(d)
  <2>1. /\ SameConnect(b, c) /\ b.open = 0 /\ b.state_ = "kDisconnected" /\ b.channel_ = "none"
        /\ b.retries = 0
    BY <1>1, CloseFields DEF SameConnect
  <2>2. Connect(c, result) = [b EXCEPT !.gaveUp = TRUE]
    BY <1>2, <1>5
  <2> HIDE DEF b
  <2> QED
    BY <2>1, <2>2, Zenon DEF SameConnect, Tried, IdleOrLost, ConnectorType
<1> QED
  BY <1>3, <1>4, <1>5

(* startInLoop: as connect(), or nothing when connect_ is not set. *)
LEMMA StartFields ==
  ASSUME ClientConstants, NEW c \in ConnectorType, IdleOrLost(c),
         NEW result \in {"inProgress", "again", "error"}
  PROVE  /\ SameConnect(StartInLoop(c, result), c) /\ Tried(StartInLoop(c, result))
         /\ ~c.connect_ => IdleOrLost(StartInLoop(c, result))
<1>1. StartInLoop(c, result) = IF c.connect_ THEN Connect(c, result) ELSE c
  BY DEF StartInLoop, AssertThat, IdleOrLost
<1> QED
  BY <1>1, ConnectFields DEF SameConnect, Tried

(* restart() sets connect_ and starts from kDisconnected. *)
LEMMA RestartFields ==
  ASSUME ClientConstants, NEW c \in ConnectorType, c.channel_ = "none", c.retries = 0, c.open = 0,
         NEW result \in {"inProgress", "again", "error"}
  PROVE  /\ Restart(c, result) \in ConnectorType /\ Restart(c, result).failed = c.failed
         /\ Tried(Restart(c, result))
<1> DEFINE d == [c EXCEPT !.state_ = "kDisconnected", !.connect_ = TRUE,
                          !.retryDelayMs_ = kInitRetryDelayMs]
<1>1. d \in ConnectorType /\ IdleOrLost(d) /\ d.failed = c.failed
  BY Zenon DEF IdleOrLost, ConnectorType, ClientConstants
<1>2. Restart(c, result) = StartInLoop(d, result)
  BY DEF Restart
<1> HIDE DEF d
<1> QED
  BY <1>1, <1>2, StartFields DEF SameConnect

(* What handleError, stopInLoop and a failed handleWrite leave: the channel removed, *)
(* its descriptor closed, and a timer if connect_ is set.                            *)
LEMMA RemoveFields ==
  ASSUME ClientConstants, NEW c \in ConnectorType, c.state_ = "kConnecting", c.open = 1
  PROVE  /\ SameConnect(Retry(RemoveAndResetChannel(c)), c)
         /\ Retry(RemoveAndResetChannel(c)).state_ = "kDisconnected"
         /\ Retry(RemoveAndResetChannel(c)).channel_ = "removed"
         /\ Retry(RemoveAndResetChannel(c)).open = 0
         /\ Retry(RemoveAndResetChannel(c)).retries = IF c.connect_ THEN c.retries + 1
             ELSE c.retries
<1> DEFINE d == RemoveAndResetChannel(c)
<1>1. /\ d \in ConnectorType /\ d.open = 1 /\ d.connect_ = c.connect_ /\ d.failed = c.failed
      /\ d.channel_ = "removed" /\ d.retries = c.retries
  BY DEF RemoveAndResetChannel, ConnectorType
<1> HIDE DEF d
<1>2. /\ SameConnect(Retry(d), c) /\ Retry(d).state_ = "kDisconnected"
      /\ Retry(d).channel_ = "removed"
      /\ Retry(d).open = 0 /\ Retry(d).retries = IF c.connect_ THEN c.retries + 1 ELSE c.retries
  BY <1>1, RetryFields DEF SameConnect
<1> QED
  BY <1>2 DEF d

(* handleWrite hands the descriptor over, or ends as the lemma before says. *)
LEMMA WriteFields ==
  ASSUME ClientConstants, NEW c \in ConnectorType, c.state_ = "kConnecting", c.open = 1,
         NEW outcome
  PROVE  /\ SameConnect(HandleWrite(c, outcome), c)
         /\ HandleWrite(c, outcome).channel_ = "removed"
         /\ HandleWrite(c, outcome).open = 0
         /\ \/ /\ HandleWrite(c, outcome).state_ = "kConnected"
               /\ HandleWrite(c, outcome).retries = c.retries
            \/ /\ HandleWrite(c, outcome).state_ = "kDisconnected"
               /\ HandleWrite(c, outcome).retries = IF c.connect_ THEN c.retries + 1
                   ELSE c.retries
<1>1. CASE outcome = "connected"
  <2>1. HandleWrite(c, outcome) =
      HandedOver([RemoveAndResetChannel(c) EXCEPT !.state_ = "kConnected"])
    BY <1>1 DEF HandleWrite
  <2> DEFINE b == RemoveAndResetChannel(c)
             d == [b EXCEPT !.state_ = "kConnected"]
  <2>2. SameConnect(b, c) /\ b.open = 1 /\ b.channel_ = "removed" /\ b.retries = c.retries
    BY DEF RemoveAndResetChannel, SameConnect, ConnectorType
  <2> HIDE DEF b
  <2>3. /\ SameConnect(d, c) /\ d.open = 1 /\ d.channel_ = "removed" /\ d.retries = c.retries
        /\ d.state_ = "kConnected"
    BY <2>2 DEF SameConnect, ConnectorType
  <2>4. HandleWrite(c, outcome) = Close(d)
    BY <2>1 DEF HandedOver, Close, b
  <2> HIDE DEF d
  <2> QED
    BY <2>3, <2>4, CloseFields DEF SameConnect
<1>2. CASE outcome # "connected"
  <2>1. HandleWrite(c, outcome) = Retry(RemoveAndResetChannel(c))
    BY <1>2 DEF HandleWrite
  <2> QED
    BY <2>1, RemoveFields
<1> QED
  BY <1>1, <1>2

-----------------------------------------------------------------------------

(* A step that leaves the queues. *)
LEMMA QueueKept ==
  ASSUME ClientTypes, pending' = pending, batch' = batch
  PROVE  /\ Queued' = Queued /\ Elements(pending)' = Elements(pending)
         /\ \A f : QueuedOnce(f) => QueuedOnce(f)'
         /\ pending' \in Seq(ClientFunctors) /\ batch' \in Seq(ClientFunctors)
  BY Zenon DEF ClientTypes, Queued, QueuedOnce

(* A step that queues a functor. *)
LEMMA QueuePut ==
  ASSUME ClientTypes, NEW e \in ClientFunctors, pending' = Append(pending, e), batch' = batch
  PROVE  /\ Queued' = Queued \cup {e} /\ Elements(pending)' = Elements(pending) \cup {e}
         /\ \A f : QueuedOnce(f) /\ (f # e \/ f \notin Queued) => QueuedOnce(f)'
         /\ pending' \in Seq(ClientFunctors) /\ batch' \in Seq(ClientFunctors)
<1>1. /\ pending' \in Seq(ClientFunctors) /\ Elements(pending') = Elements(pending) \cup {e}
      /\ \A f : OnceIn(pending, f) /\ (f # e \/ f \notin Elements(pending)) => OnceIn(pending', f)
  BY Appended DEF ClientTypes
<1>2. Elements(batch') = Elements(batch) /\ \A f : OnceIn(batch, f) => OnceIn(batch', f)
  OBVIOUS
<1>3. ASSUME NEW f, QueuedOnce(f), f # e \/ f \notin Queued PROVE QueuedOnce(f)'
  <2>1. OnceIn(pending, f) /\ OnceIn(batch, f) /\ (f # e \/ f \notin Elements(pending))
    BY <1>3, Zenon DEF QueuedOnce, Queued
  <2>2. f \notin Elements(pending') \/ f \notin Elements(batch')
    BY <1>1, <1>2, <1>3, Zenon DEF QueuedOnce, Queued
  <2> QED
    BY <1>1, <1>2, <2>1, <2>2, Zenon DEF QueuedOnce
<1> QED
  BY <1>1, <1>2, <1>3, Zenon DEF ClientTypes, Queued

(* A step that runs a functor. *)
LEMMA QueueRun ==
  ASSUME ClientTypes, batch # <<>>, batch' = Tail(batch), pending' = pending
  PROVE  /\ Queued = Queued' \cup {Head(batch)} /\ Elements(pending)' = Elements(pending)
         /\ \A f : QueuedOnce(f) => QueuedOnce(f)'
         /\ QueuedOnce(Head(batch)) => Head(batch) \notin Queued'
         /\ pending' \in Seq(ClientFunctors) /\ batch' \in Seq(ClientFunctors)
         /\ Head(batch) \in ClientFunctors
<1>1. /\ batch' \in Seq(ClientFunctors) /\ Head(batch) \in ClientFunctors
      /\ Elements(batch) = Elements(batch') \cup {Head(batch)}
      /\ \A f : OnceIn(batch, f) => OnceIn(batch', f)
      /\ OnceIn(batch, Head(batch)) => Head(batch) \notin Elements(batch')
  BY Taken DEF ClientTypes
<1>2. Elements(pending') = Elements(pending) /\ \A f : OnceIn(pending, f) => OnceIn(pending', f)
  OBVIOUS
<1>3. \A f : QueuedOnce(f) => QueuedOnce(f)'
  BY <1>1, <1>2, Zenon DEF QueuedOnce
<1>4. QueuedOnce(Head(batch)) => Head(batch) \notin Queued'
  BY <1>1, <1>2, Zenon DEF QueuedOnce, Queued
<1> QED
  BY <1>1, <1>2, <1>3, <1>4, Zenon DEF ClientTypes, Queued

(* A step that runs a functor, which queues another one. *)
LEMMA QueueRunPut ==
  ASSUME ClientTypes, NEW e \in ClientFunctors, batch # <<>>, batch' = Tail(batch),
         pending' = Append(pending, e), e # Head(batch)
  PROVE  /\ \A f : f # Head(batch) => (f \in Queued' <=> f \in Queued \/ f = e)
         /\ Elements(pending)' = Elements(pending) \cup {e}
         /\ \A f : QueuedOnce(f) /\ (f # e \/ f \notin Queued) => QueuedOnce(f)'
         /\ QueuedOnce(Head(batch)) => Head(batch) \notin Queued'
         /\ pending' \in Seq(ClientFunctors) /\ batch' \in Seq(ClientFunctors)
<1>1. /\ batch' \in Seq(ClientFunctors) /\ Head(batch) \in ClientFunctors
      /\ Elements(batch) = Elements(batch') \cup {Head(batch)}
      /\ \A f : OnceIn(batch, f) => OnceIn(batch', f)
      /\ OnceIn(batch, Head(batch)) => Head(batch) \notin Elements(batch')
  BY Taken DEF ClientTypes
<1>2. /\ pending' \in Seq(ClientFunctors) /\ Elements(pending') = Elements(pending) \cup {e}
      /\ \A f : OnceIn(pending, f) /\ (f # e \/ f \notin Elements(pending)) => OnceIn(pending', f)
  BY Appended DEF ClientTypes
<1>3. ASSUME NEW f, QueuedOnce(f), f # e \/ f \notin Queued PROVE QueuedOnce(f)'
  <2>1. OnceIn(pending, f) /\ OnceIn(batch, f) /\ (f # e \/ f \notin Elements(pending))
    BY <1>3, Zenon DEF QueuedOnce, Queued
  <2>2. f \notin Elements(pending') \/ f \notin Elements(batch')
    BY <1>1, <1>2, <1>3, Zenon DEF QueuedOnce, Queued
  <2> QED
    BY <1>1, <1>2, <2>1, <2>2, Zenon DEF QueuedOnce
<1>4. QueuedOnce(Head(batch)) => Head(batch) \notin Queued'
  BY <1>1, <1>2, Zenon DEF QueuedOnce, Queued
<1> QED
  BY <1>1, <1>2, <1>3, <1>4, Zenon DEF Queued

(* doPendingFunctors swaps the queues. *)
LEMMA QueueSwap ==
  ASSUME ClientTypes, batch = <<>>, batch' = pending, pending' = <<>>
  PROVE  /\ Queued' = Queued /\ Elements(pending)' = {}
         /\ \A f : QueuedOnce(f) => QueuedOnce(f)'
         /\ pending' \in Seq(ClientFunctors) /\ batch' \in Seq(ClientFunctors)
<1>1. Elements(<<>>) = {} /\ \A f : OnceIn(<<>>, f)
  BY DEF Elements, OnceIn
<1>2. pending' \in Seq(ClientFunctors) /\ batch' \in Seq(ClientFunctors)
  BY DEF ClientTypes
<1> QED
  BY <1>1, <1>2, Zenon DEF Queued, QueuedOnce

-----------------------------------------------------------------------------

(* After the first call FirstOK speaks only of the calls made. *)
LEMMA FirstKept ==
  ASSUME FirstOK, clientCalled # {}, clientCalled \subseteq clientCalled', client' = client
  PROVE  FirstOK'
<1>1. clientCalled' # {}
  BY Zenon
<1> QED
  BY <1>1 DEF FirstOK, ClientOps

(* poll() returns. *)
LEMMA PollStep ==
  ASSUME ClientInv, Poll
  PROVE  ClientInv'
<1>1. /\ phase = "poll" /\ phase' = "events" /\ ready' \subseteq Sources
      /\ ready' # {} \/ pending # <<>>
      /\ UNCHANGED <<client, connector, alive, clientConnect, kept, conn, closeCallback_,
                     batch, pending, restarting, clientCalled>>
  BY DEF Poll, clientVars, connVars, userVars
<1>2. batch = <<>> /\ ready = {}
  BY <1>1 DEF ClientInv, ClientLoopOK
<1>3. /\ Queued' = Queued /\ Elements(pending)' = Elements(pending)
      /\ \A f : QueuedOnce(f) => QueuedOnce(f)'
      /\ HasConnection' = HasConnection
  BY <1>1, QueueKept DEF ClientInv, HasConnection
<1>4. Queued = Elements(pending)
  BY <1>2 DEF Queued, Elements
<1>5. clientCalled # {}
  <2>1. SUFFICES ASSUME clientCalled = {} PROVE FALSE
    OBVIOUS
  <2>2. pending = <<>> /\ connector = NewConnector /\ ~kept /\ conn = "none"
    BY <2>1 DEF ClientInv, FirstOK
  <2>3. Sources = {}
    BY <2>2 DEF Sources, NewConnector
  <2> QED
    BY <1>1, <2>2, <2>3
<1>6. /\ "connector" \in ready' => connector.channel_ = "enabled"
      /\ "timer" \in ready' => connector.retries > 0 /\ "resetChannel" \notin Queued
      /\ "kept" \in ready' => kept /\ pending = <<>>
      /\ "conn" \in ready' => HasConnection
  BY <1>1, <1>4 DEF Sources, HasConnection
<1>7. ClientTypes'
  BY <1>1, Zenon DEF ClientInv, ClientTypes
<1>8. ClientLoopOK' /\ FirstOK'
  BY <1>1, <1>2, <1>5, FirstKept DEF ClientInv, ClientLoopOK
<1>9. AttemptOK'
  BY <1>1, <1>3, Zenon DEF ClientInv, AttemptOK, DescriptorsAccounted
<1>10. ResetOK'
  BY <1>1, <1>3, Zenon DEF ClientInv, ResetOK
<1>11. ReadyOK'
  <2>1. connector.channel_ \in {"none", "enabled", "removed"} /\ connector.retries \in {0, 1}
    BY DEF ClientInv, ClientTypes, ConnectorType
  <2>2. "timer" \in ready' => connector.retries = 1 /\ connector.channel_ = "none"
    BY <1>6, <2>1 DEF ClientInv, AttemptOK, ResetOK
  <2>3. "conn" \in ready' => HasConnection /\ connector.channel_ = "none"
    BY <1>1, <1>4, <1>6, <2>1 DEF ClientInv, AttemptOK, ResetOK
  <2> QED
    BY <1>1, <1>3, <1>6, <2>2, <2>3, Zenon DEF ReadyOK
<1>12. ClientGone'
  <2>1. ASSUME "kept" \in ready', ~alive PROVE connector.channel_ = "none" /\ Queued = {}
    <3>1. Queued = {} /\ kept
      BY <1>4, <1>6, <2>1 DEF Elements
    <3> QED
      BY <2>1, <3>1 DEF ClientInv, ClientGone, ResetOK, ClientTypes, ConnectorType
  <2> QED
    BY <1>1, <1>3, <2>1, Zenon DEF ClientInv, ClientGone
<1> QED
  BY <1>7, <1>8, <1>9, <1>10, <1>11, <1>12, Zenon DEF ClientInv

(* The channel is removed, by handleWrite or handleError, with the connection made, the *)
(* timer of retry set, or neither.                                                       *)
LEMMA AttemptEnds ==
  ASSUME ClientInv, phase = "events", "connector" \in ready, ready' = ready \ {"connector"},
         SameConnect(connector', connector), connector'.channel_ = "removed", connector'.open = 0,
         \/ connector'.state_ = "kConnected" /\ connector'.retries = connector.retries
         \/ /\ connector'.state_ = "kDisconnected"
            /\ connector'.retries = IF connector.connect_ THEN connector.retries + 1
                                    ELSE connector.retries,
         pending' = Append(pending, "resetChannel"),
         \/ UNCHANGED <<conn, closeCallback_>>
         \/ connector'.state_ = "kConnected" /\ connector.connect_,
         UNCHANGED <<client, alive, clientConnect, kept, phase, batch, restarting, clientCalled>>
  PROVE  ClientInv'
<1>1. /\ connector.channel_ = "enabled" /\ connector.retries = 0 /\ ~HasConnection /\ ~restarting
      /\ "resetChannel" \notin Queued /\ "startInLoop" \notin Queued
  BY DEF ClientInv, ReadyOK, AttemptOK, ResetOK, ClientTypes
<1>2. clientCalled # {}
  BY DEF ClientInv, FirstOK
<1>3. "resetChannel" \in ClientFunctors
  BY DEF ClientFunctors
<1>4. /\ Queued' = Queued \cup {"resetChannel"} /\ "resetChannel" \in Elements(pending)'
      /\ \A f : QueuedOnce(f) /\ (f # "resetChannel" \/ f \notin Queued) => QueuedOnce(f)'
      /\ pending' \in Seq(ClientFunctors) /\ batch' \in Seq(ClientFunctors)
  BY <1>3, QueuePut, Zenon DEF ClientInv
<1>5. ASSUME ~alive PROVE ~connector.connect_ /\ kept /\ "kept" \notin ready
  BY <1>1, <1>5 DEF ClientInv, ClientGone
<1>6. HasConnection' => alive /\ connector'.state_ = "kConnected"
  BY <1>1, <1>5 DEF HasConnection
<1>7. ClientTypes'
  <2>1. connector' \in ConnectorType /\ connector'.retries \in {0, 1} /\ connector'.failed = {}
    BY <1>1 DEF SameConnect, ClientInv, ClientTypes
  <2> QED
    BY <1>4, <2>1, Zenon DEF ClientInv, ClientTypes
<1>8. ClientLoopOK' /\ FirstOK'
  BY <1>2, FirstKept DEF ClientInv, ClientLoopOK
<1>9. AttemptOK'
  <2>1. "startInLoop" \notin Queued' /\ QueuedOnce("startInLoop")'
    BY <1>1, <1>4 DEF ClientInv, AttemptOK
  <2>2. connector'.retries = 1 => connector'.state_ = "kDisconnected" /\ ~HasConnection'
    BY <1>1, <1>6
  <2>3. DescriptorsAccounted'
    BY DEF DescriptorsAccounted
  <2>4. connector'.channel_ # "enabled" /\ connector'.state_ # "kConnecting" /\ ~restarting'
    BY <1>1
  <2> QED
    BY <2>1, <2>2, <2>3, <2>4 DEF AttemptOK
<1>10. ResetOK'
  BY <1>1, <1>4 DEF ClientInv, ResetOK
<1>11. ReadyOK'
  BY <1>1 DEF ClientInv, ReadyOK
<1>12. ClientGone'
  <2>1. "forceCloseInLoop" \in Queued' => "forceCloseInLoop" \in Queued
    BY <1>4
  <2>2. ~alive =>
      ~connector'.connect_ /\ kept' /\ "kept" \notin ready' /\ ~HasConnection' /\ ~restarting'
    BY <1>1, <1>5, <1>6 DEF SameConnect
  <2> QED
    BY <2>1, <2>2 DEF ClientInv, ClientGone
<1> QED
  BY <1>7, <1>8, <1>9, <1>10, <1>11, <1>12, Zenon DEF ClientInv

(* handleWrite and handleError of the connector. *)
LEMMA ConnectorEventStep ==
  ASSUME ClientConstants, ClientInv,
         ConnectorError \/ (\E outcome \in {"connected", "failed"} : ConnectorWritable(outcome))
  PROVE  ClientInv'
<1>1. /\ phase = "events" /\ "connector" \in ready /\ ready' = ready \ {"connector"}
      /\ UNCHANGED <<client, alive, clientConnect, kept, phase, batch, restarting, clientCalled>>
  BY Zenon DEF ConnectorError, ConnectorWritable, Handles, clientVars, userVars
<1>2. /\ connector \in ConnectorType /\ connector.channel_ = "enabled" /\ connector.open = 1
      /\ connector.state_ = "kConnecting"
  BY <1>1 DEF ClientInv, ClientTypes, ReadyOK, AttemptOK, DescriptorsAccounted
<1>3. CASE ConnectorError
  <2>1. connector' = Retry(RemoveAndResetChannel(connector))
    BY <1>2, <1>3 DEF ConnectorError, ConnectorBecomes, HandleError
  <2>2. /\ SameConnect(connector', connector) /\ connector'.channel_ = "removed"
        /\ connector'.open = 0
        /\ connector'.state_ = "kDisconnected"
        /\ connector'.retries = IF connector.connect_ THEN connector.retries + 1
                                ELSE connector.retries
    BY <1>2, <2>1, RemoveFields
  <2>3. pending' = Append(pending, "resetChannel") /\ UNCHANGED <<conn, closeCallback_>>
    BY <1>2, <1>3, <2>2 DEF ConnectorError, ConnectorBecomes, connVars
  <2> QED
    BY <1>1, <2>2, <2>3, AttemptEnds, Zenon
<1>4. ASSUME NEW outcome \in {"connected", "failed"}, ConnectorWritable(outcome) PROVE ClientInv'
  <2> DEFINE c == HandleWrite(connector, outcome)
  <2>1. /\ SameConnect(c, connector) /\ c.channel_ = "removed" /\ c.open = 0
        /\ \/ c.state_ = "kConnected" /\ c.retries = connector.retries
           \/ /\ c.state_ = "kDisconnected"
              /\ c.retries = IF connector.connect_ THEN connector.retries + 1 ELSE connector.retries
    BY <1>2, WriteFields
  <2>2. /\ connector' = c
        /\ pending' = IF connector.channel_ = "enabled" /\ c.channel_ = "removed"
                      THEN Append(pending, "resetChannel") ELSE pending
        /\ \/ UNCHANGED <<conn, closeCallback_>>
           \/ c.state_ = "kConnected" /\ c.connect_
    BY <1>4 DEF ConnectorWritable, ConnectorBecomes, connVars
  <2> HIDE DEF c
  <2>3. pending' = Append(pending, "resetChannel")
    BY <1>2, <2>1, <2>2
  <2>4. UNCHANGED <<conn, closeCallback_>> \/
      (connector'.state_ = "kConnected" /\ connector.connect_)
    BY <2>1, <2>2, Zenon DEF SameConnect
  <2> QED
    BY <1>1, <2>1, <2>2, <2>3, <2>4, AttemptEnds, Zenon
<1> QED
  BY <1>3, <1>4

-----------------------------------------------------------------------------

(* An attempt starts: no functor is queued for it any more. *)
LEMMA AttemptStarts ==
  ASSUME ClientInv, connector' \in ConnectorType, connector'.failed = {}, Tried(connector'),
         ~connector'.connect_ => IdleOrLost(connector'),
         restarting' = FALSE, ~HasConnection, "startInLoop" \notin Queued',
         QueuedOnce("startInLoop")',
         connector.channel_ = "none",
         "resetChannel" \notin Queued', QueuedOnce("resetChannel")',
         pending' \in Seq(ClientFunctors), batch' \in Seq(ClientFunctors),
         Queued' \subseteq Queued, "stopInLoop" \in Queued => "stopInLoop" \in Queued',
         batch # <<>> => phase = "functors",
         ready' \subseteq ready, "timer" \notin ready', phase' = phase,
         batch' # <<>> => batch # <<>>,
         FirstOK',
         clientCalled' \subseteq BOOLEAN \X {"connect", "disconnect", "stop", "destroy"},
         clientConnect' \in BOOLEAN,
         ~alive => ~connector'.connect_,
         UNCHANGED <<client, alive, kept, conn, closeCallback_>>
  PROVE  ClientInv'
<1>1. ~HasConnection'
  BY DEF HasConnection
<1>2. /\ connector'.channel_ # "removed" /\ connector'.retries \in {0, 1}
      /\ connector'.retries = 1 =>
          connector'.channel_ = "none" /\ connector'.state_ = "kDisconnected"
      /\ connector'.channel_ = "enabled" <=> connector'.state_ = "kConnecting"
      /\ connector'.open = IF connector'.channel_ = "enabled" THEN 1 ELSE 0
      /\ IdleOrLost(connector') => connector'.channel_ = "none"
  BY DEF Tried, IdleOrLost
<1>3. ClientTypes'
  BY <1>2, Zenon DEF ClientInv, ClientTypes
<1>4. ClientLoopOK'
  BY DEF ClientInv, ClientLoopOK
<1>5. AttemptOK'
  BY <1>1, <1>2, Zenon DEF AttemptOK, DescriptorsAccounted
<1>6. ResetOK'
  BY <1>1, <1>2, Zenon DEF ResetOK, Queued
<1>7. ReadyOK'
  BY DEF ClientInv, ReadyOK
<1>8. ClientGone'
  <2>1. ~alive => connector'.channel_ = "none"
    BY <1>2
  <2>2. (~alive /\ (~kept \/ "kept" \in ready')) => Queued \cap ConnectorFunctors = {}
    BY DEF ClientInv, ClientGone
  <2> QED
    BY <1>1, <2>1, <2>2 DEF ClientInv, ClientGone
<1> QED
  BY <1>3, <1>4, <1>5, <1>6, <1>7, <1>8, Zenon DEF ClientInv

(* The connector without a channel. *)
LEMMA IdleConnector ==
  ASSUME ClientInv, connector.channel_ = "none"
  PROVE  /\ connector.open = 0 /\ "resetChannel" \notin Queued
         /\ QueuedOnce("resetChannel") /\ QueuedOnce("startInLoop")
  BY DEF ClientInv, AttemptOK, DescriptorsAccounted, ResetOK

(* The results of an attempt. *)
LEMMA ResultsAre == Results \subseteq {"inProgress", "again", "error"}
  BY DEF Results

(* The timer of retry. *)
LEMMA RetryTimerStep ==
  ASSUME ClientConstants, ClientInv, NEW result \in Results, RetryTimer(result)
  PROVE  ClientInv'
<1> DEFINE c == [connector EXCEPT !.retries = @ - 1]
           d == StartInLoop(c, result)
<1>1. /\ phase = "events" /\ "timer" \in ready /\ ready' = ready \ {"timer"} /\ ~restarting
      /\ UNCHANGED <<client, alive, clientConnect, kept, conn, closeCallback_, phase,
                     batch, restarting, clientCalled>>
      /\ connector' = d
      /\ pending' = IF connector.channel_ = "enabled" /\ d.channel_ = "removed"
                    THEN Append(pending, "resetChannel") ELSE pending
  BY DEF RetryTimer, Handles, ConnectorBecomes, clientVars, connVars, userVars
<1>2. /\ connector \in ConnectorType /\ connector.retries = 1 /\ connector.channel_ = "none"
      /\ connector.state_ = "kDisconnected" /\ connector.failed = {} /\ ~HasConnection
      /\ "startInLoop" \notin Queued
  BY <1>1 DEF ClientInv, ClientTypes, ReadyOK, AttemptOK
<1>3. c \in ConnectorType /\ IdleOrLost(c) /\ c.connect_ = connector.connect_ /\ c.failed = {}
  BY <1>2, IdleConnector DEF IdleOrLost, ConnectorType
<1> HIDE DEF c
<1>4. SameConnect(d, c) /\ Tried(d) /\ (~c.connect_ => IdleOrLost(d))
  BY <1>3, ResultsAre, StartFields
<1> HIDE DEF d
<1>5. pending' = pending
  BY <1>1, <1>2
<1>6. /\ Queued' = Queued /\ \A f : QueuedOnce(f) => QueuedOnce(f)'
      /\ pending' \in Seq(ClientFunctors) /\ batch' \in Seq(ClientFunctors)
  BY <1>1, <1>5, QueueKept DEF ClientInv
<1>7. FirstOK'
  BY <1>1, FirstKept DEF ClientInv, FirstOK
<1>8. ~alive => ~connector.connect_
  BY <1>2 DEF ClientInv, ClientGone
<1>9. /\ connector' \in ConnectorType /\ connector'.failed = {} /\ Tried(connector')
      /\ ~connector'.connect_ => IdleOrLost(connector')
      /\ ~alive => ~connector'.connect_
  BY <1>1, <1>3, <1>4, <1>8 DEF SameConnect
<1>10. /\ clientCalled' \subseteq BOOLEAN \X {"connect", "disconnect", "stop", "destroy"}
       /\ clientConnect' \in BOOLEAN /\ restarting' = FALSE /\ (batch # <<>> => phase = "functors")
  BY <1>1 DEF ClientInv, ClientTypes, ClientLoopOK
<1> QED
  BY <1>1, <1>2, <1>6, <1>7, <1>9, <1>10, IdleConnector, AttemptStarts, Zenon

(* removeConnection calls restart(). *)
LEMMA RestartStep ==
  ASSUME ClientConstants, ClientInv, NEW result \in Results, RestartConnector(result)
  PROVE  ClientInv'
<1> DEFINE d == Restart(connector, result)
<1>1. /\ restarting /\ restarting' = FALSE
      /\ UNCHANGED <<client, alive, clientConnect, kept, conn, closeCallback_, phase,
                     ready, batch, clientCalled>>
      /\ connector' = d
      /\ pending' = IF connector.channel_ = "enabled" /\ d.channel_ = "removed"
                    THEN Append(pending, "resetChannel") ELSE pending
  BY DEF RestartConnector, ConnectorBecomes, clientVars, connVars, loopVars, userVars
<1>2. /\ connector \in ConnectorType /\ connector.channel_ = "none" /\ connector.retries = 0
      /\ connector.failed = {} /\ ~HasConnection /\ "startInLoop" \notin Queued /\ alive
      /\ "timer" \notin ready
  BY <1>1 DEF ClientInv, ClientTypes, AttemptOK, ClientGone, ReadyOK
<1>3. d \in ConnectorType /\ d.failed = {} /\ Tried(d)
  BY <1>2, IdleConnector, ResultsAre, RestartFields
<1>4. d.connect_
  <2> DEFINE c == [connector EXCEPT !.state_ = "kDisconnected", !.connect_ = TRUE,
                                    !.retryDelayMs_ = kInitRetryDelayMs]
  <2>1. c \in ConnectorType /\ IdleOrLost(c) /\ c.connect_
    BY <1>2, IdleConnector, Zenon DEF IdleOrLost, ConnectorType, ClientConstants
  <2>2. d = StartInLoop(c, result)
    BY DEF Restart
  <2> HIDE DEF c, d
  <2> QED
    BY <2>1, <2>2, ResultsAre, StartFields DEF SameConnect
<1> HIDE DEF d
<1>5. pending' = pending
  BY <1>1, <1>2
<1>6. /\ Queued' = Queued /\ \A f : QueuedOnce(f) => QueuedOnce(f)'
      /\ pending' \in Seq(ClientFunctors) /\ batch' \in Seq(ClientFunctors)
  BY <1>1, <1>5, QueueKept DEF ClientInv
<1>7. FirstOK'
  BY <1>1, FirstKept DEF ClientInv, FirstOK
<1>8. /\ clientCalled' \subseteq BOOLEAN \X {"connect", "disconnect", "stop", "destroy"}
      /\ clientConnect' \in BOOLEAN /\ (batch # <<>> => phase = "functors")
  BY <1>1 DEF ClientInv, ClientTypes, ClientLoopOK
<1> QED
  BY <1>1, <1>2, <1>3, <1>4, <1>6, <1>7, <1>8, IdleConnector, AttemptStarts, Zenon

(* startInLoop, as a functor. *)
LEMMA RunStartStep ==
  ASSUME ClientConstants, ClientInv, NEW result \in Results, RunFunctor,
      RunStartInLoop(result)
  PROVE  ClientInv'
<1> DEFINE d == StartInLoop(connector, result)
<1>1. /\ batch # <<>> /\ batch' = Tail(batch) /\ Head(batch) = "startInLoop" /\ ~restarting
      /\ UNCHANGED <<client, alive, clientConnect, kept, conn, closeCallback_, phase,
                     ready, restarting, clientCalled>>
      /\ connector' = d
      /\ pending' = IF connector.channel_ = "enabled" /\ d.channel_ = "removed"
                    THEN Append(pending, "resetChannel") ELSE pending
  BY DEF RunFunctor, RunStartInLoop, ConnectorBecomes, clientVars, connVars, userVars
<1>2. "startInLoop" \in Queued
  BY <1>1, Taken DEF Queued, ClientInv, ClientTypes
<1>3. /\ connector \in ConnectorType /\ connector.channel_ = "none" /\ connector.retries = 0
      /\ connector.state_ = "kDisconnected" /\ connector.failed = {} /\ ~HasConnection
      /\ ready = {} /\ phase = "functors"
  BY <1>1, <1>2 DEF ClientInv, ClientTypes, AttemptOK, ClientLoopOK
<1>4. IdleOrLost(connector)
  BY <1>3, IdleConnector DEF IdleOrLost
<1>5. SameConnect(d, connector) /\ Tried(d) /\ (~connector.connect_ => IdleOrLost(d))
  BY <1>3, <1>4, ResultsAre, StartFields
<1> HIDE DEF d
<1>6. pending' = pending
  BY <1>1, <1>3
<1>7. /\ Queued = Queued' \cup {"startInLoop"} /\ \A f : QueuedOnce(f) => QueuedOnce(f)'
      /\ QueuedOnce("startInLoop") => "startInLoop" \notin Queued'
      /\ pending' \in Seq(ClientFunctors) /\ batch' \in Seq(ClientFunctors)
  BY <1>1, <1>6, QueueRun DEF ClientInv
<1>8. FirstOK'
  BY <1>1, FirstKept DEF ClientInv, FirstOK
<1>9. ~alive => ~connector.connect_
  BY <1>2 DEF ClientInv, ClientGone
<1>10. /\ connector' \in ConnectorType /\ connector'.failed = {} /\ Tried(connector')
       /\ ~connector'.connect_ => IdleOrLost(connector')
       /\ ~alive => ~connector'.connect_
  BY <1>1, <1>3, <1>5, <1>9 DEF SameConnect
<1>11. /\ clientCalled' \subseteq BOOLEAN \X {"connect", "disconnect", "stop", "destroy"}
       /\ clientConnect' \in BOOLEAN /\ restarting' = FALSE
  BY <1>1 DEF ClientInv, ClientTypes
<1>12. /\ Queued' \subseteq Queued /\ ("stopInLoop" \in Queued => "stopInLoop" \in Queued')
       /\ "startInLoop" \notin Queued' /\ "resetChannel" \notin Queued'
  BY <1>3, <1>7, IdleConnector
<1> QED
  BY <1>1, <1>3, <1>7, <1>8, <1>10, <1>11, <1>12, IdleConnector, AttemptStarts, Zenon

(* connect(), which a careful program calls first and only once. *)
LEMMA CallConnectStep ==
  ASSUME ClientConstants, CarefulPrograms, ClientInv,
         NEW inLoop \in BOOLEAN, NEW result \in Results, ClientConnect(inLoop, result)
  PROVE  ClientInv'
<1>1. /\ alive /\ "connect" \in ClientOps(inLoop) /\ <<inLoop, "connect">> \notin clientCalled
      /\ clientCalled' = clientCalled \cup {<<inLoop, "connect">>}
      /\ clientConnect' = TRUE
      /\ UNCHANGED <<client, alive, kept, conn, closeCallback_, phase, ready, batch,
                     restarting>>
  BY DEF ClientConnect, MayCallClient, ClientOps, connVars, loopVars
<1>2. clientCalled = {}
  BY <1>1 DEF ClientInv, FirstOK
<1>3. /\ connector = NewConnector /\ ~kept /\ conn = "none" /\ ready = {}
      /\ pending = <<>> /\ batch = <<>> /\ ~restarting
  BY <1>2 DEF ClientInv, FirstOK
<1>4. /\ connector \in ConnectorType /\ connector.failed = {} /\ IdleOrLost(connector)
      /\ ~HasConnection
      /\ connector.channel_ = "none" /\ client \in ClientPrograms
  BY <1>3 DEF NewConnector, IdleOrLost, HasConnection, ClientInv, ClientTypes
<1>5. FirstOK'
  <2>1. \A b \in BOOLEAN : "connect" \in ClientOps(b) => b = inLoop
    BY <1>1, <1>4 DEF ClientOps, CarefulPrograms, Careful
  <2>2. clientCalled' # {} /\ \A b \in BOOLEAN : ClientOps(b)' = ClientOps(b)
    BY <1>1 DEF ClientOps
  <2> QED
    BY <1>1, <2>1, <2>2 DEF FirstOK
<1>6. clientCalled' \subseteq BOOLEAN \X {"connect", "disconnect", "stop", "destroy"}
      /\ clientConnect' \in BOOLEAN /\ restarting' = FALSE
  BY <1>1, <1>3 DEF ClientInv, ClientTypes
<1>7. Queued = {}
  BY <1>3 DEF Queued, Elements
<1> DEFINE c == [connector EXCEPT !.connect_ = TRUE]
<1>8. c \in ConnectorType /\ c.failed = {} /\ IdleOrLost(c) /\ c.connect_
  BY <1>4, Zenon DEF ConnectorType, IdleOrLost
<1>9. CASE inLoop
  <2> DEFINE d == StartInLoop(c, result)
  <2>1. /\ connector' = d
        /\ pending' = IF connector.channel_ = "enabled" /\ d.channel_ = "removed"
                      THEN Append(pending, "resetChannel") ELSE pending
    BY <1>9 DEF ClientConnect, ConnectorBecomes
  <2>2. SameConnect(d, c) /\ Tried(d)
    BY <1>8, ResultsAre, StartFields
  <2> HIDE DEF c, d
  <2>3. pending' = pending
    BY <1>4, <2>1
  <2>4. /\ Queued' = Queued /\ \A f : QueuedOnce(f) => QueuedOnce(f)'
        /\ pending' \in Seq(ClientFunctors) /\ batch' \in Seq(ClientFunctors)
    BY <1>1, <2>3, QueueKept DEF ClientInv
  <2>5. /\ connector' \in ConnectorType /\ connector'.failed = {} /\ Tried(connector')
        /\ connector'.connect_
    BY <1>8, <2>1, <2>2 DEF SameConnect
  <2> QED
    BY <1>1, <1>3, <1>4, <1>5, <1>6, <1>7, <2>4, <2>5, IdleConnector, AttemptStarts, Zenon
<1>10. CASE ~inLoop
  <2>1. /\ connector' = c /\ pending' = Append(pending, "startInLoop")
        /\ "startInLoop" \in ClientFunctors
    BY <1>10 DEF ClientConnect, ClientFunctors
  <2> HIDE DEF c
  <2>2. /\ Queued' = {"startInLoop"} /\ Elements(pending)' = {"startInLoop"}
        /\ \A f : QueuedOnce(f) /\ (f # "startInLoop" \/ f \notin Queued) => QueuedOnce(f)'
        /\ pending' \in Seq(ClientFunctors) /\ batch' \in Seq(ClientFunctors)
    <3>1. Elements(pending) = {}
      BY <1>7 DEF Queued
    <3> QED
      BY <1>1, <1>7, <2>1, <3>1, QueuePut DEF ClientInv
  <2>3. ~HasConnection'
    BY <1>1, <1>4 DEF HasConnection
  <2>4. ClientTypes'
    BY <1>1, <1>6, <1>8, <2>1, <2>2 DEF ClientInv, ClientTypes, IdleOrLost
  <2>5. ClientLoopOK' /\ ReadyOK' /\ ClientGone'
    BY <1>1, <1>3, <2>2 DEF ClientLoopOK, ReadyOK, ClientGone
  <2>6. AttemptOK' /\ ResetOK'
    BY <1>1, <1>6, <1>7, <1>8, <2>1, <2>2, <2>3
    DEF ClientInv, AttemptOK, ResetOK, IdleOrLost, DescriptorsAccounted
  <2> QED
    BY <1>5, <2>4, <2>5, <2>6 DEF ClientInv
<1> QED
  BY <1>9, <1>10

-----------------------------------------------------------------------------

(* The timer of ~TcpClient, which drops the connector. *)
LEMMA RemoveConnectorStep ==
  ASSUME ClientInv, RemoveConnector
  PROVE  ClientInv'
<1>1. /\ "kept" \in ready /\ ready' = ready \ {"kept"} /\ kept' = FALSE
      /\ UNCHANGED <<client, connector, alive, clientConnect, conn, closeCallback_, phase,
                     batch, pending, restarting, clientCalled>>
  BY DEF RemoveConnector, Handles, connVars, userVars
<1>2. /\ Queued' = Queued /\ Elements(pending)' = Elements(pending)
      /\ \A f : QueuedOnce(f) => QueuedOnce(f)'
      /\ HasConnection' = HasConnection
  BY <1>1, QueueKept DEF ClientInv, HasConnection
<1>3. ClientTypes'
  BY <1>1, Zenon DEF ClientInv, ClientTypes
<1>4. ClientLoopOK' /\ FirstOK'
  BY <1>1, FirstKept DEF ClientInv, ClientLoopOK, FirstOK
<1>5. AttemptOK' /\ ResetOK'
  BY <1>1, <1>2, Zenon DEF ClientInv, AttemptOK, DescriptorsAccounted, ResetOK
<1>6. ReadyOK' /\ ClientGone'
  BY <1>1, <1>2 DEF ClientInv, ReadyOK, ClientGone
<1> QED
  BY <1>3, <1>4, <1>5, <1>6, Zenon DEF ClientInv

(* handleClose of the connection, and removeConnection. *)
LEMMA PeerClosesStep ==
  ASSUME ClientInv, PeerCloses
  PROVE  ClientInv'
<1>1. /\ "conn" \in ready /\ ready' = ready \ {"conn"} /\ HasConnection /\ conn' = "down"
      /\ pending' = Append(pending, "connectDestroyed")
      /\ restarting' = (closeCallback_ = "client" /\ client.retry_ /\ clientConnect)
      /\ UNCHANGED <<client, connector, alive, clientConnect, kept, closeCallback_, phase,
                     batch, clientCalled>>
  BY DEF PeerCloses, RemoveConnection, Handles, clientVars, userVars
<1>2. /\ connector.channel_ = "none" /\ connector.retries # 1 /\ "startInLoop" \notin Queued
  BY <1>1 DEF ClientInv, ReadyOK, AttemptOK
<1>3. "connectDestroyed" \in ClientFunctors
  BY DEF ClientFunctors
<1>4. /\ Queued' = Queued \cup {"connectDestroyed"}
      /\ Elements(pending)' = Elements(pending) \cup {"connectDestroyed"}
      /\ \A f : QueuedOnce(f) /\ (f # "connectDestroyed" \/ f \notin Queued) => QueuedOnce(f)'
      /\ pending' \in Seq(ClientFunctors) /\ batch' \in Seq(ClientFunctors)
  BY <1>1, <1>3, QueuePut, Zenon DEF ClientInv
<1>5. ~HasConnection'
  BY <1>1 DEF HasConnection
<1>6. ~alive => ~restarting'
  BY <1>1, Zenon DEF ClientInv, ClientGone
<1>7. ClientTypes'
  BY <1>1, <1>4, Zenon DEF ClientInv, ClientTypes
<1>8. ClientLoopOK' /\ FirstOK'
  BY <1>1, FirstKept DEF ClientInv, ClientLoopOK, FirstOK
<1>9. AttemptOK'
  <2>1. QueuedOnce("startInLoop")' /\ "startInLoop" \notin Queued'
    BY <1>2, <1>4 DEF ClientInv, AttemptOK
  <2> QED
    BY <1>1, <1>2, <1>5, <2>1 DEF ClientInv, AttemptOK, DescriptorsAccounted
<1>10. ResetOK'
  BY <1>1, <1>4, <1>5 DEF ClientInv, ResetOK
<1>11. ReadyOK'
  BY <1>1, <1>2 DEF ClientInv, ReadyOK
<1>12. ClientGone'
  BY <1>1, <1>2, <1>4, <1>5, <1>6 DEF ClientInv, ClientGone, ConnectorFunctors
<1> QED
  BY <1>7, <1>8, <1>9, <1>10, <1>11, <1>12, Zenon DEF ClientInv

(* The start of doPendingFunctors. *)
LEMMA SwapStep ==
  ASSUME ClientInv, SwapPending
  PROVE  ClientInv'
<1>1. /\ phase = "events" /\ ready = {} /\ phase' = "functors" /\ batch' = pending
      /\ pending' = <<>>
      /\ UNCHANGED <<client, connector, alive, clientConnect, kept, conn, closeCallback_,
                     ready, restarting, clientCalled>>
  BY DEF SwapPending, clientVars, connVars, userVars
<1>2. batch = <<>>
  BY <1>1 DEF ClientInv, ClientLoopOK
<1>3. /\ Queued' = Queued /\ Elements(pending)' = {} /\ \A f : QueuedOnce(f) => QueuedOnce(f)'
      /\ pending' \in Seq(ClientFunctors) /\ batch' \in Seq(ClientFunctors)
      /\ HasConnection' = HasConnection
  BY <1>1, <1>2, QueueSwap DEF ClientInv, HasConnection
<1>4. ClientTypes'
  BY <1>1, <1>3, Zenon DEF ClientInv, ClientTypes
<1>5. ClientLoopOK'
  BY <1>1 DEF ClientLoopOK
<1>6. FirstOK'
  BY <1>1 DEF ClientInv, FirstOK, ClientOps
<1>7. AttemptOK' /\ ResetOK'
  BY <1>1, <1>3, Zenon DEF ClientInv, AttemptOK, DescriptorsAccounted, ResetOK
<1>8. ReadyOK' /\ ClientGone'
  BY <1>1, <1>3, Zenon DEF ClientInv, ReadyOK, ClientGone
<1> QED
  BY <1>4, <1>5, <1>6, <1>7, <1>8, Zenon DEF ClientInv

(* The end of doPendingFunctors. *)
LEMMA FunctorsDoneStep ==
  ASSUME ClientInv, FunctorsDone
  PROVE  ClientInv'
<1>1. /\ phase = "functors" /\ phase' = "poll" /\ batch = <<>>
      /\ UNCHANGED <<client, connector, alive, clientConnect, kept, conn, closeCallback_,
                     ready, pending, batch, restarting, clientCalled>>
  BY DEF FunctorsDone, clientVars, connVars, userVars
<1>2. /\ Queued' = Queued /\ Elements(pending)' = Elements(pending)
      /\ \A f : QueuedOnce(f) => QueuedOnce(f)'
      /\ HasConnection' = HasConnection
  BY <1>1, QueueKept DEF ClientInv, HasConnection
<1>3. ClientTypes'
  BY <1>1, Zenon DEF ClientInv, ClientTypes
<1>4. ClientLoopOK' /\ FirstOK'
  BY <1>1 DEF ClientInv, ClientLoopOK, FirstOK, ClientOps
<1>5. AttemptOK'
  BY <1>1, <1>2, Zenon DEF ClientInv, AttemptOK, DescriptorsAccounted
<1>6. ResetOK'
  BY <1>1, <1>2 DEF ClientInv, ResetOK
<1>7. ReadyOK' /\ ClientGone'
  BY <1>1, <1>2, Zenon DEF ClientInv, ReadyOK, ClientGone
<1> QED
  BY <1>3, <1>4, <1>5, <1>6, <1>7, Zenon DEF ClientInv

(* A functor that leaves the connector alone. *)
LEMMA OtherFunctor ==
  ASSUME ClientInv, batch # <<>>, batch' = Tail(batch), ~restarting, restarting' = FALSE,
         Head(batch) \notin ConnectorFunctors
           \/ (Head(batch) = "stopInLoop" /\ connector.state_ # "kConnecting"),
         pending' = pending \/ (pending' = Append(pending, "connectDestroyed")
                                /\ Head(batch) = "forceCloseInLoop"),
         HasConnection' => HasConnection,
         UNCHANGED <<client, connector, alive, clientConnect, kept, closeCallback_, phase,
                     ready, clientCalled>>
  PROVE  ClientInv'
<1>1. phase = "functors" /\ ready = {} /\ clientCalled # {}
  BY DEF ClientInv, ClientLoopOK, FirstOK
<1>2. /\ \A f \in {"startInLoop", "resetChannel"} : f \in Queued' <=> f \in Queued
      /\ \A f \in {"startInLoop", "resetChannel"} : f \in Elements(pending)' <=>
          f \in Elements(pending)
      /\ \A f \in {"startInLoop", "resetChannel"} : QueuedOnce(f) => QueuedOnce(f)'
      /\ "stopInLoop" \in Queued' => "stopInLoop" \in Queued
      /\ "stopInLoop" \in Queued /\ connector.state_ = "kConnecting" => "stopInLoop" \in Queued'
      /\ "forceCloseInLoop" \in Queued' => "forceCloseInLoop" \in Queued
      /\ pending' \in Seq(ClientFunctors) /\ batch' \in Seq(ClientFunctors)
  <2>0. "connectDestroyed" \in ClientFunctors
    BY DEF ClientFunctors
  <2>1. CASE pending' = pending
    <3>1. /\ Queued = Queued' \cup {Head(batch)} /\ Elements(pending)' = Elements(pending)
          /\ \A f : QueuedOnce(f) => QueuedOnce(f)'
          /\ pending' \in Seq(ClientFunctors) /\ batch' \in Seq(ClientFunctors)
      BY <2>1, QueueRun DEF ClientInv
    <3> QED
      BY <3>1 DEF ConnectorFunctors
  <2>2. CASE pending' = Append(pending, "connectDestroyed") /\ Head(batch) = "forceCloseInLoop"
    <3>1. /\ \A f : f # Head(batch) =>
               (f \in Queued' <=> f \in Queued \/ f = "connectDestroyed")
          /\ Elements(pending)' = Elements(pending) \cup {"connectDestroyed"}
          /\ \A f : QueuedOnce(f) /\ (f # "connectDestroyed" \/ f \notin Queued) => QueuedOnce(f)'
          /\ pending' \in Seq(ClientFunctors) /\ batch' \in Seq(ClientFunctors)
      BY <2>0, <2>2, QueueRunPut DEF ClientInv
    <3>2. "forceCloseInLoop" \in Queued
      BY <2>2, Taken DEF ClientInv, ClientTypes, Queued
    <3> QED
      BY <2>2, <3>1, <3>2
  <2> QED
    BY <2>1, <2>2
<1>3. ClientTypes'
  BY <1>2, Zenon DEF ClientInv, ClientTypes
<1>4. ClientLoopOK' /\ FirstOK'
  BY <1>1, FirstKept DEF ClientInv, ClientLoopOK
<1>5. AttemptOK'
  BY <1>2 DEF ClientInv, AttemptOK, DescriptorsAccounted
<1>6. ResetOK'
  BY <1>2 DEF ClientInv, ResetOK
<1>7. ReadyOK'
  BY <1>1 DEF ReadyOK
<1>8. ClientGone'
  <2>1. Queued \cap ConnectorFunctors = {} => Queued' \cap ConnectorFunctors = {}
    BY <1>2 DEF ConnectorFunctors
  <2>2. connector.channel_ = "enabled" <=> connector.state_ = "kConnecting"
    BY DEF ClientInv, AttemptOK
  <2> QED
    BY <1>1, <1>2, <2>1, <2>2 DEF ClientInv, ClientGone
<1> QED
  BY <1>3, <1>4, <1>5, <1>6, <1>7, <1>8, Zenon DEF ClientInv

(* The functors of the connection. *)
LEMMA ConnectionFunctorStep ==
  ASSUME ClientInv, RunFunctor, RunConnectionFunctor
  PROVE  ClientInv'
<1>1. /\ batch # <<>> /\ batch' = Tail(batch) /\ ~restarting
      /\ UNCHANGED <<client, connector, alive, clientConnect, kept, closeCallback_, phase,
                     ready, clientCalled>>
  BY DEF RunFunctor, RunConnectionFunctor, clientVars, userVars
<1>2. Head(batch) \in Queued
  BY <1>1, Taken DEF ClientInv, ClientTypes, Queued
<1>3. CASE Head(batch) = "forceCloseInLoop" /\ HasConnection /\ RemoveConnection(pending)
  <2>1. ~alive /\ closeCallback_ = "detail"
    BY <1>2, <1>3 DEF ClientInv, ClientGone
  <2>2. restarting' = FALSE /\ pending' = Append(pending, "connectDestroyed") /\ ~HasConnection'
    BY <1>3, <2>1, Zenon DEF RemoveConnection, HasConnection
  <2>3. Head(batch) \notin ConnectorFunctors
    BY <1>3 DEF ConnectorFunctors
  <2> QED
    BY <1>1, <1>3, <2>2, <2>3, OtherFunctor, Zenon
<1>4. CASE /\ Head(batch) \in {"forceCloseInLoop", "connectDestroyed", "shutdownInLoop"}
           /\ conn' \in {conn, "none"} /\ UNCHANGED <<pending, restarting>>
  <2>1. HasConnection' => HasConnection
    BY <1>4 DEF HasConnection
  <2>2. Head(batch) \notin ConnectorFunctors /\ restarting' = FALSE
    BY <1>1, <1>4 DEF ConnectorFunctors, ClientInv, ClientTypes
  <2> QED
    BY <1>1, <1>4, <2>1, <2>2, OtherFunctor, Zenon
<1> QED
  BY <1>3, <1>4 DEF RunConnectionFunctor

(* resetChannel drops the channel that was removed. *)
LEMMA ResetChannelStep ==
  ASSUME ClientInv, RunFunctor, Head(batch) = "resetChannel",
         ConnectorBecomes(ResetChannel(connector), pending), UNCHANGED <<connVars,
                                                                         restarting>>
  PROVE  ClientInv'
<1>1. /\ batch # <<>> /\ batch' = Tail(batch) /\ ~restarting
      /\ UNCHANGED <<client, alive, clientConnect, kept, conn, closeCallback_, phase,
                     ready, restarting, clientCalled>>
  BY DEF RunFunctor, clientVars, connVars, userVars
<1>2. phase = "functors" /\ ready = {} /\ clientCalled # {}
  BY <1>1 DEF ClientInv, ClientLoopOK, FirstOK
<1>3. "resetChannel" \in Queued
  BY <1>1, Taken DEF ClientInv, ClientTypes, Queued
<1>4. connector \in ConnectorType /\ connector.channel_ = "removed"
  BY <1>3 DEF ClientInv, ClientTypes, ResetOK
<1>5. connector' = [connector EXCEPT !.channel_ = "none"] /\ pending' = pending
  BY <1>4 DEF ConnectorBecomes, ResetChannel
<1>6. /\ connector' \in ConnectorType /\ connector'.channel_ = "none"
      /\ connector'.state_ = connector.state_ /\ connector'.retries = connector.retries
      /\ connector'.open = connector.open /\ connector'.failed = connector.failed
      /\ connector'.connect_ = connector.connect_
  BY <1>4, <1>5 DEF ConnectorType
<1>7. /\ Queued = Queued' \cup {"resetChannel"} /\ Elements(pending)' = Elements(pending)
      /\ \A f : QueuedOnce(f) => QueuedOnce(f)'
      /\ QueuedOnce("resetChannel") => "resetChannel" \notin Queued'
      /\ pending' \in Seq(ClientFunctors) /\ batch' \in Seq(ClientFunctors)
  BY <1>1, <1>5, QueueRun DEF ClientInv
<1>8. HasConnection' = HasConnection
  BY <1>1 DEF HasConnection
<1>9. ClientTypes'
  BY <1>1, <1>6, <1>7, Zenon DEF ClientInv, ClientTypes
<1>10. ClientLoopOK' /\ FirstOK'
  BY <1>1, <1>2, FirstKept DEF ClientInv, ClientLoopOK
<1>11. AttemptOK'
  BY <1>1, <1>4, <1>6, <1>7, <1>8 DEF ClientInv, AttemptOK, DescriptorsAccounted
<1>12. ResetOK'
  <2>1. "resetChannel" \notin Elements(pending)'
    BY <1>7 DEF Queued, ClientInv, ResetOK
  <2> QED
    BY <1>6, <1>7, <2>1 DEF ClientInv, ResetOK
<1>13. ReadyOK'
  BY <1>1, <1>2 DEF ReadyOK
<1>14. ClientGone'
  BY <1>1, <1>2, <1>4, <1>6, <1>7, <1>8 DEF ClientInv, ClientGone, ConnectorFunctors
<1> QED
  BY <1>9, <1>10, <1>11, <1>12, <1>13, <1>14, Zenon DEF ClientInv

(* stopInLoop: with connect_ set, since connect() came after stop(), its retry() sets *)
(* the timer.                                                                         *)
LEMMA StopInLoopStep ==
  ASSUME ClientConstants, ClientInv, RunFunctor, Head(batch) = "stopInLoop",
         ConnectorBecomes(StopInLoop(connector), pending), UNCHANGED <<connVars, restarting>>
  PROVE  ClientInv'
<1>1. /\ batch # <<>> /\ batch' = Tail(batch) /\ ~restarting /\ restarting' = FALSE
      /\ UNCHANGED <<client, alive, clientConnect, kept, conn, closeCallback_, phase,
                     ready, clientCalled>>
  BY DEF RunFunctor, clientVars, connVars, userVars, ClientInv, ClientTypes
<1>2. phase = "functors" /\ ready = {} /\ clientCalled # {}
  BY <1>1 DEF ClientInv, ClientLoopOK, FirstOK
<1>3. HasConnection' = HasConnection
  BY <1>1 DEF HasConnection
<1>4. CASE connector.state_ # "kConnecting"
  <2>1. connector' = connector
    BY <1>4 DEF ConnectorBecomes, StopInLoop
  <2>2. pending' = pending
    BY <1>4, <2>1 DEF ConnectorBecomes, ClientInv, AttemptOK
  <2> QED
    BY <1>1, <1>3, <1>4, <2>1, <2>2, OtherFunctor, Zenon
<1>5. CASE connector.state_ = "kConnecting"
  <2>1. /\ connector \in ConnectorType /\ connector.channel_ = "enabled" /\ connector.open = 1
        /\ connector.retries = 0 /\ ~HasConnection
        /\ "resetChannel" \notin Queued /\ "startInLoop" \notin Queued
    BY <1>5 DEF ClientInv, ClientTypes, AttemptOK, DescriptorsAccounted, ResetOK
  <2>2. connector' = Retry(RemoveAndResetChannel(connector))
    BY <1>5 DEF ConnectorBecomes, StopInLoop
  <2>3. /\ SameConnect(connector', connector) /\ connector'.channel_ = "removed"
        /\ connector'.open = 0
        /\ connector'.state_ = "kDisconnected"
        /\ connector'.retries = IF connector.connect_ THEN connector.retries + 1
                                ELSE connector.retries
    BY <1>5, <2>1, <2>2, RemoveFields
  <2>4. pending' = Append(pending, "resetChannel") /\ "resetChannel" \in ClientFunctors
    BY <2>1, <2>3 DEF ConnectorBecomes, ClientFunctors
  <2>5. /\ \A f : f # "stopInLoop" => (f \in Queued' <=> f \in Queued \/ f = "resetChannel")
        /\ Elements(pending)' = Elements(pending) \cup {"resetChannel"}
        /\ \A f : QueuedOnce(f) /\ (f # "resetChannel" \/ f \notin Queued) => QueuedOnce(f)'
        /\ pending' \in Seq(ClientFunctors) /\ batch' \in Seq(ClientFunctors)
    BY <1>1, <2>4, QueueRunPut DEF ClientInv
  <2>6. ~alive => ~connector.connect_ /\ kept
    BY <2>1 DEF ClientInv, ClientGone
  <2>7. ClientTypes'
    <3>1. connector' \in ConnectorType /\ connector'.retries \in {0, 1} /\ connector'.failed = {}
      BY <2>1, <2>3 DEF SameConnect, ClientInv, ClientTypes
    <3> QED
      BY <1>1, <2>5, <3>1, Zenon DEF ClientInv, ClientTypes
  <2>8. ClientLoopOK' /\ FirstOK'
    BY <1>1, <1>2, FirstKept DEF ClientInv, ClientLoopOK
  <2>9. AttemptOK'
    BY <1>1, <1>3, <2>1, <2>3, <2>5 DEF ClientInv, AttemptOK, DescriptorsAccounted
  <2>10. ResetOK'
    BY <1>1, <1>3, <2>1, <2>3, <2>5 DEF ClientInv, ResetOK
  <2>11. ReadyOK'
    BY <1>1, <1>2 DEF ReadyOK
  <2>12. ClientGone'
    <3>1. "forceCloseInLoop" \in Queued' => "forceCloseInLoop" \in Queued
      BY <2>5
    <3>2. ~alive => ~connector'.connect_ /\ kept' /\ "kept" \notin ready'
      BY <1>1, <1>2, <2>3, <2>6 DEF SameConnect
    <3> QED
      BY <1>1, <1>3, <2>3, <3>1, <3>2 DEF ClientInv, ClientGone
  <2> QED
    BY <2>7, <2>8, <2>9, <2>10, <2>11, <2>12, Zenon DEF ClientInv
<1> QED
  BY <1>4, <1>5

-----------------------------------------------------------------------------

(* A call other than connect(), which is not the first one. *)
LEMMA MayCallFields ==
  ASSUME CarefulPrograms, ClientInv, NEW inLoop \in BOOLEAN,
         NEW op \in {"disconnect", "stop", "destroy"}, MayCallClient(inLoop, op), client' = client
  PROVE  /\ alive /\ ~kept /\ clientCalled # {} /\ FirstOK'
         /\ clientCalled' \subseteq BOOLEAN \X {"connect", "disconnect", "stop", "destroy"}
         /\ inLoop => ~restarting
<1>1. /\ alive /\ clientCalled' = clientCalled \cup {<<inLoop, op>>} /\ (inLoop => ~restarting)
      /\ client.patient => clientCalled # {}
  BY DEF MayCallClient
<1>2. clientCalled # {}
  BY <1>1 DEF ClientInv, ClientTypes, CarefulPrograms, Careful
<1>3. clientCalled' \subseteq BOOLEAN \X {"connect", "disconnect", "stop", "destroy"}
  BY <1>1 DEF ClientInv, ClientTypes
<1>4. FirstOK'
  BY <1>1, <1>2, FirstKept DEF ClientInv
<1> QED
  BY <1>1, <1>2, <1>3, <1>4 DEF ClientInv, ClientGone

(* disconnect(). *)
LEMMA DisconnectStep ==
  ASSUME CarefulPrograms, ClientInv, NEW inLoop \in BOOLEAN, ClientDisconnect(inLoop)
  PROVE  ClientInv'
<1>1. /\ MayCallClient(inLoop, "disconnect") /\ clientConnect' = FALSE
      /\ conn' = IF conn = "up" THEN "closing" ELSE conn
      /\ pending' = IF conn = "up" THEN Append(pending, "shutdownInLoop") ELSE pending
      /\ UNCHANGED <<client, connector, alive, kept, closeCallback_, phase, ready, batch,
                     restarting>>
  BY DEF ClientDisconnect, loopVars
<1>2. /\ alive /\ ~kept /\ clientCalled # {} /\ FirstOK'
      /\ clientCalled' \subseteq BOOLEAN \X {"connect", "disconnect", "stop", "destroy"}
  BY <1>1, MayCallFields
<1>3. HasConnection' = HasConnection
  BY <1>1 DEF HasConnection
<1>4. /\ \A f \in ConnectorFunctors \cup {"forceCloseInLoop"} : f \in Queued' <=> f \in Queued
      /\ "resetChannel" \in Elements(pending)' <=> "resetChannel" \in Elements(pending)
      /\ \A f \in {"startInLoop", "resetChannel"} : QueuedOnce(f) => QueuedOnce(f)'
      /\ pending' \in Seq(ClientFunctors) /\ batch' \in Seq(ClientFunctors)
  <2>1. CASE conn = "up"
    <3>1. "shutdownInLoop" \in ClientFunctors
      BY DEF ClientFunctors
    <3>2. /\ Queued' = Queued \cup {"shutdownInLoop"}
          /\ Elements(pending)' = Elements(pending) \cup {"shutdownInLoop"}
          /\ \A f : QueuedOnce(f) /\ (f # "shutdownInLoop" \/ f \notin Queued) => QueuedOnce(f)'
          /\ pending' \in Seq(ClientFunctors) /\ batch' \in Seq(ClientFunctors)
      BY <1>1, <2>1, <3>1, QueuePut, Zenon DEF ClientInv
    <3> QED
      BY <3>2 DEF ConnectorFunctors
  <2>2. CASE conn # "up"
    BY <1>1, <2>2, QueueKept DEF ClientInv
  <2> QED
    BY <2>1, <2>2
<1>5. ClientTypes'
  BY <1>1, <1>2, <1>4, Zenon DEF ClientInv, ClientTypes
<1>6. ClientLoopOK'
  BY <1>1, Zenon DEF ClientInv, ClientLoopOK
<1>7. AttemptOK'
  BY <1>1, <1>3, <1>4 DEF ClientInv, AttemptOK, DescriptorsAccounted, ConnectorFunctors
<1>8. ResetOK'
  BY <1>1, <1>3, <1>4 DEF ClientInv, ResetOK, ConnectorFunctors
<1>9. ReadyOK'
  BY <1>1, <1>3 DEF ClientInv, ReadyOK
<1>10. ClientGone'
  BY <1>1, <1>2, <1>4 DEF ClientInv, ClientGone
<1> QED
  BY <1>2, <1>5, <1>6, <1>7, <1>8, <1>9, <1>10, Zenon DEF ClientInv

(* connect_ is cleared and stopInLoop queued, by stop() or by ~TcpClient. *)
LEMMA StopQueued ==
  ASSUME ClientInv, connector' = [connector EXCEPT !.connect_ = FALSE],
         pending' = Append(pending, "stopInLoop"),
         UNCHANGED <<conn, phase, ready, batch, restarting>>, kept => kept'
  PROVE  /\ connector' \in ConnectorType /\ ~connector'.connect_
         /\ connector'.channel_ = connector.channel_ /\ connector'.retries = connector.retries
         /\ connector'.failed = connector.failed
         /\ Queued' = Queued \cup {"stopInLoop"}
         /\ pending' \in Seq(ClientFunctors) /\ batch' \in Seq(ClientFunctors)
         /\ ClientLoopOK' /\ AttemptOK' /\ ResetOK' /\ ReadyOK'
<1>1. connector \in ConnectorType
  BY DEF ClientInv, ClientTypes
<1>2. /\ connector' \in ConnectorType /\ ~connector'.connect_
      /\ connector'.channel_ = connector.channel_ /\ connector'.retries = connector.retries
      /\ connector'.state_ = connector.state_ /\ connector'.open = connector.open
      /\ connector'.failed = connector.failed
  BY <1>1, Zenon DEF ConnectorType
<1>3. HasConnection' = HasConnection
  BY DEF HasConnection
<1>4. "stopInLoop" \in ClientFunctors
  BY DEF ClientFunctors
<1>5. /\ Queued' = Queued \cup {"stopInLoop"}
      /\ Elements(pending)' = Elements(pending) \cup {"stopInLoop"}
      /\ \A f : QueuedOnce(f) /\ (f # "stopInLoop" \/ f \notin Queued) => QueuedOnce(f)'
      /\ pending' \in Seq(ClientFunctors) /\ batch' \in Seq(ClientFunctors)
  BY <1>4, QueuePut, Zenon DEF ClientInv
<1>6. ClientLoopOK'
  BY Zenon DEF ClientInv, ClientLoopOK
<1>7. AttemptOK'
  BY <1>2, <1>3, <1>5 DEF ClientInv, AttemptOK, DescriptorsAccounted
<1>8. ResetOK'
  BY <1>2, <1>3, <1>5 DEF ClientInv, ResetOK
<1>9. ReadyOK'
  BY <1>2, <1>3 DEF ClientInv, ReadyOK
<1> QED
  BY <1>2, <1>5, <1>6, <1>7, <1>8, <1>9

(* stop(). *)
LEMMA StopStep ==
  ASSUME CarefulPrograms, ClientInv, NEW inLoop \in BOOLEAN, ClientStop(inLoop)
  PROVE  ClientInv'
<1>1. /\ MayCallClient(inLoop, "stop") /\ clientConnect' = FALSE
      /\ connector' = [connector EXCEPT !.connect_ = FALSE]
      /\ pending' = Append(pending, "stopInLoop")
      /\ UNCHANGED <<client, alive, kept, conn, closeCallback_, phase, ready, batch,
                     restarting>>
  BY DEF ClientStop, loopVars, connVars
<1>2. /\ alive /\ ~kept /\ clientCalled # {} /\ FirstOK'
      /\ clientCalled' \subseteq BOOLEAN \X {"connect", "disconnect", "stop", "destroy"}
  BY <1>1, MayCallFields
<1>3. /\ connector' \in ConnectorType
      /\ connector'.retries = connector.retries /\ connector'.failed = connector.failed
      /\ Queued' = Queued \cup {"stopInLoop"}
      /\ pending' \in Seq(ClientFunctors) /\ batch' \in Seq(ClientFunctors)
      /\ ClientLoopOK' /\ AttemptOK' /\ ResetOK' /\ ReadyOK'
  BY <1>1, StopQueued
<1>4. ClientTypes'
  BY <1>1, <1>2, <1>3, Zenon DEF ClientInv, ClientTypes
<1>5. ClientGone'
  BY <1>1, <1>2, <1>3 DEF ClientInv, ClientGone
<1> QED
  BY <1>2, <1>3, <1>4, <1>5, Zenon DEF ClientInv

(* ~TcpClient: with a connection it leaves the connector at rest, and without one it keeps it *)
(* until stopInLoop has run.                                                                   *)
LEMMA DestroyStep ==
  ASSUME CarefulPrograms, ClientInv, DestroyClient
  PROVE  ClientInv'
<1>1. /\ MayCallClient(TRUE, "destroy") /\ alive' = FALSE
      /\ client.patient => Queued \cap ConnectorFunctors = {}
      /\ UNCHANGED <<client, clientConnect, conn, phase, ready, batch, restarting>>
  BY Zenon DEF DestroyClient, loopVars
<1>2. /\ alive /\ ~kept /\ clientCalled # {} /\ FirstOK' /\ ~restarting
      /\ clientCalled' \subseteq BOOLEAN \X {"connect", "disconnect", "stop", "destroy"}
  BY <1>1, MayCallFields, Zenon
<1>3. Queued \cap ConnectorFunctors = {}
  BY <1>1 DEF ClientInv, ClientTypes, CarefulPrograms, Careful
<1>4. HasConnection' = HasConnection
  BY <1>1 DEF HasConnection
<1>5. CASE HasConnection
  <2>1. /\ closeCallback_' = "detail" /\ pending' = Append(pending, "forceCloseInLoop")
        /\ connector' = connector /\ kept' = kept
    BY <1>5 DEF DestroyClient
  <2>2. "forceCloseInLoop" \in ClientFunctors
    BY DEF ClientFunctors
  <2>3. /\ Queued' = Queued \cup {"forceCloseInLoop"}
        /\ Elements(pending)' = Elements(pending) \cup {"forceCloseInLoop"}
        /\ \A f : QueuedOnce(f) /\ (f # "forceCloseInLoop" \/ f \notin Queued) => QueuedOnce(f)'
        /\ pending' \in Seq(ClientFunctors) /\ batch' \in Seq(ClientFunctors)
    BY <1>1, <2>1, <2>2, QueuePut, Zenon DEF ClientInv
  <2>4. ClientTypes'
    BY <1>1, <1>2, <2>1, <2>3, Zenon DEF ClientInv, ClientTypes
  <2>5. ClientLoopOK'
    BY <1>1, Zenon DEF ClientInv, ClientLoopOK
  <2>6. AttemptOK'
    BY <1>1, <1>4, <2>1, <2>3 DEF ClientInv, AttemptOK, DescriptorsAccounted
  <2>7. ResetOK'
    BY <1>1, <1>4, <2>1, <2>3 DEF ClientInv, ResetOK
  <2>8. ReadyOK'
    BY <1>1, <1>4, <2>1 DEF ClientInv, ReadyOK
  <2>9. connector.channel_ = "none" /\ connector.retries = 0
    BY <1>3, <1>5
       DEF ClientInv, ClientTypes, ConnectorType, AttemptOK, ResetOK, ConnectorFunctors
  <2>10. ClientGone'
    BY <1>1, <1>2, <1>3, <2>1, <2>3, <2>9 DEF ClientGone, ConnectorFunctors
  <2> QED
    BY <1>2, <2>4, <2>5, <2>6, <2>7, <2>8, <2>10, Zenon DEF ClientInv
<1>6. CASE ~HasConnection
  <2>1. /\ connector' = [connector EXCEPT !.connect_ = FALSE]
        /\ pending' = Append(pending, "stopInLoop") /\ kept' = TRUE
        /\ closeCallback_' = closeCallback_
    BY <1>6 DEF DestroyClient
  <2>2. /\ connector' \in ConnectorType /\ ~connector'.connect_
        /\ connector'.retries = connector.retries /\ connector'.failed = connector.failed
        /\ Queued' = Queued \cup {"stopInLoop"}
        /\ pending' \in Seq(ClientFunctors) /\ batch' \in Seq(ClientFunctors)
        /\ ClientLoopOK' /\ AttemptOK' /\ ResetOK' /\ ReadyOK'
    BY <1>1, <2>1, StopQueued
  <2>3. ClientTypes'
    BY <1>1, <1>2, <2>1, <2>2, Zenon DEF ClientInv, ClientTypes
  <2>4. "kept" \notin ready'
    BY <1>1, <1>2 DEF ClientInv, ReadyOK
  <2>5. ClientGone'
    BY <1>1, <1>2, <1>4, <1>6, <2>1, <2>2, <2>4 DEF ClientGone
  <2> QED
    BY <1>2, <2>2, <2>3, <2>5, Zenon DEF ClientInv
<1> QED
  BY <1>5, <1>6

-----------------------------------------------------------------------------

(* The invariant holds in the initial states. *)
LEMMA ClientInitially ==
  ASSUME ClientConstants
  PROVE  ClientInit => ClientInv
<1> SUFFICES ASSUME ClientInit PROVE ClientInv
  OBVIOUS
<1>1. Elements(<<>>) = {} /\ \A f : OnceIn(<<>>, f)
  BY DEF Elements, OnceIn
<1>2. /\ pending = <<>> /\ batch = <<>> /\ Queued = {} /\ Elements(pending) = {}
      /\ (\A f : QueuedOnce(f))
  BY <1>1 DEF ClientInit, Queued, QueuedOnce
<1>3. /\ connector \in ConnectorType /\ connector.retries = 0 /\ connector.failed = {}
      /\ connector.channel_ = "none" /\ connector.state_ = "kDisconnected" /\ connector.open = 0
  BY DEF ClientInit, NewConnector, ConnectorType, ClientConstants
<1>4. ClientTypes
  <2>1. pending \in Seq(ClientFunctors) /\ batch \in Seq(ClientFunctors)
    BY <1>2
  <2>2. clientCalled \subseteq BOOLEAN \X {"connect", "disconnect", "stop", "destroy"}
    BY DEF ClientInit
  <2> QED
    BY <1>3, <2>1, <2>2, Zenon DEF ClientInit, ClientTypes
<1>5. ClientLoopOK /\ FirstOK /\ ReadyOK /\ ClientGone
  BY <1>2 DEF ClientInit, ClientLoopOK, FirstOK, ReadyOK, ClientGone, HasConnection
<1>6. AttemptOK /\ ResetOK
  BY <1>2, <1>3 DEF ClientInit, AttemptOK, ResetOK, HasConnection, DescriptorsAccounted
<1> QED
  BY <1>4, <1>5, <1>6 DEF ClientInv

(* Any step of a careful program keeps the invariant. *)
LEMMA ClientStep ==
  ASSUME ClientConstants, CarefulPrograms, ClientInv, ClientNext
  PROVE  ClientInv'
<1>1. ASSUME LoopStep PROVE ClientInv'
  <2>1. ASSUME NEW outcome \in {"connected", "failed"}, ConnectorWritable(outcome)
        PROVE ClientInv'
    BY <2>1, ConnectorEventStep
  <2>2. CASE ConnectorError
    BY <2>2, ConnectorEventStep
  <2>3. ASSUME NEW result \in Results, RetryTimer(result) \/ RestartConnector(result)
        PROVE  ClientInv'
    BY <2>3, RetryTimerStep, RestartStep
  <2>4. CASE RunFunctor
    <3>1. ASSUME NEW result \in Results, RunStartInLoop(result) PROVE ClientInv'
      BY <2>4, <3>1, RunStartStep
    <3>2. CASE RunConnectorFunctor
      <4>1. UNCHANGED <<connVars, restarting>>
        BY <3>2 DEF RunConnectorFunctor
      <4> QED
        BY <2>4, <3>2, <4>1, StopInLoopStep, ResetChannelStep DEF RunConnectorFunctor
    <3>3. CASE RunConnectionFunctor
      BY <2>4, <3>3, ConnectionFunctorStep
    <3> QED
      BY <2>4, <3>1, <3>2, <3>3 DEF RunFunctor
  <2>5. CASE RemoveConnector \/ PeerCloses \/ Poll \/ SwapPending \/ FunctorsDone
    BY <2>5, RemoveConnectorStep, PeerClosesStep, PollStep, SwapStep, FunctorsDoneStep
  <2> QED
    BY <1>1, <2>1, <2>2, <2>3, <2>4, <2>5, ZenonT(60) DEF LoopStep
<1>2. ASSUME NEW inLoop \in BOOLEAN, NEW result \in Results, ClientConnect(inLoop, result)
      PROVE  ClientInv'
  BY <1>2, CallConnectStep
<1>3. ASSUME NEW inLoop \in BOOLEAN, ClientDisconnect(inLoop) \/ ClientStop(inLoop)
      PROVE  ClientInv'
  BY <1>3, DisconnectStep, StopStep
<1>4. CASE DestroyClient
  BY <1>4, DestroyStep
<1> QED
  BY <1>1, <1>2, <1>3, <1>4, ZenonT(60) DEF ClientNext, UserStep

(* So does a step of another component. *)
LEMMA ClientStutters ==
  ASSUME ClientInv, UNCHANGED tcpClientVars
  PROVE  ClientInv'
<1>1. UNCHANGED <<client, connector, alive, clientConnect, kept, conn, closeCallback_,
                  phase, ready, pending, batch, restarting, clientCalled>>
  BY DEF tcpClientVars, clientVars, connVars, loopVars, userVars
<1>2. /\ Queued' = Queued /\ Elements(pending)' = Elements(pending)
      /\ \A f : QueuedOnce(f) => QueuedOnce(f)'
      /\ HasConnection' = HasConnection
  BY <1>1, QueueKept DEF ClientInv, HasConnection
<1>3. ClientTypes' /\ ClientLoopOK' /\ FirstOK'
  BY <1>1, Zenon DEF ClientInv, ClientTypes, ClientLoopOK, FirstOK, ClientOps
<1>4. AttemptOK' /\ ResetOK'
  BY <1>1, <1>2, Zenon DEF ClientInv, AttemptOK, DescriptorsAccounted, ResetOK
<1>5. ReadyOK' /\ ClientGone'
  BY <1>1, <1>2, Zenon DEF ClientInv, ReadyOK, ClientGone
<1> QED
  BY <1>3, <1>4, <1>5, Zenon DEF ClientInv

(* What the invariant is for: OutlivesCallbacks, the assertions of Connector.cc, and its *)
(* descriptors.                                                                          *)
LEMMA ClientSound ==
  ASSUME ClientInv
  PROVE  OutlivesCallbacks /\ ConnectorAssertsHold /\ DescriptorsAccounted
<1>1. ConnectorAssertsHold /\ DescriptorsAccounted
  BY DEF ClientInv, ClientTypes, AttemptOK, ConnectorAssertsHold
<1>2. OutlivesCallbacks
  BY DEF ClientInv, ClientTypes, ClientGone, OutlivesCallbacks, ConnectorAlive
<1> QED
  BY <1>1, <1>2

-----------------------------------------------------------------------------
(* stop() is final. *)

(* A stopped client neither connects nor is about to restart its connector. *)
StopInv ==
  /\ client \in ClientPrograms
  /\ "connect_" \in DOMAIN connector
  /\ restarting => client.retry_
  /\ stopped => ~connector.connect_ /\ ~clientConnect /\ ~restarting

(* d is c with other fields than connect_ changed. *)
KeepsConnect(d, c) == "connect_" \in DOMAIN d /\ d.connect_ = c.connect_

(* A step keeps the invariant and makes no connection of a stopped client. *)
StopPreserved == StopInv' /\ (stopped /\ conn' = "up" => conn = "up")

(* retry() leaves connect_. *)
LEMMA RetryKeeps ==
  ASSUME NEW c, "connect_" \in DOMAIN c
  PROVE  KeepsConnect(Retry(c), c)
<1> DEFINE b == Close(c)
           d == [b EXCEPT !.state_ = "kDisconnected"]
           e == [d EXCEPT !.retries = @ + 1,
                          !.retryDelayMs_ = IF @ * 2 < kMaxRetryDelayMs THEN @ * 2
                                            ELSE kMaxRetryDelayMs]
<1>1. KeepsConnect(b, c)
  BY DEF Close, KeepsConnect
<1>2. Retry(c) = IF c.connect_ THEN e ELSE d
  BY DEF Retry
<1> HIDE DEF b
<1>3. KeepsConnect(d, c)
  BY <1>1 DEF KeepsConnect
<1> HIDE DEF d
<1>4. KeepsConnect(e, c)
  BY <1>3 DEF KeepsConnect
<1> HIDE DEF e
<1> QED
  BY <1>2, <1>3, <1>4

(* So do removeAndResetChannel, resetChannel, stopInLoop and handleError. *)
LEMMA RemoveKeeps ==
  ASSUME NEW c, "connect_" \in DOMAIN c
  PROVE  /\ KeepsConnect(RemoveAndResetChannel(c), c) /\ KeepsConnect(ResetChannel(c), c)
         /\ KeepsConnect(Retry(RemoveAndResetChannel(c)), c)
         /\ KeepsConnect(StopInLoop(c), c) /\ KeepsConnect(HandleError(c), c)
<1>1. KeepsConnect(RemoveAndResetChannel(c), c) /\ KeepsConnect(ResetChannel(c), c)
  BY DEF KeepsConnect, RemoveAndResetChannel, ResetChannel
<1>2. KeepsConnect(Retry(RemoveAndResetChannel(c)), c)
  BY <1>1, RetryKeeps DEF KeepsConnect
<1> QED
  BY <1>1, <1>2 DEF StopInLoop, HandleError, KeepsConnect

(* So does startInLoop. *)
LEMMA StartKeeps ==
  ASSUME NEW c, "connect_" \in DOMAIN c, NEW result \in {"inProgress", "again", "error"}
  PROVE  KeepsConnect(StartInLoop(c, result), c)
<1> DEFINE d == AssertThat(c, "startInLoop: kDisconnected", c.state_ = "kDisconnected")
           e == [d EXCEPT !.open = @ + 1]
           f == AssertThat(e, "connecting: !channel_", e.channel_ = "none")
           g == Close(e)
<1>1. KeepsConnect(d, c)
  BY DEF AssertThat, KeepsConnect
<1>2. StartInLoop(c, result) = IF c.connect_ THEN Connect(d, result) ELSE d
  BY DEF StartInLoop
<1> HIDE DEF d
<1>3. KeepsConnect(e, c)
  BY <1>1 DEF KeepsConnect
<1>4. Connect(d, result) = CASE result = "inProgress" -> Connecting(e)
                             [] result = "again"      -> Retry(e)
                             [] result = "error"      -> [g EXCEPT !.gaveUp = TRUE]
  BY DEF Connect
<1> HIDE DEF e
<1>5. KeepsConnect(f, c) /\ KeepsConnect(g, c)
  BY <1>3 DEF AssertThat, Close, KeepsConnect
<1>6. Connecting(e) = [f EXCEPT !.state_ = "kConnecting", !.channel_ = "enabled"]
  BY DEF Connecting
<1> HIDE DEF f, g
<1>7. KeepsConnect(Connecting(e), c) /\ KeepsConnect([g EXCEPT !.gaveUp = TRUE], c)
  BY <1>5, <1>6 DEF KeepsConnect
<1>8. KeepsConnect(Retry(e), c)
  BY <1>3, RetryKeeps DEF KeepsConnect
<1> QED
  BY <1>1, <1>2, <1>4, <1>7, <1>8

(* restart() sets connect_, and the connector keeps its fields. *)
LEMMA RestartKeeps ==
  ASSUME NEW c, "connect_" \in DOMAIN c, NEW result \in {"inProgress", "again", "error"}
  PROVE  "connect_" \in DOMAIN Restart(c, result)
<1> DEFINE d == [c EXCEPT !.state_ = "kDisconnected", !.connect_ = TRUE,
                          !.retryDelayMs_ = kInitRetryDelayMs]
<1>1. "connect_" \in DOMAIN d
  OBVIOUS
<1>2. Restart(c, result) = StartInLoop(d, result)
  BY DEF Restart
<1> HIDE DEF d
<1> QED
  BY <1>1, <1>2, StartKeeps DEF KeepsConnect

(* handleWrite leaves connect_. *)
LEMMA WriteKeeps ==
  ASSUME NEW c, "connect_" \in DOMAIN c, NEW outcome \in {"connected", "failed"}
  PROVE  KeepsConnect(HandleWrite(c, outcome), c)
<1> DEFINE d == RemoveAndResetChannel(c)
           e == [d EXCEPT !.state_ = "kConnected"]
           f == AssertThat(c, "handleWrite: kDisconnected", c.state_ = "kDisconnected")
<1>1. KeepsConnect(d, c) /\ KeepsConnect(Retry(d), c)
  BY RemoveKeeps
<1>2. HandleWrite(c, outcome) = IF c.state_ # "kConnecting" THEN f
                                ELSE IF outcome = "connected" THEN HandedOver(e) ELSE Retry(d)
  BY DEF HandleWrite
<1>3. KeepsConnect(f, c)
  BY DEF AssertThat, KeepsConnect
<1> HIDE DEF d, f
<1>4. KeepsConnect(e, c)
  BY <1>1 DEF KeepsConnect
<1> HIDE DEF e
<1>5. KeepsConnect(HandedOver(e), c)
  BY <1>4 DEF HandedOver, KeepsConnect
<1> QED
  BY <1>1, <1>2, <1>3, <1>5

(* A step that leaves connect_ of the client and of the connector. *)
LEMMA StopKept ==
  ASSUME StopInv, KeepsConnect(connector', connector),
         UNCHANGED <<client, clientConnect, restarting, stopped>>
  PROVE  StopInv'
  BY Zenon DEF StopInv, KeepsConnect

(* No step of the loop connects a client that is stopped. *)
LEMMA StopLoopStep ==
  ASSUME StopInv, LoopStep
  PROVE  StopPreserved
<1> USE DEF StopPreserved
<1>0. "connect_" \in DOMAIN connector /\ KeepsConnect(connector, connector)
  BY DEF StopInv, KeepsConnect
<1>1. ASSUME NEW outcome \in {"connected", "failed"}, ConnectorWritable(outcome)
      PROVE StopPreserved
  <2> DEFINE c == HandleWrite(connector, outcome)
  <2>1. KeepsConnect(c, connector)
    BY <1>0, WriteKeeps
  <2>2. /\ connector' = c /\ UNCHANGED <<client, clientConnect, restarting, stopped>>
        /\ conn' = conn \/ c.connect_
    BY <1>1 DEF ConnectorWritable, ConnectorBecomes, clientVars, userVars, connVars
  <2> HIDE DEF c
  <2>3. StopInv'
    BY <2>1, <2>2, StopKept
  <2>4. stopped => conn' = conn
    BY <2>1, <2>2, Zenon DEF StopInv, KeepsConnect
  <2> QED
    BY <2>3, <2>4
<1>2. CASE ConnectorError
  <2>1. /\ connector' = HandleError(connector) /\ conn' = conn
        /\ UNCHANGED <<client, clientConnect, restarting, stopped>>
    BY <1>2 DEF ConnectorError, ConnectorBecomes, clientVars, userVars, connVars
  <2> QED
    BY <1>0, <2>1, RemoveKeeps, StopKept
<1>3. ASSUME NEW result \in Results, RetryTimer(result) PROVE StopPreserved
  <2> DEFINE c == [connector EXCEPT !.retries = @ - 1]
  <2>1. /\ connector' = StartInLoop(c, result) /\ conn' = conn
        /\ UNCHANGED <<client, clientConnect, restarting, stopped>>
    BY <1>3 DEF RetryTimer, ConnectorBecomes, clientVars, userVars, connVars
  <2>2. KeepsConnect(c, connector)
    BY <1>0 DEF KeepsConnect
  <2> HIDE DEF c
  <2>3. KeepsConnect(connector', connector)
    BY <2>1, <2>2, ResultsAre, StartKeeps DEF KeepsConnect
  <2> QED
    BY <2>1, <2>3, StopKept
<1>4. ASSUME NEW result \in Results, RestartConnector(result) PROVE StopPreserved
  <2>1. /\ restarting /\ restarting' = FALSE /\ connector' = Restart(connector, result)
        /\ UNCHANGED <<client, clientConnect, conn, stopped>>
    BY <1>4 DEF RestartConnector, ConnectorBecomes, clientVars, userVars, connVars
  <2>2. "connect_" \in DOMAIN connector'
    BY <1>0, <2>1, ResultsAre, RestartKeeps
  <2> QED
    BY <2>1, <2>2, Zenon DEF StopInv
<1>5. ASSUME NEW q, RemoveConnection(q), UNCHANGED <<client, connector, clientConnect,
                                                     stopped>>
      PROVE  StopPreserved
  <2>1. conn' = "down" /\ (restarting' => client.retry_ /\ clientConnect)
    BY <1>5, Zenon DEF RemoveConnection
  <2> QED
    BY <1>5, <2>1 DEF StopInv
<1>6. CASE PeerCloses
  <2>1. RemoveConnection(pending) /\ UNCHANGED <<client, connector, clientConnect, stopped>>
    BY <1>6 DEF PeerCloses, clientVars, userVars
  <2> QED
    BY <1>5, <2>1
<1>7. CASE RemoveConnector \/ Poll \/ SwapPending \/ FunctorsDone
  <2>1. UNCHANGED <<client, connector, clientConnect, restarting, stopped, conn>>
    BY <1>7 DEF RemoveConnector, Poll, SwapPending, FunctorsDone, clientVars,
        userVars, connVars
  <2> QED
    BY <1>0, <2>1, StopKept
<1>8. CASE RunFunctor
  <2>1. UNCHANGED <<client, clientConnect, stopped>>
    BY <1>8 DEF RunFunctor, clientVars, userVars
  <2>2. ASSUME NEW result \in Results, RunStartInLoop(result) PROVE StopPreserved
    <3>1. connector' = StartInLoop(connector, result) /\ UNCHANGED <<conn, restarting>>
      BY <2>2 DEF RunStartInLoop, ConnectorBecomes, connVars
    <3> QED
      BY <1>0, <2>1, <3>1, ResultsAre, StartKeeps, StopKept
  <2>3. CASE RunConnectorFunctor
    <3>1. /\ connector' = StopInLoop(connector) \/ connector' = ResetChannel(connector)
          /\ UNCHANGED <<conn, restarting>>
      BY <2>3 DEF RunConnectorFunctor, ConnectorBecomes, connVars
    <3> QED
      BY <1>0, <2>1, <3>1, RemoveKeeps, StopKept
  <2>4. CASE RunConnectionFunctor
    <3>1. connector' = connector
      BY <2>4 DEF RunConnectionFunctor
    <3>2. CASE RemoveConnection(pending)
      BY <1>5, <2>1, <3>1, <3>2
    <3>3. CASE conn' \in {conn, "none"} /\ restarting' = restarting
      BY <1>0, <2>1, <3>1, <3>3, StopKept
    <3> QED
      BY <2>4, <3>2, <3>3 DEF RunConnectionFunctor
  <2> QED
    BY <1>8, <2>2, <2>3, <2>4 DEF RunFunctor
<1> HIDE DEF StopPreserved
<1> QED
  BY <1>1, <1>2, <1>3, <1>4, <1>6, <1>7, <1>8, ZenonT(60) DEF LoopStep

(* No call but connect() lets a stopped client connect. *)
LEMMA StopUserStep ==
  ASSUME ProgramsStopInLoop, StopInv, UserStep \/ DestroyClient
  PROVE  StopPreserved
<1> USE DEF StopPreserved
<1>0. "connect_" \in DOMAIN connector /\ client \in ClientPrograms
  BY DEF StopInv
<1>1. ASSUME NEW inLoop \in BOOLEAN, NEW result \in Results, ClientConnect(inLoop, result)
      PROVE  StopPreserved
  <2> DEFINE c == [connector EXCEPT !.connect_ = TRUE]
  <2>1. /\ connector' = c \/ connector' = StartInLoop(c, result)
        /\ UNCHANGED <<client, restarting, conn>>
    BY <1>1 DEF ClientConnect, ConnectorBecomes, connVars
  <2>2. ~stopped'
    BY <1>1 DEF ClientConnect, MayCallClient
  <2>3. "connect_" \in DOMAIN c
    BY <1>0
  <2> HIDE DEF c
  <2>4. "connect_" \in DOMAIN connector'
    BY <2>1, <2>3, ResultsAre, StartKeeps DEF KeepsConnect
  <2> QED
    BY <2>1, <2>2, <2>4, Zenon DEF StopInv
<1>2. ASSUME NEW inLoop \in BOOLEAN, ClientDisconnect(inLoop) PROVE StopPreserved
  <2>1. /\ clientConnect' = FALSE /\ conn' = IF conn = "up" THEN "closing" ELSE conn
        /\ UNCHANGED <<client, connector, restarting>>
    BY <1>2 DEF ClientDisconnect
  <2>2. stopped' = stopped
    BY <1>2 DEF ClientDisconnect, MayCallClient
  <2> QED
    BY <2>1, <2>2 DEF StopInv
<1>3. ASSUME NEW inLoop \in BOOLEAN, ClientStop(inLoop) PROVE StopPreserved
  <2>1. /\ clientConnect' = FALSE /\ connector' = [connector EXCEPT !.connect_ = FALSE]
        /\ UNCHANGED <<client, conn, restarting>>
    BY <1>3 DEF ClientStop, connVars
  <2>2. ~restarting
    <3>1. inLoop => ~restarting
      BY <1>3 DEF ClientStop, MayCallClient
    <3>2. ~inLoop => ~client.retry_
      BY <1>0, <1>3 DEF ClientStop, MayCallClient, ProgramsStopInLoop, StopsInLoop
    <3> QED
      BY <3>1, <3>2 DEF StopInv
  <2>3. ~connector'.connect_ /\ "connect_" \in DOMAIN connector'
    BY <1>0, <2>1
  <2> QED
    BY <2>1, <2>2, <2>3, Zenon DEF StopInv
<1>4. CASE DestroyClient
  <2>1. /\ connector' = connector \/ connector' = [connector EXCEPT !.connect_ = FALSE]
        /\ UNCHANGED <<client, clientConnect, conn, restarting>>
    BY <1>4 DEF DestroyClient
  <2>2. stopped' = stopped
    BY <1>4 DEF DestroyClient, MayCallClient
  <2>3. "connect_" \in DOMAIN connector' /\ (connector'.connect_ => connector.connect_)
    BY <1>0, <2>1
  <2> QED
    BY <2>1, <2>2, <2>3, Zenon DEF StopInv
<1> HIDE DEF StopPreserved
<1> QED
  BY <1>1, <1>2, <1>3, <1>4, ZenonT(60) DEF UserStep

(* A step of another component keeps StopInv. *)
LEMMA StopStutters ==
  ASSUME StopInv, UNCHANGED <<client, connector, clientConnect, restarting, stopped>>
  PROVE  StopInv'
  BY Zenon DEF StopInv

(* StopInv holds in the initial states. *)
LEMMA StopInitially == ClientInit => StopInv
  BY DEF ClientInit, StopInv, NewConnector

-----------------------------------------------------------------------------
(* No functor or callback runs on a destroyed client or connector, no assert *)
(* of Connector.cc fails (Connector.cc:49, 134, 206), and each descriptor is *)
(* closed once or handed over, whatever fails, is lost, or is called.        *)
THEOREM ClientIsSound ==
  ASSUME CarefulPrograms
  PROVE  ClientSpec => []ConnectorSound
<1>1. ClientConstants
  BY ClientAssumption DEF ClientConstants
<1>2. ClientInit => ClientInv
  BY <1>1, ClientInitially
<1>3. ClientInv /\ [ClientNext]_tcpClientVars => ClientInv'
  BY <1>1, ClientStep, ClientStutters
<1>4. ClientInv => ConnectorSound
  BY ClientSound DEF ConnectorSound
<1> QED
  BY <1>2, <1>3, <1>4, PTL DEF ClientSpec

(* No connection is made after stop() (TcpClient.cc:126-130) until connect() *)
(* is called, whatever was in progress.                                      *)
THEOREM ClientStaysStopped ==
  ASSUME ProgramsStopInLoop
  PROVE  ClientSpec => StopIsFinal
<1>1. ClientInit => StopInv
  BY StopInitially
<1>2. StopInv /\ [ClientNext]_tcpClientVars =>
        StopInv' /\ [(stopped /\ conn' = "up") => conn = "up"]_tcpClientVars
  <2> SUFFICES ASSUME StopInv, [ClientNext]_tcpClientVars
               PROVE  StopInv' /\ [(stopped /\ conn' = "up") => conn = "up"]_tcpClientVars
    OBVIOUS
  <2>1. CASE ClientNext
    BY <2>1, StopLoopStep, StopUserStep DEF ClientNext, StopPreserved
  <2>2. CASE UNCHANGED tcpClientVars
    <3>1. UNCHANGED <<client, connector, clientConnect, restarting, stopped>>
      BY <2>2 DEF tcpClientVars, clientVars, userVars
    <3> QED
      BY <2>2, <3>1, StopStutters
  <2> QED
    BY <2>1, <2>2
<1> QED
  BY <1>1, <1>2, PTL DEF ClientSpec, StopIsFinal

==============================================================================
