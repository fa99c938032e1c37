------------------------------ MODULE TcpClient ------------------------------
(***************************************************************************)
(* TcpClient (net/TcpClient.cc) with its Connector, its connection, and    *)
(* their loop: poll, the events that were ready (descriptors and timers),  *)
(* then the batch of functors queued meanwhile.  Functors other than the   *)
(* timers' hold plain pointers.                                            *)
(* User code calls the client in the loop thread, between two steps of the *)
(* loop, or in another thread.                                             *)
(***************************************************************************)
EXTENDS Connector, Sequences

CONSTANTS
  ClientPrograms,              \* retry_, and the operations the loop thread (loopOps) and
                         \* another thread (threadOps) call, each once; patient: it
                         \* calls connect first, and destroys the client when no
                         \* functor of the connector is queued
  MaxFailures,           \* bound: attempts that fail
  MaxConnections         \* bound: connections the peer closes

VARIABLES
  client,               \* the member of Programs; never changes
  connector,
  alive, clientConnect,  \* the TcpClient: not destroyed; its connect_
  kept,                  \* the timer of ~TcpClient that keeps the connector is set
  conn, closeCallback_,  \* the connection: "none", "up", "closing" or "down"; which
                         \* removeConnection its handleClose calls
  phase, ready,          \* of the loop: "poll", "events" or "functors"; the events that
                         \* poll returned and are not handled yet
  pending, batch,        \* functors queued; functors doPendingFunctors has still to run
  restarting,            \* removeConnection is about to call restart
  clientCalled, stopped,       \* operations called, by the thread; stop was called last
  failures, connections  \* attempts that failed; connections made

clientVars == <<alive, clientConnect, kept>>
connVars   == <<conn, closeCallback_>>
loopVars   == <<phase, ready, batch>>
userVars   == <<clientCalled, stopped>>
tcpClientVars == <<client, connector, clientVars, connVars, loopVars, pending, restarting, userVars,
          failures, connections>>

Elements(s) == {s[i] : i \in DOMAIN s}
Queued == Elements(pending) \cup Elements(batch)

ConnectorAlive == alive \/ kept \/ connector.retries > 0

HasConnection == conn \in {"up", "closing"}

ClientInit ==
  /\ client \in ClientPrograms
  /\ connector = NewConnector
  /\ alive = TRUE /\ clientConnect = TRUE /\ kept = FALSE
  /\ conn = "none" /\ closeCallback_ = "client"
  /\ phase = "events" /\ ready = {} /\ batch = <<>> /\ pending = <<>>
  /\ restarting = FALSE
  /\ clientCalled = {} /\ stopped = FALSE
  /\ failures = 0 /\ connections = 0

(* The connector after a handler, with the functor of removeAndResetChannel. *)
ConnectorBecomes(c, queue) ==
  /\ connector' = c
  /\ pending' = IF connector.channel_ = "enabled" /\ c.channel_ = "removed"
                THEN Append(queue, "resetChannel") ELSE queue

(* The results an attempt may have, and how many of them are failures. *)
Results == IF failures < MaxFailures THEN {"inProgress", "again", "error"} ELSE {"inProgress"}

CountFailure(ok) == failures' = IF ok THEN failures ELSE failures + 1

------------------------------------------------------------------------------
(* Events                                                                   *)

(* What poll() may return.  The timer of retry is set together with resetChannel, *)
(* for half a second or more, and the timer of ~TcpClient for a second: the       *)
(* functors queued with them run before they expire.                              *)
Sources ==
  {e \in {"connector", "timer", "kept", "conn"} :
     \/ e = "connector" /\ connector.channel_ = "enabled"
     \/ e = "timer" /\ connector.retries > 0 /\ "resetChannel" \notin Elements(pending)
     \/ e = "kept" /\ kept /\ pending = <<>>
     \/ e = "conn" /\ (conn = "closing" \/ (conn = "up" /\ connections < MaxConnections))}

Poll ==
  /\ phase = "poll"
  /\ ready' \in SUBSET Sources
  /\ ready' # {} \/ pending # <<>>
  /\ phase' = "events"
  /\ UNCHANGED <<client, connector, clientVars, connVars, batch, pending, restarting, userVars,
                 failures, connections>>

Handles(e) ==
  /\ phase = "events" /\ ~restarting
  /\ e \in ready
  /\ ready' = ready \ {e}
  /\ UNCHANGED <<phase, batch>>

(* TcpClient::newConnection, called by handleWrite while connect_ is set. *)
ConnectorWritable(outcome) ==
  LET c == HandleWrite(connector, outcome)
      made == c.state_ = "kConnected" /\ c.connect_
  IN  /\ Handles("connector")
      /\ outcome = "connected" \/ failures < MaxFailures
      /\ ConnectorBecomes(c, pending)
      /\ CountFailure(outcome = "connected")
      /\ IF made THEN /\ conn' = "up" /\ closeCallback_' = "client"
                      /\ connections' = connections + 1
                 ELSE UNCHANGED <<connVars, connections>>
      /\ UNCHANGED <<client, clientVars, restarting, userVars>>

ConnectorError ==
  /\ Handles("connector") /\ failures < MaxFailures
  /\ ConnectorBecomes(HandleError(connector), pending)
  /\ CountFailure(FALSE)
  /\ UNCHANGED <<client, clientVars, connVars, restarting, userVars, connections>>

(* The timer of retry; it holds a shared_ptr to the connector. *)
RetryTimer(result) ==
  /\ Handles("timer") /\ result \in Results
  /\ ConnectorBecomes(StartInLoop([connector EXCEPT !.retries = @ - 1], result), pending)
  /\ CountFailure(result = "inProgress" \/ ~connector.connect_)
  /\ UNCHANGED <<client, clientVars, connVars, restarting, userVars, connections>>

(* The timer of ~TcpClient: what was queued before it has run, a second later. *)
RemoveConnector ==
  /\ Handles("kept")
  /\ kept' = FALSE
  /\ UNCHANGED <<client, connector, alive, clientConnect, connVars, pending, restarting, userVars,
                 failures, connections>>

(* handleClose of the connection: TcpClient::removeConnection, or the one of detail. *)
RemoveConnection(queue) ==
  /\ conn' = "down"
  /\ pending' = Append(queue, "connectDestroyed")
  /\ restarting' = (closeCallback_ = "client" /\ client.retry_ /\ clientConnect)

PeerCloses ==
  /\ Handles("conn") /\ HasConnection
  /\ RemoveConnection(pending)
  /\ UNCHANGED <<client, connector, clientVars, closeCallback_, userVars, failures, connections>>

(* The end of removeConnection. *)
RestartConnector(result) ==
  /\ restarting /\ result \in Results
  /\ restarting' = FALSE
  /\ ConnectorBecomes(Restart(connector, result), pending)
  /\ CountFailure(result = "inProgress")
  /\ UNCHANGED <<client, clientVars, connVars, loopVars, userVars, connections>>

------------------------------------------------------------------------------
(* doPendingFunctors                                                        *)

SwapPending ==
  /\ phase = "events" /\ ready = {} /\ ~restarting
  /\ phase' = "functors"
  /\ batch' = pending
  /\ pending' = <<>>
  /\ UNCHANGED <<client, connector, clientVars, connVars, ready, restarting, userVars,
                 failures, connections>>

RunStartInLoop(result) ==
  /\ Head(batch) = "startInLoop" /\ result \in Results
  /\ ConnectorBecomes(StartInLoop(connector, result), pending)
  /\ CountFailure(result = "inProgress" \/ ~connector.connect_)
  /\ UNCHANGED <<connVars, restarting>>

RunConnectorFunctor ==
  /\ \/ Head(batch) = "stopInLoop" /\ ConnectorBecomes(StopInLoop(connector), pending)
     \/ Head(batch) = "resetChannel" /\ ConnectorBecomes(ResetChannel(connector), pending)
  /\ UNCHANGED <<connVars, restarting, failures>>

(* forceCloseInLoop, connectDestroyed and shutdownInLoop of the connection. *)
RunConnectionFunctor ==
  /\ \/ /\ Head(batch) = "forceCloseInLoop" /\ HasConnection
        /\ RemoveConnection(pending)
     \/ /\ Head(batch) = "forceCloseInLoop" /\ ~HasConnection
        /\ UNCHANGED <<conn, pending, restarting>>
     \/ /\ Head(batch) = "connectDestroyed"
        /\ conn' = "none" /\ UNCHANGED <<pending, restarting>>
     \/ /\ Head(batch) = "shutdownInLoop"
        /\ UNCHANGED <<conn, pending, restarting>>
  /\ UNCHANGED <<connector, closeCallback_, failures>>

RunFunctor ==
  /\ batch # <<>> /\ ~restarting
  /\ batch' = Tail(batch)
  /\ \/ \E result \in Results : RunStartInLoop(result)
     \/ RunConnectorFunctor
     \/ RunConnectionFunctor
  /\ UNCHANGED <<client, clientVars, phase, ready, userVars, connections>>

FunctorsDone ==
  /\ phase = "functors" /\ batch = <<>> /\ ~restarting
  /\ phase' = "poll"
  /\ UNCHANGED <<client, connector, clientVars, connVars, ready, batch, pending, restarting,
                 userVars, failures, connections>>

------------------------------------------------------------------------------
(* The operations of TcpClient; inLoop tells whether the loop thread calls. *)

MayCallClient(inLoop, op) ==
  /\ alive
  /\ op \in (IF inLoop THEN client.loopOps ELSE client.threadOps)
  /\ <<inLoop, op>> \notin clientCalled
  /\ inLoop => ~restarting /\ phase # "poll"
  /\ (client.patient /\ op # "connect") => clientCalled # {}
  /\ clientCalled' = clientCalled \cup {<<inLoop, op>>}
  /\ stopped' = CASE op = "stop" -> TRUE [] op = "connect" -> FALSE [] OTHER -> stopped

(* connect(): runInLoop calls startInLoop in the loop thread and queues it elsewhere. *)
ClientConnect(inLoop, result) ==
  /\ MayCallClient(inLoop, "connect") /\ result \in Results
  /\ clientConnect' = TRUE
  /\ IF inLoop
     THEN /\ ConnectorBecomes(StartInLoop([connector EXCEPT !.connect_ = TRUE], result), pending)
          /\ CountFailure(result = "inProgress")
     ELSE /\ connector' = [connector EXCEPT !.connect_ = TRUE]
          /\ pending' = Append(pending, "startInLoop")
          /\ UNCHANGED failures
  /\ UNCHANGED <<client, alive, kept, connVars, loopVars, restarting, connections>>

ClientDisconnect(inLoop) ==
  /\ MayCallClient(inLoop, "disconnect")
  /\ clientConnect' = FALSE
  /\ conn' = IF conn = "up" THEN "closing" ELSE conn
  /\ pending' = IF conn = "up" THEN Append(pending, "shutdownInLoop") ELSE pending
  /\ UNCHANGED <<client, connector, alive, kept, closeCallback_, loopVars, restarting, failures, connections>>

ClientStop(inLoop) ==
  /\ MayCallClient(inLoop, "stop")
  /\ clientConnect' = FALSE
  /\ connector' = [connector EXCEPT !.connect_ = FALSE]
  /\ pending' = Append(pending, "stopInLoop")
  /\ UNCHANGED <<client, alive, kept, connVars, loopVars, restarting, failures, connections>>

ConnectorFunctors == {"startInLoop", "stopInLoop", "resetChannel"}

(* Faulty: nothing keeps the connector. *)
DestroyClient_NotKept ==
  /\ MayCallClient(TRUE, "destroy")
  /\ client.patient => Queued \cap ConnectorFunctors = {}
  /\ alive' = FALSE
  /\ connector' = [connector EXCEPT !.connect_ = FALSE]
  /\ pending' = Append(pending, "stopInLoop")
  /\ UNCHANGED <<client, clientConnect, kept, connVars, loopVars, restarting, failures, connections>>

(* ~TcpClient in the loop thread (in another one the source marks it "not 100%   *)
(* safe"); the user holds no other pointer to the connection.                    *)
DestroyClient ==
  /\ MayCallClient(TRUE, "destroy")
  /\ client.patient => Queued \cap ConnectorFunctors = {}
  /\ alive' = FALSE
  /\ IF HasConnection
     THEN /\ closeCallback_' = "detail"
          /\ pending' = Append(pending, "forceCloseInLoop")
          /\ UNCHANGED <<connector, kept>>
     ELSE /\ connector' = [connector EXCEPT !.connect_ = FALSE]
          /\ pending' = Append(pending, "stopInLoop")
          /\ kept' = TRUE
          /\ UNCHANGED closeCallback_
  /\ UNCHANGED <<client, clientConnect, conn, loopVars, restarting, failures, connections>>

LoopStep ==
  \/ \E outcome \in {"connected", "failed"} : ConnectorWritable(outcome)
  \/ ConnectorError
  \/ \E result \in Results : RetryTimer(result) \/ RestartConnector(result)
  \/ RemoveConnector
  \/ PeerCloses
  \/ Poll \/ SwapPending \/ RunFunctor \/ FunctorsDone

UserStep ==
  \E inLoop \in BOOLEAN :
    \/ \E result \in Results : ClientConnect(inLoop, result)
    \/ ClientDisconnect(inLoop) \/ ClientStop(inLoop)

ClientNext == LoopStep \/ UserStep \/ DestroyClient

ClientSpec == ClientInit /\ [][ClientNext]_tcpClientVars

------------------------------------------------------------------------------

(* startInLoop finds the connector disconnected, connecting finds no channel    *)
(* and handleWrite no other state: the assertions of Connector.cc hold.         *)
ConnectorAssertsHold == connector.failed = {}

(* Nothing that holds a plain pointer to the connector is left when the last    *)
(* shared_ptr goes, and the connection of a destroyed client does not call it.  *)
OutlivesCallbacks ==
  /\ ~ConnectorAlive => connector.channel_ = "none" /\ Queued \cap ConnectorFunctors = {}
  /\ (~alive /\ HasConnection) => closeCallback_ = "detail"

(* The descriptor of an attempt is closed once or handed over, by whichever of  *)
(* handleWrite, handleError, retry and stop comes first.                        *)
DescriptorsAccounted ==
  connector.open = IF connector.channel_ = "enabled" THEN 1 ELSE 0

(* The three together: of a client and its connector nothing is used after it   *)
(* is destroyed, left open or closed twice.                                     *)
ConnectorSound == OutlivesCallbacks /\ ConnectorAssertsHold /\ DescriptorsAccounted

(* No connection is made after stop() was called, until connect() is called.   *)
StopIsFinal == [][(stopped /\ conn' = "up") => conn = "up"]_tcpClientVars

(* A program that connects and does not stop gets its connection, and another   *)
(* one after each that is lost when enableRetry was called, unless connect      *)
(* failed with an errno that is not retried.                                    *)
Connected ==
  (<<TRUE, "connect">> \in clientCalled \/ <<FALSE, "connect">> \in clientCalled)
    /\ (client.retry_ \/ connections = 0)
  ~> \/ conn = "up" \/ connector.gaveUp
     \/ clientCalled \cap (BOOLEAN \X {"stop", "disconnect", "destroy"}) # {}
=============================================================================
