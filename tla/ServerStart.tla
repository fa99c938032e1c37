----------------------------- MODULE ServerStart -----------------------------
(***************************************************************************)
(* TcpServer::start (net/TcpServer.cc) over the thread pool and the        *)
(* acceptor, from the call of start() to the connections that newConnection*)
(* gives to the loops, and to the destruction of the pool.                 *)
(***************************************************************************)
EXTENDS EventLoopThreadPool, Acceptor

VARIABLE
  serverStarted          \* TcpServer::started_

serverVars == <<poolVars, acceptorVars, serverStarted>>

ServerInit == PoolInit /\ AcceptorInit /\ serverStarted = 0

(* Unless the program says anyFirst, the loop thread is the first to call. *)
MayStart(caller) ==
  /\ caller = "loopThread" => base \in {"idle", "serving"}
  /\ caller = "otherThread" => serverProgram.anyFirst \/ serverStarted = 1

StartCalls == {"loopThread", "otherThread"}

(* start(), by the loop thread or by another thread.  getAndSet lets only    *)
(* the first call on to the thread pool.                                     *)
CallStart(caller) ==
  /\ MayStart(caller)
  /\ serverStarted' = 1
  /\ IF serverStarted = 0
     THEN /\ StartPool(caller = "loopThread")
          /\ UNCHANGED <<serverProgram, loops_, next_, asleep, at, count_, loop_, poolQuit_,
                         freed, given>>
     ELSE UNCHANGED poolVars
  /\ UNCHANGED acceptorVars

(* runInLoop(Acceptor::listen), which the loop thread runs at once. *)
StartListening ==
  /\ base = "listen"
  /\ base' = "serving"
  /\ failed' = failed \cup Unless(~listening_, "start: !listening")
  /\ Listen
  /\ UNCHANGED <<serverProgram, started_, loops_, next_, asleep, starting, freed, given, serverStarted>>
  /\ UNCHANGED threadVars

(* Acceptor::handleRead calls TcpServer::newConnection, which takes the next *)
(* loop.                                                                     *)
NewConnection ==
  /\ base = "serving"
  /\ AcceptConnection
  /\ UseNextLoop
  /\ UNCHANGED <<serverProgram, started_, loops_, base, asleep, starting, at, count_, loop_, poolQuit_,
                 serverCalled, freed, failed, serverStarted>>

Serving == base = "serving" /\ EmfileStep /\ UNCHANGED <<poolVars, serverStarted>>

Network ==
  /\ ClientConnects \/ ClientGivesUp \/ ConnectionCloses
  /\ UNCHANGED <<poolVars, serverStarted>>

Keep == UNCHANGED <<acceptorVars, serverStarted>>

(* ~TcpServer, between two handlers of the loop: the members go with it. *)
DestroyServer ==
  /\ DestroyPool
  /\ emfile = "no"
  /\ CloseAcceptor
  /\ UNCHANGED serverStarted

ServerNext ==
  \/ \E caller \in StartCalls : CallStart(caller)
  \/ StartListening \/ NewConnection \/ Serving \/ Network
  \/ PoolStep /\ Keep
  \/ DestroyServer

(* Every thread that can run does; poll reports the listening socket for as  *)
(* long as a connection waits.                                               *)
ServerFairness ==
  /\ WF_serverVars((BaseStep /\ Keep) \/ StartListening)
  /\ WF_serverVars(NewConnection \/ Serving)
  /\ \A t \in PoolThreads : WF_serverVars(ThreadStep(t) /\ Keep)

-----------------------------------------------------------------------------
(* A loop that getNextLoop, getLoopForHash or getAllLoops hands out exists and *)
(* has run the ThreadInitCallback, the connections go round the loops, and the *)
(* assertions of start() hold.                                                 *)
LoopsHandedOut == LoopsInitialized /\ RoundRobin /\ NothingFails

(* start() returns, with every I/O thread in the pool.                       *)
StartReturns ==
  base = "create" ~> (base = "serving" /\ Len(loops_) = serverProgram.numThreads_)

(* The destructor of the pool returns, although it joins every thread.       *)
PoolDestroyed == base = "destroy" ~> base = "done"

(* Both: start() and the destructor of the pool return.                      *)
PoolStartsAndEnds == StartReturns /\ PoolDestroyed

(* A connection that waits when the descriptor table is full does not keep   *)
(* the loop busy: the backlog is emptied although no descriptor becomes free *)
(* (Acceptor.cc:89-91).                                                      *)
BacklogEmptied == backlog > 0 ~> backlog = 0

==============================================================================
