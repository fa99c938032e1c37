----------------------------- MODULE MCThreads -------------------------------
(***************************************************************************)
(* The components whose threads and loops wait for each other, for TLC.  A *)
(* behaviour is one of BlockingQueue, MutexLock, ThreadPool, AsyncLogging, *)
(* TcpClient, ServerStart or RpcChannel; which says which one, and the     *)
(* others stay in their initial state.                                     *)
(***************************************************************************)
EXTENDS BaseComponents, TcpClient, ServerStart, RpcChannel, TLC

VARIABLE which

-----------------------------------------------------------------------------
(* The pool: two threads and a short queue, a task that calls run() for      *)
(* another one, no thread at all, and a queue longer than its one thread.    *)
Pool(workers, maxQueueSize_, nestedIn) ==
  [workers |-> workers, maxQueueSize_ |-> maxQueueSize_, nestedIn |-> nestedIn]

MCPoolPrograms ==
  {Pool({"w1", "w2"}, 1, <<>>), Pool({"w1", "w2"}, 0, "c" :> "a"),
   Pool({}, 0, <<>>), Pool({"w1"}, 2, <<>>)}

-----------------------------------------------------------------------------
Client(retry_, loopOps, threadOps) ==
  [retry_ |-> retry_, loopOps |-> loopOps, threadOps |-> threadOps, patient |-> TRUE]

MCClientPrograms ==
  {Client(TRUE, {"connect", "stop", "disconnect", "destroy"}, {}),
   Client(TRUE, {"destroy"}, {"connect", "disconnect"}),
   Client(FALSE, {"destroy"}, {"connect", "stop", "disconnect"}),
   Client(TRUE, {"connect"}, {})}

Server(numThreads_, quitters, anyFirst) ==
  [numThreads_ |-> numThreads_, quitters |-> quitters, patient |-> TRUE, anyFirst |-> anyFirst]

(* The pool has no thread, two, or two of which one quits its own loop. *)
MCServerPrograms == {Server(0, {}, FALSE), Server(2, {}, FALSE), Server(2, {2}, FALSE)}

-----------------------------------------------------------------------------
(* RPC: n is called in the closure of a, and e names no method.              *)
MCCalls == {"a", "b", "n", "e"}

MCNestedIn == [c \in MCCalls |-> IF c = "n" THEN "a" ELSE NoCall]

MCErrorOf == [c \in MCCalls |-> IF c = "e" THEN "NO_METHOD" ELSE "NO_ERROR"]

MCRpcPrograms == {[deferred |-> FALSE, lost |-> TRUE], [deferred |-> TRUE, lost |-> FALSE]}

-----------------------------------------------------------------------------
MCInit ==
  /\ which \in {"queue", "mutex", "pool", "async", "client", "server", "rpc"}
  /\ Init /\ M!Init /\ P!Init /\ A!Init /\ ClientInit /\ ServerInit /\ RpcInit
  /\ which # "queue" => bounded
  /\ which # "pool" => pool = Pool({}, 0, <<>>)
  /\ which # "client" => client = Client(TRUE, {"connect"}, {})
  /\ which # "server" => serverProgram = Server(0, {}, FALSE)
  /\ which # "rpc" => rpcProgram.lost

MCNext ==
  \/ /\ which = "queue" /\ Next
     /\ UNCHANGED <<which, mutexVars, threadPoolVars, asyncVars, tcpClientVars, serverVars, rpcVars>>
  \/ /\ which = "mutex" /\ M!Next
     /\ UNCHANGED <<which, vars, threadPoolVars, asyncVars, tcpClientVars, serverVars, rpcVars>>
  \/ /\ which = "pool" /\ P!Next
     /\ UNCHANGED <<which, vars, mutexVars, asyncVars, tcpClientVars, serverVars, rpcVars>>
  \/ /\ which = "async" /\ A!Next
     /\ UNCHANGED <<which, vars, mutexVars, threadPoolVars, tcpClientVars, serverVars, rpcVars>>
  \/ /\ which = "client" /\ ClientNext
     /\ UNCHANGED <<which, vars, mutexVars, threadPoolVars, asyncVars, serverVars, rpcVars>>
  \/ /\ which = "server" /\ ServerNext
     /\ UNCHANGED <<which, vars, mutexVars, threadPoolVars, asyncVars, tcpClientVars, rpcVars>>
  \/ /\ which = "rpc" /\ RpcNext
     /\ UNCHANGED <<which, vars, mutexVars, threadPoolVars, asyncVars, tcpClientVars, serverVars>>

MCVars == <<which, vars, mutexVars, threadPoolVars, asyncVars, tcpClientVars, serverVars, rpcVars>>

(* A thread or loop that can take a step is scheduled, and gets the lock it  *)
(* waits for.  Those of the server are never enabled in behaviours of others. *)
MCSpec ==
  /\ MCInit
  /\ [][MCNext]_MCVars
  /\ WF_threadPoolVars(which = "pool" /\ P!MainStep)
  /\ \A w \in Workers : WF_threadPoolVars(which = "pool" /\ P!WorkerStep(w))
  /\ \A t \in Tasks : WF_threadPoolVars(which = "pool" /\ P!CallerStep(t))
  /\ WF_asyncVars(which = "async" /\ A!ThreadStep)
  /\ WF_tcpClientVars(which = "client" /\ LoopStep)
  /\ ServerFairness
  /\ WF_rpcVars(which = "rpc" /\ RpcStep)

==============================================================================
