------------------------------ MODULE TcpServer ------------------------------
(***************************************************************************)
(* TcpServer (net/TcpServer.cc) and one of its connections, from           *)
(* newConnection to the destruction of the TcpConnection.  The connection  *)
(* lives in the server's own loop (setThreadNum(0)) or in the loop of a    *)
(* thread of the pool; then newConnection, removeConnectionInLoop and      *)
(* ~TcpServer run in the base loop, concurrently with the I/O loop.        *)
(***************************************************************************)
EXTENDS TcpConnection

VARIABLE serverAlive

serverVars == <<vars, serverAlive>>
fixed      == <<serverAlive, program>>

ServerInit == Init /\ serverAlive = TRUE

(* Code of the server's loop outside the handlers of this connection. *)
InServerLoop == program.sameLoop => (stack = <<>> /\ phase = "events")

NewConnection ==
  /\ serverAlive /\ state_ = "none"
  /\ InServerLoop
  /\ owned' = TRUE
  /\ IF program.sameLoop
     THEN /\ state_' = "kConnected"
          /\ UpdateChannel({"R"})
          /\ stack' = <<"user">>
          /\ UNCHANGED pending
     ELSE /\ state_' = "kConnecting"
          /\ pending' = Append(pending, Functor("connectEstablished"))
          /\ UNCHANGED <<channelVars, stack>>
  /\ UNCHANGED <<outputVars, inputVars, userVars, reading_, phase, batch, batchRef,
                 ownerCalls, failed, fixed>>

(* Faulty: the connection is not erased from connections_. *)
RemoveConnectionInLoop_NotErased ==
  /\ Asserts(owned /\ serverAlive, "removeConnectionInLoop")
  /\ pending' = Append(pending, Functor("connectDestroyed"))
  /\ UNCHANGED owned

(* removeConnectionInLoop, with this and its connections_ still there or not. *)
RemoveConnectionInLoop ==
  /\ Asserts(owned /\ serverAlive, "removeConnectionInLoop")
  /\ owned' = FALSE
  /\ pending' = Append(pending, Functor("connectDestroyed"))

(* The last line of handleClose: closeCallback_ is removeConnection. *)
CloseCallback ==
  /\ stack # <<>> /\ Head(stack) = "closeCallback"
  /\ stack' = Tail(stack)
  /\ IF program.sameLoop
     THEN RemoveConnectionInLoop /\ UNCHANGED ownerCalls
     ELSE /\ ownerCalls' = Append(ownerCalls, "removeConnectionInLoop")
          /\ Asserts(serverAlive, "removeConnection")
          /\ UNCHANGED <<pending, owned>>
  /\ UNCHANGED <<connVars, outputVars, inputVars, userVars, phase, batch, batchRef,
                 fixed>>

(* The base loop runs what removeConnection queued. *)
BaseLoopRuns ==
  /\ ownerCalls # <<>>
  /\ ownerCalls' = Tail(ownerCalls)
  /\ RemoveConnectionInLoop
  /\ UNCHANGED <<connVars, outputVars, inputVars, loopVars, userVars, fixed>>

(* ~TcpServer: runInLoop(connectDestroyed) for a connection it still has. *)
DestroyServer ==
  /\ "destroyServer" \in program.ops /\ serverAlive
  /\ InServerLoop
  /\ serverAlive' = FALSE
  /\ owned' = FALSE
  /\ IF owned
     THEN IF program.sameLoop
          THEN ConnectDestroyed /\ UNCHANGED pending
          ELSE /\ pending' = Append(pending, Functor("connectDestroyed"))
               /\ UNCHANGED <<channelVars, state_, stack, failed>>
     ELSE UNCHANGED <<channelVars, state_, stack, pending, failed>>
  /\ UNCHANGED <<outputVars, inputVars, userVars, reading_, phase, batch, batchRef,
                 ownerCalls, program>>

HandlerStep ==
  \/ HandleClose \/ HandleError \/ HandleRead \/ HandleWrite \/ ChannelRemove \/ UserReturns

LoopStep ==
  \/ (HandlerStep \/ PollReturn \/ SwapPending \/ RunFunctor \/ DoneFunctors \/ DelayExpires)
     /\ UNCHANGED fixed
  \/ CloseCallback

UserStep ==
  /\ \/ \E m \in Messages : Send(m)
     \/ Shutdown \/ ForceClose \/ ForceCloseWithDelay
     \/ \* a disciplined program does not use reading on a connection that is down
        /\ "readWhenDown" \in program.ops \/ state_ # "kDisconnected"
        /\ StartRead \/ StopRead
     \/ KeepRef
     \/ \E t \in Threads :
          (\E op \in program.threadOps : ThreadCalls(t, op)) \/ ThreadSetsState(t)
  /\ UNCHANGED fixed

Releases == (DropRef \/ \E t \in Threads : ThreadQueues(t)) /\ UNCHANGED fixed

PeerStep == (PeerSends \/ PeerCloses \/ PeerResets) /\ UNCHANGED fixed

Drain == PeerReceives /\ UNCHANGED fixed

Next ==
  \/ NewConnection
  \/ LoopStep
  \/ BaseLoopRuns
  \/ DestroyServer
  \/ UserStep
  \/ Releases
  \/ PeerStep
  \/ Drain

Spec == ServerInit /\ [][Next]_serverVars

(* The loop threads are scheduled, callbacks return and shared_ptrs are      *)
(* released; the peer makes room for output; the loop, which comes back to   *)
(* poll() again and again, handles a timer that has expired.                 *)
FairSpec ==
  /\ Spec
  /\ WF_serverVars(LoopStep) /\ WF_serverVars(BaseLoopRuns)
  /\ WF_serverVars(Releases) /\ WF_serverVars(Drain)
  /\ SF_serverVars(DelayExpires /\ UNCHANGED fixed)

------------------------------------------------------------------------------
(* What the properties below ask of a program: threads other than the loop's   *)
(* only send; no reading on a connection that is down; no forced close of a    *)
(* connection that does not read; and a server is only destroyed in the loop   *)
(* of its connections, which are not being closed by the program.              *)
Disciplined(p) ==
  /\ p.threadOps \subseteq {"send"}
  /\ "readWhenDown" \notin p.ops
  /\ "stopRead" \in p.ops => p.ops \cap {"forceClose", "forceCloseWithDelay"} = {}
  /\ "destroyServer" \in p.ops =>
       p.sameLoop /\ p.ops \cap {"shutdown", "forceClose", "forceCloseWithDelay"} = {}

(* No assertion of TcpConnection, Channel or TcpServer fails: handleClose runs *)
(* on an open connection, Channel::remove on a disabled channel, and           *)
(* removeConnectionInLoop finds the connection and a server that exists.       *)
NoAssertFails == failed = {}

(* Channel::remove is only called after disableAll.                            *)
RemovedDisabled == "Channel::remove" \notin failed

(* handleClose runs at most once for a connection.                             *)
ClosedOnce == "handleClose" \notin failed

(* ~TcpConnection: when the last shared_ptr is gone the connection is          *)
(* kDisconnected and its channel was removed from the poller.                  *)
DestroyedClean ==
  (state_ # "none" /\ ~Alive) => (state_ = "kDisconnected" /\ ~addedToLoop_)

(* What was written and what is buffered is, in this order, a prefix of what   *)
(* sendInLoop accepted: the direct write, the buffer and handleWrite neither   *)
(* reorder, repeat nor skip output, however little write() takes.              *)
OutputInOrder ==
  LET out == wire \o outputBuffer_
  IN  Len(out) <= Len(accepted) /\ out = SubSeq(accepted, 1, Len(out))

(* A closed connection is destroyed.                                           *)
ClosedIsDestroyed == (state_ = "kDisconnected") ~> ~Alive

(* The sending side is closed only when all output that was accepted has been  *)
(* written, unless the peer has reset the connection.                          *)
FinAfterOutput == (finSent /\ ~reset) => wire = accepted

(* After shutdown() the sending side is closed, or the connection is lost, and *)
(* it is closed only when all output that was accepted has been written.       *)
ShutdownCompletes ==
  /\ []FinAfterOutput
  /\ (state_ = "kDisconnecting") ~> (finSent \/ state_ = "kDisconnected")

==============================================================================
