---------------------------- MODULE TcpConnection ----------------------------
(***************************************************************************)
(* TcpConnection (net/TcpConnection.cc) with its Channel, registered in an *)
(* EPollPoller, its socket, and the I/O loop that calls its handlers and   *)
(* functors.  The user's code runs in the loop thread, inside callbacks    *)
(* and between them, and in other threads.  The owner (TcpServer) is       *)
(* composed with it in TcpServer.tla.                                      *)
(*                                                                         *)
(* stack is what the loop thread has still to do before it returns to the  *)
(* loop: the callbacks handleEvent has still to make, user code, and what  *)
(* follows the user code.  A call from another thread is split where the   *)
(* loop thread can see it: state_ read, state_ written, functor queued.    *)
(* Assertions are compiled out and recorded in failed.                     *)
(***************************************************************************)
EXTENDS Naturals, Sequences

CONSTANTS
  Threads,               \* user threads other than the I/O loop's
  Messages,              \* messages, each sent at most once
  MessageLength,         \* units of a message: write() may take some of them
  HighWaterMark,         \* highWaterMark_, in units
  MaxPending,            \* bound: length of pending at which user code stops calling
  Programs               \* ways in which a user's program uses the library, each with
                         \* the operations it calls in the loop thread (ops) and in
                         \* other threads (threadOps), the messages it sends, and
                         \* whether the connection is in the server's loop (sameLoop)

(* The operations of a connection that other threads may call. *)
Operations == {"send", "shutdown", "forceClose", "forceCloseWithDelay", "startRead", "stopRead"}

ASSUME ConnectionAssumption ==
  /\ MessageLength \in Nat \ {0}
  /\ HighWaterMark \in Nat
  /\ MaxPending \in Nat
  /\ \A p \in Programs :
       p.messages \subseteq Messages /\ p.threadOps \subseteq Operations /\ p.sameLoop \in BOOLEAN

VARIABLES
  program,                                     \* the member of Programs; never changes
  state_, reading_, outputBuffer_,
  events_, index_, addedToLoop_,               \* of channel_
  input, peerFin, reset, sockErr, space,       \* the socket: unread data, FIN or RST
                                               \* received, SO_ERROR, room for output
  finSent, wire,                               \* shutdown(SHUT_WR) done, units written
  phase, stack, batch, batchRef, pending,      \* the loop; batchRef: the vector of
                                               \* doPendingFunctors holds a shared_ptr
  delayed,                                     \* the timer of forceCloseWithDelay is set
  owned, ownerCalls,                           \* the owner's shared_ptr; its queued calls
  userRef, ref,                                \* the user's shared_ptrs, by thread in ref
  call,                                        \* the API call a thread is in
  sent, called,                                \* history: messages given to send, other
                                               \* operations called by other threads
  accepted, failed                             \* history: units sendInLoop took, failed
                                               \* assertions

channelVars == <<events_, index_, addedToLoop_>>
connVars    == <<state_, reading_, channelVars>>
outputVars  == <<outputBuffer_, space, finSent, wire, accepted>>
inputVars   == <<input, peerFin, reset, sockErr>>
loopVars    == <<phase, stack, batch, batchRef>>
ownerVars   == <<owned, ownerCalls>>
userVars    == <<userRef, ref, call, sent, called, delayed>>
vars == <<connVars, outputVars, inputVars, loopVars, pending, ownerVars, userVars, failed, program>>

RawFunctors    == {"sendInLoop", "shutdownInLoop", "startReadInLoop", "stopReadInLoop"}
StrongFunctors == {"connectEstablished", "connectDestroyed", "forceCloseInLoop",
                   "writeComplete", "highWaterMark"}

Functor(name) == [name |-> name, message |-> <<>>]
Holds(queue)  == \E i \in DOMAIN queue : queue[i].name \in StrongFunctors

(* A shared_ptr to the connection exists.  While stack is not empty, handleEvent *)
(* (through tie_) or the functor being run holds one.                            *)
Alive ==
  \/ owned \/ userRef \/ \E t \in Threads : ref[t]
  \/ Holds(pending) \/ batchRef \/ stack # <<>>
  \/ ownerCalls # <<>>

Init ==
  /\ program \in Programs
  /\ state_ = "none" /\ reading_ = TRUE /\ outputBuffer_ = <<>>
  /\ events_ = {} /\ index_ = "kNew" /\ addedToLoop_ = FALSE
  /\ input = FALSE /\ peerFin = FALSE /\ reset = FALSE /\ sockErr = FALSE /\ space = TRUE
  /\ finSent = FALSE /\ wire = <<>>
  /\ phase = "poll" /\ stack = <<>> /\ batch = <<>> /\ batchRef = FALSE /\ pending = <<>>
  /\ delayed = FALSE
  /\ owned = FALSE /\ ownerCalls = <<>>
  /\ userRef = FALSE /\ ref = [t \in Threads |-> FALSE]
  /\ call = [t \in Threads |-> <<>>]
  /\ sent = {} /\ called = {} /\ accepted = <<>> /\ failed = {}

Asserts(condition, name) == failed' = IF condition THEN failed ELSE failed \cup {name}

------------------------------------------------------------------------------
(* Channel and EPollPoller.                                                 *)

(* Channel::update and EPollPoller::updateChannel: EPOLL_CTL_ADD for a channel *)
(* that is new or deleted, whatever its events; else EPOLL_CTL_DEL or _MOD.    *)
UpdateChannel(events) ==
  /\ events_' = events
  /\ addedToLoop_' = TRUE
  /\ index_' = IF index_ = "kAdded" /\ events = {} THEN "kDeleted" ELSE "kAdded"

RemoveChannel ==
  /\ Asserts(events_ = {}, "Channel::remove")
  /\ addedToLoop_' = FALSE
  /\ index_' = "kNew"
  /\ UNCHANGED events_

IsWriting == "W" \in events_
IsReading == "R" \in events_

EnableWriting == UpdateChannel(events_ \cup {"W"})

(* What epoll_wait reports for the channel: EPOLLHUP and EPOLLERR always. *)
Revents ==
  IF index_ # "kAdded" THEN {}
  ELSE (IF reset \/ (peerFin /\ finSent) THEN {"HUP"} ELSE {})
       \cup (IF sockErr THEN {"ERR"} ELSE {})
       \cup (IF IsReading /\ (input \/ peerFin \/ reset) THEN {"IN"} ELSE {})
       \cup (IF IsWriting /\ (space \/ reset) THEN {"OUT"} ELSE {})

(* handleEventWithGuard: which callbacks are made, in this order. *)
Callbacks(revents) ==
  (IF "HUP" \in revents /\ "IN" \notin revents THEN <<"handleClose">> ELSE <<>>)
  \o (IF "ERR" \in revents THEN <<"handleError">> ELSE <<>>)
  \o (IF "IN" \in revents THEN <<"handleRead">> ELSE <<>>)
  \o (IF "OUT" \in revents THEN <<"handleWrite">> ELSE <<>>)

------------------------------------------------------------------------------
(* Writing.                                                                 *)

Units(m) == [i \in 1 .. MessageLength |-> <<m, i>>]

(* The peer or shutdown() closed the sending side: write() fails with EPIPE *)
(* or ECONNRESET.                                                           *)
Broken == reset \/ finSent

(* How many of n units write() may take. *)
CanWrite(n) == IF Broken \/ ~space THEN {0} ELSE 1 .. n

(* The condition of sendInLoop for writing directly. *)
NothingBuffered == ~IsWriting /\ outputBuffer_ = <<>>

CrossesHighWaterMark(oldLen, remaining) ==
  oldLen + remaining >= HighWaterMark /\ oldLen < HighWaterMark

SendInLoop(m) ==
  \/ /\ state_ = "kDisconnected"
     /\ UNCHANGED <<channelVars, outputBuffer_, space, wire, accepted, pending>>
  \/ /\ state_ # "kDisconnected"
     /\ accepted' = accepted \o Units(m)
     /\ \E n \in IF NothingBuffered THEN CanWrite(MessageLength) ELSE {0},
           room \in BOOLEAN :
          LET faultError == NothingBuffered /\ Broken
              rest == IF faultError THEN <<>> ELSE SubSeq(Units(m), n + 1, MessageLength)
          IN  /\ wire' = wire \o SubSeq(Units(m), 1, n)
              /\ space' = (space /\ (n = 0 \/ (rest = <<>> /\ room)))
              /\ outputBuffer_' = outputBuffer_ \o rest
              /\ IF rest # <<>> /\ ~IsWriting THEN EnableWriting
                                              ELSE UNCHANGED channelVars
              /\ pending' = pending
                   \o (IF n = MessageLength THEN <<Functor("writeComplete")>> ELSE <<>>)
                   \o (IF rest # <<>> /\ CrossesHighWaterMark(Len(outputBuffer_), Len(rest))
                       THEN <<Functor("highWaterMark")>> ELSE <<>>)

(* shutdownInLoop given whether channel_ is writing. *)
ShutdownInLoop(writing) == finSent' = (finSent \/ ~writing)

(* Faulty: handleWrite forgets the shutdown that waits for the output. *)
FinishShutdown_Missing == UNCHANGED finSent

FinishShutdown ==
  IF state_ = "kDisconnecting" THEN ShutdownInLoop(FALSE) ELSE UNCHANGED finSent

(* Faulty: what was written stays in the buffer. *)
Retrieved_Nothing(n) == outputBuffer_

Retrieved(n) == SubSeq(outputBuffer_, n + 1, Len(outputBuffer_))

HandleWrite ==
  /\ stack # <<>> /\ Head(stack) = "handleWrite"
  /\ stack' = Tail(stack)
  /\ \/ /\ ~IsWriting \/ Broken \/ ~space
        /\ UNCHANGED <<channelVars, outputBuffer_, space, finSent, wire, pending>>
     \/ /\ IsWriting /\ ~Broken /\ space
        /\ \E n \in 1 .. Len(outputBuffer_), room \in BOOLEAN :
             /\ wire' = wire \o SubSeq(outputBuffer_, 1, n)
             /\ outputBuffer_' = Retrieved(n)
             /\ space' = (outputBuffer_' = <<>> /\ room)
        /\ IF outputBuffer_' = <<>>
           THEN /\ UpdateChannel(events_ \ {"W"})
                /\ pending' = Append(pending, Functor("writeComplete"))
                /\ FinishShutdown
           ELSE UNCHANGED <<channelVars, finSent, pending>>
  /\ UNCHANGED <<inputVars, ownerVars, userVars, state_, reading_, accepted, phase, batch,
                 batchRef, failed>>

------------------------------------------------------------------------------
(* Closing and reading.                                                     *)

(* Faulty: handleClose does not disable the channel. *)
HandleCloseThen_NotDisabled(rest) ==
  /\ Asserts(state_ \in {"kConnected", "kDisconnecting"}, "handleClose")
  /\ state_' = "kDisconnected"
  /\ stack' = <<"user", "closeCallback">> \o rest
  /\ UNCHANGED channelVars

(* handleClose up to the connection callback; then (closeCallback) is left.  *)
HandleCloseThen(rest) ==
  /\ Asserts(state_ \in {"kConnected", "kDisconnecting"}, "handleClose")
  /\ state_' = "kDisconnected"
  /\ UpdateChannel({})
  /\ stack' = <<"user", "closeCallback">> \o rest

HandleClose ==
  /\ stack # <<>> /\ Head(stack) = "handleClose"
  /\ HandleCloseThen(Tail(stack))
  /\ UNCHANGED <<outputVars, inputVars, ownerVars, userVars, reading_, phase, batch,
                 batchRef, pending>>

HandleError ==
  /\ stack # <<>> /\ Head(stack) = "handleError"
  /\ stack' = Tail(stack)
  /\ sockErr' = FALSE
  /\ UNCHANGED <<connVars, outputVars, ownerVars, userVars, input, peerFin, reset, phase,
                 batch, batchRef, pending, failed>>

(* readFd gives data, an error (SO_ERROR or nothing to read), or 0 at the end. *)
HandleRead ==
  /\ stack # <<>> /\ Head(stack) = "handleRead"
  /\ \/ /\ input
        /\ input' = FALSE
        /\ stack' = <<"user">> \o Tail(stack)
        /\ UNCHANGED <<channelVars, state_, sockErr, failed>>
     \/ /\ ~input /\ (sockErr \/ ~(peerFin \/ reset))
        /\ sockErr' = FALSE
        /\ stack' = Tail(stack)
        /\ UNCHANGED <<channelVars, state_, input, failed>>
     \/ /\ ~input /\ ~sockErr /\ (peerFin \/ reset)
        /\ HandleCloseThen(Tail(stack))
        /\ UNCHANGED <<input, sockErr>>
  /\ UNCHANGED <<outputVars, ownerVars, userVars, reading_, peerFin, reset, phase, batch,
                 batchRef, pending>>

(* The end of connectDestroyed. *)
ChannelRemove ==
  /\ stack # <<>> /\ Head(stack) = "channelRemove"
  /\ stack' = Tail(stack)
  /\ RemoveChannel
  /\ UNCHANGED <<outputVars, inputVars, ownerVars, userVars, state_, reading_, phase,
                 batch, batchRef, pending>>

UserReturns ==
  /\ stack # <<>> /\ Head(stack) = "user"
  /\ stack' = Tail(stack)
  /\ UNCHANGED <<connVars, outputVars, inputVars, ownerVars, userVars, phase, batch,
                 batchRef, pending, failed>>

(* Establishing and destroying, as parts of a functor or an inline call. *)
ConnectEstablished ==
  /\ Asserts(state_ = "kConnecting", "connectEstablished")
  /\ state_' = "kConnected"
  /\ UpdateChannel(events_ \cup {"R"})
  /\ stack' = <<"user">>

(* Faulty: connectDestroyed does not set kDisconnected. *)
ConnectDestroyed_StateKept ==
  \/ /\ state_ = "kConnected"
     /\ UpdateChannel({})
     /\ stack' = <<"user", "channelRemove">>
     /\ UNCHANGED <<state_, failed>>
  \/ /\ state_ # "kConnected"
     /\ RemoveChannel
     /\ UNCHANGED <<state_, stack>>

ConnectDestroyed ==
  \/ /\ state_ = "kConnected"
     /\ state_' = "kDisconnected"
     /\ UpdateChannel({})
     /\ stack' = <<"user", "channelRemove">>
     /\ UNCHANGED failed
  \/ /\ state_ # "kConnected"
     /\ RemoveChannel
     /\ UNCHANGED <<state_, stack>>

StartReadInLoop ==
  IF ~reading_ \/ ~IsReading
  THEN UpdateChannel(events_ \cup {"R"}) /\ reading_' = TRUE
  ELSE UNCHANGED <<channelVars, reading_>>

StopReadInLoop ==
  IF reading_ \/ IsReading
  THEN UpdateChannel(events_ \ {"R"}) /\ reading_' = FALSE
  ELSE UNCHANGED <<channelVars, reading_>>

------------------------------------------------------------------------------
(* The loop.                                                                *)

(* poll() returns, for this channel or for another one; handleEvent of this  *)
(* channel makes its callbacks if the shared_ptr in tie_ still exists.       *)
PollReturn ==
  /\ phase = "poll"
  /\ phase' = "events"
  /\ stack' = IF Alive THEN Callbacks(Revents) ELSE <<>>
  /\ UNCHANGED <<connVars, outputVars, inputVars, ownerVars, userVars, batch, batchRef,
                 pending, failed>>

SwapPending ==
  /\ phase = "events" /\ stack = <<>>
  /\ phase' = "functors"
  /\ batch' = pending
  /\ batchRef' = Holds(pending)
  /\ pending' = <<>>
  /\ UNCHANGED <<connVars, outputVars, inputVars, ownerVars, userVars, stack, failed>>

(* The functors of one batch, with what each leaves unchanged.  A functor bound *)
(* to the raw this of a destroyed connection (send in another thread) is        *)
(* undefined; no state that the properties speak of is left for it to change.   *)
RunFunctor ==
  /\ phase = "functors" /\ stack = <<>> /\ batch # <<>>
  /\ batch' = Tail(batch)
  /\ LET f == Head(batch).name
     IN \/ /\ f = "sendInLoop" /\ Alive
           /\ SendInLoop(Head(batch).message)
           /\ UNCHANGED <<state_, reading_, finSent, stack, failed>>
        \/ /\ f = "shutdownInLoop" /\ Alive
           /\ ShutdownInLoop(IsWriting)
           /\ UNCHANGED <<connVars, outputBuffer_, space, wire, accepted, stack, pending,
                          failed>>
        \/ /\ f = "startReadInLoop" /\ Alive
           /\ StartReadInLoop
           /\ UNCHANGED <<outputVars, state_, stack, pending, failed>>
        \/ /\ f = "stopReadInLoop" /\ Alive
           /\ StopReadInLoop
           /\ UNCHANGED <<outputVars, state_, stack, pending, failed>>
        \/ /\ f \in RawFunctors /\ ~Alive
           /\ UNCHANGED <<connVars, outputVars, stack, pending, failed>>
        \/ /\ f = "connectEstablished"
           /\ ConnectEstablished
           /\ UNCHANGED <<outputVars, reading_, pending>>
        \/ /\ f = "connectDestroyed"
           /\ ConnectDestroyed
           /\ UNCHANGED <<outputVars, reading_, pending>>
        \/ /\ f = "forceCloseInLoop" /\ state_ \in {"kConnected", "kDisconnecting"}
           /\ HandleCloseThen(<<>>)
           /\ UNCHANGED <<outputVars, reading_, pending>>
        \/ /\ f = "forceCloseInLoop" /\ state_ \notin {"kConnected", "kDisconnecting"}
           /\ UNCHANGED <<connVars, outputVars, stack, pending, failed>>
        \/ /\ f \in {"writeComplete", "highWaterMark"}
           /\ stack' = <<"user">>
           /\ UNCHANGED <<connVars, outputVars, pending, failed>>
  /\ UNCHANGED <<inputVars, ownerVars, userVars, phase, batchRef>>

(* The vector of functors is destroyed, and the shared_ptrs in it. *)
DoneFunctors ==
  /\ phase = "functors" /\ stack = <<>> /\ batch = <<>>
  /\ phase' = "poll"
  /\ batchRef' = FALSE
  /\ UNCHANGED <<connVars, outputVars, inputVars, ownerVars, userVars, stack, batch,
                 pending, failed>>

------------------------------------------------------------------------------
(* The user, in the loop thread: in a callback of this connection, or in      *)
(* other code of the loop, with a shared_ptr kept from such a callback.       *)

UserInLoop ==
  /\ \/ stack # <<>> /\ Head(stack) = "user"
     \/ stack = <<>> /\ userRef /\ phase # "poll"
  /\ Len(pending) < MaxPending

Send(m) ==
  /\ "send" \in program.ops /\ UserInLoop
  /\ m \in program.messages \ sent
  /\ sent' = sent \cup {m}
  /\ \/ state_ = "kConnected" /\ SendInLoop(m)
     \/ /\ state_ # "kConnected"
        /\ UNCHANGED <<channelVars, outputBuffer_, space, wire, accepted, pending>>
  /\ UNCHANGED <<inputVars, loopVars, ownerVars, state_, reading_, finSent, userRef, ref,
                 call, called, delayed, failed>>

Shutdown ==
  /\ "shutdown" \in program.ops /\ UserInLoop
  /\ state_ = "kConnected"
  /\ state_' = "kDisconnecting"
  /\ ShutdownInLoop(IsWriting)
  /\ UNCHANGED <<channelVars, inputVars, loopVars, ownerVars, userVars, reading_,
                 outputBuffer_, space, wire, accepted, pending, failed>>

ForceClose ==
  /\ "forceClose" \in program.ops /\ UserInLoop
  /\ state_ \in {"kConnected", "kDisconnecting"}
  /\ state_' = "kDisconnecting"
  /\ pending' = Append(pending, Functor("forceCloseInLoop"))
  /\ UNCHANGED <<channelVars, outputVars, inputVars, loopVars, ownerVars, userVars,
                 reading_, failed>>

ForceCloseWithDelay ==
  /\ "forceCloseWithDelay" \in program.ops /\ UserInLoop
  /\ state_ \in {"kConnected", "kDisconnecting"}
  /\ state_' = "kDisconnecting"
  /\ delayed' = TRUE
  /\ UNCHANGED <<channelVars, outputVars, inputVars, loopVars, ownerVars, reading_,
                 pending, userRef, ref, call, sent, called, failed>>

(* The timer of forceCloseWithDelay: a weak callback to forceClose. *)
DelayExpires ==
  /\ delayed /\ phase = "events" /\ stack = <<>>
  /\ delayed' = FALSE
  /\ IF Alive /\ state_ \in {"kConnected", "kDisconnecting"}
     THEN /\ state_' = "kDisconnecting"
          /\ pending' = Append(pending, Functor("forceCloseInLoop"))
     ELSE UNCHANGED <<state_, pending>>
  /\ UNCHANGED <<channelVars, outputVars, inputVars, loopVars, ownerVars, reading_,
                 userRef, ref, call, sent, called, failed>>

StartRead ==
  /\ "startRead" \in program.ops /\ UserInLoop
  /\ StartReadInLoop
  /\ UNCHANGED <<outputVars, inputVars, loopVars, ownerVars, userVars, state_, pending,
                 failed>>

StopRead ==
  /\ "stopRead" \in program.ops /\ UserInLoop
  /\ StopReadInLoop
  /\ UNCHANGED <<outputVars, inputVars, loopVars, ownerVars, userVars, state_, pending,
                 failed>>

(* The connection callback stores a shared_ptr, for the loop or for a thread. *)
KeepRef ==
  /\ stack # <<>> /\ Head(stack) = "user" /\ state_ = "kConnected"
  /\ \/ program.ops # {} /\ userRef' = TRUE /\ UNCHANGED ref
     \/ \E t \in Threads : ref' = [ref EXCEPT ![t] = TRUE] /\ UNCHANGED userRef
  /\ UNCHANGED <<connVars, outputVars, inputVars, loopVars, ownerVars, pending, call, sent,
                 called, delayed, failed>>

DropRef ==
  /\ \/ userRef /\ userRef' = FALSE /\ UNCHANGED ref
     \/ \E t \in Threads : /\ ref[t] /\ call[t] = <<>>
                           /\ ref' = [ref EXCEPT ![t] = FALSE]
                           /\ UNCHANGED userRef
  /\ UNCHANGED <<connVars, outputVars, inputVars, loopVars, ownerVars, pending, call, sent,
                 called, delayed, failed>>

------------------------------------------------------------------------------
(* The user, in another thread that holds a shared_ptr.                      *)

StateAllows(op) ==
  CASE op \in {"send", "shutdown"} -> state_ = "kConnected"
    [] op \in {"forceClose", "forceCloseWithDelay"} -> state_ \in {"kConnected", "kDisconnecting"}
    [] OTHER -> TRUE

SetsState == {"shutdown", "forceClose", "forceCloseWithDelay"}

(* The functor each call binds, with a raw this or a shared_ptr. *)
FunctorOf == [send |-> "sendInLoop", shutdown |-> "shutdownInLoop",
              forceClose |-> "forceCloseInLoop",
              startRead |-> "startReadInLoop", stopRead |-> "stopReadInLoop"]

(* The test of state_ at the beginning of the call.  Bound: a thread calls an *)
(* operation other than send once.                                            *)
ThreadCalls(t, op) ==
  /\ ref[t] /\ call[t] = <<>>
  /\ Len(pending) < MaxPending
  /\ StateAllows(op)
  /\ \/ /\ op = "send"
        /\ \E m \in program.messages \ sent :
             call' = [call EXCEPT ![t] = <<op, m>>] /\ sent' = sent \cup {m}
        /\ UNCHANGED called
     \/ /\ op # "send" /\ <<t, op>> \notin called
        /\ call' = [call EXCEPT ![t] = <<op, "called">>]
        /\ called' = called \cup {<<t, op>>}
        /\ UNCHANGED sent
  /\ UNCHANGED <<connVars, outputVars, inputVars, loopVars, ownerVars, pending, userRef,
                 ref, delayed, failed>>

ThreadSetsState(t) ==
  /\ call[t] \in {<<op, "called">> : op \in SetsState}
  /\ state_' = "kDisconnecting"
  /\ call' = [call EXCEPT ![t][2] = "set"]
  /\ UNCHANGED <<channelVars, outputVars, inputVars, loopVars, ownerVars, reading_,
                 pending, userRef, ref, sent, called, delayed, failed>>

(* runInLoop or queueInLoop, or runAfter. *)
ThreadQueues(t) ==
  /\ call[t] # <<>>
  /\ call[t][1] \in SetsState => call[t][2] = "set"
  /\ call' = [call EXCEPT ![t] = <<>>]
  /\ IF call[t][1] = "forceCloseWithDelay"
     THEN delayed' = TRUE /\ UNCHANGED pending
     ELSE /\ pending' = Append(pending, [name |-> FunctorOf[call[t][1]], message |-> call[t][2]])
          /\ UNCHANGED delayed
  /\ UNCHANGED <<connVars, outputVars, inputVars, loopVars, ownerVars, userRef, ref, sent,
                 called, failed>>

------------------------------------------------------------------------------
(* The peer and the kernel, while the socket is open.                        *)

Open == state_ # "none" /\ Alive

PeerSends ==
  /\ Open /\ ~peerFin /\ ~reset
  /\ input' = TRUE
  /\ UNCHANGED <<connVars, outputVars, loopVars, ownerVars, userVars, peerFin, reset,
                 sockErr, pending, failed>>

PeerCloses ==
  /\ Open /\ ~reset
  /\ peerFin' = TRUE
  /\ UNCHANGED <<connVars, outputVars, loopVars, ownerVars, userVars, input, reset,
                 sockErr, pending, failed>>

PeerResets ==
  /\ Open /\ ~reset
  /\ reset' = TRUE
  /\ sockErr' = TRUE
  /\ UNCHANGED <<connVars, outputVars, loopVars, ownerVars, userVars, input, peerFin,
                 pending, failed>>

PeerReceives ==
  /\ Open /\ ~space
  /\ space' = TRUE
  /\ UNCHANGED <<connVars, inputVars, loopVars, ownerVars, userVars, outputBuffer_,
                 finSent, wire, accepted, pending, failed>>

==============================================================================
