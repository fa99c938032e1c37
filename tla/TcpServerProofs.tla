--------------------------- MODULE TcpServerProofs ---------------------------
(***************************************************************************)
(* Output keeps its order: OutputInOrder for any programs, threads and     *)
(* messages.  Most steps leave the output alone (Quiet); sendInLoop and    *)
(* handleWrite are the ones that move it.  Then the life of a connection:  *)
(* NoAssertFails and DestroyedClean for any disciplined programs.          *)
(***************************************************************************)
EXTENDS TcpServer, SequenceTheorems, TLAPS

Unit == Messages \X (1 .. MessageLength)

(* What is written and buffered is all that was accepted, unless a direct      *)
(* write failed: then the socket takes nothing more, and nothing is buffered,  *)
(* so that later output is dropped in the same way.                            *)
OutputOK ==
  /\ wire \in Seq(Unit) /\ outputBuffer_ \in Seq(Unit) /\ accepted \in Seq(Unit)
  /\ IsWriting => outputBuffer_ # <<>>
  /\ \/ accepted = wire \o outputBuffer_
     \/ /\ Broken /\ outputBuffer_ = <<>>
        /\ Len(wire) <= Len(accepted)
        /\ wire = SubSeq(accepted, 1, Len(wire))

(* The functors that are queued: a sendInLoop has a message. *)
FunctorSet ==
  {f \in [name : RawFunctors \cup StrongFunctors, message : Messages \cup {<<>>, "called", "set"}] :
     f.name = "sendInLoop" => f.message \in Messages}

(* The calls that other threads are in: a send has a message. *)
CallOK ==
  /\ call = [t \in Threads |-> call[t]]
  /\ \A t \in Threads : call[t] # <<>> =>
       /\ call[t][1] \in Operations
       /\ call[t][2] \in Messages \cup {"called", "set"}
       /\ call[t][1] = "send" => call[t][2] \in Messages

QueuesOK ==
  /\ program \in Programs
  /\ pending \in Seq(FunctorSet)
  /\ batch \in Seq(FunctorSet)
  /\ CallOK

(* The inductive invariant. *)
IInv == OutputOK /\ QueuesOK

-----------------------------------------------------------------------------
(* Facts on sequences. *)
LEMMA SameElements ==
  ASSUME NEW S, NEW s \in Seq(S), NEW t \in Seq(S), Len(s) = Len(t),
         \A i \in 1 .. Len(s) : s[i] = t[i]
  PROVE  s = t
  OBVIOUS

(* The end of s, and its beginning and end together. *)
LEMMA Parts ==
  ASSUME NEW S, NEW s \in Seq(S), NEW n \in 0 .. Len(s)
  PROVE  /\ SubSeq(s, 1, n) \in Seq(S) /\ Len(SubSeq(s, 1, n)) = n
         /\ SubSeq(s, n + 1, Len(s)) \in Seq(S) /\ Len(SubSeq(s, n + 1, Len(s))) = Len(s) - n
         /\ SubSeq(s, 1, n) \o SubSeq(s, n + 1, Len(s)) = s
<1> DEFINE u == SubSeq(s, 1, n)
           v == SubSeq(s, n + 1, Len(s))
<1>1. u \in Seq(S) /\ Len(u) = n /\ \A i \in 1 .. n : u[i] = s[i]
  OBVIOUS
<1>2. /\ v \in Seq(S) /\ Len(v) = Len(s) - n
      /\ \A i \in 1 .. Len(s) - n : v[i] = s[n + i]
  OBVIOUS
<1> HIDE DEF u, v
<1>3. /\ u \o v \in Seq(S) /\ Len(u \o v) = Len(s)
      /\ \A i \in 1 .. Len(s) : (u \o v)[i] = IF i <= n THEN u[i] ELSE v[i - n]
  BY <1>1, <1>2
<1>4. ASSUME NEW i \in 1 .. Len(s) PROVE (u \o v)[i] = s[i]
  <2>0. n \in Nat /\ Len(s) \in Nat /\ i \in Nat
    OBVIOUS
  <2>1. CASE i <= n
    BY <1>1, <1>3, <2>1
  <2>2. CASE ~(i <= n)
    <3>1. i - n \in 1 .. Len(s) - n /\ n + (i - n) = i
      BY <2>0, <2>2
    <3> QED
      BY <1>2, <1>3, <2>2, <3>1
  <2> QED
    BY <2>1, <2>2, Zenon
<1>5. u \o v = s
  BY <1>3, <1>4, SameElements, Zenon
<1> QED
  BY <1>1, <1>2, <1>5, Zenon DEF u, v

LEMMA Associative ==
  ASSUME NEW S
  PROVE  \A s, t, u \in Seq(S) : (s \o t) \o u = s \o (t \o u)
<1> TAKE s, t, u \in Seq(S)
<1>1. /\ (s \o t) \o u \in Seq(S) /\ s \o (t \o u) \in Seq(S)
      /\ Len((s \o t) \o u) = Len(s) + Len(t) + Len(u)
      /\ Len(s \o (t \o u)) = Len(s) + Len(t) + Len(u)
      /\ \A i \in 1 .. Len(s) + Len(t) + Len(u) : ((s \o t) \o u)[i] = (s \o (t \o u))[i]
  OBVIOUS
<1> QED
  BY <1>1, SameElements

(* A sequence is a prefix of itself with something behind it. *)
LEMMA PrefixStays ==
  ASSUME NEW S, NEW s \in Seq(S), NEW t \in Seq(S), NEW u \in Seq(S),
         Len(s) <= Len(t), s = SubSeq(t, 1, Len(s))
  PROVE  Len(s) <= Len(t \o u) /\ s = SubSeq(t \o u, 1, Len(s))
<1>1. /\ Len(t \o u) = Len(t) + Len(u) /\ t \o u \in Seq(S)
      /\ \A i \in 1 .. Len(t) : (t \o u)[i] = t[i]
  OBVIOUS
<1>2. \A i \in 1 .. Len(s) : s[i] = t[i]
  OBVIOUS
<1> DEFINE w == SubSeq(t \o u, 1, Len(s))
<1>3. w \in Seq(S) /\ Len(w) = Len(s) /\ \A i \in 1 .. Len(s) : w[i] = (t \o u)[i]
  BY <1>1
<1> HIDE DEF w
<1>4. s = w
  BY <1>1, <1>2, <1>3, SameElements, SMTT(60)
<1> QED
  BY <1>1, <1>4 DEF w

(* The units of a message are a sequence. *)
LEMMA UnitsLemma ==
  ASSUME NEW m \in Messages
  PROVE  Units(m) \in Seq(Unit) /\ Len(Units(m)) = MessageLength
<1>1. MessageLength \in Nat
  BY ConnectionAssumption
<1>2. Units(m) \in [1 .. MessageLength -> Unit]
  BY DEF Units, Unit
<1> QED
  BY <1>1, <1>2

-----------------------------------------------------------------------------
(* The steps that leave the output alone. *)
Quiet ==
  /\ UNCHANGED <<wire, outputBuffer_, accepted>>
  /\ IsWriting' => IsWriting
  /\ Broken => Broken'

LEMMA QuietStep ==
  ASSUME OutputOK, Quiet
  PROVE  OutputOK'
<1>1. (IsWriting => outputBuffer_ # <<>>)'
  BY DEF OutputOK, Quiet
<1>2. wire' = wire /\ outputBuffer_' = outputBuffer_ /\ accepted' = accepted
  BY DEF Quiet
<1>3. CASE accepted = wire \o outputBuffer_
  BY <1>1, <1>2, <1>3 DEF OutputOK
<1>4. CASE accepted # wire \o outputBuffer_
  BY <1>1, <1>2, <1>4 DEF OutputOK, Quiet
<1> QED
  BY <1>3, <1>4

(* sendInLoop appends the message behind what is written and buffered, or      *)
(* drops it when the socket takes nothing more.                                *)
LEMMA SendStep ==
  ASSUME OutputOK, NEW m \in Messages, SendInLoop(m), UNCHANGED <<finSent, reset>>
  PROVE  OutputOK'
<1> DEFINE u == Units(m)
<1>1. CASE state_ = "kDisconnected"
  <2>1. Quiet
    BY <1>1 DEF SendInLoop, Quiet, IsWriting, Broken, channelVars
  <2> QED
    BY <2>1, QuietStep
<1>2. CASE state_ # "kDisconnected"
  <2>1. u \in Seq(Unit) /\ Len(u) = MessageLength /\ MessageLength \in Nat
    BY UnitsLemma, ConnectionAssumption
  <2>2. Broken' = Broken
    BY DEF Broken
  <2>3. PICK n \in IF NothingBuffered THEN CanWrite(MessageLength) ELSE {0} :
          LET rest == IF NothingBuffered /\ Broken
                      THEN <<>> ELSE SubSeq(u, n + 1, MessageLength)
          IN  /\ wire' = wire \o SubSeq(u, 1, n)
              /\ outputBuffer_' = outputBuffer_ \o rest
              /\ IF rest # <<>> /\ ~IsWriting THEN EnableWriting ELSE UNCHANGED channelVars
    BY <1>2, Zenon DEF SendInLoop
  <2>4. n \in 0 .. MessageLength
    BY <2>1, <2>3 DEF CanWrite
  <2>5. accepted' = accepted \o u
    BY <1>2, Zenon DEF SendInLoop
  <2> DEFINE rest == IF NothingBuffered /\ Broken THEN <<>> ELSE SubSeq(u, n + 1, MessageLength)
             head == SubSeq(u, 1, n)
             tail == SubSeq(u, n + 1, MessageLength)
  <2>6. head \in Seq(Unit) /\ tail \in Seq(Unit) /\ head \o tail = u
    BY <2>1, <2>4, Parts
  <2>7. /\ wire' = wire \o head
        /\ outputBuffer_' = outputBuffer_ \o rest
        /\ IF rest # <<>> /\ ~IsWriting THEN EnableWriting ELSE UNCHANGED channelVars
    BY <2>3
  <2>8. rest \in Seq(Unit)
    BY <2>6
  <2> HIDE DEF u, head, tail, rest
  <2>9. (IsWriting => outputBuffer_ # <<>>)'
    <3>1. CASE rest # <<>>
      <4>1. outputBuffer_' # <<>>
        BY <2>7, <2>8, <3>1 DEF OutputOK
      <4> QED
        BY <4>1
    <3>2. CASE rest = <<>>
      <4>1. outputBuffer_' = outputBuffer_ /\ events_' = events_
        BY <2>7, <3>2 DEF OutputOK, channelVars
      <4> QED
        BY <4>1 DEF OutputOK, IsWriting
    <3> QED
      BY <3>1, <3>2
  <2>10. wire' \in Seq(Unit) /\ outputBuffer_' \in Seq(Unit) /\ accepted' \in Seq(Unit)
    BY <2>1, <2>5, <2>6, <2>7, <2>8 DEF OutputOK
  <2>11. CASE NothingBuffered /\ Broken
    <3>1. n = 0 /\ rest = <<>> /\ outputBuffer_ = <<>>
      BY <2>3, <2>11 DEF CanWrite, NothingBuffered, rest
    <3>2. head = <<>>
      BY <2>1, <3>1 DEF head
    <3>3. wire' = wire /\ outputBuffer_' = <<>>
      BY <2>7, <3>1, <3>2 DEF OutputOK
    <3>4. Len(wire) <= Len(accepted) /\ wire = SubSeq(accepted, 1, Len(wire))
      BY <3>1 DEF OutputOK
    <3>5. Len(wire) <= Len(accepted \o u) /\ wire = SubSeq(accepted \o u, 1, Len(wire))
      BY <2>1, <3>4, PrefixStays DEF OutputOK
    <3> QED
      BY <2>2, <2>5, <2>9, <2>10, <2>11, <3>3, <3>5, Zenon DEF OutputOK
  <2>12. CASE ~(NothingBuffered /\ Broken)
    <3>1. accepted = wire \o outputBuffer_
      BY <2>12 DEF OutputOK, NothingBuffered
    <3>2. rest = tail
      BY <2>12, Zenon DEF rest, tail
    <3>3. CASE NothingBuffered
      <4>1. outputBuffer_ = <<>> /\ accepted = wire
        BY <3>1, <3>3 DEF NothingBuffered, OutputOK
      <4>2. wire' \o outputBuffer_' = (wire \o head) \o tail
        BY <2>6, <2>7, <3>2, <4>1
      <4>3. (wire \o head) \o tail = wire \o u
        <5>1. wire \in Seq(Unit) /\ head \in Seq(Unit) /\ tail \in Seq(Unit)
          BY <2>6 DEF OutputOK
        <5>2. (wire \o head) \o tail = wire \o (head \o tail)
          BY <5>1, Associative
        <5> QED
          BY <2>6, <5>2
      <4> QED
        BY <2>5, <2>9, <2>10, <4>1, <4>2, <4>3 DEF OutputOK
    <3>4. CASE ~NothingBuffered
      <4>1. n = 0
        BY <2>3, <3>4
      <4>2. head = <<>> /\ tail = u
        BY <2>1, <2>6, <4>1 DEF head
      <4>3. wire' = wire /\ outputBuffer_' = outputBuffer_ \o u
        BY <2>7, <3>2, <4>2 DEF OutputOK
      <4>4. wire \o (outputBuffer_ \o u) = (wire \o outputBuffer_) \o u
        <5>1. wire \in Seq(Unit) /\ outputBuffer_ \in Seq(Unit) /\ u \in Seq(Unit)
          BY <2>1 DEF OutputOK
        <5>2. \A s, t, v \in Seq(Unit) : (s \o t) \o v = s \o (t \o v)
          BY Associative
        <5> QED
          BY <5>1, <5>2, Zenon
      <4> QED
        BY <2>5, <2>9, <2>10, <3>1, <4>3, <4>4 DEF OutputOK
    <3> QED
      BY <3>3, <3>4
  <2> QED
    BY <2>11, <2>12
<1> QED
  BY <1>1, <1>2

(* handleWrite moves the beginning of the buffer to the socket. *)
LEMMA WriteMoves ==
  ASSUME OutputOK, HandleWrite, IsWriting, ~Broken, space
  PROVE  /\ wire' \in Seq(Unit) /\ outputBuffer_' \in Seq(Unit)
         /\ accepted' = accepted /\ accepted = wire' \o outputBuffer_'
<1>1. PICK n \in 1 .. Len(outputBuffer_) :
        /\ wire' = wire \o SubSeq(outputBuffer_, 1, n)
        /\ outputBuffer_' = SubSeq(outputBuffer_, n + 1, Len(outputBuffer_))
  BY Zenon DEF HandleWrite, Retrieved
<1> DEFINE head == SubSeq(outputBuffer_, 1, n)
           tail == SubSeq(outputBuffer_, n + 1, Len(outputBuffer_))
<1>2. wire \in Seq(Unit) /\ outputBuffer_ \in Seq(Unit)
  BY DEF OutputOK
<1>3. n \in 0 .. Len(outputBuffer_)
  BY <1>2
<1>4. head \in Seq(Unit) /\ tail \in Seq(Unit) /\ head \o tail = outputBuffer_
  BY <1>2, <1>3, Parts
<1>5. wire' = wire \o head /\ outputBuffer_' = tail
  BY <1>1
<1> HIDE DEF head, tail
<1>6. wire' \o outputBuffer_' = wire \o outputBuffer_
  <2>1. \A s, t, u \in Seq(Unit) : (s \o t) \o u = s \o (t \o u)
    BY Associative, SMTT(60)
  <2>2. (wire \o head) \o tail = wire \o (head \o tail)
    BY <1>2, <1>4, <2>1, ZenonT(60)
  <2> QED
    BY <1>4, <1>5, <2>2
<1>7. accepted = wire \o outputBuffer_ /\ accepted' = accepted
  BY DEF OutputOK, HandleWrite
<1> QED
  BY <1>2, <1>4, <1>5, <1>6, <1>7

LEMMA WriteStep ==
  ASSUME OutputOK, HandleWrite
  PROVE  OutputOK'
<1>1. UNCHANGED <<accepted, reset>>
  BY DEF HandleWrite, inputVars
<1>2. CASE ~IsWriting \/ Broken \/ ~space
  <2>1. Quiet
    BY <1>1, <1>2 DEF HandleWrite, Quiet, IsWriting, Broken, channelVars
  <2> QED
    BY <2>1, QuietStep
<1>3. CASE IsWriting /\ ~Broken /\ space
  <2>1. (IsWriting => outputBuffer_ # <<>>)'
    <3>1. CASE outputBuffer_' = <<>>
      <4>1. events_' = events_ \ {"W"}
        BY <1>3, <3>1, Zenon DEF HandleWrite, UpdateChannel
      <4> QED
        BY <4>1 DEF IsWriting
    <3> QED
      BY <3>1
  <2> QED
    BY <1>3, <2>1, WriteMoves DEF OutputOK
<1> QED
  BY <1>2, <1>3 DEF HandleWrite

(* The other handlers of the loop. *)
LEMMA HandlersQuiet ==
  ASSUME HandleClose \/ HandleError \/ HandleRead \/ ChannelRemove \/ UserReturns
  PROVE  Quiet
<1>1. CASE HandleClose
  BY <1>1
     DEF HandleClose, HandleCloseThen, UpdateChannel, Quiet, IsWriting, Broken, outputVars,
              inputVars
<1>2. CASE HandleError
  BY <1>2 DEF HandleError, Quiet, IsWriting, Broken, outputVars, connVars, channelVars
<1>3. CASE HandleRead
  BY <1>3
     DEF HandleRead, HandleCloseThen, UpdateChannel, Quiet, IsWriting, Broken, outputVars,
              channelVars
<1>4. CASE ChannelRemove
  BY <1>4 DEF ChannelRemove, RemoveChannel, Quiet, IsWriting, Broken, outputVars, inputVars
<1>5. CASE UserReturns
  BY <1>5
     DEF UserReturns, Quiet, IsWriting, Broken, outputVars, inputVars, connVars, channelVars
<1> QED
  BY <1>1, <1>2, <1>3, <1>4, <1>5

(* The loop itself, the server and the peer. *)
LEMMA LoopQuiet ==
  ASSUME PollReturn \/ SwapPending \/ DoneFunctors \/ DelayExpires \/ CloseCallback
  PROVE  Quiet
<1> USE DEF Quiet, IsWriting, Broken, outputVars, inputVars, connVars, channelVars
<1>1. CASE PollReturn
  BY <1>1 DEF PollReturn
<1>2. CASE SwapPending
  BY <1>2 DEF SwapPending
<1>3. CASE DoneFunctors
  BY <1>3 DEF DoneFunctors
<1>4. CASE DelayExpires
  BY <1>4 DEF DelayExpires
<1>5. CASE CloseCallback
  BY <1>5 DEF CloseCallback
<1> QED
  BY <1>1, <1>2, <1>3, <1>4, <1>5

LEMMA OwnerQuiet ==
  ASSUME NewConnection \/ BaseLoopRuns \/ DestroyServer \/ PeerStep \/ Drain
  PROVE  Quiet
<1> USE DEF Quiet, IsWriting, Broken, outputVars, inputVars, connVars, channelVars
<1>1. CASE NewConnection
  BY <1>1 DEF NewConnection, UpdateChannel
<1>2. CASE BaseLoopRuns
  BY <1>2 DEF BaseLoopRuns
<1>3. CASE DestroyServer
  BY <1>3 DEF DestroyServer, ConnectDestroyed, UpdateChannel, RemoveChannel
<1>4. CASE PeerStep
  BY <1>4 DEF PeerStep, PeerSends, PeerCloses, PeerResets
<1>5. CASE Drain
  BY <1>5 DEF Drain, PeerReceives
<1> QED
  BY <1>1, <1>2, <1>3, <1>4, <1>5

(* The user, except for send in the loop thread. *)
LEMMA UserQuiet ==
  ASSUME \/ Shutdown \/ ForceClose \/ ForceCloseWithDelay \/ StartRead \/ StopRead \/ KeepRef
         \/ DropRef
         \/ \E t \in Threads :
              \/ \E op \in program.threadOps : ThreadCalls(t, op)
              \/ ThreadSetsState(t) \/ ThreadQueues(t)
  PROVE  Quiet
<1> USE DEF Quiet, IsWriting, Broken, outputVars, inputVars, connVars, channelVars
<1>1. CASE Shutdown
  BY <1>1, Zenon DEF Shutdown, ShutdownInLoop
<1>2. CASE ForceClose \/ ForceCloseWithDelay
  <2>1. CASE ForceClose
    BY <2>1, Zenon DEF ForceClose
  <2>2. CASE ForceCloseWithDelay
    BY <2>2, Zenon DEF ForceCloseWithDelay
  <2> QED
    BY <1>2, <2>1, <2>2
<1>3. CASE StartRead
  BY <1>3 DEF StartRead, StartReadInLoop, UpdateChannel
<1>4. CASE StopRead
  BY <1>4 DEF StopRead, StopReadInLoop, UpdateChannel
<1>5. CASE KeepRef \/ DropRef
  <2>1. CASE KeepRef
    BY <2>1, Zenon DEF KeepRef
  <2>2. CASE DropRef
    BY <2>2, Zenon DEF DropRef
  <2> QED
    BY <1>5, <2>1, <2>2
<1>6. ASSUME NEW t \in Threads, NEW op, ThreadCalls(t, op) PROVE Quiet
  BY <1>6 DEF ThreadCalls
<1>7. ASSUME NEW t \in Threads, ThreadSetsState(t) PROVE Quiet
  BY <1>7 DEF ThreadSetsState
<1>8. ASSUME NEW t \in Threads, ThreadQueues(t) PROVE Quiet
  BY <1>8 DEF ThreadQueues
<1> HIDE DEF Quiet, IsWriting, Broken
<1> QED
  BY <1>1, <1>2, <1>3, <1>4, <1>5, <1>6, <1>7, <1>8

(* A functor of the batch: sendInLoop with a message, or one that is quiet. *)
LEMMA FunctorStep ==
  ASSUME OutputOK, batch \in Seq(FunctorSet), RunFunctor
  PROVE  OutputOK'
<1> DEFINE f == Head(batch).name
<1>1. Head(batch) \in FunctorSet
  BY DEF RunFunctor
<1>2. UNCHANGED <<input, peerFin, reset, sockErr>>
  BY DEF RunFunctor, inputVars
<1>3. CASE f = "sendInLoop" /\ SendInLoop(Head(batch).message) /\ UNCHANGED finSent
  <2>1. Head(batch).message \in Messages
    BY <1>1, <1>3 DEF FunctorSet
  <2> QED
    BY <1>2, <1>3, <2>1, SendStep
<1>4. CASE ~(f = "sendInLoop" /\ SendInLoop(Head(batch).message) /\ UNCHANGED finSent)
  <2> USE DEF Quiet, IsWriting, Broken, outputVars, connVars, channelVars
  <2>1. CASE f = "shutdownInLoop" /\ ShutdownInLoop(IsWriting)
             /\ UNCHANGED <<connVars, outputBuffer_, space, wire, accepted>>
    <3>1. Quiet
      BY <1>2, <2>1, Zenon DEF ShutdownInLoop
    <3> QED
      BY <3>1, QuietStep
  <2>2. CASE (StartReadInLoop \/ StopReadInLoop) /\ UNCHANGED outputVars
    <3>1. Quiet
      BY <1>2, <2>2 DEF StartReadInLoop, StopReadInLoop, UpdateChannel
    <3> QED
      BY <3>1, QuietStep
  <2>3. CASE (ConnectEstablished \/ ConnectDestroyed \/ HandleCloseThen(<<>>))
             /\ UNCHANGED outputVars
    <3>1. Quiet
      BY <1>2, <2>3
         DEF ConnectEstablished, ConnectDestroyed, HandleCloseThen, UpdateChannel,
                        RemoveChannel
    <3> QED
      BY <3>1, QuietStep
  <2>4. CASE UNCHANGED <<connVars, outputVars>>
    <3>1. Quiet
      BY <1>2, <2>4
    <3> QED
      BY <3>1, QuietStep
  <2> HIDE DEF Quiet, IsWriting, Broken
  <2> QED
    BY <1>4, <2>1, <2>2, <2>3, <2>4 DEF RunFunctor
<1> QED
  BY <1>3, <1>4

-----------------------------------------------------------------------------
(* The queues.  QuietNames are the functors without a message. *)
QuietNames == (RawFunctors \cup StrongFunctors) \ {"sendInLoop"}

LEMMA Queued ==
  ASSUME NEW q \in Seq(FunctorSet), NEW x \in QuietNames
  PROVE  /\ Functor(x) \in FunctorSet
         /\ Append(q, Functor(x)) \in Seq(FunctorSet)
         /\ q \o <<Functor(x)>> \in Seq(FunctorSet)
<1>1. Functor(x) \in FunctorSet
  BY DEF Functor, FunctorSet, QuietNames
<1> QED
  BY <1>1

LEMMA NamesQuiet ==
  {"connectEstablished", "connectDestroyed", "forceCloseInLoop", "writeComplete",
   "highWaterMark"} \subseteq QuietNames
  BY DEF QuietNames, StrongFunctors

(* sendInLoop queues callbacks only. *)
LEMMA SendQueues ==
  ASSUME NEW m, pending \in Seq(FunctorSet), SendInLoop(m)
  PROVE  pending' \in Seq(FunctorSet)
<1>1. CASE pending' = pending
  BY <1>1
<1>2. CASE \E a, b \in {<<>>, <<Functor("writeComplete")>>, <<Functor("highWaterMark")>>} :
             pending' = pending \o a \o b
  <2>1. {<<>>, <<Functor("writeComplete")>>, <<Functor("highWaterMark")>>} \subseteq Seq(FunctorSet)
    BY Queued, NamesQuiet
  <2>2. PICK a, b \in Seq(FunctorSet) : pending' = (pending \o a) \o b
    BY <1>2, <2>1, Zenon
  <2>3. pending \o a \in Seq(FunctorSet)
    OBVIOUS
  <2> QED
    BY <2>2, <2>3
<1> QED
  BY <1>1, <1>2, Zenon DEF SendInLoop

(* What the steps of the loop thread, the server and the peer do to the queues. *)
LEMMA LoopQueues ==
  ASSUME QueuesOK, \/ (HandlerStep \/ PollReturn \/ SwapPending \/ RunFunctor \/ DoneFunctors
                        \/ DelayExpires) /\ UNCHANGED fixed
                   \/ CloseCallback \/ NewConnection \/ BaseLoopRuns \/ DestroyServer
                   \/ PeerStep \/ Drain
  PROVE  QueuesOK'
<1>0. /\ pending \in Seq(FunctorSet) /\ batch \in Seq(FunctorSet)
      /\ \A x \in QuietNames : Append(pending, Functor(x)) \in Seq(FunctorSet)
  BY Queued DEF QueuesOK
<1>1. UNCHANGED <<program, call>>
  BY Zenon
  DEF HandlerStep, HandleClose, HandleError, HandleRead, HandleWrite, ChannelRemove, UserReturns,
         PollReturn, SwapPending, RunFunctor, DoneFunctors, DelayExpires, CloseCallback,
         NewConnection, BaseLoopRuns, DestroyServer, PeerStep, PeerSends, PeerCloses, PeerResets,
         Drain, PeerReceives, userVars, fixed
<1>2. CASE UNCHANGED <<pending, batch>>
  BY <1>0, <1>1, <1>2 DEF QueuesOK, CallOK
<1>3. CASE (\E x \in QuietNames : pending' = Append(pending, Functor(x))) /\ UNCHANGED batch
  BY <1>0, <1>1, <1>3 DEF QueuesOK, CallOK
<1>4. CASE SwapPending
  <2>1. pending' \in Seq(FunctorSet) /\ batch' \in Seq(FunctorSet)
    BY <1>0, <1>4 DEF SwapPending
  <2> QED
    BY <1>1, <2>1 DEF QueuesOK, CallOK
<1>5. CASE RunFunctor
  <2>1. batch' \in Seq(FunctorSet)
    BY <1>0, <1>5 DEF RunFunctor
  <2>2. pending' = pending \/ SendInLoop(Head(batch).message)
    BY <1>5, Zenon DEF RunFunctor
  <2>3. pending' \in Seq(FunctorSet)
    BY <1>0, <2>2, SendQueues, ZenonT(60)
  <2> QED
    BY <1>1, <2>1, <2>3 DEF QueuesOK, CallOK
<1>6. CASE HandlerStep
  BY <1>2, <1>3, <1>6, NamesQuiet, Zenon
  DEF HandlerStep, HandleClose, HandleError, HandleRead, HandleWrite, ChannelRemove, UserReturns
<1>7. CASE PollReturn \/ DoneFunctors \/ DelayExpires
  BY <1>2, <1>3, <1>7, NamesQuiet, ZenonT(60)
     DEF PollReturn, DoneFunctors, DelayExpires, loopVars
<1>8. CASE CloseCallback \/ NewConnection \/ BaseLoopRuns \/ DestroyServer
  BY <1>2, <1>3, <1>8, NamesQuiet, Zenon
  DEF CloseCallback, NewConnection, BaseLoopRuns, DestroyServer, RemoveConnectionInLoop, loopVars
<1>9. CASE PeerStep \/ Drain
  BY <1>2, <1>9
     DEF PeerStep, PeerSends, PeerCloses, PeerResets, Drain, PeerReceives, loopVars
<1> QED
  BY <1>4, <1>5, <1>6, <1>7, <1>8, <1>9

(* The user in the loop thread, and shared_ptrs that are kept or dropped. *)
LEMMA UserQueues ==
  ASSUME QueuesOK, UNCHANGED fixed,
         \/ \E m \in Messages : Send(m)
         \/ Shutdown \/ ForceClose \/ ForceCloseWithDelay \/ StartRead \/ StopRead \/ KeepRef
         \/ DropRef
  PROVE  QueuesOK'
<1>1. UNCHANGED <<program, call, batch>>
  BY Zenon
     DEF Send, Shutdown, ForceClose, ForceCloseWithDelay, StartRead, StopRead, KeepRef, DropRef,
         userVars, loopVars, fixed
<1>2. pending \in Seq(FunctorSet)
  BY DEF QueuesOK
<1>3. \/ pending' = pending
      \/ pending' = Append(pending, Functor("forceCloseInLoop"))
      \/ \E m \in Messages : SendInLoop(m)
  BY Zenon
  DEF Send, Shutdown, ForceClose, ForceCloseWithDelay, StartRead, StopRead, KeepRef, DropRef
<1>4. pending' \in Seq(FunctorSet)
  BY <1>2, <1>3, SendQueues, Queued, NamesQuiet
<1> QED
  BY <1>1, <1>4 DEF QueuesOK, CallOK

(* The calls of other threads. *)
LEMMA ThreadsQueue ==
  ASSUME QueuesOK, UNCHANGED fixed, NEW t \in Threads,
         \/ \E op \in program.threadOps : ThreadCalls(t, op)
         \/ ThreadSetsState(t) \/ ThreadQueues(t)
  PROVE  QueuesOK'
<1>1. UNCHANGED <<program, batch>>
  BY Zenon DEF ThreadCalls, ThreadSetsState, ThreadQueues, loopVars, fixed
<1>2. /\ program.messages \subseteq Messages /\ program.threadOps \subseteq Operations
  BY ConnectionAssumption DEF QueuesOK
<1>3. ASSUME NEW op \in program.threadOps, ThreadCalls(t, op) PROVE QueuesOK'
  <2>1. PICK c : /\ call' = [call EXCEPT ![t] = c]
                 /\ \/ op = "send" /\ \E m \in program.messages : c = <<op, m>>
                    \/ op # "send" /\ c = <<op, "called">>
    BY <1>3, Zenon DEF ThreadCalls
  <2>2. /\ c[1] \in Operations
        /\ c[2] \in Messages \cup {"called", "set"}
        /\ c[1] = "send" => c[2] \in Messages
    BY <1>2, <2>1
  <2>3. CallOK'
    BY <2>1, <2>2, ZenonT(60) DEF QueuesOK, CallOK
  <2>4. pending' = pending
    BY <1>3, ZenonT(60) DEF ThreadCalls
  <2> QED
    BY <1>1, <2>3, <2>4 DEF QueuesOK
<1>4. CASE ThreadSetsState(t)
  <2>1. PICK op \in SetsState : call[t] = <<op, "called">>
    BY <1>4 DEF ThreadSetsState
  <2> DEFINE c == [call[t] EXCEPT ![2] = "set"]
  <2>2. call' = [call EXCEPT ![t] = c]
    BY <1>4 DEF ThreadSetsState
  <2>3. /\ c[1] \in Operations /\ c[1] # "send"
        /\ c[2] \in Messages \cup {"called", "set"}
    BY <2>1 DEF SetsState, Operations
  <2> HIDE DEF c
  <2>4. CallOK'
    BY <2>2, <2>3 DEF QueuesOK, CallOK
  <2>5. pending' = pending
    BY <1>4 DEF ThreadSetsState
  <2> QED
    BY <1>1, <2>4, <2>5 DEF QueuesOK
<1>5. CASE ThreadQueues(t)
  <2>1. /\ call[t] # <<>> /\ call' = [call EXCEPT ![t] = <<>>]
        /\ call[t][1] \in Operations
        /\ call[t][2] \in Messages \cup {"called", "set"}
        /\ call[t][1] = "send" => call[t][2] \in Messages
    BY <1>5 DEF ThreadQueues, QueuesOK, CallOK
  <2>2. CallOK'
    BY <2>1 DEF QueuesOK, CallOK
  <2>3. CASE call[t][1] = "forceCloseWithDelay"
    BY <1>1, <1>5, <2>2, <2>3 DEF ThreadQueues, QueuesOK
  <2>4. CASE call[t][1] # "forceCloseWithDelay"
    <3> DEFINE f == [name |-> FunctorOf[call[t][1]], message |-> call[t][2]]
    <3>1. /\ FunctorOf[call[t][1]] \in RawFunctors \cup StrongFunctors
          /\ FunctorOf[call[t][1]] = "sendInLoop" => call[t][1] = "send"
      <4>1. ASSUME NEW x \in Operations, x # "forceCloseWithDelay"
            PROVE  /\ FunctorOf[x] \in RawFunctors \cup StrongFunctors
                   /\ FunctorOf[x] = "sendInLoop" => x = "send"
        BY <4>1 DEF FunctorOf, Operations, RawFunctors, StrongFunctors
      <4> QED
        BY <2>1, <2>4, <4>1, Zenon
    <3>2. f \in FunctorSet
      BY <2>1, <3>1, ZenonT(60) DEF FunctorSet
    <3>3. pending' = Append(pending, f)
      BY <1>5, <2>4, Zenon DEF ThreadQueues
    <3> HIDE DEF f
    <3>4. pending' \in Seq(FunctorSet)
      BY <3>2, <3>3 DEF QueuesOK
    <3> QED
      BY <1>1, <2>2, <3>4, Zenon DEF QueuesOK
  <2> QED
    BY <2>3, <2>4
<1> QED
  BY <1>3, <1>4, <1>5

-----------------------------------------------------------------------------
LEMMA InitLemma == ServerInit => IInv
<1> SUFFICES ASSUME ServerInit PROVE IInv
  OBVIOUS
<1>1. OutputOK
  BY DEF ServerInit, Init, OutputOK, IsWriting
<1>2. CallOK
  BY DEF ServerInit, Init, CallOK
<1> QED
  BY <1>1, <1>2 DEF IInv, QueuesOK, ServerInit, Init

LEMMA StepLemma == IInv /\ [Next]_serverVars => IInv'
<1> SUFFICES ASSUME IInv, [Next]_serverVars PROVE IInv'
  OBVIOUS
<1>0. OutputOK /\ QueuesOK /\ batch \in Seq(FunctorSet)
  BY DEF IInv, QueuesOK
<1>1. CASE UNCHANGED serverVars
  <2>1. Quiet
    BY <1>1
       DEF serverVars, vars, outputVars, inputVars, connVars, channelVars, Quiet, IsWriting,
                Broken
  <2>2. UNCHANGED <<program, pending, batch, call>>
    BY <1>1 DEF serverVars, vars, loopVars, userVars
  <2>3. QueuesOK'
    BY <1>0, <2>2 DEF QueuesOK, CallOK
  <2> QED
    BY <1>0, <2>1, <2>3, QuietStep DEF IInv
<1>2. CASE NewConnection \/ BaseLoopRuns \/ DestroyServer \/ PeerStep \/ Drain
  BY <1>0, <1>2, OwnerQuiet, QuietStep, LoopQueues DEF IInv
<1>3. CASE LoopStep
  <2>1. QueuesOK'
    BY <1>0, <1>3, LoopQueues DEF LoopStep
  <2>2. OutputOK'
    BY <1>0, <1>3, HandlersQuiet, LoopQuiet, QuietStep, WriteStep, FunctorStep
    DEF LoopStep, HandlerStep
  <2> QED
    BY <2>1, <2>2 DEF IInv
<1>4. CASE UserStep \/ Releases
  <2>1. UNCHANGED fixed
    BY <1>4 DEF UserStep, Releases
  <2>2. ASSUME NEW m \in Messages, Send(m) PROVE IInv'
    <3>1. UNCHANGED <<finSent, reset>>
      BY <2>2 DEF Send, inputVars
    <3>2. OutputOK'
      <4>1. CASE SendInLoop(m)
        BY <1>0, <3>1, <4>1, SendStep
      <4>2. CASE UNCHANGED <<channelVars, outputBuffer_, space, wire, accepted, pending>>
        <5>1. Quiet
          BY <3>1, <4>2 DEF Quiet, IsWriting, Broken, channelVars
        <5> QED
          BY <1>0, <5>1, QuietStep
      <4> QED
        BY <2>2, <4>1, <4>2 DEF Send
    <3>3. QueuesOK'
      BY <1>0, <2>1, <2>2, UserQueues
    <3> QED
      BY <3>2, <3>3 DEF IInv
  <2>3. CASE \/ Shutdown \/ ForceClose \/ ForceCloseWithDelay \/ StartRead \/ StopRead \/ KeepRef
             \/ DropRef
    <3>1. Quiet
      BY <2>3, UserQuiet
    <3>2. QueuesOK'
      BY <1>0, <2>1, <2>3, UserQueues
    <3> QED
      BY <1>0, <3>1, <3>2, QuietStep DEF IInv
  <2>4. ASSUME NEW t \in Threads,
               \/ \E op \in program.threadOps : ThreadCalls(t, op)
               \/ ThreadSetsState(t) \/ ThreadQueues(t)
        PROVE  IInv'
    <3>1. Quiet
      BY <2>4, UserQuiet
    <3>2. QueuesOK'
      BY <1>0, <2>1, <2>4, ThreadsQueue
    <3> QED
      BY <1>0, <3>1, <3>2, QuietStep DEF IInv
  <2> QED
    BY <1>4, <2>2, <2>3, <2>4 DEF UserStep, Releases
<1> QED
  BY <1>1, <1>2, <1>3, <1>4 DEF Next

(* The inductive invariant holds of a connection from newConnection to its     *)
(* destruction, whatever the loop thread, other threads and the peer do.       *)
THEOREM Invariance == Spec => []IInv
  BY InitLemma, StepLemma, PTL DEF Spec

(* TcpConnection::sendInLoop and handleWrite neither reorder, repeat nor skip  *)
(* output, for messages of any length, any number of threads that send, any    *)
(* amounts that write() takes, and shutdowns and resets at any point.          *)
THEOREM OutputKeepsOrder == Spec => []OutputInOrder
<1>1. IInv => OutputInOrder
  <2> SUFFICES ASSUME OutputOK PROVE OutputInOrder
    BY DEF IInv
  <2>1. wire \in Seq(Unit) /\ outputBuffer_ \in Seq(Unit) /\ accepted \in Seq(Unit)
    BY DEF OutputOK
  <2>2. CASE accepted = wire \o outputBuffer_
    <3>1. accepted = SubSeq(accepted, 1, Len(accepted)) /\ Len(accepted) <= Len(accepted)
      BY <2>1
    <3> QED
      BY <2>2, <3>1 DEF OutputInOrder
  <2>3. CASE accepted # wire \o outputBuffer_
    <3>1. wire \o outputBuffer_ = wire
      BY <2>1, <2>3 DEF OutputOK
    <3> QED
      BY <2>3, <3>1 DEF OutputInOrder, OutputOK
  <2> QED
    BY <2>2, <2>3
<1> QED
  BY <1>1, Invariance, PTL

-----------------------------------------------------------------------------
(* The life of a connection: no assertion fails and ~TcpConnection finds the   *)
(* connection down and its channel removed, for disciplined programs.          *)

Names(queue) == {f.name : f \in Range(queue)}
QueuedNames == Names(pending) \cup Names(batch)

Items == {"user", "closeCallback", "channelRemove",
          "handleClose", "handleError", "handleRead", "handleWrite"}

Opened == state_ \in {"kConnected", "kDisconnecting"}

LifeTypes ==
  /\ state_ \in {"none", "kConnecting", "kConnected", "kDisconnecting", "kDisconnected"}
  /\ events_ \subseteq {"R", "W"}
  /\ index_ \in {"kNew", "kAdded", "kDeleted"}
  /\ stack \in Seq(Items)
  /\ phase = "poll" => stack = <<>>
  /\ phase # "functors" => batch = <<>>

(* What is queued, by the names of the functors, and what may still be queued. *)
Requests ==
  /\ QueuedNames \cap {"shutdownInLoop", "startReadInLoop", "stopReadInLoop"} = {}
  /\ "sendInLoop" \in QueuedNames => program.threadOps # {}
  /\ "forceCloseInLoop" \in QueuedNames =>
       program.ops \cap {"forceClose", "forceCloseWithDelay"} # {}
  /\ "connectDestroyed" \in QueuedNames => state_ = "kDisconnected"
  /\ "connectEstablished" \in QueuedNames => state_ = "kConnecting"
  /\ delayed => "forceCloseWithDelay" \in program.ops
  /\ \A t \in Threads : call[t] # <<>> => call[t][1] = "send" /\ program.threadOps # {}
  /\ Names(batch) \cap StrongFunctors # {} => batchRef

(* Before connectEstablished nobody has the connection but the server and the  *)
(* functor, of which there is one.                                             *)
Fresh ==
  state_ \in {"none", "kConnecting"} =>
    /\ stack = <<>> /\ ownerCalls = <<>>
    /\ events_ = {} /\ index_ = "kNew" /\ reading_
    /\ ~userRef /\ ~delayed
    /\ \A t \in Threads : ~ref[t] /\ call[t] = <<>>
    /\ state_ = "none" => pending = <<>> /\ batch = <<>> /\ ~owned
    /\ state_ = "kConnecting" =>
         /\ owned /\ ~program.sameLoop
         /\ QueuedNames \subseteq {"connectEstablished"}
         /\ pending = <<>> \/ batch = <<>>
         /\ Len(pending) <= 1 /\ Len(batch) <= 1

(* While it is open the server has it, and its channel is in the epoll         *)
(* instance exactly if it has events.                                          *)
OpenOK ==
  Opened =>
    /\ owned
    /\ reading_ <=> "R" \in events_
    /\ events_ # {} <=> index_ = "kAdded"
    /\ "stopRead" \notin program.ops => "R" \in events_
    /\ state_ = "kDisconnecting" => "destroyServer" \notin program.ops

(* Once it is down, its channel is disabled and something is left that will    *)
(* remove the channel, and that keeps the connection alive until then.         *)
ClosedOK ==
  state_ = "kDisconnected" =>
    /\ events_ = {}
    /\ index_ = "kAdded" => "channelRemove" \in Range(stack)
    /\ owned => "closeCallback" \in Range(stack) \/ ownerCalls # <<>>
    /\ \/ owned \/ ~addedToLoop_
       \/ "channelRemove" \in Range(stack) \/ "connectDestroyed" \in QueuedNames

OwnerOK ==
  /\ owned => serverAlive
  /\ ownerCalls # <<>> =>
       /\ ownerCalls = <<"removeConnectionInLoop">>
       /\ owned /\ ~program.sameLoop /\ state_ = "kDisconnected"

Closing == {"handleClose", "handleRead"}

(* What the loop thread has still to do: handleClose or handleRead only on an  *)
(* open connection whose channel is in the epoll instance, and before any user *)
(* code; the close callback once, after the connection callback.               *)
StackOK ==
  /\ Range(stack) \cap Closing # {} =>
       /\ Opened /\ index_ = "kAdded"
       /\ \/ Head(stack) \in Closing /\ Range(Tail(stack)) \cap Closing = {}
          \/ /\ Head(stack) = "handleError" /\ Tail(stack) # <<>> /\ Head(Tail(stack)) \in Closing
             /\ Range(Tail(Tail(stack))) \cap Closing = {}
  /\ "closeCallback" \in Range(stack) =>
       /\ state_ = "kDisconnected" /\ owned /\ ownerCalls = <<>>
       /\ \/ Head(stack) = "closeCallback" /\ "closeCallback" \notin Range(Tail(stack))
          \/ /\ Head(stack) = "user" /\ Tail(stack) # <<>> /\ Head(Tail(stack)) = "closeCallback"
             /\ "closeCallback" \notin Range(Tail(Tail(stack)))
  /\ "channelRemove" \in Range(stack) => state_ = "kDisconnected"

LifeInv ==
  /\ LifeTypes /\ Requests /\ Fresh /\ OpenOK /\ ClosedOK /\ OwnerOK /\ StackOK
  /\ NoAssertFails

(* What the invariant looks at. *)
lifeVars == <<state_, reading_, channelVars, loopVars, pending, ownerVars, userRef, ref, call,
              delayed, serverAlive, program, failed>>

(* Sequences as stacks and as queues. *)
LEMMA Pop ==
  ASSUME NEW S, NEW s \in Seq(S), s # <<>>
  PROVE  Head(s) \in S /\ Tail(s) \in Seq(S) /\ Range(s) = {Head(s)} \cup Range(Tail(s))
<1> DEFINE h == <<Head(s)>>
           t == Tail(s)
<1>1. Head(s) \in S /\ t \in Seq(S)
  OBVIOUS
<1>2. s = h \o t
  OBVIOUS
<1>3. h \in Seq(S) /\ Range(h) = {Head(s)}
  BY <1>1 DEF Range
<1> HIDE DEF h, t
<1>4. Range(h \o t) = Range(h) \cup Range(t)
  BY <1>1, <1>3, RangeConcatenation
<1> QED
  BY <1>1, <1>2, <1>3, <1>4, Zenon DEF t

LEMMA Push ==
  ASSUME NEW S, NEW s \in Seq(S), NEW x \in S
  PROVE  LET t == <<x>> \o s
         IN  t \in Seq(S) /\ t # <<>> /\ Head(t) = x /\ Tail(t) = s /\ Range(t) = {x} \cup Range(s)
<1> DEFINE t == <<x>> \o s
<1>1. t \in Seq(S) /\ Len(t) = Len(s) + 1 /\ t[1] = x /\ \A i \in 1 .. Len(s) : t[i + 1] = s[i]
  OBVIOUS
<1>2. t # <<>> /\ Head(t) = x
  BY <1>1
<1> HIDE DEF t
<1>3. Tail(t) \in Seq(S) /\ Len(Tail(t)) = Len(s) /\ \A i \in 1 .. Len(s) : Tail(t)[i] = s[i]
  BY <1>1, <1>2
<1>4. Tail(t) = s
  BY <1>3, SameElements
<1> QED
  BY <1>1, <1>2, <1>4, Pop, ZenonT(60) DEF t

LEMMA PushTwo ==
  ASSUME NEW S, NEW s \in Seq(S), NEW x \in S, NEW y \in S
  PROVE  LET t == <<x, y>> \o s
         IN  /\ t \in Seq(S) /\ t # <<>> /\ Head(t) = x
             /\ Tail(t) # <<>> /\ Head(Tail(t)) = y /\ Tail(Tail(t)) = s
             /\ Range(t) = {x, y} \cup Range(s)
<1> DEFINE u == <<y>> \o s
<1>1. <<x, y>> \o s = <<x>> \o u
  <2>1. <<x, y>> \o s \in Seq(S) /\ <<x>> \o u \in Seq(S)
        /\ Len(<<x, y>> \o s) = Len(s) + 2 /\ Len(<<x>> \o u) = Len(s) + 2
        /\ \A i \in 1 .. Len(s) + 2 : (<<x, y>> \o s)[i] = (<<x>> \o u)[i]
    OBVIOUS
  <2> QED
    BY <2>1, SameElements, Zenon
<1>2. u \in Seq(S) /\ u # <<>> /\ Head(u) = y /\ Tail(u) = s /\ Range(u) = {y} \cup Range(s)
  BY Push
<1> HIDE DEF u
<1>3. LET t == <<x>> \o u
      IN  t \in Seq(S) /\ t # <<>> /\ Head(t) = x /\ Tail(t) = u /\ Range(t) = {x} \cup Range(u)
  BY <1>2, Push
<1> QED
  BY <1>1, <1>2, <1>3, Zenon

LEMMA RangeEmpty == Range(<<>>) = {} /\ Names(<<>>) = {}
  BY DEF Range, Names

LEMMA NamesAppend ==
  ASSUME NEW q \in Seq(FunctorSet), NEW f \in FunctorSet
  PROVE  Names(Append(q, f)) = Names(q) \cup {f.name}
<1>1. Append(q, f) = q \o <<f>> /\ <<f>> \in Seq(FunctorSet)
  OBVIOUS
<1>2. Range(<<f>>) = {f}
  BY DEF Range
<1>3. Range(q \o <<f>>) = Range(q) \cup Range(<<f>>)
  BY <1>1, RangeConcatenation, ZenonT(60)
<1>4. Range(Append(q, f)) = Range(q) \cup {f}
  BY <1>1, <1>2, <1>3, Zenon
<1> QED
  BY <1>4 DEF Names

(* A functor without a message is queued. *)
LEMMA NamesFunctor ==
  ASSUME NEW q \in Seq(FunctorSet), NEW x \in StrongFunctors
  PROVE  Names(Append(q, Functor(x))) = Names(q) \cup {x}
<1>1. Functor(x) \in FunctorSet /\ Functor(x).name = x
  BY DEF Functor, FunctorSet, StrongFunctors
<1> QED
  BY <1>1, NamesAppend

LEMMA NamesTail ==
  ASSUME NEW q \in Seq(FunctorSet), q # <<>>
  PROVE  Names(q) = {Head(q).name} \cup Names(Tail(q))
  BY Pop DEF Names

(* sendInLoop queues callbacks of the user only. *)
LEMMA NamesSend ==
  ASSUME NEW m, pending \in Seq(FunctorSet), SendInLoop(m)
  PROVE  /\ Names(pending) \subseteq Names(pending')
         /\ Names(pending') \subseteq Names(pending) \cup {"writeComplete", "highWaterMark"}
<1> DEFINE W == <<Functor("writeComplete")>>
           H == <<Functor("highWaterMark")>>
<1>1. CASE pending' = pending
  BY <1>1
<1>2. CASE \E a \in {<<>>, W}, b \in {<<>>, H} : pending' = pending \o a \o b
  <2>1. PICK a \in {<<>>, W}, b \in {<<>>, H} : pending' = (pending \o a) \o b
    BY <1>2, Zenon
  <2>2. a \in Seq(FunctorSet) /\ b \in Seq(FunctorSet) /\ pending \o a \in Seq(FunctorSet)
    <3>1. W \in Seq(FunctorSet) /\ H \in Seq(FunctorSet) /\ <<>> \in Seq(FunctorSet)
      BY Queued, NamesQuiet
    <3> HIDE DEF W, H
    <3>2. a \in Seq(FunctorSet) /\ b \in Seq(FunctorSet)
      BY <3>1, Zenon
    <3> QED
      BY <3>2
  <2>3. Range(pending') = Range(pending) \cup Range(a) \cup Range(b)
    <3> DEFINE p == pending \o a
    <3>1. Range(p) = Range(pending) \cup Range(a)
      BY <2>2, RangeConcatenation, ZenonT(60)
    <3>2. pending' = p \o b /\ p \in Seq(FunctorSet)
      BY <2>1, <2>2
    <3> HIDE DEF p
    <3>3. Range(p \o b) = Range(p) \cup Range(b)
      BY <2>2, <3>2, RangeConcatenation
    <3> QED
      BY <3>1, <3>2, <3>3
  <2>4. /\ Names(a) \subseteq {"writeComplete"} /\ Names(b) \subseteq {"highWaterMark"}
    BY DEF Names, Range, Functor
  <2>5. Names(pending') = Names(pending) \cup Names(a) \cup Names(b)
    BY <2>3 DEF Names
  <2> QED
    BY <2>4, <2>5
<1> QED
  BY <1>1, <1>2, Zenon DEF SendInLoop

-----------------------------------------------------------------------------
LEMMA LifeInit == ServerInit => LifeInv
<1> SUFFICES ASSUME ServerInit PROVE LifeInv
  OBVIOUS
<1>1. QueuedNames = {} /\ Names(batch) = {} /\ Range(stack) = {}
  BY RangeEmpty DEF ServerInit, Init, QueuedNames
<1>2. LifeTypes /\ Requests /\ Fresh
  BY <1>1 DEF ServerInit, Init, LifeTypes, Requests, Fresh
<1>3. OpenOK /\ ClosedOK /\ OwnerOK /\ StackOK /\ NoAssertFails
  BY <1>1, Zenon
     DEF ServerInit, Init, OpenOK, ClosedOK, OwnerOK, StackOK, NoAssertFails, Opened
<1> QED
  BY <1>2, <1>3 DEF LifeInv

(* Steps that the invariant does not look at. *)
LEMMA SameLife == ASSUME LifeInv, UNCHANGED lifeVars PROVE LifeInv'
<1>1. LifeTypes' /\ Requests' /\ Fresh'
  BY ZenonT(60)
     DEF LifeInv, lifeVars, channelVars, loopVars, ownerVars, LifeTypes, Requests, Fresh,
         QueuedNames
<1>2. OpenOK' /\ ClosedOK' /\ OwnerOK' /\ StackOK' /\ NoAssertFails'
  BY Zenon
     DEF LifeInv, lifeVars, channelVars, loopVars, ownerVars, OpenOK, ClosedOK, OwnerOK, StackOK,
         NoAssertFails, Opened, QueuedNames
<1> QED
  BY <1>1, <1>2 DEF LifeInv

(* User code runs on a connection that was established, and after handleClose *)
(* or handleRead.                                                              *)
LEMMA UserIsLate ==
  ASSUME LifeInv, UserInLoop
  PROVE  state_ \notin {"none", "kConnecting"} /\ Range(stack) \cap Closing = {}
<1>1. state_ \notin {"none", "kConnecting"}
  BY DEF LifeInv, Fresh, UserInLoop
<1>2. CASE stack = <<>>
  BY <1>1, <1>2, RangeEmpty
<1>3. CASE stack # <<>> /\ Head(stack) = "user"
  BY <1>1, <1>3 DEF LifeInv, StackOK, Closing
<1> QED
  BY <1>2, <1>3 DEF UserInLoop

(* The loop thread goes on to what is next: a callback that does nothing else, *)
(* or that leaves the rest to user code (readable).                            *)
LEMMA PopLife ==
  ASSUME LifeInv, stack # <<>>, Head(stack) \notin {"closeCallback", "channelRemove"},
         \/ stack' = Tail(stack)
         \/ Head(stack) \in Closing /\ stack' = <<"user">> \o Tail(stack),
         UNCHANGED <<state_, reading_, channelVars, phase, batch, batchRef, pending, ownerVars,
                     userRef, ref, call, delayed, serverAlive, program, failed>>
  PROVE  LifeInv'
<1>1. /\ stack \in Seq(Items) /\ Tail(stack) \in Seq(Items)
      /\ Range(stack) = {Head(stack)} \cup Range(Tail(stack))
  BY Pop DEF LifeInv, LifeTypes
<1>2. /\ stack' \in Seq(Items)
      /\ Range(stack') \subseteq Range(Tail(stack)) \cup {"user"}
      /\ Range(Tail(stack)) \subseteq Range(stack')
  <2> DEFINE t == <<"user">> \o Tail(stack)
  <2>1. t \in Seq(Items) /\ Range(t) = {"user"} \cup Range(Tail(stack))
    <3>1. "user" \in Items
      BY DEF Items
    <3> QED
      BY <1>1, <3>1, Push, ZenonT(60)
  <2> HIDE DEF t
  <2>2. stack' = Tail(stack) \/ stack' = t
    BY DEF t
  <2> QED
    BY <1>1, <2>1, <2>2, Zenon
<1>3. phase # "poll" /\ state_ \notin {"none", "kConnecting"}
  BY Zenon DEF LifeInv, LifeTypes, Fresh
<1>4. LifeTypes' /\ Requests' /\ Fresh'
  BY <1>2, <1>3, ZenonT(60)
     DEF LifeInv, channelVars, ownerVars, LifeTypes, Requests, Fresh, QueuedNames
<1>5. OpenOK' /\ OwnerOK' /\ NoAssertFails'
  BY Zenon DEF LifeInv, channelVars, ownerVars, OpenOK, OwnerOK, NoAssertFails, Opened
<1>6. ClosedOK'
  BY <1>1, <1>2, Zenon DEF LifeInv, channelVars, ownerVars, ClosedOK, QueuedNames
<1>7. StackOK'
  <2>1. CASE stack' = Tail(stack)
    <3>1. Tail(stack) # <<>> =>
            Range(Tail(stack)) = {Head(Tail(stack))} \cup Range(Tail(Tail(stack)))
      BY <1>1, Pop, Zenon
    <3>2. Tail(stack) = <<>> => Range(Tail(stack)) = {}
      BY RangeEmpty, Zenon
    <3>3. Range(stack') \cap Closing # {} =>
            /\ Opened' /\ index_' = "kAdded"
            /\ Head(stack') \in Closing /\ Range(Tail(stack')) \cap Closing = {}
      BY <2>1, <1>1, <3>1, <3>2, ZenonT(60)
         DEF LifeInv, StackOK, Opened, channelVars, Closing
    <3>4. "closeCallback" \in Range(stack') =>
            /\ state_' = "kDisconnected" /\ owned' /\ ownerCalls' = <<>>
            /\ Head(stack') = "closeCallback" /\ "closeCallback" \notin Range(Tail(stack'))
      BY <2>1, <1>1, <3>1, <3>2 DEF LifeInv, StackOK, ownerVars
    <3>5. "channelRemove" \in Range(stack') => state_' = "kDisconnected"
      BY <1>1, <2>1 DEF LifeInv, StackOK
    <3> QED
      BY <3>3, <3>4, <3>5, Zenon DEF StackOK
  <2>2. CASE Head(stack) \in Closing /\ stack' = <<"user">> \o Tail(stack)
    <3>1. Opened /\ Range(Tail(stack)) \cap Closing = {}
      BY <1>1, <2>2 DEF LifeInv, StackOK, Closing
    <3>2. Range(stack') \cap Closing = {}
      BY <1>2, <3>1 DEF Closing
    <3>3. "closeCallback" \notin Range(stack') /\ "channelRemove" \notin Range(stack')
      BY <1>1, <1>2, <3>1, ZenonT(60) DEF LifeInv, StackOK, Opened
    <3> QED
      BY <3>2, <3>3 DEF StackOK
  <2> QED
    BY <2>1, <2>2
<1> QED
  BY <1>4, <1>5, <1>6, <1>7 DEF LifeInv

(* handleClose, from poll() or from forceCloseInLoop: it runs on an open        *)
(* connection and takes the channel out of the epoll instance.                  *)
LEMMA CloseLife ==
  ASSUME LifeInv, Opened, index_ = "kAdded", phase # "poll",
         NEW rest \in Seq(Items), Range(rest) \cap Closing = {},
         "closeCallback" \notin Range(rest), "channelRemove" \notin Range(rest),
         HandleCloseThen(rest), Names(batch') \subseteq Names(batch),
         phase # "functors" => batch' = batch,
         UNCHANGED <<reading_, phase, batchRef, pending, ownerVars, userRef, ref, call, delayed,
                     serverAlive, program>>
  PROVE  LifeInv'
<1>1. /\ stack' \in Seq(Items) /\ stack' # <<>>
      /\ Head(stack') = "user" /\ Tail(stack') # <<>>
      /\ Head(Tail(stack')) = "closeCallback" /\ Tail(Tail(stack')) = rest
      /\ Range(stack') = {"user", "closeCallback"} \cup Range(rest)
  <2>1. "user" \in Items /\ "closeCallback" \in Items
    BY DEF Items
  <2> DEFINE t == <<"user", "closeCallback">> \o rest
  <2>2. /\ t \in Seq(Items) /\ t # <<>> /\ Head(t) = "user" /\ Tail(t) # <<>>
        /\ Head(Tail(t)) = "closeCallback" /\ Tail(Tail(t)) = rest
        /\ Range(t) = {"user", "closeCallback"} \cup Range(rest)
    BY <2>1, PushTwo
  <2>3. stack' = t
    BY DEF HandleCloseThen
  <2> HIDE DEF t
  <2> QED
    BY <2>2, <2>3
<1>2. /\ failed' = failed /\ state_' = "kDisconnected"
      /\ events_' = {} /\ index_' = "kDeleted"
  BY DEF HandleCloseThen, Asserts, UpdateChannel, Opened
<1>3. QueuedNames' \subseteq QueuedNames
  BY DEF QueuedNames
<1>4. LifeTypes'
  BY <1>1, <1>2, Zenon DEF LifeInv, LifeTypes
<1>5. Requests'
  BY <1>2, <1>3, Zenon DEF LifeInv, Requests, Opened
<1>6. Fresh' /\ OpenOK' /\ NoAssertFails'
  BY <1>2, ZenonT(60) DEF LifeInv, Fresh, OpenOK, NoAssertFails, Opened
<1>7. ClosedOK' /\ OwnerOK'
  BY <1>1, <1>2, Zenon DEF LifeInv, ClosedOK, OwnerOK, OpenOK, ownerVars, Opened
<1>8. StackOK'
  <2>1. Range(stack') \cap Closing = {} /\ "channelRemove" \notin Range(stack')
    BY <1>1 DEF Closing
  <2>2. owned' /\ ownerCalls' = <<>>
    BY DEF LifeInv, OpenOK, OwnerOK, ownerVars, Opened
  <2> QED
    BY <1>1, <1>2, <2>1, <2>2, Zenon DEF StackOK
<1> QED
  BY <1>4, <1>5, <1>6, <1>7, <1>8 DEF LifeInv

(* What is left of the stack when handleClose or handleRead is at its head. *)
LEMMA ClosingRest ==
  ASSUME LifeInv, stack # <<>>, Head(stack) \in Closing
  PROVE  /\ Opened /\ index_ = "kAdded" /\ phase # "poll"
         /\ Tail(stack) \in Seq(Items) /\ Range(Tail(stack)) \cap Closing = {}
         /\ "closeCallback" \notin Range(Tail(stack)) /\ "channelRemove" \notin Range(Tail(stack))
<1>1. /\ stack \in Seq(Items) /\ Tail(stack) \in Seq(Items)
      /\ Range(stack) = {Head(stack)} \cup Range(Tail(stack))
  BY Pop DEF LifeInv, LifeTypes
<1>2. Opened /\ index_ = "kAdded" /\ Range(Tail(stack)) \cap Closing = {}
  BY <1>1 DEF LifeInv, StackOK, Closing
<1> QED
  BY <1>1, <1>2 DEF LifeInv, StackOK, LifeTypes, Opened

(* The handlers that handleEvent calls. *)
LEMMA HandlersLife ==
  ASSUME LifeInv, UNCHANGED fixed, HandleClose \/ HandleError \/ HandleRead \/ UserReturns
  PROVE  LifeInv'
<1>1. CASE HandleClose
  <2>1. /\ stack # <<>> /\ Head(stack) \in Closing /\ HandleCloseThen(Tail(stack))
        /\ UNCHANGED <<reading_, phase, batch, batchRef, pending, ownerVars, userRef, ref, call,
                       delayed, serverAlive, program>>
    BY <1>1 DEF HandleClose, Closing, userVars, fixed
  <2>2. Names(batch') = Names(batch)
    BY <2>1
  <2> QED
    BY <2>1, <2>2, ClosingRest, CloseLife, Zenon
<1>2. CASE HandleError \/ UserReturns
  BY <1>2, PopLife DEF HandleError, UserReturns, connVars, userVars, fixed
<1>3. CASE HandleRead
  <2>1. /\ stack # <<>> /\ Head(stack) \in Closing
        /\ UNCHANGED <<reading_, phase, batch, batchRef, pending, ownerVars, userRef, ref, call,
                       delayed, serverAlive, program>>
    BY <1>3 DEF HandleRead, Closing, userVars, fixed
  <2>2. Names(batch') = Names(batch)
    BY <2>1
  <2>3. CASE HandleCloseThen(Tail(stack))
    BY <2>1, <2>2, <2>3, ClosingRest, CloseLife, Zenon
  <2>4. CASE /\ stack' = Tail(stack) \/ stack' = <<"user">> \o Tail(stack)
             /\ UNCHANGED <<channelVars, state_, failed>>
    BY <2>1, <2>4, PopLife, Zenon DEF Closing
  <2> QED
    BY <1>3, <2>3, <2>4 DEF HandleRead
<1> QED
  BY <1>1, <1>2, <1>3

(* What a step may add to the queues beside the requests of the server. *)
MayQueue ==
  {"writeComplete", "highWaterMark"}
  \cup {x \in {"sendInLoop"} : program.threadOps # {}}
  \cup {x \in {"forceCloseInLoop"} : program.ops \cap {"forceClose", "forceCloseWithDelay"} # {}}

(* What steps on an established connection have in common. *)
Usual ==
  /\ QueuedNames' \subseteq QueuedNames \cup MayQueue
  /\ Names(batch') \subseteq Names(batch)
  /\ phase # "functors" => batch' = batch
  /\ delayed' => "forceCloseWithDelay" \in program.ops
  /\ \A t \in Threads : call'[t] # <<>> => call'[t][1] = "send" /\ program.threadOps # {}
  /\ UNCHANGED <<phase, batchRef, ownerVars, serverAlive, program, failed>>

LEMMA UsualRequests ==
  ASSUME LifeInv, Usual, state_ \notin {"none", "kConnecting"},
         state_' = "kDisconnected" <=> state_ = "kDisconnected"
  PROVE  Requests'
  BY ZenonT(60) DEF LifeInv, Requests, Usual, MayQueue, StrongFunctors

(* A step on an open connection that stays open, where it changes the events   *)
(* of the channel or not.                                                      *)
LEMMA OpenLife ==
  ASSUME LifeInv, Usual, Opened, Opened',
         state_' = "kDisconnecting" => "destroyServer" \notin program.ops,
         stack' \in Seq(Items), Range(stack') \subseteq Range(stack) \cup {"user"},
         phase = "poll" => stack' = <<>>,
         UNCHANGED stack \/ Range(stack) \cap Closing = {},
         \/ UNCHANGED <<channelVars, reading_>>
         \/ /\ Range(stack) \cap Closing = {}
            /\ \E events \in SUBSET {"R", "W"} :
                 /\ UpdateChannel(events)
                 /\ index_ = "kAdded" \/ events # {}
                 /\ reading_' <=> "R" \in events
                 /\ "stopRead" \notin program.ops => "R" \in events
  PROVE  LifeInv'
<1>1. LifeTypes'
  <2>1. events_' \subseteq {"R", "W"} /\ index_' \in {"kNew", "kAdded", "kDeleted"}
    BY ZenonT(60) DEF LifeInv, LifeTypes, UpdateChannel, channelVars
  <2> QED
    BY <2>1, Zenon DEF LifeInv, LifeTypes, Usual, Opened
<1>2. Requests'
  BY UsualRequests, Zenon DEF Opened
<1>3. Fresh' /\ ClosedOK' /\ OwnerOK' /\ NoAssertFails'
  BY Zenon DEF LifeInv, Fresh, ClosedOK, OwnerOK, NoAssertFails, Opened, Usual, ownerVars
<1>4. OpenOK'
  <2>1. CASE UNCHANGED <<channelVars, reading_>>
    BY <2>1, ZenonT(60) DEF LifeInv, OpenOK, Usual, channelVars, ownerVars
  <2>2. ASSUME NEW events \in SUBSET {"R", "W"},
               UpdateChannel(events), index_ = "kAdded" \/ events # {},
               reading_' <=> "R" \in events, "stopRead" \notin program.ops => "R" \in events
        PROVE  OpenOK'
    <3>1. events_' = events /\ (events # {} <=> index_' = "kAdded")
      BY <2>2, Zenon DEF UpdateChannel
    <3>2. owned' /\ program' = program
      BY DEF LifeInv, OpenOK, Usual, ownerVars
    <3> QED
      BY <2>2, <3>1, <3>2 DEF OpenOK
  <2> QED
    BY <2>1, <2>2, ZenonT(60)
<1>5. StackOK'
  <2>1. "closeCallback" \notin Range(stack') /\ "channelRemove" \notin Range(stack')
    BY DEF LifeInv, StackOK, Opened
  <2>2. CASE Range(stack) \cap Closing = {}
    <3>1. Range(stack') \cap Closing = {}
      BY <2>2, Zenon DEF Closing
    <3> QED
      BY <2>1, <3>1 DEF StackOK
  <2>3. CASE Range(stack) \cap Closing # {}
    BY <2>1, <2>3 DEF LifeInv, StackOK, channelVars
  <2> QED
    BY <2>2, <2>3
<1> QED
  BY <1>1, <1>2, <1>3, <1>4, <1>5, Zenon DEF LifeInv

(* A step on a connection that is down and stays as it is. *)
LEMMA DownLife ==
  ASSUME LifeInv, Usual, state_ = "kDisconnected", UNCHANGED <<state_, channelVars>>,
         "connectDestroyed" \in QueuedNames => "connectDestroyed" \in QueuedNames',
         \/ UNCHANGED stack
         \/ stack = <<>> /\ stack' = <<"user">> /\ phase # "poll"
  PROVE  LifeInv'
<1>1. stack' \in Seq(Items) /\ (stack' = stack \/ (Range(stack) = {} /\ Range(stack') = {"user"}))
  <2>1. CASE stack' = stack
    BY <2>1 DEF LifeInv, LifeTypes
  <2>2. CASE stack = <<>> /\ stack' = <<"user">>
    BY <2>2 DEF Items, Range
  <2> QED
    BY <2>1, <2>2
<1>2. LifeTypes'
  BY <1>1 DEF LifeInv, LifeTypes, Usual, channelVars
<1>3. Requests'
  BY UsualRequests, Zenon
<1>4. Fresh' /\ OpenOK' /\ OwnerOK' /\ NoAssertFails'
  BY Zenon DEF LifeInv, Fresh, OpenOK, OwnerOK, NoAssertFails, Opened, Usual, ownerVars
<1>5. ClosedOK'
  BY <1>1 DEF LifeInv, ClosedOK, Usual, channelVars, ownerVars
<1>6. StackOK'
  <2>1. CASE stack' = stack
    BY <2>1, Zenon DEF LifeInv, StackOK, Usual, Opened, channelVars, ownerVars
  <2>2. CASE Range(stack') = {"user"}
    BY <2>2 DEF StackOK, Closing
  <2> QED
    BY <1>1, <2>1, <2>2, Zenon
<1> QED
  BY <1>2, <1>3, <1>4, <1>5, <1>6 DEF LifeInv

(* sendInLoop on an open connection: it writes, or enables writing. *)
LEMMA SendEvents ==
  ASSUME LifeInv, NEW m, SendInLoop(m), Opened, reading_' = reading_
  PROVE  \/ UNCHANGED <<channelVars, reading_>>
         \/ \E events \in SUBSET {"R", "W"} :
              /\ UpdateChannel(events)
              /\ index_ = "kAdded" \/ events # {}
              /\ reading_' <=> "R" \in events
              /\ "stopRead" \notin program.ops => "R" \in events
<1>1. UNCHANGED channelVars \/ EnableWriting
  BY Zenon DEF SendInLoop, Opened
<1>2. CASE EnableWriting
  <2>1. events_ \cup {"W"} \in SUBSET {"R", "W"} /\ events_ \cup {"W"} # {}
    BY DEF LifeInv, LifeTypes
  <2>2. "R" \in events_ \cup {"W"} <=> "R" \in events_
    OBVIOUS
  <2>3. UpdateChannel(events_ \cup {"W"})
    BY <1>2 DEF EnableWriting
  <2>4. reading_' <=> "R" \in events_ \cup {"W"}
    BY <2>2 DEF LifeInv, OpenOK
  <2>5. "stopRead" \notin program.ops => "R" \in events_ \cup {"W"}
    BY DEF LifeInv, OpenOK
  <2> QED
    BY <2>1, <2>3, <2>4, <2>5
<1> QED
  BY <1>1, <1>2

(* startReadInLoop and stopReadInLoop on an open connection. *)
LEMMA ReadEvents ==
  ASSUME LifeInv, Opened, StartReadInLoop \/ (StopReadInLoop /\ "stopRead" \in program.ops)
  PROVE  \/ UNCHANGED <<channelVars, reading_>>
         \/ \E events \in SUBSET {"R", "W"} :
              /\ UpdateChannel(events)
              /\ index_ = "kAdded" \/ events # {}
              /\ reading_' <=> "R" \in events
              /\ "stopRead" \notin program.ops => "R" \in events
<1>1. events_ \cup {"R"} \in SUBSET {"R", "W"} /\ events_ \ {"R"} \in SUBSET {"R", "W"}
  BY DEF LifeInv, LifeTypes
<1>2. CASE UpdateChannel(events_ \cup {"R"}) /\ reading_' = TRUE
  <2>1. "R" \in events_ \cup {"R"}
    OBVIOUS
  <2> QED
    BY <1>1, <1>2, <2>1, Zenon
<1>3. CASE (reading_ \/ IsReading) /\ UpdateChannel(events_ \ {"R"}) /\ reading_' = FALSE
           /\ "stopRead" \in program.ops
  <2>1. "R" \notin events_ \ {"R"}
    BY Zenon
  <2>2. index_ = "kAdded"
    BY <1>3, Zenon DEF LifeInv, OpenOK, IsReading
  <2> QED
    BY <1>1, <1>3, <2>1, <2>2
<1> QED
  BY <1>2, <1>3, Zenon DEF StartReadInLoop, StopReadInLoop

(* The user's code in the loop thread. *)
LEMMA UserLife ==
  ASSUME LifeInv, QueuesOK, Disciplined(program), UNCHANGED fixed, UserInLoop,
         \/ \E m \in Messages : Send(m)
         \/ Shutdown \/ ForceClose \/ ForceCloseWithDelay
         \/ state_ # "kDisconnected" /\ (StartRead \/ StopRead)
  PROVE  LifeInv'
<1>1. /\ state_ \notin {"none", "kConnecting"} /\ Range(stack) \cap Closing = {}
      /\ stack \in Seq(Items) /\ (phase = "poll" => stack = <<>>)
  BY UserIsLate, Zenon DEF LifeInv, LifeTypes
<1>2. UNCHANGED <<stack, phase, batch, batchRef, ownerVars, call, serverAlive, program, failed>>
  BY Zenon
  DEF Send, Shutdown, ForceClose, ForceCloseWithDelay, StartRead, StopRead, loopVars, userVars,
      fixed
<1>3. SUFFICES ASSUME ~UNCHANGED lifeVars PROVE LifeInv'
  BY SameLife, ZenonT(60)
<1>4. Opened /\ Opened'
  <2>1. state_ \in {"none", "kConnecting", "kConnected", "kDisconnecting", "kDisconnected"}
    BY DEF LifeInv, LifeTypes
  <2>2. ASSUME NEW m \in Messages, Send(m), state_ # "kConnected" PROVE UNCHANGED lifeVars
    BY <1>2, <2>2, ZenonT(60) DEF Send, lifeVars, loopVars
  <2> QED
    BY <1>1, <1>3, <2>1, <2>2, Zenon
    DEF Opened, Send, Shutdown, ForceClose, ForceCloseWithDelay, StartRead, StopRead
<1>5. state_' = "kDisconnecting" => "destroyServer" \notin program.ops
  BY <1>1, <1>4, ZenonT(60) DEF LifeInv, OpenOK, Opened, Disciplined,
     Send, Shutdown, ForceClose, ForceCloseWithDelay, StartRead, StopRead
<1>6. Usual
  <2>1. QueuedNames' \subseteq QueuedNames \cup MayQueue
    <3>1. pending \in Seq(FunctorSet)
      BY Zenon DEF QueuesOK
    <3>2. \/ pending' = pending
          \/ /\ pending' = Append(pending, Functor("forceCloseInLoop"))
             /\ "forceClose" \in program.ops
          \/ \E m \in Messages : SendInLoop(m)
      BY Zenon DEF Send, Shutdown, ForceClose, ForceCloseWithDelay, StartRead, StopRead
    <3>3. Names(pending') \subseteq Names(pending) \cup MayQueue
      <4>1. CASE pending' = pending
        BY <4>1
      <4>2. CASE pending' = Append(pending, Functor("forceCloseInLoop"))
                 /\ "forceClose" \in program.ops
        <5>1. Names(pending') = Names(pending) \cup {"forceCloseInLoop"}
          BY <3>1, <4>2, NamesFunctor DEF StrongFunctors
        <5> QED
          BY <4>2, <5>1 DEF MayQueue
      <4>3. CASE \E m \in Messages : SendInLoop(m)
        BY <3>1, <4>3, NamesSend DEF MayQueue
      <4> QED
        BY <3>2, <4>1, <4>2, <4>3
    <3> QED
      BY <1>2, <3>3 DEF QueuedNames
  <2>2. delayed' => "forceCloseWithDelay" \in program.ops
    BY ZenonT(60)
    DEF LifeInv, Requests, Send, Shutdown, ForceClose, ForceCloseWithDelay, StartRead, StopRead,
        userVars
  <2>3. \A t \in Threads : call'[t] # <<>> => call'[t][1] = "send" /\ program.threadOps # {}
    BY <1>2 DEF LifeInv, Requests
  <2> QED
    BY <1>2, <2>1, <2>2, <2>3, Zenon DEF Usual
<1>7. \/ UNCHANGED <<channelVars, reading_>>
      \/ \E events \in SUBSET {"R", "W"} :
           /\ UpdateChannel(events)
           /\ index_ = "kAdded" \/ events # {}
           /\ reading_' <=> "R" \in events
           /\ "stopRead" \notin program.ops => "R" \in events
  <2>1. CASE UNCHANGED <<channelVars, reading_>>
    BY <2>1, Zenon
  <2>2. ASSUME NEW m \in Messages, Send(m) PROVE <1>7!:
    BY <1>4, <2>2, SendEvents, Zenon DEF Send, connVars
  <2>3. CASE StartRead \/ StopRead
    BY <1>4, <2>3, ReadEvents, Zenon DEF StartRead, StopRead
  <2>4. CASE Shutdown \/ ForceClose \/ ForceCloseWithDelay
    BY <2>4, ZenonT(60) DEF Shutdown, ForceClose, ForceCloseWithDelay
  <2> QED
    BY <2>2, <2>3, <2>4, Zenon
<1> QED
  BY <1>1, <1>2, <1>4, <1>5, <1>6, <1>7, OpenLife, Zenon

(* A shared_ptr is kept or dropped, and threads send. *)
LEMMA RefsLife ==
  ASSUME LifeInv, QueuesOK, Disciplined(program), UNCHANGED fixed,
         \/ KeepRef \/ DropRef
         \/ \E t \in Threads : \/ \E op \in program.threadOps : ThreadCalls(t, op)
                               \/ ThreadSetsState(t) \/ ThreadQueues(t)
  PROVE  LifeInv'
<1>1. \A t \in Threads : ~ThreadSetsState(t)
  <2> SUFFICES ASSUME NEW t \in Threads, ThreadSetsState(t) PROVE FALSE
    BY Zenon
  <2>1. PICK op \in SetsState : call[t] = <<op, "called">>
    BY DEF ThreadSetsState
  <2>2. call[t] # <<>> /\ call[t][1] \in SetsState
    BY <2>1
  <2> QED
    BY <2>2, Zenon DEF LifeInv, Requests, SetsState
<1>2. state_ \notin {"none", "kConnecting"}
  <2> SUFFICES ASSUME state_ \in {"none", "kConnecting"} PROVE FALSE
    OBVIOUS
  <2>1. stack = <<>> /\ ~userRef /\ \A t \in Threads : ~ref[t] /\ call[t] = <<>>
    BY Zenon DEF LifeInv, Fresh
  <2>2. ~KeepRef /\ ~DropRef
    BY <2>1, ZenonT(60) DEF KeepRef, DropRef
  <2>3. \A t \in Threads : ~ThreadQueues(t) /\ \A op \in program.threadOps : ~ThreadCalls(t, op)
    BY <2>1, ZenonT(60) DEF ThreadCalls, ThreadQueues
  <2> QED
    BY <1>1, <2>2, <2>3
<1>3. UNCHANGED <<state_, reading_, channelVars, stack, phase, batch, batchRef, ownerVars,
                  serverAlive, program, failed>>
  BY <1>1, ZenonT(60)
     DEF KeepRef, DropRef, ThreadCalls, ThreadQueues, connVars, loopVars, fixed
<1>4. \/ pending' = pending
      \/ /\ program.threadOps # {}
         /\ \E f \in FunctorSet : f.name = "sendInLoop" /\ pending' = Append(pending, f)
  <2>1. ASSUME NEW t \in Threads, ThreadQueues(t)
        PROVE  /\ program.threadOps # {}
               /\ \E f \in FunctorSet : f.name = "sendInLoop" /\ pending' = Append(pending, f)
    <3>1. /\ call[t] # <<>> /\ call[t][1] = "send" /\ call[t][2] \in Messages
          /\ program.threadOps # {}
      BY <2>1, Zenon DEF ThreadQueues, LifeInv, Requests, QueuesOK, CallOK
    <3> DEFINE f == [name |-> "sendInLoop", message |-> call[t][2]]
    <3>2. f \in FunctorSet /\ f.name = "sendInLoop"
      BY <3>1, ZenonT(60) DEF FunctorSet, RawFunctors
    <3>3. pending' = Append(pending, f)
      <4>1. FunctorOf["send"] = "sendInLoop" /\ "send" # "forceCloseWithDelay"
        BY DEF FunctorOf
      <4>2. f = [name |-> FunctorOf[call[t][1]], message |-> call[t][2]]
        BY <3>1, <4>1, Zenon
      <4> QED
        BY <2>1, <3>1, <4>1, <4>2, Zenon DEF ThreadQueues
    <3> QED
      BY <3>1, <3>2, <3>3, Zenon
  <2> QED
    BY <1>1, <2>1, ZenonT(60) DEF KeepRef, DropRef, ThreadCalls
<1>5. Usual /\ ("connectDestroyed" \in QueuedNames => "connectDestroyed" \in QueuedNames')
  <2>1. /\ Names(pending) \subseteq Names(pending')
        /\ Names(pending') \subseteq
             Names(pending) \cup {x \in {"sendInLoop"} : program.threadOps # {}}
    BY <1>4, NamesAppend, ZenonT(60) DEF QueuesOK
  <2>2. \A t \in Threads : call'[t] # <<>> => call'[t][1] = "send" /\ program.threadOps # {}
    <3>1. CASE UNCHANGED call
      BY <3>1, Zenon DEF LifeInv, Requests
    <3>2. ASSUME NEW t \in Threads, NEW op \in program.threadOps, ThreadCalls(t, op)
          PROVE  <2>2!:
      <4>1. op = "send"
        BY <3>2, Zenon DEF Disciplined
      <4>2. PICK m : call' = [call EXCEPT ![t] = <<"send", m>>]
        BY <3>2, <4>1, Zenon DEF ThreadCalls
      <4> QED
        BY <4>2, Zenon DEF LifeInv, Requests, QueuesOK, CallOK
    <3>3. ASSUME NEW t \in Threads, ThreadQueues(t) PROVE <2>2!:
      BY <3>3, ZenonT(60) DEF ThreadQueues, LifeInv, Requests, QueuesOK, CallOK
    <3> QED
      BY <1>1, <3>1, <3>2, <3>3, Zenon DEF KeepRef, DropRef
  <2>3. delayed' => "forceCloseWithDelay" \in program.ops
    <3>1. delayed' = delayed
      BY <1>1, ZenonT(60) DEF KeepRef, DropRef, ThreadCalls, ThreadQueues, LifeInv, Requests
    <3> QED
      BY <3>1, ZenonT(60) DEF LifeInv, Requests
  <2> QED
    BY <1>3, <2>1, <2>2, <2>3, Zenon DEF Usual, QueuedNames, MayQueue
<1>6. CASE state_ = "kDisconnected"
  BY <1>3, <1>5, <1>6, DownLife
<1>7. CASE Opened
  <2>1. Opened' /\ (state_' = "kDisconnecting" => "destroyServer" \notin program.ops)
    BY <1>3, <1>7, Zenon DEF LifeInv, OpenOK, Opened
  <2>2. stack \in Seq(Items) /\ (phase = "poll" => stack = <<>>)
    BY DEF LifeInv, LifeTypes
  <2> QED
    BY <1>3, <1>5, <1>7, <2>1, <2>2, OpenLife, ZenonT(60)
<1> QED
  BY <1>2, <1>6, <1>7 DEF LifeInv, LifeTypes, Opened

LEMMA WriteLife == ASSUME LifeInv, QueuesOK, UNCHANGED fixed, HandleWrite PROVE LifeInv'
<1>1. /\ stack # <<>> /\ Head(stack) = "handleWrite" /\ stack' = Tail(stack)
      /\ UNCHANGED <<state_, reading_, phase, batch, batchRef, ownerVars, userRef, ref, call,
                     delayed, serverAlive, program, failed>>
  BY DEF HandleWrite, userVars, fixed
<1>2. CASE UNCHANGED <<channelVars, pending>>
  BY <1>1, <1>2, PopLife, Zenon
<1>3. CASE /\ IsWriting /\ UpdateChannel(events_ \ {"W"})
           /\ pending' = Append(pending, Functor("writeComplete"))
  <2>1. Opened
    BY <1>1, <1>3 DEF LifeInv, LifeTypes, Fresh, ClosedOK, IsWriting, Opened
  <2>2. /\ Tail(stack) \in Seq(Items) /\ Range(stack) = {Head(stack)} \cup Range(Tail(stack))
    BY <1>1, Pop DEF LifeInv, LifeTypes
  <2>3. Range(stack) \cap Closing = {}
    BY <1>1, <2>2 DEF LifeInv, StackOK, Closing
  <2>4. Names(pending') = Names(pending) \cup {"writeComplete"}
    BY <1>3, NamesFunctor, ZenonT(60) DEF QueuesOK, StrongFunctors
  <2>5. Usual
    BY <1>1, <2>4, Zenon DEF Usual, LifeInv, Requests, QueuedNames, MayQueue
  <2>6. \E events \in SUBSET {"R", "W"} :
          /\ UpdateChannel(events)
          /\ index_ = "kAdded" \/ events # {}
          /\ reading_' <=> "R" \in events
          /\ "stopRead" \notin program.ops => "R" \in events
    <3>1. events_ \ {"W"} \in SUBSET {"R", "W"} /\ index_ = "kAdded"
      BY <1>3, <2>1 DEF LifeInv, LifeTypes, OpenOK, IsWriting
    <3>2. "R" \in events_ \ {"W"} <=> "R" \in events_
      BY Zenon
    <3>3. reading_' <=> "R" \in events_ \ {"W"}
      BY <1>1, <2>1, <3>2, Zenon DEF LifeInv, OpenOK
    <3>4. "stopRead" \notin program.ops => "R" \in events_ \ {"W"}
      BY <2>1, <3>2 DEF LifeInv, OpenOK
    <3> QED
      BY <1>3, <3>1, <3>3, <3>4, Zenon
  <2>7. Opened' /\ (state_' = "kDisconnecting" => "destroyServer" \notin program.ops)
    BY <1>1, <2>1 DEF LifeInv, OpenOK, Opened
  <2>8. phase # "poll"
    BY <1>1 DEF LifeInv, LifeTypes
  <2> QED
    BY <1>1, <2>1, <2>2, <2>3, <2>5, <2>6, <2>7, <2>8, OpenLife, Zenon
<1> QED
  BY <1>2, <1>3 DEF HandleWrite

(* The end of connectDestroyed, when ~TcpServer ran it. *)
LEMMA RemoveLife == ASSUME LifeInv, UNCHANGED fixed, ChannelRemove PROVE LifeInv'
<1>1. /\ stack # <<>> /\ Head(stack) = "channelRemove" /\ stack' = Tail(stack) /\ RemoveChannel
      /\ UNCHANGED <<state_, reading_, phase, batch, batchRef, pending, ownerVars, userRef, ref,
                     call, delayed, serverAlive, program>>
  BY DEF ChannelRemove, userVars, fixed
<1>2. /\ Tail(stack) \in Seq(Items) /\ Range(stack) = {Head(stack)} \cup Range(Tail(stack))
  BY <1>1, Pop DEF LifeInv, LifeTypes
<1>3. state_ = "kDisconnected" /\ events_ = {}
  BY <1>1, <1>2 DEF LifeInv, StackOK, ClosedOK
<1>4. failed' = failed /\ addedToLoop_' = FALSE /\ index_' = "kNew" /\ events_' = {}
  BY <1>1, <1>3 DEF RemoveChannel, Asserts
<1>5. LifeTypes'
  BY <1>1, <1>2, <1>3, <1>4, Zenon DEF LifeInv, LifeTypes
<1>6. Requests' /\ Fresh' /\ OpenOK' /\ OwnerOK' /\ NoAssertFails'
  BY <1>1, <1>3, <1>4, Zenon
  DEF LifeInv, Requests, Fresh, OpenOK, OwnerOK, NoAssertFails, Opened, QueuedNames, ownerVars
<1>7. "closeCallback" \notin Range(Tail(stack)) /\ Range(Tail(stack)) \cap Closing = {}
  BY <1>1, <1>2, <1>3, Zenon DEF LifeInv, StackOK, Opened, Closing
<1>8. ClosedOK' /\ StackOK'
  BY <1>1, <1>2, <1>3, <1>4, <1>7, ZenonT(60)
     DEF LifeInv, ClosedOK, StackOK, Closing, QueuedNames, ownerVars
<1> QED
  BY <1>5, <1>6, <1>8 DEF LifeInv

(* removeConnectionInLoop: the connection leaves the map, and connectDestroyed *)
(* will run.                                                                   *)
LEMMA RemoveConnectionLife ==
  ASSUME LifeInv, QueuesOK, RemoveConnectionInLoop, state_ = "kDisconnected", owned,
         stack' \in Seq(Items), Range(stack) \subseteq Range(stack') \cup {"closeCallback"},
         Range(stack') \subseteq Range(stack), "closeCallback" \notin Range(stack'),
         phase = "poll" => stack' = <<>>, ownerCalls' = <<>>,
         UNCHANGED <<state_, reading_, channelVars, phase, batch, batchRef, userRef, ref, call,
                     delayed, serverAlive, program>>
  PROVE  LifeInv'
<1>1. /\ failed' = failed /\ owned' = FALSE
      /\ Names(pending') = Names(pending) \cup {"connectDestroyed"}
  BY NamesFunctor
     DEF RemoveConnectionInLoop, Asserts, LifeInv, OwnerOK, QueuesOK, StrongFunctors
<1>2. LifeTypes'
  BY ZenonT(60) DEF LifeInv, LifeTypes, channelVars
<1>3. Requests' /\ Fresh' /\ OpenOK' /\ OwnerOK' /\ NoAssertFails'
  BY <1>1, Zenon
     DEF LifeInv, Requests, Fresh, OpenOK, OwnerOK, NoAssertFails, Opened, QueuedNames
<1>4. ClosedOK'
  BY <1>1, Zenon DEF LifeInv, ClosedOK, QueuedNames, channelVars
<1>5. StackOK'
  BY DEF LifeInv, StackOK, Opened
<1> QED
  BY <1>2, <1>3, <1>4, <1>5 DEF LifeInv

LEMMA CloseCallbackLife == ASSUME LifeInv, QueuesOK, CloseCallback PROVE LifeInv'
<1>1. /\ stack # <<>> /\ Head(stack) = "closeCallback" /\ stack' = Tail(stack)
      /\ UNCHANGED <<state_, reading_, channelVars, phase, batch, batchRef, userRef, ref, call,
                     delayed, serverAlive, program>>
  BY DEF CloseCallback, connVars, userVars, fixed
<1>2. /\ Tail(stack) \in Seq(Items) /\ Range(stack) = {Head(stack)} \cup Range(Tail(stack))
  BY <1>1, Pop, Zenon DEF LifeInv, LifeTypes
<1>3. /\ state_ = "kDisconnected" /\ owned /\ ownerCalls = <<>>
      /\ "closeCallback" \notin Range(Tail(stack)) /\ serverAlive /\ phase # "poll"
  BY <1>1, <1>2, Zenon DEF LifeInv, StackOK, OwnerOK, LifeTypes
<1>4. CASE program.sameLoop
  <2>1. RemoveConnectionInLoop /\ ownerCalls' = <<>>
    BY <1>3, <1>4 DEF CloseCallback
  <2> QED
    BY <1>1, <1>2, <1>3, <2>1, RemoveConnectionLife
<1>5. CASE ~program.sameLoop
  <2>1. /\ ownerCalls' = <<"removeConnectionInLoop">> /\ failed' = failed
        /\ UNCHANGED <<pending, owned>>
    BY <1>3, <1>5 DEF CloseCallback, Asserts
  <2>2. LifeTypes'
    BY <1>1, <1>2, <1>3 DEF LifeInv, LifeTypes, channelVars
  <2>3. Requests' /\ Fresh' /\ OpenOK' /\ OwnerOK' /\ NoAssertFails'
    BY <1>1, <1>3, <1>5, <2>1, ZenonT(60)
    DEF LifeInv, Requests, Fresh, OpenOK, OwnerOK, NoAssertFails, Opened, QueuedNames
  <2>4. ClosedOK' /\ StackOK'
    BY <1>1, <1>2, <1>3, <2>1, ZenonT(60)
    DEF LifeInv, ClosedOK, StackOK, QueuedNames, channelVars, Opened, Closing
  <2> QED
    BY <2>2, <2>3, <2>4 DEF LifeInv
<1> QED
  BY <1>4, <1>5

LEMMA BaseLoopLife == ASSUME LifeInv, QueuesOK, BaseLoopRuns PROVE LifeInv'
<1>1. /\ ownerCalls # <<>> /\ ownerCalls' = Tail(ownerCalls) /\ RemoveConnectionInLoop
      /\ UNCHANGED <<state_, reading_, channelVars, stack, phase, batch, batchRef, userRef, ref,
                     call, delayed, serverAlive, program>>
  BY DEF BaseLoopRuns, connVars, loopVars, userVars, fixed
<1>2. ownerCalls' = <<>> /\ owned /\ state_ = "kDisconnected"
  <2>1. ownerCalls = <<"removeConnectionInLoop">> /\ owned /\ state_ = "kDisconnected"
    BY <1>1 DEF LifeInv, OwnerOK
  <2>2. Tail(<<"removeConnectionInLoop">>) = <<>>
    OBVIOUS
  <2> QED
    BY <1>1, <2>1, <2>2
<1>3. /\ "closeCallback" \notin Range(stack) /\ stack \in Seq(Items)
      /\ phase = "poll" => stack = <<>>
  BY <1>1, Zenon DEF LifeInv, StackOK, LifeTypes
<1> QED
  BY <1>1, <1>2, <1>3, RemoveConnectionLife

LEMMA NewConnectionLife == ASSUME LifeInv, QueuesOK, NewConnection PROVE LifeInv'
<1>1. /\ serverAlive /\ state_ = "none" /\ owned' = TRUE
      /\ UNCHANGED <<reading_, phase, batch, batchRef, ownerCalls, userRef, ref, call, delayed,
                     serverAlive, program, failed>>
  BY Zenon DEF NewConnection, userVars, fixed
<1>2. /\ pending = <<>> /\ batch = <<>> /\ stack = <<>> /\ ownerCalls = <<>> /\ events_ = {}
      /\ index_ = "kNew" /\ reading_ /\ ~userRef /\ ~delayed
      /\ \A t \in Threads : ~ref[t] /\ call[t] = <<>>
  BY <1>1 DEF LifeInv, Fresh
<1>3. Names(pending) = {} /\ Names(batch) = {} /\ Range(stack) = {}
  BY <1>2, RangeEmpty
<1>4. CASE program.sameLoop
  <2>1. /\ state_' = "kConnected" /\ events_' = {"R"} /\ index_' = "kAdded" /\ stack' = <<"user">>
        /\ pending' = pending /\ phase = "events"
    BY <1>4 DEF NewConnection, InServerLoop, UpdateChannel
  <2>2. stack' \in Seq(Items) /\ Range(stack') = {"user"}
    BY <2>1 DEF Items, Range
  <2>3. LifeTypes' /\ Requests' /\ Fresh'
    BY <1>1, <1>2, <1>3, <2>1, <2>2, ZenonT(60)
       DEF LifeInv, LifeTypes, Requests, Fresh, QueuedNames
  <2>4. OpenOK' /\ ClosedOK' /\ OwnerOK' /\ StackOK' /\ NoAssertFails'
    BY <1>1, <1>2, <2>1, <2>2, Zenon
    DEF LifeInv, OpenOK, ClosedOK, OwnerOK, StackOK, NoAssertFails, Opened, Closing
  <2> QED
    BY <2>3, <2>4 DEF LifeInv
<1>5. CASE ~program.sameLoop
  <2>1. /\ state_' = "kConnecting" /\ pending' = Append(pending, Functor("connectEstablished"))
        /\ UNCHANGED <<channelVars, stack>>
    BY <1>5 DEF NewConnection
  <2>2. Names(pending') = {"connectEstablished"} /\ Len(pending') = 1
    <3>1. pending \in Seq(FunctorSet) /\ "connectEstablished" \in StrongFunctors
      BY DEF QueuesOK, StrongFunctors
    <3>2. Names(pending') = Names(pending) \cup {"connectEstablished"}
      BY <2>1, <3>1, NamesFunctor
    <3>3. Len(pending') = Len(pending) + 1 /\ Len(pending) = 0
      BY <1>2, <2>1
    <3> QED
      BY <1>3, <3>2, <3>3
  <2>3. LifeTypes' /\ Requests'
    BY <1>1, <1>2, <1>3, <2>1, <2>2, Zenon
    DEF LifeInv, LifeTypes, Requests, QueuedNames, channelVars
  <2>4. Fresh'
    <3>1. Len(pending') <= 1 /\ Len(batch') <= 1
      BY <1>1, <1>2, <2>2
    <3>2. batch' = <<>> /\ QueuedNames' = {"connectEstablished"}
      BY <1>1, <1>2, <1>3, <2>2 DEF QueuedNames
    <3> QED
      BY <1>1, <1>2, <1>5, <2>1, <3>1, <3>2, Zenon DEF Fresh, channelVars
  <2>5. OpenOK' /\ ClosedOK' /\ OwnerOK' /\ StackOK' /\ NoAssertFails'
    BY <1>1, <1>2, <1>3, <2>1, Zenon
    DEF LifeInv, OpenOK, ClosedOK, OwnerOK, StackOK, NoAssertFails, Opened
  <2> QED
    BY <2>3, <2>4, <2>5 DEF LifeInv
<1> QED
  BY <1>4, <1>5

(* ~TcpServer, in the loop of its connections. *)
LEMMA DestroyServerLife ==
  ASSUME LifeInv, Disciplined(program), DestroyServer
  PROVE  LifeInv'
<1>1. /\ "destroyServer" \in program.ops /\ serverAlive' = FALSE /\ owned' = FALSE
      /\ UNCHANGED <<reading_, phase, batch, batchRef, ownerCalls, userRef, ref, call, delayed,
                     program>>
  BY Zenon DEF DestroyServer, userVars
<1>2. program.sameLoop /\ stack = <<>> /\ phase = "events"
  BY <1>1 DEF DestroyServer, Disciplined, InServerLoop
<1>3. ownerCalls = <<>> /\ Range(stack) = {}
  BY <1>2, RangeEmpty DEF LifeInv, OwnerOK
<1>4. CASE owned
  <2>1. state_ = "kConnected"
    BY <1>1, <1>2, <1>3, <1>4, Zenon DEF LifeInv, LifeTypes, Fresh, OpenOK, ClosedOK, Opened
  <2>2. /\ state_' = "kDisconnected" /\ events_' = {} /\ index_' \in {"kAdded", "kDeleted"}
        /\ stack' = <<"user", "channelRemove">> /\ UNCHANGED <<failed, pending>>
    BY <1>2, <1>4, <2>1 DEF DestroyServer, ConnectDestroyed, UpdateChannel
  <2>3. stack' \in Seq(Items) /\ Range(stack') = {"user", "channelRemove"}
    <3>1. "user" \in Items /\ "channelRemove" \in Items
      BY DEF Items
    <3>2. ASSUME NEW x \in Items, NEW y \in Items
          PROVE  <<x, y>> \in Seq(Items) /\ Range(<<x, y>>) = {x, y}
      BY DEF Range
    <3> QED
      BY <2>2, <3>1, <3>2, Zenon
  <2>4. LifeTypes' /\ Requests' /\ Fresh'
    BY <1>1, <1>2, <2>1, <2>2, <2>3, Zenon
       DEF LifeInv, LifeTypes, Requests, Fresh, QueuedNames
  <2>5. OpenOK' /\ ClosedOK' /\ OwnerOK' /\ StackOK' /\ NoAssertFails'
    BY <1>1, <1>3, <2>2, <2>3, Zenon
    DEF LifeInv, OpenOK, ClosedOK, OwnerOK, StackOK, NoAssertFails, Opened, Closing
  <2> QED
    BY <2>4, <2>5, Zenon DEF LifeInv
<1>5. CASE ~owned
  <2>1. UNCHANGED <<channelVars, state_, stack, pending, failed>>
    BY <1>5, ZenonT(60) DEF DestroyServer
  <2>2. LifeTypes' /\ Requests' /\ Fresh'
    BY <1>1, <1>5, <2>1, ZenonT(60)
    DEF LifeInv, LifeTypes, Requests, Fresh, QueuedNames, channelVars
  <2>3. OpenOK' /\ OwnerOK' /\ NoAssertFails'
    BY <1>1, <1>3, <1>5, <2>1, ZenonT(60)
       DEF LifeInv, OpenOK, OwnerOK, NoAssertFails, Opened
  <2>4. ClosedOK' /\ StackOK'
    BY <1>1, <1>3, <1>5, <2>1, Zenon
       DEF LifeInv, ClosedOK, StackOK, QueuedNames, channelVars
  <2> QED
    BY <2>2, <2>3, <2>4, Zenon DEF LifeInv
<1> QED
  BY <1>4, <1>5

(* What handleEventWithGuard will call: of handleClose and handleRead only one, *)
(* which nothing precedes but handleError.                                      *)
LEMMA CallbacksOrder ==
  ASSUME NEW revents
  PROVE  LET s == Callbacks(revents)
         IN  /\ s \in Seq(Items) /\ Range(s) \subseteq Closing \cup {"handleError", "handleWrite"}
             /\ \/ Range(s) \cap Closing = {}
                \/ Head(s) \in Closing /\ Range(Tail(s)) \cap Closing = {}
                \/ /\ Head(s) = "handleError" /\ Tail(s) # <<>> /\ Head(Tail(s)) \in Closing
                   /\ Range(Tail(Tail(s))) \cap Closing = {}
<1> DEFINE s == Callbacks(revents)
           w == IF "OUT" \in revents THEN <<"handleWrite">> ELSE <<>>
           e == IF "ERR" \in revents THEN <<"handleError">> ELSE <<>>
<1>1. w \in Seq(Items) /\ Range(w) \subseteq {"handleWrite"}
  <2>1. <<"handleWrite">> \in Seq(Items) /\ Range(<<"handleWrite">>) = {"handleWrite"}
    BY DEF Items, Range
  <2>2. <<>> \in Seq(Items) /\ Range(<<>>) = {}
    BY RangeEmpty
  <2> QED
    BY <2>1, <2>2
<1>2. e \in Seq(Items) /\ Range(e) \subseteq {"handleError"}
  <2>1. <<"handleError">> \in Seq(Items) /\ Range(<<"handleError">>) = {"handleError"}
    BY DEF Items, Range
  <2>2. <<>> \in Seq(Items) /\ Range(<<>>) = {}
    BY RangeEmpty
  <2> QED
    BY <2>1, <2>2
<1>3. "handleClose" \in Items /\ "handleRead" \in Items /\ "handleError" \in Items
  BY DEF Items
<1>4. CASE "IN" \in revents
  <2>1. s = e \o (<<"handleRead">> \o w)
    BY <1>4 DEF Callbacks
  <2> DEFINE r == <<"handleRead">> \o w
  <2>2. /\ r \in Seq(Items) /\ r # <<>> /\ Head(r) = "handleRead" /\ Tail(r) = w
        /\ Range(r) = {"handleRead"} \cup Range(w)
    BY <1>1, <1>3, Push, ZenonT(60)
  <2> HIDE DEF r, w
  <2>3. CASE "ERR" \in revents
    <3>1. s = <<"handleError">> \o r
      BY <2>1, <2>3 DEF r
    <3>2. LET t == <<"handleError">> \o r
          IN  /\ t \in Seq(Items) /\ t # <<>> /\ Head(t) = "handleError" /\ Tail(t) = r
              /\ Range(t) = {"handleError"} \cup Range(r)
      BY <1>3, <2>2, Push
    <3> QED
      BY <1>1, <2>2, <3>1, <3>2, Zenon DEF Closing
  <2>4. CASE "ERR" \notin revents
    <3>1. s = r
      BY <2>1, <2>2, <2>4 DEF r
    <3> QED
      BY <1>1, <2>2, <3>1, Zenon DEF Closing
  <2> QED
    BY <2>3, <2>4
<1>5. CASE "IN" \notin revents
  <2> DEFINE r == e \o w
  <2>1. r \in Seq(Items)
    BY <1>1, <1>2
  <2>2. Range(r) \subseteq {"handleError", "handleWrite"}
    <3> HIDE DEF e, w
    <3>1. Range(r) = Range(e) \cup Range(w)
      BY <1>1, <1>2, RangeConcatenation
    <3> QED
      BY <1>1, <1>2, <3>1
  <2>3. CASE "HUP" \in revents
    <3>1. s = <<"handleClose">> \o r
      BY <1>5, <2>3 DEF Callbacks
    <3> HIDE DEF r
    <3>2. LET t == <<"handleClose">> \o r
          IN  /\ t \in Seq(Items) /\ t # <<>> /\ Head(t) = "handleClose" /\ Tail(t) = r
              /\ Range(t) = {"handleClose"} \cup Range(r)
      BY <1>3, <2>1, Push
    <3> QED
      BY <2>2, <3>1, <3>2, Zenon DEF Closing
  <2>4. CASE "HUP" \notin revents
    <3>1. s = r
      BY <1>5, <2>4 DEF Callbacks
    <3> HIDE DEF r
    <3> QED
      BY <2>1, <2>2, <3>1 DEF Closing
  <2> QED
    BY <2>3, <2>4
<1> QED
  BY <1>4, <1>5

(* poll() returns: the channel of a connection that is down is not in the epoll *)
(* instance, so handleClose and handleRead are only called on an open one.      *)
LEMMA PollLife == ASSUME LifeInv, UNCHANGED fixed, PollReturn PROVE LifeInv'
<1>1. /\ phase = "poll" /\ phase' = "events" /\ stack' = IF Alive THEN Callbacks(Revents) ELSE <<>>
      /\ UNCHANGED <<state_, reading_, channelVars, batch, batchRef, pending, ownerVars, userRef,
                     ref, call, delayed, serverAlive, program, failed>>
  BY DEF PollReturn, connVars, userVars, fixed
<1>2. stack = <<>> /\ Range(stack) = {} /\ batch = <<>>
  BY <1>1, RangeEmpty DEF LifeInv, LifeTypes
<1>3. CASE stack' = <<>>
  <2>1. UNCHANGED stack
    BY <1>2, <1>3
  <2>2. LifeTypes' /\ Requests' /\ Fresh'
    BY <1>1, <1>2, <2>1, ZenonT(60)
    DEF LifeInv, LifeTypes, Requests, Fresh, QueuedNames, channelVars, ownerVars
  <2>3. OpenOK' /\ ClosedOK' /\ OwnerOK' /\ StackOK' /\ NoAssertFails'
    BY <1>1, <2>1, Zenon
    DEF LifeInv, OpenOK, ClosedOK, OwnerOK, StackOK, NoAssertFails, Opened, QueuedNames,
        channelVars, ownerVars
  <2> QED
    BY <2>2, <2>3 DEF LifeInv
<1>4. CASE stack' # <<>>
  <2>1. stack' = Callbacks(Revents) /\ index_ = "kAdded"
    <3>1. stack' = Callbacks(Revents)
      BY <1>1, <1>4
    <3>2. ASSUME index_ # "kAdded" PROVE Callbacks(Revents) = <<>>
      BY <3>2 DEF Revents, Callbacks
    <3> QED
      BY <1>4, <3>1, <3>2
  <2>2. Opened
    BY <1>2, <2>1 DEF LifeInv, LifeTypes, Fresh, ClosedOK, Opened
  <2>3. /\ stack' \in Seq(Items)
        /\ Range(stack') \subseteq Closing \cup {"handleError", "handleWrite"}
        /\ \/ Range(stack') \cap Closing = {}
           \/ Head(stack') \in Closing /\ Range(Tail(stack')) \cap Closing = {}
           \/ /\ Head(stack') = "handleError" /\ Tail(stack') # <<>>
              /\ Head(Tail(stack')) \in Closing /\ Range(Tail(Tail(stack'))) \cap Closing = {}
    BY <2>1, CallbacksOrder, Zenon
  <2>4. LifeTypes' /\ Requests' /\ Fresh'
    BY <1>1, <1>2, <2>2, <2>3, ZenonT(60)
    DEF LifeInv, LifeTypes, Requests, Fresh, QueuedNames, channelVars, ownerVars, Opened
  <2>5. OpenOK' /\ ClosedOK' /\ OwnerOK' /\ NoAssertFails'
    BY <1>1, <2>2
    DEF LifeInv, OpenOK, ClosedOK, OwnerOK, NoAssertFails, Opened, channelVars, ownerVars
  <2>6. StackOK'
    <3>1. Opened' /\ index_' = "kAdded"
      BY <1>1, <2>1, <2>2 DEF Opened, channelVars
    <3>2. "closeCallback" \notin Range(stack') /\ "channelRemove" \notin Range(stack')
      BY <2>3 DEF Closing
    <3> QED
      BY <2>3, <3>1, <3>2 DEF StackOK
  <2> QED
    BY <2>4, <2>5, <2>6 DEF LifeInv
<1> QED
  BY <1>3, <1>4

(* The batch of functors is taken, or done. *)
LEMMA BatchLife ==
  ASSUME LifeInv, QueuesOK, UNCHANGED fixed, SwapPending \/ DoneFunctors
  PROVE  LifeInv'
<1>1. /\ stack = <<>>
      /\ UNCHANGED <<state_, reading_, channelVars, ownerVars, userRef, ref, call, delayed, stack,
                     serverAlive, program, failed>>
  BY ZenonT(60) DEF SwapPending, DoneFunctors, connVars, userVars, fixed
<1>2. OpenOK' /\ OwnerOK' /\ StackOK' /\ NoAssertFails'
  BY <1>1
  DEF LifeInv, OpenOK, OwnerOK, StackOK, NoAssertFails, Opened, channelVars, ownerVars
<1>3. CASE SwapPending
  <2>1. /\ batch = <<>> /\ batch' = pending /\ pending' = <<>> /\ phase' = "functors"
        /\ batchRef' = Holds(pending)
    BY <1>3 DEF SwapPending, LifeInv, LifeTypes
  <2>2. QueuedNames' = QueuedNames /\ Names(batch') = Names(pending)
    BY <2>1, RangeEmpty, Zenon DEF QueuedNames
  <2>3. Names(batch') \cap StrongFunctors # {} => batchRef'
    BY <2>1, ZenonT(60) DEF Names, Range, Holds
  <2>4. LifeTypes' /\ Requests'
    BY <1>1, <2>1, <2>2, <2>3 DEF LifeInv, LifeTypes, Requests, channelVars
  <2>5. Fresh'
    BY <1>1, <2>1, <2>2, Zenon DEF LifeInv, Fresh, channelVars, ownerVars
  <2>6. ClosedOK'
    BY <1>1, <2>2 DEF LifeInv, ClosedOK, channelVars, ownerVars
  <2> QED
    BY <1>2, <2>4, <2>5, <2>6 DEF LifeInv
<1>4. CASE DoneFunctors
  <2>1. /\ batch = <<>> /\ batch' = <<>> /\ pending' = pending /\ phase' = "poll"
    BY <1>4 DEF DoneFunctors
  <2>2. QueuedNames' = QueuedNames /\ Names(batch') = {}
    BY <2>1, RangeEmpty, Zenon DEF QueuedNames
  <2>3. LifeTypes' /\ Requests'
    BY <1>1, <2>1, <2>2, ZenonT(60) DEF LifeInv, LifeTypes, Requests, channelVars
  <2>4. Fresh' /\ ClosedOK'
    BY <1>1, <2>1, <2>2, Zenon DEF LifeInv, Fresh, ClosedOK, channelVars, ownerVars
  <2> QED
    BY <1>2, <2>3, <2>4 DEF LifeInv
<1> QED
  BY <1>3, <1>4, Zenon

(* The timer of forceCloseWithDelay. *)
LEMMA DelayLife ==
  ASSUME LifeInv, QueuesOK, Disciplined(program), UNCHANGED fixed, DelayExpires
  PROVE  LifeInv'
<1>1. /\ delayed /\ delayed' = FALSE /\ phase = "events" /\ stack = <<>>
      /\ UNCHANGED <<reading_, channelVars, stack, phase, batch, batchRef, ownerVars, userRef, ref,
                     call, serverAlive, program, failed>>
  BY Zenon DEF DelayExpires, loopVars, fixed
<1>2. state_ \notin {"none", "kConnecting"} /\ "forceCloseWithDelay" \in program.ops
  BY <1>1, Zenon DEF LifeInv, Fresh, Requests
<1>3. \A t \in Threads : call'[t] # <<>> => call'[t][1] = "send" /\ program.threadOps # {}
  BY <1>1, ZenonT(60) DEF LifeInv, Requests
<1>4. CASE UNCHANGED <<state_, pending>>
  <2>1. Usual /\ QueuedNames' = QueuedNames
    BY <1>1, <1>3, <1>4, Zenon DEF Usual, QueuedNames
  <2>2. CASE state_ = "kDisconnected"
    BY <1>1, <1>4, <2>1, <2>2, DownLife, ZenonT(60)
  <2>3. CASE Opened
    <3>1. Opened' /\ (state_' = "kDisconnecting" => "destroyServer" \notin program.ops)
      BY <1>4, <2>3, ZenonT(60) DEF LifeInv, OpenOK, Opened
    <3> QED
      BY <1>1, <2>1, <2>3, <3>1, OpenLife
  <2> QED
    BY <1>2, <2>2, <2>3 DEF LifeInv, LifeTypes, Opened
<1>5. CASE /\ Opened /\ state_' = "kDisconnecting"
           /\ pending' = Append(pending, Functor("forceCloseInLoop"))
  <2>1. Names(pending') = Names(pending) \cup {"forceCloseInLoop"}
    BY <1>5, NamesFunctor, Zenon DEF QueuesOK, StrongFunctors
  <2>2. Usual
    BY <1>1, <1>2, <1>3, <2>1 DEF Usual, QueuedNames, MayQueue
  <2>3. Opened' /\ "destroyServer" \notin program.ops
    BY <1>2, <1>5 DEF Opened, Disciplined
  <2>4. stack \in Seq(Items)
    BY DEF LifeInv, LifeTypes
  <2> QED
    BY <1>1, <1>5, <2>2, <2>3, <2>4, OpenLife
<1> QED
  BY <1>4, <1>5 DEF DelayExpires, Opened

(* The functors of the batch: connectEstablished is the first one, and nothing *)
(* that runs after handleClose closes again or lets go of connectDestroyed.    *)
LEMMA FunctorLife ==
  ASSUME LifeInv, QueuesOK, Disciplined(program), UNCHANGED fixed, RunFunctor
  PROVE  LifeInv'
<1> DEFINE f == Head(batch).name
<1>1. /\ phase = "functors" /\ stack = <<>> /\ batch # <<>> /\ batch' = Tail(batch)
      /\ UNCHANGED <<ownerVars, userRef, ref, call, delayed, phase, batchRef, serverAlive, program>>
  BY Zenon DEF RunFunctor, userVars, fixed
<1>2. /\ Names(batch) = {f} \cup Names(batch') /\ f \in QueuedNames
      /\ QueuedNames = {f} \cup Names(batch') \cup Names(pending)
  BY <1>1, NamesTail DEF QueuesOK, QueuedNames
<1>3. Range(stack) = {} /\ stack \in Seq(Items)
  BY <1>1, RangeEmpty DEF LifeInv, LifeTypes
<1>4. /\ <<"user">> \in Seq(Items) /\ Range(<<"user">>) = {"user"}
  BY DEF Items, Range
<1>5. /\ delayed' => "forceCloseWithDelay" \in program.ops
      /\ \A t \in Threads : call'[t] # <<>> => call'[t][1] = "send" /\ program.threadOps # {}
  BY <1>1, ZenonT(60) DEF LifeInv, Requests
<1>6. f \notin {"shutdownInLoop", "startReadInLoop", "stopReadInLoop"}
  BY <1>2, Zenon DEF LifeInv, Requests
<1>7. CASE f = "connectEstablished"
  <2>1. state_ = "kConnecting" /\ batch # <<>> /\ Len(batch) = 1 /\ pending = <<>>
    <3>1. state_ = "kConnecting"
      BY <1>2, <1>7, ZenonT(60) DEF LifeInv, Requests
    <3>2. batch \in Seq(FunctorSet) /\ Len(batch) <= 1 /\ pending = <<>>
      BY <1>1, <3>1, ZenonT(60) DEF LifeInv, Fresh, QueuesOK
    <3>3. Len(batch) \in Nat /\ Len(batch) # 0
      BY <1>1, <3>2
    <3>4. ASSUME NEW n \in Nat, n <= 1, n # 0 PROVE n = 1
      BY <3>4
    <3>5. Len(batch) = 1
      BY <3>2, <3>3, <3>4, Zenon
    <3> QED
      BY <1>1, <3>1, <3>2, <3>5, Zenon
  <2>2. batch' = <<>>
    <3>1. batch \in Seq(FunctorSet)
      BY Zenon DEF QueuesOK
    <3> QED
      BY <1>1, <2>1, <3>1
  <2>3. ConnectEstablished /\ UNCHANGED <<reading_, pending>>
    BY <1>7, Zenon DEF RunFunctor, RawFunctors
  <2>4. /\ failed' = failed /\ state_' = "kConnected" /\ events_' = {"R"} /\ index_' = "kAdded"
        /\ stack' = <<"user">>
    BY <2>1, <2>3 DEF ConnectEstablished, Asserts, UpdateChannel, LifeInv, Fresh
  <2>5. QueuedNames' = {} /\ Names(batch') = {}
    BY <2>1, <2>2, <2>3, RangeEmpty, ZenonT(60) DEF QueuedNames
  <2>6. LifeTypes' /\ Requests' /\ Fresh'
    BY <1>1, <1>4, <1>5, <2>4, <2>5 DEF LifeTypes, Requests, Fresh
  <2>7. OpenOK' /\ ClosedOK' /\ OwnerOK' /\ StackOK' /\ NoAssertFails'
    <3>1. owned /\ ownerCalls = <<>> /\ reading_
      BY <2>1, Zenon DEF LifeInv, Fresh
    <3>2. OpenOK' /\ ClosedOK'
      BY <1>1, <2>3, <2>4, <3>1, Zenon DEF OpenOK, ClosedOK, Opened, ownerVars
    <3>3. OwnerOK' /\ NoAssertFails'
      BY <1>1, <2>4, <3>1 DEF LifeInv, OwnerOK, NoAssertFails, ownerVars
    <3>4. StackOK'
      BY <1>4, <2>4 DEF StackOK, Closing
    <3> QED
      BY <3>2, <3>3, <3>4, Zenon
  <2> QED
    BY <2>6, <2>7 DEF LifeInv
<1>8. CASE f # "connectEstablished"
  <2>1. state_ \notin {"none", "kConnecting"}
    BY <1>1, <1>2, <1>8, Zenon DEF LifeInv, Fresh
  <2>2. CASE f = "connectDestroyed"
    <3>1. state_ = "kDisconnected"
      BY <1>2, <2>2, Zenon DEF LifeInv, Requests
    <3>2. ConnectDestroyed /\ UNCHANGED <<reading_, pending>>
      BY <2>2, Zenon DEF RunFunctor, RawFunctors
    <3>3. /\ failed' = failed /\ state_' = "kDisconnected" /\ events_' = {} /\ index_' = "kNew"
          /\ addedToLoop_' = FALSE /\ stack' = stack
      BY <3>1, <3>2, Zenon DEF ConnectDestroyed, RemoveChannel, Asserts, LifeInv, ClosedOK
    <3>4. QueuedNames' \subseteq QueuedNames /\ Names(batch') \subseteq Names(batch)
      BY <1>2, <3>2 DEF QueuedNames
    <3>5. LifeTypes' /\ Requests' /\ Fresh'
      BY <1>1, <1>3, <1>5, <3>1, <3>3, <3>4, ZenonT(60)
         DEF LifeInv, LifeTypes, Requests, Fresh
    <3>6. OpenOK' /\ OwnerOK' /\ NoAssertFails'
      BY <1>1, <3>1, <3>3, ZenonT(60)
         DEF LifeInv, OpenOK, OwnerOK, NoAssertFails, Opened, ownerVars
    <3>7. ClosedOK' /\ StackOK'
      BY <1>1, <1>3, <3>1, <3>3 DEF LifeInv, ClosedOK, StackOK, ownerVars
    <3> QED
      BY <3>5, <3>6, <3>7 DEF LifeInv
  <2>3. CASE f = "forceCloseInLoop" /\ Opened
    <3>1. HandleCloseThen(<<>>) /\ UNCHANGED <<reading_, pending>>
      BY <2>3 DEF RunFunctor, RawFunctors, Opened
    <3>2. index_ = "kAdded"
      BY <1>2, <2>3, Zenon DEF LifeInv, Requests, OpenOK, Disciplined
    <3>3. <<>> \in Seq(Items) /\ Range(<<>>) = {}
      BY RangeEmpty
    <3>4. Names(batch') \subseteq Names(batch) /\ phase # "poll"
      BY <1>1, <1>2, Zenon
    <3> QED
      BY <1>1, <2>3, <3>1, <3>2, <3>3, <3>4, CloseLife, Zenon
  <2>4. CASE /\ f # "connectDestroyed" /\ UNCHANGED <<state_, reading_, failed>>
             /\ Names(pending) \subseteq Names(pending')
             /\ Names(pending') \subseteq Names(pending) \cup {"writeComplete", "highWaterMark"}
             /\ stack' = stack \/ stack' = <<"user">>
             /\ state_ = "kDisconnected" => UNCHANGED channelVars
             /\ \/ UNCHANGED channelVars
                \/ f = "sendInLoop" /\ SendInLoop(Head(batch).message)
    <3>1. Usual
      BY <1>1, <1>2, <1>5, <2>4, Zenon DEF Usual, QueuedNames, MayQueue
    <3>2. CASE state_ = "kDisconnected"
      <4>1. "connectDestroyed" \in QueuedNames => "connectDestroyed" \in QueuedNames'
        BY <1>2, <2>4, Zenon DEF QueuedNames
      <4> QED
        BY <1>1, <2>4, <3>1, <3>2, <4>1, DownLife, Zenon
    <3>3. CASE Opened
      <4>1. Opened' /\ (state_' = "kDisconnecting" => "destroyServer" \notin program.ops)
        BY <2>4, <3>3, ZenonT(60) DEF LifeInv, OpenOK, Opened
      <4>2. \/ UNCHANGED <<channelVars, reading_>>
            \/ \E events \in SUBSET {"R", "W"} :
                 /\ UpdateChannel(events)
                 /\ index_ = "kAdded" \/ events # {}
                 /\ reading_' <=> "R" \in events
                 /\ "stopRead" \notin program.ops => "R" \in events
        BY <2>4, <3>3, SendEvents
      <4>3. /\ stack' \in Seq(Items) /\ Range(stack') \subseteq Range(stack) \cup {"user"}
            /\ Range(stack) \cap Closing = {} /\ phase # "poll"
        BY <1>1, <1>3, <1>4, <2>4, ZenonT(60)
      <4> QED
        BY <3>1, <3>3, <4>1, <4>2, <4>3, OpenLife, Zenon
    <3> QED
      BY <2>1, <3>2, <3>3, Zenon DEF LifeInv, LifeTypes, Opened
  <2>5. CASE f = "sendInLoop" /\ SendInLoop(Head(batch).message)
             /\ UNCHANGED <<state_, reading_, stack, failed>>
    <3>1. /\ Names(pending) \subseteq Names(pending')
          /\ Names(pending') \subseteq Names(pending) \cup {"writeComplete", "highWaterMark"}
      BY <2>5, NamesSend DEF QueuesOK
    <3>2. state_ = "kDisconnected" => UNCHANGED channelVars
      BY <2>5 DEF SendInLoop
    <3> QED
      BY <2>4, <2>5, <3>1, <3>2, Zenon
  <2>6. CASE /\ f # "connectDestroyed" /\ UNCHANGED <<connVars, pending, failed>>
             /\ stack' = stack \/ stack' = <<"user">>
    BY <2>4, <2>6 DEF connVars
  <2> QED
    BY <1>6, <1>8, <2>2, <2>3, <2>5, <2>6, ZenonT(60) DEF RunFunctor, RawFunctors, Opened
<1> QED
  BY <1>7, <1>8, Zenon

-----------------------------------------------------------------------------
LEMMA LifeStep ==
  ASSUME LifeInv, QueuesOK, Disciplined(program), [Next]_serverVars
  PROVE  LifeInv'
<1>1. CASE UNCHANGED serverVars
  BY <1>1, SameLife, Zenon DEF serverVars, vars, lifeVars, connVars, userVars
<1>2. CASE PeerStep \/ Drain
  BY <1>2, SameLife
  DEF PeerStep, Drain, PeerSends, PeerCloses, PeerResets, PeerReceives, lifeVars, connVars,
      userVars, fixed
<1>3. CASE NewConnection \/ BaseLoopRuns \/ DestroyServer
  BY <1>3, NewConnectionLife, BaseLoopLife, DestroyServerLife
<1>4. CASE LoopStep
  BY <1>4, HandlersLife, WriteLife, RemoveLife, PollLife, BatchLife, FunctorLife, DelayLife,
     CloseCallbackLife, Zenon
  DEF LoopStep, HandlerStep
<1>5. CASE UserStep
  <2>1. "readWhenDown" \notin program.ops /\ UNCHANGED fixed
    BY <1>5, Zenon DEF Disciplined, UserStep
  <2>2. CASE \/ \E m \in Messages : Send(m)
             \/ Shutdown \/ ForceClose \/ ForceCloseWithDelay
             \/ state_ # "kDisconnected" /\ (StartRead \/ StopRead)
    <3>1. UserInLoop
      BY <2>2, Zenon
         DEF Send, Shutdown, ForceClose, ForceCloseWithDelay, StartRead, StopRead
    <3> QED
      BY <2>1, <2>2, <3>1, UserLife, Zenon
  <2>3. CASE \/ KeepRef
             \/ \E t \in Threads :
                  (\E op \in program.threadOps : ThreadCalls(t, op)) \/ ThreadSetsState(t)
    BY <2>1, <2>3, RefsLife, Zenon
  <2> QED
    BY <1>5, <2>1, <2>2, <2>3, Zenon DEF UserStep
<1>6. CASE Releases
  BY <1>6, RefsLife DEF Releases
<1> QED
  BY <1>1, <1>2, <1>3, <1>4, <1>5, <1>6, Zenon DEF Next

(* The life of a connection of a disciplined program, from newConnection over  *)
(* handleClose, removeConnection and connectDestroyed to ~TcpConnection, with  *)
(* every interleaving of its loop, the base loop, sending threads and the peer. *)
THEOREM LifeInvariance ==
  ASSUME \A p \in Programs : Disciplined(p)
  PROVE  Spec => []LifeInv
<1>1. IInv => QueuesOK /\ Disciplined(program)
  BY DEF IInv, QueuesOK
<1>2. IInv /\ LifeInv /\ [Next]_serverVars => LifeInv'
  BY <1>1, LifeStep
<1> QED
  BY <1>2, LifeInit, Invariance, PTL DEF Spec

(* For a disciplined program no assert of the code fails: handleClose runs     *)
(* once and on an open connection, Channel::remove on a disabled channel, and  *)
(* removeConnectionInLoop finds the connection in a server that exists.        *)
THEOREM NoAssertionFails ==
  ASSUME \A p \in Programs : Disciplined(p)
  PROVE  Spec => []NoAssertFails
<1>1. LifeInv => NoAssertFails
  BY DEF LifeInv
<1> QED
  BY <1>1, LifeInvariance, PTL

(* For a disciplined program ~TcpConnection runs when the connection is down   *)
(* and its channel has left the poller: until then the server, a functor or    *)
(* the code running in the loop holds a shared_ptr.                            *)
THEOREM DestroyedWhenRemoved ==
  ASSUME \A p \in Programs : Disciplined(p)
  PROVE  Spec => []DestroyedClean
<1>1. LifeInv => DestroyedClean
  <2> SUFFICES ASSUME LifeInv, state_ # "none", ~Alive
               PROVE  state_ = "kDisconnected" /\ ~addedToLoop_
    BY DEF DestroyedClean
  <2>1. ~owned /\ stack = <<>> /\ ~Holds(pending) /\ ~batchRef
    BY ZenonT(60) DEF Alive
  <2>2. state_ = "kDisconnected"
    BY <2>1 DEF LifeInv, LifeTypes, Fresh, OpenOK, Opened
  <2>3. "connectDestroyed" \notin Names(pending) /\ "connectDestroyed" \notin Names(batch)
    BY <2>1, Zenon DEF LifeInv, Requests, Names, Range, Holds, StrongFunctors
  <2>4. Range(stack) = {}
    BY <2>1, RangeEmpty
  <2> QED
    BY <2>1, <2>2, <2>3, <2>4 DEF LifeInv, ClosedOK, QueuedNames
<1> QED
  BY <1>1, LifeInvariance, PTL

-----------------------------------------------------------------------------
(* Shutting down: the sending side is closed behind all output.               *)

Early == state_ \in {"none", "kConnecting"}

(* An open connection is writing when it has output, and the sending side is   *)
(* closed on none that may still accept output.                                *)
FinInv ==
  /\ Early => outputBuffer_ = <<>>
  /\ Opened /\ outputBuffer_ # <<>> => IsWriting
  /\ Early \/ state_ = "kConnected" => ~finSent
  /\ FinAfterOutput

(* The steps that neither write nor close the sending side. *)
FinQuiet ==
  /\ UNCHANGED <<wire, outputBuffer_, accepted, finSent>>
  /\ reset => reset'
  /\ Early' => Early
  /\ state_' = "kConnected" => Early \/ state_ = "kConnected"
  /\ Opened' => Early \/ Opened
  /\ Opened /\ Opened' /\ IsWriting => IsWriting'

LEMMA FinQuietStep == ASSUME FinInv, FinQuiet PROVE FinInv'
<1>1. wire' = wire /\ outputBuffer_' = outputBuffer_ /\ accepted' = accepted /\ finSent' = finSent
  BY DEF FinQuiet
<1>2. (Early => outputBuffer_ = <<>>)'
  BY <1>1 DEF FinInv, FinQuiet
<1>3. (Opened /\ outputBuffer_ # <<>> => IsWriting)'
  BY <1>1 DEF FinInv, FinQuiet
<1>4. (Early \/ state_ = "kConnected" => ~finSent)'
  BY <1>1 DEF FinInv, FinQuiet
<1>5. FinAfterOutput'
  <2>1. SUFFICES ASSUME finSent', ~reset' PROVE wire' = accepted'
    BY DEF FinAfterOutput
  <2>2. finSent /\ ~reset
    BY <1>1, <2>1 DEF FinQuiet
  <2> QED
    BY <1>1, <2>2 DEF FinInv, FinAfterOutput
<1> QED
  BY <1>2, <1>3, <1>4, <1>5 DEF FinInv

(* Where the sending side is closed nothing is buffered, and so all is written. *)
LEMMA FinCloses ==
  ASSUME OutputOK, ~finSent, outputBuffer_ = <<>>
  PROVE  ~reset => wire = accepted
  BY DEF OutputOK, Broken

(* sendInLoop buffers what it did not write, and enables writing. *)
LEMMA FinSend ==
  ASSUME OutputOK, FinInv, NEW m \in Messages, SendInLoop(m), state_ = "kConnected",
         UNCHANGED <<state_, finSent, reset>>
  PROVE  FinInv'
<1>1. ~finSent' /\ Opened' /\ ~Early'
  BY DEF FinInv, Opened, Early
<1>2. (Opened /\ outputBuffer_ # <<>> => IsWriting)'
  <2> DEFINE u == Units(m)
  <2>1. PICK n : LET rest == IF NothingBuffered /\ Broken
                             THEN <<>> ELSE SubSeq(u, n + 1, MessageLength)
                 IN  /\ outputBuffer_' = outputBuffer_ \o rest
                     /\ IF rest # <<>> /\ ~IsWriting THEN EnableWriting ELSE UNCHANGED channelVars
    BY Zenon DEF SendInLoop
  <2> DEFINE rest == IF NothingBuffered /\ Broken THEN <<>> ELSE SubSeq(u, n + 1, MessageLength)
  <2>2. /\ outputBuffer_' = outputBuffer_ \o rest
        /\ IF rest # <<>> /\ ~IsWriting THEN EnableWriting ELSE UNCHANGED channelVars
    BY <2>1
  <2> HIDE DEF rest, u
  <2>3. CASE rest # <<>>
    BY <2>2, <2>3 DEF EnableWriting, UpdateChannel, IsWriting, channelVars
  <2>4. CASE rest = <<>>
    <3>1. outputBuffer_' = outputBuffer_ /\ events_' = events_
      BY <2>2, <2>4 DEF OutputOK, channelVars
    <3> QED
      BY <3>1 DEF FinInv, IsWriting, Opened
  <2> QED
    BY <2>3, <2>4
<1> QED
  BY <1>1, <1>2 DEF FinInv, FinAfterOutput

(* handleWrite closes the sending side when it has written all. *)
LEMMA FinWrite ==
  ASSUME OutputOK, FinInv, LifeInv, HandleWrite
  PROVE  FinInv'
<1>1. UNCHANGED <<state_, accepted, reset>>
  BY DEF HandleWrite, inputVars
<1>2. CASE UNCHANGED <<channelVars, outputBuffer_, finSent, wire>>
  <2>1. FinQuiet
    BY <1>1, <1>2, Zenon DEF FinQuiet, Early, Opened, IsWriting, channelVars
  <2> QED
    BY <2>1, FinQuietStep
<1>3. CASE /\ IsWriting /\ ~Broken /\ space
           /\ IF outputBuffer_' = <<>> THEN UpdateChannel(events_ \ {"W"}) /\ FinishShutdown
                                       ELSE UNCHANGED <<channelVars, finSent>>
  <2>1. Opened /\ ~Early /\ ~finSent /\ ~reset
    <3>1. events_ # {}
      BY <1>3 DEF IsWriting
    <3> QED
      BY <1>3, <3>1, Zenon DEF LifeInv, LifeTypes, Fresh, ClosedOK, Opened, Early, Broken
  <2>2. Opened' /\ ~Early' /\ ~reset'
    BY <1>1, <2>1 DEF Opened, Early
  <2>3. CASE outputBuffer_' = <<>>
    <3>1. finSent' => state_ # "kConnected"
      BY <1>3, <2>1, <2>3, Zenon DEF FinishShutdown
    <3>2. wire' = accepted'
      <4>1. wire' \in Seq(Unit) /\ accepted' = wire' \o outputBuffer_'
        BY <1>3, WriteMoves
      <4> QED
        BY <2>3, <4>1
    <3> QED
      BY <1>1, <2>2, <2>3, <3>1, <3>2 DEF FinInv, FinAfterOutput
  <2>4. CASE outputBuffer_' # <<>>
    <3>1. ~finSent' /\ IsWriting'
      BY <1>3, <2>1, <2>4 DEF IsWriting, channelVars
    <3> QED
      BY <2>2, <2>4, <3>1 DEF FinInv, FinAfterOutput
  <2> QED
    BY <2>3, <2>4
<1> QED
  BY <1>2, <1>3, Zenon DEF HandleWrite

LEMMA FinInit == ServerInit => FinInv
  BY DEF ServerInit, Init, FinInv, FinAfterOutput, Opened, Early

(* The handlers and the loop neither write nor close the sending side. *)
LEMMA FinLoop ==
  ASSUME \/ HandleClose \/ HandleError \/ HandleRead \/ ChannelRemove \/ UserReturns
         \/ PollReturn \/ SwapPending \/ DoneFunctors \/ DelayExpires \/ CloseCallback
         \/ NewConnection \/ BaseLoopRuns \/ DestroyServer \/ PeerStep \/ Drain
         \/ ForceClose \/ ForceCloseWithDelay \/ StartRead \/ StopRead \/ KeepRef \/ DropRef
  PROVE  FinQuiet
<1> DEFINE Same  == UNCHANGED <<wire, outputBuffer_, accepted, finSent>>
           Apart == Same /\ UNCHANGED <<state_, events_>> /\ (reset => reset')
           Close == Same /\ UNCHANGED reset /\ state_' = "kDisconnected"
<1> USE DEF outputVars, inputVars, connVars, channelVars
<1>1. ASSUME HandleClose \/ HandleRead PROVE Close \/ Apart
  <2>1. Same /\ UNCHANGED reset
    BY <1>1, Zenon DEF HandleClose, HandleRead
  <2>2. state_' = "kDisconnected" \/ UNCHANGED <<state_, events_>>
    BY <1>1, Zenon DEF HandleClose, HandleRead, HandleCloseThen
  <2> QED
    BY <2>1, <2>2, Zenon
<1>2. ASSUME HandleError \/ UserReturns \/ ChannelRemove PROVE Apart
  <2>1. CASE HandleError
    BY <2>1, Zenon DEF HandleError
  <2>2. CASE UserReturns
    BY <2>2, Zenon DEF UserReturns
  <2>3. CASE ChannelRemove
    BY <2>3, Zenon DEF ChannelRemove, RemoveChannel
  <2> QED
    BY <1>2, <2>1, <2>2, <2>3, Zenon
<1>3. ASSUME PollReturn \/ SwapPending \/ DoneFunctors PROVE Apart
  <2>1. CASE PollReturn
    BY <2>1, Zenon DEF PollReturn
  <2>2. CASE SwapPending
    BY <2>2, Zenon DEF SwapPending
  <2>3. CASE DoneFunctors
    BY <2>3, Zenon DEF DoneFunctors
  <2> QED
    BY <1>3, <2>1, <2>2, <2>3, Zenon
<1>4. ASSUME CloseCallback \/ BaseLoopRuns PROVE Apart
  <2>1. CASE CloseCallback
    BY <2>1, Zenon DEF CloseCallback
  <2>2. CASE BaseLoopRuns
    BY <2>2, Zenon DEF BaseLoopRuns
  <2> QED
    BY <1>4, <2>1, <2>2, Zenon
<1>5. ASSUME PeerStep \/ Drain PROVE Apart
  <2>1. CASE PeerStep
    BY <2>1, Zenon DEF PeerStep, PeerSends, PeerCloses, PeerResets
  <2>2. CASE Drain
    BY <2>2, Zenon DEF Drain, PeerReceives
  <2> QED
    BY <1>5, <2>1, <2>2, Zenon
<1>6. ASSUME KeepRef \/ DropRef PROVE Apart
  <2>1. CASE KeepRef
    BY <2>1, Zenon DEF KeepRef
  <2>2. CASE DropRef
    BY <2>2, Zenon DEF DropRef
  <2> QED
    BY <1>6, <2>1, <2>2, Zenon
<1>7. Apart => FinQuiet
  BY Zenon DEF FinQuiet, Early, Opened, IsWriting
<1>8. ASSUME Close PROVE FinQuiet
  <2>1. ~Early' /\ ~Opened' /\ state_' # "kConnected"
    BY <1>8 DEF Early, Opened
  <2> QED
    BY <1>8, <2>1 DEF FinQuiet
<1>9. CASE DelayExpires \/ ForceClose \/ ForceCloseWithDelay
  <2>1. Same /\ UNCHANGED <<events_, reset>>
    BY <1>9, Zenon DEF DelayExpires, ForceClose, ForceCloseWithDelay
  <2>2. state_' = state_ \/ (Opened /\ state_' = "kDisconnecting")
    BY <1>9, Zenon DEF DelayExpires, ForceClose, ForceCloseWithDelay, Opened
  <2> QED
    BY <2>1, <2>2, ZenonT(60) DEF FinQuiet, Early, Opened, IsWriting
<1>10. CASE NewConnection
  <2>1. Same /\ UNCHANGED reset /\ Early /\ state_' \in {"kConnecting", "kConnected"}
    BY <1>10 DEF NewConnection, Early
  <2> QED
    BY <2>1, Zenon DEF FinQuiet, Early, Opened
<1>11. CASE DestroyServer
  <2>1. Same /\ UNCHANGED reset
    BY <1>11, ZenonT(60) DEF DestroyServer
  <2>2. \/ state_' = "kDisconnected"
        \/ state_' = state_ /\ UNCHANGED events_
    BY <1>11, Zenon DEF DestroyServer, ConnectDestroyed, RemoveChannel
  <2> QED
    BY <2>1, <2>2, ZenonT(60) DEF FinQuiet, Early, Opened, IsWriting
<1>12. CASE StartRead \/ StopRead
  <2>1. Same /\ UNCHANGED <<state_, reset>>
    BY <1>12, Zenon DEF StartRead, StopRead
  <2>2. events_' \in {events_, events_ \cup {"R"}, events_ \ {"R"}}
    BY <1>12, Zenon DEF StartRead, StopRead, StartReadInLoop, StopReadInLoop, UpdateChannel
  <2>3. "W" \in events_ => "W" \in events_'
    BY <2>2
  <2> QED
    BY <2>1, <2>3, ZenonT(60) DEF FinQuiet, Early, Opened, IsWriting
<1> QED
  BY <1>1, <1>2, <1>3, <1>4, <1>5, <1>6, <1>7, <1>8, <1>9, <1>10, <1>11, <1>12

(* The functors, when no thread sends. *)
LEMMA FinFunctor ==
  ASSUME LifeInv, QueuesOK, program.threadOps = {}, RunFunctor
  PROVE  FinQuiet
<1> DEFINE f == Head(batch).name
<1>1. f \in QueuedNames
  BY NamesTail DEF QueuesOK, QueuedNames, RunFunctor
<1>2. f \notin RawFunctors /\ (f = "connectEstablished" => Early)
  BY <1>1, Zenon DEF LifeInv, Requests, RawFunctors, Early
<1> HIDE DEF f
<1>3. UNCHANGED <<outputVars, reset>>
  BY <1>2, ZenonT(60) DEF RunFunctor, RawFunctors, inputVars, f
<1>4. CASE UNCHANGED connVars
  BY <1>3, <1>4, Zenon
     DEF FinQuiet, Early, Opened, IsWriting, outputVars, connVars, channelVars
<1>5. CASE Early /\ state_' = "kConnected"
  BY <1>3, <1>5, Zenon DEF FinQuiet, Early, Opened, outputVars
<1>6. CASE state_' = "kDisconnected"
  BY <1>3, <1>6, Zenon DEF FinQuiet, Early, Opened, outputVars
<1>7. CASE state_' = state_ /\ ~Opened
  BY <1>3, <1>7, Zenon DEF FinQuiet, Early, Opened, outputVars
<1>8. f = "connectDestroyed" => state_ = "kDisconnected"
  BY <1>1, Zenon DEF LifeInv, Requests
<1> QED
  BY <1>2, <1>4, <1>5, <1>6, <1>7, <1>8, ZenonT(60)
  DEF RunFunctor, RawFunctors, ConnectEstablished, ConnectDestroyed, HandleCloseThen, f, Opened

LEMMA FinStep ==
  ASSUME IInv, LifeInv, FinInv, program.threadOps = {}, [Next]_serverVars
  PROVE  FinInv'
<1>1. OutputOK /\ QueuesOK
  BY DEF IInv
<1>2. CASE UNCHANGED serverVars
  <2>1. FinQuiet
    BY <1>2, Zenon
       DEF serverVars, vars, outputVars, inputVars, connVars, channelVars, FinQuiet,
                       Early, Opened, IsWriting
  <2> QED
    BY <2>1, FinQuietStep
<1>3. ASSUME NEW m \in Messages, Send(m) PROVE FinInv'
  <2>1. UNCHANGED <<state_, finSent, reset>>
    BY <1>3, ZenonT(60) DEF Send, inputVars
  <2>2. CASE state_ = "kConnected" /\ SendInLoop(m)
    BY <1>1, <2>1, <2>2, FinSend
  <2>3. CASE UNCHANGED <<channelVars, outputBuffer_, wire, accepted>>
    <3>1. FinQuiet
      BY <2>1, <2>3, Zenon DEF FinQuiet, Early, Opened, IsWriting, channelVars
    <3> QED
      BY <3>1, FinQuietStep
  <2> QED
    BY <1>3, <2>2, <2>3, ZenonT(60) DEF Send
<1>4. CASE Shutdown
  <2>1. /\ state_ = "kConnected" /\ state_' = "kDisconnecting" /\ ShutdownInLoop(IsWriting)
        /\ UNCHANGED <<channelVars, outputBuffer_, wire, accepted, reset>>
    BY <1>4, Zenon DEF Shutdown, inputVars
  <2>2. ~finSent /\ Opened
    BY <2>1, Zenon DEF FinInv, Opened
  <2>3. (Opened /\ outputBuffer_ # <<>> => IsWriting)'
    BY <2>1, <2>2, Zenon DEF FinInv, IsWriting, channelVars
  <2>4. FinAfterOutput'
    <3>1. SUFFICES ASSUME finSent', ~reset' PROVE wire' = accepted'
      BY DEF FinAfterOutput
    <3>2. ~IsWriting /\ outputBuffer_ = <<>>
      BY <2>1, <2>2, <3>1, Zenon DEF ShutdownInLoop, FinInv
    <3> QED
      BY <1>1, <2>1, <2>2, <3>1, <3>2, FinCloses
  <2> QED
    BY <2>1, <2>3, <2>4, Zenon DEF FinInv, Early
<1>5. CASE HandleWrite
  BY <1>1, <1>5, FinWrite
<1>6. CASE RunFunctor
  BY <1>1, <1>6, FinFunctor, FinQuietStep
<1>7. ASSUME NEW t \in Threads,
             (\E op \in program.threadOps : ThreadCalls(t, op)) \/ ThreadSetsState(t)
               \/ ThreadQueues(t)
      PROVE  FALSE
  <2>1. call[t] # <<>>
    BY <1>7 DEF ThreadSetsState, ThreadQueues
  <2> QED
    BY <2>1, Zenon DEF LifeInv, Requests
<1> QED
  BY <1>2, <1>3, <1>4, <1>5, <1>6, <1>7, FinLoop, FinQuietStep, ZenonT(60)
  DEF Next, LoopStep, HandlerStep, UserStep, Releases

(* shutdown() loses no output: for a disciplined program that sends in the loop *)
(* of the connection, the FIN leaves behind everything that sendInLoop accepted, *)
(* whether shutdownInLoop sends it at once or handleWrite after the last byte,  *)
(* unless the peer has reset the connection.                                   *)
THEOREM ShutdownAfterOutput ==
  ASSUME \A p \in Programs : Disciplined(p) /\ p.threadOps = {}
  PROVE  Spec => []FinAfterOutput
<1>1. IInv => program.threadOps = {}
  BY Zenon DEF IInv, QueuesOK
<1>2. IInv /\ LifeInv /\ FinInv /\ [Next]_serverVars => FinInv'
  BY <1>1, FinStep
<1>3. Spec => []LifeInv
  BY LifeInvariance
<1>4. FinInv => FinAfterOutput
  BY DEF FinInv
<1> QED
  BY <1>2, <1>3, <1>4, FinInit, Invariance, PTL DEF Spec

==============================================================================
