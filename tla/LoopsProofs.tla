----------------------------- MODULE LoopsProofs -----------------------------
(***************************************************************************)
(* Theorems about EventLoop, for any number of threads, functors and       *)
(* channels, and about the loops that a TcpServer starts (ServerStart),    *)
(* for any number of I/O threads and of clients, any programs and bounds.  *)
(***************************************************************************)
EXTENDS EventLoop, ServerStart, SequenceTheorems, TLAPS

(* In user code of the loop thread a call to queueInLoop may be half done;     *)
(* nowhere else in loop().                                                     *)
LoopCall ==
  call[LoopThread] # "none" => pc \in {"outside", "handler", "functor"}

(* The local vector of doPendingFunctors is empty outside of its for loop.     *)
LocalVector == pc \notin {"functors", "functor"} => functors = <<>>

(* Wherever loop() is, a functor that was not queued early has a wakeup under  *)
(* way, or loop() passes the swap before it polls again.                       *)
PendingWake ==
  ~(Elements(pendingFunctors_) \subseteq early) =>
    \/ wakeupFd_
    \/ \E t \in Threads : call[t] = "queued"
    \/ call[LoopThread] = "queued" /\ pc = "functor"
    \/ pc \in {"events", "handler", "swap"}

(* The inductive invariant of EventLoop. *)
IInv == TypeOK /\ LoopCall /\ LocalVector /\ PendingWake /\ NoLostQuit

(* The elements of a sequence after an append: what push_back does to          *)
(* pendingFunctors_.                                                           *)
LEMMA ElementsAppend ==
  ASSUME NEW Elem, NEW s \in Seq(Elem), NEW e \in Elem
  PROVE  Elements(Append(s, e)) = Elements(s) \cup {e}
<1> DEFINE a == Append(s, e)
<1>1. /\ DOMAIN s = 1 .. Len(s) /\ Len(s) \in Nat
      /\ DOMAIN a = 1 .. Len(s) + 1
      /\ \A i \in 1 .. Len(s) : a[i] = s[i]
      /\ a[Len(s) + 1] = e
  BY AppendProperties, LenProperties
<1> HIDE DEF a
<1>2. Elements(a) = Elements(s) \cup {e}
  BY <1>1, SMT DEF Elements
<1> QED
  BY <1>2 DEF a

(* The elements of a concatenation: the tasks of the abstract queue are those  *)
(* of the two vectors.                                                         *)
LEMMA ElementsConcat ==
  ASSUME NEW Elem, NEW s \in Seq(Elem), NEW t \in Seq(Elem)
  PROVE  Elements(s \o t) = Elements(s) \cup Elements(t)
<1> DEFINE c == s \o t
<1>1. /\ DOMAIN s = 1 .. Len(s) /\ Len(s) \in Nat
      /\ DOMAIN t = 1 .. Len(t) /\ Len(t) \in Nat
      /\ DOMAIN c = 1 .. Len(s) + Len(t)
      /\ \A i \in 1 .. Len(s) + Len(t) :
           c[i] = IF i <= Len(s) THEN s[i] ELSE t[i - Len(s)]
  BY ConcatProperties, LenProperties
<1> HIDE DEF c
<1>2. Elements(c) \subseteq Elements(s) \cup Elements(t)
  BY <1>1, SMTT(60) DEF Elements
<1>3. ASSUME NEW i \in 1 .. Len(s) PROVE s[i] \in Elements(c)
  <2>1. i \in DOMAIN c /\ c[i] = s[i]
    BY <1>1, <1>3
  <2> QED
    BY <2>1 DEF Elements
<1>4. ASSUME NEW i \in 1 .. Len(t) PROVE t[i] \in Elements(c)
  <2>1. i + Len(s) \in 1 .. Len(s) + Len(t) /\ ~(i + Len(s) <= Len(s))
        /\ (i + Len(s)) - Len(s) = i
    BY <1>1, <1>4
  <2>2. i + Len(s) \in DOMAIN c /\ c[i + Len(s)] = t[i]
    BY <1>1, <2>1
  <2> QED
    BY <2>2 DEF Elements
<1>5. Elements(c) = Elements(s) \cup Elements(t)
  BY <1>1, <1>2, <1>3, <1>4, Zenon DEF Elements
<1> QED
  BY <1>5 DEF c

(* Running the first functor of the local vector is running the first task of  *)
(* the abstract queue.                                                         *)
LEMMA HeadTailConcat ==
  ASSUME NEW Elem, NEW s \in Seq(Elem), NEW t \in Seq(Elem), s # <<>>
  PROVE  /\ s \o t # <<>>
         /\ Head(s \o t) = Head(s)
         /\ Tail(s \o t) = Tail(s) \o t
<1>1. /\ s \o t \in Seq(Elem) /\ Len(s \o t) = Len(s) + Len(t)
      /\ Len(s) \in Nat \ {0} /\ Len(t) \in Nat
  BY ConcatProperties, LenProperties, EmptySeq
<1>2. s \o t # <<>>
  BY <1>1, LenProperties, EmptySeq
<1>3. Head(s \o t) = Head(s)
  BY <1>1, <1>2, ConcatProperties, HeadTailProperties
<1>4. Tail(s \o t) = Tail(s) \o t
  BY <1>1, <1>2
<1> QED
  BY <1>2, <1>3, <1>4

(* Queueing at the end of pendingFunctors_ is queueing at the end of both.     *)
LEMMA ConcatAppend ==
  ASSUME NEW Elem, NEW s \in Seq(Elem), NEW t \in Seq(Elem), NEW e \in Elem
  PROVE  s \o Append(t, e) = Append(s \o t, e)
OBVIOUS

(* A step of loop() or of a caller keeps the types and the two flags right.    *)
LEMMA TypeStep == TypeOK /\ [Next]_vars => TypeOK'
<1> SUFFICES ASSUME TypeOK, [Next]_vars PROVE TypeOK'
  OBVIOUS
<1> USE LoopAssumption
<1>1. ASSUME NEW t \in AllThreads, NEW f \in Functors, QueueInLoop(t, f)
      PROVE  TypeOK'
  BY <1>1 DEF QueueInLoop, InUserCode, TypeOK, loopVars, history
<1>2. ASSUME NEW t \in AllThreads, QueueInLoopWakeup(t) PROVE TypeOK'
  BY <1>2 DEF QueueInLoopWakeup, TypeOK, loopVars, queueVars, history
<1>3. ASSUME NEW t \in AllThreads, Quit(t) PROVE TypeOK'
  BY <1>3 DEF Quit, TypeOK, loopVars, queueVars, history
<1>4. ASSUME NEW t \in AllThreads, QuitWakeup(t) PROVE TypeOK'
  BY <1>4 DEF QuitWakeup, TypeOK, loopVars, queueVars, history
<1>5. ASSUME NEW f \in Functors, RunInLoop(f) PROVE TypeOK'
  BY <1>5 DEF RunInLoop, TypeOK, loopVars, queueVars
<1>6. CASE While
  BY <1>6, Zenon DEF While, TypeOK, queueVars, history, Locations
<1>7. CASE PollReturn
  BY <1>7 DEF PollReturn, ReadyNow, TypeOK, queueVars, history, Locations
<1>8. CASE HandleWakeup
  BY <1>8, Zenon DEF HandleWakeup, TypeOK, queueVars, history
<1>9. ASSUME NEW ch \in Channels, HandleEvent(ch) PROVE TypeOK'
  BY <1>9 DEF HandleEvent, TypeOK, queueVars, history, Locations
<1>10. CASE ReturnToLoop
  BY <1>10 DEF ReturnToLoop, TypeOK, queueVars, history, Locations
<1>11. CASE DoPendingFunctors
  BY <1>11 DEF DoPendingFunctors, TypeOK, queueVars, history, Locations
<1>12. CASE SwapPending
  BY <1>12 DEF SwapPending, TypeOK, history, Locations
<1>13. CASE RunFunctor
  BY <1>13 DEF RunFunctor, TypeOK, queueVars, Locations
<1>14. CASE DoneCallingFunctors
  BY <1>14, Zenon DEF DoneCallingFunctors, TypeOK, queueVars, history, Locations
<1>15. CASE StartLoop
  BY <1>15, Zenon DEF StartLoop, TypeOK, queueVars, history, Locations
<1>16. CASE PollTimeout
  BY <1>16 DEF PollTimeout, TypeOK, queueVars, history, Locations
<1>17. ASSUME NEW ch \in Channels, FdReady(ch) PROVE TypeOK'
  BY <1>17 DEF FdReady, TypeOK, loopVars, queueVars, history
<1>18. CASE UNCHANGED vars
  BY <1>18 DEF vars, TypeOK, loopVars, queueVars, history
<1> QED
  BY <1>1, <1>2, <1>3, <1>4, <1>5, <1>6, <1>7, <1>8, <1>9, <1>10, <1>11, <1>12,
     <1>13, <1>14, <1>15, <1>16, <1>17, <1>18 DEF Next, CallNext, LoopStep

(* The wakeup protocol is kept by every step: the push and the wakeup of       *)
(* queueInLoop, quit() from another thread, the read of the eventfd, the swap. *)
LEMMA InvStep == IInv /\ [Next]_vars => IInv'
<1> SUFFICES ASSUME IInv, [Next]_vars PROVE IInv'
  OBVIOUS
<1> USE LoopAssumption
<1>0. TypeOK /\ TypeOK'
  BY TypeStep DEF IInv
<1>1. ASSUME NEW t \in AllThreads, NEW f \in Functors, QueueInLoop(t, f)
      PROVE  IInv'
  <2>1. Elements(pendingFunctors_)' = Elements(pendingFunctors_) \cup {f}
    BY <1>1, <1>0, ElementsAppend DEF QueueInLoop, TypeOK
  <2>2. /\ call' = [call EXCEPT ![t] = "queued"] /\ call[t] = "none"
        /\ UNCHANGED <<pc, functors, wakeupFd_, quit_>>
        /\ early' = IF t = LoopThread /\ pc = "outside" THEN early \cup {f} ELSE early
        /\ t = LoopThread => pc \in {"outside", "handler", "functor"}
    BY <1>1 DEF QueueInLoop, InUserCode, loopVars
  <2>3. PendingWake'
    BY <1>0, <2>1, <2>2 DEF IInv, PendingWake, TypeOK, AllThreads
  <2>4. LoopCall' /\ LocalVector' /\ NoLostQuit'
    BY <1>0, <2>2 DEF IInv, LoopCall, LocalVector, NoLostQuit, TypeOK, AllThreads
  <2> QED
    BY <1>0, <2>3, <2>4 DEF IInv
<1>2. ASSUME NEW t \in AllThreads, QueueInLoopWakeup(t) PROVE IInv'
  BY <1>0, <1>2, Zenon DEF QueueInLoopWakeup, MustWakeup, IInv, LoopCall, LocalVector,
     PendingWake, NoLostQuit, TypeOK, AllThreads, loopVars, queueVars
<1>3. ASSUME NEW t \in AllThreads, Quit(t) PROVE IInv'
  BY <1>0, <1>3 DEF Quit, InUserCode, IInv, LoopCall, LocalVector,
     PendingWake, NoLostQuit, TypeOK, AllThreads, loopVars, queueVars
<1>4. ASSUME NEW t \in AllThreads, QuitWakeup(t) PROVE IInv'
  BY <1>0, <1>4 DEF QuitWakeup, IInv, LoopCall, LocalVector,
     PendingWake, NoLostQuit, TypeOK, AllThreads, loopVars, queueVars
<1>5. ASSUME NEW f \in Functors, RunInLoop(f) PROVE IInv'
  BY <1>0, <1>5 DEF RunInLoop, IInv, LoopCall, LocalVector,
     PendingWake, NoLostQuit, loopVars, queueVars
<1>6. CASE While \/ StartLoop \/ PollTimeout
  BY <1>0, <1>6 DEF While, StartLoop, PollTimeout, IInv, LoopCall, LocalVector,
     PendingWake, NoLostQuit, queueVars, history
<1>7. CASE PollReturn \/ HandleWakeup \/ DoPendingFunctors \/ DoneCallingFunctors
  BY <1>0, <1>7 DEF PollReturn, HandleWakeup, DoPendingFunctors, DoneCallingFunctors,
     IInv, LoopCall, LocalVector, PendingWake, NoLostQuit, queueVars, history
<1>8. ASSUME NEW ch \in Channels, HandleEvent(ch) PROVE IInv'
  BY <1>0, <1>8 DEF HandleEvent, IInv, LoopCall, LocalVector,
     PendingWake, NoLostQuit, queueVars, history
<1>9. CASE ReturnToLoop \/ RunFunctor
  BY <1>0, <1>9 DEF ReturnToLoop, RunFunctor, IInv, LoopCall, LocalVector,
     PendingWake, NoLostQuit, TypeOK, queueVars, history
<1>10. CASE SwapPending
  <2>1. Elements(pendingFunctors_)' = {}
    BY <1>10 DEF SwapPending, Elements
  <2> QED
    BY <1>0, <1>10, <2>1 DEF SwapPending, IInv, LoopCall, LocalVector,
       PendingWake, NoLostQuit
<1>11. ASSUME NEW ch \in Channels, FdReady(ch) PROVE IInv'
  BY <1>0, <1>11 DEF FdReady, IInv, LoopCall, LocalVector,
     PendingWake, NoLostQuit, loopVars, queueVars
<1>12. CASE UNCHANGED vars
  BY <1>0, <1>12 DEF vars, IInv, LoopCall, LocalVector,
     PendingWake, NoLostQuit, loopVars, queueVars
<1> QED
  BY <1>1, <1>2, <1>3, <1>4, <1>5, <1>6, <1>7, <1>8, <1>9, <1>10, <1>11, <1>12
     DEF Next, CallNext, LoopStep

(* The invariant holds when the EventLoop has been constructed.                *)
LEMMA InvInit == Init => IInv
<1> SUFFICES ASSUME Init PROVE IInv
  OBVIOUS
<1>1. TypeOK
  <2>1. call \in [AllThreads -> {"none", "queued", "quitting"}]
    BY DEF Init
  <2>2. <<>> \in Seq(Functors)
    OBVIOUS
  <2> QED
    BY <2>1, <2>2, Zenon DEF Init, TypeOK, Locations
<1>2. Elements(pendingFunctors_) = {}
  BY DEF Init, Elements
<1>3. LoopCall /\ LocalVector /\ PendingWake /\ NoLostQuit
  BY <1>2 DEF Init, LoopCall, LocalVector, PendingWake, NoLostQuit
<1> QED
  BY <1>1, <1>3 DEF IInv

(* The invariant of the wakeup protocol holds in every reachable state.        *)
THEOREM Invariance == Spec => []IInv
BY InvInit, InvStep, PTL DEF Spec

(* Type correctness, with looping_ and callingPendingFunctors_ set exactly     *)
(* while loop() and doPendingFunctors run.                                     *)
THEOREM TypeCorrect == Spec => []TypeOK
<1>1. IInv => TypeOK
  BY DEF IInv
<1> QED
  BY <1>1, Invariance, PTL

(* queueInLoop's test for wakeup() loses no functor, for any number of threads *)
(* and functors.                                                               *)
THEOREM WakeupNotLost == Spec => []NoLostWakeup
<1>1. IInv => NoLostWakeup
  BY DEF IInv, TypeOK, PendingWake, NoLostWakeup
<1> QED
  BY <1>1, Invariance, PTL

(* quit() from another thread is never slept over in poll().                   *)
THEOREM QuitNotLost == Spec => []NoLostQuit
<1>1. IInv => NoLostQuit
  BY DEF IInv
<1> QED
  BY <1>1, Invariance, PTL

(* Initially both vectors are empty, and so is the abstract queue.             *)
LEMMA RefinesInit == Init => Tasks!Init
<1>1. <<>> \o <<>> = <<>>
  OBVIOUS
<1> QED
  BY <1>1 DEF Init, Tasks!Init

(* Every step of EventLoop is a step of the abstract queue or leaves it alone: *)
(* queueInLoop submits, a call of a functor runs the oldest task, runInLoop in *)
(* the loop thread runs now, and the swap is invisible.                        *)
LEMMA RefinesStep == IInv /\ [Next]_vars => [Tasks!Next]_Tasks!vars
<1> SUFFICES ASSUME IInv, [Next]_vars PROVE [Tasks!Next]_Tasks!vars
  OBVIOUS
<1> DEFINE todo == functors \o pendingFunctors_
<1>0. functors \in Seq(Functors) /\ pendingFunctors_ \in Seq(Functors)
  BY DEF IInv, TypeOK
<1>a. ASSUME NEW f, NeverGiven(f) PROVE Tasks!Fresh(f)
  BY <1>0, <1>a, ElementsConcat DEF NeverGiven, Tasks!Fresh, Tasks!Elements, Elements
<1>1. ASSUME NEW t \in AllThreads, NEW f \in Functors, QueueInLoop(t, f)
      PROVE  Tasks!Submit(f)
  <2>1. todo' = Append(todo, f)
    BY <1>0, <1>1, ConcatAppend DEF QueueInLoop, loopVars
  <2> QED
    BY <1>1, <1>a, <2>1 DEF QueueInLoop, Tasks!Submit, history
<1>2. ASSUME NEW f \in Functors, RunInLoop(f) PROVE Tasks!RunNow(f)
  BY <1>2, <1>a DEF RunInLoop, Tasks!RunNow, loopVars, queueVars
<1>3. CASE RunFunctor
  <2>1. todo # <<>> /\ Head(todo) = Head(functors) /\ todo' = Tail(todo)
    BY <1>0, <1>3, HeadTailConcat, Zenon DEF RunFunctor, queueVars
  <2>2. Tasks!Run
    BY <1>3, <2>1 DEF RunFunctor, Tasks!Run
  <2> QED
    BY <2>2 DEF Tasks!Next
<1>4. CASE SwapPending
  <2>1. functors = <<>>
    BY <1>4 DEF IInv, LocalVector, SwapPending
  <2>2. todo' = todo
    BY <1>0, <1>4, <2>1, ConcatEmptySeq DEF SwapPending
  <2> QED
    BY <1>4, <2>2 DEF SwapPending, history, Tasks!vars
<1>5. ASSUME UNCHANGED <<functors, pendingFunctors_, done, inline>>
      PROVE  UNCHANGED Tasks!vars
  BY <1>5 DEF Tasks!vars
<1>6. ASSUME NEW t \in AllThreads, QueueInLoopWakeup(t) \/ Quit(t) \/ QuitWakeup(t)
      PROVE  UNCHANGED Tasks!vars
  BY <1>5, <1>6 DEF QueueInLoopWakeup, Quit, QuitWakeup, loopVars, queueVars, history
<1>7. ASSUME NEW ch \in Channels, HandleEvent(ch) \/ FdReady(ch)
      PROVE  UNCHANGED Tasks!vars
  BY <1>5, <1>7 DEF HandleEvent, FdReady, loopVars, queueVars, history
<1>8. CASE While \/ PollReturn \/ HandleWakeup \/ ReturnToLoop \/ DoPendingFunctors
           \/ DoneCallingFunctors \/ StartLoop \/ PollTimeout
  BY <1>5, <1>8 DEF While, PollReturn, HandleWakeup, ReturnToLoop, DoPendingFunctors,
     DoneCallingFunctors, StartLoop, PollTimeout, queueVars, history
<1>9. CASE UNCHANGED vars
  BY <1>5, <1>9 DEF vars, loopVars, queueVars, history
<1> HIDE DEF todo
<1> QED
  BY <1>1, <1>2, <1>3, <1>4, <1>6, <1>7, <1>8, <1>9
     DEF Next, CallNext, LoopStep, Tasks!Next

(* The pair of vectors and the swap implement one FIFO queue that runs every   *)
(* functor at most once, in the order in which queueInLoop accepted them.      *)
THEOREM Refinement == Spec => ImplementsTaskQueue
BY RefinesInit, RefinesStep, Invariance, PTL DEF Spec, Tasks!Spec, ImplementsTaskQueue

-----------------------------------------------------------------------------
(* ServerStart, for any number of I/O threads and of clients, any hashes and *)
(* any quitters.                                                             *)

(* The thread of the loop is the first to call start(), and the pool is not  *)
(* destroyed while a thread that it started has not entered loop() yet.      *)
PatientServers == \A p \in ServerPrograms : p.patient /\ ~p.anyFirst

(* Where a thread has told startLoop of its loop, and where the base thread    *)
(* is in start() and in the destructor.                                        *)
Published == {"published", "looping", "left", "cleared", "ended"}
ThreadPlaces == {"none", "created", "counted", "called"} \cup Published
InStart == {"create", "latch", "startLoop"}
InDestructor == {"destroy", "quit", "join"}

(* The types of the variables of ServerStart. *)
ServerTypes ==
  /\ serverProgram \in ServerPrograms
  /\ serverProgram.numThreads_ \in Nat /\ 1 .. serverProgram.numThreads_ \subseteq PoolThreads
  /\ PoolThreads \subseteq Nat \ {0}
  /\ serverStarted \in {0, 1}
  /\ loops_ \in Seq(Nat) /\ next_ \in Nat /\ starting \in Nat
  /\ base \in {"idle", "listen", "serving", "done"} \cup InStart \cup InDestructor
  /\ at \in [PoolThreads -> ThreadPlaces]
  /\ loop_ \in [PoolThreads -> BOOLEAN]
  /\ poolQuit_ \in [PoolThreads -> BOOLEAN]
  /\ given \in [PoolThreads \cup {BaseLoop} -> Nat]

(* What start() has done when the base thread is at each place. *)
StartOK ==
  /\ base = "idle" <=> serverStarted = 0
  /\ base = "idle" => ~started_ /\ loops_ = <<>>
  /\ base # "idle" /\ serverProgram.numThreads_ = 0 => BaseLoop \in serverCalled
  /\ \A k \in 1 .. Len(loops_) : loops_[k] = k
  /\ Len(loops_) <= serverProgram.numThreads_
  /\ base \in InStart => starting = Len(loops_) + 1 /\ starting <= serverProgram.numThreads_
  /\ base \notin {"idle"} \cup InStart => Len(loops_) = serverProgram.numThreads_
  /\ base \in {"idle", "listen"} \cup InStart => ~listening_
  /\ base \notin InDestructor \cup {"done"} => freed = {}

(* Where the I/O threads are.  One whose EventLoopThread is destroyed has      *)
(* ended, and before the pool is destroyed only quitters quit.                 *)
ThreadOK(t) ==
  /\ loop_[t] <=> at[t] \in {"published", "looping", "left"}
  /\ at[t] \in {"called"} \cup Published => t \in serverCalled
  /\ t <= Len(loops_) => at[t] \in Published
  /\ (Len(loops_) < t /\ (base \in {"latch", "startLoop"} => starting < t)) => at[t] = "none"
  /\ t \in freed => at[t] = "ended"
  /\ (at[t] = "looping" /\ t \notin serverProgram.quitters /\
      base \notin InDestructor \cup {"done"})
       => ~poolQuit_[t]

(* So it is for all of them. *)
ThreadsOK == \A t \in PoolThreads : ThreadOK(t)

(* A thread that has ended by itself, or has not been told to quit. *)
Untold(t) ==
  at[t] = "ended" \/ (at[t] = "looping" /\ ~poolQuit_[t] /\ t \notin serverProgram.quitters)

(* The destructor finds each thread in loop() or ended. *)
EndOK ==
  base \in InDestructor =>
    /\ starting \in 1 .. Len(loops_)
    /\ \A t \in PoolThreads :
         (t <= Len(loops_) /\ (starting < t \/ (starting = t /\ base # "join"))) => Untold(t)
    /\ base = "quit" => at[starting] = "looping"

(* The loops up to next_ have had one connection more than the others. *)
RoundOK ==
  /\ next_ = 0 \/ next_ < Len(loops_)
  /\ base \in {"idle", "listen"} \cup InStart => next_ = 0 /\ \A t \in PoolThreads : given[t] = 0
  /\ \A k, m \in 1 .. Len(loops_) :
       /\ (k <= next_ <=> m <= next_) => given[k] = given[m]
       /\ (k <= next_ /\ next_ < m) => given[k] = given[m] + 1

(* The inductive invariant of ServerStart. *)
ServerInv == ServerTypes /\ StartOK /\ ThreadsOK /\ EndOK /\ RoundOK /\ NothingFails

-----------------------------------------------------------------------------
(* Init establishes the invariant. *)
LEMMA ServerInitially == ASSUME ServerInit PROVE ServerInv
<1> USE ServerAssumption DEF ServerInit, PoolInit, AcceptorInit
<1>1. ServerTypes
  BY DEF ServerTypes, InStart, InDestructor, ThreadPlaces
<1>2. StartOK
  BY <1>1 DEF StartOK, InStart, InDestructor, ServerTypes
<1>3. ThreadsOK /\ EndOK /\ RoundOK /\ NothingFails
  BY DEF ThreadsOK, ThreadOK, EndOK, RoundOK, NothingFails, InStart, InDestructor, Published
<1> QED
  BY <1>1, <1>2, <1>3 DEF ServerInv

(* loops_ has no more elements than the pool has threads. *)
LEMMA PoolSize ==
  ASSUME ServerInv
  PROVE  /\ serverProgram.numThreads_ \in Nat /\ Len(loops_) \in Nat /\ starting \in Nat
         /\ PoolThreads \subseteq Nat \ {0}
         /\ \A k \in 1 .. serverProgram.numThreads_ : k \in PoolThreads
         /\ \A k \in 1 .. Len(loops_) : k \in PoolThreads
<1>1. /\ serverProgram \in ServerPrograms /\ loops_ \in Seq(Nat) /\ starting \in Nat
      /\ Len(loops_) <= serverProgram.numThreads_
  BY Zenon DEF ServerInv, ServerTypes, StartOK
<1>2. serverProgram.numThreads_ \in Nat /\ PoolThreads \subseteq Nat \ {0}
      /\ 1 .. serverProgram.numThreads_ \subseteq PoolThreads
  BY Zenon DEF ServerInv, ServerTypes
<1>3. Len(loops_) \in Nat
  BY <1>1
<1>4. \A k \in 1 .. Len(loops_) : k \in 1 .. serverProgram.numThreads_
  BY <1>1, <1>2, <1>3
<1> QED
  BY <1>1, <1>2, <1>3, <1>4, Zenon

(* Steps of the acceptor and of clients that leave the pool alone.            *)
LEMMA TypesKept ==
  ASSUME ServerInv,
         UNCHANGED <<serverProgram, started_, loops_, next_, base, starting, at, loop_,
                     poolQuit_, serverCalled, freed, given, failed, listening_, serverStarted>>
  PROVE  ServerInv'
<1>1. ServerTypes'
  BY Zenon DEF ServerInv, ServerTypes
<1>2. StartOK'
  BY Zenon DEF ServerInv, StartOK
<1>3. ThreadsOK'
  BY Zenon DEF ServerInv, ThreadsOK, ThreadOK
<1>4. EndOK'
  BY Zenon DEF ServerInv, EndOK, Untold
<1>5. RoundOK' /\ NothingFails'
  BY Zenon DEF ServerInv, RoundOK, NothingFails
<1> QED
  BY <1>1, <1>2, <1>3, <1>4, <1>5, Zenon DEF ServerInv

(* A step that leaves the pool, the acceptor and the flag of start() alone.    *)
LEMMA ServerFrame ==
  ASSUME ServerInv, UNCHANGED <<poolVars, listening_, serverStarted>>
  PROVE  ServerInv'
  BY TypesKept, Zenon DEF poolVars

(* What accept() and the clients do is such a step. *)
LEMMA AcceptorKeeps ==
  ASSUME Serving \/ Network
  PROVE  UNCHANGED <<poolVars, listening_, serverStarted>>
  BY Zenon
  DEF Serving, Network, EmfileStep, AcceptFails, AcceptIdle, CloseIdle, ReopenIdle,
               ClientConnects, ClientGivesUp, ConnectionCloses

(* start(): only the first call reaches the pool. *)
LEMMA CallStartStep ==
  ASSUME PatientServers, ServerInv, NEW caller \in StartCalls, CallStart(caller)
  PROVE  ServerInv'
<1>1. /\ serverProgram \in ServerPrograms /\ serverProgram.numThreads_ \in Nat
      /\ ~serverProgram.anyFirst
  BY DEF ServerInv, ServerTypes, PatientServers
<1>2. CASE serverStarted # 0
  <2>1. UNCHANGED <<poolVars, listening_, serverStarted>>
    BY <1>2 DEF CallStart, ServerInv, ServerTypes, acceptorVars
  <2> QED
    BY <2>1, ServerFrame
<1>3. CASE serverStarted = 0
  <2>1. base = "idle" /\ ~started_ /\ loops_ = <<>> /\ ~listening_ /\ freed = {}
    BY <1>3 DEF ServerInv, StartOK, InDestructor
  <2>2. caller = "loopThread"
    BY <1>1, <1>3 DEF CallStart, MayStart, StartCalls
  <2>3. /\ failed' = {} /\ started_' = TRUE /\ starting' = 1 /\ serverStarted' = 1
        /\ serverCalled' = IF serverProgram.numThreads_ = 0 THEN serverCalled \cup {BaseLoop}
            ELSE serverCalled
        /\ base' = IF 0 < serverProgram.numThreads_ THEN "create" ELSE "listen"
        /\ UNCHANGED <<serverProgram, loops_, next_, asleep, at, count_, loop_, poolQuit_,
                       freed, given, listening_>>
    BY <1>3, <2>1, <2>2
    DEF CallStart, StartPool, AfterThread, Unless, acceptorVars, ServerInv,
        NothingFails
  <2>4. ServerTypes'
    BY <2>3 DEF ServerInv, ServerTypes, InStart
  <2>5. StartOK'
    BY <1>1, <2>1, <2>3 DEF ServerInv, StartOK, InStart, InDestructor
  <2>6. ThreadsOK'
    BY <2>1, <2>3 DEF ServerInv, ThreadsOK, ThreadOK, InDestructor
  <2>7. EndOK' /\ NothingFails'
    BY <2>3 DEF EndOK, InDestructor, NothingFails
  <2>8. RoundOK'
    BY <2>1, <2>3 DEF ServerInv, RoundOK
  <2> QED
    BY <2>4, <2>5, <2>6, <2>7, <2>8, Zenon DEF ServerInv
<1> QED
  BY <1>2, <1>3

(* Acceptor::listen, when all loops are in the pool. *)
LEMMA StartListeningStep ==
  ASSUME ServerInv, StartListening
  PROVE  ServerInv'
<1>1. /\ base = "listen" /\ base' = "serving" /\ ~listening_ /\ failed' = {}
      /\ UNCHANGED <<serverProgram, started_, loops_, next_, asleep, starting, freed, given,
                     serverStarted, at, count_, loop_, poolQuit_, serverCalled>>
  BY DEF StartListening, threadVars, ServerInv, NothingFails, StartOK, Unless
<1>2. ServerTypes' /\ EndOK' /\ NothingFails'
  BY <1>1 DEF ServerInv, ServerTypes, EndOK, InDestructor, NothingFails
<1>3. StartOK'
  BY <1>1 DEF ServerInv, StartOK, InStart, InDestructor
<1>4. ThreadsOK' /\ RoundOK'
  BY <1>1 DEF ServerInv, ThreadsOK, ThreadOK, RoundOK, InStart, InDestructor
<1> QED
  BY <1>2, <1>3, <1>4, Zenon DEF ServerInv

(* getNextLoop gives the connection to the loop after next_. *)
LEMMA NewConnectionStep ==
  ASSUME ServerInv, NewConnection
  PROVE  ServerInv'
<1>0. /\ loops_ \in Seq(Nat) /\ Len(loops_) \in Nat /\ next_ \in Nat
      /\ given \in [PoolThreads \cup {BaseLoop} -> Nat]
      /\ 1 .. Len(loops_) \subseteq PoolThreads
      /\ \A k \in 1 .. Len(loops_) : loops_[k] = k
      /\ next_ = 0 \/ next_ < Len(loops_)
  BY PoolSize DEF ServerInv, ServerTypes, StartOK, RoundOK
<1>1. /\ base = "serving" /\ UseNextLoop
      /\ UNCHANGED <<serverProgram, started_, loops_, base, starting, at, loop_, poolQuit_,
                     serverCalled, freed, failed, serverStarted, listening_>>
  BY Zenon DEF NewConnection, AcceptConnection
<1> DEFINE Dealt == RoundOK' /\ next_' \in Nat /\ given' \in [PoolThreads \cup {BaseLoop} -> Nat]
<1>2. ASSUME loops_ = <<>> PROVE Dealt
  <2>1. next_' = next_ /\ given' \in [PoolThreads \cup {BaseLoop} -> Nat]
    BY <1>0, <1>1, <1>2 DEF UseNextLoop, GetNextLoop
  <2>2. RoundOK'
    BY <1>0, <1>1, <1>2, <2>1 DEF RoundOK, InStart, ServerInv
  <2> QED
    BY <1>0, <2>1, <2>2
<1>3. ASSUME loops_ # <<>> PROVE Dealt
  <2>1. Len(loops_) > 0 /\ next_ < Len(loops_) /\ loops_[next_ + 1] = next_ + 1
        /\ next_ + 1 \in PoolThreads
    BY <1>0, <1>3
  <2>2. /\ given' = [given EXCEPT ![next_ + 1] = @ + 1]
        /\ next_' = IF next_ + 1 >= Len(loops_) THEN 0 ELSE next_ + 1
    BY <1>1, <1>3, <2>1 DEF UseNextLoop, GetNextLoop
  <2>3. \A k \in 1 .. Len(loops_) : given[k] \in Nat
                                    /\ given'[k] = IF k = next_ + 1 THEN given[k] + 1 ELSE given[k]
    BY <1>0, <2>2
  <2>4. \A k, m \in 1 .. Len(loops_) :
          /\ (k <= next_ <=> m <= next_) => given[k] = given[m]
          /\ (k <= next_ /\ next_ < m) => given[k] = given[m] + 1
    BY DEF ServerInv, RoundOK
  <2>5. \A k, m \in 1 .. Len(loops_) :
          /\ (k <= next_' <=> m <= next_') => given'[k] = given'[m]
          /\ (k <= next_' /\ next_' < m) => given'[k] = given'[m] + 1
    <3> SUFFICES ASSUME NEW k \in 1 .. Len(loops_), NEW m \in 1 .. Len(loops_)
                 PROVE  /\ (k <= next_' <=> m <= next_') => given'[k] = given'[m]
                        /\ (k <= next_' /\ next_' < m) => given'[k] = given'[m] + 1
      OBVIOUS
    <3>1. /\ (k <= next_ <=> m <= next_) => given[k] = given[m]
          /\ (k <= next_ /\ next_ < m) => given[k] = given[m] + 1
          /\ (m <= next_ /\ next_ < k) => given[m] = given[k] + 1
      BY <2>4
    <3>2. /\ given[k] \in Nat /\ given'[k] = IF k = next_ + 1 THEN given[k] + 1 ELSE given[k]
          /\ given[m] \in Nat /\ given'[m] = IF m = next_ + 1 THEN given[m] + 1 ELSE given[m]
      BY <2>3
    <3>3. next_ \in Nat /\ Len(loops_) \in Nat /\ next_ < Len(loops_)
          /\ next_' = IF next_ + 1 >= Len(loops_) THEN 0 ELSE next_ + 1
      BY <1>0, <2>1, <2>2
    <3>4. CASE next_ + 1 >= Len(loops_)
      <4>1. next_' = 0 /\ next_ + 1 = Len(loops_)
        BY <3>3, <3>4
      <4>2. given'[k] = given'[m]
        BY <3>1, <3>2, <3>3, <4>1
      <4> QED
        BY <4>1, <4>2
    <3>5. CASE next_ + 1 < Len(loops_)
      <4>1. next_' = next_ + 1
        BY <3>3, <3>5
      <4>2. (k <= next_' <=> m <= next_') => given'[k] = given'[m]
        BY <3>1, <3>2, <3>3, <4>1
      <4>3. (k <= next_' /\ next_' < m) => given'[k] = given'[m] + 1
        BY <3>1, <3>2, <3>3, <4>1
      <4> QED
        BY <4>2, <4>3
    <3> QED
      BY <3>3, <3>4, <3>5
  <2>6. next_' \in Nat /\ (next_' = 0 \/ next_' < Len(loops_))
        /\ given' \in [PoolThreads \cup {BaseLoop} -> Nat]
    BY <1>0, <2>1, <2>2
  <2>7. RoundOK'
    BY <1>1, <2>5, <2>6 DEF RoundOK, InStart
  <2> QED
    BY <2>6, <2>7
<1>4. RoundOK' /\ next_' \in Nat /\ given' \in [PoolThreads \cup {BaseLoop} -> Nat]
  BY <1>2, <1>3
<1>5. ServerTypes'
  BY <1>1, <1>4, Zenon DEF ServerInv, ServerTypes
<1>6. StartOK' /\ NothingFails'
  BY <1>1, Zenon DEF ServerInv, StartOK, NothingFails
<1>7. ThreadsOK' /\ EndOK'
  BY <1>1, Zenon DEF ServerInv, ThreadsOK, ThreadOK, EndOK, Untold
<1> QED
  BY <1>4, <1>5, <1>6, <1>7, Zenon DEF ServerInv

(* pthread_create, and the waits of Thread::start. *)
LEMMA CreateThreadStep ==
  ASSUME ServerInv, CreateThread, Keep
  PROVE  ServerInv'
<1>1. /\ base = "create" /\ base' = "latch" /\ at' = [at EXCEPT ![starting] = "created"]
      /\ UNCHANGED <<serverProgram, started_, loops_, next_, starting, loop_, poolQuit_,
                     serverCalled, freed, given, failed, listening_, serverStarted>>
  BY Zenon DEF CreateThread, Keep, acceptorVars
<1>2. /\ starting = Len(loops_) + 1 /\ Len(loops_) \in Nat /\ starting \in PoolThreads
      /\ freed = {}
      /\ PoolThreads \subseteq Nat
  BY <1>1, PoolSize DEF ServerInv, StartOK, InStart, InDestructor
<1>3. at[starting] = "none" /\ ~loop_[starting]
  BY <1>1, <1>2 DEF ServerInv, ThreadsOK, ThreadOK
<1>4. ServerTypes'
  BY <1>1, <1>2 DEF ServerInv, ServerTypes, InStart, ThreadPlaces
<1>5. StartOK'
  BY <1>1 DEF ServerInv, StartOK, InStart, InDestructor
<1>6. ThreadsOK'
  <2> SUFFICES ASSUME NEW t \in PoolThreads PROVE ThreadOK(t)'
    BY Zenon DEF ThreadsOK
  <2>1. ThreadOK(t) /\ t \in Nat /\ at \in [PoolThreads -> ThreadPlaces]
    BY <1>2 DEF ServerInv, ServerTypes, ThreadsOK
  <2>2. CASE t = starting
    BY <1>1, <1>2, <1>3, <2>1, <2>2 DEF ThreadOK, Published
  <2>3. CASE t # starting
    <3>1. at'[t] = at[t]
      BY <1>1, <2>1, <2>3
    <3> QED
      BY <1>1, <1>2, <2>1, <2>3, <3>1 DEF ThreadOK, InDestructor
  <2> QED
    BY <2>2, <2>3
<1>7. EndOK' /\ RoundOK' /\ NothingFails'
  BY <1>1 DEF ServerInv, EndOK, RoundOK, NothingFails, InStart, InDestructor
<1> QED
  BY <1>4, <1>5, <1>6, <1>7, Zenon DEF ServerInv

(* Thread::start returns when the thread counts its latch down. *)
LEMMA LatchWaitStep ==
  ASSUME ServerInv, LatchWait \/ WakeBase, Keep
  PROVE  ServerInv'
<1>1. /\ base' = base \/ (base = "latch" /\ base' = "startLoop")
      /\ UNCHANGED <<serverProgram, started_, loops_, next_, starting, at, loop_, poolQuit_,
                     serverCalled, freed, given, failed, listening_, serverStarted>>
  BY Zenon DEF LatchWait, WakeBase, Keep, acceptorVars, threadVars
<1>2. ServerTypes'
  BY <1>1 DEF ServerInv, ServerTypes, InStart
<1>3. StartOK'
  BY <1>1 DEF ServerInv, StartOK, InStart, InDestructor
<1>4. ThreadsOK'
  BY <1>1 DEF ServerInv, ThreadsOK, ThreadOK, InDestructor
<1>5. EndOK' /\ RoundOK' /\ NothingFails'
  BY <1>1 DEF ServerInv, EndOK, RoundOK, NothingFails, InStart, InDestructor, Untold
<1> QED
  BY <1>2, <1>3, <1>4, <1>5, Zenon DEF ServerInv

(* loops_.push_back.  loop_ is set, so that the thread has run the callback. *)
LEMMA StartLoopStep ==
  ASSUME ServerInv, StartLoopWait, Keep
  PROVE  ServerInv'
<1>1. CASE UNCHANGED <<loops_, starting, base>>
  <2>1. UNCHANGED <<serverProgram, started_, loops_, next_, base, starting, at, loop_,
                    poolQuit_, serverCalled, freed, given, failed, listening_, serverStarted>>
    BY <1>1, Zenon DEF StartLoopWait, Keep, acceptorVars, threadVars
  <2> QED
    BY <2>1, TypesKept
<1>2. CASE /\ loop_[starting] /\ loops_' = Append(loops_, starting)
           /\ starting' = starting + 1 /\ base' = AfterThread(starting)
  <2>1. /\ base = "startLoop"
        /\ UNCHANGED <<serverProgram, started_, next_, at, loop_, poolQuit_, serverCalled,
                       freed, given, failed, listening_, serverStarted>>
    BY Zenon DEF StartLoopWait, Keep, acceptorVars, threadVars
  <2>2. /\ starting = Len(loops_) + 1 /\ Len(loops_) \in Nat /\ starting \in PoolThreads
        /\ freed = {}
        /\ starting <= serverProgram.numThreads_ /\ loops_ \in Seq(Nat) /\ starting \in Nat
        /\ serverProgram.numThreads_ \in Nat /\ PoolThreads \subseteq Nat
    BY <2>1, PoolSize DEF ServerInv, StartOK, ServerTypes, InStart, InDestructor
  <2>3. /\ loops_' \in Seq(Nat) /\ Len(loops_') = starting
        /\ \A k \in 1 .. Len(loops_) : loops_'[k] = loops_[k]
        /\ loops_'[starting] = starting
    BY <1>2, <2>2
  <2>4. base' = IF starting < serverProgram.numThreads_ THEN "create" ELSE "listen"
    BY <1>2 DEF AfterThread
  <2>5. ServerTypes'
    BY <1>2, <2>1, <2>2, <2>3, <2>4 DEF ServerInv, ServerTypes, InStart
  <2>6. StartOK'
    <3>1. \A k \in 1 .. Len(loops_') : loops_'[k] = k
      <4>1. \A k \in 1 .. Len(loops_) : loops_[k] = k
        BY Zenon DEF ServerInv, StartOK
      <4> QED
        BY <2>2, <2>3, <4>1
    <3> QED
      BY <1>2, <2>1, <2>2, <2>3, <2>4, <3>1 DEF ServerInv, StartOK, InStart, InDestructor
  <2>7. at[starting] \in Published
    BY <1>2, <2>2 DEF ServerInv, ThreadsOK, ThreadOK, Published
  <2>8. ThreadsOK'
    BY <2>1, <2>2, <2>3, <2>4, <2>7
       DEF ServerInv, ThreadsOK, ThreadOK, InDestructor
  <2>9. RoundOK'
    <3>1. next_' = 0 /\ \A t \in PoolThreads : given'[t] = 0
      BY <2>1 DEF ServerInv, RoundOK, InStart
    <3>2. \A k \in 1 .. Len(loops_') : k \in PoolThreads /\ ~(k <= next_')
      BY <2>2, <2>3, <3>1, PoolSize
    <3> QED
      BY <3>1, <3>2 DEF RoundOK
  <2>10. EndOK' /\ NothingFails'
    BY <2>1, <2>4 DEF ServerInv, EndOK, NothingFails, InDestructor
  <2> QED
    BY <2>5, <2>6, <2>8, <2>9, <2>10, Zenon DEF ServerInv
<1> QED
  BY <1>1, <1>2, Zenon DEF StartLoopWait

-----------------------------------------------------------------------------
(* A step of the I/O thread t: what it has to ensure about t. *)
Moved(t) ==
  /\ at' \in [PoolThreads -> ThreadPlaces]
  /\ loop_' \in [PoolThreads -> BOOLEAN] /\ poolQuit_' \in [PoolThreads -> BOOLEAN]
  /\ \A u \in PoolThreads \ {t} : at'[u] = at[u] /\ loop_'[u] = loop_[u] /\
      poolQuit_'[u] = poolQuit_[u]
  /\ serverCalled \subseteq serverCalled'
  /\ at[t] \notin {"none", "ended"}
  /\ loop_'[t] <=> at'[t] \in {"published", "looping", "left"}
  /\ at'[t] \in {"called"} \cup Published => t \in serverCalled'
  /\ at[t] \in Published => at'[t] \in Published
  /\ (at'[t] = "looping" /\ t \notin serverProgram.quitters /\
      base \notin InDestructor \cup {"done"})
       => ~poolQuit_'[t]
  /\ (at[t] = "looping" /\ ~poolQuit_[t] /\ t \notin serverProgram.quitters)
       => (at'[t] = "looping" /\ ~poolQuit_'[t])

(* A step that moves one I/O thread, and nothing of the base thread, keeps the invariant. *)
LEMMA MovedStep ==
  ASSUME ServerInv, NEW t \in PoolThreads, Moved(t), failed' = {},
         UNCHANGED <<serverProgram, started_, loops_, next_, base, starting, freed, given,
                     listening_, serverStarted>>
  PROVE  ServerInv'
<1>1. ServerTypes'
  BY Zenon DEF ServerInv, ServerTypes, Moved
<1>2. StartOK'
  BY Zenon DEF ServerInv, StartOK, Moved
<1>3. ThreadsOK'
  <2> SUFFICES ASSUME NEW u \in PoolThreads PROVE ThreadOK(u)'
    BY Zenon DEF ThreadsOK
  <2>1. ThreadOK(u)
    BY Zenon DEF ServerInv, ThreadsOK
  <2>2. CASE u # t
    BY <2>1, <2>2, Zenon DEF ThreadOK, Moved
  <2>3. CASE u = t
    <3>1. at[t] # "none" /\ at[t] # "ended"
      BY Zenon DEF Moved
    <3>2. t \notin freed
      BY <2>1, <2>3, <3>1, Zenon DEF ThreadOK
    <3>3. ~(Len(loops_) < t /\ (base \in {"latch", "startLoop"} => starting < t))
      BY <2>1, <2>3, <3>1, Zenon DEF ThreadOK
    <3>4. t <= Len(loops_) => at'[t] \in Published
      BY <2>1, <2>3, Zenon DEF ThreadOK, Moved
    <3> QED
      BY <2>3, <3>2, <3>3, <3>4, Zenon DEF ThreadOK, Moved
  <2> QED
    BY <2>2, <2>3, Zenon
<1>4. EndOK'
  <2>1. \A u \in PoolThreads : Untold(u) => Untold(u)'
    BY Zenon DEF Untold, Moved
  <2>2. ASSUME base = "quit" PROVE at'[starting] = "looping"
    <3>1. /\ starting \in 1 .. Len(loops_) /\ at[starting] = "looping"
          /\ \A u \in PoolThreads :
               (u <= Len(loops_) /\ (starting < u \/ (starting = u /\ base # "join"))) => Untold(u)
      BY <2>2, Zenon DEF ServerInv, EndOK, InDestructor
    <3>2. starting \in PoolThreads /\ starting <= Len(loops_)
      BY <3>1, PoolSize
    <3>3. Untold(starting)
      BY <2>2, <3>1, <3>2
    <3> QED
      BY <3>1, <3>2, <3>3, Zenon DEF Untold, Moved
  <2> QED
    BY <2>1, <2>2, Zenon DEF ServerInv, EndOK
<1>5. RoundOK' /\ NothingFails'
  BY Zenon DEF ServerInv, RoundOK, NothingFails
<1> QED
  BY <1>1, <1>2, <1>3, <1>4, <1>5, Zenon DEF ServerInv

(* The steps of an I/O thread are such moves. *)
LEMMA ThreadMoves ==
  ASSUME ServerInv, NEW t \in PoolThreads, ThreadStep(t), Keep
  PROVE  ServerInv'
<1>1. UNCHANGED <<serverProgram, started_, loops_, next_, base, starting, freed, given,
                  listening_, serverStarted>>
  BY Zenon
  DEF ThreadStep, CountDown, CallInit, Publish, EnterLoop, QuitSelf, LeaveLoop,
      ClearLoop,
               EndThread, Rest, Keep, acceptorVars
<1>2. /\ at \in [PoolThreads -> ThreadPlaces]
      /\ loop_ \in [PoolThreads -> BOOLEAN] /\ poolQuit_ \in [PoolThreads -> BOOLEAN]
      /\ ThreadOK(t) /\ failed = {}
  BY Zenon DEF ServerInv, ServerTypes, ThreadsOK, NothingFails
<1>3. at[t] # "ended" => Touch(t) = {}
  BY <1>2, Zenon DEF ThreadOK, Touch, Unless
<1>4. failed' = {} /\ at[t] \notin {"none", "ended"}
  BY <1>2, <1>3, Zenon
  DEF ThreadStep, CountDown, CallInit, Publish, EnterLoop, QuitSelf,
                           LeaveLoop, ClearLoop, EndThread, Go
<1>5. ASSUME CountDown(t) PROVE Moved(t)
  BY <1>2, <1>5 DEF CountDown, Go, ThreadOK, Moved, ThreadPlaces, Published
<1>6. ASSUME CallInit(t) PROVE Moved(t)
  BY <1>2, <1>6 DEF CallInit, Go, ThreadOK, Moved, ThreadPlaces, Published
<1>7. ASSUME Publish(t) PROVE Moved(t)
  BY <1>2, <1>7 DEF Publish, Go, ThreadOK, Moved, ThreadPlaces, Published
<1>8. ASSUME EnterLoop(t) PROVE Moved(t)
  BY <1>2, <1>8 DEF EnterLoop, Go, ThreadOK, Moved, ThreadPlaces, Published
<1>9. ASSUME QuitSelf(t) PROVE Moved(t)
  BY <1>2, <1>9 DEF QuitSelf, Go, ThreadOK, Moved, ThreadPlaces, Published
<1>10. ASSUME LeaveLoop(t) PROVE Moved(t)
  BY <1>2, <1>10 DEF LeaveLoop, Go, ThreadOK, Moved, ThreadPlaces, Published
<1>11. ASSUME ClearLoop(t) PROVE Moved(t)
  BY <1>2, <1>11 DEF ClearLoop, Go, ThreadOK, Moved, ThreadPlaces, Published
<1>12. ASSUME EndThread(t) PROVE Moved(t)
  BY <1>2, <1>12 DEF EndThread, Go, ThreadOK, Moved, ThreadPlaces, Published
<1>13. Moved(t)
  BY <1>5, <1>6, <1>7, <1>8, <1>9, <1>10, <1>11, <1>12, Zenon DEF ThreadStep
<1> QED
  BY <1>1, <1>4, <1>13, MovedStep, Zenon

-----------------------------------------------------------------------------
(* The pool is destroyed when every thread has ended by itself or is in        *)
(* loop(), where it has not been told to quit.                                 *)
LEMMA DestroyServerStep ==
  ASSUME PatientServers, ServerInv, DestroyServer
  PROVE  ServerInv'
<1>1. /\ base = "serving" /\ starting' = 1 /\ base' = IF loops_ = <<>> THEN "done" ELSE "destroy"
      /\ serverProgram.patient => Settled
      /\ UNCHANGED <<serverProgram, started_, loops_, next_, at, loop_, poolQuit_, serverCalled,
                     freed, given, failed, serverStarted>>
  BY Zenon DEF DestroyServer, DestroyPool, threadVars
<1>2. Settled
  BY <1>1, Zenon DEF PatientServers, ServerInv, ServerTypes
<1>3. ServerTypes'
  BY <1>1 DEF ServerInv, ServerTypes, InDestructor
<1>4. StartOK'
  BY <1>1 DEF ServerInv, StartOK, InStart, InDestructor
<1>5. ThreadsOK'
  <2> SUFFICES ASSUME NEW t \in PoolThreads PROVE ThreadOK(t)'
    BY Zenon DEF ThreadsOK
  <2>1. ThreadOK(t) /\ freed = {}
    BY <1>1 DEF ServerInv, ThreadsOK, StartOK, InDestructor
  <2> QED
    BY <1>1, <2>1 DEF ThreadOK, InDestructor
<1>6. EndOK'
  <2>1. ASSUME loops_ # <<>> PROVE 1 \in 1 .. Len(loops_)
    <3>1. loops_ \in Seq(Nat)
      BY Zenon DEF ServerInv, ServerTypes
    <3> QED
      BY <2>1, <3>1
  <2>2. ASSUME NEW t \in PoolThreads, t <= Len(loops_) PROVE Untold(t)'
    <3>1. t \in 1 .. Len(loops_)
      BY <2>2, PoolSize
    <3>2. at[t] = IF t \in serverProgram.quitters THEN "ended" ELSE "looping"
      BY <1>2, <3>1, Zenon DEF Settled
    <3>3. ThreadOK(t)
      BY Zenon DEF ServerInv, ThreadsOK
    <3> QED
      BY <1>1, <3>2, <3>3 DEF ThreadOK, Untold, InDestructor
  <2> QED
    BY <1>1, <2>1, <2>2 DEF EndOK, InDestructor
<1>7. RoundOK' /\ NothingFails'
  BY <1>1 DEF ServerInv, RoundOK, NothingFails, InStart
<1> QED
  BY <1>3, <1>4, <1>5, <1>6, <1>7, Zenon DEF ServerInv

(* An EventLoopThread is destroyed when its thread has ended: then the others  *)
(* of the pool are left as they are.                                           *)
LEMMA FreedStep ==
  ASSUME ServerInv, base \in InDestructor, at[starting] = "ended", Freed(starting),
         UNCHANGED <<serverProgram, started_, loops_, next_, at, loop_, poolQuit_, serverCalled,
                     given, failed, listening_, serverStarted>>
  PROVE  ServerInv'
<1>1. /\ freed' = freed \cup {starting} /\ starting' = starting + 1
      /\ base' = IF starting < Len(loops_) THEN "destroy" ELSE "done"
  BY Zenon DEF Freed
<1>2. /\ starting \in 1 .. Len(loops_)
      /\ \A t \in PoolThreads :
           (t <= Len(loops_) /\ (starting < t \/ (starting = t /\ base # "join"))) => Untold(t)
  BY Zenon DEF ServerInv, EndOK
<1>3. ServerTypes'
  BY <1>1, <1>2, PoolSize DEF ServerInv, ServerTypes, InDestructor
<1>4. StartOK'
  BY <1>1 DEF ServerInv, StartOK, InStart, InDestructor
<1>5. ThreadsOK'
  <2> SUFFICES ASSUME NEW t \in PoolThreads PROVE ThreadOK(t)'
    BY Zenon DEF ThreadsOK
  <2>1. ThreadOK(t)
    BY Zenon DEF ServerInv, ThreadsOK
  <2> QED
    BY <1>1, <2>1, Zenon DEF ThreadOK, InDestructor
<1>6. EndOK'
  <2>1. ASSUME starting < Len(loops_) PROVE starting + 1 \in 1 .. Len(loops_)
    BY <1>2, <2>1, PoolSize
  <2>2. ASSUME NEW t \in PoolThreads, t <= Len(loops_), starting + 1 < t \/ starting + 1 = t
        PROVE Untold(t)'
    <3>1. starting < t
      BY <1>2, <2>2, PoolSize
    <3>2. Untold(t)
      BY <1>2, <2>2, <3>1, Zenon
    <3> QED
      BY <3>2, Zenon DEF Untold
  <2> QED
    BY <1>1, <2>1, <2>2 DEF EndOK, InDestructor
<1>7. RoundOK' /\ NothingFails'
  BY <1>1 DEF ServerInv, RoundOK, NothingFails, InStart, InDestructor
<1> QED
  BY <1>3, <1>4, <1>5, <1>6, <1>7, Zenon DEF ServerInv

(* ~EventLoopThread reads loop_ without the lock: it is set as long as the     *)
(* thread is in loop(), and a thread that has cleared it has ended.            *)
LEMMA TestLoopStep ==
  ASSUME ServerInv, TestLoop, Keep
  PROVE  ServerInv'
<1>1. /\ base = "destroy"
      /\ UNCHANGED <<serverProgram, started_, loops_, next_, at, loop_, poolQuit_, serverCalled,
                     given, failed, listening_, serverStarted>>
  BY Zenon DEF TestLoop, Keep, acceptorVars, threadVars
<1>2. starting \in 1 .. Len(loops_) /\ starting \in PoolThreads /\ starting <= Len(loops_)
  BY <1>1, PoolSize DEF ServerInv, EndOK, InDestructor
<1>3. Untold(starting) /\ ThreadOK(starting)
  BY <1>1, <1>2 DEF ServerInv, EndOK, InDestructor, ThreadsOK
<1>4. CASE loop_[starting]
  <2>1. base' = "quit" /\ UNCHANGED <<freed, starting>>
    BY <1>4, Zenon DEF TestLoop
  <2>2. at[starting] = "looping"
    BY <1>3, <1>4 DEF Untold, ThreadOK
  <2>3. ServerTypes'
    BY <1>1, <2>1 DEF ServerInv, ServerTypes, InDestructor
  <2>4. StartOK'
    BY <1>1, <2>1 DEF ServerInv, StartOK, InStart, InDestructor
  <2>5. ThreadsOK'
    BY <1>1, <2>1 DEF ServerInv, ThreadsOK, ThreadOK, InDestructor
  <2>6. EndOK'
    BY <1>1, <2>1, <2>2, Zenon DEF ServerInv, EndOK, Untold, InDestructor
  <2>7. RoundOK' /\ NothingFails'
    BY <1>1, <2>1 DEF ServerInv, RoundOK, NothingFails, InStart
  <2> QED
    BY <2>3, <2>4, <2>5, <2>6, <2>7, Zenon DEF ServerInv
<1>5. CASE ~loop_[starting]
  <2>1. at[starting] = "ended" /\ Freed(starting) /\ base \in InDestructor
    BY <1>1, <1>3, <1>5 DEF TestLoop, Untold, ThreadOK, InDestructor
  <2> QED
    BY <1>1, <2>1, FreedStep, Zenon
<1> QED
  BY <1>4, <1>5, Zenon

(* The thread is told to quit in loop(), where the quit is not lost. *)
LEMMA QuitLoopStep ==
  ASSUME ServerInv, QuitLoop, Keep
  PROVE  ServerInv'
<1>1. /\ base = "quit" /\ base' = "join" /\ poolQuit_' = [poolQuit_ EXCEPT ![starting] = TRUE]
      /\ failed' = failed \cup Unless(at[starting] # "ended", "quit() of a destroyed EventLoop")
      /\ UNCHANGED <<serverProgram, started_, loops_, next_, starting, at, loop_,
                     serverCalled, freed, given, listening_, serverStarted>>
  BY Zenon DEF QuitLoop, Keep, acceptorVars
<1>2. at[starting] = "looping" /\ starting \in 1 .. Len(loops_) /\ starting \in PoolThreads
  BY <1>1, PoolSize, Zenon DEF ServerInv, EndOK, InDestructor
<1>3. failed' = {}
  BY <1>1, <1>2 DEF ServerInv, NothingFails, Unless
<1>4. /\ poolQuit_' \in [PoolThreads -> BOOLEAN]
      /\ \A t \in PoolThreads \ {starting} : poolQuit_'[t] = poolQuit_[t]
  BY <1>1, <1>2, Zenon DEF ServerInv, ServerTypes
<1>5. ServerTypes'
  BY <1>1, <1>4, Zenon DEF ServerInv, ServerTypes, InDestructor
<1>6. StartOK'
  BY <1>1, Zenon DEF ServerInv, StartOK, InStart, InDestructor
<1>7. ThreadsOK'
  BY <1>1, Zenon DEF ServerInv, ThreadsOK, ThreadOK, InDestructor
<1>8. EndOK'
  <2>1. ASSUME NEW t \in PoolThreads, t <= Len(loops_), starting < t PROVE Untold(t)'
    <3>1. Untold(t)
      BY <1>1, <2>1, Zenon DEF ServerInv, EndOK, InDestructor
    <3>2. t # starting
      BY <1>2, <2>1, PoolSize
    <3> QED
      BY <1>1, <1>4, <3>1, <3>2, Zenon DEF Untold
  <2> QED
    BY <1>1, <1>2, <2>1, Zenon DEF EndOK, InDestructor
<1>9. RoundOK' /\ NothingFails'
  BY <1>1, <1>3, Zenon DEF ServerInv, RoundOK, NothingFails, InStart
<1> QED
  BY <1>5, <1>6, <1>7, <1>8, <1>9, Zenon DEF ServerInv

(* join() returns when the thread has ended. *)
LEMMA JoinThreadStep ==
  ASSUME ServerInv, JoinThread, Keep
  PROVE  ServerInv'
<1>1. /\ base = "join" /\ at[starting] = "ended" /\ Freed(starting)
      /\ UNCHANGED <<serverProgram, started_, loops_, next_, at, loop_, poolQuit_, serverCalled,
                     given, failed, listening_, serverStarted>>
  BY Zenon DEF JoinThread, Keep, acceptorVars, threadVars
<1> QED
  BY <1>1, FreedStep, Zenon DEF InDestructor

(* Every step preserves the invariant. *)
LEMMA ServerStep ==
  ASSUME PatientServers, ServerInv, ServerNext
  PROVE  ServerInv'
<1>1. CASE Serving \/ Network
  BY <1>1, AcceptorKeeps, ServerFrame, Zenon
<1>2. CASE PoolStep /\ Keep
  BY <1>2, CreateThreadStep, LatchWaitStep, StartLoopStep, TestLoopStep, QuitLoopStep,
     JoinThreadStep, ThreadMoves, Zenon DEF PoolStep, BaseStep
<1> QED
  BY <1>1, <1>2, CallStartStep, StartListeningStep, NewConnectionStep, DestroyServerStep,
     Zenon
  DEF ServerNext

-----------------------------------------------------------------------------
(* What the invariant says of the loops that are handed out. *)
LEMMA ServerHandsOut ==
  ASSUME ServerInv
  PROVE  LoopsInitialized /\ RoundRobin /\ NothingFails
<1>0. /\ Len(loops_) \in Nat /\ loops_ \in Seq(Nat) /\ next_ \in Nat
      /\ \A k \in 1 .. Len(loops_) : loops_[k] = k /\ k \in PoolThreads
      /\ next_ = 0 \/ next_ < Len(loops_)
  BY PoolSize, Zenon DEF ServerInv, ServerTypes, StartOK, RoundOK
<1>1. ASSUME base = "serving" PROVE \A k \in 1 .. Len(loops_) : loops_[k] \in serverCalled
  <2> SUFFICES ASSUME NEW k \in 1 .. Len(loops_) PROVE loops_[k] \in serverCalled
    OBVIOUS
  <2>1. loops_[k] = k /\ k \in PoolThreads /\ k <= Len(loops_)
    BY <1>0
  <2>2. ThreadOK(k)
    BY <2>1, Zenon DEF ServerInv, ThreadsOK
  <2> QED
    BY <2>1, <2>2, Zenon DEF ThreadOK
<1>2. ASSUME base = "serving", loops_ = <<>> PROVE BaseLoop \in serverCalled
  <2>1. Len(loops_) = serverProgram.numThreads_
    BY <1>2 DEF ServerInv, StartOK, InStart
  <2>2. serverProgram.numThreads_ = 0
    BY <1>2, <2>1
  <2> QED
    BY <1>2, <2>2 DEF ServerInv, StartOK
<1>3. LoopsInitialized
  <2> SUFFICES ASSUME base = "serving"
               PROVE  /\ GetNextLoop.loop \in serverCalled
                      /\ \A h \in Hashes : GetLoopForHash(h) \in serverCalled
                      /\ \A k \in DOMAIN GetAllLoops : GetAllLoops[k] \in serverCalled
    BY Zenon DEF LoopsInitialized
  <2>1. CASE loops_ = <<>>
    BY <1>2, <2>1 DEF GetNextLoop, GetLoopForHash, GetAllLoops
  <2>2. CASE loops_ # <<>>
    <3>1. Len(loops_) > 0 /\ next_ + 1 \in 1 .. Len(loops_)
      BY <1>0, <2>2
    <3>2. \A h \in Hashes : (h % Len(loops_)) + 1 \in 1 .. Len(loops_)
      BY <1>0, <3>1, ServerAssumption
    <3>3. GetNextLoop.loop = loops_[next_ + 1]
      BY <2>2 DEF GetNextLoop
    <3>4. DOMAIN GetAllLoops = 1 .. Len(loops_) /\ GetAllLoops = loops_
      BY <1>0, <2>2 DEF GetAllLoops
    <3> QED
      BY <1>1, <2>2, <3>1, <3>2, <3>3, <3>4, Zenon DEF GetLoopForHash
  <2> QED
    BY <2>1, <2>2
<1>4. RoundRobin
  <2> SUFFICES ASSUME NEW k \in DOMAIN loops_, NEW m \in DOMAIN loops_
               PROVE  given[loops_[k]] <= given[loops_[m]] + 1
    BY Zenon DEF RoundRobin
  <2>1. /\ k \in 1 .. Len(loops_) /\ m \in 1 .. Len(loops_) /\ loops_[k] = k /\ loops_[m] = m
        /\ k \in PoolThreads /\ m \in PoolThreads
    BY <1>0
  <2>2. given[k] \in Nat /\ given[m] \in Nat
    BY <2>1 DEF ServerInv, ServerTypes
  <2>3. /\ (k <= next_ <=> m <= next_) => given[k] = given[m]
        /\ (k <= next_ /\ next_ < m) => given[k] = given[m] + 1
        /\ (m <= next_ /\ next_ < k) => given[m] = given[k] + 1
    BY <2>1, Zenon DEF ServerInv, RoundOK
  <2> QED
    BY <1>0, <2>1, <2>2, <2>3
<1> QED
  BY <1>3, <1>4, Zenon DEF ServerInv

(* For any pool and any clients, a loop that getNextLoop, getLoopForHash or   *)
(* getAllLoops (EventLoopThreadPool.cc:63-109) hands out has run the          *)
(* ThreadInitCallback, newConnection takes the loops in turn, and no assert   *)
(* of start() fails, when the thread of the loop is the first to call start() *)
(* and the pool is destroyed after its threads have entered loop().           *)
THEOREM LoopsAreInitialized ==
  ASSUME PatientServers
  PROVE  ServerInit /\ [][ServerNext]_serverVars => []LoopsHandedOut
<1>1. ServerInit => ServerInv
  BY ServerInitially
<1>2. ServerInv /\ [ServerNext]_serverVars => ServerInv'
  <2> SUFFICES ASSUME ServerInv, [ServerNext]_serverVars PROVE ServerInv'
    OBVIOUS
  <2>1. CASE ServerNext
    BY <2>1, ServerStep
  <2>2. CASE UNCHANGED serverVars
    BY <2>2, ServerFrame, Zenon DEF serverVars, acceptorVars
  <2> QED
    BY <2>1, <2>2
<1>3. ServerInv => LoopsHandedOut
  BY ServerHandsOut DEF LoopsHandedOut
<1> QED
  BY <1>1, <1>2, <1>3, PTL
==============================================================================
