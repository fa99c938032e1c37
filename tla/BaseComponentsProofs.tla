------------------------ MODULE BaseComponentsProofs -------------------------
(***************************************************************************)
(* Proofs about the components of BaseComponents, for any threads,         *)
(* programs and bounds: BlockingQueue, MutexLock, ThreadPool and           *)
(* AsyncLogging, each with its inductive invariant.                        *)
(***************************************************************************)
EXTENDS BaseComponents, FiniteSetTheorems, WellFoundedInduction, TLAPS

-----------------------------------------------------------------------------
(* BlockingQueue.  Nobody waits for what is there, and items leave in order, *)
(* for any number of threads and any capacity.  The argument counts: a       *)
(* notify() moves one waiting thread to the awake ones, whenever an item or  *)
(* a place is added, and a thread that takes one leaves the awake ones.      *)

(* Who waits where.  Only the queue with a bound has producers waiting, which *)
(* is why drain() and BlockingQueue's take() need not notify them.            *)
WaitersOK ==
  /\ bounded \in BOOLEAN
  /\ calling \subseteq Producers \cup Consumers
  /\ notEmpty_ \subseteq Consumers \cap calling
  /\ notFull_ \subseteq Producers \cap calling
  /\ ~bounded => notFull_ = {}

(* The items in the queue are the last ones put, in order. *)
ItemsOK ==
  /\ queue_ \in Seq(Nat)
  /\ puts \in Nat
  /\ OldestFirst

(* The inductive invariant of BlockingQueue. *)
QueueInv == WaitersOK /\ ItemsOK /\ NobodyStranded

-----------------------------------------------------------------------------
(* What notify() and a spurious wakeup leave of a set of waiting threads. *)
LEMMA NotifyOneOf ==
  ASSUME NEW W, NEW V \in Notify(W)
  PROVE  (W = {} /\ V = {}) \/ (\E t \in W : V = W \ {t})
  BY DEF Notify

(* Cardinalities of sets of threads that gain or lose one. *)
LEMMA OneMore ==
  ASSUME NEW W, IsFiniteSet(W), NEW x, x \notin W
  PROVE  Cardinality(W \cup {x}) = Cardinality(W) + 1 /\ Cardinality(W) \in Nat
  BY FS_AddElement, FS_CardinalityType

(* A thread that is notified, or wakes by itself, leaves a set of waiting threads. *)
LEMMA OneLess ==
  ASSUME NEW W, IsFiniteSet(W), NEW x \in W
  PROVE  Cardinality(W \ {x}) = Cardinality(W) - 1 /\ Cardinality(W) \in Nat \ {0}
<1>1. x \notin W \ {x} /\ IsFiniteSet(W \ {x}) /\ (W \ {x}) \cup {x} = W
  BY FS_RemoveElement
<1>2. Cardinality(W \ {x}) \in Nat /\ Cardinality(W) = Cardinality(W \ {x}) + 1
  BY <1>1, OneMore
<1> QED
  BY <1>2

(* The awake threads, of whichever side, can be counted. *)
LEMMA AwakeFinite ==
  /\ IsFiniteSet(Awake(Producers))
  /\ IsFiniteSet(Awake(Consumers))
  /\ Cardinality(Awake(Producers)) \in Nat
  /\ Cardinality(Awake(Consumers)) \in Nat
<1>1. Awake(Producers) \subseteq Producers /\ Awake(Consumers) \subseteq Consumers
  BY DEF Awake
<1> QED
  BY <1>1, ThreadsAssumption, FS_Subset, FS_CardinalityType

(* Putting and taking keep a queue whose items are numbered. *)
LEMMA AppendNumbered ==
  ASSUME NEW q \in Seq(Nat), NEW n \in Nat,
         \A i \in 1 .. Len(q) : q[i] = n - Len(q) + i
  PROVE  LET r == Append(q, n + 1)
         IN  /\ r \in Seq(Nat)
             /\ Len(r) = Len(q) + 1
             /\ \A i \in 1 .. Len(r) : r[i] = n + 1 - Len(r) + i
<1> DEFINE r == Append(q, n + 1)
<1>1. r \in Seq(Nat) /\ Len(r) = Len(q) + 1 /\ Len(q) \in Nat
  OBVIOUS
<1>2. \A i \in 1 .. Len(q) : r[i] = q[i]
  OBVIOUS
<1>3. r[Len(q) + 1] = n + 1
  OBVIOUS
<1> HIDE DEF r
<1>4. ASSUME NEW i \in 1 .. Len(r) PROVE r[i] = n + 1 - Len(r) + i
  <2>1. CASE i = Len(q) + 1
    BY <2>1, <1>1, <1>3
  <2>2. CASE i # Len(q) + 1
    <3>1. i \in 1 .. Len(q)
      BY <2>2, <1>1
    <3>2. r[i] = n - Len(q) + i
      BY <3>1, <1>2
    <3> QED
      BY <3>2, <1>1
  <2> QED
    BY <2>1, <2>2
<1> QED
  BY <1>1, <1>4 DEF r

(* take() and drain() remove the oldest item, and the others keep their numbers. *)
LEMMA TailNumbered ==
  ASSUME NEW q \in Seq(Nat), NEW n \in Nat, q # <<>>,
         \A i \in 1 .. Len(q) : q[i] = n - Len(q) + i
  PROVE  LET r == Tail(q)
         IN  /\ r \in Seq(Nat)
             /\ Len(r) = Len(q) - 1
             /\ \A i \in 1 .. Len(r) : r[i] = n - Len(r) + i
<1> DEFINE r == Tail(q)
<1>1. r \in Seq(Nat) /\ Len(r) = Len(q) - 1 /\ Len(q) \in Nat \ {0}
  OBVIOUS
<1>2. \A i \in 1 .. Len(r) : r[i] = q[i + 1]
  OBVIOUS
<1> HIDE DEF r
<1>3. \A i \in 1 .. Len(r) : r[i] = n - Len(r) + i
  BY <1>1, <1>2
<1> QED
  BY <1>1, <1>3 DEF r

-----------------------------------------------------------------------------
(* Init establishes the invariant. *)
LEMMA QueueInitially == Init => QueueInv
  BY SizeAssumption DEF Init, QueueInv, WaitersOK, ItemsOK, OldestFirst, NobodyStranded

(* Who waits, after any step. *)
LEMMA WaitersPreserved ==
  ASSUME WaitersOK, [Next]_vars
  PROVE  WaitersOK'
<1> USE ThreadsAssumption DEF WaitersOK, Awake
<1>1. ASSUME NEW t \in Producers \cup Consumers, Call(t) PROVE WaitersOK'
  BY <1>1 DEF Call
<1>2. ASSUME NEW t \in Producers, Put(t) PROVE WaitersOK'
  BY <1>2, NotifyOneOf DEF Put, Wait, Full
<1>3. ASSUME NEW t \in Consumers, Take(t) PROVE WaitersOK'
  BY <1>3, NotifyOneOf DEF Take, Wait
<1>4. ASSUME NEW t \in Consumers, Drain(t) PROVE WaitersOK'
  BY <1>4 DEF Drain
<1>5. CASE WakeSpuriously
  BY <1>5 DEF WakeSpuriously, Spurious
<1>6. CASE UNCHANGED vars
  BY <1>6 DEF vars
<1> QED
  BY <1>1, <1>2, <1>3, <1>4, <1>5, <1>6 DEF Next

(* The items, after any step. *)
LEMMA ItemsPreserved ==
  ASSUME WaitersOK, ItemsOK, [Next]_vars
  PROVE  ItemsOK'
<1> USE SizeAssumption DEF WaitersOK, ItemsOK, OldestFirst
<1>1. ASSUME NEW t \in Producers \cup Consumers, Call(t) PROVE ItemsOK'
  BY <1>1 DEF Call
<1>2. ASSUME NEW t \in Producers, Put(t) PROVE ItemsOK'
  <2>1. CASE queue_' = queue_ /\ puts' = puts /\ bounded' = bounded
    BY <2>1
  <2>2. CASE ~Full /\ queue_' = Append(queue_, puts + 1) /\ puts' = puts + 1 /\ bounded' = bounded
    <3>1. ~(bounded /\ Len(queue_) >= MaxSize)
      BY <2>2, Zenon DEF Full
    <3>2. /\ queue_' \in Seq(Nat) /\ Len(queue_') = Len(queue_) + 1
          /\ \A i \in 1 .. Len(queue_') : queue_'[i] = puts + 1 - Len(queue_') + i
      BY <2>2, AppendNumbered, Zenon
    <3> QED
      BY <2>2, <3>1, <3>2
  <2> QED
    BY <1>2, <2>1, <2>2 DEF Put
<1>3. ASSUME NEW t \in Consumers, Take(t) PROVE ItemsOK'
  <2>1. CASE queue_' = queue_ /\ puts' = puts /\ bounded' = bounded
    BY <2>1
  <2>2. CASE queue_ # <<>> /\ queue_' = Tail(queue_) /\ puts' = puts /\ bounded' = bounded
    BY <2>2, TailNumbered
  <2> QED
    BY <1>3, <2>1, <2>2 DEF Take
<1>4. ASSUME NEW t \in Consumers, Drain(t) PROVE ItemsOK'
  BY <1>4 DEF Drain
<1>5. CASE WakeSpuriously
  BY <1>5 DEF WakeSpuriously
<1>6. CASE UNCHANGED vars
  BY <1>6 DEF vars
<1> QED
  BY <1>1, <1>2, <1>3, <1>4, <1>5, <1>6 DEF Next

(* Nobody is stranded by any step: the awake threads are counted. *)
LEMMA NobodyStrandedPreserved ==
  ASSUME QueueInv, [Next]_vars
  PROVE  NobodyStranded'
<1> DEFINE AwakeP == Awake(Producers)
           AwakeC == Awake(Consumers)
<1>1. /\ IsFiniteSet(AwakeP) /\ IsFiniteSet(AwakeC)
      /\ Cardinality(AwakeP) \in Nat /\ Cardinality(AwakeC) \in Nat
  BY AwakeFinite
<1>2. Len(queue_) \in Nat /\ MaxSize \in Nat \ {0}
  BY SizeAssumption DEF QueueInv, ItemsOK
<1>3. ASSUME NEW t \in Producers \cup Consumers, Call(t) PROVE NobodyStranded'
  <2>1. /\ AwakeP' = AwakeP \/ (AwakeP' = AwakeP \cup {t} /\ t \notin AwakeP)
        /\ AwakeC' = AwakeC \/ (AwakeC' = AwakeC \cup {t} /\ t \notin AwakeC)
    BY <1>3 DEF Call, Awake, QueueInv, WaitersOK
  <2>2. /\ Cardinality(AwakeP') \in Nat /\ Cardinality(AwakeP') >= Cardinality(AwakeP)
        /\ Cardinality(AwakeC') \in Nat /\ Cardinality(AwakeC') >= Cardinality(AwakeC)
    BY <2>1, <1>1, OneMore
  <2> QED
    BY <2>2, <1>1, <1>2, <1>3 DEF Call, QueueInv, NobodyStranded
<1>4. ASSUME NEW t \in Producers, Put(t) PROVE NobodyStranded'
  <2>1. CASE Full /\ notFull_' = Wait(notFull_, t) /\ UNCHANGED <<queue_, notEmpty_,
                                                                  calling, puts>>
    <3>1. Len(queue_) >= MaxSize
      BY <2>1 DEF Full
    <3>2. AwakeC' = AwakeC
      BY <2>1, ThreadsAssumption DEF Awake, Wait
    <3>3. Cardinality(AwakeP') \in Nat
      BY AwakeFinite, <2>1, <1>1, FS_Subset, FS_CardinalityType DEF Awake, Wait
    <3> QED
      BY <2>1, <3>1, <3>2, <3>3, <1>1, <1>2 DEF QueueInv, NobodyStranded
  <2>2. CASE /\ queue_' = Append(queue_, puts + 1) /\ notEmpty_' \in Notify(notEmpty_)
             /\ calling' = calling \ {t} /\ UNCHANGED notFull_
    <3>1. t \in AwakeP /\ Len(queue_') = Len(queue_) + 1
      BY <1>4, <2>2 DEF Put, QueueInv, ItemsOK
    <3>2. AwakeP' = AwakeP \ {t}
      BY <2>2, NotifyOneOf, ThreadsAssumption DEF Awake, QueueInv, WaitersOK
    <3>3. Cardinality(AwakeP') = Cardinality(AwakeP) - 1
      BY <3>1, <3>2, <1>1, OneLess
    <3>4. CASE notEmpty_' = {}
      BY <3>4, <3>1, <3>3, <2>2, <1>1, <1>2 DEF QueueInv, NobodyStranded
    <3>5. CASE notEmpty_' # {}
      <4>1. PICK c \in notEmpty_ : notEmpty_' = notEmpty_ \ {c}
        BY <3>5, <2>2, NotifyOneOf
      <4>2. c \notin AwakeC /\ AwakeC' = AwakeC \cup {c}
        BY <4>1, <2>2, ThreadsAssumption, <1>4 DEF Awake, QueueInv, WaitersOK
      <4>3. Cardinality(AwakeC') = Cardinality(AwakeC) + 1
        BY <4>2, <1>1, OneMore
      <4>4. Len(queue_) <= Cardinality(AwakeC)
        BY <4>1 DEF QueueInv, NobodyStranded
      <4> QED
        BY <4>3, <4>4, <3>1, <3>3, <2>2, <1>1, <1>2 DEF QueueInv, NobodyStranded
    <3> QED
      BY <3>4, <3>5
  <2> QED
    BY <1>4, <2>1, <2>2 DEF Put
<1>5. ASSUME NEW t \in Consumers, Take(t) PROVE NobodyStranded'
  <2>1. CASE queue_ = <<>> /\ notEmpty_' = Wait(notEmpty_, t) /\ UNCHANGED <<queue_,
                                                                             notFull_,
                                                                             calling>>
    <3>1. Len(queue_') = 0
      BY <2>1
    <3>2. AwakeP' = AwakeP
      BY <2>1, ThreadsAssumption DEF Awake, Wait
    <3>3. Cardinality(AwakeC') \in Nat
      BY <2>1, <1>1, FS_Subset, FS_CardinalityType DEF Awake, Wait
    <3> QED
      BY <2>1, <3>1, <3>2, <3>3, <1>1, <1>2 DEF QueueInv, NobodyStranded
  <2>2. CASE /\ queue_ # <<>> /\ queue_' = Tail(queue_)
             /\ notFull_' \in IF bounded THEN Notify(notFull_) ELSE {notFull_}
             /\ calling' = calling \ {t} /\ UNCHANGED notEmpty_
    <3>1. t \in AwakeC /\ Len(queue_') = Len(queue_) - 1
      BY <1>5, <2>2 DEF Take, QueueInv, ItemsOK
    <3>2. notFull_' = {} \/ (\E p \in notFull_ : notFull_' = notFull_ \ {p})
      BY <2>2, NotifyOneOf DEF QueueInv, WaitersOK
    <3>3. AwakeC' = AwakeC \ {t}
      BY <2>2, <3>2, ThreadsAssumption DEF Awake, QueueInv, WaitersOK
    <3>4. Cardinality(AwakeC') = Cardinality(AwakeC) - 1
      BY <3>1, <3>3, <1>1, OneLess
    <3>5. CASE notFull_' = {}
      BY <3>5, <3>1, <3>4, <2>2, <1>1, <1>2 DEF QueueInv, NobodyStranded
    <3>6. CASE notFull_' # {}
      <4>1. PICK p \in notFull_ : notFull_' = notFull_ \ {p}
        BY <3>6, <3>2
      <4>2. p \notin AwakeP /\ AwakeP' = AwakeP \cup {p}
        BY <4>1, <2>2, ThreadsAssumption, <1>5 DEF Awake, QueueInv, WaitersOK
      <4>3. Cardinality(AwakeP') = Cardinality(AwakeP) + 1
        BY <4>2, <1>1, OneMore
      <4>4. Len(queue_) + Cardinality(AwakeP) >= MaxSize
        BY <4>1 DEF QueueInv, NobodyStranded
      <4> QED
        BY <4>3, <4>4, <3>1, <3>4, <2>2, <1>1, <1>2 DEF QueueInv, NobodyStranded
    <3> QED
      BY <3>5, <3>6
  <2> QED
    BY <1>5, <2>1, <2>2 DEF Take
<1>6. ASSUME NEW t \in Consumers, Drain(t) PROVE NobodyStranded'
  <2>1. Len(queue_') = 0 /\ notFull_' = {} /\ AwakeC' = AwakeC
    BY <1>6 DEF Drain, Awake, QueueInv, WaitersOK
  <2> QED
    BY <2>1, <1>1 DEF NobodyStranded
<1>7. CASE WakeSpuriously
  <2>1. PICK w \in Producers \cup Consumers :
          /\ AwakeP' = AwakeP \/ (w \notin AwakeP /\ AwakeP' = AwakeP \cup {w})
          /\ AwakeC' = AwakeC \/ (w \notin AwakeC /\ AwakeC' = AwakeC \cup {w})
    BY <1>7, ThreadsAssumption DEF WakeSpuriously, Spurious, Awake, QueueInv, WaitersOK
  <2>2. /\ Cardinality(AwakeP') \in Nat /\ Cardinality(AwakeP') >= Cardinality(AwakeP)
        /\ Cardinality(AwakeC') \in Nat /\ Cardinality(AwakeC') >= Cardinality(AwakeC)
    BY <2>1, <1>1, OneMore
  <2>3. /\ queue_' = queue_
        /\ notEmpty_' # {} => notEmpty_ # {}
        /\ notFull_' # {} => notFull_ # {}
    BY <1>7 DEF WakeSpuriously, Spurious
  <2> QED
    BY <2>2, <2>3, <1>1, <1>2 DEF QueueInv, NobodyStranded
<1>8. CASE UNCHANGED vars
  BY <1>8 DEF vars, QueueInv, NobodyStranded, Awake
<1> QED
  BY <1>3, <1>4, <1>5, <1>6, <1>7, <1>8 DEF Next

(* Any step keeps the invariant. *)
LEMMA QueueStep ==
  ASSUME QueueInv, [Next]_vars
  PROVE  QueueInv'
  BY WaitersPreserved, ItemsPreserved, NobodyStrandedPreserved DEF QueueInv

(* NobodyStranded for any threads and capacity: it is enough that put() and *)
(* take() (BoundedBlockingQueue.h:32, 46) notify one thread.                *)
THEOREM NobodyIsStranded == Spec => []NobodyStranded
<1>1. QueueInv => NobodyStranded
  BY DEF QueueInv
<1>2. QueueInv /\ [Next]_vars => QueueInv'
  BY QueueStep
<1> QED
  BY <1>1, <1>2, QueueInitially, PTL DEF Spec

(* OldestFirst for any threads and capacity: items leave in the order in    *)
(* which put() took them, and the circular buffer never overflows.          *)
THEOREM ItemsLeaveInOrder == Spec => []OldestFirst
<1>1. QueueInv => OldestFirst
  BY DEF QueueInv, ItemsOK
<1>2. QueueInv /\ [Next]_vars => QueueInv'
  BY QueueStep
<1> QED
  BY <1>1, <1>2, QueueInitially, PTL DEF Spec

-----------------------------------------------------------------------------
(* MutexLock.  holder_ names the thread between lock() or wait() and the     *)
(* next unlock() or wait(), for any set of threads.  HolderIsOwner is not    *)
(* inductive: that a thread sets or clears holder_ is harmless to the others *)
(* only because it has the pthread mutex when it does, so the invariant says *)
(* where the thread is that has it.                                          *)

(* The places in which a thread has the pthread mutex. *)
Owning == {"locking", "inside", "unlocking", "unassigned", "woken"}

(* All the places of a thread. *)
Places == Owning \cup {"outside", "waiting"}

(* The mutex has one owner and the places say which; holder_ is set exactly *)
(* inside.                                                                  *)
MutexInv ==
  /\ lockAt \in [LockThreads -> Places]
  /\ owner \in LockThreads \cup {NoThread}
  /\ holder_ \in LockThreads \cup {NoThread}
  /\ \A t \in LockThreads : owner = t <=> lockAt[t] \in Owning
  /\ M!HolderIsOwner

(* A step of a thread inside the mutex, or one that takes or gives up the   *)
(* mutex, preserves the invariant.                                          *)
LEMMA MutexStepOf ==
  ASSUME NoThread \notin LockThreads, MutexInv, NEW t \in LockThreads, M!Step(t)
  PROVE  MutexInv'
<1> USE DEF MutexInv, M!HolderIsOwner, Places, Owning, M!Move, M!AssignHolder,
            M!UnassignHolder
<1>1. CASE M!PthreadLock(t)
  BY <1>1 DEF M!PthreadLock
<1>2. CASE M!LockReturns(t)
  BY <1>2 DEF M!LockReturns
<1>3. CASE M!Unlock(t)
  BY <1>3 DEF M!Unlock
<1>4. CASE M!BeginWait(t)
  BY <1>4 DEF M!BeginWait
<1>5. CASE M!PthreadWakes(t)
  BY <1>5, Zenon DEF M!PthreadWakes
<1>6. CASE M!WaitReturns(t)
  BY <1>6 DEF M!WaitReturns
<1>7. CASE M!NotifyOne(t)
  BY <1>7 DEF M!NotifyOne
<1>8. CASE M!NotifyEach(t)
  BY <1>8 DEF M!NotifyEach
<1> QED
  BY <1>1, <1>2, <1>3, <1>4, <1>5, <1>6, <1>7, <1>8, ZenonT(60) DEF M!Step

(* Any step keeps the invariant. *)
LEMMA MutexStep ==
  ASSUME NoThread \notin LockThreads, MutexInv, M!Next
  PROVE  MutexInv'
<1>1. ASSUME NEW t \in LockThreads, M!Step(t) PROVE MutexInv'
  BY <1>1, MutexStepOf, ZenonT(60)
<1>2. CASE M!WakeSpuriously
  BY <1>2, Zenon DEF M!WakeSpuriously, MutexInv, M!HolderIsOwner
<1> QED
  BY <1>1, <1>2, ZenonT(60) DEF M!Next

(* assertLocked (Mutex.h:140-149) is right whatever waits, is notified or   *)
(* wakes by itself, for any threads.                                        *)
THEOREM HolderCorrect ==
  M!Spec => []HolderIsOwner
<1>1. M!Init => MutexInv
  BY MutexAssumption DEF M!Init, MutexInv, M!HolderIsOwner, Places, Owning
<1>2. MutexInv /\ [M!Next]_M!vars => MutexInv'
  <2> SUFFICES ASSUME MutexInv, [M!Next]_M!vars PROVE MutexInv'
    OBVIOUS
  <2>1. CASE M!Next
    BY <2>1, MutexAssumption, MutexStep
  <2>2. CASE UNCHANGED M!vars
    BY <2>2, Zenon DEF M!vars, MutexInv, M!HolderIsOwner
  <2> QED
    BY <2>1, <2>2
<1>3. MutexInv => HolderIsOwner
  BY DEF MutexInv, HolderIsOwner
<1> QED
  BY <1>1, <1>2, <1>3, PTL DEF M!Spec

-----------------------------------------------------------------------------
(* ThreadPool.  The invariant says of every state what put and taken tasks   *)
(* there are, and who waits once running_ is false.                          *)

(* Once stop() is called (ThreadPool.cc:50-61), notifyAll has woken every    *)
(* worker and every caller of run(), and none waits again: nobody is left    *)
(* behind that no one will notify.                                           *)
StoppedAwake == ~poolRunning => poolNotEmpty = {} /\ poolNotFull = {}

(* The inductive invariant of ThreadPool. *)
PoolInv ==
  /\ pool \in PoolPrograms
  /\ poolQueue \in Seq(Tasks) /\ poolStarted \in Seq(Tasks)
  /\ pool.workers = {} => poolQueue = <<>>
  /\ P!StartedInOrder
  /\ StoppedAwake
  /\ poolRunning \in BOOLEAN

(* It holds in the initial states. *)
LEMMA PoolInit == P!Init => PoolInv
<1> SUFFICES ASSUME P!Init PROVE PoolInv
  OBVIOUS
<1>1. pool.maxQueueSize_ \in Nat
  BY PoolAssumption, Zenon DEF P!Init
<1>2. <<>> \in Seq(Tasks) /\ <<>> \o <<>> = <<>> /\ Len(<<>>) = 0
  OBVIOUS
<1>3. 0 <= pool.maxQueueSize_
  BY <1>1
<1> QED
  BY <1>2, <1>3, Zenon DEF P!Init, PoolInv, P!StartedInOrder, StoppedAwake

(* the queue is unchanged *)
LEMMA PoolQuiet ==
  ASSUME PoolInv, UNCHANGED <<pool, poolQueue, poolStarted, poolAccepted>>,
      poolRunning' \in BOOLEAN, StoppedAwake'
  PROVE  PoolInv'
BY Zenon DEF PoolInv, P!StartedInOrder

(* Every step keeps it. *)
LEMMA PoolNext == PoolInv /\ [P!Next]_P!vars => PoolInv'
<1> SUFFICES ASSUME PoolInv, [P!Next]_P!vars PROVE PoolInv'
  OBVIOUS
<1>0. poolRunning \in BOOLEAN /\ StoppedAwake
  BY Zenon DEF PoolInv
<1>1. CASE UNCHANGED P!vars
  BY <1>0, <1>1, PoolQuiet, Zenon DEF P!vars, StoppedAwake
<1>2. CASE P!MainStep
  <2>1. /\ UNCHANGED <<pool, poolQueue, poolStarted, poolAccepted>> /\ poolRunning' \in BOOLEAN
        /\ StoppedAwake'
    BY <1>0, <1>2, Zenon DEF P!MainStep, P!StartPool, P!StartThread, P!Joined, StoppedAwake
  <2> QED
    BY <2>1, PoolQuiet, Zenon
<1>3. CASE P!StopPool
  <2>1. /\ UNCHANGED <<pool, poolQueue, poolStarted, poolAccepted>> /\ poolRunning' \in BOOLEAN
        /\ StoppedAwake'
    BY <1>0, <1>3, Zenon DEF P!StopPool, StoppedAwake, P!NotifyAll
  <2> QED
    BY <2>1, PoolQuiet, Zenon
<1>4. ASSUME NEW w \in Workers, P!TestRunning(w) \/ P!TaskReturns(w) PROVE PoolInv'
  <2>1. /\ UNCHANGED <<pool, poolQueue, poolStarted, poolAccepted>> /\ poolRunning' \in BOOLEAN
        /\ StoppedAwake'
    BY <1>0, <1>4, Zenon DEF P!TestRunning, P!TaskReturns, StoppedAwake
  <2> QED
    BY <2>1, PoolQuiet, Zenon
<1>5. ASSUME NEW w \in Workers, P!Take(w) PROVE PoolInv'
  <2>0. UNCHANGED <<pool, poolRunning, poolAccepted>> /\ poolRunning' \in BOOLEAN
    BY <1>0, <1>5, Zenon DEF P!Take
  <2>1. CASE poolQueue = <<>>
    <3>1. UNCHANGED <<poolQueue, poolStarted>>
      BY <1>5, <2>1, Zenon DEF P!Take
    <3>2. StoppedAwake'
      BY <1>0, <1>5, <2>1, Zenon DEF P!Take, StoppedAwake, P!Wait
    <3> QED
      BY <2>0, <3>1, <3>2, PoolQuiet, Zenon
  <2>2. CASE poolQueue # <<>>
    <3>1. /\ poolQueue' = Tail(poolQueue) /\ poolStarted' = Append(poolStarted, Head(poolQueue))
          /\ poolNotEmpty' = poolNotEmpty
          /\ (poolNotFull' = poolNotFull \/ poolNotFull' \in P!Notify(poolNotFull))
      BY <1>5, <2>2, Zenon DEF P!Take
    <3>2. StoppedAwake'
      BY <1>0, <2>0, <3>1, Zenon DEF StoppedAwake, P!Notify
    <3>3. /\ poolQueue \in Seq(Tasks) /\ poolStarted \in Seq(Tasks) /\ pool.workers # {}
          /\ pool \in PoolPrograms /\ poolAccepted = poolStarted \o poolQueue
      BY <2>2, Zenon DEF PoolInv, P!StartedInOrder
    <3>4. /\ poolQueue' \in Seq(Tasks) /\ poolStarted' \in Seq(Tasks)
          /\ Len(poolQueue') = Len(poolQueue) - 1 /\ Len(poolQueue) \in Nat
      BY <3>1, <3>3, <2>2
    <3>5. poolAccepted' = poolStarted' \o poolQueue'
      <4>1. poolQueue = <<Head(poolQueue)>> \o Tail(poolQueue)
        BY <2>2, <3>3
      <4>2. poolStarted \o poolQueue = Append(poolStarted, Head(poolQueue)) \o Tail(poolQueue)
        BY <2>2, <3>3
      <4> QED
        BY <2>0, <3>1, <3>3, <4>2, Zenon
    <3>6. pool.maxQueueSize_ > 0 => Len(poolQueue') <= pool.maxQueueSize_
      <4>1. pool.maxQueueSize_ > 0 => Len(poolQueue) <= pool.maxQueueSize_
        BY Zenon DEF PoolInv, P!StartedInOrder
      <4>2. pool.maxQueueSize_ \in Nat
        BY <3>3, PoolAssumption, Zenon
      <4> QED
        BY <4>1, <4>2, <3>4
    <3> QED
      BY <2>0, <3>2, <3>3, <3>4, <3>5, <3>6, Zenon DEF PoolInv, P!StartedInOrder
  <2> QED
    BY <2>1, <2>2, Zenon
<1>6. ASSUME NEW t \in Tasks, P!CallRun(t) PROVE PoolInv'
  <2>1. /\ UNCHANGED <<pool, poolQueue, poolStarted, poolAccepted>> /\ poolRunning' \in BOOLEAN
        /\ StoppedAwake'
    BY <1>0, <1>6, Zenon DEF P!CallRun, StoppedAwake
  <2> QED
    BY <2>1, PoolQuiet, Zenon
<1>7. ASSUME NEW t \in Tasks, P!Run(t) PROVE PoolInv'
  <2>0. pool' = pool /\ poolRunning' = poolRunning
    BY <1>7, Zenon DEF P!Run
  <2>3. /\ poolQueue \in Seq(Tasks) /\ poolStarted \in Seq(Tasks) /\ pool \in PoolPrograms
        /\ poolAccepted = poolStarted \o poolQueue
    BY Zenon DEF PoolInv, P!StartedInOrder
  <2>1. CASE pool.workers = {}
    <3>1. /\ poolStarted' = Append(poolStarted, t) /\ poolAccepted' = Append(poolAccepted, t)
          /\ poolQueue' = poolQueue /\ poolNotEmpty' = poolNotEmpty /\ poolNotFull' = poolNotFull
      BY <1>7, <2>1, Zenon DEF P!Run
    <3>2. poolQueue = <<>>
      BY <2>1, Zenon DEF PoolInv
    <3>3. /\ Append(poolStarted, t) \in Seq(Tasks)
          /\ Append(poolStarted \o <<>>, t) = Append(poolStarted, t) \o <<>>
      BY <2>3
    <3>4. poolAccepted' = poolStarted' \o poolQueue'
      BY <2>3, <3>1, <3>2, <3>3, Zenon
    <3> QED
      BY <1>0, <2>0, <2>3, <3>1, <3>2, <3>3, <3>4, Zenon
         DEF PoolInv, P!StartedInOrder, StoppedAwake
  <2>2. CASE pool.workers # {} /\ poolRunning /\ ~P!IsFull
    <3>1. /\ poolQueue' = Append(poolQueue, t) /\ poolAccepted' = Append(poolAccepted, t)
          /\ poolStarted' = poolStarted
      BY <1>7, <2>2, Zenon DEF P!Run
    <3>2. /\ Append(poolQueue, t) \in Seq(Tasks)
          /\ Len(Append(poolQueue, t)) = Len(poolQueue) + 1 /\ Len(poolQueue) \in Nat
      BY <2>3
    <3>0. poolQueue \in Seq(Tasks) /\ poolStarted \in Seq(Tasks)
      BY <2>3, Zenon
    <3>3. Append(poolStarted \o poolQueue, t) = poolStarted \o Append(poolQueue, t)
      BY <3>0
    <3>4. poolAccepted' = poolStarted' \o poolQueue'
      BY <2>3, <3>1, <3>3, Zenon
    <3>5. pool.maxQueueSize_ > 0 => Len(Append(poolQueue, t)) <= pool.maxQueueSize_
      <4>1. pool.maxQueueSize_ \in Nat
        BY <2>3, PoolAssumption, Zenon
      <4> QED
        BY <2>2, <3>2, <4>1 DEF P!IsFull
    <3>6. StoppedAwake'
      BY <2>0, <2>2, Zenon DEF StoppedAwake
    <3> QED
      BY <1>0, <2>0, <2>2, <2>3, <3>1, <3>2, <3>4, <3>5, <3>6, Zenon
         DEF PoolInv, P!StartedInOrder
  <2>4. CASE pool.workers # {} /\ (~poolRunning \/ P!IsFull)
    <3>1. UNCHANGED <<poolQueue, poolStarted, poolAccepted, poolNotEmpty>>
      BY <1>7, <2>4, Zenon DEF P!Run
    <3>2. poolRunning \/ poolNotFull' = poolNotFull
      BY <1>7, <2>4, Zenon DEF P!Run
    <3> QED
      BY <1>0, <2>0, <3>1, <3>2, PoolQuiet, Zenon DEF StoppedAwake
  <2> QED
    BY <2>1, <2>2, <2>4, Zenon
<1>8. CASE P!WakeSpuriously
  <2>1. UNCHANGED <<pool, poolQueue, poolStarted, poolAccepted>> /\ poolRunning' = poolRunning
    BY <1>8, Zenon DEF P!WakeSpuriously
  <2>2. StoppedAwake'
    BY <1>0, <1>8, <2>1, Zenon DEF P!WakeSpuriously, StoppedAwake, P!Spurious
  <2> QED
    BY <1>0, <2>1, <2>2, PoolQuiet, Zenon
<1> QED
  BY <1>1, <1>2, <1>3, <1>4, <1>5, <1>6, <1>7, <1>8, Zenon DEF P!Next, P!WorkerStep

(* For any workers, tasks and programs: the tasks that run() accepted start  *)
(* in the order in which they were put, each once, and after stop() nobody   *)
(* waits in take() or run().                                                 *)
THEOREM PoolOrder == P!Init /\ [][P!Next]_P!vars => [](P!StartedInOrder /\ StoppedAwake)
<1>1. PoolInv => P!StartedInOrder /\ StoppedAwake
  BY Zenon DEF PoolInv
<1> QED
  BY <1>1, PoolInit, PoolNext, PTL

-----------------------------------------------------------------------------
(* AsyncLogging.  The lines that were appended are joined along their way:   *)
(* the file, then the buffers being written, then buffers_, then             *)
(* currentBuffer_.  Each step moves lines from one part to the one before    *)
(* it, or drops whole buffers, so the joined lines stay in order.  What the  *)
(* recursive definitions of AsyncLogging compute is shown by induction.      *)

(* A set of natural numbers that is not empty has a least element. *)
LEMMA LeastNatural ==
  ASSUME NEW T \in SUBSET Nat, T # {}
  PROVE  \E m \in T : \A k \in T : m <= k
<1> DEFINE R == OpToRel(<, Nat)
<1>1. IsWellFoundedOn(R, Nat)
  BY NatLessThanWellFounded, Zenon
<1>2. \A i, j \in Nat : i < j => <<i, j>> \in R
  BY DEF OpToRel
<1> HIDE DEF R
<1>3. PICK m \in T : \A k \in T : ~(<<k, m>> \in R)
  BY <1>1, WFMin, Zenon
<1>4. ASSUME NEW k \in T PROVE m <= k
  <2>1. ~(k < m)
    BY <1>2, <1>3, Zenon
  <2> QED
    BY <2>1
<1> QED
  BY <1>4

(* Induction: a set that has 0, and n + 1 with n, has every natural number. *)
LEMMA InductionOnNat ==
  ASSUME NEW T, 0 \in T, \A n \in Nat : n \in T => n + 1 \in T
  PROVE  Nat \subseteq T
<1> SUFFICES ASSUME Nat \ T # {} PROVE FALSE
  OBVIOUS
<1>1. PICK m \in Nat \ T : \A k \in Nat \ T : m <= k
  BY LeastNatural, Zenon
<1>2. m # 0 /\ m - 1 \in Nat
  BY <1>1
<1>3. m - 1 \in T
  BY <1>1, <1>2
<1> QED
  BY <1>1, <1>2, <1>3

(* Sequences with the same elements are equal. *)
LEMMA SameSeq ==
  ASSUME NEW S, NEW s \in Seq(S), NEW t \in Seq(S), Len(s) = Len(t),
         \A k \in 1 .. Len(s) : s[k] = t[k]
  PROVE  s = t
OBVIOUS

(* The type and the length of a concatenation. *)
LEMMA CatIs ==
  ASSUME NEW S, NEW s \in Seq(S), NEW t \in Seq(S)
  PROVE  s \o t \in Seq(S) /\ Len(s \o t) = Len(s) + Len(t)
OBVIOUS

(* Concatenation of three sequences. *)
Associate(a, b, c) == (a \o b) \o c = a \o (b \o c)

(* It is associative. *)
LEMMA CatAssociates ==
  ASSUME NEW S, NEW a \in Seq(S), NEW b \in Seq(S), NEW c \in Seq(S)
  PROVE  Associate(a, b, c)
BY DEF Associate

(* A sequence is its first k elements and the others. *)
SplitsAt(s, k) == s = SubSeq(s, 1, k) \o SubSeq(s, k + 1, Len(s))

(* Every sequence is. *)
LEMMA SeqSplits ==
  ASSUME NEW S, NEW s \in Seq(S), NEW k \in Nat, k < Len(s)
  PROVE  /\ SplitsAt(s, k)
         /\ SubSeq(s, 1, k) \in Seq(S) /\ Len(SubSeq(s, 1, k)) = k
         /\ SubSeq(s, k + 1, Len(s)) \in Seq(S)
<1> DEFINE a == SubSeq(s, 1, k)
           b == SubSeq(s, k + 1, Len(s))
<1>1. a \in Seq(S) /\ Len(a) = k /\ \A i \in 1 .. k : a[i] = s[i]
  OBVIOUS
<1>2. b \in Seq(S) /\ Len(b) = Len(s) - k /\ \A i \in 1 .. Len(s) - k : b[i] = s[k + i]
  OBVIOUS
<1> HIDE DEF a, b
<1>3. a \o b \in Seq(S) /\ Len(a \o b) = Len(s)
  BY <1>1, <1>2
<1>4. ASSUME NEW i \in 1 .. Len(s) PROVE s[i] = (a \o b)[i]
  <2>1. CASE i <= k
    <3>1. (a \o b)[i] = a[i] /\ i \in 1 .. k
      BY <1>1, <1>2, <2>1
    <3> QED
      BY <3>1, <1>1, Zenon
  <2>2. CASE i > k
    <3>1. (a \o b)[i] = b[i - k] /\ i - k \in 1 .. Len(s) - k /\ k + (i - k) = i
      BY <1>1, <1>2, <2>2
    <3>2. b[i - k] = s[k + (i - k)]
      BY <1>2, <3>1, Zenon
    <3> QED
      BY <3>1, <3>2
  <2>3. i <= k \/ i > k
    OBVIOUS
  <2> QED
    BY <2>1, <2>2, <2>3, Zenon
<1>5. s = a \o b
  BY <1>3, <1>4, SameSeq, Zenon
<1> QED
  BY <1>1, <1>2, <1>5, Zenon DEF SplitsAt, a, b

(* The number of a line; 0 is the notice of dropped lines. *)
Pos == Nat \ {0}

(* The type of a LogFile. *)
FileType ==
  [count_ : Nat, startOfPeriod_ : Nat, lastRoll_ : Nat, lastFlush_ : Nat,
   name : Nat, writtenBytes_ : Nat, stdio : Seq(Nat), disk : Seq(Nat \X Nat)]

(* The lines of what is on the disk, which is pairs of a file and a line. *)
Seconds(d) == [k \in DOMAIN d |-> d[k][2]]

(* The lines of a LogFile, those on the disk and those that stdio holds. *)
FileLines(f) == Seconds(f.disk) \o f.stdio

(* They are lines. *)
LEMMA SecondsType ==
  ASSUME NEW d \in Seq(Nat \X Nat)
  PROVE  /\ Seconds(d) \in Seq(Nat) /\ Len(Seconds(d)) = Len(d)
         /\ \A k \in 1 .. Len(d) : Seconds(d)[k] = d[k][2]
<1>1. \A k \in 1 .. Len(d) : d[k] \in Nat \X Nat
  OBVIOUS
<1>2. \A k \in 1 .. Len(d) : d[k][2] \in Nat
  BY <1>1
<1> QED
  BY <1>2 DEF Seconds

(* The lines of a concatenation. *)
LEMMA SecondsCat ==
  ASSUME NEW d \in Seq(Nat \X Nat), NEW e \in Seq(Nat \X Nat)
  PROVE  Seconds(d \o e) = Seconds(d) \o Seconds(e)
<1>1. d \o e \in Seq(Nat \X Nat)
  OBVIOUS
<1> DEFINE a == Seconds(d)
           b == Seconds(e)
           c == Seconds(d \o e)
<1>2. /\ a \in Seq(Nat) /\ Len(a) = Len(d) /\ \A k \in 1 .. Len(d) : a[k] = d[k][2]
      /\ b \in Seq(Nat) /\ Len(b) = Len(e) /\ \A k \in 1 .. Len(e) : b[k] = e[k][2]
      /\ c \in Seq(Nat) /\ Len(c) = Len(d \o e) /\ \A k \in 1 .. Len(d \o e) : c[k] = (d \o e)[k][2]
  BY <1>1, SecondsType, Zenon
<1> HIDE DEF a, b, c
<1>0. a \in Seq(Nat) /\ b \in Seq(Nat) /\ Len(a) = Len(d) /\ Len(b) = Len(e) /\ Len(c) = Len(d \o e)
  BY <1>2, Zenon
<1>3. a \o b \in Seq(Nat) /\ Len(c) = Len(a \o b)
  <2>1. Len(d \o e) = Len(d) + Len(e)
    OBVIOUS
  <2>2. Len(a \o b) = Len(a) + Len(b) /\ a \o b \in Seq(Nat)
    BY <1>0, CatIs, Zenon
  <2> QED
    BY <2>1, <2>2, <1>0, Zenon
<1>4. ASSUME NEW k \in 1 .. Len(c) PROVE c[k] = (a \o b)[k]
  <2>1. CASE k <= Len(d)
    <3>1. (d \o e)[k] = d[k] /\ (a \o b)[k] = a[k] /\ k \in 1 .. Len(d) /\ k \in 1 .. Len(d \o e)
      BY <1>0, <2>1
    <3> QED
      BY <3>1, <1>2, Zenon
  <2>2. CASE k > Len(d)
    <3>1. /\ (d \o e)[k] = e[k - Len(d)] /\ (a \o b)[k] = b[k - Len(d)]
          /\ k - Len(d) \in 1 .. Len(e) /\ k \in 1 .. Len(d \o e)
      BY <1>0, <2>2, SMTT(60)
    <3> QED
      BY <3>1, <1>2, Zenon
  <2>3. k <= Len(d) \/ k > Len(d)
    BY <1>0
  <2> QED
    BY <2>1, <2>2, <2>3, Zenon
<1>5. c = a \o b
  BY <1>2, <1>3, <1>4, SameSeq, Zenon
<1> QED
  BY <1>5 DEF a, b, c

(* LogFile::flush keeps the lines in order. *)
LEMMA FlushKeeps ==
  ASSUME NEW f \in FileType
  PROVE  A!Flush(f) \in FileType /\ FileLines(A!Flush(f)) = FileLines(f)
<1> DEFINE d == f.disk
           s == f.stdio
           e == [k \in DOMAIN s |-> <<f.name, s[k]>>]
<1>1. d \in Seq(Nat \X Nat) /\ s \in Seq(Nat) /\ f.name \in Nat
  BY DEF FileType
<1>2. e \in Seq(Nat \X Nat) /\ Len(e) = Len(s) /\ \A k \in 1 .. Len(s) : e[k][2] = s[k]
  <2> HIDE DEF s
  <2>1. \A k \in 1 .. Len(s) : s[k] \in Nat
    BY <1>1
  <2>2. DOMAIN s = 1 .. Len(s) /\ Len(s) \in Nat
    BY <1>1
  <2>3. \A k \in 1 .. Len(s) : e[k] = <<f.name, s[k]>> /\ e[k] \in Nat \X Nat
    BY <1>1, <2>1, <2>2
  <2>4. \A k \in 1 .. Len(s) : e[k][2] = s[k]
    BY <2>3
  <2>5. DOMAIN e = 1 .. Len(s) /\ e = [k \in 1 .. Len(s) |-> e[k]]
    BY <2>2, Zenon
  <2> HIDE DEF e
  <2> QED
    BY <2>2, <2>3, <2>4, <2>5
<1> HIDE DEF d, s, e
<1>3. A!Flush(f) = [f EXCEPT !.disk = d \o e, !.stdio = <<>>]
  BY Zenon DEF A!Flush, d, s, e
<1>4. d \o e \in Seq(Nat \X Nat) /\ <<>> \in Seq(Nat)
  BY <1>1, <1>2
<1>5. A!Flush(f) \in FileType /\ A!Flush(f).disk = d \o e /\ A!Flush(f).stdio = <<>>
  <2> DEFINE x == d \o e
             y == <<>>
  <2> HIDE DEF x, y
  <2>1. x \in Seq(Nat \X Nat) /\ y \in Seq(Nat) /\ A!Flush(f) = [f EXCEPT !.disk = x, !.stdio = y]
    BY <1>3, <1>4, Zenon DEF x, y
  <2>2. A!Flush(f) \in FileType /\ A!Flush(f).disk = x /\ A!Flush(f).stdio = y
    BY <2>1, Zenon DEF FileType
  <2> QED
    BY <2>2, Zenon DEF x, y
<1>6. FileLines(A!Flush(f)) = (Seconds(d) \o Seconds(e)) \o <<>>
  BY <1>1, <1>2, <1>5, SecondsCat, Zenon DEF FileLines
<1>7. /\ Seconds(d) \in Seq(Nat) /\ Seconds(e) \in Seq(Nat) /\ Len(Seconds(e)) = Len(e)
      /\ \A k \in 1 .. Len(e) : Seconds(e)[k] = e[k][2]
  BY <1>1, <1>2, SecondsType, Zenon
<1>8. Seconds(e) = s
  <2> DEFINE g == Seconds(e)
  <2> HIDE DEF g
  <2>1. g \in Seq(Nat) /\ Len(g) = Len(e) /\ \A k \in 1 .. Len(e) : g[k] = e[k][2]
    BY <1>7, Zenon DEF g
  <2>2. Len(g) = Len(s) /\ \A k \in 1 .. Len(g) : g[k] = s[k]
    BY <2>1, <1>2, Zenon
  <2>3. g = s
    BY <2>1, <2>2, <1>1, SameSeq, Zenon
  <2> QED
    BY <2>3, Zenon DEF g
<1>9. (Seconds(d) \o s) \o <<>> = Seconds(d) \o s
  <2> DEFINE g == Seconds(d)
  <2> HIDE DEF g
  <2>1. g \in Seq(Nat)
    BY <1>7, Zenon DEF g
  <2>2. (g \o s) \o <<>> = g \o s
    BY <2>1, <1>1
  <2> QED
    BY <2>2, Zenon DEF g
<1> QED
  BY <1>5, <1>6, <1>8, <1>9, Zenon DEF FileLines, d, s

(* A change of the other fields leaves the lines alone *)
LEMMA SameLines ==
  ASSUME NEW f, NEW g, f.disk = g.disk, f.stdio = g.stdio
  PROVE  FileLines(f) = FileLines(g)
BY Zenon DEF FileLines

(* The start of a period is a number. *)
LEMMA PeriodIs ==
  ASSUME NEW n \in Nat
  PROVE  A!Period(n) \in Nat
<1> DEFINE q == n \div kRollPerSeconds_
<1>1. q \in Nat
  BY AsyncAssumption
<1> HIDE DEF q
<1>2. q * kRollPerSeconds_ \in Nat
  BY <1>1, AsyncAssumption
<1> QED
  BY <1>2 DEF q, A!Period

(* rollFile (LogFile.cc:86-103) keeps the lines, though they go on in        *)
(* another file.                                                             *)
LEMMA RollKeeps ==
  ASSUME NEW f \in FileType, NEW n \in Nat
  PROVE  A!RollFile(f, n) \in FileType /\ FileLines(A!RollFile(f, n)) = FileLines(f)
<1> DEFINE g == A!Flush(f)
           p == A!Period(n)
           h == [g EXCEPT !.lastRoll_ = n, !.lastFlush_ = n, !.startOfPeriod_ = p,
                          !.name = n, !.writtenBytes_ = 0]
<1>1. g \in FileType /\ FileLines(g) = FileLines(f) /\ p \in Nat
  BY FlushKeeps, PeriodIs, Zenon
<1>2. A!RollFile(f, n) = h \/ A!RollFile(f, n) = f
  BY Zenon DEF A!RollFile
<1>3. h \in FileType /\ h.disk = g.disk /\ h.stdio = g.stdio
  <2> HIDE DEF g, p
  <2> DEFINE g1 == [g EXCEPT !.lastRoll_ = n]
             g2 == [g1 EXCEPT !.lastFlush_ = n]
             g3 == [g2 EXCEPT !.startOfPeriod_ = p]
             g4 == [g3 EXCEPT !.name = n]
             g5 == [g4 EXCEPT !.writtenBytes_ = 0]
  <2>1. g1 \in FileType /\ g1.disk = g.disk /\ g1.stdio = g.stdio
    BY <1>1, Zenon DEF FileType
  <2> HIDE DEF g1
  <2>2. g2 \in FileType /\ g2.disk = g1.disk /\ g2.stdio = g1.stdio
    BY <2>1, Zenon DEF FileType
  <2> HIDE DEF g2
  <2>3. g3 \in FileType /\ g3.disk = g2.disk /\ g3.stdio = g2.stdio
    BY <2>2, <1>1, Zenon DEF FileType
  <2> HIDE DEF g3
  <2>4. g4 \in FileType /\ g4.disk = g3.disk /\ g4.stdio = g3.stdio
    BY <2>3, Zenon DEF FileType
  <2> HIDE DEF g4
  <2>5. g5 \in FileType /\ g5.disk = g4.disk /\ g5.stdio = g4.stdio
    BY <2>4, Zenon DEF FileType
  <2>6. h = g5
    BY <1>1 DEF g1, g2, g3, g4, g5, FileType
  <2> HIDE DEF g5, h
  <2> QED
    BY <2>1, <2>2, <2>3, <2>4, <2>5, <2>6, Zenon
<1>4. FileLines(h) = FileLines(g)
  <2> HIDE DEF h, g
  <2> QED
    BY <1>3, SameLines, Zenon
<1> QED
  <2> HIDE DEF h, g
  <2> QED
    BY <1>1, <1>2, <1>3, <1>4, Zenon

(* FileUtil::AppendFile::append adds the lines after those that were there. *)
LEMMA AppendFileAdds ==
  ASSUME NEW f \in FileType, NEW b \in Seq(Nat)
  PROVE  A!AppendFile(f, b) \in FileType /\ FileLines(A!AppendFile(f, b)) = FileLines(f) \o b
<1> DEFINE s == f.stdio \o b
           w == f.writtenBytes_ + Len(b)
           g == [f EXCEPT !.stdio = s, !.writtenBytes_ = w]
<1>1. A!AppendFile(f, b) = g
  BY Zenon DEF A!AppendFile
<1>2. f.stdio \in Seq(Nat) /\ f.disk \in Seq(Nat \X Nat) /\ s \in Seq(Nat) /\ w \in Nat
  BY DEF FileType
<1>3. g \in FileType /\ g.stdio = s /\ g.disk = f.disk
  <2> HIDE DEF s, w
  <2> QED
    BY <1>2, Zenon DEF FileType
<1>4. Seconds(f.disk) \in Seq(Nat)
  BY <1>2, SecondsType, Zenon
<1> DEFINE d == Seconds(f.disk)
           t == f.stdio
<1>5. (d \o t) \o b = d \o (t \o b)
  <2> HIDE DEF d, t
  <2>1. d \in Seq(Nat) /\ t \in Seq(Nat)
    BY <1>2, <1>4, Zenon DEF d, t
  <2> QED
    <3>1. Associate(d, t, b)
      BY <2>1, CatAssociates, Zenon
    <3> QED
      BY <3>1, Zenon DEF Associate
<1> HIDE DEF g
<1> QED
  BY <1>1, <1>3, <1>5, Zenon DEF FileLines

(* What append_unlocked does after it, to flush or to roll by time, keeps    *)
(* the lines.                                                                *)
LEMMA CountedKeeps ==
  ASSUME NEW f \in FileType, NEW n \in Nat
  PROVE  A!Counted(f, n) \in FileType /\ FileLines(A!Counted(f, n)) = FileLines(f)
<1> DEFINE c == f.count_ + 1
           f1 == [f EXCEPT !.count_ = c]
           f0 == [f EXCEPT !.count_ = 0]
           fl == [f EXCEPT !.count_ = 0, !.lastFlush_ = n]
<1>1. c \in Nat /\ checkEveryN_ \in Nat /\ (c < checkEveryN_ \/ c >= checkEveryN_)
  BY AsyncAssumption DEF FileType
<1>2. f1 \in FileType /\ f1.disk = f.disk /\ f1.stdio = f.stdio
  <2> HIDE DEF c
  <2> QED
    BY <1>1, Zenon DEF FileType
<1>3. f0 \in FileType /\ f0.disk = f.disk /\ f0.stdio = f.stdio
  BY Zenon DEF FileType
<1>4. fl \in FileType /\ fl.disk = f.disk /\ fl.stdio = f.stdio
  BY Zenon DEF FileType
<1> HIDE DEF f1, f0, fl
<1>5. FileLines(f1) = FileLines(f) /\ FileLines(f0) = FileLines(f) /\ FileLines(fl) = FileLines(f)
  BY <1>2, <1>3, <1>4, SameLines, Zenon
<1>6. A!Counted(f, n) \in {f1, f0, A!RollFile(f0, n), A!Flush(fl)}
  <2>1. CASE c < checkEveryN_
    <3>1. A!Counted(f, n) = f1
      BY <1>1, <2>1 DEF A!Counted, f1
    <3> QED
      BY <3>1, Zenon
  <2>2. CASE c >= checkEveryN_ /\ A!Period(n) # f.startOfPeriod_
    <3>1. A!Counted(f, n) = A!RollFile(f0, n)
      BY <1>1, <2>2 DEF A!Counted, f0
    <3> QED
      BY <3>1, Zenon
  <2>3. CASE c >= checkEveryN_ /\ A!Period(n) = f.startOfPeriod_
    <3>1. A!Counted(f, n) = IF n - f.lastFlush_ > flushInterval_ THEN A!Flush(fl) ELSE f0
      BY <1>1, <2>3 DEF A!Counted, f0, fl
    <3> QED
      BY <3>1, Zenon
  <2> QED
    BY <1>1, <2>1, <2>2, <2>3, Zenon
<1>7. /\ A!RollFile(f0, n) \in FileType /\ FileLines(A!RollFile(f0, n)) = FileLines(f)
      /\ A!Flush(fl) \in FileType /\ FileLines(A!Flush(fl)) = FileLines(f)
  BY <1>3, <1>4, <1>5, RollKeeps, FlushKeeps, Zenon
<1> QED
  BY <1>2, <1>3, <1>5, <1>6, <1>7, Zenon

(* append_unlocked (LogFile.cc:49-84) adds the lines of a buffer after those *)
(* of the file, whatever it rolls or flushes.                                *)
LEMMA AppendUnlockedAdds ==
  ASSUME NEW f \in FileType, NEW b \in Seq(Nat), NEW n \in Nat
  PROVE  /\ A!AppendUnlocked(f, b, n) \in FileType
         /\ FileLines(A!AppendUnlocked(f, b, n)) = FileLines(f) \o b
<1> DEFINE g == A!AppendFile(f, b)
<1>1. g \in FileType /\ FileLines(g) = FileLines(f) \o b
  BY AppendFileAdds, Zenon
<1>2. A!AppendUnlocked(f, b, n) \in {A!RollFile(g, n), A!Counted(g, n)}
  BY Zenon DEF A!AppendUnlocked
<1> HIDE DEF g
<1> QED
  BY <1>1, <1>2, RollKeeps, CountedKeeps, Zenon

(* f joins the first buffers: the recursion of Concat. *)
Joins(f, bufs, n) == f = [k \in 0 .. n |-> IF k = 0 THEN <<>> ELSE f[k - 1] \o bufs[k]]

(* There is such a function for any number of buffers. *)
LEMMA JoinsExists ==
  ASSUME NEW bufs
  PROVE  \A n \in Nat : \E f : Joins(f, bufs, n)
<1> DEFINE T == {n \in Nat : \E f : Joins(f, bufs, n)}
<1>1. 0 \in T
  <2> DEFINE f == [k \in 0 .. 0 |-> <<>>]
  <2>1. \A k \in 0 .. 0 : k = 0
    OBVIOUS
  <2>2. Joins(f, bufs, 0)
    BY <2>1, Zenon DEF Joins
  <2> QED
    BY <2>2
<1>2. ASSUME NEW n \in Nat, n \in T PROVE n + 1 \in T
  <2>1. PICK f : Joins(f, bufs, n)
    BY <1>2
  <2> DEFINE v == f[n] \o bufs[n + 1]
             g == [k \in 0 .. n + 1 |-> IF k = n + 1 THEN v ELSE f[k]]
  <2>2. \A k \in 0 .. n : f[k] = IF k = 0 THEN <<>> ELSE f[k - 1] \o bufs[k]
    BY <2>1, Zenon DEF Joins
  <2>3. \A k \in 0 .. n : k # n + 1 /\ k \in 0 .. n + 1 /\
      (k # 0 => k - 1 \in 0 .. n + 1 /\ k - 1 # n + 1)
    OBVIOUS
  <2>4. (n + 1) - 1 = n /\ n \in 0 .. n + 1 /\ n # n + 1 /\ n + 1 \in 0 .. n + 1 /\ n + 1 # 0
    OBVIOUS
  <2>5. \A k \in 0 .. n + 1 : k = n + 1 \/ k \in 0 .. n
    OBVIOUS
  <2> HIDE DEF v
  <2>6. ASSUME NEW k \in 0 .. n + 1
        PROVE  g[k] = IF k = 0 THEN <<>> ELSE g[k - 1] \o bufs[k]
    <3>1. CASE k = n + 1
      <4>1. g[k] = v /\ k - 1 = n /\ g[k - 1] = f[n]
        BY <3>1, <2>4
      <4> QED
        BY <3>1, <4>1, <2>4, Zenon DEF v
    <3>2. CASE k \in 0 .. n
      <4>1. g[k] = f[k] /\ (k # 0 => g[k - 1] = f[k - 1])
        BY <3>2, <2>3
      <4> QED
        BY <3>2, <4>1, <2>2, Zenon
    <3> QED
      BY <3>1, <3>2, <2>5, Zenon
  <2>7. Joins(g, bufs, n + 1)
    <3> HIDE DEF g
    <3>1. g = [k \in 0 .. n + 1 |-> g[k]]
      BY Zenon DEF g
    <3> QED
      BY <2>6, <3>1, Zenon DEF Joins
  <2> QED
    BY <2>7
<1> HIDE DEF T
<1>3. Nat \subseteq T
  BY <1>1, <1>2, InductionOnNat
<1> QED
  BY <1>3 DEF T

(* Concat gives its last value. *)
LEMMA ConcatIs ==
  ASSUME NEW bufs, Len(bufs) \in Nat
  PROVE  \E f : Joins(f, bufs, Len(bufs)) /\ A!Concat(bufs) = f[Len(bufs)]
<1> DEFINE g == CHOOSE f : Joins(f, bufs, Len(bufs))
<1>1. Joins(g, bufs, Len(bufs))
  BY JoinsExists, Zenon
<1>2. A!Concat(bufs) = g[Len(bufs)]
  BY Zenon DEF A!Concat, Joins
<1> QED
  BY <1>1, <1>2, Zenon

(* Equal buffers are joined to equal lines. *)
LEMMA JoinsAgree ==
  ASSUME NEW S, NEW s, NEW t, NEW n \in Nat, NEW m \in Nat, n <= m, NEW f, NEW g,
         Joins(f, s, n), Joins(g, t, m), \A i \in 1 .. n : s[i] = t[i] /\ s[i] \in Seq(S)
  PROVE  f[n] = g[n] /\ f[n] \in Seq(S)
<1> DEFINE T == {k \in Nat : k <= n => f[k] = g[k] /\ f[k] \in Seq(S)}
<1>1. 0 \in T
  <2>1. 0 \in 0 .. n /\ 0 \in 0 .. m
    OBVIOUS
  <2>2. f[0] = <<>> /\ g[0] = <<>>
    BY <2>1, Zenon DEF Joins
  <2>3. <<>> \in Seq(S)
    OBVIOUS
  <2> QED
    BY <2>2, <2>3, Zenon
<1>2. ASSUME NEW k \in Nat, k \in T PROVE k + 1 \in T
  <2> SUFFICES ASSUME k + 1 <= n PROVE f[k + 1] = g[k + 1] /\ f[k + 1] \in Seq(S)
    OBVIOUS
  <2>0. /\ k + 1 \in 0 .. m /\ k + 1 \in 0 .. n /\ k + 1 \in 1 .. n /\ (k + 1) - 1 = k
        /\ k + 1 # 0 /\ k <= n
    OBVIOUS
  <2>1. f[k + 1] = f[k] \o s[k + 1] /\ g[k + 1] = g[k] \o t[k + 1]
    BY <2>0, Zenon DEF Joins
  <2>2. s[k + 1] = t[k + 1] /\ s[k + 1] \in Seq(S) /\ f[k] = g[k] /\ f[k] \in Seq(S)
    BY <2>0, <1>2
  <2> QED
    BY <2>1, <2>2, CatIs, Zenon
<1>3. n <= n
  OBVIOUS
<1> HIDE DEF T
<1>4. Nat \subseteq T
  BY <1>1, <1>2, InductionOnNat
<1> QED
  BY <1>3, <1>4, Zenon DEF T

(* No buffers have no lines. *)
LEMMA ConcatEmpty == A!Concat(<<>>) = <<>>
<1>1. Len(<<>>) = 0 /\ 0 \in Nat /\ 0 \in 0 .. 0
  OBVIOUS
<1>2. PICK f : Joins(f, <<>>, Len(<<>>)) /\ A!Concat(<<>>) = f[Len(<<>>)]
  BY <1>1, ConcatIs, Zenon
<1>3. Joins(f, <<>>, 0) /\ A!Concat(<<>>) = f[0]
  BY <1>1, <1>2, Zenon
<1> QED
  BY <1>1, <1>3, Zenon DEF Joins

(* The lines of buffers are lines. *)
LEMMA ConcatType ==
  ASSUME NEW S, NEW s \in Seq(Seq(S))
  PROVE  A!Concat(s) \in Seq(S)
<1> DEFINE n == Len(s)
<1>1. n \in Nat /\ n <= n /\ \A i \in 1 .. n : s[i] = s[i] /\ s[i] \in Seq(S)
  OBVIOUS
<1> HIDE DEF n
<1>2. PICK f : Joins(f, s, n) /\ A!Concat(s) = f[n]
  BY <1>1, ConcatIs, Zenon DEF n
<1>3. f[n] = f[n] /\ f[n] \in Seq(S)
  BY <1>1, <1>2, JoinsAgree, Zenon
<1> QED
  BY <1>2, <1>3, Zenon

(* The lines of one buffer more come last. *)
LEMMA ConcatAppend ==
  ASSUME NEW S, NEW s \in Seq(Seq(S)), NEW b \in Seq(S)
  PROVE  A!Concat(Append(s, b)) = A!Concat(s) \o b
<1> DEFINE t == Append(s, b)
           n == Len(s)
<1>1. /\ n \in Nat /\ Len(t) = n + 1 /\ n + 1 \in Nat /\ n <= n + 1
      /\ t[n + 1] = b
      /\ \A i \in 1 .. n : s[i] = t[i] /\ s[i] \in Seq(S)
      /\ n + 1 \in 0 .. n + 1 /\ (n + 1) - 1 = n /\ n + 1 # 0
  OBVIOUS
<1> HIDE DEF t, n
<1>2. PICK g : Joins(g, t, n + 1) /\ A!Concat(t) = g[n + 1]
  BY <1>1, ConcatIs, Zenon
<1>3. g[n + 1] = g[n] \o b
  BY <1>1, <1>2, Zenon DEF Joins
<1>4. PICK f : Joins(f, s, n) /\ A!Concat(s) = f[n]
  BY <1>1, ConcatIs, Zenon DEF n
<1>5. f[n] = g[n] /\ f[n] \in Seq(S)
  BY <1>1, <1>2, <1>4, JoinsAgree, Zenon
<1> QED
  BY <1>2, <1>3, <1>4, <1>5, Zenon DEF t

(* The lines of buffers and of buffers after them. *)
LEMMA ConcatCat ==
  ASSUME NEW S, NEW a \in Seq(Seq(S))
  PROVE  \A b \in Seq(Seq(S)) : A!Concat(a \o b) = A!Concat(a) \o A!Concat(b)
<1> DEFINE T ==
    {n \in Nat : \A b \in Seq(Seq(S)) : Len(b) = n => A!Concat(a \o b) = A!Concat(a) \o A!Concat(b)}
<1>0. A!Concat(a) \in Seq(S)
  BY ConcatType, Zenon
<1>1. 0 \in T
  <2> SUFFICES ASSUME NEW b \in Seq(Seq(S)), Len(b) = 0
      PROVE A!Concat(a \o b) = A!Concat(a) \o A!Concat(b)
    OBVIOUS
  <2>1. b = <<>> /\ a \o b = a
    OBVIOUS
  <2>2. A!Concat(a) \o <<>> = A!Concat(a)
    BY <1>0
  <2> QED
    BY <2>1, <2>2, ConcatEmpty, Zenon
<1>2. ASSUME NEW n \in Nat, n \in T PROVE n + 1 \in T
  <2> SUFFICES ASSUME NEW b \in Seq(Seq(S)), Len(b) = n + 1
      PROVE A!Concat(a \o b) = A!Concat(a) \o A!Concat(b)
    OBVIOUS
  <2> DEFINE c == SubSeq(b, 1, n)
             x == b[n + 1]
  <2>1. c \in Seq(Seq(S)) /\ Len(c) = n /\ x \in Seq(S) /\ a \o c \in Seq(Seq(S))
    OBVIOUS
  <2>2. b = Append(c, x)
    OBVIOUS
  <2>3. a \o b = Append(a \o c, x)
    <3> HIDE DEF c, x
    <3> QED
      BY <2>1, <2>2
  <2> HIDE DEF c, x
  <2>4. A!Concat(b) = A!Concat(c) \o x /\ A!Concat(a \o b) = A!Concat(a \o c) \o x
    BY <2>1, <2>2, <2>3, ConcatAppend, Zenon
  <2>5. A!Concat(a \o c) = A!Concat(a) \o A!Concat(c)
    BY <1>2, <2>1, Zenon
  <2>6. A!Concat(c) \in Seq(S)
    BY <2>1, ConcatType, Zenon
  <2>7. Associate(A!Concat(a), A!Concat(c), x)
    BY <1>0, <2>1, <2>6, CatAssociates, Zenon
  <2> QED
    BY <2>4, <2>5, <2>7, Zenon DEF Associate
<1> HIDE DEF T
<1>3. Nat \subseteq T
  BY <1>1, <1>2, InductionOnNat, Zenon
<1> QED
  <2> SUFFICES ASSUME NEW b \in Seq(Seq(S)) PROVE A!Concat(a \o b) = A!Concat(a) \o A!Concat(b)
    OBVIOUS
  <2>1. Len(b) \in Nat
    OBVIOUS
  <2> QED
    BY <1>3, <2>1, Zenon DEF T


(* f holds the LogFile after each buffer: the recursion of Written. *)
Writes(f, file, bufs, n) ==
  f = [k \in 0 .. n |-> IF k = 0 THEN file ELSE A!AppendUnlocked(f[k - 1], bufs[k], now)]

(* There is such a function for any number of buffers. *)
LEMMA WritesExists ==
  ASSUME NEW file, NEW bufs
  PROVE  \A n \in Nat : \E f : Writes(f, file, bufs, n)
<1> DEFINE T == {n \in Nat : \E f : Writes(f, file, bufs, n)}
<1>1. 0 \in T
  <2> DEFINE f == [k \in 0 .. 0 |-> file]
  <2>1. \A k \in 0 .. 0 : k = 0
    OBVIOUS
  <2>2. Writes(f, file, bufs, 0)
    BY <2>1, Zenon DEF Writes
  <2> QED
    BY <2>2
<1>2. ASSUME NEW n \in Nat, n \in T PROVE n + 1 \in T
  <2>1. PICK f : Writes(f, file, bufs, n)
    BY <1>2
  <2> DEFINE v == A!AppendUnlocked(f[n], bufs[n + 1], now)
             g == [k \in 0 .. n + 1 |-> IF k = n + 1 THEN v ELSE f[k]]
  <2>2. \A k \in 0 .. n : f[k] = IF k = 0 THEN file ELSE A!AppendUnlocked(f[k - 1], bufs[k], now)
    BY <2>1, Zenon DEF Writes
  <2>3. \A k \in 0 .. n : k # n + 1 /\ k \in 0 .. n + 1 /\
      (k # 0 => k - 1 \in 0 .. n + 1 /\ k - 1 # n + 1)
    OBVIOUS
  <2>4. (n + 1) - 1 = n /\ n \in 0 .. n + 1 /\ n # n + 1 /\ n + 1 \in 0 .. n + 1 /\ n + 1 # 0
    OBVIOUS
  <2>5. \A k \in 0 .. n + 1 : k = n + 1 \/ k \in 0 .. n
    OBVIOUS
  <2> HIDE DEF v
  <2>6. ASSUME NEW k \in 0 .. n + 1
        PROVE  g[k] = IF k = 0 THEN file ELSE A!AppendUnlocked(g[k - 1], bufs[k], now)
    <3>1. CASE k = n + 1
      <4>1. g[k] = v /\ k - 1 = n /\ g[k - 1] = f[n]
        BY <3>1, <2>4
      <4> QED
        BY <3>1, <4>1, <2>4, Zenon DEF v
    <3>2. CASE k \in 0 .. n
      <4>1. g[k] = f[k] /\ (k # 0 => g[k - 1] = f[k - 1])
        BY <3>2, <2>3
      <4> QED
        BY <3>2, <4>1, <2>2, Zenon
    <3> QED
      BY <3>1, <3>2, <2>5, Zenon
  <2>7. Writes(g, file, bufs, n + 1)
    <3> HIDE DEF g
    <3>1. g = [k \in 0 .. n + 1 |-> g[k]]
      BY Zenon DEF g
    <3> QED
      BY <2>6, <3>1, Zenon DEF Writes
  <2> QED
    BY <2>7
<1> HIDE DEF T
<1>3. Nat \subseteq T
  BY <1>1, <1>2, InductionOnNat
<1> QED
  BY <1>3 DEF T

(* Written gives its last value. *)
LEMMA WrittenIs ==
  ASSUME NEW file, Len(A!Notice \o A!Kept) \in Nat
  PROVE  \E f : Writes(f, file, A!Notice \o A!Kept, Len(A!Notice \o A!Kept)) /\
      A!Written(file) = f[Len(A!Notice \o A!Kept)]
<1> DEFINE g == CHOOSE f : Writes(f, file, A!Notice \o A!Kept, Len(A!Notice \o A!Kept))
<1>1. Writes(g, file, A!Notice \o A!Kept, Len(A!Notice \o A!Kept))
  BY WritesExists, Zenon
<1>2. A!Written(file) = g[Len(A!Notice \o A!Kept)]
  BY Zenon DEF A!Written, Writes
<1> QED
  BY <1>1, <1>2, Zenon

(* The for loop of threadFunc (AsyncLogging.cc:98-102) adds the lines of all *)
(* buffers, in order.                                                        *)
LEMMA WritesAdd ==
  ASSUME NEW bufs \in Seq(Seq(Nat)), NEW file \in FileType, now \in Nat,
         NEW f, Writes(f, file, bufs, Len(bufs))
  PROVE  f[Len(bufs)] \in FileType /\ FileLines(f[Len(bufs)]) = FileLines(file) \o A!Concat(bufs)
<1> DEFINE n == Len(bufs)
           T == {k \in Nat : k <= n => /\ f[k] \in FileType
                                      /\ FileLines(f[k]) = FileLines(file) \o
                                          A!Concat(SubSeq(bufs, 1, k))}
<1>0. n \in Nat /\ SubSeq(bufs, 1, 0) = <<>> /\ SubSeq(bufs, 1, n) = bufs
  OBVIOUS
<1>a. FileLines(file) \in Seq(Nat)
  <2>1. file.disk \in Seq(Nat \X Nat) /\ file.stdio \in Seq(Nat)
    BY DEF FileType
  <2> QED
    BY <2>1, SecondsType, CatIs, Zenon DEF FileLines
<1>1. 0 \in T
  <2>1. 0 \in 0 .. n
    BY <1>0
  <2> HIDE DEF n
  <2>2. f[0] = file
    BY <2>1, Zenon DEF Writes, n
  <2> DEFINE l == FileLines(file)
  <2>3. l \o <<>> = l
    <3> HIDE DEF l
    <3>1. l \in Seq(Nat)
      BY <1>a, Zenon DEF l
    <3> QED
      BY <3>1
  <2>4. A!Concat(SubSeq(bufs, 1, 0)) = <<>>
    BY <1>0, ConcatEmpty, Zenon
  <2>5. FileLines(f[0]) = FileLines(file) \o A!Concat(SubSeq(bufs, 1, 0))
    BY <2>2, <2>3, <2>4, Zenon
  <2> QED
    BY <2>2, <2>5, Zenon
<1>2. ASSUME NEW k \in Nat, k \in T PROVE k + 1 \in T
  <2> SUFFICES ASSUME k + 1 <= n
               PROVE /\ f[k + 1] \in FileType
                     /\ FileLines(f[k + 1]) = FileLines(file) \o A!Concat(SubSeq(bufs, 1, k + 1))
    BY DEF T
  <2>1. k <= n /\ k + 1 \in 0 .. n /\ k + 1 # 0 /\ (k + 1) - 1 = k
    BY <1>0
  <2> DEFINE s == SubSeq(bufs, 1, k)
             b == bufs[k + 1]
  <2>2. s \in Seq(Seq(Nat)) /\ b \in Seq(Nat)
    BY <2>1
  <2>3. SubSeq(bufs, 1, k + 1) = Append(s, b)
    BY <2>1
  <2>4. f[k] \in FileType /\ FileLines(f[k]) = FileLines(file) \o A!Concat(s)
    BY <1>2, <2>1
  <2> HIDE DEF s, b
  <2>5. f[k + 1] = A!AppendUnlocked(f[k], b, now)
    BY <2>1, Zenon DEF Writes, b
  <2>6. f[k + 1] \in FileType /\ FileLines(f[k + 1]) = FileLines(f[k]) \o b
    BY <2>2, <2>4, <2>5, AppendUnlockedAdds, Zenon
  <2>7. A!Concat(Append(s, b)) = A!Concat(s) \o b /\ A!Concat(s) \in Seq(Nat)
    BY <2>2, ConcatAppend, ConcatType, Zenon
  <2> DEFINE l == FileLines(file)
             r == A!Concat(s)
  <2>8. (l \o r) \o b = l \o (r \o b)
    <3> HIDE DEF l, r
    <3>1. l \in Seq(Nat) /\ r \in Seq(Nat)
      BY <1>a, <2>7, Zenon DEF l, r
    <3> QED
      <4>1. Associate(l, r, b)
        BY <3>1, <2>2, CatAssociates, Zenon
      <4> QED
        BY <4>1, Zenon DEF Associate
  <2> QED
    BY <2>3, <2>4, <2>6, <2>7, <2>8, Zenon
<1>3. n <= n
  BY <1>0
<1> HIDE DEF T
<1>4. Nat \subseteq T
  BY <1>1, <1>2, InductionOnNat
<1> QED
  BY <1>0, <1>3, <1>4, Zenon DEF T

(* The lines of a sequence, and that they are in order *)
Numbers(s) == {s[k] : k \in {i \in DOMAIN s : s[i] # 0}}

(* The numbers are in order. *)
Rising(s) == \A i, j \in DOMAIN s : i < j /\ s[i] # 0 /\ s[j] # 0 => s[i] < s[j]

(* One set of numbers comes before another. *)
Before(S, T) == \A x \in S, y \in T : x < y

(* What it is to be among them. *)
LEMMA NumbersIs ==
  ASSUME NEW s, NEW x
  PROVE  x \in Numbers(s) <=> \E k \in DOMAIN s : s[k] = x /\ x # 0
BY Zenon DEF Numbers

(* The elements of a concatenation. *)
LEMMA CatAt ==
  ASSUME NEW a \in Seq(Nat), NEW b \in Seq(Nat)
  PROVE  /\ \A i \in DOMAIN a : i \in DOMAIN (a \o b) /\ (a \o b)[i] = a[i]
         /\ \A i \in DOMAIN b : Len(a) + i \in DOMAIN (a \o b) /\ (a \o b)[Len(a) + i] = b[i]
         /\ \A i \in DOMAIN (a \o b) :
              \/ i \in DOMAIN a /\ (a \o b)[i] = a[i]
              \/ \E k \in DOMAIN b : i = Len(a) + k /\ (a \o b)[i] = b[k]
<1>1. \A i \in DOMAIN a : i \in DOMAIN (a \o b) /\ (a \o b)[i] = a[i]
  OBVIOUS
<1>2. \A i \in DOMAIN b : Len(a) + i \in DOMAIN (a \o b) /\ (a \o b)[Len(a) + i] = b[i]
  OBVIOUS
<1>3. ASSUME NEW i \in DOMAIN (a \o b)
      PROVE  \/ i \in DOMAIN a /\ (a \o b)[i] = a[i]
             \/ \E k \in DOMAIN b : i = Len(a) + k /\ (a \o b)[i] = b[k]
  <2>1. CASE i <= Len(a)
    BY <2>1
  <2>2. CASE i > Len(a)
    <3>1. i - Len(a) \in DOMAIN b /\ i = Len(a) + (i - Len(a)) /\ (a \o b)[i] = b[i - Len(a)]
      BY <2>2
    <3> QED
      BY <3>1, Zenon
  <2>3. i <= Len(a) \/ i > Len(a)
    OBVIOUS
  <2> QED
    BY <2>1, <2>2, <2>3, Zenon
<1> QED
  BY <1>1, <1>2, <1>3, Zenon

(* The numbers of a concatenation. *)
LEMMA NumbersCat ==
  ASSUME NEW a \in Seq(Nat), NEW b \in Seq(Nat)
  PROVE  Numbers(a \o b) = Numbers(a) \cup Numbers(b)
<1> DEFINE c == a \o b
<1>1. /\ \A i \in DOMAIN a : i \in DOMAIN c /\ c[i] = a[i]
      /\ \A i \in DOMAIN b : Len(a) + i \in DOMAIN c /\ c[Len(a) + i] = b[i]
      /\ \A i \in DOMAIN c :
              \/ i \in DOMAIN a /\ c[i] = a[i]
              \/ \E k \in DOMAIN b : i = Len(a) + k /\ c[i] = b[k]
  BY CatAt, Zenon
<1> HIDE DEF c
<1>2. ASSUME NEW x \in Numbers(c) PROVE x \in Numbers(a) \cup Numbers(b)
  <2>1. PICK k \in DOMAIN c : c[k] = x /\ x # 0
    BY NumbersIs, Zenon
  <2> QED
    BY <1>1, <2>1, NumbersIs, Zenon
<1>3. ASSUME NEW x \in Numbers(a) PROVE x \in Numbers(c)
  <2>1. PICK k \in DOMAIN a : a[k] = x /\ x # 0
    BY NumbersIs, Zenon
  <2> QED
    BY <1>1, <2>1, NumbersIs, Zenon
<1>4. ASSUME NEW x \in Numbers(b) PROVE x \in Numbers(c)
  <2>1. PICK k \in DOMAIN b : b[k] = x /\ x # 0
    BY NumbersIs, Zenon
  <2> QED
    BY <1>1, <2>1, NumbersIs, Zenon
<1>5. Numbers(c) = Numbers(a) \cup Numbers(b)
  BY <1>2, <1>3, <1>4, Zenon
<1> QED
  BY <1>5, Zenon DEF c

(* A concatenation is in order when both parts are and the first comes       *)
(* before the second.                                                        *)
LEMMA RisingCat ==
  ASSUME NEW a \in Seq(Nat), NEW b \in Seq(Nat)
  PROVE  Rising(a \o b) <=> Rising(a) /\ Rising(b) /\ Before(Numbers(a), Numbers(b))
<1> DEFINE c == a \o b
<1>1. /\ \A i \in DOMAIN a : i \in DOMAIN c /\ c[i] = a[i]
      /\ \A i \in DOMAIN b : Len(a) + i \in DOMAIN c /\ c[Len(a) + i] = b[i]
      /\ \A i \in DOMAIN c :
              \/ i \in DOMAIN a /\ c[i] = a[i]
              \/ \E k \in DOMAIN b : i = Len(a) + k /\ c[i] = b[k]
  BY CatAt, Zenon
<1>2. /\ \A i, j \in DOMAIN b : i < j <=> Len(a) + i < Len(a) + j
      /\ \A i \in DOMAIN a, j \in DOMAIN b : i < Len(a) + j /\ ~(Len(a) + j < i)
  OBVIOUS
<1> HIDE DEF c
<1>3. ASSUME Rising(c) PROVE Rising(a) /\ Rising(b) /\ Before(Numbers(a), Numbers(b))
  <2>1. Rising(a)
    BY <1>1, <1>3, Zenon DEF Rising
  <2>2. Rising(b)
    <3> SUFFICES ASSUME NEW i \in DOMAIN b, NEW j \in DOMAIN b, i < j, b[i] # 0, b[j] # 0
        PROVE b[i] < b[j]
      BY Zenon DEF Rising
    <3>1. Len(a) + i < Len(a) + j
      BY <1>2, Zenon
    <3>2. c[Len(a) + i] < c[Len(a) + j]
      BY <1>1, <1>3, <3>1, Zenon DEF Rising
    <3> QED
      BY <1>1, <3>2, Zenon
  <2>3. ASSUME NEW x \in Numbers(a), NEW y \in Numbers(b) PROVE x < y
    <3>1. PICK i \in DOMAIN a : a[i] = x /\ x # 0
      BY NumbersIs, Zenon
    <3>2. PICK j \in DOMAIN b : b[j] = y /\ y # 0
      BY NumbersIs, Zenon
    <3>3. /\ c[i] = x /\ c[Len(a) + j] = y /\ i < Len(a) + j /\ i \in DOMAIN c
          /\ Len(a) + j \in DOMAIN c
      BY <1>1, <1>2, <3>1, <3>2, Zenon
    <3> QED
      BY <1>3, <3>1, <3>2, <3>3, Zenon DEF Rising
  <2> QED
    BY <2>1, <2>2, <2>3, Zenon DEF Before
<1>4. ASSUME Rising(a), Rising(b), Before(Numbers(a), Numbers(b)) PROVE Rising(c)
  <2> SUFFICES ASSUME NEW i \in DOMAIN c, NEW j \in DOMAIN c, i < j, c[i] # 0, c[j] # 0
      PROVE c[i] < c[j]
    BY Zenon DEF Rising
  <2>1. CASE i \in DOMAIN a /\ c[i] = a[i]
    <3>1. CASE j \in DOMAIN a /\ c[j] = a[j]
      BY <1>4, <2>1, <3>1, Zenon DEF Rising
    <3>2. ASSUME NEW k \in DOMAIN b, j = Len(a) + k, c[j] = b[k] PROVE c[i] < c[j]
      <4>1. c[i] \in Numbers(a) /\ c[j] \in Numbers(b)
        BY <2>1, <3>2, NumbersIs, Zenon
      <4> QED
        BY <1>4, <4>1, Zenon DEF Before
    <3> QED
      BY <1>1, <3>1, <3>2, Zenon
  <2>2. ASSUME NEW k \in DOMAIN b, i = Len(a) + k, c[i] = b[k] PROVE c[i] < c[j]
    <3>1. CASE j \in DOMAIN a /\ c[j] = a[j]
      <4>1. Len(a) + k < j
        BY <2>2, Zenon
      <4> QED
        BY <1>2, <3>1, <4>1, Zenon
    <3>2. ASSUME NEW m \in DOMAIN b, j = Len(a) + m, c[j] = b[m] PROVE c[i] < c[j]
      <4>1. Len(a) + k < Len(a) + m
        BY <2>2, <3>2, Zenon
      <4>2. k < m
        BY <1>2, <4>1, Zenon
      <4> QED
        BY <1>4, <2>2, <3>2, <4>2, Zenon DEF Rising
    <3> QED
      BY <1>1, <3>1, <3>2, Zenon
  <2> QED
    BY <1>1, <2>1, <2>2, Zenon
<1> QED
  BY <1>3, <1>4, Zenon DEF c

(* The elements of a sequence of lines without notices. *)
Entries(s) == {s[k] : k \in DOMAIN s}

(* They are its numbers. *)
LEMMA NumbersOfPos ==
  ASSUME NEW s \in Seq(Pos)
  PROVE  Numbers(s) = Entries(s)
<1>1. \A i \in DOMAIN s : s[i] # 0
  BY DEF Pos
<1> QED
  BY <1>1, Zenon DEF Numbers, Entries

(* The lines 1 to n are there in order, each once, but for those of D. *)
Ordered(s, n, D) == Rising(s) /\ Numbers(s) = (1 .. n) \ D

(* A line that is appended comes last. *)
LEMMA LineAdded ==
  ASSUME NEW s \in Seq(Nat), NEW n \in Nat, NEW D \in SUBSET (1 .. n), Ordered(s, n, D)
  PROVE  Ordered(Append(s, n + 1), n + 1, D) /\ D \in SUBSET (1 .. n + 1)
<1> DEFINE t == <<n + 1>>
<1>1. t \in Seq(Nat) /\ DOMAIN t = {1} /\ t[1] = n + 1 /\ n + 1 # 0
  OBVIOUS
<1>a. \A i, j \in {1} : ~(i < j)
  OBVIOUS
<1> HIDE DEF t
<1>2. Numbers(t) = {n + 1}
  BY <1>1 DEF Numbers
<1>3. Rising(t)
  BY <1>1, <1>a, Zenon DEF Rising
<1>4. Before(Numbers(s), Numbers(t))
  <2> SUFFICES ASSUME NEW x \in Numbers(s) PROVE x < n + 1
    BY <1>2, Zenon DEF Before
  <2>1. x \in 1 .. n
    BY Zenon DEF Ordered
  <2> QED
    BY <2>1
<1>5. Rising(s \o t) /\ Numbers(s \o t) = ((1 .. n) \ D) \cup {n + 1}
  BY <1>1, <1>2, <1>3, <1>4, RisingCat, NumbersCat, Zenon DEF Ordered
<1>6. ((1 .. n) \ D) \cup {n + 1} = (1 .. n + 1) \ D
  OBVIOUS
<1>7. D \in SUBSET (1 .. n + 1)
  OBVIOUS
<1>8. Append(s, n + 1) = s \o t
  BY DEF t
<1> QED
  BY <1>5, <1>6, <1>7, <1>8, Zenon DEF Ordered

(* When the lines e are dropped from the middle and a notice is put before   *)
(* those that are kept, the others stay in order.                            *)
LEMMA BufferDropped ==
  ASSUME NEW f \in Seq(Nat), NEW k \in Seq(Nat), NEW e \in Seq(Pos), NEW r \in Seq(Nat),
         NEW n \in Nat, NEW D \in SUBSET (1 .. n), Ordered(f \o (k \o (e \o r)), n, D)
  PROVE  /\ Ordered(f \o (<<0>> \o (k \o r)), n, D \cup Entries(e))
         /\ D \cup Entries(e) \in SUBSET (1 .. n)
<1> DEFINE z == <<0>>
<1>1. z \in Seq(Nat) /\ DOMAIN z = {1} /\ z[1] = 0 /\ e \in Seq(Nat)
  BY DEF Pos
<1>a. \A i, j \in {1} : ~(i < j)
  OBVIOUS
<1> HIDE DEF z
<1>2. Numbers(z) = {} /\ Rising(z)
  BY <1>1, <1>a, Zenon DEF Numbers, Rising
<1>3. /\ e \o r \in Seq(Nat) /\ k \o r \in Seq(Nat) /\ k \o (e \o r) \in Seq(Nat)
      /\ z \o (k \o r) \in Seq(Nat)
  BY <1>1, CatIs, Zenon
<1>4. /\ Rising(f) /\ Rising(k) /\ Rising(e) /\ Rising(r)
      /\ Before(Numbers(f), Numbers(k \o (e \o r)))
      /\ Before(Numbers(k), Numbers(e \o r))
      /\ Before(Numbers(e), Numbers(r))
  BY <1>1, <1>3, RisingCat, Zenon DEF Ordered
<1>5. /\ Numbers(e \o r) = Numbers(e) \cup Numbers(r)
      /\ Numbers(k \o r) = Numbers(k) \cup Numbers(r)
      /\ Numbers(k \o (e \o r)) = Numbers(k) \cup (Numbers(e) \cup Numbers(r))
      /\ Numbers(z \o (k \o r)) = Numbers(k) \cup Numbers(r)
      /\ Numbers(f \o (k \o (e \o r))) =
          Numbers(f) \cup (Numbers(k) \cup (Numbers(e) \cup Numbers(r)))
      /\ Numbers(f \o (z \o (k \o r))) = Numbers(f) \cup (Numbers(k) \cup Numbers(r))
  <2> DEFINE er == e \o r
             kr == k \o r
             ker == k \o er
             zkr == z \o kr
  <2>0. er \in Seq(Nat) /\ kr \in Seq(Nat) /\ ker \in Seq(Nat) /\ zkr \in Seq(Nat)
    BY <1>3, Zenon
  <2>1. Numbers(er) = Numbers(e) \cup Numbers(r) /\ Numbers(kr) = Numbers(k) \cup Numbers(r)
    BY <1>1, NumbersCat, Zenon
  <2> HIDE DEF er, kr
  <2>2. Numbers(ker) = Numbers(k) \cup Numbers(er)
    BY <2>0, NumbersCat, Zenon
  <2>5. Numbers(zkr) = Numbers(z) \cup Numbers(kr)
    BY <1>1, <2>0, NumbersCat, Zenon
  <2>3. Numbers(zkr) = Numbers(kr)
    BY <1>2, <2>5, Zenon
  <2> HIDE DEF ker, zkr
  <2>4. /\ Numbers(f \o ker) = Numbers(f) \cup Numbers(ker)
        /\ Numbers(f \o zkr) = Numbers(f) \cup Numbers(zkr)
    BY <2>0, NumbersCat, Zenon
  <2> QED
    BY <2>1, <2>2, <2>3, <2>4, Zenon DEF er, kr, ker, zkr
<1>6. /\ Before(Numbers(k), Numbers(r)) /\ Before(Numbers(z), Numbers(k \o r))
      /\ Before(Numbers(f), Numbers(z \o (k \o r)))
  BY <1>2, <1>4, <1>5, Zenon DEF Before
<1>7. Rising(f \o (z \o (k \o r)))
  BY <1>1, <1>2, <1>3, <1>4, <1>6, RisingCat, Zenon
<1>8. Numbers(e) = Entries(e)
  BY NumbersOfPos, Zenon
<1>9. Numbers(f) \cup (Numbers(k) \cup (Numbers(e) \cup Numbers(r))) = (1 .. n) \ D
  BY <1>5, Zenon DEF Ordered
<1>b. \A x \in 1 .. n : ~(x < x)
  OBVIOUS
<1>10. ASSUME NEW x \in Numbers(e)
    PROVE x \notin Numbers(f) /\ x \notin Numbers(k) /\ x \notin Numbers(r)
  <2>1. x \in 1 .. n
    BY <1>9, Zenon
  <2>2. ~(x < x)
    BY <1>b, <2>1, Zenon
  <2> QED
    BY <2>2, <1>4, <1>5, Zenon DEF Before
<1>11. Numbers(f) \cup (Numbers(k) \cup Numbers(r)) = (1 .. n) \ (D \cup Numbers(e))
  BY <1>9, <1>10, Zenon
<1>12. D \cup Numbers(e) \in SUBSET (1 .. n)
  BY <1>9, Zenon
<1> QED
  BY <1>5, <1>7, <1>8, <1>11, <1>12, Zenon DEF Ordered, z

-----------------------------------------------------------------------------
(* The types of the variables. *)
AsyncTypes ==
  /\ lines \in Nat /\ now \in Nat
  /\ currentBuffer_ \in Seq(Pos)
  /\ buffers_ \in Seq(Seq(Pos)) /\ buffersToWrite \in Seq(Seq(Pos))
  /\ output \in FileType
  /\ dropped \in SUBSET (1 .. lines)

(* The logging thread has its two spare buffers except while it writes, and  *)
(* then it has taken enough buffers to refill them: nextBuffer_ is only      *)
(* missing when buffers_ has a full one.                                     *)
BufferPlaces ==
  /\ thread # "write" => newBuffer1 = <<>> /\ newBuffer2 = <<>> /\ buffersToWrite = <<>>
  /\ thread = "write" =>
       /\ Len(buffersToWrite) >= 1
       /\ newBuffer2 \in {NULL, <<>>}
       /\ newBuffer2 = NULL => Len(buffersToWrite) >= 2
  /\ nextBuffer_ \in {NULL, <<>>}
  /\ nextBuffer_ = NULL => buffers_ # <<>>

(* The lines on their way: of the file f, of the buffers t that are written, *)
(* of the full buffers b and of the current one c.                           *)
Joined(f, t, b, c) == f \o ((t \o b) \o c)

(* All the lines that were appended, in the order of their way to the file. *)
Whole == Joined(FileLines(output), A!Concat(buffersToWrite), A!Concat(buffers_), currentBuffer_)

(* The inductive invariant of AsyncLogging. *)
AsyncInv == AsyncTypes /\ BufferPlaces /\ A!BuffersComeBack /\ Ordered(Whole, lines, dropped)

(* It says that the lines are in order. *)
LEMMA InOrderIs == Ordered(Whole, lines, dropped) => A!LinesInOrder
<1> DEFINE all == A!OnFile \o A!Held
<1>1. Whole = all
  BY Zenon DEF Whole, Joined, A!OnFile, A!Held, FileLines, Seconds
<1> HIDE DEF all
<1>2. Ordered(all, lines, dropped) =>
        LET numbered == {k \in DOMAIN all : all[k] # 0}
        IN  /\ {all[k] : k \in numbered} = (1 .. lines) \ dropped
            /\ \A i, j \in numbered : i < j => all[i] < all[j]
  BY Zenon DEF Ordered, Rising, Numbers
<1> QED
  BY <1>1, <1>2, Zenon DEF A!LinesInOrder, all

(* The lines of a LogFile are a sequence. *)
LEMMA FileLinesType ==
  ASSUME NEW f \in FileType
  PROVE  FileLines(f) \in Seq(Nat)
<1>1. f.disk \in Seq(Nat \X Nat) /\ f.stdio \in Seq(Nat)
  BY DEF FileType
<1> QED
  BY <1>1, SecondsType, CatIs, Zenon DEF FileLines

(* The lines of buffers are lines of a file. *)
LEMMA PosSeqs ==
  /\ \A s \in Seq(Pos) : s \in Seq(Nat)
  /\ \A s \in Seq(Seq(Pos)) : s \in Seq(Seq(Nat)) /\ A!Concat(s) \in Seq(Nat) /\
      A!Concat(s) \in Seq(Pos)
<1>1. ASSUME NEW s \in Seq(Pos) PROVE s \in Seq(Nat)
  BY DEF Pos
<1>2. ASSUME NEW s \in Seq(Seq(Pos)) PROVE s \in Seq(Seq(Nat))
  <2>1. \A k \in 1 .. Len(s) : s[k] \in Seq(Pos)
    OBVIOUS
  <2>2. \A k \in 1 .. Len(s) : s[k] \in Seq(Nat)
    BY <2>1, <1>1, Zenon
  <2> QED
    BY <2>2
<1> QED
  BY <1>1, <1>2, ConcatType, Zenon

(* The invariant holds in the initial states. *)
LEMMA AsyncInit == A!Init => AsyncInv
<1> SUFFICES ASSUME A!Init PROVE AsyncInv
  OBVIOUS
<1> DEFINE blank == [count_ |-> 0, startOfPeriod_ |-> 0, lastRoll_ |-> 0, lastFlush_ |-> 0,
                     name |-> 0, writtenBytes_ |-> 0, stdio |-> <<>>, disk |-> <<>>]
<1>1. blank \in FileType /\ blank.disk = <<>> /\ blank.stdio = <<>>
  BY DEF FileType
<1>2. FileLines(blank) = <<>>
  <2>1. Seconds(<<>>) = <<>>
    BY DEF Seconds
  <2> HIDE DEF blank
  <2>2. FileLines(blank) = <<>> \o <<>>
    BY <1>1, <2>1, Zenon DEF FileLines
  <2> QED
    BY <2>2
<1> HIDE DEF blank
<1>3. output = A!RollFile(blank, 1)
  BY Zenon DEF A!Init, A!NewLogFile, blank
<1>4. output \in FileType /\ FileLines(output) = <<>>
  BY <1>1, <1>2, <1>3, RollKeeps
<1>5. AsyncTypes /\ BufferPlaces /\ A!BuffersComeBack
  BY <1>4, AsyncAssumption DEF A!Init, AsyncTypes, BufferPlaces, A!BuffersComeBack
<1>6. Whole = <<>> \o ((<<>> \o <<>>) \o <<>>)
  BY <1>4, ConcatEmpty, Zenon DEF A!Init, Whole, Joined
<1>7. Whole = <<>>
  BY <1>6
<1>8. Ordered(<<>>, 0, {})
  BY DEF Ordered, Rising, Numbers
<1> QED
  BY <1>5, <1>7, <1>8, Zenon DEF AsyncInv, A!Init

(* The types of the four parts of Joined. *)
LineParts(f, t, b, c) == f \in Seq(Nat) /\ t \in Seq(Nat) /\ b \in Seq(Nat) /\ c \in Seq(Nat)

(* They are joined to a sequence. *)
LEMMA JoinedType ==
  ASSUME NEW f, NEW t, NEW b, NEW c, LineParts(f, t, b, c)
  PROVE  Joined(f, t, b, c) \in Seq(Nat)
BY CatIs, Zenon DEF LineParts, Joined

(* append() of a line to the current buffer. *)
LEMMA AppendToLast ==
  ASSUME NEW f, NEW t, NEW b, NEW c, LineParts(f, t, b, c),
         NEW n \in Nat, NEW D \in SUBSET (1 .. n), Ordered(Joined(f, t, b, c), n, D)
  PROVE  Ordered(Joined(f, t, b, Append(c, n + 1)), n + 1, D)
<1> USE DEF LineParts
<1> DEFINE p == t \o b
           q == p \o c
           x == n + 1
<1>1. p \in Seq(Nat) /\ q \in Seq(Nat) /\ f \o q \in Seq(Nat)
  BY CatIs, Zenon
<1>x. x \in Nat
  OBVIOUS
<1> HIDE DEF p, x
<1>2. p \o Append(c, x) = Append(p \o c, x)
  BY <1>1, <1>x
<1> HIDE DEF q
<1>3. f \o Append(q, x) = Append(f \o q, x)
  BY <1>1, <1>x, SMTT(60)
<1>4. f \o (p \o Append(c, x)) = Append(f \o q, x)
  BY <1>2, <1>3 DEF q
<1>5. Ordered(f \o q, n, D)
  BY Zenon DEF Joined, p, q
<1>6. Ordered(Append(f \o q, x), x, D)
  BY <1>1, <1>5, LineAdded, Zenon DEF x
<1>7. Ordered(f \o (p \o Append(c, x)), x, D)
  BY <1>4, <1>6
<1> QED
  BY <1>7, Zenon DEF p, x, Joined

(* append() of a line to the next buffer, after the current one was pushed. *)
LEMMA AppendToNew ==
  ASSUME NEW f, NEW t, NEW b, NEW c, LineParts(f, t, b, c),
         NEW n \in Nat, NEW D \in SUBSET (1 .. n), Ordered(Joined(f, t, b, c), n, D)
  PROVE  Ordered(Joined(f, t, b \o c, Append(<<>>, n + 1)), n + 1, D)
<1> DEFINE p == (t \o b) \o c
           x == n + 1
<1>0. t \in Seq(Nat) /\ b \in Seq(Nat) /\ c \in Seq(Nat)
  BY Zenon DEF LineParts
<1>1. t \o (b \o c) = p
  <2>1. Associate(t, b, c)
    BY <1>0, CatAssociates, Zenon
  <2> QED
    BY <2>1, Zenon DEF Associate
<1>2. p \in Seq(Nat) /\ f \o p \in Seq(Nat)
  BY <1>0, CatIs, Zenon DEF LineParts
<1>x. x \in Nat
  OBVIOUS
<1> HIDE DEF p, x
<1>3. p \o Append(<<>>, x) = Append(p, x)
  BY <1>2, <1>x
<1>4. f \o Append(p, x) = Append(f \o p, x)
  BY <1>2, <1>x, SMTT(60) DEF LineParts
<1>5. Ordered(f \o p, n, D)
  BY Zenon DEF Joined, p
<1>6. Ordered(Append(f \o p, x), x, D)
  BY <1>2, <1>5, LineAdded, Zenon DEF x
<1>7. Ordered(f \o ((t \o (b \o c)) \o Append(<<>>, x)), x, D)
  BY <1>1, <1>3, <1>4, <1>6, Zenon
<1> QED
  BY <1>7, Zenon DEF x, Joined

(* The parts of Whole have these types. *)
LEMMA Parts ==
  ASSUME AsyncTypes
  PROVE  /\ FileLines(output) \in Seq(Nat)
         /\ A!Concat(buffersToWrite) \in Seq(Nat)
         /\ A!Concat(buffers_) \in Seq(Nat)
         /\ currentBuffer_ \in Seq(Nat)
BY FileLinesType, PosSeqs, Zenon DEF AsyncTypes

(* AsyncLogging::append (AsyncLogging.cc:28-53) keeps the invariant. *)
LEMMA AppendKeeps == AsyncInv /\ A!AppendLine => AsyncInv'
<1> SUFFICES ASSUME AsyncInv, A!AppendLine PROVE AsyncInv'
  OBVIOUS
<1>0. AsyncTypes /\ BufferPlaces /\ A!BuffersComeBack /\ Ordered(Whole, lines, dropped)
  BY Zenon DEF AsyncInv
<1>1. lines \in Nat /\ dropped \in SUBSET (1 .. lines) /\ lines' = lines + 1 /\ dropped' = dropped
  BY <1>0, Zenon DEF A!AppendLine, AsyncTypes
<1>2. output' = output /\ buffersToWrite' = buffersToWrite
  BY Zenon DEF A!AppendLine
<1>3. lines + 1 \in Pos
  BY <1>1 DEF Pos
<1> DEFINE f == FileLines(output)
           t == A!Concat(buffersToWrite)
           b == A!Concat(buffers_)
           c == currentBuffer_
           x == lines + 1
<1>4. /\ f \in Seq(Nat) /\ t \in Seq(Nat) /\ b \in Seq(Nat) /\ c \in Seq(Nat)
      /\ Whole = Joined(f, t, b, c)
  BY <1>0, Parts, Zenon DEF Whole
<1>5. \/ /\ currentBuffer_' = Append(currentBuffer_, x) /\ buffers_' = buffers_
         /\ nextBuffer_' = nextBuffer_
      \/ /\ currentBuffer_' = Append(<<>>, x) /\ buffers_' = Append(buffers_, currentBuffer_)
         /\ nextBuffer_' = NULL
  <2>1. (IF nextBuffer_ = NULL THEN <<>> ELSE nextBuffer_) = <<>>
    BY <1>0, Zenon DEF BufferPlaces
  <2> HIDE DEF x
  <2>2. lines + 1 = x
    BY Zenon DEF x
  <2> QED
    BY <2>1, <2>2, Zenon DEF A!AppendLine
<1>6. currentBuffer_ \in Seq(Pos) /\ buffers_ \in Seq(Seq(Pos))
  BY <1>0, Zenon DEF AsyncTypes
<1> HIDE DEF f, t, b, x
<1>x. x \in Pos /\ x \in Nat
  BY <1>1, <1>3 DEF x, Pos
<1>y. LineParts(f, t, b, c) /\ Ordered(Joined(f, t, b, c), lines, dropped)
  BY <1>0, <1>4, Zenon DEF LineParts
<1>7. /\ currentBuffer_' \in Seq(Pos) /\ buffers_' \in Seq(Seq(Pos))
      /\ nextBuffer_' \in {NULL, <<>>} /\ (nextBuffer_' = NULL => buffers_' # <<>>)
  <2>1. CASE /\ currentBuffer_' = Append(currentBuffer_, x) /\ buffers_' = buffers_
             /\ nextBuffer_' = nextBuffer_
    <3>1. Append(currentBuffer_, x) \in Seq(Pos)
      BY <1>6, <1>x
    <3> QED
      BY <2>1, <3>1, <1>0, <1>6, Zenon DEF BufferPlaces
  <2>2. CASE /\ currentBuffer_' = Append(<<>>, x)
             /\ buffers_' = Append(buffers_, currentBuffer_) /\ nextBuffer_' = NULL
    <3>1. Append(<<>>, x) \in Seq(Pos)
      BY <1>x
    <3>2. /\ Append(buffers_, currentBuffer_) \in Seq(Seq(Pos))
          /\ Append(buffers_, currentBuffer_) # <<>>
      BY <1>6
    <3> QED
      BY <2>2, <3>1, <3>2, Zenon
  <2> QED
    BY <1>5, <2>1, <2>2, Zenon
<1>8. Ordered(Whole', lines + 1, dropped)
  <2>0. Whole' = Joined(f, t, A!Concat(buffers_'), currentBuffer_')
    BY <1>2, Zenon DEF Whole, f, t
  <2>1. CASE /\ currentBuffer_' = Append(currentBuffer_, x) /\ buffers_' = buffers_
             /\ nextBuffer_' = nextBuffer_
    <3>1. Whole' = Joined(f, t, b, Append(c, lines + 1))
      BY <2>0, <2>1, Zenon DEF b, x
    <3>2. Ordered(Joined(f, t, b, Append(c, lines + 1)), lines + 1, dropped)
      BY <1>1, <1>y, AppendToLast, Zenon
    <3> QED
      BY <3>1, <3>2, Zenon
  <2>2. CASE /\ currentBuffer_' = Append(<<>>, x)
             /\ buffers_' = Append(buffers_, currentBuffer_) /\ nextBuffer_' = NULL
    <3>1. A!Concat(Append(buffers_, currentBuffer_)) = b \o c
      BY <1>6, ConcatAppend, Zenon DEF b
    <3>2. Whole' = Joined(f, t, b \o c, Append(<<>>, lines + 1))
      BY <2>0, <2>2, <3>1, Zenon DEF x
    <3>3. Ordered(Joined(f, t, b \o c, Append(<<>>, lines + 1)), lines + 1, dropped)
      BY <1>1, <1>y, AppendToNew, Zenon
    <3> QED
      BY <3>2, <3>3, Zenon
  <2> QED
    BY <1>5, <2>1, <2>2, Zenon
<1>10. dropped \in SUBSET (1 .. lines + 1)
  BY <1>1
<1>11. Ordered(Whole', lines', dropped')
  BY <1>1, <1>8, Zenon
<1>12. AsyncTypes'
  <2>1. lines' \in Nat /\ now' = now
    BY <1>1, <1>x, Zenon DEF x, A!AppendLine
  <2> QED
    BY <1>0, <1>1, <1>2, <1>7, <1>10, <2>1, Zenon DEF AsyncTypes
<1>13. BufferPlaces'
  <2>1. thread' = thread /\ newBuffer1' = newBuffer1 /\ newBuffer2' = newBuffer2
    BY Zenon DEF A!AppendLine
  <2> QED
    BY <1>0, <1>2, <1>7, <2>1, Zenon DEF BufferPlaces
<1>14. A!BuffersComeBack'
  BY <1>0, Zenon DEF A!AppendLine, A!BuffersComeBack
<1> QED
  BY <1>11, <1>12, <1>13, <1>14, Zenon DEF AsyncInv


(* The buffers that threadFunc takes come after nothing that is still to be  *)
(* written.                                                                  *)
LEMMA Swapped ==
  ASSUME NEW f, NEW t, NEW b, NEW c, LineParts(f, t, b, c), t = <<>>
  PROVE  Joined(f, b \o c, <<>>, <<>>) = Joined(f, t, b, c)
<1> USE DEF LineParts
<1>1. b \o c \in Seq(Nat)
  BY CatIs, Zenon
<1>2. <<>> \o b = b
  OBVIOUS
<1> DEFINE p == b \o c
<1>3. (p \o <<>>) \o <<>> = p
  <2> HIDE DEF p
  <2>1. p \in Seq(Nat)
    BY <1>1, Zenon DEF p
  <2> QED
    BY <2>1
<1> QED
  BY <1>2, <1>3, Zenon DEF Joined

(* threadFunc keeps it when it takes the buffers (AsyncLogging.cc:71-84). *)
LEMMA SwapKeeps ==
  ASSUME AsyncInv, thread # "write", A!SwapBuffers
  PROVE  AsyncInv'
<1>0. AsyncTypes /\ BufferPlaces /\ A!BuffersComeBack /\ Ordered(Whole, lines, dropped)
  BY Zenon DEF AsyncInv
<1>1. newBuffer1 = <<>> /\ newBuffer2 = <<>> /\ buffersToWrite = <<>>
  BY <1>0, Zenon DEF BufferPlaces
<1>2. /\ buffersToWrite' = Append(buffers_, currentBuffer_) /\ buffers_' = <<>>
      /\ currentBuffer_' = <<>>
      /\ thread' = "write" /\ output' = output /\ lines' = lines /\ dropped' = dropped
      /\ asyncFailed' = asyncFailed /\ now' = now
  BY <1>1, Zenon DEF A!SwapBuffers
<1>3. currentBuffer_ \in Seq(Pos) /\ buffers_ \in Seq(Seq(Pos))
  BY <1>0, Zenon DEF AsyncTypes
<1>4. /\ Append(buffers_, currentBuffer_) \in Seq(Seq(Pos))
      /\ Len(Append(buffers_, currentBuffer_)) >= 1
      /\ buffers_ # <<>> => Len(Append(buffers_, currentBuffer_)) >= 2
      /\ <<>> \in Seq(Pos) /\ <<>> \in Seq(Seq(Pos))
  BY <1>3
<1>5. AsyncTypes'
  BY <1>0, <1>2, <1>4, Zenon DEF AsyncTypes
<1>6. BufferPlaces'
  <2>1. CASE nextBuffer_ = NULL
    <3>1. nextBuffer_' = <<>> /\ newBuffer2' = NULL /\ buffers_ # <<>>
      BY <2>1, <1>0, <1>1, Zenon DEF A!SwapBuffers, BufferPlaces
    <3>2. NULL # <<>>
      BY AsyncAssumption, Zenon
    <3> QED
      BY <1>2, <1>4, <3>1, <3>2, Zenon DEF BufferPlaces
  <2>2. CASE nextBuffer_ # NULL
    <3>1. nextBuffer_' = <<>> /\ newBuffer2' = <<>>
      BY <2>2, <1>0, <1>1, Zenon DEF A!SwapBuffers, BufferPlaces
    <3>2. NULL # <<>>
      BY AsyncAssumption, Zenon
    <3> QED
      BY <1>2, <1>4, <3>1, <3>2, Zenon DEF BufferPlaces
  <2> QED
    BY <2>1, <2>2, Zenon
<1>7. Whole' = Whole
  <2> DEFINE f == FileLines(output)
             t == A!Concat(buffersToWrite)
             b == A!Concat(buffers_)
             c == currentBuffer_
  <2>1. LineParts(f, t, b, c) /\ t = <<>>
    BY <1>0, <1>1, Parts, ConcatEmpty, Zenon DEF LineParts
  <2>2. A!Concat(Append(buffers_, currentBuffer_)) = b \o c
    BY <1>3, ConcatAppend, Zenon
  <2> HIDE DEF f, t, b
  <2>3. Whole' = Joined(f, b \o c, <<>>, <<>>)
    BY <1>2, <2>2, ConcatEmpty, Zenon DEF Whole, f
  <2>4. Whole = Joined(f, t, b, c)
    BY Zenon DEF Whole, f, t, b
  <2> QED
    BY <2>1, <2>3, <2>4, Swapped, Zenon
<1> QED
  BY <1>0, <1>2, <1>5, <1>6, <1>7, Zenon DEF AsyncInv, A!BuffersComeBack

(* So do the steps that touch no buffer, and the wait that ends. *)
LEMMA OthersKeep == AsyncInv /\ (A!Stop \/ A!Tick \/ A!LoopTop \/ A!TakeBuffers \/ A!WaitEnds) =>
    AsyncInv'
<1> SUFFICES ASSUME AsyncInv, A!Stop \/ A!Tick \/ A!LoopTop \/ A!TakeBuffers \/ A!WaitEnds
    PROVE AsyncInv'
  OBVIOUS
<1>0. AsyncTypes /\ BufferPlaces /\ A!BuffersComeBack /\ Ordered(Whole, lines, dropped)
  BY Zenon DEF AsyncInv
<1>1. CASE A!Stop
  <2>1. /\ AsyncTypes' /\ BufferPlaces' /\ A!BuffersComeBack' /\ Whole' = Whole
        /\ lines' = lines /\ dropped' = dropped
    BY <1>0, <1>1, Zenon DEF AsyncTypes, BufferPlaces, A!BuffersComeBack, Whole, A!Stop
  <2> QED
    BY <1>0, <2>1, Zenon DEF AsyncInv
<1>2. CASE A!Tick
  <2>0. now' \in Nat
    BY <1>0, <1>2 DEF AsyncTypes, A!Tick
  <2>1. /\ AsyncTypes' /\ BufferPlaces' /\ A!BuffersComeBack' /\ Whole' = Whole
        /\ lines' = lines /\ dropped' = dropped
    BY <1>0, <1>2, <2>0, Zenon
       DEF AsyncTypes, BufferPlaces, A!BuffersComeBack, Whole, A!Tick
  <2> QED
    BY <1>0, <2>1, Zenon DEF AsyncInv
<1>3. CASE A!LoopTop
  <2>1. /\ thread # "write" /\ thread' # "write" /\ buffersToWrite' = buffersToWrite
        /\ newBuffer1' = newBuffer1 /\ newBuffer2' = newBuffer2 /\ nextBuffer_' = nextBuffer_
        /\ buffers_' = buffers_ /\ currentBuffer_' = currentBuffer_ /\ lines' = lines
        /\ dropped' = dropped /\ now' = now
    BY <1>3, Zenon DEF A!LoopTop
  <2>2. BufferPlaces'
    BY <1>0, <2>1, Zenon DEF BufferPlaces
  <2>3. A!BuffersComeBack'
    BY <1>0, <1>3, <2>1, Zenon DEF A!LoopTop, BufferPlaces, A!BuffersComeBack
  <2>4. output \in FileType
    BY <1>0, Zenon DEF AsyncTypes
  <2>5. output' = output \/ output' = A!Flush(output)
    BY <1>3, Zenon DEF A!LoopTop
  <2>6. output' \in FileType /\ FileLines(output') = FileLines(output)
    BY <2>4, <2>5, FlushKeeps, Zenon
  <2>7. AsyncTypes' /\ Whole' = Whole
    BY <1>0, <2>1, <2>6, Zenon DEF AsyncTypes, Whole
  <2> QED
    BY <1>0, <2>1, <2>2, <2>3, <2>7, Zenon DEF AsyncInv
<1>4. CASE A!TakeBuffers
  <2>0. thread # "write"
    BY <1>4 DEF A!TakeBuffers
  <2>1. CASE A!SwapBuffers
    BY <2>0, <2>1, SwapKeeps, Zenon
  <2>2. CASE ~A!SwapBuffers
    <3>0. thread' # "write"
      BY <1>4, <2>2 DEF A!TakeBuffers
    <3>1. /\ AsyncTypes' /\ BufferPlaces' /\ A!BuffersComeBack' /\ Whole' = Whole
          /\ lines' = lines /\ dropped' = dropped
      BY <1>0, <1>4, <2>0, <2>2, <3>0, Zenon
         DEF AsyncTypes, BufferPlaces, A!BuffersComeBack,
          Whole, A!TakeBuffers
    <3> QED
      BY <1>0, <3>1, Zenon DEF AsyncInv
  <2> QED
    BY <2>1, <2>2, Zenon
<1>5. CASE A!WaitEnds
  <2>0. thread # "write" /\ A!SwapBuffers
    BY <1>5 DEF A!WaitEnds
  <2> QED
    BY <2>0, SwapKeeps, Zenon
<1> QED
  BY <1>1, <1>2, <1>3, <1>4, <1>5, Zenon


(* What is kept are buffers, and there is one for newBuffer2 when it was     *)
(* given away (AsyncLogging.cc:104-123).                                     *)
LEMMA BuffersReturn ==
  ASSUME AsyncTypes, thread = "write", BufferPlaces
  PROVE  /\ A!Kept \in Seq(Seq(Pos))
         /\ newBuffer2 = NULL => SubSeq(A!Returned, 1, Len(A!Returned) - 1) # <<>>
<1> DEFINE T == buffersToWrite
           m == Len(T)
<1>1. T \in Seq(Seq(Pos)) /\ m \in Nat /\ m >= 1 /\ (newBuffer2 = NULL => m >= 2)
  BY DEF AsyncTypes, BufferPlaces
<1>2. kKeep \in Nat /\ kKeep >= 2 /\ kDropAbove \in Nat /\ kDropAbove >= kKeep
  BY AsyncAssumption, Zenon
<1>3. A!Kept = IF m > kDropAbove THEN SubSeq(T, 1, kKeep) ELSE T
  BY Zenon DEF A!Kept
<1>4. A!Kept \in Seq(Seq(Pos)) /\ (newBuffer2 = NULL => Len(A!Kept) >= 2)
  <2> HIDE DEF T
  <2>1. CASE m > kDropAbove
    <3>1. SubSeq(T, 1, kKeep) \in Seq(Seq(Pos)) /\ Len(SubSeq(T, 1, kKeep)) = kKeep
      BY <1>1, <1>2, <2>1
    <3>2. A!Kept = SubSeq(T, 1, kKeep)
      BY <1>3, <2>1, Zenon
    <3> QED
      BY <3>1, <3>2, <1>2, Zenon
  <2>2. CASE ~(m > kDropAbove)
    <3>1. A!Kept = T
      BY <1>3, <2>2
    <3> QED
      BY <3>1, <1>1, Zenon DEF T
  <2> QED
    BY <2>1, <2>2, Zenon
<1>5. ASSUME newBuffer2 = NULL PROVE SubSeq(A!Returned, 1, Len(A!Returned) - 1) # <<>>
  <2> DEFINE k == A!Kept
             j == IF Len(k) > 2 THEN 2 ELSE Len(k)
             r == SubSeq(k, 1, j)
  <2>1. k \in Seq(Seq(Pos)) /\ Len(k) >= 2
    BY <1>4, <1>5, Zenon
  <2>2. A!Returned = r
    BY Zenon DEF A!Returned
  <2> HIDE DEF k
  <2>0. Len(k) \in Nat
    BY <2>1
  <2>3. j = 2
    <3> DEFINE i == Len(k)
    <3> HIDE DEF i
    <3>1. i \in Nat /\ i >= 2
      BY <2>0, <2>1, Zenon DEF i
    <3>2. (IF i > 2 THEN 2 ELSE i) = 2
      BY <3>1
    <3> QED
      BY <3>2, Zenon DEF i
  <2>4. r \in Seq(Seq(Pos)) /\ Len(r) = 2
    <3>1. SubSeq(k, 1, 2) \in Seq(Seq(Pos)) /\ Len(SubSeq(k, 1, 2)) = 2
      BY <2>1
    <3> HIDE DEF j
    <3> QED
      BY <2>3, <3>1, Zenon
  <2> HIDE DEF r
  <2>5. SubSeq(r, 1, Len(r) - 1) # <<>>
    BY <2>4
  <2> QED
    BY <2>2, <2>5, Zenon
<1> QED
  BY <1>4, <1>5, Zenon

(* What threadFunc writes and flushes is the notice, if any, and the buffers *)
(* that are kept.                                                            *)
LEMMA FileWritten ==
  ASSUME AsyncTypes, A!Kept \in Seq(Seq(Pos))
  PROVE  /\ A!Flush(A!Written(output)) \in FileType
         /\ FileLines(A!Flush(A!Written(output))) = FileLines(output) \o
             A!Concat(A!Notice \o A!Kept)
<1>1. A!Notice \in Seq(Seq(Nat))
  <2>1. <<<<0>>>> \in Seq(Seq(Nat)) /\ <<>> \in Seq(Seq(Nat))
    OBVIOUS
  <2> QED
    BY <2>1, Zenon DEF A!Notice
<1>2. A!Kept \in Seq(Seq(Nat))
  BY PosSeqs, Zenon
<1> DEFINE bufs == A!Notice \o A!Kept
<1>3. bufs \in Seq(Seq(Nat))
  BY <1>1, <1>2, CatIs, Zenon
<1>4. Len(bufs) \in Nat
  <2> HIDE DEF bufs
  <2> QED
    BY <1>3
<1>5. PICK f : Writes(f, output, bufs, Len(bufs)) /\ A!Written(output) = f[Len(bufs)]
  BY <1>4, WrittenIs, Zenon
<1>6. output \in FileType /\ now \in Nat
  BY Zenon DEF AsyncTypes
<1> HIDE DEF bufs
<1>7. f[Len(bufs)] \in FileType /\ FileLines(f[Len(bufs)]) = FileLines(output) \o A!Concat(bufs)
  BY <1>3, <1>5, <1>6, WritesAdd, Zenon
<1>8. /\ A!Written(output) \in FileType
      /\ FileLines(A!Written(output)) = FileLines(output) \o A!Concat(bufs)
  BY <1>5, <1>7, Zenon
<1> QED
  BY <1>8, FlushKeeps, Zenon DEF bufs

(* The buffers that were taken move to the file. *)
LEMMA WrittenInOrder ==
  ASSUME NEW f, NEW t, NEW b, NEW c, LineParts(f, t, b, c), NEW n, NEW D,
      Ordered(Joined(f, t, b, c), n, D)
  PROVE  Ordered(Joined(f \o t, <<>>, b, c), n, D)
<1>1. f \in Seq(Nat) /\ t \in Seq(Nat) /\ b \in Seq(Nat) /\ c \in Seq(Nat)
  BY Zenon DEF LineParts
<1>2. <<>> \o b = b
  BY <1>1
<1>3. (t \o b) \o c = t \o (b \o c)
  <2>1. Associate(t, b, c)
    BY <1>1, CatAssociates, Zenon
  <2> QED
    BY <2>1, Zenon DEF Associate
<1> DEFINE r == b \o c
<1>4. r \in Seq(Nat)
  BY <1>1, CatIs, Zenon
<1> HIDE DEF r
<1>5. f \o (t \o r) = (f \o t) \o r
  <2>1. Associate(f, t, r)
    BY <1>1, <1>4, CatAssociates, Zenon
  <2> QED
    BY <2>1, Zenon DEF Associate
<1>6. Ordered(f \o (t \o r), n, D)
  BY <1>3, Zenon DEF Joined, r
<1>7. Ordered((f \o t) \o r, n, D)
  BY <1>5, <1>6, Zenon
<1> QED
  BY <1>2, <1>7, Zenon DEF Joined, r

(* So do the first of them, when the others are dropped. *)
LEMMA DroppedInOrder ==
  ASSUME NEW f, NEW t, NEW b, NEW c, LineParts(f, t, b, c), NEW k \in Seq(Nat), NEW e \in Seq(Pos),
         t = k \o e, NEW n \in Nat, NEW D \in SUBSET (1 .. n), Ordered(Joined(f, t, b, c), n, D)
  PROVE  /\ Ordered(Joined(f \o (<<0>> \o k), <<>>, b, c), n, D \cup Entries(e))
         /\ D \cup Entries(e) \in SUBSET (1 .. n)
<1>1. f \in Seq(Nat) /\ t \in Seq(Nat) /\ b \in Seq(Nat) /\ c \in Seq(Nat)
  BY Zenon DEF LineParts
<1>e. e \in Seq(Nat)
  BY PosSeqs, Zenon
<1>2. <<>> \o b = b
  BY <1>1
<1>3. (t \o b) \o c = t \o (b \o c)
  <2>1. Associate(t, b, c)
    BY <1>1, CatAssociates, Zenon
  <2> QED
    BY <2>1, Zenon DEF Associate
<1> DEFINE r == b \o c
           z == <<0>>
<1>4. r \in Seq(Nat) /\ z \in Seq(Nat)
  <2>1. z \in Seq(Nat)
    OBVIOUS
  <2> QED
    BY <1>1, <2>1, CatIs, Zenon
<1> HIDE DEF r, z
<1>5. (k \o e) \o r = k \o (e \o r)
  <2>1. Associate(k, e, r)
    BY <1>e, <1>4, CatAssociates, Zenon
  <2> QED
    BY <2>1, Zenon DEF Associate
<1>6. Ordered(f \o (k \o (e \o r)), n, D)
  <2>1. Ordered(f \o ((k \o e) \o r), n, D)
    BY <1>3, Zenon DEF Joined, r
  <2> QED
    BY <2>1, <1>5, Zenon
<1>7. /\ Ordered(f \o (z \o (k \o r)), n, D \cup Entries(e))
      /\ D \cup Entries(e) \in SUBSET (1 .. n)
  BY <1>1, <1>4, <1>6, BufferDropped, Zenon DEF z
<1>8. (z \o k) \o r = z \o (k \o r)
  <2>1. Associate(z, k, r)
    BY <1>4, CatAssociates, Zenon
  <2> QED
    BY <2>1, Zenon DEF Associate
<1> DEFINE y == z \o k
<1>9. y \in Seq(Nat)
  BY <1>4, CatIs, Zenon
<1> HIDE DEF y
<1>10. f \o (y \o r) = (f \o y) \o r
  <2>1. Associate(f, y, r)
    BY <1>1, <1>4, <1>9, CatAssociates, Zenon
  <2> QED
    BY <2>1, Zenon DEF Associate
<1>11. Ordered((f \o y) \o r, n, D \cup Entries(e))
  <2>1. Ordered(f \o (y \o r), n, D \cup Entries(e))
    BY <1>7, <1>8, Zenon DEF y
  <2> QED
    BY <2>1, <1>10, Zenon
<1> QED
  BY <1>2, <1>7, <1>11, Zenon DEF Joined, r, y, z

(* threadFunc keeps the invariant when it writes, drops and refills          *)
(* (AsyncLogging.cc:86-126).                                                 *)
LEMMA WriteKeeps == AsyncInv /\ A!WriteBuffers => AsyncInv'
<1> SUFFICES ASSUME AsyncInv, A!WriteBuffers PROVE AsyncInv'
  OBVIOUS
<1>0. AsyncTypes /\ BufferPlaces /\ A!BuffersComeBack /\ Ordered(Whole, lines, dropped)
  BY Zenon DEF AsyncInv
<1>1. /\ thread = "write" /\ output' = A!Flush(A!Written(output))
      /\ dropped' = dropped \cup A!Erased
      /\ newBuffer1' = <<>> /\ buffersToWrite' = <<>> /\ thread' = "test"
      /\ currentBuffer_' = currentBuffer_ /\ nextBuffer_' = nextBuffer_ /\ buffers_' = buffers_
      /\ lines' = lines /\ now' = now
  BY Zenon DEF A!WriteBuffers, A!Reset
<1>2. /\ A!Kept \in Seq(Seq(Pos))
      /\ (newBuffer2 = NULL => SubSeq(A!Returned, 1, Len(A!Returned) - 1) # <<>>)
  BY <1>0, <1>1, BuffersReturn, Zenon
<1>3. newBuffer2' = <<>> /\ asyncFailed' = asyncFailed
  <2>1. CASE newBuffer2 = NULL
    BY <1>2, <2>1, Zenon DEF A!WriteBuffers, A!Reset
  <2>2. CASE newBuffer2 # NULL
    BY <1>0, <1>1, <2>2, Zenon DEF A!WriteBuffers, BufferPlaces
  <2> QED
    BY <2>1, <2>2, Zenon
<1>4. BufferPlaces' /\ A!BuffersComeBack'
  <2>1. "test" # "write"
    OBVIOUS
  <2> QED
    BY <1>0, <1>1, <1>3, <2>1, Zenon DEF BufferPlaces, A!BuffersComeBack
<1> DEFINE f == FileLines(output)
           t == A!Concat(buffersToWrite)
           b == A!Concat(buffers_)
           c == currentBuffer_
<1>5. LineParts(f, t, b, c) /\ Ordered(Joined(f, t, b, c), lines, dropped)
  BY <1>0, Parts, Zenon DEF LineParts, Whole
<1>6. output' \in FileType /\ FileLines(output') = f \o A!Concat(A!Notice \o A!Kept)
  BY <1>0, <1>1, <1>2, FileWritten, Zenon
<1>7. Whole' = Joined(f \o A!Concat(A!Notice \o A!Kept), <<>>, b, c)
  BY <1>1, <1>6, ConcatEmpty, Zenon DEF Whole
<1>8. buffersToWrite \in Seq(Seq(Pos)) /\ lines \in Nat /\ dropped \in SUBSET (1 .. lines)
  BY <1>0, Zenon DEF AsyncTypes
<1> HIDE DEF f, b
<1>9. Ordered(Whole', lines, dropped \cup A!Erased) /\ dropped \cup A!Erased \in SUBSET (1 .. lines)
  <2>1. CASE ~(Len(buffersToWrite) > kDropAbove)
    <3>1. A!Kept = buffersToWrite /\ A!Notice = <<>> /\ A!Erased = {}
      BY <2>1 DEF A!Kept, A!Notice, A!Erased
    <3>2. <<>> \o buffersToWrite = buffersToWrite
      BY <1>8
    <3>3. A!Concat(A!Notice \o A!Kept) = t /\ dropped \cup A!Erased = dropped
      BY <3>1, <3>2, Zenon
    <3> QED
      BY <1>5, <1>7, <1>8, <3>3, WrittenInOrder, Zenon
  <2>2. CASE Len(buffersToWrite) > kDropAbove
    <3> DEFINE kept == SubSeq(buffersToWrite, 1, kKeep)
               rest == SubSeq(buffersToWrite, kKeep + 1, Len(buffersToWrite))
               k == A!Concat(kept)
               e == A!Concat(rest)
    <3>1. A!Kept = kept /\ A!Notice = <<<<0>>>> /\ A!Erased = Entries(e)
      BY <2>2, Zenon DEF A!Kept, A!Notice, A!Erased, Entries
    <3>2. kKeep \in Nat /\ kKeep < Len(buffersToWrite) /\ Len(buffersToWrite) \in Nat
      BY <2>2, <1>8, AsyncAssumption
    <3>3. kept \in Seq(Seq(Pos)) /\ rest \in Seq(Seq(Pos)) /\ SplitsAt(buffersToWrite, kKeep)
      BY <1>8, <3>2, SeqSplits, Zenon
    <3>4. buffersToWrite = kept \o rest
      BY <3>3, Zenon DEF SplitsAt
    <3> HIDE DEF kept, rest
    <3>5. t = k \o e
      BY <3>3, <3>4, ConcatCat, Zenon
    <3>6. k \in Seq(Nat) /\ e \in Seq(Pos)
      BY <3>3, PosSeqs, Zenon
    <3>7. A!Concat(<<<<0>>>> \o kept) = <<0>> \o k
      <4>1. kept \in Seq(Seq(Nat))
        BY <3>3, PosSeqs, Zenon
      <4>2. /\ <<<<0>>>> \in Seq(Seq(Nat)) /\ <<0>> \in Seq(Nat) /\ <<>> \in Seq(Seq(Nat))
            /\ <<<<0>>>> = Append(<<>>, <<0>>) /\ <<>> \o <<0>> = <<0>>
        OBVIOUS
      <4>3. A!Concat(<<<<0>>>>) = <<>> \o <<0>>
        BY <4>2, ConcatAppend, ConcatEmpty, Zenon
      <4>4. A!Concat(<<<<0>>>> \o kept) = A!Concat(<<<<0>>>>) \o k
        BY <4>1, <4>2, ConcatCat, Zenon
      <4> QED
        BY <4>2, <4>3, <4>4, Zenon
    <3>8. Whole' = Joined(f \o (<<0>> \o k), <<>>, b, c)
      BY <1>7, <3>1, <3>7, Zenon
    <3> HIDE DEF k, e, t
    <3>9. /\ Ordered(Joined(f \o (<<0>> \o k), <<>>, b, c), lines, dropped \cup Entries(e))
          /\ dropped \cup Entries(e) \in SUBSET (1 .. lines)
      BY <1>5, <1>8, <3>5, <3>6, DroppedInOrder, Zenon
    <3> QED
      BY <3>1, <3>8, <3>9, Zenon
  <2> QED
    BY <2>1, <2>2, Zenon
<1>10. AsyncTypes'
  <2>1. <<>> \in Seq(Seq(Pos))
    OBVIOUS
  <2> QED
    BY <1>0, <1>1, <1>6, <1>9, <2>1, Zenon DEF AsyncTypes
<1> QED
  BY <1>1, <1>4, <1>9, <1>10, Zenon DEF AsyncInv

(* Every step keeps the invariant. *)
LEMMA AsyncNext == AsyncInv /\ [A!Next]_A!vars => AsyncInv'
<1>1. ASSUME AsyncInv, UNCHANGED A!vars PROVE AsyncInv'
  BY <1>1, Zenon DEF AsyncInv, AsyncTypes, BufferPlaces, A!BuffersComeBack, Whole, A!vars
<1> QED
  BY <1>1, AppendKeeps, OthersKeep, WriteKeeps, Zenon DEF A!Next, A!ThreadStep

(* For any sizes, numbers of lines and times: each line that append() was    *)
(* given is in the file, on its way to it, or dropped with its whole buffer  *)
(* and announced, each once and in order, and the logging thread has its two *)
(* spare buffers back when it is not writing.                                *)
THEOREM AsyncLines == A!Init /\ [][A!Next]_A!vars => []LinesInOrder
<1>1. AsyncInv => LinesInOrder
  BY InOrderIs, Zenon DEF AsyncInv, LinesInOrder
<1> QED
  BY <1>1, AsyncInit, AsyncNext, PTL

==============================================================================
