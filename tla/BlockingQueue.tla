---------------------------- MODULE BlockingQueue ----------------------------
(***************************************************************************)
(* BoundedBlockingQueue (base/BoundedBlockingQueue.h) and BlockingQueue    *)
(* (base/BlockingQueue.h), which is the same queue without a bound and     *)
(* with drain().  Producers put and consumers take; each call is the steps *)
(* that Condition.tla describes.                                           *)
(***************************************************************************)
EXTENDS Condition, Sequences, Naturals, FiniteSets

CONSTANTS
  Producers, Consumers,  \* the threads
  MaxSize,               \* capacity of the circular buffer
  MaxPuts                \* bound: the items that are put

ASSUME ThreadsAssumption ==
  /\ IsFiniteSet(Producers)
  /\ IsFiniteSet(Consumers)
  /\ Producers \cap Consumers = {}

ASSUME SizeAssumption == MaxSize \in Nat \ {0} /\ MaxPuts \in Nat

VARIABLES
  bounded,               \* BoundedBlockingQueue, not BlockingQueue
  queue_,                \* the items, which are numbered as they are put
  notEmpty_, notFull_,   \* the threads that wait on each condition
  calling,               \* the threads inside put() or take()
  puts                   \* how many items have been put

vars == <<bounded, queue_, notEmpty_, notFull_, calling, puts>>

Init ==
  /\ bounded \in BOOLEAN
  /\ queue_ = <<>>
  /\ notEmpty_ = {}
  /\ notFull_ = {}
  /\ calling = {}
  /\ puts = 0

Full == bounded /\ Len(queue_) >= MaxSize

Call(t) ==
  /\ t \notin calling
  /\ calling' = calling \cup {t}
  /\ UNCHANGED <<bounded, queue_, notEmpty_, notFull_, puts>>

MayPut == puts + Cardinality(Producers \cap calling) < MaxPuts

(* The threads inside a call that are not waiting: each will take the lock.  *)
Awake(threads) == (threads \cap calling) \ (notEmpty_ \cup notFull_)

(* Faulty: put() notifies only when the queue was empty. *)
Put_NotifyWhenEmpty(t) ==
  /\ t \in Awake(Producers)
  /\ \/ /\ Full
        /\ notFull_' = Wait(notFull_, t)
        /\ UNCHANGED <<queue_, notEmpty_, calling, puts>>
     \/ /\ ~Full
        /\ queue_' = Append(queue_, puts + 1)
        /\ puts' = puts + 1
        /\ notEmpty_' \in IF queue_ = <<>> THEN Notify(notEmpty_) ELSE {notEmpty_}
        /\ calling' = calling \ {t}
        /\ UNCHANGED notFull_
  /\ UNCHANGED bounded

Put(t) ==
  /\ t \in Awake(Producers)
  /\ \/ /\ Full
        /\ notFull_' = Wait(notFull_, t)
        /\ UNCHANGED <<queue_, notEmpty_, calling, puts>>
     \/ /\ ~Full
        /\ queue_' = Append(queue_, puts + 1)
        /\ puts' = puts + 1
        /\ notEmpty_' \in Notify(notEmpty_)
        /\ calling' = calling \ {t}
        /\ UNCHANGED notFull_
  /\ UNCHANGED bounded

(* BlockingQueue's take() notifies nobody: its put() never waits. *)
Take(t) ==
  /\ t \in Awake(Consumers)
  /\ \/ /\ queue_ = <<>>
        /\ notEmpty_' = Wait(notEmpty_, t)
        /\ UNCHANGED <<queue_, notFull_, calling>>
     \/ /\ queue_ # <<>>
        /\ queue_' = Tail(queue_)
        /\ notFull_' \in IF bounded THEN Notify(notFull_) ELSE {notFull_}
        /\ calling' = calling \ {t}
        /\ UNCHANGED notEmpty_
  /\ UNCHANGED <<bounded, puts>>

Drain(t) ==
  /\ ~bounded
  /\ t \in Consumers \ calling
  /\ queue_' = <<>>
  /\ UNCHANGED <<bounded, notEmpty_, notFull_, calling, puts>>

WakeSpuriously ==
  \/ /\ notEmpty_' \in Spurious(notEmpty_)
     /\ UNCHANGED <<bounded, queue_, notFull_, calling, puts>>
  \/ /\ notFull_' \in Spurious(notFull_)
     /\ UNCHANGED <<bounded, queue_, notEmpty_, calling, puts>>

Next ==
  \/ \E t \in Producers : (MayPut /\ Call(t)) \/ Put(t)
  \/ \E t \in Consumers : Call(t) \/ Take(t) \/ Drain(t)
  \/ WakeSpuriously

Spec == Init /\ [][Next]_vars

-----------------------------------------------------------------------------
(* While a consumer waits, each item in the queue has a consumer of its own  *)
(* that is on its way to take it; while a producer waits, each free place    *)
(* has a producer on its way to fill it.  So nobody is left waiting for what *)
(* is there, although put() and take() notify one thread only.               *)
NobodyStranded ==
  /\ notEmpty_ # {} => Len(queue_) <= Cardinality(Awake(Consumers))
  /\ notFull_ # {} => Len(queue_) + Cardinality(Awake(Producers)) >= MaxSize

(* The items leave in the order in which they were put, none of them twice   *)
(* and, unless drain() takes them, none left out: take() gets the oldest,    *)
(* and a bounded queue holds at most its capacity (the asserts in put() and  *)
(* take()).                                                                  *)
OldestFirst ==
  /\ \A i \in 1 .. Len(queue_) : queue_[i] = puts - Len(queue_) + i
  /\ bounded => Len(queue_) <= MaxSize

==============================================================================
