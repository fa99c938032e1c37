------------------------------ MODULE MutexLock ------------------------------
(***************************************************************************)
(* MutexLock (base/Mutex.h) under a Condition (base/Condition.h), in the   *)
(* steps that Condition takes as one: the pthread mutex, and holder_,      *)
(* which the code keeps beside it for assertLocked.  UnassignGuard clears  *)
(* holder_ before pthread_cond_wait gives the mutex up, and sets it again  *)
(* after pthread_cond_wait has it back.                                    *)
(***************************************************************************)
EXTENDS Condition

CONSTANTS Threads, NoThread

VARIABLES
  owner,                 \* the thread that has the pthread mutex
  holder_,
  waiters,               \* the threads in pthread_cond_wait, not yet signalled
  at                     \* [Threads -> the place in the code]

vars == <<owner, holder_, waiters, at>>

Init ==
  /\ owner = NoThread
  /\ holder_ = NoThread
  /\ waiters = {}
  /\ at = [t \in Threads |-> "outside"]

Move(t, to) == at' = [at EXCEPT ![t] = to]

AssignHolder(t) == holder_' = t

UnassignHolder == holder_' = NoThread

(* lock(): pthread_mutex_lock, then assignHolder, which no other thread sees *)
(* in between except through holder_, so the two are separate steps.         *)
PthreadLock(t) ==
  /\ at[t] = "outside"
  /\ owner = NoThread
  /\ owner' = t
  /\ Move(t, "locking")
  /\ UNCHANGED <<holder_, waiters>>

LockReturns(t) ==
  /\ at[t] = "locking"
  /\ AssignHolder(t)
  /\ Move(t, "inside")
  /\ UNCHANGED <<owner, waiters>>

Unlock(t) ==
  \/ /\ at[t] = "inside"
     /\ UnassignHolder
     /\ Move(t, "unlocking")
     /\ UNCHANGED <<owner, waiters>>
  \/ /\ at[t] = "unlocking"
     /\ owner' = NoThread
     /\ Move(t, "outside")
     /\ UNCHANGED <<holder_, waiters>>

(* wait(): UnassignGuard, then pthread_cond_wait, which gives the mutex up   *)
(* and joins the waiters in one step.                                        *)
BeginWait(t) ==
  \/ /\ at[t] = "inside"
     /\ UnassignHolder
     /\ Move(t, "unassigned")
     /\ UNCHANGED <<owner, waiters>>
  \/ /\ at[t] = "unassigned"
     /\ owner' = NoThread
     /\ waiters' = Wait(waiters, t)
     /\ Move(t, "waiting")
     /\ UNCHANGED holder_

(* pthread_cond_wait has the mutex back; the guard's destructor is next. *)
PthreadWakes(t) ==
  /\ at[t] = "waiting"
  /\ t \notin waiters
  /\ owner = NoThread
  /\ owner' = t
  /\ Move(t, "woken")
  /\ UNCHANGED <<holder_, waiters>>

(* Faulty: no UnassignGuard, so holder_ is not set again. *)
WaitReturns_NoGuard(t) ==
  /\ at[t] = "woken"
  /\ Move(t, "inside")
  /\ UNCHANGED <<owner, holder_, waiters>>

WaitReturns(t) ==
  /\ at[t] = "woken"
  /\ AssignHolder(t)
  /\ Move(t, "inside")
  /\ UNCHANGED <<owner, waiters>>

NotifyOne(t) ==
  /\ at[t] = "inside"
  /\ waiters' \in Notify(waiters)
  /\ UNCHANGED <<owner, holder_, at>>

NotifyEach(t) ==
  /\ at[t] = "inside"
  /\ waiters' = NotifyAll(waiters)
  /\ UNCHANGED <<owner, holder_, at>>

WakeSpuriously ==
  /\ waiters' \in Spurious(waiters)
  /\ UNCHANGED <<owner, holder_, at>>

Step(t) ==
  \/ PthreadLock(t) \/ LockReturns(t) \/ Unlock(t)
  \/ BeginWait(t) \/ PthreadWakes(t) \/ WaitReturns(t)
  \/ NotifyOne(t) \/ NotifyEach(t)

Next == (\E t \in Threads : Step(t)) \/ WakeSpuriously

Spec == Init /\ [][Next]_vars

-----------------------------------------------------------------------------
(* assertLocked holds for every thread between lock() or wait() and the next *)
(* unlock() or wait(), and for no other thread (Mutex.h:140-149).            *)
HolderIsOwner ==
  \A t \in Threads : holder_ = t <=> at[t] = "inside"

==============================================================================
