------------------------------ MODULE Condition ------------------------------
(***************************************************************************)
(* A condition variable (base/Condition.h) as the set W of the threads     *)
(* that wait on it.  What a thread does under one MutexLockGuard is one    *)
(* step.  wait() ends the step and puts the thread in W; once it is out of *)
(* W the thread has the lock again, and takes the step again from the test *)
(* of the while loop around wait().  A thread may leave W without being    *)
(* notified.                                                               *)
(***************************************************************************)

Wait(W, t) == W \cup {t}

(* The sets that notify() may leave: it wakes one of the waiting threads. *)
Notify(W) == IF W = {} THEN {W} ELSE {W \ {t} : t \in W}

NotifyAll(W) == {}

Spurious(W) == {W \ {t} : t \in W}

==============================================================================
