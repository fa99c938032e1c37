----------------------------- MODULE ThreadPool ------------------------------
(***************************************************************************)
(* ThreadPool (base/ThreadPool.cc): start() makes the worker threads,      *)
(* run() gives them a task through a queue that may be bounded, stop()     *)
(* joins them.  Every task is given by one call of run(), from a thread of *)
(* its own or from another task, so the task also names the caller.        *)
(***************************************************************************)
EXTENDS Condition, Sequences, Naturals

CONSTANTS
  Workers, Tasks,
  NoTask,                \* the empty Task that take() returns after stop()
  PoolPrograms           \* [workers, maxQueueSize_, nestedIn : a task's parent]

VARIABLES
  pool,                  \* the program's member of PoolPrograms
  running_, queue_,
  notEmpty_,             \* workers that wait in take()
  notFull_,              \* tasks whose run() waits
  main,                  \* the thread that calls start() and stop()
  at,                    \* [Workers -> place in runInThread]
  holds,                 \* [Workers -> the task it has taken]
  call,                  \* [Tasks -> "none", "inside" or "returned"]
  accepted, started      \* tasks queued and tasks begun, oldest first

vars == <<pool, running_, queue_, notEmpty_, notFull_, main, at, holds, call,
          accepted, started>>

Init ==
  /\ pool \in PoolPrograms
  /\ running_ = FALSE
  /\ queue_ = <<>>
  /\ notEmpty_ = {}
  /\ notFull_ = {}
  /\ main = "new"
  /\ at = [w \in Workers |-> "none"]
  /\ holds = [w \in Workers |-> NoTask]
  /\ call = [t \in Tasks |-> "none"]
  /\ accepted = <<>>
  /\ started = <<>>

(* start(): running_ is set before the first thread exists. *)
StartPool ==
  /\ main = "new"
  /\ running_' = TRUE
  /\ main' = IF pool.workers = {} THEN "started" ELSE "starting"
  /\ UNCHANGED <<pool, queue_, notEmpty_, notFull_, at, holds, call, accepted, started>>

StartThread(w) ==
  /\ main = "starting"
  /\ w \in pool.workers
  /\ at[w] = "none"
  /\ at' = [at EXCEPT ![w] = "init"]
  /\ main' = IF \A v \in pool.workers \ {w} : at[v] # "none" THEN "started" ELSE main
  /\ UNCHANGED <<pool, running_, queue_, notEmpty_, notFull_, holds, call, accepted, started>>

(* stop(), and ~ThreadPool of a pool that runs: the part under the lock. *)
StopPool_NotifyOne ==
  /\ main = "started"
  /\ running_' = FALSE
  /\ notEmpty_' \in Notify(notEmpty_)
  /\ notFull_' \in Notify(notFull_)
  /\ main' = "joining"
  /\ UNCHANGED <<pool, queue_, at, holds, call, accepted, started>>

StopPool ==
  /\ main = "started"
  /\ running_' = FALSE
  /\ notEmpty_' = NotifyAll(notEmpty_)
  /\ notFull_' = NotifyAll(notFull_)
  /\ main' = "joining"
  /\ UNCHANGED <<pool, queue_, at, holds, call, accepted, started>>

Joined ==
  /\ main = "joining"
  /\ \A w \in pool.workers : at[w] = "exited"
  /\ main' = "stopped"
  /\ UNCHANGED <<pool, running_, queue_, notEmpty_, notFull_, at, holds, call, accepted, started>>

-----------------------------------------------------------------------------
Nested(t) == t \in DOMAIN pool.nestedIn

CallRun(t) ==
  /\ call[t] = "none"
  /\ IF Nested(t) THEN \E w \in Workers : holds[w] = pool.nestedIn[t]
                  ELSE main \notin {"new", "starting"}
  /\ call' = [call EXCEPT ![t] = "inside"]
  /\ UNCHANGED <<pool, running_, queue_, notEmpty_, notFull_, main, at, holds, accepted, started>>

IsFull == pool.maxQueueSize_ > 0 /\ Len(queue_) >= pool.maxQueueSize_

Return(t) == call' = [call EXCEPT ![t] = "returned"]

Run(t) ==
  /\ call[t] = "inside"
  /\ t \notin notFull_
  /\ \/ /\ pool.workers = {}
        /\ started' = Append(started, t)
        /\ accepted' = Append(accepted, t)
        /\ Return(t)
        /\ UNCHANGED <<queue_, notEmpty_, notFull_>>
     \/ /\ pool.workers # {} /\ IsFull /\ running_
        /\ notFull_' = Wait(notFull_, t)
        /\ UNCHANGED <<queue_, notEmpty_, call, accepted, started>>
     \/ /\ pool.workers # {} /\ ~running_
        /\ Return(t)
        /\ UNCHANGED <<queue_, notEmpty_, notFull_, accepted, started>>
     \/ /\ pool.workers # {} /\ ~IsFull /\ running_
        /\ queue_' = Append(queue_, t)
        /\ accepted' = Append(accepted, t)
        /\ notEmpty_' \in Notify(notEmpty_)
        /\ Return(t)
        /\ UNCHANGED <<notFull_, started>>
  /\ UNCHANGED <<pool, running_, main, at, holds>>

-----------------------------------------------------------------------------
(* runInThread: threadInitCallback_, then the test of running_, which is     *)
(* read without the lock.                                                    *)
TestRunning(w) ==
  /\ at[w] \in {"init", "test"}
  /\ at' = [at EXCEPT ![w] = IF running_ THEN "take" ELSE "exited"]
  /\ UNCHANGED <<pool, running_, queue_, notEmpty_, notFull_, main, holds, call, accepted, started>>

Take(w) ==
  /\ at[w] = "take"
  /\ w \notin notEmpty_
  /\ \/ /\ queue_ = <<>> /\ running_
        /\ notEmpty_' = Wait(notEmpty_, w)
        /\ UNCHANGED <<queue_, notFull_, at, holds, started>>
     \/ /\ queue_ = <<>> /\ ~running_
        /\ at' = [at EXCEPT ![w] = "test"]
        /\ UNCHANGED <<queue_, notEmpty_, notFull_, holds, started>>
     \/ /\ queue_ # <<>>
        /\ queue_' = Tail(queue_)
        /\ notFull_' \in IF pool.maxQueueSize_ > 0 THEN Notify(notFull_) ELSE {notFull_}
        /\ at' = [at EXCEPT ![w] = "execute"]
        /\ holds' = [holds EXCEPT ![w] = Head(queue_)]
        /\ started' = Append(started, Head(queue_))
        /\ UNCHANGED notEmpty_
  /\ UNCHANGED <<pool, running_, main, call, accepted>>

(* The task returns once the calls of run() that it makes have returned. *)
TaskReturns(w) ==
  /\ at[w] = "execute"
  /\ \A t \in Tasks : Nested(t) /\ pool.nestedIn[t] = holds[w] => call[t] = "returned"
  /\ at' = [at EXCEPT ![w] = "test"]
  /\ holds' = [holds EXCEPT ![w] = NoTask]
  /\ UNCHANGED <<pool, running_, queue_, notEmpty_, notFull_, main, call, accepted, started>>

WakeSpuriously ==
  \/ /\ notEmpty_' \in Spurious(notEmpty_)
     /\ UNCHANGED <<pool, running_, queue_, notFull_, main, at, holds, call, accepted, started>>
  \/ /\ notFull_' \in Spurious(notFull_)
     /\ UNCHANGED <<pool, running_, queue_, notEmpty_, main, at, holds, call, accepted, started>>

WorkerStep(w) == TestRunning(w) \/ Take(w) \/ TaskReturns(w)

CallerStep(t) == (Nested(t) /\ CallRun(t)) \/ Run(t)

MainStep == StartPool \/ (\E w \in Workers : StartThread(w)) \/ Joined

Next ==
  \/ MainStep \/ StopPool
  \/ \E w \in Workers : WorkerStep(w)
  \/ \E t \in Tasks : CallRun(t) \/ Run(t)
  \/ WakeSpuriously

-----------------------------------------------------------------------------
(* The tasks start in the order in which run() accepted them, each of them   *)
(* once, and the queue never holds more than maxQueueSize_ (the assert in    *)
(* run()).                                                                   *)
StartedInOrder ==
  /\ accepted = started \o queue_
  /\ pool.maxQueueSize_ > 0 => Len(queue_) <= pool.maxQueueSize_

(* A task that run() accepted is started, unless the pool is stopped first.  *)
AcceptedStarts ==
  \A t \in Tasks :
    (\E i \in DOMAIN accepted : accepted[i] = t)
      ~> ((\E i \in DOMAIN started : started[i] = t) \/ ~running_)

(* stop() returns, and so does each run() that was waiting for room.         *)
StopReturns ==
  main = "joining" ~> (main = "stopped" /\ \A t \in Tasks : call[t] # "inside")

==============================================================================
