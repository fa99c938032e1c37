--------------------------- MODULE BaseComponents ----------------------------
(***************************************************************************)
(* The components of muduo/base whose threads wait for each other:         *)
(* BlockingQueue, MutexLock, ThreadPool and AsyncLogging side by side,     *)
(* each with variables of its own, and what is checked and proved of them. *)
(***************************************************************************)
EXTENDS BlockingQueue, Integers

CONSTANTS
  LockThreads, NoThread,                             \* of MutexLock
  Workers, Tasks, NoTask, PoolPrograms,              \* of ThreadPool
  NULL, rollSize_, flushInterval_, checkEveryN_,     \* of AsyncLogging
  kRollPerSeconds_, kLargeBuffer, kDropAbove, kKeep, MaxLines, MaxTime

(* A thread's id is not the value of holder_ when nobody holds the lock. *)
ASSUME MutexAssumption == NoThread \notin LockThreads

(* maxQueueSize_ is a size_t. *)
ASSUME PoolAssumption == \A p \in PoolPrograms : p.maxQueueSize_ \in Nat

(* A file is rolled after a number of seconds and looked at after a number of *)
(* lines.  threadFunc keeps at least the two buffers that it takes back, and  *)
(* no fewer are due when it drops the others.  No buffer is the null pointer. *)
ASSUME AsyncAssumption ==
  /\ kRollPerSeconds_ \in Nat \ {0}
  /\ checkEveryN_ \in Nat
  /\ kKeep \in Nat /\ kKeep >= 2
  /\ kDropAbove \in Nat /\ kDropAbove >= kKeep
  /\ NULL # <<>>

VARIABLES
  owner, holder_, waiters, lockAt,
  pool, poolRunning, poolQueue, poolNotEmpty, poolNotFull, main, workerAt, holds, call,
  poolAccepted, poolStarted,
  currentBuffer_, nextBuffer_, buffers_, newBuffer1, newBuffer2, buffersToWrite, running_, thread,
  cond_, output, lines, dropped, asyncFailed, now

M == INSTANCE MutexLock
       WITH at <- lockAt, Threads <- LockThreads

mutexVars == <<owner, holder_, waiters, lockAt>>

P == INSTANCE ThreadPool
       WITH running_ <- poolRunning, queue_ <- poolQueue, notEmpty_ <- poolNotEmpty,
            notFull_ <- poolNotFull, at <- workerAt,
            accepted <- poolAccepted, started <- poolStarted

threadPoolVars == <<pool, poolRunning, poolQueue, poolNotEmpty, poolNotFull, main, workerAt, holds,
              call, poolAccepted, poolStarted>>

A == INSTANCE AsyncLogging
       WITH failed <- asyncFailed

asyncVars == <<currentBuffer_, nextBuffer_, buffers_, newBuffer1, newBuffer2, buffersToWrite,
               running_, thread, cond_, output, lines, dropped, asyncFailed, now>>

-----------------------------------------------------------------------------
(* MutexLock: assertLocked holds for the thread between lock and unlock.       *)
HolderIsOwner == M!HolderIsOwner

(* ThreadPool: the tasks that run() accepted start, in order and each once,    *)
(* unless stop() is called; stop() returns, and every run() that waits does.   *)
PoolResponds == []P!StartedInOrder /\ P!AcceptedStarts /\ P!StopReturns

(* AsyncLogging: the lines reach the file in order, each once or dropped with  *)
(* its whole buffer, and the logging thread has its two spare buffers back.    *)
LinesInOrder == A!LinesInOrder /\ A!BuffersComeBack

(* AsyncLogging: a line reaches the disk though no buffer fills up, since the  *)
(* wait of threadFunc ends by its timeout, unless it is dropped or stop() is   *)
(* called.                                                                     *)
LineIsFlushed == A!LineIsFlushed

==============================================================================
