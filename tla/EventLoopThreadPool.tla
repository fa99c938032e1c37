------------------------ MODULE EventLoopThreadPool --------------------------
(***************************************************************************)
(* EventLoopThreadPool and EventLoopThread (net/), with the Thread that    *)
(* each runs on and its CountDownLatch (base/): how the base thread starts *)
(* the I/O threads one after another, hands their loops out, and destroys  *)
(* them.  The base thread waits on one condition at a time, so asleep says *)
(* whether it waits.                                                       *)
(***************************************************************************)
EXTENDS Integers, Sequences

CONSTANTS
  PoolThreads,           \* the I/O threads, 1 .. the largest pool
  Hashes,                \* arguments of getLoopForHash
  ServerPrograms               \* [numThreads_, quitters, patient, anyFirst]

(* The I/O threads are numbered from 1, and the pool of a program is among   *)
(* them; a hash is a size_t.                                                 *)
ASSUME ServerAssumption ==
  /\ PoolThreads \subseteq Nat \ {0}
  /\ Hashes \subseteq Nat
  /\ \A p \in ServerPrograms : p.numThreads_ \in Nat /\ 1 .. p.numThreads_ \subseteq PoolThreads

VARIABLES
  serverProgram,               \* the program, a member of Programs
  started_, loops_, next_,
  base,                  \* place of the base thread in the code
  asleep,                \* the base thread is in Condition::wait
  starting,                     \* the I/O thread that the base thread is at
  at,                    \* [PoolThreads -> place in runInThread and threadFunc]
  count_,                \* [PoolThreads -> count of Thread's latch]
  loop_,                 \* [PoolThreads -> EventLoopThread::loop_ # NULL]
  poolQuit_,                 \* [PoolThreads -> EventLoop::quit_]
  serverCalled,                \* I/O threads that have run the ThreadInitCallback
  freed,                 \* I/O threads whose EventLoopThread is destroyed
  given,                 \* [loops -> times getNextLoop returned it]
  failed                 \* what went wrong: failed assertions, uses after free

poolVars == <<serverProgram, started_, loops_, next_, base, asleep, starting, at, count_, loop_,
              poolQuit_, serverCalled, freed, given, failed>>

threadVars == <<at, count_, loop_, poolQuit_, serverCalled>>

BaseLoop == 0            \* the base loop, which has no I/O thread

PoolInit ==
  /\ serverProgram \in ServerPrograms
  /\ started_ = FALSE
  /\ loops_ = <<>>
  /\ next_ = 0
  /\ base = "idle"
  /\ asleep = FALSE
  /\ starting = 0
  /\ at = [t \in PoolThreads |-> "none"]
  /\ count_ = [t \in PoolThreads |-> 1]
  /\ loop_ = [t \in PoolThreads |-> FALSE]
  /\ poolQuit_ = [t \in PoolThreads |-> FALSE]
  /\ serverCalled = {}
  /\ freed = {}
  /\ given = [l \in PoolThreads \cup {BaseLoop} |-> 0]
  /\ failed = {}

(* What fails when the condition of an assertion is false. *)
Unless(holds, name) == IF holds THEN {} ELSE {name}

(* Touching the EventLoopThread of t, its mutex_ included. *)
Touch(t) == Unless(t \notin freed, "EventLoopThread used after it is freed")

-----------------------------------------------------------------------------
(* The base thread: EventLoopThreadPool::start. *)

AfterThread(t) == IF t < serverProgram.numThreads_ THEN "create" ELSE "listen"

(* The callback of a pool without threads runs in the base thread. *)
StartPool(inLoopThread) ==
  /\ failed' = failed \cup Unless(~started_, "start: !started_")
                      \cup Unless(inLoopThread, "start: assertInLoopThread")
  /\ started_' = TRUE
  /\ serverCalled' = IF serverProgram.numThreads_ = 0 THEN serverCalled \cup {BaseLoop}
                                                      ELSE serverCalled
  /\ starting' = 1
  /\ base' = AfterThread(0)

(* Thread::start: pthread_create, and the wait for the latch. *)
CreateThread ==
  /\ base = "create"
  /\ at' = [at EXCEPT ![starting] = "created"]
  /\ base' = "latch"
  /\ UNCHANGED <<serverProgram, started_, loops_, next_, asleep, starting, count_, loop_, poolQuit_,
                 serverCalled, freed, given, failed>>

LatchWait ==
  /\ base = "latch"
  /\ ~asleep
  /\ IF count_[starting] > 0 THEN asleep' = TRUE /\ UNCHANGED base
                      ELSE base' = "startLoop" /\ UNCHANGED asleep
  /\ UNCHANGED <<serverProgram, started_, loops_, next_, starting, freed, given, failed>>
  /\ UNCHANGED threadVars

(* The rest of startLoop, and loops_.push_back. *)
StartLoopWait ==
  /\ base = "startLoop"
  /\ ~asleep
  /\ \/ ~loop_[starting] /\ asleep' = TRUE /\ UNCHANGED <<loops_, starting, base>>
     \/ /\ loop_[starting]
        /\ loops_' = Append(loops_, starting)
        /\ starting' = starting + 1
        /\ base' = AfterThread(starting)
        /\ UNCHANGED asleep
  /\ UNCHANGED <<serverProgram, started_, next_, freed, given, failed>>
  /\ UNCHANGED threadVars

WakeBase ==
  /\ asleep
  /\ asleep' = FALSE
  /\ UNCHANGED <<serverProgram, started_, loops_, next_, base, starting, freed, given, failed>>
  /\ UNCHANGED threadVars

-----------------------------------------------------------------------------
GetNextLoop ==
  IF loops_ = <<>> THEN [loop |-> BaseLoop, next |-> next_]
  ELSE [loop |-> loops_[next_ + 1],
        next |-> IF next_ + 1 >= Len(loops_) THEN 0 ELSE next_ + 1]

GetLoopForHash(hashCode) ==
  IF loops_ = <<>> THEN BaseLoop ELSE loops_[(hashCode % Len(loops_)) + 1]

GetAllLoops == IF loops_ = <<>> THEN <<BaseLoop>> ELSE loops_

UseNextLoop ==
  /\ next_' = GetNextLoop.next
  /\ given' = [given EXCEPT ![GetNextLoop.loop] = @ + 1]

-----------------------------------------------------------------------------
(* The base thread: the EventLoopThreads are destroyed in order. *)

(* A patient program waits before it destroys the pool, as the unit tests    *)
(* do, until the threads that quit by themselves have ended and the others   *)
(* are in loop().                                                            *)
Settled ==
  \A t \in 1 .. Len(loops_) : at[t] = IF t \in serverProgram.quitters THEN "ended" ELSE "looping"

DestroyPool ==
  /\ base = "serving"
  /\ serverProgram.patient => Settled
  /\ starting' = 1
  /\ base' = IF loops_ = <<>> THEN "done" ELSE "destroy"
  /\ UNCHANGED <<serverProgram, started_, loops_, next_, asleep, freed, given, failed>>
  /\ UNCHANGED threadVars

Freed(t) ==
  /\ freed' = freed \cup {t}
  /\ starting' = t + 1
  /\ base' = IF t < Len(loops_) THEN "destroy" ELSE "done"

(* ~EventLoopThread reads loop_ without the lock.  When it is NULL the       *)
(* thread is not joined; ~Thread detaches it.                                *)
TestLoop ==
  /\ base = "destroy"
  /\ IF loop_[starting] THEN base' = "quit" /\ UNCHANGED <<freed, starting>> ELSE Freed(starting)
  /\ UNCHANGED <<serverProgram, started_, loops_, next_, asleep, given, failed>>
  /\ UNCHANGED threadVars

(* Faulty: the thread is joined and not told to quit. *)
QuitLoop_NoQuit ==
  /\ base = "quit"
  /\ base' = "join"
  /\ UNCHANGED <<serverProgram, started_, loops_, next_, asleep, starting, at, count_, loop_, poolQuit_,
                 serverCalled, freed, given, failed>>

QuitLoop ==
  /\ base = "quit"
  /\ failed' = failed \cup Unless(at[starting] # "ended", "quit() of a destroyed EventLoop")
  /\ poolQuit_' = [poolQuit_ EXCEPT ![starting] = TRUE]
  /\ base' = "join"
  /\ UNCHANGED <<serverProgram, started_, loops_, next_, asleep, starting, at, count_, loop_,
                 serverCalled, freed, given>>

JoinThread ==
  /\ base = "join"
  /\ at[starting] = "ended"
  /\ Freed(starting)
  /\ UNCHANGED <<serverProgram, started_, loops_, next_, asleep, given, failed>>
  /\ UNCHANGED threadVars

-----------------------------------------------------------------------------
(* An I/O thread: Thread's runInThread, then EventLoopThread::threadFunc. *)

Go(t, from, to) == at[t] = from /\ at' = [at EXCEPT ![t] = to]

Rest == <<serverProgram, started_, loops_, next_, base, starting, freed, given>>

(* tid_ is set, then countDown wakes the base thread. *)
CountDown(t) ==
  /\ Go(t, "created", "counted")
  /\ count_' = [count_ EXCEPT ![t] = @ - 1]
  /\ asleep' = IF count_'[t] = 0 THEN FALSE ELSE asleep
  /\ UNCHANGED <<loop_, poolQuit_, serverCalled, failed>>
  /\ UNCHANGED Rest

(* The EventLoop is constructed and the callback runs. *)
CallInit(t) ==
  /\ Go(t, "counted", "called")
  /\ serverCalled' = serverCalled \cup {t}
  /\ UNCHANGED <<asleep, count_, loop_, poolQuit_, failed>>
  /\ UNCHANGED Rest

(* Faulty: loop_ is set before the callback has run. *)
Publish_First(t) ==
  /\ at[t] \in {"counted", "called"}
  /\ at' = [at EXCEPT ![t] = "published"]
  /\ failed' = failed \cup Touch(t)
  /\ loop_' = [loop_ EXCEPT ![t] = TRUE]
  /\ asleep' = FALSE
  /\ UNCHANGED <<count_, poolQuit_, serverCalled>>
  /\ UNCHANGED Rest

Publish(t) ==
  /\ Go(t, "called", "published")
  /\ failed' = failed \cup Touch(t)
  /\ loop_' = [loop_ EXCEPT ![t] = TRUE]
  /\ asleep' = FALSE
  /\ UNCHANGED <<count_, poolQuit_, serverCalled>>
  /\ UNCHANGED Rest

(* loop() clears quit_ on entry: a quit() before it is lost. *)
EnterLoop(t) ==
  /\ Go(t, "published", "looping")
  /\ poolQuit_' = [poolQuit_ EXCEPT ![t] = FALSE]
  /\ UNCHANGED <<asleep, count_, loop_, serverCalled, failed>>
  /\ UNCHANGED Rest

(* A functor in the loop, queued after startLoop returned it, calls quit(). *)
QuitSelf(t) ==
  /\ at[t] = "looping"
  /\ t <= Len(loops_)
  /\ t \in serverProgram.quitters
  /\ poolQuit_' = [poolQuit_ EXCEPT ![t] = TRUE]
  /\ UNCHANGED <<at, asleep, count_, loop_, serverCalled, failed>>
  /\ UNCHANGED Rest

LeaveLoop(t) ==
  /\ poolQuit_[t]
  /\ Go(t, "looping", "left")
  /\ UNCHANGED <<asleep, count_, loop_, poolQuit_, serverCalled, failed>>
  /\ UNCHANGED Rest

(* Under mutex_, which the thread still has in the next step. *)
ClearLoop(t) ==
  /\ Go(t, "left", "cleared")
  /\ failed' = failed \cup Touch(t)
  /\ loop_' = [loop_ EXCEPT ![t] = FALSE]
  /\ UNCHANGED <<asleep, count_, poolQuit_, serverCalled>>
  /\ UNCHANGED Rest

(* mutex_ is unlocked, the EventLoop destroyed, and the thread ends. *)
EndThread(t) ==
  /\ Go(t, "cleared", "ended")
  /\ failed' = failed \cup Touch(t)
  /\ UNCHANGED <<asleep, count_, loop_, poolQuit_, serverCalled>>
  /\ UNCHANGED Rest

ThreadStep(t) ==
  \/ CountDown(t) \/ CallInit(t) \/ Publish(t) \/ EnterLoop(t)
  \/ QuitSelf(t) \/ LeaveLoop(t) \/ ClearLoop(t) \/ EndThread(t)

BaseStep ==
  \/ CreateThread \/ LatchWait \/ StartLoopWait
  \/ TestLoop \/ QuitLoop \/ JoinThread

PoolStep == BaseStep \/ WakeBase \/ \E t \in PoolThreads : ThreadStep(t)

-----------------------------------------------------------------------------
(* No thread uses an EventLoopThread after it is destroyed, no quit() is     *)
(* called on an EventLoop that is gone, and the assertions of start() hold.  *)
NothingFails == failed = {}

(* Every loop that getNextLoop, getLoopForHash or getAllLoops can return has *)
(* run the ThreadInitCallback (EventLoopThread.cc:65-69).                    *)
LoopsInitialized ==
  base = "serving" =>
    /\ GetNextLoop.loop \in serverCalled
    /\ \A h \in Hashes : GetLoopForHash(h) \in serverCalled
    /\ \A k \in DOMAIN GetAllLoops : GetAllLoops[k] \in serverCalled

(* New connections are assigned on a round-robin basis (TcpServer.h:62-63):  *)
(* two loops never differ by more than one.                                  *)
RoundRobin ==
  \A k, m \in DOMAIN loops_ : given[loops_[k]] <= given[loops_[m]] + 1

==============================================================================
