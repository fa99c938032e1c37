------------------------------ MODULE EventLoop ------------------------------
(***************************************************************************)
(* EventLoop (net/EventLoop.cc): loop(), quit(), runInLoop, queueInLoop,   *)
(* wakeup/handleRead and doPendingFunctors, called by the loop's own       *)
(* thread and by other threads at the same time.                           *)
(*                                                                         *)
(* A call that other threads can see in the middle is two steps: the push  *)
(* under mutex_ and the write to wakeupFd_ of queueInLoop, the store to    *)
(* quit_ and the write to wakeupFd_ of quit.  The counter of the eventfd   *)
(* is kept as "readable or not": that is all poll() and handleRead see.    *)
(***************************************************************************)
EXTENDS Naturals, Sequences

CONSTANTS
  LoopThread,            \* the thread that created the loop and runs loop()
  Threads,               \* the other threads that hold a pointer to the loop
  Functors,              \* callbacks, each given to the loop at most once
  Channels,              \* the channels of the poller other than wakeupChannel_
  WakeupChannel          \* wakeupChannel_

ASSUME LoopAssumption ==
  /\ LoopThread \notin Threads
  /\ WakeupChannel \notin Channels

VARIABLES
  pc,                       \* where loop() is; see Locations
  quit_,
  looping_,
  callingPendingFunctors_,
  pendingFunctors_,         \* guarded by mutex_
  functors,                 \* the local vector of doPendingFunctors, what is left of it
  wakeupFd_,                \* TRUE when the eventfd is readable
  readyChannels,            \* the other channels whose fd is ready
  activeChannels_,          \* the channels poll() returned, what is left of them
  call,                     \* the second half of quit or queueInLoop a thread owes
  done,                     \* history: functors started by doPendingFunctors, in order
  inline,                   \* history: functors runInLoop called in the loop thread
  early                     \* history: functors the loop thread queued outside loop()

loopVars  == <<pc, looping_, callingPendingFunctors_, functors, activeChannels_>>
queueVars == <<pendingFunctors_, early>>
history   == <<done, inline>>
vars == <<loopVars, queueVars, history, quit_, wakeupFd_, readyChannels, call>>

AllThreads == Threads \cup {LoopThread}

Elements(s) == {s[i] : i \in DOMAIN s}

(***************************************************************************)
(* "outside": before loop() or after it; "while": at while (!quit_);       *)
(* "poll": in poller_->poll(); "events": between two handleEvent calls;    *)
(* "handler": in a channel's callback; "swap": in doPendingFunctors before *)
(* the swap; "functors": between two functors; "functor": in a functor.    *)
(***************************************************************************)
Locations ==
  {"outside", "while", "poll", "events", "handler", "swap", "functors", "functor"}

(* The code of the loop's user runs outside loop(), in handlers and in functors. *)
InUserCode(t) ==
  /\ call[t] = "none"
  /\ t = LoopThread => pc \in {"outside", "handler", "functor"}

NeverGiven(f) ==
  f \notin Elements(pendingFunctors_) \cup Elements(functors)
           \cup Elements(done) \cup inline

Init ==
  /\ pc = "outside"
  /\ quit_ = FALSE
  /\ looping_ = FALSE
  /\ callingPendingFunctors_ = FALSE
  /\ pendingFunctors_ = <<>>
  /\ functors = <<>>
  /\ wakeupFd_ = FALSE
  /\ readyChannels = {}
  /\ activeChannels_ = {}
  /\ call = [t \in AllThreads |-> "none"]
  /\ done = <<>>
  /\ inline = {}
  /\ early = {}

------------------------------------------------------------------------------
(* Calls that any thread makes.                                             *)

(* queueInLoop, the critical section. *)
QueueInLoop(t, f) ==
  /\ InUserCode(t)
  /\ NeverGiven(f)
  /\ pendingFunctors_' = Append(pendingFunctors_, f)
  /\ early' = IF t = LoopThread /\ pc = "outside" THEN early \cup {f} ELSE early
  /\ call' = [call EXCEPT ![t] = "queued"]
  /\ UNCHANGED <<loopVars, history, quit_, wakeupFd_, readyChannels>>

(* Faulty: no wakeup() for a functor queued by a running functor. *)
MustWakeup_NotWhileCalling(t) == t # LoopThread

(* The condition under which queueInLoop calls wakeup(). *)
MustWakeup(t) == t # LoopThread \/ callingPendingFunctors_

(* queueInLoop, after the critical section. *)
QueueInLoopWakeup(t) ==
  /\ call[t] = "queued"
  /\ wakeupFd_' = (wakeupFd_ \/ MustWakeup(t))
  /\ call' = [call EXCEPT ![t] = "none"]
  /\ UNCHANGED <<loopVars, queueVars, history, quit_, readyChannels>>

(* runInLoop in the loop thread calls cb; elsewhere it is queueInLoop. *)
RunInLoop(f) ==
  /\ InUserCode(LoopThread)
  /\ NeverGiven(f)
  /\ inline' = inline \cup {f}
  /\ UNCHANGED <<loopVars, queueVars, quit_, wakeupFd_, readyChannels, call, done>>

(* Faulty: quit() never writes to wakeupFd_. *)
Quit_NoWakeup(t) ==
  /\ InUserCode(t)
  /\ quit_' = TRUE
  /\ UNCHANGED <<loopVars, queueVars, history, wakeupFd_, readyChannels, call>>

Quit(t) ==
  /\ InUserCode(t)
  /\ quit_' = TRUE
  /\ call' = [call EXCEPT ![t] = IF t = LoopThread THEN "none" ELSE "quitting"]
  /\ UNCHANGED <<loopVars, queueVars, history, wakeupFd_, readyChannels>>

QuitWakeup(t) ==
  /\ call[t] = "quitting"
  /\ wakeupFd_' = TRUE
  /\ call' = [call EXCEPT ![t] = "none"]
  /\ UNCHANGED <<loopVars, queueVars, history, quit_, readyChannels>>

------------------------------------------------------------------------------
(* loop(), in the loop thread.                                              *)

StartLoop ==
  /\ pc = "outside"
  /\ call[LoopThread] = "none"
  /\ looping_' = TRUE
  /\ quit_' = FALSE
  /\ pc' = "while"
  /\ UNCHANGED <<queueVars, history, callingPendingFunctors_, functors,
                 activeChannels_, wakeupFd_, readyChannels, call>>

While ==
  /\ pc = "while"
  /\ pc' = IF quit_ THEN "outside" ELSE "poll"
  /\ looping_' = ~quit_
  /\ activeChannels_' = {}
  /\ UNCHANGED <<queueVars, history, callingPendingFunctors_, functors,
                 quit_, wakeupFd_, readyChannels, call>>

ReadyNow ==
  readyChannels \cup (IF wakeupFd_ THEN {WakeupChannel} ELSE {})

(* poll() returns some of the ready channels, at least one. *)
PollReturn ==
  /\ pc = "poll"
  /\ \E S \in (SUBSET ReadyNow) \ {{}} : activeChannels_' = S
  /\ pc' = "events"
  /\ UNCHANGED <<queueVars, history, looping_, callingPendingFunctors_, functors,
                 quit_, wakeupFd_, readyChannels, call>>

(* poll() returns without events: after kPollTimeMs, or interrupted. *)
PollTimeout ==
  /\ pc = "poll"
  /\ pc' = "events"
  /\ UNCHANGED <<queueVars, history, looping_, callingPendingFunctors_, functors,
                 activeChannels_, quit_, wakeupFd_, readyChannels, call>>

(* handleRead: one read of a nonblocking eventfd resets it. *)
HandleWakeup ==
  /\ pc = "events"
  /\ WakeupChannel \in activeChannels_
  /\ activeChannels_' = activeChannels_ \ {WakeupChannel}
  /\ wakeupFd_' = FALSE
  /\ UNCHANGED <<queueVars, history, pc, looping_, callingPendingFunctors_, functors,
                 quit_, readyChannels, call>>

HandleEvent(ch) ==
  /\ pc = "events"
  /\ ch \in activeChannels_
  /\ activeChannels_' = activeChannels_ \ {ch}
  /\ readyChannels' = readyChannels \ {ch}
  /\ pc' = "handler"
  /\ UNCHANGED <<queueVars, history, looping_, callingPendingFunctors_, functors,
                 quit_, wakeupFd_, call>>

(* A callback returns to the loop that called it. *)
ReturnToLoop ==
  /\ pc \in {"handler", "functor"}
  /\ call[LoopThread] = "none"
  /\ pc' = IF pc = "handler" THEN "events" ELSE "functors"
  /\ UNCHANGED <<queueVars, history, looping_, callingPendingFunctors_, functors,
                 activeChannels_, quit_, wakeupFd_, readyChannels, call>>

DoPendingFunctors ==
  /\ pc = "events"
  /\ activeChannels_ = {}
  /\ callingPendingFunctors_' = TRUE
  /\ pc' = "swap"
  /\ UNCHANGED <<queueVars, history, looping_, functors, activeChannels_,
                 quit_, wakeupFd_, readyChannels, call>>

(* Faulty: the pending functors are copied and stay in the queue. *)
SwapPending_Copy ==
  /\ pc = "swap"
  /\ functors' = pendingFunctors_
  /\ pc' = "functors"
  /\ UNCHANGED <<history, queueVars, looping_, callingPendingFunctors_, activeChannels_,
                 quit_, wakeupFd_, readyChannels, call>>

SwapPending ==
  /\ pc = "swap"
  /\ functors' = pendingFunctors_
  /\ pendingFunctors_' = <<>>
  /\ pc' = "functors"
  /\ UNCHANGED <<history, early, looping_, callingPendingFunctors_, activeChannels_,
                 quit_, wakeupFd_, readyChannels, call>>

RunFunctor ==
  /\ pc = "functors"
  /\ functors # <<>>
  /\ done' = Append(done, Head(functors))
  /\ functors' = Tail(functors)
  /\ pc' = "functor"
  /\ UNCHANGED <<queueVars, inline, looping_, callingPendingFunctors_, activeChannels_,
                 quit_, wakeupFd_, readyChannels, call>>

DoneCallingFunctors ==
  /\ pc = "functors"
  /\ functors = <<>>
  /\ callingPendingFunctors_' = FALSE
  /\ pc' = "while"
  /\ UNCHANGED <<queueVars, history, looping_, functors, activeChannels_,
                 quit_, wakeupFd_, readyChannels, call>>

(* A file descriptor becomes ready. *)
FdReady(ch) ==
  /\ readyChannels' = readyChannels \cup {ch}
  /\ UNCHANGED <<loopVars, queueVars, history, quit_, wakeupFd_, call>>

------------------------------------------------------------------------------
CallNext ==
  \/ \E t \in AllThreads :
       \/ \E f \in Functors : QueueInLoop(t, f)
       \/ QueueInLoopWakeup(t)
       \/ Quit(t)
       \/ QuitWakeup(t)
  \/ \E f \in Functors : RunInLoop(f)

(* The steps loop() takes by itself once it was entered; the rest is up to   *)
(* the callers, the kernel or the clock.                                     *)
LoopStep ==
  \/ While
  \/ PollReturn
  \/ HandleWakeup
  \/ \E ch \in Channels : HandleEvent(ch)
  \/ ReturnToLoop
  \/ DoPendingFunctors
  \/ SwapPending
  \/ RunFunctor
  \/ DoneCallingFunctors

Next ==
  \/ CallNext
  \/ LoopStep
  \/ StartLoop
  \/ PollTimeout
  \/ \E ch \in Channels : FdReady(ch)

Spec == Init /\ [][Next]_vars

(* The loop thread and the callers are scheduled; callbacks return; poll()   *)
(* returns when something is ready.  Nothing is assumed about the timeout.   *)
Fairness ==
  /\ WF_vars(LoopStep)
  /\ \A t \in AllThreads : WF_vars(QueueInLoopWakeup(t)) /\ WF_vars(QuitWakeup(t))

FairSpec == Spec /\ Fairness

------------------------------------------------------------------------------
(* Type correctness; looping_ is set exactly while loop() runs, and            *)
(* callingPendingFunctors_ exactly while doPendingFunctors does.               *)
TypeOK ==
  /\ pc \in Locations
  /\ quit_ \in BOOLEAN
  /\ looping_ \in BOOLEAN
  /\ looping_ <=> pc # "outside"
  /\ callingPendingFunctors_ \in BOOLEAN
  /\ callingPendingFunctors_ <=> pc \in {"swap", "functors", "functor"}
  /\ pendingFunctors_ \in Seq(Functors)
  /\ functors \in Seq(Functors)
  /\ wakeupFd_ \in BOOLEAN
  /\ readyChannels \subseteq Channels
  /\ activeChannels_ \subseteq Channels \cup {WakeupChannel}
  /\ call \in [AllThreads -> {"none", "queued", "quitting"}]
  /\ done \in Seq(Functors)
  /\ inline \subseteq Functors
  /\ early \subseteq Functors

(* queueInLoop's condition for wakeup() is enough: loop() is never asleep in   *)
(* poll() on a queued functor unless the eventfd is already readable or the    *)
(* thread that queued it has still to write to it.  The exception is a functor *)
(* the loop thread queues outside loop(), for which queueInLoop does not wake. *)
NoLostWakeup ==
  (pc = "poll" /\ ~(Elements(pendingFunctors_) \subseteq early))
    => wakeupFd_ \/ \E t \in Threads : call[t] = "queued"

(* quit() from another thread is never slept over: in poll() with quit_ set,   *)
(* the eventfd is readable or the caller of quit() has still to write to it.   *)
NoLostQuit ==
  (pc = "poll" /\ quit_) => wakeupFd_ \/ \E t \in Threads : call[t] = "quitting"

Tasks == INSTANCE TaskQueue WITH todo <- functors \o pendingFunctors_

(* The two vectors, the swap under mutex_ and the batch-wise calls implement   *)
(* one FIFO queue: every functor is run at most once and in queueing order.    *)
ImplementsTaskQueue == Tasks!Spec

(* A sleeping loop responds without any help of the poll timeout: a queued     *)
(* functor is run unless loop() returns first, and quit() while loop() runs    *)
(* makes loop() return, whoever calls it.                                      *)
LoopResponds ==
  /\ \A f \in Functors :
       (f \in Elements(pendingFunctors_) \ early)
         ~> (f \in Elements(done) \/ pc = "outside")
  /\ (quit_ /\ looping_) ~> ~looping_

==============================================================================
