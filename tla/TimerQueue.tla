----------------------------- MODULE TimerQueue ------------------------------
(***************************************************************************)
(* TimerQueue (net/TimerQueue.cc, Timer.h, Timer.cc): timers added and     *)
(* cancelled by the loop thread and by other threads, the timerfd that     *)
(* wakes the loop, and handleRead, whose callbacks add and cancel timers   *)
(* themselves.                                                             *)
(*                                                                         *)
(* A Timer* is an address that the allocator reuses once the Timer was     *)
(* deleted.  The loop's functor queue is a FIFO whose elements run outside *)
(* handleRead: the abstract TaskQueue, which EventLoop implements.         *)
(***************************************************************************)
EXTENDS Integers, Sequences

CONSTANTS
  Threads,               \* the threads other than the loop thread
  Addrs,                 \* addresses of Timers, a set of naturals: std::set orders by them
  MaxSequence,           \* bound: Timers created
  MaxNow,                \* bound: last value of the wall clock
  Whens,                 \* expiration times given to addTimer; 0 is an invalid Timestamp
  Intervals,             \* intervals given to addTimer; 0 is a one-shot timer
  MinDelay,              \* the 100 microseconds of howMuchTimeFromNow, in ticks
  ClockSteps,            \* times the wall clock may be set to
  Handover               \* whether the loop thread may get a TimerId of another
                         \* thread before the loop has run its addTimerInLoop

ASSUME TimerAssumption ==
  /\ Addrs \subseteq Nat
  /\ MaxSequence \in Nat
  /\ MaxNow \in Nat \ {0}
  /\ Whens \subseteq Nat
  /\ Intervals \subseteq Nat
  /\ MinDelay \in Nat \ {0}
  /\ ClockSteps \subseteq 1 .. MaxNow
  /\ Handover \in BOOLEAN

VARIABLES
  heap,                  \* the live Timers, by address
  numCreated,            \* s_numCreated_
  timers_,               \* set of <<expiration, address>>
  activeTimers_,         \* set of <<address, sequence>>
  cancelingTimers_,
  callingExpiredTimers_,
  expired,               \* the local vector of handleRead
  toRun,                 \* the entries of it that were not run yet
  handleNow,             \* the local "now" of handleRead
  pc,                    \* "idle", "handleRead" or in a timer's "callback"
  armed,                 \* ticks until the timerfd expires, 0 when disarmed
  readable,              \* the timerfd has expired and was not read
  polled,                \* poll() returned the timerfd, handleRead has to run
  functors,              \* addTimerInLoop and cancelInLoop calls queued by other threads
  call,                  \* per thread: the Timer whose sequence addTimer has still to read
  ids,                   \* the TimerIds that addTimer returned
  now,                   \* the wall clock
  clockSet,              \* the wall clock was set
  cancelled              \* history: the TimerIds cancelInLoop was called with

clockVars == <<armed, readable>>
setVars   == <<timers_, activeTimers_, cancelingTimers_>>
readVars  == <<callingExpiredTimers_, expired, toRun, handleNow, pc, polled>>
userVars  == <<call, ids>>
vars == <<heap, numCreated, setVars, readVars, clockVars, functors, userVars, now, clockSet, cancelled>>

NoTimer == [sequence |-> 0, expiration |-> 0, interval |-> 0]

AddrOf(entry) == entry[2]
ActiveTimer(entry) == <<AddrOf(entry), heap[AddrOf(entry)].sequence>>

MaxOf(m, n) == IF m >= n THEN m ELSE n

Earliest(entries) == CHOOSE w \in {e[1] : e \in entries} : \A e \in entries : w <= e[1]

Init ==
  /\ heap = [a \in Addrs |-> NoTimer]
  /\ numCreated = 0
  /\ timers_ = {} /\ activeTimers_ = {} /\ cancelingTimers_ = {}
  /\ callingExpiredTimers_ = FALSE
  /\ expired = {} /\ toRun = {} /\ handleNow = 0
  /\ pc = "idle"
  /\ armed = 0 /\ readable = FALSE /\ polled = FALSE
  /\ functors = <<>>
  /\ call = [t \in Threads |-> <<>>]
  /\ ids = {}
  /\ now = 1 /\ clockSet = FALSE
  /\ cancelled = {}

------------------------------------------------------------------------------
(* The timerfd.                                                             *)

(* Faulty: no minimum delay, and a timer that is already due disarms the timerfd. *)
HowMuchTimeFromNow_NoMinimum(when) == MaxOf(when - now, 0)

HowMuchTimeFromNow(when) == MaxOf(when - now, MinDelay)

(* timerfd_settime: a positive value arms the timer and forgets an expiration *)
(* that was not read; zero disarms it.                                        *)
ResetTimerfd(expiration) ==
  /\ armed' = HowMuchTimeFromNow(expiration)
  /\ readable' = FALSE

(* Faulty: the timerfd is only set for the first timer. *)
EarliestChanged_OnlyFirst(when) == timers_ = {}

(* insert() and the return value it gives to addTimerInLoop. *)
EarliestChanged(when) == timers_ = {} \/ when < Earliest(timers_)

AddTimerInLoop(a, timer) ==
  /\ timers_' = timers_ \cup {<<timer.expiration, a>>}
  /\ activeTimers_' = activeTimers_ \cup {<<a, timer.sequence>>}
  /\ IF EarliestChanged(timer.expiration) THEN ResetTimerfd(timer.expiration)
                                          ELSE UNCHANGED clockVars
  /\ UNCHANGED cancelingTimers_

(* Faulty: the entry is looked up by address only. *)
Found_ByAddress(id) == \E x \in activeTimers_ : x[1] = id[1]

(* The entry of activeTimers_ that cancelInLoop finds. *)
Found(id) == id \in activeTimers_

CancelInLoop(id) ==
  /\ \/ /\ Found(id)
        /\ timers_' = timers_ \ {<<heap[id[1]].expiration, id[1]>>}
        /\ heap' = [heap EXCEPT ![id[1]] = NoTimer]
        /\ activeTimers_' = activeTimers_ \ {<<id[1], heap[id[1]].sequence>>}
        /\ UNCHANGED cancelingTimers_
     \/ /\ ~Found(id)
        /\ cancelingTimers_' = IF callingExpiredTimers_ THEN cancelingTimers_ \cup {id}
                                                        ELSE cancelingTimers_
        /\ UNCHANGED <<timers_, activeTimers_, heap>>
  /\ cancelled' = cancelled \cup {id}

------------------------------------------------------------------------------
(* Calls in the loop thread: from a timer callback, another channel's        *)
(* handler or a functor.  runInLoop calls addTimerInLoop and cancelInLoop.   *)

InUserCode == pc \in {"idle", "callback"}

NewTimer(a, when, interval) ==
  /\ heap[a] = NoTimer
  /\ numCreated < MaxSequence
  /\ numCreated' = numCreated + 1
  /\ heap' = [heap EXCEPT ![a] = [sequence |-> numCreated + 1,
                                  expiration |-> when, interval |-> interval]]

AddTimer(a, when, interval) ==
  /\ InUserCode
  /\ NewTimer(a, when, interval)
  /\ AddTimerInLoop(a, heap'[a])
  /\ ids' = ids \cup {<<a, heap'[a].sequence>>}
  /\ UNCHANGED <<readVars, functors, call, now, clockSet, cancelled>>

AddQueued(a) == \E i \in DOMAIN functors : functors[i].op = "add" /\ functors[i].id[1] = a

Cancel(id) ==
  /\ InUserCode
  /\ Handover \/ ~AddQueued(id[1])
  /\ CancelInLoop(id)
  /\ UNCHANGED <<numCreated, readVars, clockVars, functors, userVars, now, clockSet>>

------------------------------------------------------------------------------
(* Calls in another thread: runInLoop queues; addTimer then reads            *)
(* timer->sequence() for the TimerId it returns.                             *)

AddTimerFrom(t, a, when, interval) ==
  /\ call[t] = <<>>
  /\ NewTimer(a, when, interval)
  /\ functors' = Append(functors, [op |-> "add", id |-> <<a, numCreated + 1>>])
  /\ call' = [call EXCEPT ![t] = <<a, numCreated + 1>>]
  /\ UNCHANGED <<setVars, readVars, clockVars, ids, now, clockSet, cancelled>>

(* A deleted Timer still holds its old sequence, or what the allocator left   *)
(* there; at a reused address there is the sequence of another Timer.         *)
SequenceRead(timer) ==
  IF heap[timer[1]] = NoTimer THEN {timer[2], 0} ELSE {heap[timer[1]].sequence}

AddTimerReturns(t) ==
  /\ call[t] # <<>>
  /\ \E s \in SequenceRead(call[t]) : ids' = ids \cup {<<call[t][1], s>>}
  /\ call' = [call EXCEPT ![t] = <<>>]
  /\ UNCHANGED <<heap, numCreated, setVars, readVars, clockVars, functors, now, clockSet, cancelled>>

(* Bound: a TimerId is cancelled from other threads only once. *)
CancelFrom(t, id) ==
  /\ call[t] = <<>>
  /\ id \notin cancelled
  /\ \A i \in DOMAIN functors : functors[i] # [op |-> "cancel", id |-> id]
  /\ functors' = Append(functors, [op |-> "cancel", id |-> id])
  /\ UNCHANGED <<heap, numCreated, setVars, readVars, clockVars, userVars, now, clockSet, cancelled>>

------------------------------------------------------------------------------
(* The loop.                                                                *)

RunFunctor ==
  /\ pc = "idle" /\ ~polled
  /\ functors # <<>>
  /\ functors' = Tail(functors)
  /\ LET f == Head(functors)
     IN  \/ /\ f.op = "add"
            /\ AddTimerInLoop(f.id[1], heap[f.id[1]])
            /\ UNCHANGED <<heap, cancelled>>
         \/ /\ f.op = "cancel"
            /\ CancelInLoop(f.id)
            /\ UNCHANGED clockVars
  /\ UNCHANGED <<numCreated, readVars, userVars, now, clockSet>>

Poll ==
  /\ pc = "idle" /\ ~polled
  /\ readable
  /\ polled' = TRUE
  /\ UNCHANGED <<heap, numCreated, setVars, callingExpiredTimers_, expired, toRun, handleNow,
                 pc, clockVars, functors, userVars, now, clockSet, cancelled>>

(* getExpired: the entries up to lower_bound of (now, the largest address). *)
GetExpired == {e \in timers_ : e[1] <= now}

HandleRead ==
  /\ pc = "idle" /\ polled
  /\ polled' = FALSE
  /\ readable' = FALSE
  /\ handleNow' = now
  /\ expired' = GetExpired
  /\ toRun' = GetExpired
  /\ timers_' = timers_ \ GetExpired
  /\ activeTimers_' = activeTimers_ \ {ActiveTimer(e) : e \in GetExpired}
  /\ callingExpiredTimers_' = TRUE
  /\ cancelingTimers_' = {}
  /\ pc' = "handleRead"
  /\ UNCHANGED <<heap, numCreated, armed, functors, userVars, now, clockSet, cancelled>>

(* The order of std::set<Entry>. *)
Before(e, f) == e[1] < f[1] \/ (e[1] = f[1] /\ e[2] < f[2])

RunTimer ==
  /\ pc = "handleRead"
  /\ \E e \in toRun :
       /\ \A f \in toRun \ {e} : Before(e, f)
       /\ toRun' = toRun \ {e}
  /\ pc' = "callback"
  /\ UNCHANGED <<heap, numCreated, setVars, callingExpiredTimers_, expired, handleNow, polled,
                 clockVars, functors, userVars, now, clockSet, cancelled>>

CallbackReturns ==
  /\ pc = "callback"
  /\ pc' = "handleRead"
  /\ UNCHANGED <<heap, numCreated, setVars, callingExpiredTimers_, expired, toRun, handleNow,
                 polled, clockVars, functors, userVars, now, clockSet, cancelled>>

(* Faulty: cancelingTimers_ is not consulted. *)
Restarted_EvenCancelled(e) == heap[AddrOf(e)].interval > 0

(* The condition of reset() for restart() and insert(). *)
Restarted(e) ==
  heap[AddrOf(e)].interval > 0 /\ ActiveTimer(e) \notin cancelingTimers_

(* Faulty: a timer that is not restarted is not deleted. *)
AfterReset_Leak(a) ==
  IF \E e \in expired : AddrOf(e) = a /\ Restarted(e)
  THEN [heap[a] EXCEPT !.expiration = handleNow + heap[a].interval]
  ELSE heap[a]

(* The Timer after reset(): restarted, deleted, or not concerned. *)
AfterReset(a) ==
  IF \E e \in expired : AddrOf(e) = a /\ Restarted(e)
  THEN [heap[a] EXCEPT !.expiration = handleNow + heap[a].interval]
  ELSE IF \E e \in expired : AddrOf(e) = a THEN NoTimer ELSE heap[a]

(* The end of handleRead, with all of reset(). *)
Reset ==
  /\ pc = "handleRead" /\ toRun = {}
  /\ callingExpiredTimers_' = FALSE
  /\ heap' = [a \in Addrs |-> AfterReset(a)]
  /\ LET restarted == {AddrOf(e) : e \in {x \in expired : Restarted(x)}}
     IN  /\ timers_' = timers_ \cup {<<AfterReset(a).expiration, a>> : a \in restarted}
         /\ activeTimers_' = activeTimers_ \cup {<<a, heap[a].sequence>> : a \in restarted}
  /\ IF timers_' # {} /\ Earliest(timers_') > 0 THEN ResetTimerfd(Earliest(timers_'))
                                                ELSE UNCHANGED clockVars
  /\ expired' = {} /\ handleNow' = 0
  /\ pc' = "idle"
  /\ UNCHANGED <<numCreated, cancelingTimers_, toRun, polled, functors, userVars, now, clockSet, cancelled>>

------------------------------------------------------------------------------
(* Time.  The timerfd counts down on the monotonic clock; the wall clock      *)
(* stops at its bound, and the timerfd does not.                              *)

Tick ==
  /\ now < MaxNow \/ armed > 0
  /\ now' = IF now < MaxNow THEN now + 1 ELSE now
  /\ armed' = IF armed > 0 THEN armed - 1 ELSE 0
  /\ readable' = (readable \/ armed = 1)
  /\ UNCHANGED <<heap, numCreated, setVars, readVars, functors, userVars, clockSet, cancelled>>

(* Bound: the wall clock is set once. *)
SetClock(time) ==
  /\ ~clockSet
  /\ clockSet' = TRUE
  /\ now' = time
  /\ UNCHANGED <<heap, numCreated, setVars, readVars, clockVars, functors, userVars, cancelled>>

LoopStep == RunFunctor \/ Poll \/ HandleRead \/ RunTimer \/ CallbackReturns \/ Reset

Next ==
  \/ \E a \in Addrs, w \in Whens, i \in Intervals :
       \/ AddTimer(a, w, i)
       \/ \E t \in Threads : AddTimerFrom(t, a, w, i)
  \/ \E id \in ids :
       \/ Cancel(id)
       \/ \E t \in Threads : CancelFrom(t, id)
  \/ \E t \in Threads : AddTimerReturns(t)
  \/ LoopStep
  \/ Tick
  \/ \E time \in ClockSteps : SetClock(time)

Spec == Init /\ [][Next]_vars

(* The loop thread is scheduled, callbacks return, and time passes. *)
FairSpec == Spec /\ WF_vars(LoopStep) /\ WF_vars(Tick)

------------------------------------------------------------------------------
AddrsOf(entries) == {AddrOf(e) : e \in entries}
QueuedAdds == {functors[i].id[1] : i \in {j \in DOMAIN functors : functors[j].op = "add"}}

(* Every live Timer is owned exactly once, by timers_, by the vector of        *)
(* handleRead or by a queued addTimerInLoop: none leaks, and none that one of  *)
(* them will use was deleted.  timers_ and activeTimers_ hold the same Timers, *)
(* each under its current expiration and its sequence, as the size assertions  *)
(* of insert, cancelInLoop and getExpired and the n == 1 assertions say.       *)
OwnedOnce ==
  /\ activeTimers_ = {ActiveTimer(e) : e \in timers_}
  /\ \A e \in timers_ : heap[AddrOf(e)].expiration = e[1]
  /\ {a \in Addrs : heap[a] # NoTimer}
       = AddrsOf(timers_) \cup AddrsOf(expired) \cup QueuedAdds
  /\ AddrsOf(timers_) \cap AddrsOf(expired) = {}
  /\ QueuedAdds \cap (AddrsOf(timers_) \cup AddrsOf(expired)) = {}

(* The timerfd is armed, or has expired and will be read, whenever timers_     *)
(* holds a timer outside handleRead: no timer is forgotten, whatever is done   *)
(* to the wall clock.  As long as the clock was not set, the timerfd never     *)
(* expires later than the earliest timer, the minimum delay of                 *)
(* howMuchTimeFromNow aside.                                                   *)
TimerfdArmed ==
  (timers_ # {} /\ pc = "idle" /\ ~readable) =>
    /\ armed > 0
    /\ ~clockSet => armed <= MaxOf(Earliest(timers_) - now, MinDelay)

(* A cancelled timer is never scheduled again, also when it is cancelled by a  *)
(* callback of the same handleRead or when its address was used again.         *)
CancelIsFinal == cancelled \cap activeTimers_ = {}

(* A timer leaves activeTimers_ only because it expired or because cancel was  *)
(* called with its own TimerId: a stale TimerId of a Timer that used to live   *)
(* at the same address does nothing.                                           *)
OnlyOwnCancel ==
  [][\A id \in activeTimers_ \ activeTimers_' :
       id \in cancelled' \/ heap[id[1]].expiration <= now]_vars

(* Every timer due by the end of the clock expires or is cancelled.            *)
TimersExpire ==
  \A a \in Addrs, s \in 1 .. MaxSequence :
    (<<a, s>> \in activeTimers_ /\ heap[a].expiration <= MaxNow)
      ~> (<<a, s>> \notin activeTimers_)

(* "Must be thread safe": addTimer in another thread reads the sequence of the *)
(* Timer it created while that Timer still exists.                             *)
SequenceReadIsSafe ==
  \A t \in Threads : call[t] # <<>> => heap[call[t][1]].sequence = call[t][2]

==============================================================================
