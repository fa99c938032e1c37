-------------------------- MODULE TimerQueueProofs ---------------------------
(***************************************************************************)
(* Proofs about TimerQueue, for any threads, addresses, times and          *)
(* intervals: every Timer has one owner, the timerfd is armed for the      *)
(* earliest timer, cancel is final and concerns its own Timer only.        *)
(***************************************************************************)
EXTENDS TimerQueue, WellFoundedInduction, TLAPS

Timer   == [sequence : Nat, expiration : Nat, interval : Nat]
Id      == Addrs \X Nat
Functor == [op : {"add", "cancel"}, id : Id]

TypeOK ==
  /\ heap \in [Addrs -> Timer]
  /\ numCreated \in Nat
  /\ timers_ \subseteq Nat \X Addrs
  /\ expired \subseteq Nat \X Addrs
  /\ activeTimers_ \subseteq Id
  /\ cancelingTimers_ \subseteq Id
  /\ callingExpiredTimers_ \in BOOLEAN
  /\ handleNow \in Nat
  /\ pc \in {"idle", "handleRead", "callback"}
  /\ armed \in Nat /\ readable \in BOOLEAN /\ polled \in BOOLEAN
  /\ functors \in Seq(Functor)
  /\ call \in [Threads -> Id \cup {<<>>}]
  /\ ids \subseteq Id
  /\ now \in Nat \ {0} /\ clockSet \in BOOLEAN
  /\ cancelled \subseteq Id

(* Where handleRead is, and what its local vector and flag then are. *)
ReadOK ==
  /\ callingExpiredTimers_ <=> pc # "idle"
  /\ pc = "idle" => expired = {}
  /\ pc # "idle" => handleNow \in Nat \ {0}

(* The owners of the Timer at a. *)
InTimers(a)  == <<heap[a].expiration, a>> \in timers_
InExpired(a) == <<heap[a].expiration, a>> \in expired
IsQueued(a)  == a \in QueuedAdds

(* The Timer at each address has one owner, or there is none; the sets hold it *)
(* under its expiration and its sequence.                                      *)
HeapOK ==
  /\ \A e \in timers_ \cup expired : heap[e[2]].expiration = e[1]
  /\ \A a \in Addrs :
       /\ heap[a].sequence = 0 => heap[a] = NoTimer
       /\ heap[a].sequence <= numCreated
       /\ heap[a].sequence # 0 <=> (InTimers(a) \/ InExpired(a) \/ IsQueued(a))
       /\ ~(InTimers(a) /\ InExpired(a))
       /\ ~(IsQueued(a) /\ (InTimers(a) \/ InExpired(a)))
  /\ \A a \in Addrs, s \in Nat :
       <<a, s>> \in activeTimers_ <=> (s = heap[a].sequence /\ InTimers(a))

(* The queued functors: a Timer is added once, under its own sequence. *)
QueueOK ==
  /\ \A i \in 1 .. Len(functors) :
       functors[i].op = "add" => functors[i].id[2] = heap[functors[i].id[1]].sequence
  /\ \A i, j \in 1 .. Len(functors) :
       (functors[i].op = "add" /\ functors[j].op = "add" /\ i # j)
         => functors[i].id[1] # functors[j].id[1]

(* Sequences that were handed out are not in the future. *)
SequencesOK ==
  /\ \A id \in ids \cup cancelled : id[2] <= numCreated
  /\ \A i \in 1 .. Len(functors) : functors[i].id[2] <= numCreated
  /\ \A t \in Threads : call[t] # <<>> => call[t][2] <= numCreated

(* A TimerId that was cancelled is never inserted: not by a functor, which     *)
(* was queued before the cancel, nor by reset(), which finds it in             *)
(* cancelingTimers_.                                                           *)
CancelOK ==
  /\ CancelIsFinal
  /\ \A i \in 1 .. Len(functors) :
       functors[i].op = "add" => functors[i].id \notin cancelled
  /\ \A i, j \in 1 .. Len(functors) :
       (functors[i].op = "cancel" /\ functors[j].op = "add" /\ i < j)
         => functors[i].id # functors[j].id
  /\ \A e \in expired : ActiveTimer(e) \in cancelled => ActiveTimer(e) \in cancelingTimers_

(* As TimerfdArmed, also inside handleRead for timers with an invalid time,    *)
(* for which reset() does not set the timerfd.                                 *)
ArmedOK ==
  (timers_ # {} /\ (pc = "idle" \/ Earliest(timers_) = 0) /\ ~readable) =>
    /\ armed > 0
    /\ ~clockSet => armed <= MaxOf(Earliest(timers_) - now, MinDelay)

(* The inductive invariant; CancelOK joins it where Handover is excluded. *)
IInv == TypeOK /\ ReadOK /\ HeapOK /\ QueueOK /\ SequencesOK /\ ArmedOK

-----------------------------------------------------------------------------
(* The earliest of some entries.                                             *)

LEMMA Minimum ==
  ASSUME NEW T, T \subseteq Nat, T # {}
  PROVE  \E x \in T : \A y \in T : x <= y
<1>1. PICK x \in T : \A y \in T : ~(<<y, x>> \in OpToRel(<, Nat))
  BY NatLessThanWellFounded, WFMin, Zenon
<1>2. \A y \in T : ~(y < x)
  BY <1>1, Zenon DEF OpToRel
<1> QED
  BY <1>2

LEMMA EarliestOf ==
  ASSUME NEW S, S \subseteq Nat \X Addrs, S # {}
  PROVE  /\ Earliest(S) \in Nat
         /\ \E e \in S : e[1] = Earliest(S)
         /\ \A e \in S : Earliest(S) <= e[1]
<1> DEFINE T == {e[1] : e \in S}
<1>1. T \subseteq Nat /\ T # {}
  OBVIOUS
<1>2. \E w \in T : \A y \in T : w <= y
  BY <1>1, Minimum, Zenon
<1>3. \E w \in T : \A e \in S : w <= e[1]
  BY <1>2
<1>4. Earliest(S) \in T /\ \A e \in S : Earliest(S) <= e[1]
  BY <1>3 DEF Earliest
<1> QED
  BY <1>1, <1>4

(* Without some entries the earliest one is not earlier. *)
LEMMA EarliestOfFewer ==
  ASSUME NEW S, S \subseteq Nat \X Addrs, NEW T, T \subseteq S, T # {}
  PROVE  Earliest(S) <= Earliest(T)
<1>1. PICK e \in T : e[1] = Earliest(T)
  BY EarliestOf
<1> QED
  BY <1>1, EarliestOf

(* With one more entry it is that one or the one it was. *)
LEMMA EarliestOfMore ==
  ASSUME NEW S, S \subseteq Nat \X Addrs, NEW w \in Nat, NEW a \in Addrs
  PROVE  Earliest(S \cup {<<w, a>>})
           = IF S = {} \/ w < Earliest(S) THEN w ELSE Earliest(S)
<1> DEFINE T == S \cup {<<w, a>>}
<1>0. <<w, a>> \in Nat \X Addrs /\ <<w, a>> \in T
  OBVIOUS
<1>1. T \subseteq Nat \X Addrs /\ T # {}
  BY <1>0
<1>2. /\ Earliest(T) \in Nat
      /\ \E e \in T : e[1] = Earliest(T)
      /\ \A e \in T : Earliest(T) <= e[1]
  BY <1>1, EarliestOf
<1> HIDE DEF Earliest
<1>3. CASE S = {}
  BY <1>2, <1>3
<1>4. CASE S # {}
  <2>1. /\ Earliest(S) \in Nat
        /\ \E e \in S : e[1] = Earliest(S)
        /\ \A e \in S : Earliest(S) <= e[1]
    BY <1>4, EarliestOf
  <2>2. Earliest(T) <= w /\ Earliest(T) <= Earliest(S)
    BY <1>2, <2>1, Zenon
  <2>3. Earliest(T) = w \/ Earliest(T) >= Earliest(S)
    BY <1>2, <2>1
  <2> QED
    BY <1>2, <1>4, <2>1, <2>2, <2>3
<1> QED
  BY <1>3, <1>4

LEMMA Maximum ==
  ASSUME NEW m \in Int, NEW n \in Nat \ {0}
  PROVE  MaxOf(m, n) \in Nat \ {0} /\ MaxOf(m, n) >= m /\ MaxOf(m, n) >= n
  BY DEF MaxOf

(* One tick later. *)
LEMMA MaximumLater ==
  ASSUME NEW m \in Int, NEW n \in Nat \ {0}, NEW x \in Nat, x <= MaxOf(m, n)
  PROVE  x - 1 <= MaxOf(m, n) /\ x - 1 <= MaxOf(m - 1, n)
  BY DEF MaxOf

-----------------------------------------------------------------------------
(* The timerfd.                                                              *)

(* addTimerInLoop keeps the timerfd armed for the earliest timer. *)
LEMMA InsertArms ==
  ASSUME TypeOK, ArmedOK, NEW a \in Addrs, NEW timer \in Timer, AddTimerInLoop(a, timer),
         UNCHANGED <<pc, now, clockSet>>
  PROVE  ArmedOK' /\ armed' \in Nat /\ readable' \in BOOLEAN
<1> DEFINE w == timer.expiration
<1>1. w \in Nat /\ timers_ \subseteq Nat \X Addrs /\ now \in Nat /\ MinDelay \in Nat \ {0}
  BY TimerAssumption DEF TypeOK, Timer
<1>2. timers_' = timers_ \cup {<<w, a>>}
  BY DEF AddTimerInLoop
<1>3. Earliest(timers_') = IF EarliestChanged(w) THEN w ELSE Earliest(timers_)
  BY <1>1, <1>2, EarliestOfMore DEF EarliestChanged
<1>4. CASE EarliestChanged(w)
  <2>1. armed' = MaxOf(w - now, MinDelay) /\ readable' = FALSE
    BY <1>4 DEF AddTimerInLoop, ResetTimerfd, HowMuchTimeFromNow
  <2>2. armed' \in Nat \ {0}
    BY <1>1, <2>1, Maximum
  <2>3. armed' > 0 /\ armed' <= MaxOf(Earliest(timers_') - now', MinDelay)
    BY <1>3, <1>4, <2>1, <2>2
  <2> QED
    BY <2>1, <2>2, <2>3, Zenon DEF ArmedOK
<1>5. CASE ~EarliestChanged(w)
  <2>1. UNCHANGED <<armed, readable>> /\ timers_ # {} /\ Earliest(timers_') = Earliest(timers_)
    BY <1>3, <1>5 DEF AddTimerInLoop, clockVars, EarliestChanged
  <2> QED
    BY <2>1 DEF ArmedOK, TypeOK
<1> QED
  BY <1>4, <1>5

(* Without some timers the timerfd expires early enough all the more. *)
LEMMA RemoveKeepsArmed ==
  ASSUME TypeOK, ArmedOK, timers_' \subseteq timers_, UNCHANGED <<pc, now, clockSet, armed, readable>>
  PROVE  ArmedOK'
<1> SUFFICES ASSUME timers_' # {}, pc = "idle" \/ Earliest(timers_') = 0, ~readable
             PROVE  armed > 0 /\ (~clockSet => armed <= MaxOf(Earliest(timers_') - now, MinDelay))
  BY DEF ArmedOK
<1>1. timers_ \subseteq Nat \X Addrs /\ timers_ # {} /\ timers_' \subseteq Nat \X Addrs
  BY DEF TypeOK
<1>2. Earliest(timers_) <= Earliest(timers_')
  BY <1>1, EarliestOfFewer
<1>3. Earliest(timers_) \in Nat /\ Earliest(timers_') \in Nat
  BY <1>1, EarliestOf
<1>4. armed > 0 /\ (~clockSet => armed <= MaxOf(Earliest(timers_) - now, MinDelay))
  BY <1>1, <1>2, <1>3 DEF ArmedOK
<1>5. MaxOf(Earliest(timers_) - now, MinDelay) <= MaxOf(Earliest(timers_') - now, MinDelay)
  BY <1>2, <1>3, TimerAssumption DEF MaxOf, TypeOK
<1>6. MaxOf(Earliest(timers_) - now, MinDelay) \in Nat /\ MaxOf(Earliest(timers_') - now, MinDelay) \in Nat
  BY <1>3, TimerAssumption DEF MaxOf, TypeOK
<1> QED
  BY <1>4, <1>5, <1>6 DEF TypeOK

-----------------------------------------------------------------------------
(* The queue of functors.                                                    *)

LEMMA AppendFunctor ==
  ASSUME functors \in Seq(Functor), NEW f \in Functor, functors' = Append(functors, f)
  PROVE  /\ functors' \in Seq(Functor)
         /\ Len(functors') = Len(functors) + 1
         /\ \A i \in 1 .. Len(functors) : functors'[i] = functors[i]
         /\ functors'[Len(functors) + 1] = f
         /\ QueuedAdds' = IF f.op = "add" THEN QueuedAdds \cup {f.id[1]} ELSE QueuedAdds
<1>1. /\ functors' \in Seq(Functor)
      /\ Len(functors') = Len(functors) + 1 /\ Len(functors) \in Nat
      /\ \A i \in 1 .. Len(functors) : functors'[i] = functors[i]
      /\ functors'[Len(functors) + 1] = f
  OBVIOUS
<1>2. DOMAIN functors' = 1 .. Len(functors) + 1 /\ DOMAIN functors = 1 .. Len(functors)
  BY <1>1
<1>3. DOMAIN functors' = DOMAIN functors \cup {Len(functors) + 1}
  BY <1>1, <1>2
<1> HIDE DEF Functor
<1> DEFINE n == Len(functors) + 1
<1>4. QueuedAdds' = {functors'[i].id[1] : i \in {j \in DOMAIN functors \cup {n} : functors'[j].op = "add"}}
  BY <1>3 DEF QueuedAdds
<1>5. \A i \in DOMAIN functors : functors'[i] = functors[i]
  BY <1>1, <1>2
<1>6. functors'[n] = f
  BY <1>1
<1> HIDE DEF n
<1>7. QueuedAdds' = IF f.op = "add" THEN QueuedAdds \cup {f.id[1]} ELSE QueuedAdds
  BY <1>4, <1>5, <1>6 DEF QueuedAdds
<1> QED
  BY <1>1, <1>7

LEMMA TailFunctor ==
  ASSUME functors \in Seq(Functor), QueueOK, functors # <<>>, functors' = Tail(functors)
  PROVE  /\ functors' \in Seq(Functor)
         /\ Head(functors) = functors[1] /\ Head(functors) \in Functor
         /\ Len(functors') = Len(functors) - 1 /\ Len(functors) \in Nat \ {0}
         /\ \A i \in 1 .. Len(functors) - 1 :
              i + 1 \in 1 .. Len(functors) /\ functors'[i] = functors[i + 1]
         /\ QueuedAdds' = IF Head(functors).op = "add"
                          THEN QueuedAdds \ {Head(functors).id[1]} ELSE QueuedAdds
<1>1. /\ functors' \in Seq(Functor)
      /\ Head(functors) = functors[1] /\ Head(functors) \in Functor
      /\ Len(functors') = Len(functors) - 1 /\ Len(functors) \in Nat \ {0}
      /\ \A i \in 1 .. Len(functors) - 1 :
           i + 1 \in 1 .. Len(functors) /\ functors'[i] = functors[i + 1]
  OBVIOUS
<1>2. DOMAIN functors' = 1 .. Len(functors) - 1 /\ DOMAIN functors = 1 .. Len(functors)
  BY <1>1
<1> HIDE DEF Functor
<1>3. \A a : a \in QueuedAdds'
               <=> \E i \in 1 .. Len(functors) - 1 : functors'[i].op = "add" /\ a = functors'[i].id[1]
  BY <1>2, Zenon DEF QueuedAdds
<1>4. \A a : a \in QueuedAdds
               <=> \E i \in 1 .. Len(functors) : functors[i].op = "add" /\ a = functors[i].id[1]
  BY <1>2 DEF QueuedAdds
<1>5. \A i \in 1 .. Len(functors) : i # 1 => i - 1 \in 1 .. Len(functors) - 1 /\ functors'[i - 1] = functors[i]
  <2> TAKE i \in 1 .. Len(functors)
  <2> HAVE i # 1
  <2>1. i - 1 \in 1 .. Len(functors) - 1 /\ (i - 1) + 1 = i
    BY <1>1
  <2> QED
    BY <1>1, <2>1
<1>6. \A a : a \in QueuedAdds'
               <=> \E i \in 1 .. Len(functors) : i # 1 /\ functors[i].op = "add" /\ a = functors[i].id[1]
  <2>1. ASSUME NEW a, a \in QueuedAdds'
        PROVE  \E i \in 1 .. Len(functors) : i # 1 /\ functors[i].op = "add" /\ a = functors[i].id[1]
    <3>1. PICK i \in 1 .. Len(functors) - 1 : functors'[i].op = "add" /\ a = functors'[i].id[1]
      BY <1>3, <2>1
    <3>2. i + 1 \in 1 .. Len(functors) /\ i + 1 # 1 /\ functors[i + 1] = functors'[i]
      BY <1>1
    <3> QED
      BY <3>1, <3>2
  <2>2. ASSUME NEW a, NEW i \in 1 .. Len(functors), i # 1, functors[i].op = "add", a = functors[i].id[1]
        PROVE  a \in QueuedAdds'
    <3>1. i - 1 \in 1 .. Len(functors) - 1 /\ functors'[i - 1] = functors[i]
      BY <1>5, <2>2
    <3> QED
      BY <1>3, <2>2, <3>1, Zenon
  <2> QED
    BY <2>1, <2>2
<1>7. 1 \in 1 .. Len(functors)
  BY <1>1
<1>8. CASE functors[1].op = "add"
  <2>1. \A a : a \in QueuedAdds' <=> a \in QueuedAdds /\ a # functors[1].id[1]
    BY <1>4, <1>6, <1>7, <1>8 DEF QueueOK
  <2> QED
    BY <1>1, <1>8, <2>1
<1>9. CASE functors[1].op # "add"
  <2>1. \A a : a \in QueuedAdds' <=> a \in QueuedAdds
    BY <1>4, <1>6, <1>9
  <2> QED
    BY <1>1, <1>9, <2>1, Zenon
<1> QED
  BY <1>8, <1>9

(* Steps that leave some of the state alone. *)
LEMMA HeapFrame ==
  ASSUME HeapOK, QueueOK,
         UNCHANGED <<heap, numCreated, timers_, activeTimers_, expired, functors>>
  PROVE  HeapOK' /\ QueueOK'
  BY DEF HeapOK, QueueOK, InTimers, InExpired, IsQueued, QueuedAdds

LEMMA SequencesFrame ==
  ASSUME SequencesOK, UNCHANGED <<numCreated, ids, cancelled, functors, call>>
  PROVE  SequencesOK'
  BY DEF SequencesOK

LEMMA ArmedFrame ==
  ASSUME ArmedOK, UNCHANGED <<timers_, pc, readable, armed, clockSet, now>>
  PROVE  ArmedOK'
  BY DEF ArmedOK

-----------------------------------------------------------------------------
(* Owners.                                                                   *)

(* Nobody has a Timer at an address where none lives. *)
LEMMA NotOwned ==
  ASSUME TypeOK, HeapOK, NEW a \in Addrs, heap[a].sequence = 0
  PROVE  /\ \A w : <<w, a>> \notin timers_ /\ <<w, a>> \notin expired
         /\ a \notin QueuedAdds
         /\ \A s : <<a, s>> \notin activeTimers_
<1>1. ~InTimers(a) /\ ~InExpired(a) /\ ~IsQueued(a)
  BY DEF HeapOK
<1>2. ASSUME NEW w, <<w, a>> \in timers_ \cup expired PROVE FALSE
  <2>1. heap[a].expiration = w
    BY <1>2 DEF HeapOK
  <2> QED
    BY <1>1, <1>2, <2>1 DEF InTimers, InExpired
<1>3. ASSUME NEW s, <<a, s>> \in activeTimers_ PROVE FALSE
  <2>1. s \in Nat
    BY <1>3 DEF TypeOK, Id
  <2> QED
    BY <1>1, <1>3, <2>1 DEF HeapOK
<1> QED
  BY <1>1, <1>2, <1>3 DEF IsQueued

(* A new Timer that addTimerInLoop inserts at once. *)
LEMMA NewInserted ==
  ASSUME TypeOK, HeapOK, NEW a \in Addrs, NEW w \in Nat, NEW v \in Nat,
         NewTimer(a, w, v), AddTimerInLoop(a, heap'[a]), UNCHANGED <<expired, functors>>
  PROVE  HeapOK'
<1> DEFINE n == numCreated + 1
<1>0. heap \in [Addrs -> Timer] /\ numCreated \in Nat /\ n \in Nat /\ n # 0
  BY DEF TypeOK
<1>1. heap' = [heap EXCEPT ![a] = [sequence |-> n, expiration |-> w, interval |-> v]]
      /\ heap[a].sequence = 0 /\ numCreated' = n
  BY DEF NewTimer, NoTimer
<1>2. heap'[a].sequence = n /\ heap'[a].expiration = w /\ \A b \in Addrs \ {a} : heap'[b] = heap[b]
  BY <1>0, <1>1
<1>3. timers_' = timers_ \cup {<<w, a>>} /\ activeTimers_' = activeTimers_ \cup {<<a, n>>}
  BY <1>2 DEF AddTimerInLoop
<1>4. /\ \A u : <<u, a>> \notin timers_ /\ <<u, a>> \notin expired
      /\ a \notin QueuedAdds
      /\ \A s : <<a, s>> \notin activeTimers_
  BY <1>1, NotOwned
<1>5. QueuedAdds' = QueuedAdds
  BY DEF QueuedAdds
<1> HIDE DEF n
<1>6. ASSUME NEW b \in Addrs \ {a}
      PROVE  /\ InTimers(b)' <=> InTimers(b)
             /\ InExpired(b)' <=> InExpired(b)
             /\ IsQueued(b)' <=> IsQueued(b)
  BY <1>2, <1>3, <1>5 DEF InTimers, InExpired, IsQueued
<1>7. InTimers(a)' /\ ~InExpired(a)' /\ ~IsQueued(a)'
  BY <1>2, <1>3, <1>4, <1>5 DEF InTimers, InExpired, IsQueued
<1>8. \A e \in timers_' \cup expired' : heap'[e[2]].expiration = e[1]
  <2> TAKE e \in timers_' \cup expired'
  <2>1. CASE e = <<w, a>>
    BY <1>2, <2>1
  <2>2. CASE e \in timers_ \cup expired
    <3>1. e = <<e[1], e[2]>> /\ e[2] \in Addrs
      BY <2>2 DEF TypeOK
    <3>2. e[2] # a
      BY <1>4, <2>2, <3>1
    <3> QED
      BY <1>2, <2>2, <3>1, <3>2 DEF HeapOK
  <2> QED
    BY <1>3, <2>1, <2>2
<1>9. \A b \in Addrs : heap[b].sequence \in Nat
  BY <1>0 DEF Timer
<1>10. ASSUME NEW b \in Addrs
       PROVE  /\ (heap[b].sequence = 0 => heap[b] = NoTimer)'
              /\ (heap[b].sequence <= numCreated)'
              /\ (heap[b].sequence # 0 <=> (InTimers(b) \/ InExpired(b) \/ IsQueued(b)))'
              /\ (~(InTimers(b) /\ InExpired(b)))'
              /\ (~(IsQueued(b) /\ (InTimers(b) \/ InExpired(b))))'
  <2>1. CASE b = a
    BY <1>0, <1>1, <1>2, <1>7, <2>1
  <2>2. CASE b # a
    BY <1>0, <1>1, <1>2, <1>6, <1>9, <2>2 DEF HeapOK, n
  <2> QED
    BY <2>1, <2>2
<1>11. ASSUME NEW b \in Addrs, NEW s \in Nat
       PROVE  (<<b, s>> \in activeTimers_ <=> (s = heap[b].sequence /\ InTimers(b)))'
  <2>1. CASE b = a
    BY <1>2, <1>3, <1>4, <1>7, <2>1
  <2>2. CASE b # a
    BY <1>2, <1>3, <1>6, <2>2 DEF HeapOK
  <2> QED
    BY <2>1, <2>2
<1> QED
  BY <1>8, <1>10, <1>11 DEF HeapOK

(* A new Timer whose addTimerInLoop is queued. *)
LEMMA NewQueued ==
  ASSUME TypeOK, HeapOK, NEW a \in Addrs, NEW w \in Nat, NEW v \in Nat, NewTimer(a, w, v),
         QueuedAdds' = QueuedAdds \cup {a}, UNCHANGED <<timers_, activeTimers_, expired>>
  PROVE  HeapOK'
<1> DEFINE n == numCreated + 1
<1>0. heap \in [Addrs -> Timer] /\ numCreated \in Nat /\ n \in Nat /\ n # 0
  BY DEF TypeOK
<1>1. heap' = [heap EXCEPT ![a] = [sequence |-> n, expiration |-> w, interval |-> v]]
      /\ heap[a].sequence = 0 /\ numCreated' = n
  BY DEF NewTimer, NoTimer
<1>2. heap'[a].sequence = n /\ \A b \in Addrs \ {a} : heap'[b] = heap[b]
  BY <1>0, <1>1
<1>3. /\ \A u : <<u, a>> \notin timers_ /\ <<u, a>> \notin expired
      /\ \A s : <<a, s>> \notin activeTimers_
  BY <1>1, NotOwned
<1> HIDE DEF n
<1>4. ASSUME NEW b \in Addrs \ {a}
      PROVE  /\ InTimers(b)' <=> InTimers(b)
             /\ InExpired(b)' <=> InExpired(b)
             /\ IsQueued(b)' <=> IsQueued(b)
  BY <1>2 DEF InTimers, InExpired, IsQueued
<1>5. ~InTimers(a)' /\ ~InExpired(a)' /\ IsQueued(a)'
  BY <1>3 DEF InTimers, InExpired, IsQueued
<1>6. \A e \in timers_' \cup expired' : heap'[e[2]].expiration = e[1]
  <2> TAKE e \in timers_' \cup expired'
  <2>1. e = <<e[1], e[2]>> /\ e[2] \in Addrs
    BY DEF TypeOK
  <2>2. e[2] # a
    BY <1>3, <2>1
  <2> QED
    BY <1>2, <2>1, <2>2 DEF HeapOK
<1>7. \A b \in Addrs : heap[b].sequence \in Nat
  BY <1>0 DEF Timer
<1>8. ASSUME NEW b \in Addrs
      PROVE  /\ (heap[b].sequence = 0 => heap[b] = NoTimer)'
             /\ (heap[b].sequence <= numCreated)'
             /\ (heap[b].sequence # 0 <=> (InTimers(b) \/ InExpired(b) \/ IsQueued(b)))'
             /\ (~(InTimers(b) /\ InExpired(b)))'
             /\ (~(IsQueued(b) /\ (InTimers(b) \/ InExpired(b))))'
  <2>1. CASE b = a
    BY <1>0, <1>1, <1>2, <1>5, <2>1
  <2>2. CASE b # a
    BY <1>0, <1>1, <1>2, <1>4, <1>7, <2>2 DEF HeapOK, n
  <2> QED
    BY <2>1, <2>2
<1>9. ASSUME NEW b \in Addrs, NEW s \in Nat
      PROVE  (<<b, s>> \in activeTimers_ <=> (s = heap[b].sequence /\ InTimers(b)))'
  <2>1. CASE b = a
    BY <1>3, <1>5, <2>1
  <2>2. CASE b # a
    BY <1>2, <1>4, <2>2 DEF HeapOK
  <2> QED
    BY <2>1, <2>2
<1> QED
  BY <1>6, <1>8, <1>9 DEF HeapOK

(* The queued addTimerInLoop runs. *)
LEMMA QueuedInserted ==
  ASSUME TypeOK, HeapOK, NEW a \in Addrs, a \in QueuedAdds, QueuedAdds' = QueuedAdds \ {a},
         timers_' = timers_ \cup {<<heap[a].expiration, a>>},
         activeTimers_' = activeTimers_ \cup {<<a, heap[a].sequence>>},
         UNCHANGED <<heap, numCreated, expired>>
  PROVE  HeapOK'
<1>1. IsQueued(a) /\ ~InTimers(a) /\ ~InExpired(a) /\ heap[a].sequence # 0
  BY DEF HeapOK, IsQueued
<1>2. ASSUME NEW b \in Addrs \ {a}
      PROVE  /\ InTimers(b)' <=> InTimers(b)
             /\ InExpired(b)' <=> InExpired(b)
             /\ IsQueued(b)' <=> IsQueued(b)
  BY DEF InTimers, InExpired, IsQueued
<1>3. InTimers(a)' /\ ~InExpired(a)' /\ ~IsQueued(a)'
  BY <1>1 DEF InTimers, InExpired, IsQueued
<1>4. \A e \in timers_' \cup expired' : heap'[e[2]].expiration = e[1]
  BY DEF HeapOK
<1>5. ASSUME NEW b \in Addrs
      PROVE  /\ (heap[b].sequence = 0 => heap[b] = NoTimer)'
             /\ (heap[b].sequence <= numCreated)'
             /\ (heap[b].sequence # 0 <=> (InTimers(b) \/ InExpired(b) \/ IsQueued(b)))'
             /\ (~(InTimers(b) /\ InExpired(b)))'
             /\ (~(IsQueued(b) /\ (InTimers(b) \/ InExpired(b))))'
  <2>1. CASE b = a
    BY <1>1, <1>3, <2>1 DEF HeapOK
  <2>2. CASE b # a
    BY <1>2, <2>2 DEF HeapOK
  <2> QED
    BY <2>1, <2>2
<1>6. ASSUME NEW b \in Addrs, NEW s \in Nat
      PROVE  (<<b, s>> \in activeTimers_ <=> (s = heap[b].sequence /\ InTimers(b)))'
  <2>1. CASE b = a
    BY <1>1, <1>3, <2>1 DEF HeapOK
  <2>2. CASE b # a
    BY <1>2, <2>2 DEF HeapOK
  <2> QED
    BY <2>1, <2>2
<1> QED
  BY <1>4, <1>5, <1>6 DEF HeapOK

(* cancelInLoop deletes the Timer of its TimerId, or does nothing to the sets. *)
LEMMA CancelHeap ==
  ASSUME TypeOK, HeapOK, NEW id \in Id, CancelInLoop(id), QueuedAdds' = QueuedAdds,
         UNCHANGED <<numCreated, expired>>
  PROVE  /\ HeapOK'
         /\ timers_' \subseteq timers_
         /\ activeTimers_' = activeTimers_ \ {id}
         /\ \A b \in Addrs : heap'[b] = heap[b] \/ (b = id[1] /\ id \in activeTimers_)
         /\ heap' \in [Addrs -> Timer]
<1> DEFINE a == id[1]
<1>0. a \in Addrs /\ id[2] \in Nat /\ id = <<a, id[2]>> /\ heap \in [Addrs -> Timer]
  BY DEF TypeOK, Id
<1>1. CASE ~Found(id)
  <2>1. UNCHANGED <<timers_, activeTimers_, heap>> /\ id \notin activeTimers_
    BY <1>1 DEF CancelInLoop, Found
  <2>2. HeapOK'
    BY <2>1 DEF HeapOK, InTimers, InExpired, IsQueued
  <2> QED
    BY <1>0, <2>1, <2>2
<1>2. CASE Found(id)
  <2>1. id \in activeTimers_
    BY <1>2 DEF Found
  <2>2. id[2] = heap[a].sequence /\ InTimers(a)
    BY <1>0, <2>1 DEF HeapOK
  <2>3. heap[a].sequence # 0 /\ ~InExpired(a) /\ ~IsQueued(a)
    BY <1>0, <2>2 DEF HeapOK
  <2>4. /\ timers_' = timers_ \ {<<heap[a].expiration, a>>}
        /\ heap' = [heap EXCEPT ![a] = NoTimer]
        /\ activeTimers_' = activeTimers_ \ {id}
    BY <1>0, <1>2, <2>2 DEF CancelInLoop
  <2>5. heap'[a] = NoTimer /\ \A b \in Addrs \ {a} : heap'[b] = heap[b]
    BY <1>0, <2>4
  <2>6. heap' \in [Addrs -> Timer]
    BY <1>0, <2>4 DEF Timer, NoTimer
  <2> HIDE DEF a
  <2>7. \A u : <<u, a>> \notin timers_' /\ <<u, a>> \notin expired
    <3> TAKE u
    <3>1. <<u, a>> \in timers_ \cup expired => u = heap[a].expiration
      BY DEF HeapOK
    <3> QED
      BY <2>3, <2>4, <3>1 DEF InExpired
  <2>8. ASSUME NEW b \in Addrs \ {a}
        PROVE  /\ InTimers(b)' <=> InTimers(b)
               /\ InExpired(b)' <=> InExpired(b)
               /\ IsQueued(b)' <=> IsQueued(b)
    BY <2>4, <2>5 DEF InTimers, InExpired, IsQueued
  <2>9. ~InTimers(a)' /\ ~InExpired(a)' /\ ~IsQueued(a)'
    BY <2>3, <2>7 DEF InTimers, InExpired, IsQueued
  <2>10. \A e \in timers_' \cup expired' : heap'[e[2]].expiration = e[1]
    <3> TAKE e \in timers_' \cup expired'
    <3>1. e \in timers_ \cup expired /\ e = <<e[1], e[2]>> /\ e[2] \in Addrs
      BY <2>4 DEF TypeOK
    <3>2. e[2] # a
      BY <2>7, <3>1
    <3> QED
      BY <2>5, <3>1, <3>2 DEF HeapOK
  <2>11. ASSUME NEW b \in Addrs
         PROVE  /\ (heap[b].sequence = 0 => heap[b] = NoTimer)'
                /\ (heap[b].sequence <= numCreated)'
                /\ (heap[b].sequence # 0 <=> (InTimers(b) \/ InExpired(b) \/ IsQueued(b)))'
                /\ (~(InTimers(b) /\ InExpired(b)))'
                /\ (~(IsQueued(b) /\ (InTimers(b) \/ InExpired(b))))'
    <3>1. CASE b = a
      <4>1. heap'[b].sequence = 0 /\ numCreated' \in Nat
        BY <2>5, <3>1 DEF NoTimer, TypeOK
      <4> QED
        BY <2>5, <2>9, <3>1, <4>1
    <3>2. CASE b # a
      BY <2>5, <2>8, <3>2 DEF HeapOK
    <3> QED
      BY <3>1, <3>2
  <2>12. ASSUME NEW b \in Addrs, NEW s \in Nat
         PROVE  (<<b, s>> \in activeTimers_ <=> (s = heap[b].sequence /\ InTimers(b)))'
    <3>1. CASE b = a
      <4>1. <<b, s>> \in activeTimers_ => <<b, s>> = id
        BY <1>0, <2>2, <3>1 DEF HeapOK, a
      <4> QED
        BY <2>4, <2>9, <3>1, <4>1
    <3>2. CASE b # a
      <4>1. <<b, s>> # id
        BY <1>0, <3>2
      <4> QED
        BY <2>4, <2>5, <2>8, <3>2, <4>1 DEF HeapOK
    <3> QED
      BY <3>1, <3>2
  <2> QED
    BY <2>1, <2>4, <2>5, <2>6, <2>10, <2>11, <2>12 DEF HeapOK, a
<1> QED
  BY <1>1, <1>2

(* getExpired moves the entries that are due to the vector of handleRead. *)
LEMMA ExpiredMoved ==
  ASSUME TypeOK, ReadOK, HeapOK, HandleRead
  PROVE  HeapOK'
<1> DEFINE E == GetExpired
<1>1. /\ expired = {} /\ expired' = E /\ timers_' = timers_ \ E /\ E \subseteq timers_
      /\ activeTimers_' = activeTimers_ \ {ActiveTimer(e) : e \in E}
      /\ UNCHANGED <<heap, numCreated, functors>>
  BY DEF HandleRead, ReadOK, GetExpired
<1>2. QueuedAdds' = QueuedAdds
  BY <1>1 DEF QueuedAdds
<1> HIDE DEF E
<1>3. \A b \in Addrs : /\ InTimers(b)' <=> (InTimers(b) /\ <<heap[b].expiration, b>> \notin E)
                       /\ InExpired(b)' <=> (InTimers(b) /\ <<heap[b].expiration, b>> \in E)
                       /\ IsQueued(b)' <=> IsQueued(b)
                       /\ ~InExpired(b)
  BY <1>1, <1>2 DEF InTimers, InExpired, IsQueued
<1>4. \A e \in timers_' \cup expired' : heap'[e[2]].expiration = e[1]
  BY <1>1 DEF HeapOK
<1>5. ASSUME NEW b \in Addrs
      PROVE  /\ (heap[b].sequence = 0 => heap[b] = NoTimer)'
             /\ (heap[b].sequence <= numCreated)'
             /\ (heap[b].sequence # 0 <=> (InTimers(b) \/ InExpired(b) \/ IsQueued(b)))'
             /\ (~(InTimers(b) /\ InExpired(b)))'
             /\ (~(IsQueued(b) /\ (InTimers(b) \/ InExpired(b))))'
  BY <1>1, <1>3, Zenon DEF HeapOK
<1>6. ASSUME NEW b \in Addrs, NEW s \in Nat
      PROVE  (<<b, s>> \in activeTimers_ <=> (s = heap[b].sequence /\ InTimers(b)))'
  <2>1. <<b, s>> \in {ActiveTimer(e) : e \in E}
          <=> (s = heap[b].sequence /\ <<heap[b].expiration, b>> \in E)
    <3>1. ASSUME NEW e \in E, <<b, s>> = ActiveTimer(e)
          PROVE  s = heap[b].sequence /\ <<heap[b].expiration, b>> \in E
      <4>1. e = <<e[1], e[2]>> /\ heap[e[2]].expiration = e[1]
        BY <1>1 DEF TypeOK, HeapOK
      <4>2. e[2] = b /\ s = heap[b].sequence
        BY <3>1 DEF ActiveTimer, AddrOf
      <4> QED
        BY <4>1, <4>2
    <3>2. ASSUME s = heap[b].sequence, <<heap[b].expiration, b>> \in E
          PROVE  \E e \in E : <<b, s>> = ActiveTimer(e)
      BY <3>2 DEF ActiveTimer, AddrOf
    <3> QED
      BY <3>1, <3>2
  <2>2. <<b, s>> \in activeTimers_ <=> (s = heap[b].sequence /\ InTimers(b))
    BY DEF HeapOK
  <2> QED
    BY <1>1, <1>3, <2>1, <2>2
<1> QED
  BY <1>4, <1>5, <1>6, Zenon DEF HeapOK

(* The Timers that reset() inserts again. *)
IsRestarted(b) == InExpired(b) /\ Restarted(<<heap[b].expiration, b>>)

(* What reset() does to the Timer at each address. *)
LEMMA ResetMeans ==
  ASSUME TypeOK, HeapOK, Reset, NEW b \in Addrs
  PROVE  /\ IsRestarted(b) =>
              heap'[b] = [heap[b] EXCEPT !.expiration = handleNow + heap[b].interval]
         /\ (InExpired(b) /\ ~IsRestarted(b)) => heap'[b] = NoTimer
         /\ ~InExpired(b) => heap'[b] = heap[b]
         /\ \A w : <<w, b>> \in timers_'
                     <=> <<w, b>> \in timers_ \/ (IsRestarted(b) /\ w = heap'[b].expiration)
         /\ \A s : <<b, s>> \in activeTimers_'
                     <=> <<b, s>> \in activeTimers_ \/ (IsRestarted(b) /\ s = heap[b].sequence)
<1> DEFINE restarted == {AddrOf(e) : e \in {x \in expired : Restarted(x)}}
<1>1. \A e \in expired : e[2] = b => e = <<heap[b].expiration, b>>
  BY DEF TypeOK, HeapOK
<1>2. (\E e \in expired : AddrOf(e) = b) <=> InExpired(b)
  BY <1>1 DEF InExpired, AddrOf
<1>3. (\E e \in expired : AddrOf(e) = b /\ Restarted(e)) <=> IsRestarted(b)
  BY <1>1 DEF InExpired, IsRestarted, AddrOf
<1>4. b \in restarted <=> IsRestarted(b)
  BY <1>3
<1>5. heap' = [a \in Addrs |-> AfterReset(a)]
  BY DEF Reset
<1>6. heap'[b] = AfterReset(b)
  BY <1>5
<1>7. /\ IsRestarted(b) =>
           heap'[b] = [heap[b] EXCEPT !.expiration = handleNow + heap[b].interval]
      /\ (InExpired(b) /\ ~IsRestarted(b)) => heap'[b] = NoTimer
      /\ ~InExpired(b) => heap'[b] = heap[b]
  BY <1>2, <1>3, <1>6 DEF AfterReset
<1>8. /\ timers_' = timers_ \cup {<<AfterReset(a).expiration, a>> : a \in restarted}
      /\ activeTimers_' = activeTimers_ \cup {<<a, heap[a].sequence>> : a \in restarted}
  BY DEF Reset
<1> HIDE DEF restarted
<1>9. \A w : <<w, b>> \in timers_'
               <=> <<w, b>> \in timers_ \/ (IsRestarted(b) /\ w = heap'[b].expiration)
  BY <1>4, <1>6, <1>8
<1>10. \A s : <<b, s>> \in activeTimers_'
                <=> <<b, s>> \in activeTimers_ \/ (IsRestarted(b) /\ s = heap[b].sequence)
  BY <1>4, <1>8
<1> QED
  BY <1>7, <1>9, <1>10

LEMMA ResetTypes ==
  ASSUME TypeOK, ReadOK, HeapOK, Reset
  PROVE  /\ heap' \in [Addrs -> Timer]
         /\ timers_' \subseteq Nat \X Addrs
         /\ activeTimers_' \subseteq Id
<1>0. handleNow \in Nat /\ expired \subseteq Nat \X Addrs /\ heap \in [Addrs -> Timer]
  BY DEF TypeOK
<1>1. \A a \in Addrs : AfterReset(a) \in Timer
  BY <1>0 DEF AfterReset, Timer, NoTimer
<1>2. heap' \in [Addrs -> Timer]
  BY <1>1 DEF Reset
<1>3. {AddrOf(e) : e \in {x \in expired : Restarted(x)}} \subseteq Addrs
  BY <1>0 DEF AddrOf
<1>4. \A a \in Addrs : AfterReset(a).expiration \in Nat /\ heap[a].sequence \in Nat
  BY <1>0, <1>1 DEF Timer
<1> QED
  BY <1>2, <1>3, <1>4 DEF Reset, TypeOK, Id

LEMMA ResetHeap ==
  ASSUME TypeOK, ReadOK, HeapOK, Reset
  PROVE  HeapOK'
<1>1. expired' = {} /\ UNCHANGED <<numCreated, functors>> /\ timers_' \subseteq Nat \X Addrs
  BY ResetTypes, Zenon DEF Reset
<1>2. QueuedAdds' = QueuedAdds
  BY <1>1 DEF QueuedAdds
<1>3. ASSUME NEW b \in Addrs
      PROVE  /\ ~InExpired(b)'
             /\ IsQueued(b)' <=> IsQueued(b)
             /\ InTimers(b)' <=> (InTimers(b) \/ IsRestarted(b))
             /\ heap'[b].sequence = IF InExpired(b) /\ ~IsRestarted(b) THEN 0 ELSE heap[b].sequence
             /\ (InExpired(b) /\ ~IsRestarted(b)) => heap'[b] = NoTimer
             /\ ~InExpired(b) => heap'[b] = heap[b]
             /\ IsRestarted(b) => InExpired(b)
             /\ \A w : <<w, b>> \in timers_' => w = heap'[b].expiration
  <2>1. ~InExpired(b)' /\ (IsQueued(b)' <=> IsQueued(b)) /\ (IsRestarted(b) => InExpired(b))
    BY <1>1, <1>2 DEF InExpired, IsQueued, IsRestarted
  <2>2. heap[b] \in Timer
    BY DEF TypeOK
  <2>3. heap'[b].sequence = IF InExpired(b) /\ ~IsRestarted(b) THEN 0 ELSE heap[b].sequence
    <3>1. [heap[b] EXCEPT !.expiration = handleNow + heap[b].interval].sequence = heap[b].sequence
      BY <2>2 DEF Timer
    <3>2. NoTimer.sequence = 0
      BY DEF NoTimer
    <3> QED
      BY <2>1, <3>1, <3>2, ResetMeans, Zenon
  <2>4. \A w : <<w, b>> \in timers_ => w = heap[b].expiration
    BY DEF HeapOK
  <2>5. \A w : <<w, b>> \in timers_ => InTimers(b)
    BY <2>4 DEF InTimers
  <2>6. ~(InTimers(b) /\ InExpired(b))
    BY DEF HeapOK
  <2>7. \A w : <<w, b>> \in timers_' => w = heap'[b].expiration
    BY <2>4, <2>5, <2>6, ResetMeans, Zenon
  <2>8. InTimers(b)' <=> (InTimers(b) \/ IsRestarted(b))
    BY <2>1, <2>4, <2>5, <2>6, ResetMeans, Zenon DEF InTimers
  <2> QED
    BY <2>1, <2>3, <2>7, <2>8, ResetMeans, Zenon
<1>4. \A e \in timers_' \cup expired' : heap'[e[2]].expiration = e[1]
  BY <1>1, <1>3
<1>5. ASSUME NEW b \in Addrs
      PROVE  /\ (heap[b].sequence = 0 => heap[b] = NoTimer)'
             /\ (heap[b].sequence <= numCreated)'
             /\ (heap[b].sequence # 0 <=> (InTimers(b) \/ InExpired(b) \/ IsQueued(b)))'
             /\ (~(InTimers(b) /\ InExpired(b)))'
             /\ (~(IsQueued(b) /\ (InTimers(b) \/ InExpired(b))))'
  <2>1. /\ (heap[b].sequence = 0 => heap[b] = NoTimer)
        /\ heap[b].sequence <= numCreated /\ numCreated \in Nat
        /\ (heap[b].sequence # 0 <=> (InTimers(b) \/ InExpired(b) \/ IsQueued(b)))
        /\ ~(InTimers(b) /\ InExpired(b))
        /\ ~(IsQueued(b) /\ (InTimers(b) \/ InExpired(b)))
    BY DEF HeapOK, TypeOK
  <2>2. CASE InExpired(b) /\ ~IsRestarted(b)
    BY <1>1, <1>3, <2>1, <2>2
  <2>3. CASE IsRestarted(b)
    BY <1>1, <1>3, <2>1, <2>3
  <2>4. CASE ~InExpired(b)
    BY <1>1, <1>3, <2>1, <2>4
  <2> QED
    BY <2>2, <2>3, <2>4
<1>6. ASSUME NEW b \in Addrs, NEW s \in Nat
      PROVE  (<<b, s>> \in activeTimers_ <=> (s = heap[b].sequence /\ InTimers(b)))'
  <2>1. /\ <<b, s>> \in activeTimers_ <=> (s = heap[b].sequence /\ InTimers(b))
        /\ ~(InTimers(b) /\ InExpired(b))
    BY DEF HeapOK
  <2>2. <<b, s>> \in activeTimers_'
          <=> <<b, s>> \in activeTimers_ \/ (IsRestarted(b) /\ s = heap[b].sequence)
    BY ResetMeans, Zenon
  <2> QED
    BY <1>3, <2>1, <2>2
<1> QED
  BY <1>4, <1>5, <1>6, ZenonT(60) DEF HeapOK

-----------------------------------------------------------------------------
(* The queue after a step.                                                   *)

LEMMA QueuedBy ==
  ASSUME TypeOK, NEW i \in 1 .. Len(functors), functors[i].op = "add"
  PROVE  functors[i].id[1] \in QueuedAdds /\ functors[i].id[1] \in Addrs
<1>1. functors[i] \in Functor /\ i \in DOMAIN functors
  BY DEF TypeOK
<1> QED
  BY <1>1 DEF QueuedAdds, Functor, Id

LEMMA QueuedTypes ==
  ASSUME TypeOK
  PROVE  /\ \A i \in 1 .. Len(functors) :
              functors[i].id \in Id /\ functors[i].id[1] \in Addrs /\ functors[i].id[2] \in Nat
         /\ QueuedAdds \subseteq Addrs
<1>1. \A i \in 1 .. Len(functors) : functors[i] \in Functor
  BY DEF TypeOK
<1>2. DOMAIN functors = 1 .. Len(functors)
  BY DEF TypeOK
<1>3. \A i \in 1 .. Len(functors) :
        functors[i].id \in Id /\ functors[i].id[1] \in Addrs /\ functors[i].id[2] \in Nat
  BY <1>1 DEF Functor, Id
<1> QED
  BY <1>2, <1>3 DEF QueuedAdds

(* incrementAndGet() on s_numCreated_, as arithmetic. *)
LEMMA NextSequence ==
  ASSUME NEW n \in Nat
  PROVE  n + 1 \in Nat /\ n <= n + 1 /\ n + 1 <= n + 1
OBVIOUS

(* Sequences that were handed out stay so when more are created. *)
LEMMA SequencesLater ==
  ASSUME TypeOK, SequencesOK, NEW n \in Nat, numCreated <= n
  PROVE  /\ \A id \in ids \cup cancelled : id[2] <= n
         /\ \A i \in 1 .. Len(functors) : functors[i].id[2] <= n
         /\ \A t \in Threads : call[t] # <<>> => call[t][2] <= n
<1>1. \A id \in ids \cup cancelled : id[2] \in Nat
  BY DEF TypeOK, Id
<1>2. \A t \in Threads : call[t] # <<>> => call[t][2] \in Nat
  BY DEF TypeOK, Id
<1> QED
  BY <1>1, <1>2, QueuedTypes DEF SequencesOK, TypeOK

LEMMA QueueKept ==
  ASSUME TypeOK, QueueOK, UNCHANGED functors,
         \A b \in QueuedAdds : heap'[b].sequence = heap[b].sequence
  PROVE  QueueOK'
  BY QueuedBy DEF QueueOK

LEMMA QueueAppended ==
  ASSUME TypeOK, QueueOK, NEW f \in Functor, functors' = Append(functors, f),
         \A b \in QueuedAdds : heap'[b].sequence = heap[b].sequence,
         f.op = "add" => f.id[1] \notin QueuedAdds /\ f.id[2] = heap'[f.id[1]].sequence
  PROVE  QueueOK'
<1> DEFINE n == Len(functors)
<1>1. /\ n \in Nat /\ Len(functors') = n + 1
      /\ \A i \in 1 .. n : functors'[i] = functors[i]
      /\ functors'[n + 1] = f
  BY AppendFunctor DEF TypeOK
<1>2. \A i \in 1 .. n : functors[i].op = "add" => functors[i].id[1] \in QueuedAdds
  BY QueuedBy
<1>3. \A i \in 1 .. n + 1 : i \in 1 .. n \/ i = n + 1
  BY <1>1
<1> HIDE DEF n, Functor
<1>4. \A i \in 1 .. n + 1 :
        functors'[i].op = "add" => functors'[i].id[2] = heap'[functors'[i].id[1]].sequence
  BY <1>1, <1>2, <1>3 DEF QueueOK, n
<1>5. \A i, j \in 1 .. n + 1 :
        (functors'[i].op = "add" /\ functors'[j].op = "add" /\ i # j)
          => functors'[i].id[1] # functors'[j].id[1]
  BY <1>1, <1>2, <1>3 DEF QueueOK, n
<1> QED
  BY <1>1, <1>4, <1>5 DEF QueueOK

LEMMA QueueShortened ==
  ASSUME TypeOK, QueueOK, functors # <<>>, functors' = Tail(functors),
         \A b \in QueuedAdds : heap'[b].sequence = heap[b].sequence
  PROVE  QueueOK'
<1>1. /\ Len(functors) \in Nat /\ Len(functors') = Len(functors) - 1
      /\ \A i \in 1 .. Len(functors) - 1 :
           i + 1 \in 1 .. Len(functors) /\ functors'[i] = functors[i + 1]
  BY TailFunctor DEF TypeOK
<1>2. ASSUME NEW i \in 1 .. Len(functors) - 1, functors'[i].op = "add"
      PROVE  functors'[i].id[2] = heap'[functors'[i].id[1]].sequence
  <2>1. i + 1 \in 1 .. Len(functors) /\ functors'[i] = functors[i + 1]
    BY <1>1
  <2>2. functors[i + 1].id[2] = heap[functors[i + 1].id[1]].sequence
    BY <1>2, <2>1 DEF QueueOK
  <2> QED
    BY <1>2, <2>1, <2>2, QueuedBy
<1>3. ASSUME NEW i \in 1 .. Len(functors) - 1, NEW j \in 1 .. Len(functors) - 1,
             functors'[i].op = "add", functors'[j].op = "add", i # j
      PROVE  functors'[i].id[1] # functors'[j].id[1]
  <2>1. /\ i + 1 \in 1 .. Len(functors) /\ functors'[i] = functors[i + 1]
        /\ j + 1 \in 1 .. Len(functors) /\ functors'[j] = functors[j + 1]
        /\ i + 1 # j + 1
    BY <1>1, <1>3
  <2> QED
    BY <1>3, <2>1 DEF QueueOK
<1> QED
  BY <1>1, <1>2, <1>3 DEF QueueOK

-----------------------------------------------------------------------------
(* One lemma per action.                                                     *)

LEMMA InitHolds == Init => IInv /\ CancelOK
<1> SUFFICES ASSUME Init PROVE IInv /\ CancelOK
  OBVIOUS
<1>1. TypeOK
  <2>1. heap \in [Addrs -> Timer]
    BY DEF Init, Timer, NoTimer
  <2>2. functors \in Seq(Functor) /\ call \in [Threads -> Id \cup {<<>>}]
    BY DEF Init
  <2>3. /\ callingExpiredTimers_ \in BOOLEAN /\ readable \in BOOLEAN
        /\ polled \in BOOLEAN /\ clockSet \in BOOLEAN
    BY Zenon DEF Init
  <2>4. /\ timers_ = {} /\ activeTimers_ = {} /\ cancelingTimers_ = {} /\ expired = {}
        /\ ids = {} /\ cancelled = {}
        /\ numCreated = 0 /\ handleNow = 0 /\ armed = 0 /\ now = 1 /\ pc = "idle"
    BY DEF Init
  <2> QED
    BY <2>1, <2>2, <2>3, <2>4 DEF TypeOK
<1>2. functors = <<>> /\ Len(functors) = 0 /\ DOMAIN functors = {} /\ QueuedAdds = {}
  BY DEF Init, QueuedAdds
<1>3. \A a \in Addrs : heap[a] = NoTimer /\ heap[a].sequence = 0
  BY DEF Init, NoTimer
<1>4. HeapOK
  BY <1>2, <1>3 DEF Init, HeapOK, InTimers, InExpired, IsQueued
<1>5. ReadOK /\ ArmedOK
  <2>1. timers_ = {} /\ pc = "idle" /\ expired = {} /\ callingExpiredTimers_ = FALSE
    BY Zenon DEF Init
  <2> QED
    BY <2>1, Zenon DEF ReadOK, ArmedOK
<1>6. QueueOK /\ SequencesOK /\ CancelOK
  BY <1>2 DEF Init, QueueOK, SequencesOK, CancelOK, CancelIsFinal
<1> QED
  BY <1>1, <1>4, <1>5, <1>6 DEF IInv

LEMMA AddTimerStep ==
  ASSUME IInv, NEW a \in Addrs, NEW w \in Whens, NEW v \in Intervals, AddTimer(a, w, v)
  PROVE  IInv'
<1>0. TypeOK /\ ReadOK /\ HeapOK /\ QueueOK /\ SequencesOK /\ ArmedOK
  BY DEF IInv
<1>1. w \in Nat /\ v \in Nat
  BY TimerAssumption
<1>2. NewTimer(a, w, v) /\ AddTimerInLoop(a, heap'[a])
  BY Zenon DEF AddTimer
<1>3. /\ heap' = [heap EXCEPT ![a] = [sequence |-> numCreated + 1, expiration |-> w, interval |-> v]]
      /\ heap[a].sequence = 0 /\ numCreated' = numCreated + 1 /\ numCreated \in Nat
      /\ heap \in [Addrs -> Timer]
  BY <1>0, <1>2 DEF NewTimer, NoTimer, TypeOK
<1>4. heap' \in [Addrs -> Timer] /\ heap'[a].sequence = numCreated + 1 /\ heap'[a].expiration = w
      /\ \A b \in Addrs \ {a} : heap'[b] = heap[b]
  BY <1>1, <1>3 DEF Timer
<1>5. HeapOK'
  <2>1. UNCHANGED <<expired, functors>>
    BY Zenon DEF AddTimer, readVars
  <2> QED
    BY <1>0, <1>1, <1>2, <2>1, NewInserted, Zenon
<1>6. ArmedOK' /\ armed' \in Nat /\ readable' \in BOOLEAN
  BY <1>0, <1>2, <1>4, InsertArms DEF AddTimer, readVars
<1>7. QueueOK'
  <2>1. a \notin QueuedAdds
    BY <1>0, <1>3, NotOwned
  <2> QED
    BY <1>0, <1>4, <2>1, QueuedTypes, QueueKept DEF AddTimer
<1>8. <<a, numCreated + 1>> \in Id /\ <<w, a>> \in Nat \X Addrs
  BY <1>1, <1>3 DEF Id
<1>9. TypeOK'
  <2>1. /\ timers_' = timers_ \cup {<<w, a>>}
        /\ activeTimers_' = activeTimers_ \cup {<<a, numCreated + 1>>}
        /\ ids' = ids \cup {<<a, numCreated + 1>>}
        /\ UNCHANGED cancelingTimers_
    BY <1>4, Zenon DEF AddTimer, AddTimerInLoop
  <2>2. /\ timers_' \subseteq Nat \X Addrs /\ activeTimers_' \subseteq Id /\ ids' \subseteq Id
        /\ cancelingTimers_' \subseteq Id
    BY <1>0, <1>8, <2>1, Zenon DEF TypeOK
  <2>3. numCreated' \in Nat
    BY <1>3
  <2>4. UNCHANGED <<expired, callingExpiredTimers_, handleNow, pc, polled, functors, call, now,
                    clockSet, cancelled>>
    BY Zenon DEF AddTimer, readVars
  <2> QED
    BY <1>0, <1>4, <1>6, <2>2, <2>3, <2>4, ZenonT(60) DEF TypeOK
<1>10. SequencesOK'
  <2>1. ids' = ids \cup {<<a, numCreated + 1>>} /\ UNCHANGED <<cancelled, functors, call>>
    BY <1>4, Zenon DEF AddTimer
  <2>2. /\ \A id \in ids \cup cancelled : id[2] <= numCreated'
        /\ \A i \in 1 .. Len(functors) : functors[i].id[2] <= numCreated'
        /\ \A t \in Threads : call[t] # <<>> => call[t][2] <= numCreated'
    <3>1. numCreated' \in Nat /\ numCreated <= numCreated'
      BY <1>3
    <3> QED
      BY <1>0, <3>1, SequencesLater, Zenon
  <2>3. <<a, numCreated + 1>>[2] <= numCreated'
    BY <1>3
  <2>4. \A id \in ids' \cup cancelled' : id[2] <= numCreated'
    BY <2>1, <2>2, <2>3, Zenon
  <2>5. \A i \in 1 .. Len(functors') : functors'[i].id[2] <= numCreated'
    BY <2>1, <2>2, Zenon
  <2>6. \A t \in Threads : call'[t] # <<>> => call'[t][2] <= numCreated'
    BY <2>1, <2>2, Zenon
  <2> QED
    BY <2>4, <2>5, <2>6, Zenon DEF SequencesOK
<1>11. ReadOK'
  BY <1>0 DEF ReadOK, AddTimer, readVars
<1> QED
  BY <1>5, <1>6, <1>7, <1>9, <1>10, <1>11 DEF IInv

LEMMA AddTimerFromStep ==
  ASSUME IInv, NEW t \in Threads, NEW a \in Addrs, NEW w \in Whens, NEW v \in Intervals,
         AddTimerFrom(t, a, w, v)
  PROVE  IInv'
<1>0. TypeOK /\ ReadOK /\ HeapOK /\ QueueOK /\ SequencesOK /\ ArmedOK
  BY DEF IInv
<1>1. w \in Nat /\ v \in Nat
  BY TimerAssumption
<1> DEFINE f == [op |-> "add", id |-> <<a, numCreated + 1>>]
<1>2. /\ heap' = [heap EXCEPT ![a] = [sequence |-> numCreated + 1, expiration |-> w, interval |-> v]]
      /\ heap[a].sequence = 0 /\ numCreated' = numCreated + 1 /\ numCreated \in Nat
      /\ heap \in [Addrs -> Timer]
  BY <1>0 DEF AddTimerFrom, NewTimer, NoTimer, TypeOK
<1>3. heap' \in [Addrs -> Timer] /\ heap'[a].sequence = numCreated + 1
      /\ \A b \in Addrs \ {a} : heap'[b] = heap[b]
  BY <1>1, <1>2 DEF Timer
<1>4. /\ f \in Functor /\ f.op = "add" /\ f.id[1] = a /\ f.id[2] = numCreated + 1
      /\ <<a, numCreated + 1>> \in Id /\ <<a, numCreated + 1>> # <<>>
      /\ functors' = Append(functors, f)
  BY <1>2 DEF Functor, Id, AddTimerFrom
<1> HIDE DEF f
<1>5. /\ functors' \in Seq(Functor) /\ Len(functors') = Len(functors) + 1
      /\ \A i \in 1 .. Len(functors) : functors'[i] = functors[i]
      /\ functors'[Len(functors) + 1] = f
      /\ QueuedAdds' = QueuedAdds \cup {a}
  BY <1>0, <1>4, AppendFunctor, ZenonT(60) DEF TypeOK
<1>6. HeapOK'
  BY <1>0, <1>1, <1>5, NewQueued, ZenonT(60) DEF AddTimerFrom, setVars, readVars
<1>7. QueueOK'
  <2>1. a \notin QueuedAdds
    BY <1>0, <1>2, NotOwned, Zenon
  <2>2. \A b \in QueuedAdds : heap'[b].sequence = heap[b].sequence
    BY <1>0, <1>3, <2>1, QueuedTypes, ZenonT(60)
  <2> QED
    BY <1>0, <1>3, <1>4, <2>1, <2>2, QueueAppended
<1>8. TypeOK'
  <2>1. call' \in [Threads -> Id \cup {<<>>}]
    BY <1>0, <1>4, Zenon DEF AddTimerFrom, TypeOK
  <2> QED
    BY <1>0, <1>2, <1>3, <1>5, <2>1
       DEF TypeOK, AddTimerFrom, setVars, readVars, clockVars
<1>9. SequencesOK'
  <2>1. /\ \A id \in ids \cup cancelled : id[2] <= numCreated'
        /\ \A i \in 1 .. Len(functors) : functors[i].id[2] <= numCreated'
        /\ \A u \in Threads : call[u] # <<>> => call[u][2] <= numCreated'
    <3>1. numCreated' \in Nat /\ numCreated <= numCreated'
      <4>1. numCreated' = numCreated + 1 /\ numCreated \in Nat
        BY <1>2, Zenon
      <4> QED
        BY <4>1, NextSequence, Zenon
    <3> QED
      BY <1>0, <3>1, SequencesLater, Zenon
  <2>2. \A i \in 1 .. Len(functors') : functors'[i].id[2] <= numCreated'
    <3>1. \A i \in 1 .. Len(functors') : i \in 1 .. Len(functors) \/ i = Len(functors) + 1
      BY <1>0, <1>5 DEF TypeOK
    <3>2. numCreated' = numCreated + 1 /\ numCreated \in Nat
      BY <1>2, Zenon
    <3>3. f.id[2] <= numCreated'
      BY <1>4, <3>2, NextSequence, Zenon
    <3> QED
      BY <1>5, <2>1, <3>1, <3>3, Zenon
  <2>3. \A u \in Threads : call'[u] = IF u = t THEN <<a, numCreated + 1>> ELSE call[u]
    BY <1>0 DEF AddTimerFrom, TypeOK
  <2>4. UNCHANGED <<ids, cancelled>>
    BY DEF AddTimerFrom
  <2> QED
    BY <1>2, <2>1, <2>2, <2>3, <2>4 DEF SequencesOK
<1>10. ReadOK' /\ ArmedOK'
  BY <1>0, ArmedFrame DEF ReadOK, AddTimerFrom, readVars, setVars, clockVars
<1> QED
  BY <1>6, <1>7, <1>8, <1>9, <1>10 DEF IInv

(* cancelInLoop, called by cancel or by a functor. *)
LEMMA CancelTypes ==
  ASSUME TypeOK, HeapOK, ReadOK, ArmedOK, NEW id \in Id, CancelInLoop(id), QueuedAdds' = QueuedAdds,
         UNCHANGED <<numCreated, readVars, clockVars, userVars, now, clockSet>>,
         functors' \in Seq(Functor)
  PROVE  /\ TypeOK' /\ HeapOK' /\ ReadOK' /\ ArmedOK'
         /\ \A b \in QueuedAdds : heap'[b].sequence = heap[b].sequence
<1>1. /\ HeapOK' /\ timers_' \subseteq timers_ /\ activeTimers_' = activeTimers_ \ {id}
      /\ \A b \in Addrs : heap'[b] = heap[b] \/ (b = id[1] /\ id \in activeTimers_)
      /\ heap' \in [Addrs -> Timer]
  BY CancelHeap DEF readVars
<1>2. cancelingTimers_' \subseteq Id /\ cancelled' \subseteq Id
  BY DEF CancelInLoop, TypeOK
<1>3. TypeOK'
  BY <1>1, <1>2 DEF TypeOK, readVars, clockVars, userVars
<1>4. ReadOK' /\ ArmedOK'
  BY <1>1, RemoveKeepsArmed DEF ReadOK, readVars, clockVars
<1>5. ASSUME NEW b \in QueuedAdds PROVE heap'[b] = heap[b]
  <2>1. b \in Addrs /\ ~InTimers(b)
    BY QueuedTypes DEF HeapOK, IsQueued
  <2>2. \A s \in Nat : <<b, s>> \notin activeTimers_
    BY <2>1 DEF HeapOK
  <2>3. id = <<id[1], id[2]>> /\ id[2] \in Nat
    BY DEF Id
  <2> QED
    BY <1>1, <2>1, <2>2, <2>3
<1> QED
  BY <1>1, <1>3, <1>4, <1>5

LEMMA CancelStep ==
  ASSUME IInv, NEW id \in ids, Cancel(id)
  PROVE  IInv'
<1>0. TypeOK /\ ReadOK /\ HeapOK /\ QueueOK /\ SequencesOK /\ ArmedOK /\ id \in Id
  BY DEF IInv, TypeOK
<1>1. CancelInLoop(id) /\ UNCHANGED <<numCreated, readVars, clockVars, functors, userVars, now, clockSet>>
  BY DEF Cancel
<1>2. QueuedAdds' = QueuedAdds /\ functors' \in Seq(Functor)
  BY <1>0, <1>1, Zenon DEF QueuedAdds, TypeOK
<1>3. /\ TypeOK' /\ HeapOK' /\ ReadOK' /\ ArmedOK'
      /\ \A b \in QueuedAdds : heap'[b].sequence = heap[b].sequence
  BY <1>0, <1>1, <1>2, CancelTypes, Zenon
<1>4. QueueOK'
  BY <1>0, <1>1, <1>3, QueueKept, ZenonT(60)
<1>5. SequencesOK'
  BY <1>0, <1>1, ZenonT(60) DEF SequencesOK, CancelInLoop, userVars
<1> QED
  BY <1>3, <1>4, <1>5 DEF IInv

LEMMA AddTimerReturnsStep ==
  ASSUME IInv, NEW t \in Threads, AddTimerReturns(t)
  PROVE  IInv'
<1>0. TypeOK /\ ReadOK /\ HeapOK /\ QueueOK /\ SequencesOK /\ ArmedOK
  BY DEF IInv
<1>1. call[t] \in Id /\ call[t][1] \in Addrs /\ call[t][2] \in Nat /\ call[t][2] <= numCreated
  BY <1>0 DEF AddTimerReturns, TypeOK, Id, SequencesOK
<1>2. PICK s \in SequenceRead(call[t]) : ids' = ids \cup {<<call[t][1], s>>}
  BY DEF AddTimerReturns
<1>3. s \in Nat /\ s <= numCreated
  BY <1>0, <1>1 DEF SequenceRead, TypeOK, HeapOK, Timer
<1>4. <<call[t][1], s>> \in Id
  BY <1>1, <1>3 DEF Id
<1>5. call' \in [Threads -> Id \cup {<<>>}]
      /\ \A u \in Threads : call'[u] = call[u] \/ call'[u] = <<>>
  BY <1>0, Zenon DEF AddTimerReturns, TypeOK
<1>6. TypeOK'
  BY <1>0, <1>2, <1>4, <1>5, ZenonT(60)
     DEF TypeOK, AddTimerReturns, setVars, readVars, clockVars
<1>7. SequencesOK'
  BY <1>0, <1>2, <1>3, <1>5 DEF SequencesOK, AddTimerReturns
<1>8. HeapOK' /\ QueueOK' /\ ReadOK' /\ ArmedOK'
  BY <1>0, HeapFrame, ArmedFrame DEF ReadOK, AddTimerReturns, setVars, readVars, clockVars
<1> QED
  BY <1>6, <1>7, <1>8 DEF IInv

LEMMA CancelFromStep ==
  ASSUME IInv, NEW t \in Threads, NEW id \in ids, CancelFrom(t, id)
  PROVE  IInv'
<1>0. TypeOK /\ ReadOK /\ HeapOK /\ QueueOK /\ SequencesOK /\ ArmedOK /\ id \in Id
  BY DEF IInv, TypeOK
<1> DEFINE f == [op |-> "cancel", id |-> id]
<1>1. f \in Functor /\ f.op = "cancel" /\ f.id = id /\ functors' = Append(functors, f)
  BY <1>0, ZenonT(60) DEF Functor, CancelFrom
<1> HIDE DEF f
<1>2. /\ functors' \in Seq(Functor) /\ Len(functors') = Len(functors) + 1
      /\ \A i \in 1 .. Len(functors) : functors'[i] = functors[i]
      /\ functors'[Len(functors) + 1] = f
      /\ QueuedAdds' = QueuedAdds
  BY <1>0, <1>1, AppendFunctor, ZenonT(60) DEF TypeOK
<1>3. UNCHANGED <<heap, numCreated, timers_, activeTimers_, expired, call, ids, cancelled>>
  BY Zenon DEF CancelFrom, setVars, readVars, userVars
<1>4. TypeOK'
  BY <1>0, <1>2, Zenon DEF TypeOK, CancelFrom, setVars, readVars, clockVars, userVars
<1>5. HeapOK'
  BY <1>0, <1>2, <1>3, ZenonT(60) DEF HeapOK, InTimers, InExpired, IsQueued
<1>6. QueueOK'
  BY <1>0, <1>1, <1>3, QueueAppended, ZenonT(60)
<1>7. SequencesOK'
  <2>1. \A i \in 1 .. Len(functors') : i \in 1 .. Len(functors) \/ i = Len(functors) + 1
    BY <1>0, <1>2 DEF TypeOK
  <2> QED
    BY <1>0, <1>1, <1>2, <1>3, <2>1, ZenonT(60) DEF SequencesOK
<1>8. ReadOK' /\ ArmedOK'
  BY <1>0, ArmedFrame, Zenon DEF ReadOK, CancelFrom, readVars, setVars, clockVars
<1> QED
  BY <1>4, <1>5, <1>6, <1>7, <1>8 DEF IInv

LEMMA RunFunctorStep ==
  ASSUME IInv, RunFunctor
  PROVE  IInv'
<1>0. TypeOK /\ ReadOK /\ HeapOK /\ QueueOK /\ SequencesOK /\ ArmedOK
  BY DEF IInv
<1> DEFINE f == Head(functors)
<1>1. /\ functors # <<>> /\ functors' = Tail(functors)
      /\ UNCHANGED <<numCreated, readVars, userVars, now, clockSet>>
  BY DEF RunFunctor
<1>2. /\ functors' \in Seq(Functor)
      /\ f = functors[1] /\ f \in Functor
      /\ Len(functors') = Len(functors) - 1 /\ Len(functors) \in Nat \ {0}
      /\ \A i \in 1 .. Len(functors) - 1 :
           i + 1 \in 1 .. Len(functors) /\ functors'[i] = functors[i + 1]
      /\ QueuedAdds' = IF f.op = "add" THEN QueuedAdds \ {f.id[1]} ELSE QueuedAdds
  BY <1>0, <1>1, TailFunctor, ZenonT(60) DEF TypeOK
<1>3. f.id \in Id /\ f.id[1] \in Addrs /\ f.id[2] <= numCreated /\ 1 \in 1 .. Len(functors)
  BY <1>0, <1>2 DEF Functor, Id, SequencesOK
<1>4. \/ f.op = "add" /\ AddTimerInLoop(f.id[1], heap[f.id[1]]) /\ UNCHANGED <<heap, cancelled>>
      \/ f.op = "cancel" /\ CancelInLoop(f.id) /\ UNCHANGED clockVars
  BY DEF RunFunctor
<1> HIDE DEF f
<1>5. \A i \in 1 .. Len(functors') : functors'[i].id[2] <= numCreated
  BY <1>0, <1>2 DEF SequencesOK
<1>6. CASE f.op = "add" /\ AddTimerInLoop(f.id[1], heap[f.id[1]]) /\ UNCHANGED <<heap, cancelled>>
  <2> DEFINE a == f.id[1]
  <2>1. a \in QueuedAdds /\ a \in Addrs /\ heap[a] \in Timer
    BY <1>0, <1>2, <1>3, <1>6, QueuedBy, Zenon DEF TypeOK
  <2>2. /\ timers_' = timers_ \cup {<<heap[a].expiration, a>>}
        /\ activeTimers_' = activeTimers_ \cup {<<a, heap[a].sequence>>}
        /\ UNCHANGED cancelingTimers_
    BY <1>6, Zenon DEF AddTimerInLoop
  <2>3. HeapOK'
    BY <1>0, <1>1, <1>2, <1>6, <2>1, <2>2, QueuedInserted, Zenon DEF readVars
  <2>4. QueueOK'
    BY <1>0, <1>1, <1>6, QueueShortened
  <2>5. ArmedOK' /\ armed' \in Nat /\ readable' \in BOOLEAN
    BY <1>0, <1>1, <1>6, <2>1, InsertArms, Zenon DEF readVars
  <2>6. TypeOK'
    <3>1. <<heap[a].expiration, a>> \in Nat \X Addrs /\ <<a, heap[a].sequence>> \in Id
      BY <2>1 DEF Timer, Id
    <3>2. timers_' \subseteq Nat \X Addrs /\ activeTimers_' \subseteq Id
      BY <1>0, <2>2, <3>1, Zenon DEF TypeOK
    <3> QED
      BY <1>0, <1>1, <1>2, <1>6, <2>2, <2>5, <3>2, ZenonT(60) DEF TypeOK, readVars, userVars
  <2>7. SequencesOK' /\ ReadOK'
    BY <1>0, <1>1, <1>5, <1>6 DEF SequencesOK, ReadOK, readVars, userVars
  <2> QED
    BY <2>3, <2>4, <2>5, <2>6, <2>7, Zenon DEF IInv
<1>7. CASE f.op = "cancel" /\ CancelInLoop(f.id) /\ UNCHANGED clockVars
  <2>1. QueuedAdds' = QueuedAdds
    BY <1>2, <1>7, Zenon
  <2>2. /\ TypeOK' /\ HeapOK' /\ ReadOK' /\ ArmedOK'
        /\ \A b \in QueuedAdds : heap'[b].sequence = heap[b].sequence
    BY <1>0, <1>1, <1>2, <1>3, <1>7, <2>1, CancelTypes
  <2>3. QueueOK'
    BY <1>0, <1>1, <2>2, QueueShortened, Zenon
  <2>4. SequencesOK'
    BY <1>0, <1>1, <1>3, <1>5, <1>7, Zenon DEF SequencesOK, CancelInLoop, userVars
  <2> QED
    BY <2>2, <2>3, <2>4 DEF IInv
<1> QED
  BY <1>4, <1>6, <1>7, Zenon

LEMMA HandleReadStep ==
  ASSUME IInv, HandleRead
  PROVE  IInv'
<1>0. TypeOK /\ ReadOK /\ HeapOK /\ QueueOK /\ SequencesOK /\ ArmedOK
  BY DEF IInv
<1>1. HeapOK'
  BY <1>0, ExpiredMoved
<1>2. GetExpired \subseteq timers_
  BY DEF GetExpired
<1>3. TypeOK'
  <2>1. /\ timers_' \subseteq Nat \X Addrs /\ expired' \subseteq Nat \X Addrs
        /\ activeTimers_' \subseteq Id /\ cancelingTimers_' \subseteq Id
    BY <1>0, <1>2 DEF HandleRead, TypeOK
  <2>2. callingExpiredTimers_' \in BOOLEAN /\ readable' \in BOOLEAN /\ polled' \in BOOLEAN
    BY Zenon DEF HandleRead
  <2> QED
    BY <1>0, <2>1, <2>2 DEF HandleRead, TypeOK, userVars
<1>4. ReadOK'
  BY <1>0 DEF HandleRead, ReadOK, TypeOK
<1>5. QueueOK' /\ SequencesOK'
  BY <1>0, Zenon DEF HandleRead, QueueOK, SequencesOK, userVars
<1>6. ArmedOK'
  <2>1. ASSUME timers_' # {} PROVE Earliest(timers_') # 0
    <3>1. PICK e \in timers_' : e[1] = Earliest(timers_')
      BY <1>3, <2>1, EarliestOf DEF TypeOK
    <3>2. e \in timers_ /\ ~(e[1] <= now) /\ e[1] \in Nat /\ now \in Nat
      BY <1>0 DEF HandleRead, GetExpired, TypeOK
    <3> QED
      BY <3>1, <3>2
  <2>2. pc' # "idle"
    BY DEF HandleRead
  <2> QED
    BY <2>1, <2>2 DEF ArmedOK
<1> QED
  BY <1>1, <1>3, <1>4, <1>5, <1>6 DEF IInv

(* reset() sets the timerfd for the earliest timer; it does not when that is   *)
(* one with an invalid time, for which the timerfd is set already.             *)
LEMMA ResetArms ==
  ASSUME TypeOK, ReadOK, HeapOK, ArmedOK, Reset
  PROVE  ArmedOK' /\ armed' \in Nat /\ readable' \in BOOLEAN
<1>1. /\ now \in Nat /\ MinDelay \in Nat \ {0} /\ timers_ \subseteq Nat \X Addrs
      /\ timers_' \subseteq Nat \X Addrs
      /\ UNCHANGED <<now, clockSet>> /\ pc = "handleRead" /\ handleNow \in Nat \ {0}
  BY TimerAssumption, ResetTypes, Zenon DEF TypeOK, Reset, ReadOK
<1>2. CASE timers_' # {} /\ Earliest(timers_') > 0
  <2>1. armed' = MaxOf(Earliest(timers_') - now, MinDelay) /\ readable' = FALSE
    BY <1>2, Zenon DEF Reset, ResetTimerfd, HowMuchTimeFromNow
  <2>2. Earliest(timers_') - now \in Int
    BY <1>1, <1>2, EarliestOf
  <2>3. armed' \in Nat \ {0}
    BY <1>1, <2>1, <2>2, Maximum
  <2>4. readable' \in BOOLEAN
    BY <2>1, Zenon
  <2> QED
    BY <1>1, <2>1, <2>3, <2>4 DEF ArmedOK
<1>3. CASE ~(timers_' # {} /\ Earliest(timers_') > 0)
  <2>1. UNCHANGED <<armed, readable>>
    BY <1>3, Zenon DEF Reset, clockVars
  <2>2. ASSUME timers_' # {}
        PROVE  timers_ # {} /\ Earliest(timers_) = 0 /\ Earliest(timers_') = 0
    <3>1. Earliest(timers_') = 0
      BY <1>1, <1>3, <2>2, EarliestOf
    <3>2. PICK e \in timers_' : e[1] = 0
      BY <1>1, <2>2, <3>1, EarliestOf
    <3>3. e = <<0, e[2]>> /\ e[2] \in Addrs
      BY <1>1, <3>2
    <3> DEFINE b == e[2]
    <3>4. heap[b] \in Timer
      BY <3>3 DEF TypeOK
    <3>5. ASSUME IsRestarted(b) PROVE heap'[b].expiration # 0
      <4>1. heap'[b] = [heap[b] EXCEPT !.expiration = handleNow + heap[b].interval]
        BY <3>3, <3>5, ResetMeans
      <4>2. heap'[b].expiration = handleNow + heap[b].interval /\ heap[b].interval \in Nat
        BY <3>4, <4>1 DEF Timer
      <4> QED
        BY <1>1, <4>2
    <3>6. <<0, b>> \in timers_
      <4>1. <<0, b>> \in timers_'
              <=> <<0, b>> \in timers_ \/ (IsRestarted(b) /\ 0 = heap'[b].expiration)
        BY <3>3, ResetMeans, Zenon
      <4> QED
        BY <3>2, <3>3, <3>5, <4>1
    <3>7. Earliest(timers_) <= 0 /\ Earliest(timers_) \in Nat
      <4>1. \A x \in timers_ : Earliest(timers_) <= x[1]
        BY <1>1, <3>6, EarliestOf
      <4>2. Earliest(timers_) \in Nat
        BY <1>1, <3>6, EarliestOf
      <4> QED
        BY <3>6, <4>1, <4>2
    <3> QED
      BY <3>1, <3>6, <3>7
  <2>3. ArmedOK'
    BY <1>1, <2>1, <2>2 DEF ArmedOK
  <2> QED
    BY <2>1, <2>3 DEF TypeOK
<1> QED
  BY <1>2, <1>3, Zenon

LEMMA ResetStep ==
  ASSUME IInv, Reset
  PROVE  IInv'
<1>0. TypeOK /\ ReadOK /\ HeapOK /\ QueueOK /\ SequencesOK /\ ArmedOK
  BY DEF IInv
<1>1. HeapOK' /\ ArmedOK' /\ armed' \in Nat /\ readable' \in BOOLEAN
  BY <1>0, ResetHeap, ResetArms
<1>2. TypeOK'
  <2>1. callingExpiredTimers_' \in BOOLEAN
    BY Zenon DEF Reset
  <2>2. /\ heap' \in [Addrs -> Timer] /\ timers_' \subseteq Nat \X Addrs
        /\ activeTimers_' \subseteq Id
    BY <1>0, ResetTypes
  <2>3. /\ expired' = {} /\ handleNow' = 0 /\ pc' = "idle"
        /\ UNCHANGED <<numCreated, cancelingTimers_, polled, functors, call, ids, now, clockSet, cancelled>>
    BY ZenonT(60) DEF Reset, userVars
  <2> QED
    BY <1>0, <1>1, <2>1, <2>2, <2>3 DEF TypeOK
<1>3. ReadOK' /\ SequencesOK'
  BY <1>0, Zenon DEF Reset, ReadOK, SequencesOK, userVars
<1>4. QueueOK'
  <2>1. ASSUME NEW b \in QueuedAdds PROVE heap'[b] = heap[b]
    BY <1>0, ResetMeans, QueuedTypes, Zenon DEF HeapOK, IsQueued
  <2> QED
    BY <1>0, <2>1, QueueKept, Zenon DEF Reset
<1> QED
  BY <1>1, <1>2, <1>3, <1>4 DEF IInv

LEMMA TickStep ==
  ASSUME IInv, Tick
  PROVE  IInv'
<1>0. TypeOK /\ ReadOK /\ HeapOK /\ QueueOK /\ SequencesOK /\ ArmedOK
  BY DEF IInv
<1>1. /\ UNCHANGED <<heap, numCreated, setVars, readVars, functors, userVars, clockSet, cancelled>>
      /\ armed \in Nat /\ readable \in BOOLEAN /\ now \in Nat \ {0} /\ MaxNow \in Nat
      /\ MinDelay \in Nat \ {0}
  BY <1>0, TimerAssumption DEF Tick, TypeOK
<1>2. /\ armed' = IF armed > 0 THEN armed - 1 ELSE 0
      /\ now' = IF now < MaxNow THEN now + 1 ELSE now
      /\ readable' = (readable \/ armed = 1)
  BY DEF Tick
<1>3. armed' \in Nat /\ now' \in Nat \ {0}
  BY <1>1, <1>2
<1>4. readable' \in BOOLEAN
  BY <1>2
<1>5. TypeOK'
  BY <1>0, <1>1, <1>3, <1>4 DEF TypeOK, setVars, readVars, userVars
<1>6. HeapOK' /\ QueueOK' /\ SequencesOK' /\ ReadOK'
  BY <1>0, <1>1, HeapFrame, SequencesFrame DEF ReadOK, setVars, readVars, userVars
<1>7. ArmedOK'
  <2> SUFFICES ASSUME timers_ # {}, pc = "idle" \/ Earliest(timers_) = 0, ~readable'
               PROVE  armed' > 0 /\ (~clockSet => armed' <= MaxOf(Earliest(timers_) - now', MinDelay))
    BY <1>1 DEF ArmedOK, setVars, readVars
  <2>1. ~readable /\ armed # 1
    BY <1>2, Zenon
  <2>2. armed > 0 /\ (~clockSet => armed <= MaxOf(Earliest(timers_) - now, MinDelay))
    BY <1>0, <2>1 DEF ArmedOK
  <2>3. armed' = armed - 1 /\ armed' > 0
    BY <1>1, <1>2, <2>1, <2>2
  <2>4. Earliest(timers_) \in Nat
    BY <1>0, EarliestOf DEF TypeOK
  <2> DEFINE w == Earliest(timers_)
  <2> HIDE DEF w
  <2>5. w \in Nat /\ (now' = now \/ now' = now + 1)
    BY <1>2, <2>4 DEF w
  <2>6. armed <= MaxOf(w - now, MinDelay) => armed - 1 <= MaxOf(w - now', MinDelay)
    <3>1. w - now \in Int /\ (w - now' = w - now \/ w - now' = (w - now) - 1)
      BY <1>1, <2>5
    <3> QED
      BY <1>1, <3>1, MaximumLater
  <2> QED
    BY <2>2, <2>3, <2>6 DEF w
<1> QED
  BY <1>5, <1>6, <1>7 DEF IInv

(* Setting the clock does not disarm the timerfd. *)
LEMMA SetClockStep ==
  ASSUME IInv, NEW time \in ClockSteps, SetClock(time)
  PROVE  IInv'
<1>0. TypeOK /\ ReadOK /\ HeapOK /\ QueueOK /\ SequencesOK /\ ArmedOK
  BY DEF IInv
<1>1. /\ UNCHANGED <<heap, numCreated, setVars, readVars, clockVars, functors, userVars, cancelled>>
      /\ clockSet' = TRUE /\ now' \in Nat \ {0}
  BY TimerAssumption DEF SetClock
<1>2. clockSet' \in BOOLEAN
  BY <1>1
<1>3. TypeOK'
  BY <1>0, <1>1, <1>2 DEF TypeOK, setVars, readVars, clockVars, userVars
<1>4. HeapOK' /\ QueueOK' /\ SequencesOK' /\ ReadOK'
  BY <1>0, <1>1, HeapFrame, SequencesFrame DEF ReadOK, setVars, readVars, userVars
<1>5. ArmedOK'
  BY <1>0, <1>1 DEF ArmedOK, setVars, readVars, clockVars
<1> QED
  BY <1>3, <1>4, <1>5 DEF IInv

(* Poll, the steps to and from a callback, and stuttering. *)
LEMMA OtherStep ==
  ASSUME IInv, Poll \/ RunTimer \/ CallbackReturns \/ UNCHANGED vars
  PROVE  IInv'
<1>0. TypeOK /\ ReadOK /\ HeapOK /\ QueueOK /\ SequencesOK /\ ArmedOK
  BY DEF IInv
<1>1. /\ UNCHANGED <<heap, numCreated, timers_, activeTimers_, cancelingTimers_, callingExpiredTimers_,
                     expired, handleNow, armed, readable, functors, call, ids, now, clockSet, cancelled>>
      /\ polled' = polled \/ polled' = TRUE
      /\ pc' = pc \/ (pc # "idle" /\ pc' \in {"handleRead", "callback"})
  BY DEF Poll, RunTimer, CallbackReturns, vars, setVars, readVars, clockVars, userVars
<1>2. polled' \in BOOLEAN
  BY <1>0, <1>1, Zenon DEF TypeOK
<1>3. TypeOK'
  BY <1>0, <1>1, <1>2 DEF TypeOK
<1>4. HeapOK' /\ QueueOK' /\ SequencesOK'
  BY <1>0, <1>1, HeapFrame, SequencesFrame
<1>5. ReadOK' /\ ArmedOK'
  BY <1>0, <1>1 DEF ReadOK, ArmedOK
<1> QED
  BY <1>3, <1>4, <1>5 DEF IInv

LEMMA IInvStep == IInv /\ [Next]_vars => IInv'
<1> SUFFICES ASSUME IInv, [Next]_vars PROVE IInv'
  OBVIOUS
<1>1. CASE \E a \in Addrs, w \in Whens, v \in Intervals :
             AddTimer(a, w, v) \/ \E t \in Threads : AddTimerFrom(t, a, w, v)
  BY <1>1, AddTimerStep, AddTimerFromStep
<1>2. CASE \E id \in ids : Cancel(id) \/ \E t \in Threads : CancelFrom(t, id)
  BY <1>2, CancelStep, CancelFromStep
<1>3. CASE \E t \in Threads : AddTimerReturns(t)
  BY <1>3, AddTimerReturnsStep
<1>4. CASE LoopStep
  BY <1>4, RunFunctorStep, HandleReadStep, ResetStep, OtherStep DEF LoopStep
<1>5. CASE Tick
  BY <1>5, TickStep
<1>6. CASE \E time \in ClockSteps : SetClock(time)
  BY <1>6, SetClockStep
<1>7. CASE UNCHANGED vars
  BY <1>7, OtherStep
<1> QED
  BY <1>1, <1>2, <1>3, <1>4, <1>5, <1>6, <1>7 DEF Next

-----------------------------------------------------------------------------
(* The inductive invariant holds in every state of every behaviour. *)
THEOREM Invariance == Spec => []IInv
  BY InitHolds, IInvStep, PTL DEF Spec

(* addTimerInLoop, cancelInLoop, handleRead and reset leave every Timer with   *)
(* one owner: TimerQueue leaks no Timer and uses none that it deleted, and its *)
(* size assertions hold.                                                       *)
THEOREM TimersOwnedOnce == Spec => []OwnedOnce
<1>1. IInv => OwnedOnce
  <2> SUFFICES ASSUME TypeOK, HeapOK PROVE OwnedOnce
    BY DEF IInv
  <2>1. \A e \in timers_ \cup expired :
          e = <<heap[e[2]].expiration, e[2]>> /\ e[2] \in Addrs
    BY DEF TypeOK, HeapOK
  <2>2. \A a \in Addrs : heap[a].sequence \in Nat
    BY DEF TypeOK, Timer
  <2>3. ASSUME NEW id \in activeTimers_ PROVE id \in {ActiveTimer(e) : e \in timers_}
    <3>1. id = <<id[1], id[2]>> /\ id[1] \in Addrs /\ id[2] \in Nat
      BY DEF TypeOK, Id
    <3>2. id[2] = heap[id[1]].sequence /\ <<heap[id[1]].expiration, id[1]>> \in timers_
      BY <3>1 DEF HeapOK, InTimers
    <3>3. ActiveTimer(<<heap[id[1]].expiration, id[1]>>) = id
      BY <3>1, <3>2, Zenon DEF ActiveTimer, AddrOf
    <3> QED
      BY <3>2, <3>3
  <2>4. ASSUME NEW e \in timers_ PROVE ActiveTimer(e) \in activeTimers_
    BY <2>1, <2>2 DEF HeapOK, InTimers, ActiveTimer, AddrOf
  <2>5. \A a \in Addrs : /\ a \in AddrsOf(timers_) <=> InTimers(a)
                         /\ a \in AddrsOf(expired) <=> InExpired(a)
    <3> SUFFICES ASSUME NEW a \in Addrs
                 PROVE  /\ a \in AddrsOf(timers_) <=> InTimers(a)
                        /\ a \in AddrsOf(expired) <=> InExpired(a)
      OBVIOUS
    <3>1. a \in AddrsOf(timers_) => InTimers(a)
      BY <2>1 DEF AddrsOf, AddrOf, InTimers
    <3>2. a \in AddrsOf(expired) => InExpired(a)
      BY <2>1 DEF AddrsOf, AddrOf, InExpired
    <3>3. InTimers(a) => a \in AddrsOf(timers_)
      <4>1. a = AddrOf(<<heap[a].expiration, a>>)
        BY DEF AddrOf
      <4> QED
        BY <4>1 DEF AddrsOf, InTimers
    <3>4. InExpired(a) => a \in AddrsOf(expired)
      <4>1. a = AddrOf(<<heap[a].expiration, a>>)
        BY DEF AddrOf
      <4> QED
        BY <4>1 DEF AddrsOf, InExpired
    <3> QED
      BY <3>1, <3>2, <3>3, <3>4
  <2>6. /\ AddrsOf(timers_) \subseteq Addrs /\ AddrsOf(expired) \subseteq Addrs
        /\ QueuedAdds \subseteq Addrs
    BY <2>1, QueuedTypes, Zenon DEF AddrsOf, AddrOf
  <2>7. \A a \in Addrs : heap[a] # NoTimer <=> heap[a].sequence # 0
    BY DEF HeapOK, NoTimer
  <2>8. \A a \in Addrs : heap[a] # NoTimer
                           <=> a \in AddrsOf(timers_) \cup AddrsOf(expired) \cup QueuedAdds
    BY <2>5, <2>7, Zenon DEF HeapOK, IsQueued
  <2>9. /\ AddrsOf(timers_) \cap AddrsOf(expired) = {}
        /\ QueuedAdds \cap (AddrsOf(timers_) \cup AddrsOf(expired)) = {}
    BY <2>5, <2>6, Zenon DEF HeapOK, IsQueued
  <2>10. activeTimers_ = {ActiveTimer(e) : e \in timers_}
    BY <2>3, <2>4
  <2>11. {a \in Addrs : heap[a] # NoTimer}
           = AddrsOf(timers_) \cup AddrsOf(expired) \cup QueuedAdds
    BY <2>6, <2>8, Zenon
  <2>12. \A e \in timers_ : heap[AddrOf(e)].expiration = e[1]
    BY Zenon DEF HeapOK, AddrOf
  <2> QED
    BY <2>9, <2>10, <2>11, <2>12 DEF OwnedOnce
<1> QED
  BY <1>1, Invariance, PTL

(* resetTimerfd is called often enough: outside handleRead the timerfd is      *)
(* armed, or about to be read, whenever there is a timer, and early enough for *)
(* the earliest one as long as the wall clock is not set.                      *)
THEOREM TimerfdIsArmed == Spec => []TimerfdArmed
<1>1. IInv => TimerfdArmed
  BY DEF IInv, ArmedOK, TimerfdArmed
<1> QED
  BY <1>1, Invariance, PTL

(* cancelInLoop looks the whole TimerId up: a timer leaves activeTimers_       *)
(* because getExpired found it due or because its own TimerId was cancelled,   *)
(* however often its address was used before.                                  *)
THEOREM CancelConcernsItsOwn == Spec => OnlyOwnCancel
<1> DEFINE Own == \A id \in activeTimers_ \ activeTimers_' :
                    id \in cancelled' \/ heap[id[1]].expiration <= now
<1>1. ASSUME IInv, [Next]_vars PROVE [Own]_vars
  <2>0. TypeOK /\ HeapOK /\ ReadOK /\ QueueOK
    BY <1>1 DEF IInv
  <2>1. ASSUME NEW id \in Id, CancelInLoop(id) PROVE Own
    <3>1. CASE Found(id)
      <4>1. id = <<id[1], id[2]>> /\ id[1] \in Addrs /\ id[2] \in Nat
        BY DEF Id
      <4>2. id[2] = heap[id[1]].sequence
        BY <2>0, <3>1, <4>1 DEF Found, HeapOK
      <4>3. activeTimers_' = activeTimers_ \ {id}
        BY <2>1, <3>1, <4>1, <4>2 DEF CancelInLoop
      <4> QED
        BY <2>1, <4>3 DEF CancelInLoop
    <3> QED
      BY <2>1, <3>1 DEF CancelInLoop
  <2>2. CASE \E id \in ids : Cancel(id)
    BY <2>0, <2>1, <2>2, ZenonT(60) DEF Cancel, TypeOK
  <2>3. CASE RunFunctor
    <3>1. Head(functors) \in Functor
      BY <2>0, <2>3, TailFunctor, Zenon DEF RunFunctor, TypeOK
    <3>2. Head(functors).id \in Id
      BY <3>1 DEF Functor
    <3> QED
      BY <2>1, <2>3, <3>2, Zenon DEF RunFunctor, AddTimerInLoop
  <2>4. CASE HandleRead
    <3>1. ASSUME NEW id \in activeTimers_ \ activeTimers_' PROVE heap[id[1]].expiration <= now
      <4>1. PICK e \in GetExpired : id = ActiveTimer(e)
        BY <2>4, <3>1 DEF HandleRead
      <4>2. id[1] = e[2] /\ e \in timers_ /\ e[1] <= now
        BY <4>1, Zenon DEF ActiveTimer, AddrOf, GetExpired
      <4> QED
        BY <2>0, <4>2 DEF HeapOK
    <3> QED
      BY <3>1, Zenon
  <2>5. CASE \E a \in Addrs, w \in Whens, v \in Intervals :
               AddTimer(a, w, v) \/ \E t \in Threads : AddTimerFrom(t, a, w, v)
    BY <2>5, ZenonT(60) DEF AddTimer, AddTimerInLoop, AddTimerFrom, setVars
  <2>6. CASE \/ \E id \in ids, t \in Threads : CancelFrom(t, id)
             \/ \E t \in Threads : AddTimerReturns(t)
             \/ Poll \/ RunTimer \/ CallbackReturns \/ Reset \/ Tick
             \/ \E time \in ClockSteps : SetClock(time)
    BY <2>6, Zenon
       DEF CancelFrom, AddTimerReturns, Poll, RunTimer, CallbackReturns, Reset, Tick,
                SetClock, setVars
  <2>7. CASE UNCHANGED vars
    BY <2>7
  <2> QED
    BY <1>1, <2>2, <2>3, <2>4, <2>5, <2>6, <2>7, Zenon DEF Next, LoopStep
<1> QED
  BY <1>1, Invariance, PTL DEF Spec, OnlyOwnCancel

-----------------------------------------------------------------------------
(* Cancelled timers.                                                         *)

(* A Timer in the vector of handleRead is not in timers_, and handleRead runs. *)
LEMMA ExpiredApart ==
  ASSUME TypeOK, ReadOK, HeapOK, NEW e \in expired
  PROVE  /\ e[2] \in Addrs /\ heap[e[2]].sequence # 0 /\ callingExpiredTimers_
         /\ \A s \in Nat : <<e[2], s>> \notin activeTimers_
<1>1. e = <<e[1], e[2]>> /\ e[2] \in Addrs /\ heap[e[2]].expiration = e[1]
  BY DEF TypeOK, HeapOK
<1>2. InExpired(e[2])
  BY <1>1, Zenon DEF InExpired
<1> QED
  BY <1>1, <1>2 DEF HeapOK, ReadOK

LEMMA AddTimerCancels ==
  ASSUME IInv, CancelOK, NEW a \in Addrs, NEW w, NEW v,
         NewTimer(a, w, v),
         activeTimers_' \subseteq activeTimers_ \cup {<<a, numCreated + 1>>},
         UNCHANGED <<expired, cancelingTimers_, cancelled>>
  PROVE  /\ CancelIsFinal' /\ <<a, numCreated + 1>> \notin cancelled
         /\ \A e \in expired' : ActiveTimer(e)' \in cancelled' => ActiveTimer(e)' \in cancelingTimers_'
<1>0. TypeOK /\ ReadOK /\ HeapOK /\ SequencesOK
  BY DEF IInv
<1>1. numCreated \in Nat /\ heap[a].sequence = 0
  BY <1>0 DEF TypeOK, NewTimer, NoTimer
<1>2. <<a, numCreated + 1>> \notin cancelled
  BY <1>0, <1>1 DEF SequencesOK
<1>3. CancelIsFinal'
  BY <1>2 DEF CancelOK, CancelIsFinal
<1>4. ASSUME NEW e \in expired PROVE ActiveTimer(e)' = ActiveTimer(e)
  <2>1. e[2] \in Addrs /\ e[2] # a
    BY <1>0, <1>1, ExpiredApart, Zenon
  <2>2. heap'[e[2]] = heap[e[2]]
    BY <1>0, <2>1 DEF NewTimer, TypeOK
  <2> QED
    BY <2>2, Zenon DEF ActiveTimer, AddrOf
<1> QED
  BY <1>2, <1>3, <1>4 DEF CancelOK

LEMMA CancelInLoopCancels ==
  ASSUME IInv, CancelOK, NEW id \in Id, CancelInLoop(id), UNCHANGED expired
  PROVE  /\ CancelIsFinal'
         /\ \A e \in expired' : ActiveTimer(e)' \in cancelled' => ActiveTimer(e)' \in cancelingTimers_'
<1>0. TypeOK /\ ReadOK /\ HeapOK
  BY DEF IInv
<1>1. id = <<id[1], id[2]>> /\ id[1] \in Addrs /\ id[2] \in Nat /\ cancelled' = cancelled \cup {id}
  BY DEF Id, CancelInLoop
<1>2. CASE Found(id)
  <2>1. id[2] = heap[id[1]].sequence
    BY <1>0, <1>1, <1>2 DEF Found, HeapOK
  <2>2. /\ activeTimers_' = activeTimers_ \ {id} /\ heap' = [heap EXCEPT ![id[1]] = NoTimer]
        /\ UNCHANGED cancelingTimers_
    BY <1>1, <1>2, <2>1 DEF CancelInLoop
  <2>3. ASSUME NEW e \in expired PROVE ActiveTimer(e)' = ActiveTimer(e) /\ ActiveTimer(e) # id
    <3>1. e[2] \in Addrs /\ e[2] # id[1]
      BY <1>0, <1>1, <1>2, ExpiredApart DEF Found
    <3>2. heap'[e[2]] = heap[e[2]]
      BY <1>0, <2>2, <3>1 DEF TypeOK
    <3> QED
      BY <3>1, <3>2 DEF ActiveTimer, AddrOf
  <2> QED
    BY <1>1, <2>2, <2>3 DEF CancelOK, CancelIsFinal
<1>3. CASE ~Found(id)
  <2>1. UNCHANGED <<activeTimers_, heap>>
    BY <1>3, Zenon DEF CancelInLoop
  <2>2. callingExpiredTimers_ => cancelingTimers_' = cancelingTimers_ \cup {id}
    BY <1>3, Zenon DEF CancelInLoop
  <2>3. ASSUME NEW e \in expired
        PROVE  ActiveTimer(e)' = ActiveTimer(e) /\ cancelingTimers_' = cancelingTimers_ \cup {id}
    BY <1>0, <2>1, <2>2, ExpiredApart, Zenon DEF ActiveTimer
  <2> QED
    BY <1>1, <1>3, <2>1, <2>3, Zenon DEF CancelOK, CancelIsFinal, Found
<1> QED
  BY <1>2, <1>3

(* reset() restarts no timer that was cancelled meanwhile. *)
LEMMA ResetCancels ==
  ASSUME IInv, CancelOK, Reset
  PROVE  CancelOK'
<1>0. TypeOK /\ ReadOK /\ HeapOK
  BY DEF IInv
<1>1. ASSUME NEW id \in activeTimers_' PROVE id \notin cancelled
  <2>1. id = <<id[1], id[2]>> /\ id[1] \in Addrs
    BY <1>0, ResetTypes DEF Id
  <2>2. \/ <<id[1], id[2]>> \in activeTimers_
        \/ IsRestarted(id[1]) /\ id[2] = heap[id[1]].sequence
    <3>1. \A s : <<id[1], s>> \in activeTimers_'
                  <=> <<id[1], s>> \in activeTimers_
                      \/ (IsRestarted(id[1]) /\ s = heap[id[1]].sequence)
      BY <1>0, <2>1, ResetMeans, Zenon
    <3>2. <<id[1], id[2]>> \in activeTimers_'
      BY <2>1
    <3> QED
      BY <3>1, <3>2
  <2>3. CASE id \in activeTimers_
    BY <2>3 DEF CancelOK, CancelIsFinal
  <2>4. CASE IsRestarted(id[1]) /\ id[2] = heap[id[1]].sequence
    <3> DEFINE e == <<heap[id[1]].expiration, id[1]>>
    <3>1. e \in expired /\ ActiveTimer(e) \notin cancelingTimers_ /\ ActiveTimer(e) = id
      BY <2>1, <2>4 DEF IsRestarted, InExpired, Restarted, ActiveTimer, AddrOf
    <3> QED
      BY <3>1, ZenonT(60) DEF CancelOK
  <2> QED
    BY <2>1, <2>2, <2>3, <2>4
<1>2. UNCHANGED <<functors, cancelled>> /\ expired' = {}
  BY ZenonT(60) DEF Reset
<1> QED
  BY <1>1, <1>2 DEF CancelOK, CancelIsFinal

LEMMA FunctorCancels ==
  ASSUME IInv, CancelOK, RunFunctor
  PROVE  CancelOK'
<1>0. TypeOK /\ ReadOK /\ HeapOK /\ QueueOK
  BY ZenonT(60) DEF IInv
<1> DEFINE f == Head(functors)
<1>1. /\ functors # <<>> /\ functors' = Tail(functors) /\ expired = {} /\ expired' = {}
  BY <1>0, ZenonT(60) DEF RunFunctor, ReadOK, readVars
<1>2. /\ f = functors[1] /\ f \in Functor
      /\ Len(functors') = Len(functors) - 1 /\ Len(functors) \in Nat \ {0}
      /\ \A i \in 1 .. Len(functors) - 1 :
           i + 1 \in 1 .. Len(functors) /\ functors'[i] = functors[i + 1]
  BY <1>0, <1>1, TailFunctor DEF TypeOK
<1>3. f.id \in Id /\ f.id = <<f.id[1], f.id[2]>> /\ 1 \in 1 .. Len(functors)
  BY <1>2 DEF Functor, Id
<1>4. \/ f.op = "add" /\ AddTimerInLoop(f.id[1], heap[f.id[1]]) /\ UNCHANGED <<heap, cancelled>>
      \/ f.op = "cancel" /\ CancelInLoop(f.id)
  BY DEF RunFunctor
<1> HIDE DEF f
<1>5. ASSUME NEW i \in 1 .. Len(functors'), NEW j \in 1 .. Len(functors'),
             functors'[i].op = "cancel", functors'[j].op = "add", i < j
      PROVE  functors'[i].id # functors'[j].id
  <2>1. /\ i + 1 \in 1 .. Len(functors) /\ functors'[i] = functors[i + 1]
        /\ j + 1 \in 1 .. Len(functors) /\ functors'[j] = functors[j + 1]
        /\ i + 1 < j + 1
    BY <1>2, <1>5
  <2> QED
    BY <1>5, <2>1 DEF CancelOK
<1>6. ASSUME NEW j \in 1 .. Len(functors'), functors'[j].op = "add"
      PROVE  functors'[j].id \notin cancelled /\ (f.op = "cancel" => functors'[j].id # f.id)
  <2>1. j + 1 \in 1 .. Len(functors) /\ functors'[j] = functors[j + 1] /\ 1 < j + 1
    BY <1>2
  <2>2. functors'[j].id \notin cancelled
    BY <1>6, <2>1, Zenon DEF CancelOK
  <2>3. f.op = "cancel" => functors[1].id # functors[j + 1].id
    BY <1>2, <1>3, <1>6, <2>1, Zenon DEF CancelOK
  <2> QED
    BY <1>2, <2>1, <2>2, <2>3
<1>7. CASE f.op = "add" /\ AddTimerInLoop(f.id[1], heap[f.id[1]]) /\ UNCHANGED <<heap, cancelled>>
  <2>1. f.id[2] = heap[f.id[1]].sequence /\ f.id \notin cancelled
    BY <1>0, <1>2, <1>3, <1>7, Zenon DEF QueueOK, CancelOK
  <2>2. activeTimers_' = activeTimers_ \cup {f.id}
    BY <1>3, <1>7, <2>1, Zenon DEF AddTimerInLoop
  <2>3. CancelIsFinal'
    BY <1>7, <2>1, <2>2 DEF CancelOK, CancelIsFinal
  <2> QED
    BY <1>1, <1>5, <1>6, <1>7, <2>3, ZenonT(60) DEF CancelOK
<1>8. CASE f.op = "cancel" /\ CancelInLoop(f.id)
  <2>1. CancelIsFinal' /\ cancelled' = cancelled \cup {f.id}
    BY <1>1, <1>3, <1>8, CancelInLoopCancels, Zenon DEF CancelInLoop
  <2> QED
    BY <1>1, <1>5, <1>6, <1>8, <2>1, ZenonT(60) DEF CancelOK
<1> QED
  BY <1>4, <1>7, <1>8

LEMMA CancelOKStep ==
  ASSUME ~Handover
  PROVE  IInv /\ CancelOK /\ [Next]_vars => CancelOK'
<1> SUFFICES ASSUME IInv, CancelOK, [Next]_vars PROVE CancelOK'
  OBVIOUS
<1>0. TypeOK /\ ReadOK /\ HeapOK /\ QueueOK /\ SequencesOK
  BY Zenon DEF IInv
<1>1. ASSUME NEW a \in Addrs, NEW w \in Whens, NEW v \in Intervals, AddTimer(a, w, v)
      PROVE  CancelOK'
  <2>1. heap'[a].sequence = numCreated + 1
    BY <1>0, <1>1, Zenon DEF AddTimer, NewTimer, TypeOK
  <2>2. /\ NewTimer(a, w, v) /\ activeTimers_' = activeTimers_ \cup {<<a, numCreated + 1>>}
        /\ UNCHANGED <<expired, cancelingTimers_, cancelled, functors>>
    BY <1>1, <2>1, Zenon DEF AddTimer, AddTimerInLoop, readVars
  <2>3. /\ CancelIsFinal'
        /\ \A e \in expired' : ActiveTimer(e)' \in cancelled' => ActiveTimer(e)' \in cancelingTimers_'
    BY <2>2, AddTimerCancels, Zenon
  <2> QED
    BY <2>2, <2>3, ZenonT(60) DEF CancelOK
<1>2. ASSUME NEW t \in Threads, NEW a \in Addrs, NEW w \in Whens, NEW v \in Intervals,
             AddTimerFrom(t, a, w, v)
      PROVE  CancelOK'
  <2> DEFINE f == [op |-> "add", id |-> <<a, numCreated + 1>>]
  <2>1. /\ NewTimer(a, w, v) /\ UNCHANGED <<activeTimers_, expired, cancelingTimers_, cancelled>>
        /\ functors' = Append(functors, f)
    BY <1>2 DEF AddTimerFrom, setVars, readVars
  <2>2. numCreated \in Nat /\ f \in Functor /\ f.op = "add" /\ f.id = <<a, numCreated + 1>>
    BY <1>0 DEF TypeOK, Functor, Id
  <2>3. f.id[2] = numCreated + 1
    BY <2>2, Zenon
  <2> HIDE DEF f
  <2>4. /\ CancelIsFinal' /\ f.id \notin cancelled
        /\ \A e \in expired' : ActiveTimer(e)' \in cancelled' => ActiveTimer(e)' \in cancelingTimers_'
    BY <2>1, <2>2, AddTimerCancels, ZenonT(60)
  <2>5. /\ Len(functors') = Len(functors) + 1 /\ Len(functors) \in Nat
        /\ \A i \in 1 .. Len(functors) : functors'[i] = functors[i]
        /\ functors'[Len(functors) + 1] = f
    BY <1>0, <2>1, <2>2, AppendFunctor DEF TypeOK
  <2>6. \A i \in 1 .. Len(functors') : i \in 1 .. Len(functors) \/ i = Len(functors) + 1
    BY <2>5
  <2>7. \A i \in 1 .. Len(functors) : functors[i].id # f.id
    <3>1. \A i \in 1 .. Len(functors) : functors[i].id[2] <= numCreated
      BY <1>0, Zenon DEF SequencesOK
    <3>2. ~(numCreated + 1 <= numCreated)
      BY <2>2
    <3> QED
      BY <2>3, <3>1, <3>2, Zenon
  <2>8. \A i \in 1 .. Len(functors') : functors'[i].op = "add" => functors'[i].id \notin cancelled'
    BY <2>1, <2>4, <2>5, <2>6, Zenon DEF CancelOK
  <2>9. \A i, j \in 1 .. Len(functors') :
          (functors'[i].op = "cancel" /\ functors'[j].op = "add" /\ i < j)
            => functors'[i].id # functors'[j].id
    <3> SUFFICES ASSUME NEW i \in 1 .. Len(functors'), NEW j \in 1 .. Len(functors'),
                        functors'[i].op = "cancel", functors'[j].op = "add", i < j
                 PROVE  functors'[i].id # functors'[j].id
      BY Zenon
    <3>1. i \in 1 .. Len(functors) /\ functors'[i] = functors[i]
      BY <2>5, <2>6
    <3>2. CASE j \in 1 .. Len(functors)
      BY <2>5, <3>1, <3>2, Zenon DEF CancelOK
    <3>3. CASE j = Len(functors) + 1
      BY <2>5, <2>7, <3>1, <3>3, Zenon
    <3> QED
      BY <2>6, <3>2, <3>3, Zenon
  <2> QED
    BY <2>4, <2>8, <2>9, Zenon DEF CancelOK
<1>3. ASSUME NEW id \in ids, Cancel(id)
      PROVE  CancelOK'
  <2>1. /\ id \in Id /\ CancelInLoop(id) /\ UNCHANGED <<expired, functors>>
        /\ ~AddQueued(id[1]) /\ cancelled' = cancelled \cup {id}
    BY <1>0, <1>3 DEF Cancel, TypeOK, readVars, CancelInLoop
  <2>2. /\ CancelIsFinal'
        /\ \A e \in expired' : ActiveTimer(e)' \in cancelled' => ActiveTimer(e)' \in cancelingTimers_'
    BY <2>1, CancelInLoopCancels, ZenonT(60)
  <2>3. \A i \in 1 .. Len(functors) : functors[i].op = "add" => functors[i].id # id
    <3>1. DOMAIN functors = 1 .. Len(functors)
      BY <1>0 DEF TypeOK
    <3> QED
      BY <2>1, <3>1, Zenon DEF AddQueued
  <2> QED
    BY <2>1, <2>2, <2>3, ZenonT(60) DEF CancelOK
<1>4. ASSUME NEW t \in Threads, NEW id \in ids, CancelFrom(t, id)
      PROVE  CancelOK'
  <2> DEFINE f == [op |-> "cancel", id |-> id]
  <2>1. /\ UNCHANGED <<heap, activeTimers_, expired, cancelingTimers_, cancelled>>
        /\ functors' = Append(functors, f)
    BY <1>4, Zenon DEF CancelFrom, setVars, readVars
  <2>2. f \in Functor /\ f.op = "cancel"
    BY <1>0 DEF TypeOK, Functor
  <2> HIDE DEF f
  <2>3. /\ Len(functors') = Len(functors) + 1 /\ Len(functors) \in Nat
        /\ \A i \in 1 .. Len(functors) : functors'[i] = functors[i]
        /\ functors'[Len(functors) + 1] = f
    BY <1>0, <2>1, <2>2, AppendFunctor DEF TypeOK
  <2>4. \A i \in 1 .. Len(functors') : i \in 1 .. Len(functors) \/ i = Len(functors) + 1
    BY <2>3
  <2>5. \A i \in 1 .. Len(functors') : functors'[i].op = "add" => functors'[i].id \notin cancelled'
    BY <2>1, <2>2, <2>3, <2>4, Zenon DEF CancelOK
  <2>6. \A i, j \in 1 .. Len(functors') :
          (functors'[i].op = "cancel" /\ functors'[j].op = "add" /\ i < j)
            => functors'[i].id # functors'[j].id
    <3>1. ASSUME NEW i \in 1 .. Len(functors'), NEW j \in 1 .. Len(functors'),
                 functors'[j].op = "add", i < j
          PROVE  i \in 1 .. Len(functors) /\ j \in 1 .. Len(functors)
      <4>1. j # Len(functors) + 1
        BY <2>2, <2>3, <3>1
      <4> QED
        BY <2>3, <3>1, <4>1
    <3> QED
      BY <2>3, <3>1 DEF CancelOK
  <2> QED
    BY <2>1, <2>5, <2>6, Zenon DEF CancelOK, CancelIsFinal, ActiveTimer
<1>5. CASE RunFunctor
  BY <1>5, FunctorCancels
<1>6. CASE Reset
  BY <1>6, ResetCancels, Zenon
<1>7. CASE HandleRead
  <2>1. /\ UNCHANGED <<heap, functors, cancelled>> /\ expired' = GetExpired
        /\ activeTimers_' \subseteq activeTimers_
    BY <1>7 DEF HandleRead
  <2>2. ASSUME NEW e \in GetExpired PROVE ActiveTimer(e)' \notin cancelled'
    <3>1. /\ e = <<e[1], e[2]>> /\ e[2] \in Addrs /\ e \in timers_
          /\ heap[e[2]].expiration = e[1] /\ heap[e[2]].sequence \in Nat
      BY <1>0 DEF GetExpired, TypeOK, HeapOK, Timer
    <3>2. <<e[2], heap[e[2]].sequence>> \in activeTimers_
      BY <1>0, <3>1 DEF HeapOK, InTimers
    <3> QED
      BY <2>1, <3>2 DEF CancelOK, CancelIsFinal, ActiveTimer, AddrOf
  <2> QED
    BY <2>1, <2>2 DEF CancelOK, CancelIsFinal
<1>8. CASE \/ \E t \in Threads : AddTimerReturns(t)
           \/ Poll \/ RunTimer \/ CallbackReturns \/ Tick
           \/ \E time \in ClockSteps : SetClock(time)
           \/ UNCHANGED vars
  <2>1. UNCHANGED <<heap, activeTimers_, cancelingTimers_, expired, functors, cancelled>>
    BY <1>8, Zenon
       DEF AddTimerReturns, Poll, RunTimer, CallbackReturns, Tick, SetClock, setVars,
                readVars, vars
  <2> QED
    BY <2>1, ZenonT(60) DEF CancelOK, CancelIsFinal, ActiveTimer
<1> QED
  BY <1>1, <1>2, <1>3, <1>4, <1>5, <1>6, <1>7, <1>8 DEF Next, LoopStep

(* A timer whose TimerId was cancelled is never scheduled again, neither by    *)
(* reset() in the same handleRead nor by a functor nor at a reused address.    *)
(* The one assumption: no callback of the loop thread cancels a TimerId whose  *)
(* addTimerInLoop is still queued.                                             *)
THEOREM CancelledStaysCancelled ==
  ASSUME ~Handover
  PROVE  Spec => []CancelIsFinal
<1>1. Init => IInv /\ CancelOK
  BY InitHolds
<1>2. (IInv /\ CancelOK) /\ [Next]_vars => (IInv /\ CancelOK)'
  BY IInvStep, CancelOKStep
<1>3. IInv /\ CancelOK => CancelIsFinal
  BY DEF CancelOK
<1> QED
  BY <1>1, <1>2, <1>3, PTL DEF Spec

==============================================================================
