---------------------------- MODULE PollersProofs ----------------------------
(***************************************************************************)
(* Proofs about both pollers, for any set of channels and any descriptors. *)
(*                                                                         *)
(* PollPoller: the indices that channels keep stay right though removal    *)
(* moves entries of the array, and loop() only calls channels that exist.  *)
(*                                                                         *)
(* EPollPoller, in any order of calls, disabling before enabling included: *)
(* the index of a channel tells what the epoll instance holds, so no       *)
(* epoll_ctl call fails and epoll_wait never returns the pointer of a      *)
(* channel that is gone.                                                   *)
(***************************************************************************)
EXTENDS MCPollers, TLAPS

(* No two channels that exist have the same descriptor, and a channel that was *)
(* added exists.                                                               *)
Owners ==
  /\ \A c, d \in exists : FdOf[c] = FdOf[d] => c = d
  /\ \A c \in Channels : addedToLoop_[c] => c \in exists

(* Outside the iteration over the active channels none is left to handle and   *)
(* none is current; the current one is not to be handled again.                *)
Iteration ==
  /\ ~eventHandling_ => (toHandle = {} /\ currentActiveChannel_ = NoChannel)
  /\ currentActiveChannel_ \notin toHandle

(* When channels are enabled first, an entry is ignored exactly while its      *)
(* channel has no events.                                                      *)
SignRight ==
  EnableFirst =>
    \A c \in Added :
      pollfds_[index_[c] + 1].fd = IF events_[c] = {} THEN Ignored(FdOf[c]) ELSE FdOf[c]

(* The inductive invariant. *)
IInv == TypeOK /\ Owners /\ Iteration /\ IndexConsistent /\ SignRight /\ HandlersExist

Entry == [fd : Int, events : Interest]

------------------------------------------------------------------------------
(* The entries after removeChannel: the last one is at the place i of the one  *)
(* that was removed.                                                           *)
LEMMA SwapAndPop ==
  ASSUME NEW S, NEW s \in Seq(S), NEW i \in 1 .. Len(s),
         NEW t, t = SubSeq([s EXCEPT ![i] = s[Len(s)]], 1, Len(s) - 1)
  PROVE  /\ t \in Seq(S)
         /\ Len(t) = Len(s) - 1
         /\ \A j \in 1 .. Len(s) - 1 : t[j] = IF j = i THEN s[Len(s)] ELSE s[j]
<1> DEFINE u == [s EXCEPT ![i] = s[Len(s)]]
<1>1. s[Len(s)] \in S
  OBVIOUS
<1>2. u \in Seq(S) /\ Len(u) = Len(s)
  BY <1>1
<1>3. \A j \in 1 .. Len(s) : u[j] = IF j = i THEN s[Len(s)] ELSE s[j]
  OBVIOUS
<1>4. Len(s) - 1 \in 0 .. Len(u)
  BY <1>2
<1> HIDE DEF u
<1>5. t = SubSeq(u, 1, Len(s) - 1)
  BY DEF u
<1> QED
  BY <1>2, <1>3, <1>4, <1>5

------------------------------------------------------------------------------
LEMMA InvInit == ASSUME Init PROVE IInv
<1> USE ChannelAssumption
<1>1. pollfds_ = <<>> /\ DOMAIN pollfds_ = {}
  BY DEF Init
<1>2. pollfds_ \in Seq([fd : Int, events : Interest])
  BY <1>1
<1>3. TypeOK
  <2>1. events_ \in [Channels -> Interest] /\ index_ \in [Channels -> Int]
    BY DEF Init, ChannelInit, Interest
  <2>2. addedToLoop_ \in [Channels -> BOOLEAN] /\ eventHandling_ \in BOOLEAN
    BY Zenon DEF Init, ChannelInit
  <2>3. channels_ \in [Fds -> Channels \cup {NoChannel}]
    BY DEF Init
  <2> QED
    BY <1>2, <2>1, <2>2, <2>3 DEF Init, ChannelInit, TypeOK, ChannelTypeOK
<1>4. Added = {}
  BY DEF Init, ChannelInit, Added
<1>5. Owners /\ Iteration /\ HandlersExist
  BY <1>4 DEF Init, ChannelInit, Owners, Iteration, HandlersExist
<1>6. IndexConsistent /\ SignRight
  BY <1>1, <1>4 DEF IndexConsistent, SignRight
<1> QED
  BY <1>3, <1>5, <1>6 DEF IInv

LEMMA EntryTypes == ASSUME IInv, NEW i \in DOMAIN pollfds_ PROVE pollfds_[i].fd \in Int
<1>1. pollfds_ \in Seq(Entry)
  BY DEF IInv, TypeOK, Entry
<1>2. pollfds_[i] \in Entry
  BY <1>1
<1> QED
  BY <1>2 DEF Entry

(* A step that leaves the poller and the channels alone. *)
LEMMA LoopOnly ==
  ASSUME IInv, UNCHANGED <<channelVars, pollfds_, channels_>>
  PROVE  /\ Owners' /\ IndexConsistent' /\ SignRight' /\ Added' = Added
BY DEF IInv, channelVars, Owners, IndexConsistent, SignRight, Added, FdOfEntry, Ignored

LEMMA ConstructStep ==
  ASSUME IInv, NEW c \in Channels, c \notin exists, Construct(c),
         UNCHANGED <<pollfds_, channels_>>
  PROVE  IInv'
<1> USE ChannelAssumption
<1>1. TypeOK'
  BY DEF IInv, TypeOK, ChannelTypeOK, Construct, loopVars, Interest
<1>2. ~addedToLoop_[c]
  BY DEF IInv, Owners, TypeOK, ChannelTypeOK
<1>3. Added' = Added /\ c \notin Added
  BY <1>2 DEF Construct, Added
<1>4. \A d \in Added : index_'[d] = index_[d] /\ events_'[d] = events_[d]
  BY <1>3 DEF Construct, IInv, TypeOK, ChannelTypeOK, Added
<1>5. Owners'
  BY <1>2 DEF Owners, IInv, Construct, TypeOK, ChannelTypeOK
<1>6. IndexConsistent'
  BY <1>3, <1>4 DEF IInv, IndexConsistent, FdOfEntry, Ignored
<1>7. SignRight'
  BY <1>3, <1>4 DEF IInv, SignRight, Ignored
<1>8. Iteration' /\ HandlersExist'
  BY <1>3 DEF IInv, Iteration, HandlersExist, Construct, loopVars
<1> QED
  BY <1>1, <1>5, <1>6, <1>7, <1>8 DEF IInv

LEMMA DestroyStep ==
  ASSUME IInv, NEW c \in Channels, Destroy(c), UNCHANGED <<pollfds_, channels_>>
  PROVE  IInv'
<1>1. TypeOK'
  BY DEF IInv, TypeOK, ChannelTypeOK, Destroy, loopVars
<1>2. Added' = Added
  BY DEF Destroy, Added
<1>3. Owners' /\ Iteration' /\ HandlersExist'
  BY <1>2
     DEF Owners, Iteration, HandlersExist, IInv, Destroy, TypeOK, ChannelTypeOK, loopVars
<1>4. IndexConsistent' /\ SignRight'
  BY <1>2 DEF IInv, IndexConsistent, SignRight, FdOfEntry, Ignored, Destroy
<1> QED
  BY <1>1, <1>3, <1>4 DEF IInv

LEMMA HandleStep ==
  ASSUME IInv, NEW c \in Channels, HandleEvent(c), UNCHANGED <<pollfds_, channels_>>
  PROVE  IInv'
<1>1. TypeOK'
  BY DEF IInv, TypeOK, ChannelTypeOK, HandleEvent, channelVars
<1>2. Owners' /\ IndexConsistent' /\ SignRight' /\ Added' = Added
  BY LoopOnly DEF HandleEvent
<1>3. Iteration' /\ HandlersExist'
  BY <1>2 DEF IInv, Iteration, HandlersExist, HandleEvent
<1> QED
  BY <1>1, <1>2, <1>3 DEF IInv

LEMMA EndStep ==
  ASSUME IInv, EndEvents, UNCHANGED <<pollfds_, channels_>>
  PROVE  IInv'
<1>1. TypeOK'
  BY Zenon DEF IInv, TypeOK, ChannelTypeOK, EndEvents, channelVars
<1>2. Owners' /\ IndexConsistent' /\ SignRight' /\ Added' = Added
  BY LoopOnly DEF EndEvents
<1>3. Iteration' /\ HandlersExist'
  BY <1>2 DEF IInv, Iteration, HandlersExist, EndEvents
<1> QED
  BY <1>1, <1>2, <1>3 DEF IInv

(* poll() returns channels that were added: each entry it looks at leads, by   *)
(* its descriptor, to one of them.                                             *)
LEMMA PollStep == ASSUME IInv, Poll PROVE IInv'
<1> USE ChannelAssumption
<1>1. PICK I \in (SUBSET Watched) \ {{}} : StartEvents({channels_[pollfds_[i].fd] : i \in I})
  BY Zenon DEF Poll
<1> DEFINE active == {channels_[pollfds_[i].fd] : i \in I}
<1>2. \A i \in I : channels_[pollfds_[i].fd] \in Added
  <2> TAKE i \in I
  <2>1. i \in DOMAIN pollfds_ /\ pollfds_[i].fd >= 0
    BY DEF Watched
  <2>2. pollfds_[i].fd \in Int
    BY <2>1, EntryTypes
  <2>3. FdOfEntry(pollfds_[i]) = pollfds_[i].fd
    BY <2>1, <2>2 DEF FdOfEntry
  <2> QED
    BY <2>1, <2>3 DEF IInv, IndexConsistent
<1>3. active \subseteq Added
  BY <1>2
<1>4. Added \subseteq Channels
  BY DEF IInv, TypeOK, ChannelTypeOK, Added
<1>5. StartEvents(active) /\ UNCHANGED <<pollfds_, channels_>>
  BY <1>1 DEF Poll
<1>6. UNCHANGED channelVars
  BY <1>5 DEF StartEvents
<1>7. Owners' /\ IndexConsistent' /\ SignRight' /\ Added' = Added
  BY <1>5, <1>6, LoopOnly
<1> HIDE DEF active
<1>8. TypeOK'
  BY <1>3, <1>4, <1>5 DEF IInv, TypeOK, ChannelTypeOK, StartEvents, channelVars
<1>9. ~eventHandling_
  BY <1>5 DEF StartEvents
<1>10. currentActiveChannel_ \notin active
  BY <1>3, <1>4, <1>9 DEF IInv, Iteration
<1>11. Iteration' /\ HandlersExist'
  BY <1>3, <1>5, <1>7, <1>10 DEF Iteration, HandlersExist, StartEvents
<1> QED
  BY <1>7, <1>8, <1>11 DEF IInv

------------------------------------------------------------------------------
(* updateChannel appends an entry for a new channel, or changes the entry at   *)
(* the index of the channel.                                                   *)
LEMMA UpdateStep ==
  ASSUME IInv, NEW c \in Channels, NEW events \in Interest, UpdateChannel(c, events)
  PROVE  IInv'
<1> USE ChannelAssumption
<1>0. /\ pollfds_ \in Seq(Entry) /\ events_ \in [Channels -> Interest]
      /\ index_ \in [Channels -> Int] /\ addedToLoop_ \in [Channels -> BOOLEAN]
      /\ exists \subseteq Channels /\ channels_ \in [Fds -> Channels \cup {NoChannel}]
      /\ FdOf[c] \in Fds /\ FdOf[c] \in Nat
  BY DEF IInv, TypeOK, ChannelTypeOK, Entry, Fds
<1>1. /\ c \in exists /\ exists' = exists
      /\ events_' = [events_ EXCEPT ![c] = events]
      /\ addedToLoop_' = [addedToLoop_ EXCEPT ![c] = TRUE]
      /\ UNCHANGED loopVars
  BY DEF UpdateChannel, Update
<1>2. Added' = Added \cup {c}
  BY <1>0, <1>1 DEF Added
<1>3. Owners' /\ Iteration' /\ HandlersExist'
  BY <1>0, <1>1, <1>2 DEF IInv, Owners, Iteration, HandlersExist, loopVars
<1>4. CASE index_[c] < 0
  <2> DEFINE n == Len(pollfds_)
             entry == [fd |-> FdOf[c], events |-> events]
  <2>1. /\ pollfds_' = Append(pollfds_, entry)
        /\ index_' = [index_ EXCEPT ![c] = n]
        /\ channels_' = [channels_ EXCEPT ![FdOf[c]] = c]
    BY <1>4 DEF UpdateChannel
  <2>2. c \notin Added
    BY <1>4, <1>0 DEF IInv, IndexConsistent
  <2>3. entry \in Entry
    BY <1>0 DEF Entry
  <2>4. /\ n \in Nat /\ pollfds_' \in Seq(Entry) /\ Len(pollfds_') = n + 1
        /\ pollfds_'[n + 1] = entry
        /\ \A i \in 1 .. n : pollfds_'[i] = pollfds_[i]
    BY <1>0, <2>1, <2>3
  <2>5. \A d \in Added : FdOf[d] # FdOf[c]
    BY <1>1, <2>2 DEF IInv, Owners, Added
  <2>6. TypeOK'
    <3>1. pollfds_' \in Seq([fd : Int, events : Interest])
      BY <2>4 DEF Entry
    <3>2. ChannelTypeOK'
      BY <1>1, <2>1, <2>4 DEF IInv, TypeOK, ChannelTypeOK, loopVars
    <3>3. channels_' \in [Fds -> Channels \cup {NoChannel}]
      BY <1>0, <2>1
    <3> QED
      BY <3>1, <3>2, <3>3 DEF TypeOK
  <2>7. /\ \A i \in 1 .. n : FdOfEntry(pollfds_'[i]) = FdOfEntry(pollfds_[i])
        /\ FdOfEntry(pollfds_'[n + 1]) = FdOf[c]
    BY <1>0, <2>4 DEF FdOfEntry, Ignored
  <2>8. DOMAIN pollfds_ = 1 .. n /\ DOMAIN pollfds_' = 1 .. n + 1
    BY <1>0, <2>4
  <2> HIDE DEF n, entry
  <2>9. \A d \in Added' :
          /\ channels_'[FdOf[d]] = d
          /\ index_'[d] + 1 \in DOMAIN pollfds_'
          /\ FdOfEntry(pollfds_'[index_'[d] + 1]) = FdOf[d]
          /\ pollfds_'[index_'[d] + 1].events = events_'[d]
    <3> TAKE d \in Added'
    <3>1. CASE d = c
      BY <3>1, <1>0, <1>1, <2>1, <2>4, <2>7, <2>8 DEF entry
    <3>2. CASE d # c
      <4>1. d \in Added /\ d \in Channels /\ FdOf[d] \in Fds
        BY <3>2, <1>0, <1>2 DEF Added, Fds
      <4>2. /\ index_'[d] = index_[d] /\ events_'[d] = events_[d]
            /\ channels_'[FdOf[d]] = channels_[FdOf[d]]
        BY <4>1, <3>2, <1>0, <1>1, <2>1, <2>5
      <4>3. /\ channels_[FdOf[d]] = d /\ index_[d] + 1 \in 1 .. n
            /\ FdOfEntry(pollfds_[index_[d] + 1]) = FdOf[d] /\ pollfds_[index_[d] + 1].events = events_[d]
        BY <4>1, <2>8 DEF IInv, IndexConsistent
      <4> QED
        BY <4>2, <4>3, <2>4, <2>7, <2>8
    <3> QED
      BY <3>1, <3>2
  <2>10. \A i \in DOMAIN pollfds_' :
           /\ FdOfEntry(pollfds_'[i]) \in Fds
           /\ channels_'[FdOfEntry(pollfds_'[i])] \in Added'
           /\ index_'[channels_'[FdOfEntry(pollfds_'[i])]] = i - 1
    <3> TAKE i \in DOMAIN pollfds_'
    <3>1. CASE i = n + 1
      BY <3>1, <1>0, <1>2, <2>1, <2>4, <2>7
    <3>2. CASE i \in 1 .. n
      <4>1. /\ FdOfEntry(pollfds_'[i]) = FdOfEntry(pollfds_[i]) /\ FdOfEntry(pollfds_[i]) \in Fds
            /\ channels_[FdOfEntry(pollfds_[i])] \in Added /\ index_[channels_[FdOfEntry(pollfds_[i])]] = i - 1
        BY <3>2, <2>7, <2>8 DEF IInv, IndexConsistent
      <4> DEFINE d == channels_[FdOfEntry(pollfds_[i])]
      <4>2. FdOfEntry(pollfds_[index_[d] + 1]) = FdOf[d] /\ index_[d] + 1 = i
        BY <4>1, <3>2, <2>8 DEF IInv, IndexConsistent
      <4>3. FdOfEntry(pollfds_[i]) # FdOf[c] /\ d # c
        BY <4>1, <4>2, <2>2, <2>5
      <4>4. channels_'[FdOfEntry(pollfds_'[i])] = d /\ index_'[d] = index_[d]
        BY <4>1, <4>3, <1>0, <2>1 DEF Added
      <4> QED
        BY <4>1, <4>4, <1>2
    <3> QED
      BY <3>1, <3>2, <2>8, <2>4
  <2>11. IndexConsistent'
    BY <2>9, <2>10 DEF IndexConsistent
  <2>12. SignRight'
    <3> SUFFICES ASSUME EnableFirst, NEW d \in Added'
                 PROVE  pollfds_'[index_'[d] + 1].fd
                          = IF events_'[d] = {} THEN Ignored(FdOf[d]) ELSE FdOf[d]
      BY DEF SignRight, Ignored
    <3>1. CASE d = c
      <4>1. ~addedToLoop_[c]
        BY <2>2, <1>1 DEF Added
      <4>2. events # {}
        BY <4>1 DEF UpdateChannel, Update
      <4> QED
        BY <3>1, <4>2, <1>0, <1>1, <2>1, <2>4 DEF entry
    <3>2. CASE d # c
      <4>1. d \in Added /\ d \in Channels
        BY <3>2, <1>0, <1>2 DEF Added
      <4>2. index_'[d] = index_[d] /\ events_'[d] = events_[d]
        BY <4>1, <3>2, <1>0, <1>1, <2>1
      <4>3. index_[d] + 1 \in 1 .. n
        BY <4>1, <2>8 DEF IInv, IndexConsistent
      <4> QED
        BY <4>1, <4>2, <4>3, <2>4 DEF IInv, SignRight
    <3> QED
      BY <3>1, <3>2
  <2> QED
    BY <1>3, <2>6, <2>11, <2>12 DEF IInv
<1>5. CASE ~(index_[c] < 0)
  <2> DEFINE k == index_[c] + 1
             entry == [fd |-> IF events = {} THEN Ignored(FdOf[c]) ELSE FdOf[c],
                       events |-> events]
  <2>1. /\ pollfds_' = [pollfds_ EXCEPT ![k] = entry]
        /\ index_' = index_ /\ channels_' = channels_
    BY <1>5 DEF UpdateChannel
  <2>2. addedToLoop_[c]
    BY <1>0, <1>5 DEF UpdateChannel, Removed
  <2>3. c \in Added /\ Added' = Added
    BY <2>2, <1>1, <1>2 DEF Added
  <2>4. k \in DOMAIN pollfds_ /\ FdOfEntry(pollfds_[k]) = FdOf[c] /\ channels_[FdOf[c]] = c
    BY <2>3 DEF IInv, IndexConsistent
  <2>5. entry \in Entry /\ entry.events = events
        /\ (IF entry.fd < 0 THEN Ignored(entry.fd) ELSE entry.fd) = FdOf[c]
    BY <1>0 DEF Entry, Ignored
  <2> HIDE DEF entry
  <2>6. /\ pollfds_' \in Seq(Entry) /\ DOMAIN pollfds_' = DOMAIN pollfds_
        /\ pollfds_'[k] = entry
        /\ \A i \in DOMAIN pollfds_ : i # k => pollfds_'[i] = pollfds_[i]
    BY <1>0, <2>1, <2>4, <2>5
  <2>7. TypeOK'
    <3>1. pollfds_' \in Seq([fd : Int, events : Interest])
      BY <2>6 DEF Entry
    <3>2. ChannelTypeOK'
      BY <1>1, <2>1 DEF IInv, TypeOK, ChannelTypeOK, loopVars
    <3> QED
      BY <1>0, <2>1, <3>1, <3>2 DEF TypeOK
  <2>8. \A i \in DOMAIN pollfds_ : FdOfEntry(pollfds_'[i]) = FdOfEntry(pollfds_[i])
    BY <2>4, <2>5, <2>6 DEF FdOfEntry, Ignored
  <2>9. \A d \in Added : d # c => index_[d] + 1 # k /\ events_'[d] = events_[d]
    BY <1>0, <1>1, <2>3 DEF IInv, IndexConsistent, Added
  <2>10. IndexConsistent'
    <3>1. ASSUME NEW d \in Added'
          PROVE  /\ channels_'[FdOf[d]] = d
                 /\ index_'[d] + 1 \in DOMAIN pollfds_'
                 /\ FdOfEntry(pollfds_'[index_'[d] + 1]) = FdOf[d]
                 /\ pollfds_'[index_'[d] + 1].events = events_'[d]
      <4>1. /\ d \in Added /\ channels_[FdOf[d]] = d /\ index_[d] + 1 \in DOMAIN pollfds_
            /\ FdOfEntry(pollfds_[index_[d] + 1]) = FdOf[d] /\ pollfds_[index_[d] + 1].events = events_[d]
        BY <3>1, <2>3 DEF IInv, IndexConsistent
      <4>2. CASE d = c
        BY <4>1, <4>2, <1>0, <1>1, <2>1, <2>5, <2>6, <2>8
      <4>3. CASE d # c
        BY <4>1, <4>3, <2>1, <2>6, <2>8, <2>9
      <4> QED
        BY <4>2, <4>3
    <3>2. ASSUME NEW i \in DOMAIN pollfds_'
          PROVE  /\ FdOfEntry(pollfds_'[i]) \in Fds
                 /\ channels_'[FdOfEntry(pollfds_'[i])] \in Added'
                 /\ index_'[channels_'[FdOfEntry(pollfds_'[i])]] = i - 1
      BY <2>1, <2>3, <2>6, <2>8 DEF IInv, IndexConsistent
    <3> QED
      BY <3>1, <3>2 DEF IndexConsistent
  <2>11. SignRight'
    <3> SUFFICES ASSUME EnableFirst, NEW d \in Added'
                 PROVE  pollfds_'[index_'[d] + 1].fd
                          = IF events_'[d] = {} THEN Ignored(FdOf[d]) ELSE FdOf[d]
      BY DEF SignRight, Ignored
    <3>1. CASE d = c
      BY <3>1, <1>0, <1>1, <2>1, <2>6 DEF entry
    <3>2. CASE d # c
      <4>1. d \in Added /\ index_[d] + 1 \in DOMAIN pollfds_
        BY <2>3 DEF IInv, IndexConsistent
      <4> QED
        BY <4>1, <3>2, <2>1, <2>6, <2>9 DEF IInv, SignRight
    <3> QED
      BY <3>1, <3>2
  <2> QED
    BY <1>3, <2>7, <2>10, <2>11 DEF IInv
<1> QED
  BY <1>4, <1>5

------------------------------------------------------------------------------
(* removeChannel moves the last entry to the place of the removed one and      *)
(* gives its channel that index; every other channel keeps its own.            *)
LEMMA RemoveStep ==
  ASSUME IInv, NEW c \in Channels, RemoveChannel(c)
  PROVE  IInv'
<1> USE ChannelAssumption
<1> DEFINE i == index_[c] + 1
           n == Len(pollfds_)
           last == channels_[FdOfEntry(pollfds_[n])]
<1>0. /\ pollfds_ \in Seq(Entry) /\ events_ \in [Channels -> Interest]
      /\ index_ \in [Channels -> Int] /\ addedToLoop_ \in [Channels -> BOOLEAN]
      /\ exists \subseteq Channels /\ channels_ \in [Fds -> Channels \cup {NoChannel}]
      /\ n \in Nat /\ DOMAIN pollfds_ = 1 .. n
  BY DEF IInv, TypeOK, ChannelTypeOK, Entry
<1>1. /\ c \in Added /\ exists' = exists /\ events_' = events_
      /\ addedToLoop_' = [addedToLoop_ EXCEPT ![c] = FALSE]
      /\ UNCHANGED loopVars
      /\ eventHandling_ => (c = currentActiveChannel_ \/ c \notin activeChannels_)
  BY DEF RemoveChannel, Remove, Added
<1>2. /\ pollfds_' = SubSeq([pollfds_ EXCEPT ![i] = pollfds_[n]], 1, n - 1)
      /\ index_' = IF i = n THEN index_ ELSE [index_ EXCEPT ![last] = index_[c]]
      /\ channels_' = [channels_ EXCEPT ![FdOf[c]] = NoChannel]
  BY DEF RemoveChannel
<1>3. Added' = Added \ {c} /\ Added \subseteq Channels
  BY <1>0, <1>1 DEF Added
<1>4. Owners' /\ Iteration' /\ HandlersExist'
  <2>1. c \notin toHandle
    BY <1>1 DEF IInv, Iteration, TypeOK, ChannelTypeOK
  <2>2. Iteration' /\ HandlersExist'
    BY <1>1, <1>3, <2>1 DEF IInv, Iteration, HandlersExist, loopVars
  <2> QED
    BY <1>0, <1>1, <2>2 DEF IInv, Owners
<1>5. i \in 1 .. n /\ FdOfEntry(pollfds_[i]) = FdOf[c] /\ n >= 1
  BY <1>0, <1>1 DEF IInv, IndexConsistent
<1>6. /\ last \in Added /\ last \in Channels /\ index_[last] = n - 1
      /\ FdOfEntry(pollfds_[n]) = FdOf[last]
  <2>1. n \in DOMAIN pollfds_
    BY <1>0, <1>5
  <2>2. last \in Added /\ index_[last] = n - 1
    BY <2>1 DEF IInv, IndexConsistent
  <2>3. last \in Channels
    BY <1>3, <2>2
  <2>4. FdOfEntry(pollfds_[index_[last] + 1]) = FdOf[last]
    BY <2>2 DEF IInv, IndexConsistent
  <2>5. index_[last] + 1 = n
    BY <1>0, <2>2
  <2> QED
    BY <2>2, <2>3, <2>4, <2>5
<1>7. /\ pollfds_' \in Seq(Entry) /\ Len(pollfds_') = n - 1
      /\ \A j \in 1 .. n - 1 : pollfds_'[j] = IF j = i THEN pollfds_[n] ELSE pollfds_[j]
  BY <1>0, <1>2, <1>5, SwapAndPop
<1>8. DOMAIN pollfds_' = 1 .. n - 1
  BY <1>0, <1>5, <1>7
<1> HIDE DEF n, last
<1>9. TypeOK'
  <2>1. pollfds_' \in Seq([fd : Int, events : Interest])
    BY <1>7 DEF Entry
  <2>2. index_' \in [Channels -> Int]
    BY <1>0, <1>2, Zenon
  <2>3. ChannelTypeOK'
    BY <1>0, <1>1, <2>2, Zenon DEF IInv, TypeOK, ChannelTypeOK, loopVars
  <2>4. channels_' \in [Fds -> Channels \cup {NoChannel}]
    BY <1>0, <1>2, Zenon
  <2> QED
    BY <2>1, <2>3, <2>4 DEF TypeOK
(* A channel that stays: where its entry was, and where it is now. *)
<1>10. ASSUME NEW d \in Added'
       PROVE  /\ channels_'[FdOf[d]] = d /\ FdOf[d] \in Fds
              /\ index_'[d] + 1 \in 1 .. n - 1
              /\ pollfds_'[index_'[d] + 1] = pollfds_[index_[d] + 1]
  <2>1. d \in Added /\ d # c /\ d \in Channels /\ FdOf[d] \in Fds
    BY <1>3, <1>10 DEF Fds
  <2>2. /\ channels_[FdOf[d]] = d /\ index_[d] + 1 \in 1 .. n
        /\ FdOfEntry(pollfds_[index_[d] + 1]) = FdOf[d]
    BY <1>0, <2>1 DEF IInv, IndexConsistent
  <2>3. FdOf[d] # FdOf[c]
    BY <1>1, <2>1 DEF IInv, Owners, Added
  <2>4. channels_'[FdOf[d]] = d
    BY <1>0, <1>2, <2>1, <2>2, <2>3
  <2>5. index_[d] \in Int /\ index_[c] \in Int
    BY <1>0, <2>1
  <2>6. index_[d] + 1 # i
    BY <1>5, <2>2, <2>3
  <2>7. CASE d = last /\ i # n
    <3>1. index_'[d] + 1 = i
      BY <1>0, <1>2, <2>1, <2>5, <2>7
    <3>2. index_[d] + 1 = n
      BY <1>0, <1>6, <2>7
    <3> QED
      BY <1>0, <1>5, <1>7, <2>1, <2>4, <2>7, <3>1, <3>2
  <2>8. CASE d # last \/ i = n
    <3>1. index_'[d] = index_[d]
      BY <1>0, <1>2, <2>1, <2>8
    <3>2. index_[d] + 1 # n
      <4>1. CASE i = n
        BY <4>1, <2>6
      <4>2. CASE d # last
        BY <4>2, <1>6, <2>2 DEF last
      <4> QED
        BY <2>8, <4>1, <4>2
    <3>3. index_[d] + 1 \in 1 .. n - 1
      BY <1>0, <2>2, <2>5, <3>2
    <3> QED
      BY <1>7, <2>1, <2>4, <2>6, <3>1, <3>3
  <2> QED
    BY <2>7, <2>8
(* An entry that is left leads to a channel that stays. *)
<1>11. ASSUME NEW j \in 1 .. n - 1
       PROVE  /\ FdOfEntry(pollfds_'[j]) \in Fds
              /\ channels_'[FdOfEntry(pollfds_'[j])] \in Added'
              /\ index_'[channels_'[FdOfEntry(pollfds_'[j])]] = j - 1
  <2> DEFINE k == IF j = i THEN n ELSE j
             d == channels_[FdOfEntry(pollfds_[k])]
  <2>1. k \in 1 .. n /\ pollfds_'[j] = pollfds_[k] /\ j # n
    BY <1>0, <1>7, <1>11
  <2>2. k # i
    BY <2>1
  <2>3. /\ FdOfEntry(pollfds_[k]) \in Fds /\ d \in Added /\ d \in Channels
        /\ index_[d] = k - 1
    BY <1>0, <1>3, <2>1, Zenon DEF IInv, IndexConsistent
  <2>4. d # c
    BY <1>0, <2>1, <2>2, <2>3
  <2>5. FdOfEntry(pollfds_[k]) = FdOf[d]
    BY <1>0, <2>1, <2>3 DEF IInv, IndexConsistent
  <2>6. FdOf[d] # FdOf[c]
    BY <1>1, <2>3, <2>4, Zenon DEF IInv, Owners, Added
  <2>7. channels_'[FdOf[d]] = d
    BY <1>0, <1>2, <2>3, <2>5, <2>6
  <2>8. index_'[d] = j - 1
    <3>1. CASE j = i
      <4>1. d = last /\ i # n
        BY <3>1, <2>1 DEF last
      <4>2. index_'[d] = index_[c]
        BY <4>1, <1>0, <1>2, <2>3
      <4> QED
        BY <3>1, <4>2, <1>0
    <3>2. CASE j # i
      <4>1. k = j /\ d # last
        BY <3>2, <2>1, <2>3, <1>0, <1>6, <1>11
      <4> QED
        BY <4>1, <1>0, <1>2, <2>3
    <3> QED
      BY <3>1, <3>2
  <2> QED
    BY <1>3, <2>1, <2>3, <2>4, <2>5, <2>7, <2>8, Zenon
<1>12. IndexConsistent'
  <2>1. \A d \in Added' : /\ FdOfEntry(pollfds_'[index_'[d] + 1]) = FdOf[d]
                          /\ pollfds_'[index_'[d] + 1].events = events_'[d]
    BY <1>1, <1>3, <1>10 DEF IInv, IndexConsistent
  <2> QED
    BY <1>8, <1>10, <1>11, <2>1 DEF IndexConsistent
<1>13. SignRight'
  BY <1>1, <1>3, <1>10 DEF IInv, SignRight, Ignored
<1> QED
  BY <1>4, <1>9, <1>12, <1>13 DEF IInv

------------------------------------------------------------------------------
(* The invariant of PollPoller, for any channels and descriptors. *)
THEOREM Invariance == Spec => []IInv
<1>1. Init => IInv
  BY InvInit
<1>2. IInv /\ [Next]_vars => IInv'
  <2> SUFFICES ASSUME IInv, [Next]_vars PROVE IInv'
    OBVIOUS
  <2>1. ASSUME NEW c \in Channels, c \notin exists /\ Construct(c), UNCHANGED <<pollfds_, channels_>>
        PROVE  IInv'
    BY <2>1, ConstructStep
  <2>2. ASSUME NEW c \in Channels, Destroy(c), UNCHANGED <<pollfds_, channels_>>
        PROVE  IInv'
    BY <2>2, DestroyStep
  <2>3. ASSUME NEW c \in Channels, NEW events \in Interest, UpdateChannel(c, events)
        PROVE  IInv'
    BY <2>3, UpdateStep
  <2>4. ASSUME NEW c \in Channels, RemoveChannel(c)
        PROVE  IInv'
    BY <2>4, RemoveStep
  <2>5. ASSUME NEW c \in Channels, HandleEvent(c), UNCHANGED <<pollfds_, channels_>>
        PROVE  IInv'
    BY <2>5, HandleStep
  <2>6. CASE Poll
    BY <2>6, PollStep
  <2>7. CASE EndEvents /\ UNCHANGED <<pollfds_, channels_>>
    BY <2>7, EndStep
  <2>8. CASE UNCHANGED vars
    <3>1. UNCHANGED <<channelVars, loopVars, pollfds_, channels_>>
      BY <2>8 DEF vars
    <3>2. Owners' /\ IndexConsistent' /\ SignRight' /\ Added' = Added
      BY <3>1, LoopOnly
    <3>3. TypeOK' /\ Iteration' /\ HandlersExist'
      BY <3>1, <3>2
         DEF IInv, TypeOK, ChannelTypeOK, Iteration, HandlersExist, channelVars, loopVars
    <3> QED
      BY <3>2, <3>3 DEF IInv
  <2> QED
    BY <2>1, <2>2, <2>3, <2>4, <2>5, <2>6, <2>7, <2>8 DEF Next
<1> QED
  BY <1>1, <1>2, PTL DEF Spec

(* Type correctness of PollPoller. *)
THEOREM TypeCorrect == Spec => []TypeOK
BY Invariance, PTL DEF IInv

(* The indices kept by the channels, the array given to poll() and the map     *)
(* from descriptors agree after any sequence of updateChannel and              *)
(* removeChannel calls.                                                        *)
THEOREM IndicesAgree == Spec => []IndexConsistent
BY Invariance, PTL DEF IInv

(* loop() never calls handleEvent on a channel that was removed or destroyed,  *)
(* given the assertion of EventLoop::removeChannel.                            *)
THEOREM ActiveExist == Spec => []HandlersExist
BY Invariance, PTL DEF IInv

(* When channels are enabled first, removeChannel finds the entry of a channel *)
(* without events ignored by poll(), as it asserts.                            *)
THEOREM IdleIgnored == ASSUME EnableFirst PROVE Spec => []IdleIsIgnored
<1>1. IInv => IdleIsIgnored
  BY EnableFirst DEF IInv, SignRight, IdleIsIgnored
<1> QED
  BY <1>1, Invariance, PTL

(* When channels are enabled first, poll() watches exactly the channels that   *)
(* ask for events, for exactly those events.                                   *)
THEOREM KernelRight == ASSUME EnableFirst PROVE Spec => []KernelWatches
<1>1. ASSUME IInv PROVE KernelWatches
  <2> USE ChannelAssumption
  <2> DEFINE wanted == {x \in Added : events_[x] # {}}
  <2>1. ASSUME NEW i \in Watched
        PROVE  \E x \in wanted : <<pollfds_[i].fd, pollfds_[i].events>> = <<FdOf[x], events_[x]>>
    <3>1. i \in DOMAIN pollfds_ /\ pollfds_[i].fd >= 0 /\ pollfds_[i].fd \in Int
      BY <1>1, <2>1, EntryTypes DEF Watched
    <3> DEFINE x == channels_[pollfds_[i].fd]
    <3>2. FdOfEntry(pollfds_[i]) = pollfds_[i].fd
      BY <3>1 DEF FdOfEntry
    <3>3. x \in Added /\ index_[x] = i - 1
      BY <1>1, <3>1, <3>2 DEF IInv, IndexConsistent
    <3>4. index_[x] + 1 = i
      BY <1>1, <3>1, <3>3 DEF IInv, TypeOK
    <3>5. FdOf[x] = pollfds_[i].fd /\ pollfds_[i].events = events_[x]
      BY <1>1, <3>2, <3>3, <3>4 DEF IInv, IndexConsistent
    <3>6. FdOf[x] \in Nat
      BY <1>1, <3>3 DEF IInv, TypeOK, ChannelTypeOK, Added
    <3>7. events_[x] # {}
      BY <1>1, <3>3, <3>4, <3>5, <3>6, EnableFirst DEF IInv, SignRight, Ignored
    <3> QED
      BY <3>3, <3>5, <3>7
  <2>2. ASSUME NEW x \in wanted
        PROVE  \E i \in Watched : <<pollfds_[i].fd, pollfds_[i].events>> = <<FdOf[x], events_[x]>>
    <3>1. x \in Added /\ events_[x] # {}
      OBVIOUS
    <3>2. /\ index_[x] + 1 \in DOMAIN pollfds_
          /\ pollfds_[index_[x] + 1].events = events_[x]
      BY <1>1, <3>1 DEF IInv, IndexConsistent
    <3>3. pollfds_[index_[x] + 1].fd = FdOf[x]
      BY <1>1, <3>1, EnableFirst DEF IInv, SignRight
    <3>4. FdOf[x] \in Nat
      BY <1>1, <3>1 DEF IInv, TypeOK, ChannelTypeOK, Added
    <3>5. index_[x] + 1 \in Watched
      BY <3>2, <3>3, <3>4 DEF Watched
    <3> QED
      BY <3>2, <3>3, <3>5
  <2> QED
    BY <2>1, <2>2 DEF KernelWatches
<1> QED
  BY <1>1, Invariance, PTL

-----------------------------------------------------------------------------
(* EPollPoller, with the variables that MCPollers gives it.                  *)

(* No two channels that exist have the same descriptor, and a channel that was *)
(* added exists.                                                               *)
EOwners ==
  /\ \A c, d \in ep_exists : FdOf[c] = FdOf[d] => c = d
  /\ \A c \in Channels : ep_addedToLoop[c] => c \in ep_exists

(* Outside the iteration over the active channels none is left to handle and   *)
(* none is current; the current one is not to be handled again.                *)
EIteration ==
  /\ ~ep_eventHandling => (ep_toHandle = {} /\ ep_currentActiveChannel = NoChannel)
  /\ ep_currentActiveChannel \notin ep_toHandle

(* What the index of a channel says: kNew, it was not added; kAdded, the epoll *)
(* instance watches it for its events; kDeleted, it was added, the epoll       *)
(* instance does not watch it and it has no events.  What is watched, and what *)
(* channels_ holds, is under its own descriptor.                               *)
StateRight ==
  /\ \A c \in ep_exists : ep_index[c] = E!kNew <=> ~ep_addedToLoop[c]
  /\ \A c \in E!Added :
       IF ep_index[c] = E!kAdded
       THEN epoll[FdOf[c]].channel = c /\ epoll[FdOf[c]].events = ep_events[c]
       ELSE epoll[FdOf[c]] = E!NotWatched /\ ep_events[c] = {}
  /\ \A fd \in E!Watched : ep_channels[fd] # NoChannel
  /\ \A fd \in E!Fds : ep_channels[fd] # NoChannel => FdOf[ep_channels[fd]] = fd

(* The inductive invariant. *)
EInv == /\ E!TypeOK /\ EOwners /\ EIteration /\ StateRight
        /\ E!MapConsistent /\ E!HandlersExist /\ E!CtlNeverFails

------------------------------------------------------------------------------
LEMMA NotWatchedFields == E!NotWatched.channel = NoChannel /\ E!NotWatched.events = {}
BY Zenon DEF E!NotWatched

(* A step that leaves the poller and the channels alone. *)
LEMMA ELoopOnly ==
  ASSUME EInv, UNCHANGED <<E!channelVars, epoll, ep_channels, ctlFailed>>
  PROVE  EOwners' /\ StateRight' /\ E!MapConsistent' /\ E!CtlNeverFails' /\ E!Added' = E!Added
BY Zenon
   DEF EInv, E!channelVars, EOwners, StateRight, E!MapConsistent, E!CtlNeverFails, E!Added,
       E!Watched, E!NotWatched, E!kNew, E!kAdded

LEMMA EInvInit == ASSUME E!Init, InitEventListSize \in Nat \ {0} PROVE EInv
<1> USE ChannelAssumption
<1>1. E!TypeOK
  <2>1. ep_events \in [Channels -> E!Interest] /\ ep_index \in [Channels -> Int]
    BY DEF E!Init, E!ChannelInit, E!Interest
  <2>2. ep_addedToLoop \in [Channels -> BOOLEAN] /\ ep_eventHandling \in BOOLEAN
    BY Zenon DEF E!Init, E!ChannelInit
  <2>3. ep_channels \in [E!Fds -> Channels \cup {NoChannel}]
    BY DEF E!Init
  <2>4. epoll \in [E!Fds -> [events : E!Interest, channel : Channels \cup {NoChannel}]]
    BY DEF E!Init, E!NotWatched, E!Interest
  <2>5. \A c \in Channels : ep_index[c] \in {E!kNew, E!kAdded, E!kDeleted}
    BY Zenon DEF E!Init, E!ChannelInit, E!kNew
  <2>6. ctlFailed \in BOOLEAN /\ eventListSize \in Nat \ {0}
    BY Zenon DEF E!Init
  <2> QED
    BY <2>1, <2>2, <2>3, <2>4, <2>5, <2>6
       DEF E!Init, E!ChannelInit, E!TypeOK, E!ChannelTypeOK
<1>2. E!Added = {} /\ E!Watched = {}
  BY DEF E!Init, E!ChannelInit, E!Added, E!Watched
<1>3. EOwners /\ EIteration /\ E!HandlersExist /\ E!CtlNeverFails
  BY <1>2 DEF E!Init, E!ChannelInit, EOwners, EIteration, E!HandlersExist, E!CtlNeverFails
<1>4. StateRight /\ E!MapConsistent
  BY <1>2 DEF E!Init, E!ChannelInit, StateRight, E!MapConsistent
<1> QED
  BY <1>1, <1>3, <1>4 DEF EInv

LEMMA EConstructStep ==
  ASSUME EInv, NEW c \in Channels, c \notin ep_exists, E!Construct(c), UNCHANGED E!pollerVars
  PROVE  EInv'
<1> USE ChannelAssumption
<1>1. E!TypeOK'
  <2>1. E!ChannelTypeOK'
    BY DEF EInv, E!TypeOK, E!ChannelTypeOK, E!Construct, E!loopVars, E!Interest
  <2>2. \A d \in Channels : ep_index'[d] \in {E!kNew, E!kAdded, E!kDeleted}
    BY DEF EInv, E!TypeOK, E!ChannelTypeOK, E!Construct, E!kNew
  <2> QED
    BY <2>1, <2>2 DEF EInv, E!TypeOK, E!pollerVars
<1>2. ~ep_addedToLoop[c]
  BY DEF EInv, EOwners, E!TypeOK, E!ChannelTypeOK
<1>3. E!Added' = E!Added /\ c \notin E!Added
  BY <1>2, Zenon DEF E!Construct, E!Added
<1>4. \A d \in E!Added : ep_index'[d] = ep_index[d] /\ ep_events'[d] = ep_events[d]
  BY <1>3 DEF E!Construct, EInv, E!TypeOK, E!ChannelTypeOK, E!Added
<1>5. EOwners'
  BY <1>2 DEF EOwners, EInv, E!Construct, E!TypeOK, E!ChannelTypeOK
<1>6. E!MapConsistent' /\ E!CtlNeverFails'
  BY <1>3, Zenon
     DEF EInv, E!MapConsistent, E!CtlNeverFails, E!Watched, E!NotWatched, E!pollerVars
<1>7. StateRight'
  <2>1. \A d \in ep_exists' : ep_index'[d] = E!kNew <=> ~ep_addedToLoop'[d]
    BY <1>2 DEF EInv, E!TypeOK, E!ChannelTypeOK, StateRight, E!Construct, E!kNew
  <2> QED
    BY <1>3, <1>4, <2>1, ZenonT(60)
       DEF EInv, StateRight, E!Watched, E!NotWatched, E!kNew, E!kAdded,
                            E!pollerVars
<1>8. EIteration' /\ E!HandlersExist'
  BY <1>3 DEF EInv, EIteration, E!HandlersExist, E!Construct, E!loopVars
<1> QED
  BY <1>1, <1>5, <1>6, <1>7, <1>8 DEF EInv

(* Closing the descriptor of a channel that is not in the poller changes       *)
(* nothing: the epoll instance does not watch it.                              *)
LEMMA EDestroyStep ==
  ASSUME EInv, NEW c \in Channels, E!Destroy(c), E!CloseOrKeep(FdOf[c]),
         UNCHANGED <<ep_channels, eventListSize, ctlFailed>>
  PROVE  EInv'
<1>1. E!Added' = E!Added
  BY DEF E!Destroy, E!Added
<1>2. FdOf[c] \in E!Fds
  BY DEF E!Fds
<1>3. ep_channels[FdOf[c]] = NoChannel
  <2> DEFINE d == ep_channels[FdOf[c]]
  <2> SUFFICES ASSUME d # NoChannel PROVE FALSE
    OBVIOUS
  <2>1. d \in E!Added
    BY <1>2 DEF EInv, E!MapConsistent
  <2>2. ep_channels[FdOf[d]] = d /\ d \in ep_exists /\ ep_addedToLoop[d]
    BY <2>1 DEF EInv, E!MapConsistent, E!Added
  <2>3. FdOf[d] = FdOf[c]
    BY <1>2 DEF EInv, StateRight
  <2> QED
    BY <2>2, <2>3 DEF EInv, EOwners, E!Destroy
<1>4. epoll[FdOf[c]] = E!NotWatched
  BY <1>2, <1>3 DEF EInv, StateRight, E!Watched
<1>5. epoll' = epoll
  BY <1>2, <1>4 DEF E!CloseOrKeep, EInv, E!TypeOK
<1>6. E!TypeOK'
  BY <1>5 DEF EInv, E!TypeOK, E!ChannelTypeOK, E!Destroy, E!loopVars
<1>7. EOwners' /\ EIteration' /\ E!HandlersExist'
  BY <1>1, ZenonT(60)
     DEF EOwners, EIteration, E!HandlersExist, EInv, E!Destroy, E!TypeOK, E!ChannelTypeOK,
              E!loopVars
<1>8. StateRight' /\ E!MapConsistent' /\ E!CtlNeverFails'
  BY <1>1, <1>5, Zenon
     DEF EInv, StateRight, E!MapConsistent, E!CtlNeverFails, E!Watched, E!NotWatched,
                    E!Destroy, E!kNew, E!kAdded
<1> QED
  BY <1>6, <1>7, <1>8 DEF EInv

------------------------------------------------------------------------------
LEMMA EHandleStep ==
  ASSUME EInv, NEW c \in Channels, E!HandleEvent(c), UNCHANGED E!pollerVars
  PROVE  EInv'
<1>1. E!TypeOK'
  BY DEF EInv, E!TypeOK, E!ChannelTypeOK, E!HandleEvent, E!channelVars, E!pollerVars
<1>2. EOwners' /\ StateRight' /\ E!MapConsistent' /\ E!CtlNeverFails' /\ E!Added' = E!Added
  BY ELoopOnly DEF E!HandleEvent, E!pollerVars
<1>3. EIteration' /\ E!HandlersExist'
  BY <1>2 DEF EInv, EIteration, E!HandlersExist, E!HandleEvent
<1> QED
  BY <1>1, <1>2, <1>3 DEF EInv

LEMMA EEndStep ==
  ASSUME EInv, E!EndEvents, UNCHANGED E!pollerVars
  PROVE  EInv'
<1>1. E!TypeOK'
  BY Zenon DEF EInv, E!TypeOK, E!ChannelTypeOK, E!EndEvents, E!channelVars, E!pollerVars
<1>2. EOwners' /\ StateRight' /\ E!MapConsistent' /\ E!CtlNeverFails' /\ E!Added' = E!Added
  BY ELoopOnly DEF E!EndEvents, E!pollerVars
<1>3. EIteration' /\ E!HandlersExist'
  BY <1>2 DEF EInv, EIteration, E!HandlersExist, E!EndEvents
<1> QED
  BY <1>1, <1>2, <1>3 DEF EInv

(* The pointers that epoll_wait returns are those of channels that were added. *)
LEMMA EPollStep == ASSUME EInv, E!Poll PROVE EInv'
<1> USE ChannelAssumption
<1>1. PICK F \in (SUBSET E!Watched) \ {{}} :
        /\ eventListSize' = E!NewEventListSize(E!Cardinality(F))
        /\ E!StartEvents({epoll[fd].channel : fd \in F})
  BY Zenon DEF E!Poll
<1> DEFINE active == {epoll[fd].channel : fd \in F}
<1>2. \A fd \in F : epoll[fd].channel \in E!Added
  <2> TAKE fd \in F
  <2>1. fd \in E!Watched /\ fd \in E!Fds
    BY DEF E!Watched
  <2>2. epoll[fd].channel = ep_channels[fd]
    BY <2>1 DEF EInv, E!MapConsistent
  <2>3. ep_channels[fd] # NoChannel
    BY <2>1 DEF EInv, StateRight
  <2> QED
    BY <2>1, <2>2, <2>3 DEF EInv, E!MapConsistent
<1>3. active \subseteq E!Added
  BY <1>2
<1>4. E!Added \subseteq Channels
  BY DEF EInv, E!TypeOK, E!ChannelTypeOK, E!Added
<1>5. E!StartEvents(active) /\ UNCHANGED <<epoll, ep_channels, ctlFailed>>
  BY <1>1 DEF E!Poll
<1>6. UNCHANGED E!channelVars /\ ~ep_eventHandling
  BY <1>5 DEF E!StartEvents
<1>7. EOwners' /\ StateRight' /\ E!MapConsistent' /\ E!CtlNeverFails' /\ E!Added' = E!Added
  BY <1>5, <1>6, ELoopOnly
<1> HIDE DEF active
<1>8. eventListSize' \in Nat \ {0}
  BY <1>1 DEF E!NewEventListSize, EInv, E!TypeOK
<1>9. E!TypeOK'
  BY <1>3, <1>4, <1>5, <1>8
     DEF EInv, E!TypeOK, E!ChannelTypeOK, E!StartEvents, E!channelVars
<1>10. ep_currentActiveChannel \notin active
  BY <1>3, <1>4, <1>6 DEF EInv, EIteration
<1>11. EIteration' /\ E!HandlersExist'
  BY <1>3, <1>5, <1>7, <1>10 DEF EIteration, E!HandlersExist, E!StartEvents
<1> QED
  BY <1>7, <1>9, <1>11 DEF EInv

------------------------------------------------------------------------------
(* The facts about the types that the steps of updateChannel and removeChannel *)
(* use.                                                                        *)
LEMMA ETypes ==
  ASSUME EInv
  PROVE  /\ ep_exists \subseteq Channels /\ ep_events \in [Channels -> E!Interest]
         /\ ep_index \in [Channels -> Int] /\ ep_addedToLoop \in [Channels -> BOOLEAN]
         /\ ep_channels \in [E!Fds -> Channels \cup {NoChannel}]
         /\ epoll \in [E!Fds -> [events : E!Interest, channel : Channels \cup {NoChannel}]]
         /\ eventListSize \in Nat \ {0} /\ ctlFailed = FALSE
         /\ \A c \in Channels : ep_index[c] \in {E!kNew, E!kAdded, E!kDeleted}
         /\ \A c \in Channels : FdOf[c] \in E!Fds
BY Zenon DEF EInv, E!TypeOK, E!ChannelTypeOK, E!CtlNeverFails, E!Fds

(* Every epoll_ctl call of updateChannel succeeds, because the index tells      *)
(* whether the epoll instance holds the descriptor.                            *)
LEMMA EUpdateStep ==
  ASSUME EInv, NEW c \in Channels, NEW events \in E!Interest, E!UpdateChannel(c, events)
  PROVE  EInv'
<1> USE ChannelAssumption
<1> DEFINE fd == FdOf[c]
<1>0. fd \in E!Fds
  BY ETypes
<1>1. /\ c \in ep_exists /\ ep_exists' = ep_exists
      /\ ep_events' = [ep_events EXCEPT ![c] = events]
      /\ ep_addedToLoop' = [ep_addedToLoop EXCEPT ![c] = TRUE]
      /\ UNCHANGED E!loopVars /\ eventListSize' = eventListSize
  BY DEF E!UpdateChannel, E!Update
<1>2. E!Added' = E!Added \cup {c}
  BY <1>1, ETypes DEF E!Added
<1>3. EOwners' /\ EIteration' /\ E!HandlersExist'
  BY <1>1, <1>2, ETypes DEF EInv, EOwners, EIteration, E!HandlersExist, E!loopVars
<1>4. \A d \in ep_exists : d # c => FdOf[d] # fd
  BY <1>1 DEF EInv, EOwners
(* What the three cases have in common: only the entries of c change.  *)
<1>5. SUFFICES
        /\ \/ ep_index' = [ep_index EXCEPT ![c] = E!kAdded] /\ epoll'[fd].channel = c
                /\ epoll'[fd].events = events
           \/ ep_index' = [ep_index EXCEPT ![c] = E!kDeleted] /\ epoll'[fd] = E!NotWatched
                /\ events = {}
        /\ epoll' \in [E!Fds -> [events : E!Interest, channel : Channels \cup {NoChannel}]]
        /\ \A x \in E!Fds : x # fd => epoll'[x] = epoll[x]
        /\ ep_channels' = [ep_channels EXCEPT ![fd] = c]
        /\ ctlFailed' = FALSE
  <2> HIDE DEF fd
  <2>1. ep_index' \in [Channels -> Int] /\ ep_index'[c] \in {E!kAdded, E!kDeleted}
        /\ \A d \in Channels : d # c => ep_index'[d] = ep_index[d]
    BY <1>5, ETypes DEF E!kAdded, E!kDeleted
  <2>2. E!TypeOK'
    <3>1. E!ChannelTypeOK'
      BY <1>1, <2>1 DEF EInv, E!TypeOK, E!ChannelTypeOK, E!loopVars
    <3>2. ep_channels' \in [E!Fds -> Channels \cup {NoChannel}]
      BY <1>5, ETypes, Zenon
    <3> QED
      BY <1>1, <1>5, <2>1, <3>1, <3>2, ETypes, Zenon DEF E!TypeOK
  <2>3. ep_channels'[fd] = c /\ \A x \in E!Fds : x # fd => ep_channels'[x] = ep_channels[x]
    BY <1>0, <1>5, ETypes, Zenon
  <2>4. \A d \in E!Added : d # c => FdOf[d] \in E!Fds /\ FdOf[d] # fd /\ ep_events'[d] = ep_events[d]
                                  /\ ep_index'[d] = ep_index[d] /\ d \in Channels
    BY <1>1, <1>4, <2>1, ETypes, ZenonT(60) DEF E!Added
  <2>5. E!MapConsistent'
    <3>1. \A d \in E!Added' : ep_channels'[FdOf[d]] = d
      BY <1>2, <2>3, <2>4, Zenon DEF EInv, E!MapConsistent, fd
    <3>2. \A x \in E!Fds : ep_channels'[x] # NoChannel => ep_channels'[x] \in E!Added'
      BY <1>2, <2>3 DEF EInv, E!MapConsistent
    <3>3. ASSUME NEW x \in E!Fds, epoll'[x] # E!NotWatched
          PROVE  epoll'[x].channel = ep_channels'[x]
      <4>1. CASE x = fd
        BY <3>3, <4>1, <1>5, <2>3, Zenon
      <4>2. CASE x # fd
        BY <3>3, <4>2, <1>5, <2>3, ZenonT(60) DEF EInv, E!MapConsistent, E!Watched
      <4> QED
        BY <4>1, <4>2, Zenon
    <3> QED
      BY <3>1, <3>2, <3>3, Zenon DEF E!MapConsistent, E!Watched, E!NotWatched
  <2>6. StateRight'
    <3>1. ASSUME NEW d \in ep_exists'
          PROVE  ep_index'[d] = E!kNew <=> ~ep_addedToLoop'[d]
      <4>1. d \in ep_exists /\ d \in Channels
        BY <1>1, ETypes, ZenonT(60)
      <4>2. CASE d = c
        <5>1. ep_index'[d] # E!kNew
          BY <4>2, <2>1 DEF E!kNew, E!kAdded, E!kDeleted
        <5>2. ep_addedToLoop'[d] = TRUE
          BY <4>1, <4>2, <1>1, ETypes, Zenon
        <5> QED
          BY <5>1, <5>2, ZenonT(60)
      <4>3. CASE d # c
        <5>1. ep_addedToLoop'[d] = ep_addedToLoop[d] /\ ep_index'[d] = ep_index[d]
          BY <4>1, <4>3, <1>1, <2>1, ETypes, Zenon
        <5>2. ep_index[d] = E!kNew <=> ~ep_addedToLoop[d]
          BY <4>1, Zenon DEF EInv, StateRight
        <5> QED
          BY <5>1, <5>2, Zenon
      <4> QED
        BY <4>2, <4>3
    <3>2. ASSUME NEW d \in E!Added'
          PROVE  IF ep_index'[d] = E!kAdded
                 THEN epoll'[FdOf[d]].channel = d /\ epoll'[FdOf[d]].events = ep_events'[d]
                 ELSE epoll'[FdOf[d]] = E!NotWatched /\ ep_events'[d] = {}
      <4>1. CASE d = c
        BY <4>1, <1>1, <1>5, ETypes DEF fd, E!kAdded, E!kDeleted
      <4>2. CASE d # c
        BY <3>2, <4>2, <1>2, <1>5, <2>4, ZenonT(60) DEF EInv, StateRight
      <4> QED
        BY <4>1, <4>2, Zenon
    <3>3. \A x \in E!Fds : epoll'[x] # E!NotWatched => ep_channels'[x] # NoChannel
      BY <1>5, <2>3, Zenon DEF EInv, StateRight, E!Watched
    <3>4. \A x \in E!Fds : ep_channels'[x] # NoChannel => FdOf[ep_channels'[x]] = x
      BY <2>3, ZenonT(60) DEF EInv, StateRight, fd
    <3> QED
      BY <3>1, <3>2, <3>3, <3>4, Zenon
         DEF StateRight, E!Watched, E!NotWatched, E!kNew, E!kAdded
  <2> QED
    BY <1>3, <1>5, <2>2, <2>5, <2>6 DEF EInv, E!CtlNeverFails
<1>6. CASE ep_index[c] = E!kNew
  <2>1. /\ ep_channels' = [ep_channels EXCEPT ![fd] = c]
        /\ ep_index' = [ep_index EXCEPT ![c] = E!kAdded] /\ E!CtlAdd(c, events)
    BY <1>6 DEF E!UpdateChannel, E!kNew, E!kAdded
  <2>2. epoll[fd] = E!NotWatched
    <3>1. ep_channels[fd] = NoChannel
      BY <1>0, <1>1, <1>4, <1>6, ETypes, Zenon
         DEF EInv, E!MapConsistent, StateRight, E!Added
    <3> QED
      BY <3>1, <1>0, Zenon DEF EInv, StateRight, E!Watched
  <2> QED
    BY <1>0, <2>1, <2>2, ETypes, Zenon DEF E!CtlAdd
<1>7. CASE ep_index[c] # E!kNew
  <2>1. c \in E!Added
    BY <1>1, <1>7, Zenon DEF EInv, StateRight, E!Added
  <2>2. ep_channels[fd] = c
    BY <2>1 DEF EInv, E!MapConsistent
  <2>3. ep_channels = [ep_channels EXCEPT ![fd] = c]
    BY <1>0, <2>2, ETypes
  <2>4. CASE ep_index[c] = E!kDeleted
    <3>1. /\ ep_channels' = ep_channels /\ ep_index' = [ep_index EXCEPT ![c] = E!kAdded]
          /\ E!CtlAdd(c, events)
      BY <2>4 DEF E!UpdateChannel, E!kNew, E!kAdded, E!kDeleted
    <3>2. epoll[fd] = E!NotWatched
      BY <2>1, <2>4 DEF EInv, StateRight, E!kAdded, E!kDeleted
    <3> QED
      BY <1>0, <2>3, <3>1, <3>2, ETypes, Zenon DEF E!CtlAdd
  <2>5. CASE ep_index[c] = E!kAdded
    <3>1. epoll[fd].channel = c /\ epoll[fd] # E!NotWatched
      BY <2>1, <2>5, NotWatchedFields, ZenonT(60) DEF EInv, StateRight
    <3>2. CASE events = {}
      <4>1. /\ ep_channels' = ep_channels /\ ep_index' = [ep_index EXCEPT ![c] = E!kDeleted]
            /\ E!CtlDel(c)
        BY <2>5, <3>2 DEF E!UpdateChannel, E!kNew, E!kAdded, E!kDeleted
      <4>2. E!NotWatched \in [events : E!Interest, channel : Channels \cup {NoChannel}]
        BY Zenon DEF E!NotWatched, E!Interest
      <4> QED
        BY <1>0, <2>3, <3>1, <3>2, <4>1, <4>2, ETypes, Zenon DEF E!CtlDel
    <3>3. CASE events # {}
      <4>1. ep_channels' = ep_channels /\ ep_index' = ep_index /\ E!CtlMod(c, events)
        BY <2>5, <3>3 DEF E!UpdateChannel, E!kNew, E!kAdded, E!kDeleted
      <4>2. ep_index' = [ep_index EXCEPT ![c] = E!kAdded]
        BY <2>5, <4>1, ETypes
      <4>3. epoll'[fd].channel = c /\ epoll'[fd].events = events
            /\ epoll' \in [E!Fds -> [events : E!Interest, channel : Channels \cup {NoChannel}]]
            /\ \A x \in E!Fds : x # fd => epoll'[x] = epoll[x]
        BY <1>0, <3>1, <4>1, ETypes DEF E!CtlMod
      <4> QED
        BY <2>3, <3>1, <4>1, <4>2, <4>3, ETypes, Zenon DEF E!CtlMod
    <3> QED
      BY <3>2, <3>3, Zenon
  <2> QED
    BY <1>7, <2>4, <2>5, ETypes, Zenon
<1> QED
  BY <1>6, <1>7, Zenon

------------------------------------------------------------------------------
(* removeChannel takes the descriptor out of the epoll instance when the index *)
(* says that it is there; afterwards neither the map nor epoll knows it.       *)
LEMMA ERemoveStep ==
  ASSUME EInv, NEW c \in Channels, E!RemoveChannel(c)
  PROVE  EInv'
<1> USE ChannelAssumption
<1> DEFINE fd == FdOf[c]
<1>0. fd \in E!Fds
  BY ETypes
<1>1. /\ c \in E!Added /\ c \in ep_exists /\ ep_exists' = ep_exists /\ ep_events' = ep_events
      /\ ep_addedToLoop' = [ep_addedToLoop EXCEPT ![c] = FALSE]
      /\ UNCHANGED E!loopVars /\ eventListSize' = eventListSize
      /\ ep_eventHandling => (c = ep_currentActiveChannel \/ c \notin ep_activeChannels)
  BY ZenonT(60) DEF E!RemoveChannel, E!Remove, E!Added
<1>2. /\ ep_channels' = [ep_channels EXCEPT ![fd] = NoChannel]
      /\ ep_index' = [ep_index EXCEPT ![c] = E!kNew]
      /\ IF ep_index[c] = E!kAdded THEN E!CtlDel(c) ELSE UNCHANGED <<epoll, ctlFailed>>
  BY DEF E!RemoveChannel
<1>3. E!Added' = E!Added \ {c}
  BY <1>1, ETypes DEF E!Added
<1>4. EOwners' /\ EIteration' /\ E!HandlersExist'
  <2>1. c \notin ep_toHandle
    BY <1>1 DEF EInv, EIteration, E!TypeOK, E!ChannelTypeOK
  <2>2. EIteration' /\ E!HandlersExist'
    BY <1>1, <1>3, <2>1 DEF EInv, EIteration, E!HandlersExist, E!loopVars
  <2> QED
    BY <1>1, <2>2, ETypes DEF EInv, EOwners
<1>5. \A d \in ep_exists : d # c => FdOf[d] # fd
  BY <1>1 DEF EInv, EOwners
<1>6. /\ epoll' = [epoll EXCEPT ![fd] = E!NotWatched]
      /\ ctlFailed' = FALSE
  <2>1. CASE ep_index[c] = E!kAdded
    <3>1. epoll[fd] # E!NotWatched
      BY <1>1, <2>1, NotWatchedFields, ZenonT(60) DEF EInv, StateRight
    <3> QED
      BY <1>2, <2>1, <3>1, ETypes, Zenon DEF E!CtlDel
  <2>2. CASE ep_index[c] # E!kAdded
    <3>1. epoll[fd] = E!NotWatched
      BY <1>1, <2>2, Zenon DEF EInv, StateRight
    <3> QED
      BY <1>0, <1>2, <2>2, <3>1, ETypes, Zenon
  <2> QED
    BY <2>1, <2>2, Zenon
<1> HIDE DEF fd
<1>7. /\ epoll'[fd] = E!NotWatched /\ ep_channels'[fd] = NoChannel
      /\ \A x \in E!Fds : x # fd => epoll'[x] = epoll[x] /\ ep_channels'[x] = ep_channels[x]
  BY <1>0, <1>2, <1>6, ETypes, Zenon
<1>8. E!TypeOK'
  <2>1. ep_index' \in [Channels -> Int]
        /\ \A d \in Channels : ep_index'[d] \in {E!kNew, E!kAdded, E!kDeleted}
    BY <1>2, ETypes DEF E!kNew
  <2>2. E!ChannelTypeOK'
    BY <1>1, <2>1, Zenon DEF EInv, E!TypeOK, E!ChannelTypeOK, E!loopVars
  <2>3. ep_channels' \in [E!Fds -> Channels \cup {NoChannel}]
    BY <1>2, ETypes, Zenon
  <2>4. E!NotWatched \in [events : E!Interest, channel : Channels \cup {NoChannel}]
    BY Zenon DEF E!NotWatched, E!Interest
  <2>5. epoll' \in [E!Fds -> [events : E!Interest, channel : Channels \cup {NoChannel}]]
    BY <1>6, <2>4, ETypes, Zenon
  <2> QED
    BY <1>1, <1>6, <2>1, <2>2, <2>3, <2>5, ETypes, Zenon DEF E!TypeOK
<1>9. \A d \in E!Added' : d \in E!Added /\ d \in ep_exists /\ d \in Channels /\ FdOf[d] # fd
                        /\ FdOf[d] \in E!Fds /\ ep_index'[d] = ep_index[d]
  BY <1>2, <1>3, <1>5, ETypes, Zenon DEF E!Added
<1>10. E!MapConsistent'
  <2>1. \A d \in E!Added' : ep_channels'[FdOf[d]] = d
    BY <1>7, <1>9, ZenonT(60) DEF EInv, E!MapConsistent
  <2>2. \A x \in E!Fds : ep_channels'[x] # NoChannel => ep_channels'[x] \in E!Added'
    <3> SUFFICES ASSUME NEW x \in E!Fds, ep_channels'[x] # NoChannel
                 PROVE  ep_channels'[x] \in E!Added'
      OBVIOUS
    <3>1. x # fd /\ ep_channels'[x] = ep_channels[x]
      BY <1>7
    <3>2. ep_channels[x] \in E!Added /\ FdOf[ep_channels[x]] = x
      BY <3>1, ZenonT(60) DEF EInv, E!MapConsistent, StateRight
    <3> QED
      BY <1>3, <3>1, <3>2 DEF fd
  <2>3. \A x \in E!Fds : epoll'[x] # E!NotWatched => epoll'[x].channel = ep_channels'[x]
    BY <1>7, Zenon DEF EInv, E!MapConsistent, E!Watched
  <2> QED
    BY <2>1, <2>2, <2>3, Zenon DEF E!MapConsistent, E!Watched, E!NotWatched
<1>11. StateRight'
  <2>1. ASSUME NEW d \in ep_exists'
        PROVE  ep_index'[d] = E!kNew <=> ~ep_addedToLoop'[d]
    <3>1. d \in ep_exists /\ d \in Channels
      BY <1>1, ETypes
    <3>2. CASE d = c
      <4>1. ep_index'[d] = E!kNew /\ ep_addedToLoop'[d] = FALSE
        BY <3>1, <3>2, <1>1, <1>2, ETypes, Zenon
      <4> QED
        BY <4>1
    <3>3. CASE d # c
      <4>1. ep_addedToLoop'[d] = ep_addedToLoop[d] /\ ep_index'[d] = ep_index[d]
        BY <3>1, <3>3, <1>1, <1>2, ETypes, Zenon
      <4>2. ep_index[d] = E!kNew <=> ~ep_addedToLoop[d]
        BY <3>1, Zenon DEF EInv, StateRight
      <4> QED
        BY <4>1, <4>2, Zenon
    <3> QED
      BY <3>2, <3>3
  <2>2. \A d \in E!Added' :
          IF ep_index'[d] = E!kAdded
          THEN epoll'[FdOf[d]].channel = d /\ epoll'[FdOf[d]].events = ep_events'[d]
          ELSE epoll'[FdOf[d]] = E!NotWatched /\ ep_events'[d] = {}
    BY <1>1, <1>7, <1>9, ZenonT(60) DEF EInv, StateRight
  <2>3. \A x \in E!Fds : epoll'[x] # E!NotWatched => ep_channels'[x] # NoChannel
    BY <1>7, Zenon DEF EInv, StateRight, E!Watched
  <2>4. \A x \in E!Fds : ep_channels'[x] # NoChannel => FdOf[ep_channels'[x]] = x
    BY <1>7, Zenon DEF EInv, StateRight
  <2> QED
    BY <2>1, <2>2, <2>3, <2>4, ZenonT(60)
       DEF StateRight, E!Watched, E!NotWatched, E!kNew, E!kAdded
<1> QED
  BY <1>4, <1>6, <1>8, <1>10, <1>11 DEF EInv, E!CtlNeverFails

-----------------------------------------------------------------------------
(* What the invariant says about the kernel: it watches the channels that ask  *)
(* for events, for exactly those events, and nothing else for any event.       *)
LEMMA EKernelRight == ASSUME EInv PROVE E!KernelWatches
<1> USE ChannelAssumption
<1> DEFINE watched == {x \in E!Watched : epoll[x].events # {}}
           wanted == {x \in E!Added : ep_events[x] # {}}
<1>1. ASSUME NEW fd \in watched
      PROVE  \E x \in wanted : <<fd, epoll[fd].events>> = <<FdOf[x], ep_events[x]>>
  <2> DEFINE x == ep_channels[fd]
  <2>1. fd \in E!Fds /\ fd \in E!Watched /\ epoll[fd].events # {}
    BY <1>1 DEF E!Watched
  <2>2. x \in E!Added /\ FdOf[x] = fd
    BY <2>1, ZenonT(60) DEF EInv, StateRight, E!MapConsistent
  <2>3. epoll[fd] # E!NotWatched
    BY <2>1 DEF E!Watched
  <2>4. epoll[fd].events = ep_events[x]
    BY <2>2, <2>3 DEF EInv, StateRight
  <2> QED
    BY <2>1, <2>2, <2>4
<1>2. ASSUME NEW x \in wanted
      PROVE  \E fd \in watched : <<fd, epoll[fd].events>> = <<FdOf[x], ep_events[x]>>
  <2>1. x \in E!Added /\ ep_events[x] # {} /\ x \in Channels /\ FdOf[x] \in E!Fds
    BY <1>2, ETypes, Zenon DEF E!Added
  <2>2. epoll[FdOf[x]].events = ep_events[x]
    BY <2>1, Zenon DEF EInv, StateRight
  <2>3. FdOf[x] \in E!Watched
    BY <2>1, <2>2, NotWatchedFields DEF E!Watched
  <2> QED
    BY <2>1, <2>2, <2>3
<1> QED
  BY <1>1, <1>2 DEF E!KernelWatches

(* The invariant of EPollPoller, for any channels and descriptors. *)
THEOREM EPollInvariance == ASSUME InitEventListSize \in Nat \ {0} PROVE MCSpec => []EInv
<1>1. MCInit => EInv
  BY EInvInit DEF MCInit
<1>2. EInv /\ [MCNext]_<<which, vars, epollVars>> => EInv'
  <2> SUFFICES ASSUME EInv, [MCNext]_<<which, vars, epollVars>> PROVE EInv'
    OBVIOUS
  <2>1. ASSUME NEW c \in Channels, c \notin ep_exists /\ E!Construct(c), UNCHANGED E!pollerVars
        PROVE  EInv'
    BY <2>1, EConstructStep
  <2>2. ASSUME NEW c \in Channels, E!Destroy(c), E!CloseOrKeep(FdOf[c]),
               UNCHANGED <<ep_channels, eventListSize, ctlFailed>>
        PROVE  EInv'
    BY <2>2, EDestroyStep
  <2>3. ASSUME NEW c \in Channels, NEW events \in E!Interest, E!UpdateChannel(c, events)
        PROVE  EInv'
    BY <2>3, EUpdateStep
  <2>4. ASSUME NEW c \in Channels, E!RemoveChannel(c)
        PROVE  EInv'
    BY <2>4, ERemoveStep
  <2>5. ASSUME NEW c \in Channels, E!HandleEvent(c), UNCHANGED E!pollerVars
        PROVE  EInv'
    BY <2>5, EHandleStep
  <2>6. CASE E!Poll
    BY <2>6, EPollStep
  <2>7. CASE E!EndEvents /\ UNCHANGED E!pollerVars
    BY <2>7, EEndStep
  <2>8. CASE UNCHANGED epollVars
    <3>1. UNCHANGED <<E!channelVars, E!loopVars, epoll, ep_channels, eventListSize, ctlFailed>>
      BY <2>8 DEF epollVars, E!channelVars, E!loopVars
    <3>2. /\ EOwners' /\ StateRight' /\ E!MapConsistent' /\ E!CtlNeverFails'
          /\ E!Added' = E!Added
      BY <3>1, ELoopOnly
    <3>3. E!TypeOK' /\ EIteration' /\ E!HandlersExist'
      BY <3>1, <3>2, Zenon DEF EInv, E!TypeOK, E!ChannelTypeOK, EIteration, E!HandlersExist,
                        E!channelVars, E!loopVars
    <3> QED
      BY <3>2, <3>3 DEF EInv
  <2>9. E!Next \/ UNCHANGED epollVars
    BY DEF MCNext
  <2> QED
    BY <2>1, <2>2, <2>3, <2>4, <2>5, <2>6, <2>7, <2>8, <2>9 DEF E!Next
<1> QED
  BY <1>1, <1>2, PTL DEF MCSpec

(* In whatever order the owners of channels enable, disable, remove and        *)
(* destroy them and use descriptors again: no epoll_ctl fails; the map, the    *)
(* indices and the epoll instance agree, which updateChannel, removeChannel    *)
(* and fillActiveChannels assert; the kernel watches what the channels ask     *)
(* for; and loop() calls no channel that was removed or destroyed.             *)
THEOREM EPollCorrect ==
  ASSUME InitEventListSize \in Nat \ {0}
  PROVE  MCSpec => []EPollAgrees
<1>1. EInv => EPollAgrees
  BY EKernelRight DEF EInv, EPollAgrees
<1> QED
  BY <1>1, EPollInvariance, PTL

==============================================================================
