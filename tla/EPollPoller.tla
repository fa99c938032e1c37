----------------------------- MODULE EPollPoller -----------------------------
(***************************************************************************)
(* EPollPoller (net/poller/EPollPoller.cc): the map from descriptors to    *)
(* channels, the state of each channel in the epoll instance kept in its   *)
(* index, and the list of events that grows when it was filled.            *)
(***************************************************************************)
EXTENDS Channel, FiniteSets

CONSTANT InitEventListSize      \* kInitEventListSize

VARIABLES
  epoll,                 \* the epoll instance: descriptor to [events, channel]
  channels_,             \* function from descriptors to channels
  eventListSize,         \* events_.size()
  ctlFailed              \* history: an epoll_ctl call failed

pollerVars == <<epoll, channels_, eventListSize, ctlFailed>>
vars == <<channelVars, loopVars, pollerVars>>

kNew == -1
kAdded == 1
kDeleted == 2

NotWatched == [events |-> {}, channel |-> NoChannel]

Init ==
  /\ ChannelInit
  /\ epoll = [fd \in Fds |-> NotWatched]
  /\ channels_ = [fd \in Fds |-> NoChannel]
  /\ eventListSize = InitEventListSize
  /\ ctlFailed = FALSE

(* update(): epoll_ctl fails with EEXIST or ENOENT. *)
CtlAdd(c, events) ==
  /\ ctlFailed' = (ctlFailed \/ epoll[FdOf[c]] # NotWatched)
  /\ epoll' = [epoll EXCEPT ![FdOf[c]] = [events |-> events, channel |-> c]]

CtlMod(c, events) ==
  /\ ctlFailed' = (ctlFailed \/ epoll[FdOf[c]] = NotWatched)
  /\ epoll' = [epoll EXCEPT ![FdOf[c]].events = events]

CtlDel(c) ==
  /\ ctlFailed' = (ctlFailed \/ epoll[FdOf[c]] = NotWatched)
  /\ epoll' = [epoll EXCEPT ![FdOf[c]] = NotWatched]

UpdateChannel(c, events) ==
  /\ Update(c, events)
  /\ \/ /\ index_[c] \in {kNew, kDeleted}
        /\ channels_' = IF index_[c] = kNew
                        THEN [channels_ EXCEPT ![FdOf[c]] = c] ELSE channels_
        /\ index_' = [index_ EXCEPT ![c] = kAdded]
        /\ CtlAdd(c, events)
     \/ /\ index_[c] = kAdded /\ events = {}
        /\ CtlDel(c)
        /\ index_' = [index_ EXCEPT ![c] = kDeleted]
        /\ UNCHANGED channels_
     \/ /\ index_[c] = kAdded /\ events # {}
        /\ CtlMod(c, events)
        /\ UNCHANGED <<index_, channels_>>
  /\ UNCHANGED eventListSize

(* Faulty: the channel is not deleted from the epoll instance. *)
RemoveChannel_NoDel(c) ==
  /\ Remove(c)
  /\ channels_' = [channels_ EXCEPT ![FdOf[c]] = NoChannel]
  /\ index_' = [index_ EXCEPT ![c] = kNew]
  /\ UNCHANGED <<epoll, ctlFailed, eventListSize>>

RemoveChannel(c) ==
  /\ Remove(c)
  /\ channels_' = [channels_ EXCEPT ![FdOf[c]] = NoChannel]
  /\ index_' = [index_ EXCEPT ![c] = kNew]
  /\ IF index_[c] = kAdded THEN CtlDel(c) ELSE UNCHANGED <<epoll, ctlFailed>>
  /\ UNCHANGED eventListSize

(* The owner of a destroyed channel closes the descriptor, which takes it out  *)
(* of the epoll instance, or gives it to another channel (Connector).          *)
CloseOrKeep(fd) ==
  \/ epoll' = [epoll EXCEPT ![fd] = NotWatched]
  \/ epoll' = epoll

Watched == {fd \in Fds : epoll[fd] # NotWatched}

(* The list grows when epoll_wait filled it. *)
NewEventListSize(numEvents) ==
  IF numEvents = eventListSize THEN eventListSize * 2 ELSE eventListSize

(* epoll_wait reports on at most eventListSize descriptors, any it watches,     *)
(* even for EPOLLHUP alone; data.ptr is the channel.                            *)
Poll ==
  /\ \E F \in (SUBSET Watched) \ {{}} :
       /\ Cardinality(F) <= eventListSize
       /\ eventListSize' = NewEventListSize(Cardinality(F))
       /\ StartEvents({epoll[fd].channel : fd \in F})
  /\ UNCHANGED <<epoll, channels_, ctlFailed>>

Next ==
  \/ \E c \in Channels :
       \/ (c \notin exists /\ Construct(c)) /\ UNCHANGED pollerVars
       \/ Destroy(c) /\ CloseOrKeep(FdOf[c]) /\ UNCHANGED <<channels_, eventListSize, ctlFailed>>
       \/ \E events \in Interest : UpdateChannel(c, events)
       \/ RemoveChannel(c)
       \/ HandleEvent(c) /\ UNCHANGED pollerVars
  \/ Poll
  \/ EndEvents /\ UNCHANGED pollerVars

Spec == Init /\ [][Next]_vars

------------------------------------------------------------------------------
(* Type correctness. *)
TypeOK ==
  /\ ChannelTypeOK
  /\ \A c \in Channels : index_[c] \in {kNew, kAdded, kDeleted}
  /\ channels_ \in [Fds -> Channels \cup {NoChannel}]
  /\ epoll \in [Fds -> [events : Interest, channel : Channels \cup {NoChannel}]]
  /\ eventListSize \in Nat \ {0}
  /\ ctlFailed \in BOOLEAN

(* No epoll_ctl call fails (a failed EPOLL_CTL_ADD or _MOD is LOG_SYSFATAL):   *)
(* kAdded and kDeleted keep track of what the epoll instance holds, though     *)
(* descriptors are used again.                                                 *)
CtlNeverFails == ~ctlFailed

(* channels_ holds exactly the channels that were added, under their           *)
(* descriptors, and the epoll instance refers to no other channel: the         *)
(* assertions of updateChannel, removeChannel and fillActiveChannels.          *)
MapConsistent ==
  /\ \A c \in Added : channels_[FdOf[c]] = c
  /\ \A fd \in Fds : channels_[fd] # NoChannel => channels_[fd] \in Added
  /\ \A fd \in Watched : epoll[fd].channel = channels_[fd]

(* The kernel watches every channel that asks for events, for exactly these    *)
(* events, and nothing else for any event.  A channel without events may still *)
(* be in the epoll instance, which then reports EPOLLHUP and EPOLLERR for it:  *)
(* updateChannel adds a channel that is disabled again.                        *)
KernelWatches ==
  {<<fd, epoll[fd].events>> : fd \in {x \in Watched : epoll[x].events # {}}}
    = {<<FdOf[c], events_[c]>> : c \in {x \in Added : events_[x] # {}}}

(* loop() calls handleEvent only on channels that exist and are in the poller, *)
(* though handlers remove and destroy channels during the iteration.           *)
HandlersExist == toHandle \subseteq Added

==============================================================================
