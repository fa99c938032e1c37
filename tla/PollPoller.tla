----------------------------- MODULE PollPoller ------------------------------
(***************************************************************************)
(* PollPoller (net/poller/PollPoller.cc): the array given to poll(), the   *)
(* map from descriptors to channels, and the index each channel keeps of   *)
(* its place in the array, which removal of another channel changes.       *)
(***************************************************************************)
EXTENDS Channel, Sequences

VARIABLES
  pollfds_,              \* sequence of [fd, events]; fd is -fd-1 while it is ignored
  channels_              \* function from descriptors to channels

vars == <<channelVars, loopVars, pollfds_, channels_>>

Init == ChannelInit /\ pollfds_ = <<>> /\ channels_ = [fd \in Fds |-> NoChannel]

Ignored(fd) == -fd - 1
FdOfEntry(entry) == IF entry.fd < 0 THEN Ignored(entry.fd) ELSE entry.fd

(* A channel that was removed keeps its index: it may only be destroyed. *)
Removed(c) == index_[c] >= 0 /\ ~addedToLoop_[c]

(* Faulty: the entry of a channel without events is not ignored. *)
UpdateChannel_NotIgnored(c, events) ==
  /\ ~Removed(c)
  /\ Update(c, events)
  /\ IF index_[c] < 0
     THEN /\ pollfds_' = Append(pollfds_, [fd |-> FdOf[c], events |-> events])
          /\ index_' = [index_ EXCEPT ![c] = Len(pollfds_)]
          /\ channels_' = [channels_ EXCEPT ![FdOf[c]] = c]
     ELSE /\ pollfds_' = [pollfds_ EXCEPT ![index_[c] + 1] = [fd |-> FdOf[c], events |-> events]]
          /\ UNCHANGED <<index_, channels_>>

UpdateChannel(c, events) ==
  /\ ~Removed(c)
  /\ Update(c, events)
  /\ IF index_[c] < 0
     THEN /\ pollfds_' = Append(pollfds_, [fd |-> FdOf[c], events |-> events])
          /\ index_' = [index_ EXCEPT ![c] = Len(pollfds_)]
          /\ channels_' = [channels_ EXCEPT ![FdOf[c]] = c]
     ELSE /\ pollfds_' = [pollfds_ EXCEPT ![index_[c] + 1] =
                            [fd |-> IF events = {} THEN Ignored(FdOf[c]) ELSE FdOf[c],
                             events |-> events]]
          /\ UNCHANGED <<index_, channels_>>

(* Faulty: the channel of the entry that moved is not told. *)
RemoveChannel_NoSetIndex(c) ==
  /\ Remove(c)
  /\ LET n == Len(pollfds_)
     IN  pollfds_' = SubSeq([pollfds_ EXCEPT ![index_[c] + 1] = pollfds_[n]], 1, n - 1)
  /\ channels_' = [channels_ EXCEPT ![FdOf[c]] = NoChannel]
  /\ UNCHANGED index_

(* The last entry takes the place of the removed one, and its channel is told. *)
RemoveChannel(c) ==
  /\ Remove(c)
  /\ LET i == index_[c] + 1
         n == Len(pollfds_)
         last == channels_[FdOfEntry(pollfds_[n])]
     IN  /\ pollfds_' = SubSeq([pollfds_ EXCEPT ![i] = pollfds_[n]], 1, n - 1)
         /\ index_' = IF i = n THEN index_ ELSE [index_ EXCEPT ![last] = index_[c]]
  /\ channels_' = [channels_ EXCEPT ![FdOf[c]] = NoChannel]

(* poll() reports on any of the entries that are not ignored, even for POLLHUP *)
(* alone.  fillActiveChannels finds the channel by the descriptor.             *)
Watched == {i \in DOMAIN pollfds_ : pollfds_[i].fd >= 0}

Poll ==
  /\ \E I \in (SUBSET Watched) \ {{}} :
       StartEvents({channels_[pollfds_[i].fd] : i \in I})
  /\ UNCHANGED <<pollfds_, channels_>>

Next ==
  \/ \E c \in Channels :
       \/ (c \notin exists /\ Construct(c)) /\ UNCHANGED <<pollfds_, channels_>>
       \/ Destroy(c) /\ UNCHANGED <<pollfds_, channels_>>
       \/ \E events \in Interest : UpdateChannel(c, events)
       \/ RemoveChannel(c)
       \/ HandleEvent(c) /\ UNCHANGED <<pollfds_, channels_>>
  \/ Poll
  \/ EndEvents /\ UNCHANGED <<pollfds_, channels_>>

Spec == Init /\ [][Next]_vars

------------------------------------------------------------------------------
(* Type correctness. *)
TypeOK ==
  /\ ChannelTypeOK
  /\ pollfds_ \in Seq([fd : Int, events : Interest])
  /\ channels_ \in [Fds -> Channels \cup {NoChannel}]

(* The map, the array and the indices agree: every channel that was added is   *)
(* found by its descriptor and is at its index, every entry of the array is    *)
(* that of the channel found by its descriptor, and no channel appears twice.  *)
(* These are the assertions of updateChannel, removeChannel and                *)
(* fillActiveChannels.                                                         *)
IndexConsistent ==
  /\ \A c \in Added :
       /\ channels_[FdOf[c]] = c
       /\ index_[c] + 1 \in DOMAIN pollfds_
       /\ FdOfEntry(pollfds_[index_[c] + 1]) = FdOf[c]
       /\ pollfds_[index_[c] + 1].events = events_[c]
  /\ \A i \in DOMAIN pollfds_ :
       /\ FdOfEntry(pollfds_[i]) \in Fds
       /\ channels_[FdOfEntry(pollfds_[i])] \in Added
       /\ index_[channels_[FdOfEntry(pollfds_[i])]] = i - 1

(* The assertion of removeChannel: a channel without events is ignored by      *)
(* poll() before it is removed.                                                *)
IdleIsIgnored ==
  \A c \in Added :
    (events_[c] = {} /\ index_[c] + 1 \in DOMAIN pollfds_)
      => pollfds_[index_[c] + 1].fd = Ignored(FdOf[c])

(* The kernel watches exactly the channels that ask for events, for exactly    *)
(* the events they ask for.                                                    *)
KernelWatches ==
  {<<pollfds_[i].fd, pollfds_[i].events>> : i \in Watched}
    = {<<FdOf[c], events_[c]>> : c \in {x \in Added : events_[x] # {}}}

(* loop() calls handleEvent only on channels that exist and are in the poller, *)
(* though handlers remove and destroy channels during the iteration.           *)
HandlersExist == toHandle \subseteq Added

==============================================================================
