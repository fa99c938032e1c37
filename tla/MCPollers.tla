------------------------------ MODULE MCPollers ------------------------------
(***************************************************************************)
(* Both pollers for TLC: four channels, two of them with the same          *)
(* descriptor, one with descriptor 0.  A behaviour is one of PollPoller,   *)
(* whose channels are always enabled before they are disabled, or one of   *)
(* EPollPoller, with variables of its own; which says which of the two,    *)
(* and the other one stays in its initial state.                           *)
(***************************************************************************)
EXTENDS PollPoller, TLC

CONSTANTS c1, c2, c3, c4, InitEventListSize

MCChannels == {c1, c2, c3, c4}
MCFdOf     == c1 :> 0 @@ c2 :> 1 @@ c3 :> 2 @@ c4 :> 1

VARIABLES which, ep_exists, ep_events, ep_index, ep_addedToLoop, ep_eventHandling,
          ep_activeChannels, ep_currentActiveChannel, ep_toHandle, ep_channels, epoll,
          eventListSize, ctlFailed

E == INSTANCE EPollPoller
       WITH exists <- ep_exists, events_ <- ep_events, index_ <- ep_index,
            addedToLoop_ <- ep_addedToLoop, eventHandling_ <- ep_eventHandling,
            activeChannels_ <- ep_activeChannels,
            currentActiveChannel_ <- ep_currentActiveChannel, toHandle <- ep_toHandle,
            channels_ <- ep_channels, EnableFirst <- FALSE

epollVars == <<ep_exists, ep_events, ep_index, ep_addedToLoop, ep_eventHandling, ep_activeChannels,
               ep_currentActiveChannel, ep_toHandle, ep_channels, epoll, eventListSize, ctlFailed>>

MCInit == which \in {"poll", "epoll"} /\ Init /\ E!Init

MCNext ==
  \/ which = "poll" /\ Next /\ UNCHANGED <<which, epollVars>>
  \/ which = "epoll" /\ E!Next /\ UNCHANGED <<which, vars>>

MCSpec == MCInit /\ [][MCNext]_<<which, vars, epollVars>>

-----------------------------------------------------------------------------
(* EPollPoller: no epoll_ctl call of update() fails, the map channels_, the    *)
(* indices of the channels and the epoll instance agree, the kernel watches    *)
(* what the channels ask for, and loop() calls only channels in the poller.    *)
EPollAgrees ==
  E!CtlNeverFails /\ E!MapConsistent /\ E!KernelWatches /\ E!HandlersExist

==============================================================================
