------------------------------- MODULE Channel -------------------------------
(***************************************************************************)
(* The Channels of one EventLoop and the part of loop() that handles their *)
(* events, without the Poller: PollPoller.tla and EPollPoller.tla extend   *)
(* this module.  All of it runs in the loop thread; handlers update and    *)
(* remove channels while loop() iterates over the active ones.             *)
(***************************************************************************)
EXTENDS Integers

CONSTANTS
  Channels,              \* Channel objects
  FdOf,                  \* the file descriptor of each; some share one, used in turn
  NoChannel,             \* the null pointer
  EnableFirst            \* whether a channel is always enabled before it is disabled

Fds == {FdOf[c] : c \in Channels}
Interest == SUBSET {"IN", "OUT"}     \* kReadEvent and kWriteEvent

ASSUME ChannelAssumption ==
  /\ FdOf \in [Channels -> Nat]
  /\ NoChannel \notin Channels
  /\ EnableFirst \in BOOLEAN

VARIABLES
  exists,                \* the channels that were constructed and not destroyed
  events_, index_, addedToLoop_,                \* members of Channel
  eventHandling_, activeChannels_, currentActiveChannel_,    \* members of EventLoop
  toHandle               \* what is left of activeChannels_ in the for loop of loop()

loopVars == <<eventHandling_, activeChannels_, currentActiveChannel_, toHandle>>
channelVars == <<exists, events_, index_, addedToLoop_>>

ChannelInit ==
  /\ exists = {}
  /\ events_ = [c \in Channels |-> {}]
  /\ index_ = [c \in Channels |-> -1]
  /\ addedToLoop_ = [c \in Channels |-> FALSE]
  /\ eventHandling_ = FALSE /\ activeChannels_ = {} /\ toHandle = {}
  /\ currentActiveChannel_ = NoChannel

(* A new Channel for a descriptor that no other channel has. *)
Construct(c) ==
  /\ \A d \in exists : FdOf[d] # FdOf[c]
  /\ exists' = exists \cup {c}
  /\ events_' = [events_ EXCEPT ![c] = {}]
  /\ index_' = [index_ EXCEPT ![c] = -1]
  /\ UNCHANGED <<addedToLoop_, loopVars>>

(* ~Channel, with its three assertions as what its owner has to ensure. *)
Destroy(c) ==
  /\ c \in exists
  /\ ~addedToLoop_[c]
  /\ c # currentActiveChannel_
  /\ exists' = exists \ {c}
  /\ UNCHANGED <<events_, index_, addedToLoop_, loopVars>>

(* enableReading, enableWriting, disableReading, disableWriting, disableAll. *)
NewEvents(c) == {events_[c] \cup {e} : e \in {"IN", "OUT"}}
                \cup {events_[c] \ {e} : e \in {"IN", "OUT"}} \cup {{}}

(* The part of update() that is not the poller's. *)
Update(c, events) ==
  /\ c \in exists
  /\ events \in NewEvents(c)
  /\ EnableFirst => (events # {} \/ addedToLoop_[c])
  /\ events_' = [events_ EXCEPT ![c] = events]
  /\ addedToLoop_' = [addedToLoop_ EXCEPT ![c] = TRUE]
  /\ UNCHANGED <<exists, loopVars>>

(* Faulty: EventLoop::removeChannel does not check the active channels. *)
Remove_AnyTime(c) ==
  /\ c \in exists /\ addedToLoop_[c]
  /\ events_[c] = {}
  /\ addedToLoop_' = [addedToLoop_ EXCEPT ![c] = FALSE]
  /\ UNCHANGED <<exists, events_, loopVars>>

(* The part of remove() and EventLoop::removeChannel that is not the poller's. *)
Remove(c) ==
  /\ c \in exists /\ addedToLoop_[c]
  /\ events_[c] = {}
  /\ eventHandling_ => (c = currentActiveChannel_ \/ c \notin activeChannels_)
  /\ addedToLoop_' = [addedToLoop_ EXCEPT ![c] = FALSE]
  /\ UNCHANGED <<exists, events_, loopVars>>

(* loop() after poll() returned the active channels.  What happened to each     *)
(* (revents_) is left out: its handler may do anything to any channel.          *)
StartEvents(active) ==
  /\ ~eventHandling_
  /\ eventHandling_' = TRUE
  /\ activeChannels_' = active
  /\ toHandle' = active
  /\ UNCHANGED <<channelVars, currentActiveChannel_>>

HandleEvent(c) ==
  /\ c \in toHandle
  /\ toHandle' = toHandle \ {c}
  /\ currentActiveChannel_' = c
  /\ UNCHANGED <<channelVars, eventHandling_, activeChannels_>>

EndEvents ==
  /\ eventHandling_ /\ toHandle = {}
  /\ eventHandling_' = FALSE
  /\ currentActiveChannel_' = NoChannel
  /\ UNCHANGED <<channelVars, activeChannels_, toHandle>>

ChannelTypeOK ==
  /\ exists \subseteq Channels
  /\ events_ \in [Channels -> Interest]
  /\ index_ \in [Channels -> Int]
  /\ addedToLoop_ \in [Channels -> BOOLEAN]
  /\ eventHandling_ \in BOOLEAN
  /\ toHandle \subseteq activeChannels_ /\ activeChannels_ \subseteq Channels
  /\ currentActiveChannel_ \in Channels \cup {NoChannel}

Added == {c \in exists : addedToLoop_[c]}

==============================================================================
