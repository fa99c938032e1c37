------------------------------ MODULE Connector ------------------------------
(***************************************************************************)
(* Connector (net/Connector.cc), which connects, retries and stops.  Each  *)
(* handler is an operator from the connector before it to the connector    *)
(* after it.  Of the fields, retries counts the timers that retry has set  *)
(* and not cancelled, open the descriptors that the connector has to close *)
(* or to hand over, failed names the assertions that failed, and gaveUp    *)
(* tells that connect failed with an errno that is not retried.            *)
(***************************************************************************)
EXTENDS Integers

CONSTANTS kInitRetryDelayMs, kMaxRetryDelayMs

(* The delays are numbers of milliseconds. *)
ASSUME ClientAssumption == kInitRetryDelayMs \in Nat /\ kMaxRetryDelayMs \in Nat

NewConnector ==
  [connect_ |-> FALSE, state_ |-> "kDisconnected", channel_ |-> "none",
   retryDelayMs_ |-> kInitRetryDelayMs, retries |-> 0, open |-> 0, failed |-> {},
   gaveUp |-> FALSE]

AssertThat(c, name, holds) == IF holds THEN c ELSE [c EXCEPT !.failed = @ \cup {name}]

Close(c) == [c EXCEPT !.open = @ - 1]

(* Faulty: no timer. *)
Retry_Never(c) == [Close(c) EXCEPT !.state_ = "kDisconnected"]

Retry(c) ==
  LET d == [Close(c) EXCEPT !.state_ = "kDisconnected"]
  IN  IF c.connect_
      THEN [d EXCEPT !.retries = @ + 1,
                     !.retryDelayMs_ = IF @ * 2 < kMaxRetryDelayMs THEN @ * 2 ELSE kMaxRetryDelayMs]
      ELSE d

(* The channel is out of the poller; resetChannel, which is queued, drops it. *)
RemoveAndResetChannel(c) == [c EXCEPT !.channel_ = "removed"]

ResetChannel(c) == [c EXCEPT !.channel_ = "none"]

Connecting(c) ==
  [AssertThat(c, "connecting: !channel_", c.channel_ = "none") EXCEPT
     !.state_ = "kConnecting", !.channel_ = "enabled"]

(* connect, by the class of the errno of sockets::connect. *)
Connect(c, result) ==
  LET d == [c EXCEPT !.open = @ + 1]
  IN  CASE result = "inProgress" -> Connecting(d)
        [] result = "again"      -> Retry(d)
        [] result = "error"      -> [Close(d) EXCEPT !.gaveUp = TRUE]

StartInLoop(c, result) ==
  LET d == AssertThat(c, "startInLoop: kDisconnected", c.state_ = "kDisconnected")
  IN  IF c.connect_ THEN Connect(d, result) ELSE d

StopInLoop(c) ==
  IF c.state_ = "kConnecting" THEN Retry(RemoveAndResetChannel(c)) ELSE c

Restart(c, result) ==
  StartInLoop([c EXCEPT !.state_ = "kDisconnected", !.connect_ = TRUE,
                        !.retryDelayMs_ = kInitRetryDelayMs], result)

(* The descriptor is the TcpConnection's from here on. *)
HandedOver(c) == [c EXCEPT !.open = @ - 1]

(* Faulty: a connection is handed over although stop was called. *)
HandleWrite_EvenStopped(c, outcome) ==
  IF outcome = "connected"
  THEN HandedOver([RemoveAndResetChannel(c) EXCEPT !.state_ = "kConnected", !.connect_ = TRUE])
  ELSE Retry(RemoveAndResetChannel(c))

(* handleWrite with what getSocketError and isSelfConnect find. *)
HandleWrite(c, outcome) ==
  LET d == RemoveAndResetChannel(c)
  IN  IF c.state_ # "kConnecting"
      THEN AssertThat(c, "handleWrite: kDisconnected", c.state_ = "kDisconnected")
      ELSE IF outcome = "connected"
           THEN HandedOver([d EXCEPT !.state_ = "kConnected"])
           ELSE Retry(d)

(* handleError; the handleWrite that handleEvent may call next finds kDisconnected. *)
HandleError(c) ==
  IF c.state_ = "kConnecting" THEN Retry(RemoveAndResetChannel(c)) ELSE c
=============================================================================
