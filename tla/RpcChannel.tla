------------------------------ MODULE RpcChannel ------------------------------
(***************************************************************************)
(* RPC (net/protorpc): the RpcChannel of a client, called from several     *)
(* threads and from the closures of earlier calls, and the RpcChannel that *)
(* RpcServer::onConnection makes for the connection.  The connection gives *)
(* each message whole and in order (ProtobufCodecLite.tla), until it is    *)
(* lost.  CallMethod is split where the loop thread of the client can see  *)
(* it: the id, the entry of outstandings_, the message sent.               *)
(***************************************************************************)
EXTENDS Integers, Sequences

CONSTANTS
  Calls,                 \* the calls the client's threads make
  NestedIn,              \* the call whose closure makes this call, or NoCall
  ErrorOf,               \* NO_ERROR, or the error the server finds in the request
  NoCall,
  RpcPrograms            \* deferred: a service runs its closure later, in another
                         \* thread; lost: the connection may go down.  Not both: the
                         \* closure holds a pointer to the channel

VARIABLES
  rpcProgram,            \* the member of RpcPrograms; never changes
  id_, outstandings_,    \* of the client's channel: the last id; a set of [id, call]
  pc, idOf,              \* where CallMethod is, by call, and the id it took
  inDone,                \* the call the loop thread makes in a closure, or NoCall
  toServer, toClient,    \* messages sent and not yet read
  running,               \* messages whose closure a service has still to run
  up,                    \* the connection
  clientChannel, serverChannel, \* TRUE until destroyed
  outcome,               \* history: what done was run with, by call
  rpcFreed               \* history: how often the response object was deleted

callVars == <<pc, idOf, inDone, outcome, rpcFreed>>
rpcVars == <<rpcProgram, id_, outstandings_, callVars, toServer, toClient, running, up,
          clientChannel, serverChannel>>

RpcInit ==
  /\ rpcProgram \in RpcPrograms
  /\ id_ = 0
  /\ outstandings_ = {}
  /\ pc = [c \in Calls |-> "idle"]
  /\ idOf = [c \in Calls |-> 0]
  /\ inDone = NoCall
  /\ toServer = <<>> /\ toClient = <<>>
  /\ running = {}
  /\ up = TRUE
  /\ clientChannel = TRUE /\ serverChannel = TRUE
  /\ outcome = [c \in Calls |-> <<>>]
  /\ rpcFreed = [c \in Calls |-> 0]

------------------------------------------------------------------------------
(* CallMethod                                                               *)

MayCallMethod(c) == clientChannel /\ (NestedIn[c] = NoCall \/ inDone = c)

(* Faulty: the id is read before it is incremented. *)
TakeId_NotAtomic(c) ==
  /\ pc[c] = "idle" /\ MayCallMethod(c)
  /\ id_' = id_ + (IF \E d \in Calls : pc[d] = "id" THEN 0 ELSE 1)
  /\ idOf' = [idOf EXCEPT ![c] = id_']
  /\ pc' = [pc EXCEPT ![c] = "id"]
  /\ UNCHANGED <<rpcProgram, outstandings_, inDone, outcome, rpcFreed, toServer, toClient, running,
                 up, clientChannel, serverChannel>>

(* id_.incrementAndGet(). *)
TakeId(c) ==
  /\ pc[c] = "idle" /\ MayCallMethod(c)
  /\ id_' = id_ + 1
  /\ idOf' = [idOf EXCEPT ![c] = id_']
  /\ pc' = [pc EXCEPT ![c] = "id"]
  /\ UNCHANGED <<rpcProgram, outstandings_, inDone, outcome, rpcFreed, toServer, toClient, running,
                 up, clientChannel, serverChannel>>

Store(c) ==
  /\ pc[c] = "id"
  /\ outstandings_' = {o \in outstandings_ : o.id # idOf[c]} \cup {[id |-> idOf[c], call |-> c]}
  /\ pc' = [pc EXCEPT ![c] = "stored"]
  /\ UNCHANGED <<rpcProgram, id_, idOf, inDone, outcome, rpcFreed, toServer, toClient, running,
                 up, clientChannel, serverChannel>>

SendRequest(c) ==
  /\ pc[c] = "stored"
  /\ toServer' = IF up THEN Append(toServer, [id |-> idOf[c], request |-> c]) ELSE toServer
  /\ pc' = [pc EXCEPT ![c] = "sent"]
  /\ inDone' = IF inDone = c THEN NoCall ELSE inDone
  /\ UNCHANGED <<rpcProgram, id_, outstandings_, idOf, outcome, rpcFreed, toClient, running, up,
                 clientChannel, serverChannel>>

------------------------------------------------------------------------------
(* onRpcMessage                                                             *)

(* The call whose closure the done of c makes next, if there is one. *)
NextIn(c) == LET S == {d \in Calls : NestedIn[d] = c} IN IF S = {} THEN NoCall ELSE CHOOSE d \in S : TRUE

(* A response, in the loop thread of the client: erase, parse, run done, delete. *)
OnResponse ==
  /\ toClient # <<>> /\ clientChannel /\ inDone = NoCall
  /\ LET m == Head(toClient)
         found == {o \in outstandings_ : o.id = m.id}
     IN  /\ outstandings_' = outstandings_ \ found
         /\ outcome' = [c \in Calls |-> IF \E o \in found : o.call = c THEN m.result ELSE outcome[c]]
         /\ rpcFreed' = [c \in Calls |-> IF \E o \in found : o.call = c THEN rpcFreed[c] + 1 ELSE rpcFreed[c]]
         /\ inDone' = IF found = {} THEN NoCall ELSE NextIn((CHOOSE o \in found : TRUE).call)
  /\ toClient' = Tail(toClient)
  /\ UNCHANGED <<rpcProgram, id_, pc, idOf, toServer, running, up, clientChannel, serverChannel>>

Response(m, result) == [id |-> m.id, result |-> result]

(* doneCallback, which a service runs when it has the answer. *)
Answer(m) == IF up THEN Append(toClient, Response(m, <<"answer to", m.request>>)) ELSE toClient

(* Faulty: an error is not reported to the caller. *)
OnRequest_ErrorDropped ==
  /\ toServer # <<>> /\ serverChannel
  /\ toClient' = IF ErrorOf[Head(toServer).request] # "NO_ERROR" THEN toClient ELSE Answer(Head(toServer))
  /\ toServer' = Tail(toServer)
  /\ UNCHANGED <<rpcProgram, id_, outstandings_, callVars, running, up, clientChannel, serverChannel>>

(* A request, in the loop thread of the server. *)
OnRequest ==
  /\ toServer # <<>> /\ serverChannel
  /\ LET m == Head(toServer)
         error == ErrorOf[m.request]
     IN  /\ toClient' = CASE error # "NO_ERROR" ->
                               IF up THEN Append(toClient, Response(m, <<error>>)) ELSE toClient
                          [] error = "NO_ERROR" /\ ~rpcProgram.deferred -> Answer(m)
                          [] OTHER -> toClient
         /\ running' = IF error = "NO_ERROR" /\ rpcProgram.deferred THEN running \cup {m} ELSE running
  /\ toServer' = Tail(toServer)
  /\ UNCHANGED <<rpcProgram, id_, outstandings_, callVars, up, clientChannel, serverChannel>>

(* A service runs the closure it was given. *)
DoneCallback(m) ==
  /\ m \in running /\ serverChannel
  /\ running' = running \ {m}
  /\ toClient' = Answer(m)
  /\ UNCHANGED <<rpcProgram, id_, outstandings_, callVars, toServer, up, clientChannel, serverChannel>>

------------------------------------------------------------------------------
(* The connection goes down.                                                *)

(* Messages on their way are lost; RpcServer::onConnection drops its channel. *)
ConnectionDown ==
  /\ rpcProgram.lost /\ up
  /\ up' = FALSE
  /\ toServer' = <<>> /\ toClient' = <<>>
  /\ serverChannel' = FALSE
  /\ UNCHANGED <<rpcProgram, id_, outstandings_, callVars, running, clientChannel>>

(* ~RpcChannel of the client, when its threads make no more calls. *)
DestroyChannel ==
  /\ ~up /\ clientChannel /\ inDone = NoCall
  /\ \A c \in Calls : pc[c] \in {"idle", "sent"}
  /\ clientChannel' = FALSE
  /\ rpcFreed' = [c \in Calls |-> IF \E o \in outstandings_ : o.call = c THEN rpcFreed[c] + 1 ELSE rpcFreed[c]]
  /\ outstandings_' = {}
  /\ UNCHANGED <<rpcProgram, id_, pc, idOf, inDone, outcome, toServer, toClient, running, up,
                 serverChannel>>

RpcStep ==
  \/ \E c \in Calls : TakeId(c) \/ Store(c) \/ SendRequest(c)
  \/ OnResponse \/ OnRequest
  \/ \E m \in running : DoneCallback(m)

RpcNext == RpcStep \/ ConnectionDown \/ DestroyChannel

RpcSpec == RpcInit /\ [][RpcNext]_rpcVars

------------------------------------------------------------------------------

(* A response that arrives finds its call: the entry is in outstandings_ before *)
(* the request can be answered, and no two calls have the same id.              *)
ResponseFindsCall ==
  clientChannel =>
    \A i \in DOMAIN toClient :
      \E o \in outstandings_ : o.id = toClient[i].id /\ idOf[o.call] = o.id

(* done runs with the answer to its own request, or with the error the server   *)
(* found in it.                                                                 *)
DoneWithOwn ==
  \A c \in Calls :
    outcome[c] \in {<<>>, <<"answer to", c>>, <<ErrorOf[c]>>}

(* The response object of a call is deleted once: by the response, or by the    *)
(* destructor of the channel.                                                   *)
FreedOnce ==
  \A c \in Calls :
    /\ rpcFreed[c] <= 1
    /\ (~clientChannel /\ pc[c] = "sent") => rpcFreed[c] = 1

(* The three together: done runs once, with the outcome of its own call, and    *)
(* each response object is deleted once.                                        *)
OwnOutcome == DoneWithOwn /\ ResponseFindsCall /\ FreedOnce

(* While the connection lasts, every call is answered, also the calls that the  *)
(* closures of other calls make.                                                *)
EveryCallAnswered == (~rpcProgram.lost) ~> (\A c \in Calls : outcome[c] # <<>>)
=============================================================================
