------------------------------ MODULE Acceptor -------------------------------
(***************************************************************************)
(* Acceptor (net/Acceptor.cc) and the calls of Socket and SocketsOps that  *)
(* it makes.  The kernel's table has MaxFds places for the descriptors     *)
(* counted here: idleFd_ and the connections.  When the table is full,     *)
(* handleRead gives up idleFd_ for long enough to accept a connection and  *)
(* close it.  Nothing else in the process opens a descriptor.              *)
(***************************************************************************)
EXTENDS Naturals

CONSTANTS
  MaxFds,                \* places in the descriptor table
  MaxClients             \* bound: the clients that connect

VARIABLES
  listening_,
  idleFd_,               \* idleFd_ is an open descriptor
  backlog,               \* connections that wait to be accepted
  clients,               \* clients that have connected
  accepted,              \* accepted connections that are open
  emfile                 \* handleRead is in its EMFILE branch, and where

acceptorVars == <<listening_, idleFd_, backlog, clients, accepted, emfile>>

AcceptorInit ==
  /\ listening_ = FALSE
  /\ idleFd_ = TRUE
  /\ backlog = 0
  /\ clients = 0
  /\ accepted = 0
  /\ emfile = "no"

Used == accepted + (IF idleFd_ THEN 1 ELSE 0)

(* What sockets::accept returns: a descriptor, or -1 with an errno that it    *)
(* expects.  poll reports the listening socket while the backlog is not empty; *)
(* it may be empty by the time of accept, and then handleRead does nothing.    *)
Accept ==
  CASE backlog = 0 -> "EAGAIN"
    [] backlog > 0 /\ Used < MaxFds -> "connfd"
    [] backlog > 0 /\ Used >= MaxFds -> "EMFILE"

Listen ==
  /\ listening_' = TRUE
  /\ UNCHANGED <<idleFd_, backlog, clients, accepted, emfile>>

(* A client connects, or gives up before it is accepted. *)
ClientConnects ==
  /\ listening_
  /\ clients < MaxClients
  /\ clients' = clients + 1
  /\ backlog' = backlog + 1
  /\ UNCHANGED <<listening_, idleFd_, accepted, emfile>>

ClientGivesUp ==
  /\ backlog > 0
  /\ backlog' = backlog - 1
  /\ UNCHANGED <<listening_, idleFd_, clients, accepted, emfile>>

(* The connection goes to newConnectionCallback_. *)
AcceptConnection ==
  /\ listening_ /\ emfile = "no"
  /\ Accept = "connfd"
  /\ backlog' = backlog - 1
  /\ accepted' = accepted + 1
  /\ UNCHANGED <<listening_, idleFd_, clients, emfile>>

(* Faulty: the EMFILE branch is missing. *)
AcceptFails_NoBranch ==
  /\ listening_ /\ emfile = "no"
  /\ Accept = "EMFILE"
  /\ UNCHANGED acceptorVars

(* accept fails with EMFILE; the branch closes idleFd_. *)
AcceptFails ==
  /\ listening_ /\ emfile = "no"
  /\ Accept = "EMFILE"
  /\ emfile' = "closed"
  /\ idleFd_' = FALSE
  /\ UNCHANGED <<listening_, backlog, clients, accepted>>

(* The second accept: its descriptor is in idleFd_ until it is closed. *)
AcceptIdle ==
  /\ emfile = "closed"
  /\ emfile' = "accepted"
  /\ IF Accept = "connfd"
     THEN backlog' = backlog - 1 /\ idleFd_' = TRUE
     ELSE UNCHANGED <<backlog, idleFd_>>
  /\ UNCHANGED <<listening_, clients, accepted>>

CloseIdle ==
  /\ emfile = "accepted"
  /\ emfile' = "reopen"
  /\ idleFd_' = FALSE
  /\ UNCHANGED <<listening_, backlog, clients, accepted>>

ReopenIdle ==
  /\ emfile = "reopen"
  /\ emfile' = "no"
  /\ idleFd_' = (Used < MaxFds)
  /\ UNCHANGED <<listening_, backlog, clients, accepted>>

(* The connection's owner closes it. *)
ConnectionCloses ==
  /\ accepted > 0
  /\ accepted' = accepted - 1
  /\ UNCHANGED <<listening_, idleFd_, backlog, clients, emfile>>

(* ~Acceptor, and the Socket in it. *)
CloseAcceptor ==
  /\ listening_' = FALSE
  /\ idleFd_' = FALSE
  /\ backlog' = 0
  /\ UNCHANGED <<clients, accepted, emfile>>

EmfileStep == AcceptFails \/ AcceptIdle \/ CloseIdle \/ ReopenIdle

-----------------------------------------------------------------------------
==============================================================================
