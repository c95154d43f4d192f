-------------------------- MODULE ConnectionRegistry --------------------------
(***************************************************************************)
(* The life of a connection: accepted on a socket handle, found through    *)
(* the registry by every QueueSend, and destroyed when nothing refers to   *)
(* it any more, after which the system may give its handle to another.     *)
(*                                                                         *)
(* A ClientInfo owns its SocketOutput, so both are one connection here.    *)
(* It is kept alive by the list of clients, by the thread that serves it,  *)
(* by broadcasts that retained it as a recipient, by a QueueSend that      *)
(* found it and by an operation in flight (Referred).  The registry keeps  *)
(* a weak reference: its entry is expired as soon as none of these is left.*)
(***************************************************************************)
EXTENDS FiniteSets

CONSTANTS
  Conns,     \* connections, each accepted at most once (bound of the model)
  Handles,   \* values of SOCKET
  Senders,   \* threads that send to other connections
  None       \* no connection, no handle

ASSUME ConnectionRegistryAssumption ==
  None \notin Conns \union Handles

VARIABLES
  phase,       \* how far a connection has come
  handle,      \* socket_
  open,        \* handles the system has given out and not taken back
  registry,    \* registry, the weak reference under each handle
  acceptor,    \* the connection the accept loop is setting up
  clients,     \* Server::clients
  serving,     \* connections whose thread runs HandleClient
  stopping,    \* stopping_ of the connection's SocketOutput
  inFlight,    \* connections with an outstanding operation
  recipients,  \* the connections a sender retained and has yet to serve
  target,      \* the one it is serving
  found,       \* what its QueueSend found in the registry
  delivered    \* history: <<meant for, queued on>>

sendVars == <<recipients, target, found, delivered>>
vars == <<phase, handle, open, registry, acceptor, clients, serving,
          stopping, inFlight, sendVars>>

\* Mutant: broadcasts keep the handles of their recipients only.
ReferredByOwner(k) ==
  \/ acceptor = k
  \/ k \in clients \union serving \union inFlight
  \/ \E s \in Senders : k = found[s]

\* Every shared_ptr to the connection or to its SocketOutput.
Referred(k) ==
  \/ acceptor = k
  \/ k \in clients \union serving \union inFlight
  \/ \E s \in Senders : k \in recipients[s] \union {target[s], found[s]}

Init ==
  /\ phase = [k \in Conns |-> "unborn"]
  /\ handle = [k \in Conns |-> None]
  /\ open = {}
  /\ registry = [h \in Handles |-> None]
  /\ acceptor = None
  /\ clients = {} /\ serving = {} /\ stopping = {} /\ inFlight = {}
  /\ recipients = [s \in Senders |-> {}]
  /\ target = [s \in Senders |-> None]
  /\ found = [s \in Senders |-> None]
  /\ delivered = {}

-----------------------------------------------------------------------------
(* The accept loop. *)

\* accept returns a handle that is not in use, perhaps one used before.
AcceptSocket(k, h) ==
  /\ acceptor = None
  /\ phase[k] = "unborn"
  /\ h \notin open
  /\ open' = open \union {h}
  /\ handle' = [handle EXCEPT ![k] = h]
  /\ phase' = [phase EXCEPT ![k] = "made"]
  /\ acceptor' = k
  /\ UNCHANGED <<registry, clients, serving, stopping, inFlight, sendVars>>

\* SocketOutput::Create puts it into the registry; if the port does not take
\* the socket the connection is stopped from the start.
Create(k) ==
  /\ acceptor = k
  /\ phase[k] = "made"
  /\ registry' = [registry EXCEPT ![handle[k]] = k]
  /\ phase' = [phase EXCEPT ![k] = "live"]
  /\ stopping' \in {stopping, stopping \union {k}}
  /\ UNCHANGED <<handle, open, acceptor, clients, serving, inFlight, sendVars>>

\* AcceptClients lists the connection and starts its thread.
Serve(k) ==
  /\ acceptor = k
  /\ phase[k] = "live"
  /\ clients' = clients \union {k}
  /\ serving' = serving \union {k}
  /\ acceptor' = None
  /\ UNCHANGED <<phase, handle, open, registry, stopping, inFlight, sendVars>>

-----------------------------------------------------------------------------
(* The end of a connection. *)

\* Anybody who refers to it may stop it: its own thread on QUIT, a sender
\* whose message is over the limit, the dispatcher when a send fails.
Stop(k) ==
  /\ Referred(k)
  /\ phase[k] = "live"
  /\ stopping' = stopping \union {k}
  /\ UNCHANGED <<phase, handle, open, registry, acceptor, clients, serving,
                 inFlight, sendVars>>

\* Mutant: HandleClient returns without RemoveClient.
LeaveListed(k) ==
  /\ k \in serving \intersect clients
  /\ stopping' = stopping \union {k}
  /\ serving' = serving \ {k}
  /\ UNCHANGED <<phase, handle, open, registry, acceptor, clients, inFlight, sendVars>>

\* The peer has gone or the connection is stopping: HandleClient ends with
\* RemoveClient, which stops the output and takes the client off the list.
RemoveClient(k) ==
  /\ k \in serving \intersect clients
  /\ stopping' = stopping \union {k}
  /\ clients' = clients \ {k}
  /\ UNCHANGED <<phase, handle, open, registry, acceptor, serving, inFlight, sendVars>>

EndThread(k) ==
  /\ k \in serving \ clients
  /\ serving' = serving \ {k}
  /\ UNCHANGED <<phase, handle, open, registry, acceptor, clients, stopping,
                 inFlight, sendVars>>

\* The completion of an operation is the last thing that refers to it.
Release(k) ==
  /\ k \in inFlight
  /\ inFlight' = inFlight \ {k}
  /\ UNCHANGED <<phase, handle, open, registry, acceptor, clients, serving,
                 stopping, sendVars>>

\* ~SocketOutput: the last reference is gone.  It stops the output, erases the
\* entry of its handle if that is expired, and only then closes the socket.
EraseEntry(k) ==
  /\ phase[k] = "live"
  /\ ~Referred(k)
  /\ registry' = [registry EXCEPT ![handle[k]] =
                    IF @ # None /\ ~Referred(@) THEN None ELSE @]
  /\ stopping' = stopping \union {k}
  /\ phase' = [phase EXCEPT ![k] = "erased"]
  /\ UNCHANGED <<handle, open, acceptor, clients, serving, inFlight, sendVars>>

CloseSocket(k) ==
  /\ phase[k] = "erased"
  /\ open' = open \ {handle[k]}
  /\ phase' = [phase EXCEPT ![k] = "gone"]
  /\ UNCHANGED <<handle, registry, acceptor, clients, serving, stopping,
                 inFlight, sendVars>>

\* Mutant: the socket is closed first, and the entry of its handle erased
\* after, whoever it belongs to by then.
CloseThenErase(k) ==
  /\ stopping' = stopping \union {k}
  /\ \/ /\ phase[k] = "live" /\ ~Referred(k)
        /\ open' = open \ {handle[k]}
        /\ phase' = [phase EXCEPT ![k] = "erased"]
        /\ UNCHANGED registry
     \/ /\ phase[k] = "erased"
        /\ registry' = [registry EXCEPT ![handle[k]] = None]
        /\ phase' = [phase EXCEPT ![k] = "gone"]
        /\ UNCHANGED open
  /\ UNCHANGED <<handle, acceptor, clients, serving, inFlight, sendVars>>

Destroy(k) == EraseEntry(k) \/ CloseSocket(k)

-----------------------------------------------------------------------------
(* Sending to other connections. *)

\* A broadcast copies its recipients while it holds clientsMutex.  They are
\* given up one by one here, at the end of the broadcast in the code: dropping
\* a reference early leaves a connection less protected, never more.
Gather(s) ==
  /\ recipients[s] = {} /\ target[s] = None
  /\ \E R \in SUBSET clients \ {{}} : recipients' = [recipients EXCEPT ![s] = R]
  /\ UNCHANGED <<phase, handle, open, registry, acceptor, clients, serving,
                 stopping, inFlight, target, found, delivered>>

NextRecipient(s) ==
  /\ target[s] = None
  /\ \E k \in recipients[s] :
       /\ target' = [target EXCEPT ![s] = k]
       /\ recipients' = [recipients EXCEPT ![s] = @ \ {k}]
  /\ UNCHANGED <<phase, handle, open, registry, acceptor, clients, serving,
                 stopping, inFlight, found, delivered>>

\* QueueSend takes the handle only.  It locks the weak reference under
\* registryMutex; a connection it does not find gets nothing.
LookUp(s) ==
  LET h == handle[target[s]]
      k == registry[h] IN
  /\ target[s] # None
  /\ found[s] = None
  /\ IF k # None /\ Referred(k)
     THEN found' = [found EXCEPT ![s] = k] /\ UNCHANGED target
     ELSE target' = [target EXCEPT ![s] = None] /\ UNCHANGED found
  /\ UNCHANGED <<phase, handle, open, registry, acceptor, clients, serving,
                 stopping, inFlight, recipients, delivered>>

\* Enqueue, outside registryMutex: a stopped output refuses the message.
Enqueue(s) ==
  LET k == found[s] IN
  /\ k # None
  /\ IF k \in stopping
     THEN UNCHANGED <<delivered, inFlight>>
     ELSE /\ delivered' = delivered \union {<<target[s], k>>}
          /\ inFlight' = inFlight \union {k}
  /\ found' = [found EXCEPT ![s] = None]
  /\ target' = [target EXCEPT ![s] = None]
  /\ UNCHANGED <<phase, handle, open, registry, acceptor, clients, serving,
                 stopping, recipients>>

-----------------------------------------------------------------------------
ConnStep(k) ==
  \/ Create(k) \/ Serve(k)
  \/ RemoveClient(k) \/ EndThread(k) \/ Release(k) \/ Destroy(k)

SenderStep(s) == NextRecipient(s) \/ LookUp(s) \/ Enqueue(s)

Next ==
  \/ \E k \in Conns : \/ \E h \in Handles : AcceptSocket(k, h)
                      \/ ConnStep(k)
                      \/ Stop(k)
  \/ \E s \in Senders : Gather(s) \/ SenderStep(s)

Spec == Init /\ [][Next]_vars

\* A thread that is stopping, an operation that is cancelled, a sender and the
\* destructor go on.  Nothing makes a peer leave or a sender begin.
Fairness ==
  /\ \A k \in Conns :
       /\ WF_vars(k \in stopping /\ (RemoveClient(k) \/ Release(k)))
       /\ WF_vars(Create(k) \/ Serve(k))
       /\ WF_vars(EndThread(k))
       /\ WF_vars(Destroy(k))
  /\ \A s \in Senders : WF_vars(SenderStep(s))

FairSpec == Spec /\ Fairness

-----------------------------------------------------------------------------
TypeOK ==
  /\ phase \in [Conns -> {"unborn", "made", "live", "erased", "gone"}]
  /\ handle \in [Conns -> Handles \union {None}]
  /\ open \subseteq Handles
  /\ registry \in [Handles -> Conns \union {None}]
  /\ acceptor \in Conns \union {None}
  /\ clients \subseteq Conns /\ serving \subseteq Conns
  /\ stopping \subseteq Conns /\ inFlight \subseteq Conns
  /\ recipients \in [Senders -> SUBSET Conns]
  /\ target \in [Senders -> Conns \union {None}]
  /\ found \in [Senders -> Conns \union {None}]
  /\ delivered \subseteq Conns \X Conns

\* A message is queued on the connection it was meant for, never on one that
\* was accepted later with the same handle.
RightRecipient == \A d \in delivered : d[1] = d[2]

\* A connection that is referred to is the one its handle leads to: the
\* destructor of its predecessor does not take its entry away.
Findable ==
  \A k \in Conns : phase[k] = "live" /\ Referred(k) => registry[handle[k]] = k

\* The handle of a connection stays its own until its destructor closes it:
\* it is not closed twice, which could close a successor's socket.
OwnsItsHandle ==
  \A k \in Conns :
    phase[k] \in {"made", "live", "erased"} =>
      /\ handle[k] \in open
      /\ \A j \in Conns \ {k} :
           phase[j] \in {"made", "live", "erased"} => handle[j] # handle[k]

\* What the registry and the handles say of the connections there are.
RegistryInv == TypeOK /\ Findable /\ OwnsItsHandle

\* A connection that is stopped is destroyed and its socket closed in the end,
\* however many broadcasts had retained it.
StoppedIsClosed ==
  \A k \in Conns : k \in stopping ~> phase[k] = "gone"
=============================================================================
