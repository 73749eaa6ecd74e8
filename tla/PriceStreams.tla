---------------------------- MODULE PriceStreams ----------------------------
(***************************************************************************)
(* Who waits for whom in the price server of Phase_2.  Prices, orders and  *)
(* hits are left out of PriceServer, which implements this: what remains   *)
(* is the broadcaster with clientsMutex, the accepting thread, the threads *)
(* of the entries, the clients, and how full the streams between them are. *)
(* So the feed need not end here, and neither does it in the code.         *)
(***************************************************************************)
EXTENDS Naturals, Sequences, FiniteSets

CONSTANTS Client,    \* client processes, each of which connects once
          Capacity,  \* messages a stream holds before send() waits
          None       \* no entry

ASSUME ClientAssumption   == IsFiniteSet(Client)
ASSUME CapacityAssumption == Capacity \in Nat \ {0}
ASSUME NoneAssumption     == None \notin [fd : Nat, client : Client]

VARIABLES sending,      \* the broadcaster holds clientsMutex
          next,         \* its place in clients
          clients,      \* entries: descriptor, and the client accepted on it
          accepted,     \* the entry that is not added yet, or None
          handler,      \* per entry: what its thread reads next
          descriptors,  \* open descriptor -> the client at the other end
          backlog,      \* clients waiting to be accepted
          process,      \* client -> "absent", "running" or "left"
          ordering,     \* client -> whether it is about to send an order
          down, up      \* client -> how many messages are on the way to it, from it

feedVars  == <<sending, next>>
tableVars == <<clients, accepted, descriptors, backlog>>
vars == <<feedVars, tableVars, handler, process, ordering, down, up>>

Init ==
  /\ sending = FALSE
  /\ next = 1
  /\ clients = << >>
  /\ accepted = None
  /\ handler = << >>
  /\ descriptors = << >>
  /\ backlog = {}
  /\ process = [c \in Client |-> "absent"]
  /\ ordering = [c \in Client |-> FALSE]
  /\ down = [c \in Client |-> 0]
  /\ up = [c \in Client |-> 0]
-----------------------------------------------------------------------------
\* broadcastPrices

LockClients ==
  /\ ~sending
  /\ sending' = TRUE
  /\ UNCHANGED <<next, tableVars, handler, process, ordering, down, up>>

\* Mutant: send() is repeated until it succeeds.
DeliverOrRetry(fd) ==
  /\ fd \in DOMAIN descriptors
  /\ LET c == descriptors[fd]
     IN  /\ process[c] = "running"
         /\ down[c] < Capacity
         /\ down' = [down EXCEPT ![c] = @ + 1]

\* send() waits where the stream to a client that runs is full, and sends
\* nothing to a descriptor that is closed, or whose client has gone.
Deliver(fd) ==
  IF fd \in DOMAIN descriptors /\ process[descriptors[fd]] = "running"
    THEN LET c == descriptors[fd]
         IN  down[c] < Capacity /\ down' = [down EXCEPT ![c] = @ + 1]
    ELSE UNCHANGED down

SendPrice ==
  /\ sending
  /\ next <= Len(clients)
  /\ Deliver(clients[next].fd)
  /\ next' = next + 1
  /\ UNCHANGED <<sending, tableVars, handler, process, ordering, up>>

\* The lock is given back for the five seconds the thread sleeps.
UnlockClients ==
  /\ sending
  /\ next > Len(clients)
  /\ sending' = FALSE
  /\ next' = 1
  /\ UNCHANGED <<tableVars, handler, process, ordering, down, up>>

Broadcaster == LockClients \/ SendPrice \/ UnlockClients
-----------------------------------------------------------------------------
\* startServer

\* accept() returns the lowest free descriptor; each open one is an entry's.
Accept ==
  /\ accepted = None
  /\ \E c \in backlog, fd \in 1 .. Len(clients) + 1 :
       /\ fd \notin DOMAIN descriptors
       /\ 1 .. fd - 1 \subseteq DOMAIN descriptors
       /\ accepted' = [fd |-> fd, client |-> c]
       /\ descriptors' = [d \in DOMAIN descriptors \cup {fd} |->
                            IF d = fd THEN c ELSE descriptors[d]]
       /\ backlog' = backlog \ {c}
  /\ UNCHANGED <<feedVars, clients, handler, process, ordering, down, up>>

\* The handler's thread is made after the entry was added under the lock.
Register ==
  /\ accepted # None
  /\ ~sending
  /\ clients' = Append(clients, accepted)
  /\ handler' = Append(handler, "name")
  /\ accepted' = None
  /\ UNCHANGED <<feedVars, descriptors, backlog, process, ordering, down, up>>
-----------------------------------------------------------------------------
\* handleClient for the k-th entry

Receive(k) ==
  /\ handler[k] # "closed"
  /\ \E n \in 1 .. up[clients[k].client] :
        up' = [up EXCEPT ![clients[k].client] = @ - n]
  /\ handler' = [handler EXCEPT ![k] = "orders"]
  /\ UNCHANGED <<feedVars, tableVars, process, ordering, down>>

Disconnect(k) ==
  /\ handler[k] # "closed"
  /\ up[clients[k].client] = 0
  /\ process[clients[k].client] = "left"
  /\ descriptors' = [d \in DOMAIN descriptors \ {clients[k].fd} |-> descriptors[d]]
  /\ handler' = [handler EXCEPT ![k] = "closed"]
  /\ UNCHANGED <<feedVars, clients, accepted, backlog, process, ordering, down, up>>

Handler(k) == k \in DOMAIN clients /\ (Receive(k) \/ Disconnect(k))
-----------------------------------------------------------------------------
\* hft_client

\* The name is sent at once.
Connect(c) ==
  /\ process[c] = "absent"
  /\ process' = [process EXCEPT ![c] = "running"]
  /\ backlog' = backlog \cup {c}
  /\ up' = [up EXCEPT ![c] = 1]
  /\ UNCHANGED <<feedVars, clients, accepted, descriptors, handler, ordering, down>>

\* Whether a price is ordered depends on those before it: any may be.
ReceivePrice(c) ==
  /\ ~ordering[c]
  /\ \E n \in 1 .. down[c] : down' = [down EXCEPT ![c] = @ - n]
  /\ \E b \in BOOLEAN : ordering' = [ordering EXCEPT ![c] = b]
  /\ UNCHANGED <<feedVars, tableVars, handler, process, up>>

SendOrder(c) ==
  /\ ordering[c]
  /\ up[c] < Capacity
  /\ up' = [up EXCEPT ![c] = @ + 1]
  /\ ordering' = [ordering EXCEPT ![c] = FALSE]
  /\ UNCHANGED <<feedVars, tableVars, handler, process, down>>

Leave(c) ==
  /\ process[c] = "running"
  /\ process' = [process EXCEPT ![c] = "left"]
  /\ ordering' = [ordering EXCEPT ![c] = FALSE]
  /\ down' = [down EXCEPT ![c] = 0]
  /\ UNCHANGED <<feedVars, tableVars, handler, up>>

Running(c) == ReceivePrice(c) \/ SendOrder(c)
-----------------------------------------------------------------------------
Next == \/ Broadcaster
        \/ Accept \/ Register
        \/ \E k \in DOMAIN clients : Handler(k)
        \/ \E c \in Client : Connect(c) \/ Running(c) \/ Leave(c)

Safety == Init /\ [][Next]_vars

(***************************************************************************)
(* No thread or process is stopped for ever, and a client that runs keeps  *)
(* reading.  The accepting thread needs the lock that the broadcaster      *)
(* takes in every round; it is free for the five seconds between two       *)
(* rounds, so who waits for it over and over gets it: strong fairness.     *)
(***************************************************************************)
Fairness ==
  /\ WF_vars(Broadcaster)
  /\ WF_vars(Accept)
  /\ SF_vars(Register)
  /\ \A k \in 1 .. Cardinality(Client) : WF_vars(Handler(k))
  /\ \A c \in Client : WF_vars(Running(c))

Spec == Safety /\ Fairness
-----------------------------------------------------------------------------
(***************************************************************************)
(* The one way the server can stop serving: a client was accepted on the   *)
(* descriptor of an entry whose own client has left, so it gets prices by  *)
(* that entry before it has one, and nobody reads its orders yet.  When    *)
(* both its streams are full, the broadcaster waits for it to read, it     *)
(* waits for its orders to be read, and the accepting thread, which is to  *)
(* start its handler, waits for the broadcaster's lock.                    *)
(***************************************************************************)
CircularWait ==
  /\ accepted # None
  /\ sending /\ next <= Len(clients)
  /\ LET c == accepted.client
     IN  /\ clients[next].fd = accepted.fd
         /\ process[c] = "running" /\ ordering[c]
         /\ down[c] = Capacity /\ up[c] = Capacity

(***************************************************************************)
(* Every client that connects gets its entry, although the feed never ends *)
(* and send() waits under the lock - unless the server comes to stand in   *)
(* that circular wait for good.                                            *)
(***************************************************************************)
EveryoneServed ==
  \/ <>[]CircularWait
  \/ \A c \in Client :
       c \in backlog ~> \E k \in DOMAIN clients : clients[k].client = c
=============================================================================
