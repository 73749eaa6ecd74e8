---------------------------- MODULE PriceServer ----------------------------
(***************************************************************************)
(* The price server of Phase_2 and its momentum clients.  One thread       *)
(* broadcasts prices to every entry of clients, the main thread accepts    *)
(* connections and adds entries, one thread per entry reads orders, and    *)
(* the first order for a price hits it.  clientsMutex is held by the       *)
(* broadcaster while it goes through all of clients, and send() waits      *)
(* where a stream is full; a block under priceMutex is one step.           *)
(*                                                                         *)
(* A connection is two byte streams without any framing: recv() returns    *)
(* what there is, so messages sent one by one may be received as one.      *)
(* That a short message may also be cut in two is left out.  Descriptors   *)
(* are the kernel's: close() frees a number, accept() returns the lowest   *)
(* free one.  Time is not modelled: a price may follow at any moment.      *)
(***************************************************************************)
EXTENDS Naturals, Sequences, FiniteSets, SequencesExt

CONSTANTS Client,    \* client processes, each of which connects once
          Price,
          Capacity,  \* messages a stream holds before send() waits
          Name,      \* the name, which a client sends first
          None       \* no order, no entry

ASSUME ClientAssumption   == IsFiniteSet(Client)
ASSUME PriceAssumption    == Price \subseteq Nat   \* as far as it is ordered
ASSUME CapacityAssumption == Capacity \in Nat \ {0}

EntryOf == [fd : Nat, client : Client]

ASSUME NoneAssumption == {Name, None} \cap (Nat \cup EntryOf) = {}

VARIABLES priceId, priceTimestamps, priceAlreadyHit,
          clients,       \* entries: descriptor, and the client accepted on it
          feed,          \* broadcastPrices: stage, id, price, place in clients
          accepted,      \* startServer: the entry it has not added yet, or None
          handler,       \* per entry: what its thread reads next
          descriptors,   \* open descriptor -> the client at the other end
          backlog,       \* clients waiting to be accepted
          process,       \* client -> "absent", "running" or "left"
          window,        \* client -> priceHistory
          order,         \* client -> the id it is about to send, or None
          down, up,      \* client -> what is on its way to it, and from it
          got,           \* history: client -> ids of the prices sent to it
          hits           \* history: the hits logged, and whether the order for
                         \* each was received alone

priceVars  == <<priceId, priceTimestamps>>
hitVars    == <<priceAlreadyHit, hits>>
tableVars  == <<clients, accepted, descriptors, backlog>>
clientVars == <<process, window, order>>
streams    == <<down, up, got>>
vars == <<priceVars, hitVars, tableVars, clientVars, streams, feed, handler>>

Init ==
  /\ priceId = 0
  /\ priceTimestamps = {}
  /\ priceAlreadyHit = {}
  /\ clients = << >>
  /\ feed = [stage |-> "price", id |-> 0, price |-> 0, next |-> 1]
  /\ accepted = None
  /\ handler = << >>
  /\ descriptors = << >>
  /\ backlog = {}
  /\ process = [c \in Client |-> "absent"]
  /\ window = [c \in Client |-> << >>]
  /\ order = [c \in Client |-> None]
  /\ down = [c \in Client |-> << >>]
  /\ up = [c \in Client |-> << >>]
  /\ got = [c \in Client |-> << >>]
  /\ hits = << >>
-----------------------------------------------------------------------------
\* broadcastPrices

\* Mutant: a price is sent before its time is noted.
NewPriceUnstamped ==
  /\ feed.stage = "price"
  /\ \E p \in Price : feed' = [stage |-> "lock", id |-> priceId, price |-> p, next |-> 1]
  /\ priceId' = priceId + 1
  /\ UNCHANGED <<priceTimestamps, hitVars, tableVars, clientVars, streams, handler>>

NewPrice ==
  /\ feed.stage = "price"
  /\ \E p \in Price : feed' = [stage |-> "stamp", id |-> priceId, price |-> p, next |-> 1]
  /\ priceId' = priceId + 1
  /\ UNCHANGED <<priceTimestamps, hitVars, tableVars, clientVars, streams, handler>>

Stamp ==
  /\ feed.stage = "stamp"
  /\ priceTimestamps' = priceTimestamps \cup {feed.id}
  /\ feed' = [feed EXCEPT !.stage = "lock"]
  /\ UNCHANGED <<priceId, hitVars, tableVars, clientVars, streams, handler>>

LockClients ==
  /\ feed.stage = "lock"
  /\ feed' = [feed EXCEPT !.stage = "send", !.next = 1]
  /\ UNCHANGED <<priceVars, hitVars, tableVars, clientVars, streams, handler>>

\* send() to a descriptor that is closed, or whose peer has gone, sends nothing.
Deliver(fd) ==
  IF fd \in DOMAIN descriptors /\ process[descriptors[fd]] = "running"
    THEN LET c == descriptors[fd]
         IN  /\ Len(down[c]) < Capacity
             /\ down' = [down EXCEPT ![c] = Append(@, [id |-> feed.id, price |-> feed.price])]
             /\ got' = [got EXCEPT ![c] = Append(@, feed.id)]
             /\ UNCHANGED up
    ELSE UNCHANGED streams

SendPrice ==
  /\ feed.stage = "send"
  /\ feed.next <= Len(clients)
  /\ Deliver(clients[feed.next].fd)
  /\ feed' = [feed EXCEPT !.next = @ + 1]
  /\ UNCHANGED <<priceVars, hitVars, tableVars, clientVars, handler>>

UnlockClients ==
  /\ feed.stage = "send"
  /\ feed.next > Len(clients)
  /\ feed' = [feed EXCEPT !.stage = "price"]
  /\ UNCHANGED <<priceVars, hitVars, tableVars, clientVars, streams, handler>>
-----------------------------------------------------------------------------
\* startServer

\* accept() returns the lowest free descriptor; each open one is an entry's.
Accept ==
  /\ accepted = None
  /\ \E c \in backlog, fd \in 1 .. Len(clients) + 1 :
       /\ fd \notin DOMAIN descriptors
       /\ 1 .. fd - 1 \subseteq DOMAIN descriptors
       /\ accepted' = [fd |-> fd, client |-> c]
       /\ descriptors' = [d \in DOMAIN descriptors \cup {fd} |->
                            IF d = fd THEN c ELSE descriptors[d]]
       /\ backlog' = backlog \ {c}
  /\ UNCHANGED <<priceVars, hitVars, clients, clientVars, streams, feed, handler>>

\* Mutant: the entry is added twice.
RegisterTwice ==
  /\ accepted # None
  /\ feed.stage # "send"
  /\ clients' = clients \o <<accepted, accepted>>
  /\ handler' = handler \o <<"name", "closed">>
  /\ accepted' = None
  /\ UNCHANGED <<priceVars, hitVars, descriptors, backlog, clientVars, streams, feed>>

\* Mutant: the entry is added without the lock.
RegisterUnlocked ==
  /\ accepted # None
  /\ clients' = Append(clients, accepted)
  /\ handler' = Append(handler, "name")
  /\ accepted' = None
  /\ UNCHANGED <<priceVars, hitVars, descriptors, backlog, clientVars, streams, feed>>

\* clients.push_back, and a thread for the entry.
Register ==
  /\ accepted # None
  /\ feed.stage # "send"
  /\ clients' = Append(clients, accepted)
  /\ handler' = Append(handler, "name")
  /\ accepted' = None
  /\ UNCHANGED <<priceVars, hitVars, descriptors, backlog, clientVars, streams, feed>>
-----------------------------------------------------------------------------
\* handleClient for the k-th entry

\* recv() returns the first n messages of the stream.
Receive(c, n) ==
  /\ n <= Len(up[c])
  /\ up' = [up EXCEPT ![c] = SubSeq(@, n + 1, Len(@))]
  /\ UNCHANGED <<down, got>>

\* The number atoi() reads where the digits of several ids stand in a row.
PowerAbove(id) == Min({10 ^ n : n \in 1 .. id + 1} \ 0 .. id)
Atoi(ids) == IF Len(ids) = 1 THEN Head(ids)
             ELSE FoldLeft(LAMBDA acc, id : acc * PowerAbove(id) + id, 0, ids)

\* The first recv() is the name, with whatever came in the same go.
ReceiveName(k) ==
  /\ handler[k] = "name"
  /\ \E n \in 1 .. Capacity : Receive(clients[k].client, n)
  /\ handler' = [handler EXCEPT ![k] = "orders"]
  /\ UNCHANGED <<priceVars, hitVars, tableVars, clientVars, feed>>

\* Mutant: an order is not looked up among those already hit.
HitAgain(id) == id \in priceTimestamps

Hit(id) == id \notin priceAlreadyHit /\ id \in priceTimestamps

ReceiveOrder(k) ==
  /\ handler[k] = "orders"
  /\ LET c == clients[k].client
     IN  \E n \in 1 .. Capacity :
           /\ Receive(c, n)
           /\ LET id == Atoi(SubSeq(up[c], 1, n))
              IN  IF Hit(id)
                    THEN /\ priceAlreadyHit' = priceAlreadyHit \cup {id}
                         /\ hits' = Append(hits, [client |-> c, id |-> id, alone |-> n = 1])
                    ELSE UNCHANGED hitVars
  /\ UNCHANGED <<priceVars, tableVars, clientVars, feed, handler>>

\* recv() returns no bytes: the descriptor is closed, the entry stays.
Disconnect(k) ==
  /\ handler[k] # "closed"
  /\ up[clients[k].client] = << >>
  /\ process[clients[k].client] = "left"
  /\ descriptors' = [d \in DOMAIN descriptors \ {clients[k].fd} |-> descriptors[d]]
  /\ handler' = [handler EXCEPT ![k] = "closed"]
  /\ UNCHANGED <<priceVars, hitVars, clients, accepted, backlog, clientVars, streams, feed>>
-----------------------------------------------------------------------------
\* hft_client

Connect(c) ==
  /\ process[c] = "absent"
  /\ process' = [process EXCEPT ![c] = "running"]
  /\ backlog' = backlog \cup {c}
  /\ up' = [up EXCEPT ![c] = <<Name>>]
  /\ UNCHANGED <<priceVars, hitVars, clients, accepted, descriptors, window, order,
                 down, got, feed, handler>>

Momentum(w) ==
  /\ Len(w) = 3
  /\ \/ w[1] < w[2] /\ w[2] < w[3]
     \/ w[1] > w[2] /\ w[2] > w[3]

\* Mutant: the deque grows to four prices.
ReceiveIntoLonger(c) ==
  /\ order[c] = None
  /\ \E n \in 1 .. Len(down[c]) :
       /\ window' = [window EXCEPT ![c] = Append(IF Len(@) <= 3 THEN @ ELSE Tail(@),
                                                 Head(down[c]).price)]
       /\ down' = [down EXCEPT ![c] = SubSeq(@, n + 1, Len(@))]
  /\ UNCHANGED <<priceVars, hitVars, tableVars, process, order, up, got, feed, handler>>

\* Of messages received as one only the first is parsed.
ReceivePrice(c) ==
  /\ order[c] = None
  /\ \E n \in 1 .. Len(down[c]) :
       LET m == Head(down[c])
           w == Append(IF Len(window[c]) < 3 THEN window[c] ELSE Tail(window[c]), m.price)
       IN  /\ window' = [window EXCEPT ![c] = w]
           /\ order' = [order EXCEPT ![c] = IF Momentum(w) THEN m.id ELSE None]
           /\ down' = [down EXCEPT ![c] = SubSeq(@, n + 1, Len(@))]
  /\ UNCHANGED <<priceVars, hitVars, tableVars, process, up, got, feed, handler>>

SendOrder(c) ==
  /\ order[c] # None
  /\ Len(up[c]) < Capacity
  /\ up' = [up EXCEPT ![c] = Append(@, order[c])]
  /\ order' = [order EXCEPT ![c] = None]
  /\ UNCHANGED <<priceVars, hitVars, tableVars, process, window, down, got, feed, handler>>

\* The process ends at any moment; what it has sent is still read.
Leave(c) ==
  /\ process[c] = "running"
  /\ process' = [process EXCEPT ![c] = "left"]
  /\ window' = [window EXCEPT ![c] = << >>]
  /\ order' = [order EXCEPT ![c] = None]
  /\ down' = [down EXCEPT ![c] = << >>]
  /\ UNCHANGED <<priceVars, hitVars, tableVars, up, got, feed, handler>>
-----------------------------------------------------------------------------
Broadcaster == NewPrice \/ Stamp \/ LockClients \/ SendPrice \/ UnlockClients
Acceptor    == Accept \/ Register
Handler(k)  == ReceiveName(k) \/ ReceiveOrder(k) \/ Disconnect(k)
Running(c)  == ReceivePrice(c) \/ SendOrder(c)

Next == \/ Broadcaster
        \/ Acceptor
        \/ \E k \in DOMAIN clients : Handler(k)
        \/ \E c \in Client : Connect(c) \/ Running(c) \/ Leave(c)

Spec == Init /\ [][Next]_vars
-----------------------------------------------------------------------------
Message == [id : Nat, price : Price]

(***************************************************************************)
(* Types of the price tables, the entries, the streams and the histories.  *)
(***************************************************************************)
TypeOK ==
  /\ priceId \in Nat
  /\ priceTimestamps \subseteq Nat
  /\ priceAlreadyHit \subseteq priceTimestamps
  /\ clients \in Seq(EntryOf)
  /\ feed \in [stage : {"price", "stamp", "lock", "send"}, id : Nat,
               price : Price \cup {0}, next : Nat \ {0}]
  /\ accepted \in EntryOf \cup {None}
  /\ handler \in Seq({"name", "orders", "closed"}) /\ Len(handler) = Len(clients)
  /\ \A d \in DOMAIN descriptors : descriptors[d] \in Client
  /\ backlog \subseteq Client
  /\ process \in [Client -> {"absent", "running", "left"}]
  /\ window \in [Client -> Seq(Price)]
  /\ order \in [Client -> Nat \cup {None}]
  /\ down \in [Client -> Seq(Message)]
  /\ up \in [Client -> Seq(Nat \cup {Name})]
  /\ got \in [Client -> Seq(Nat)]
  /\ \A c \in Client : /\ Len(window[c]) <= 3
                       /\ Len(down[c]) <= Capacity /\ Len(up[c]) <= Capacity
  /\ hits \in Seq([client : Client, id : Nat, alone : BOOLEAN])

(***************************************************************************)
(* The inductive invariant behind the three properties below.  A price is  *)
(* noted before it is sent, and only sent after it was made.               *)
(***************************************************************************)
FeedInStep ==
  /\ feed.stage # "price" => feed.price \in Price /\ feed.id < priceId
  /\ feed.stage \in {"lock", "send"} => feed.id \in priceTimestamps
  /\ feed.stage \in {"stamp", "lock"} => \A c \in Client : feed.id \notin Range(got[c])

\* Every id on its way anywhere is one that was sent to the client.
IdsWereSent ==
  \A c \in Client :
    /\ \A id \in Range(got[c]) : id \in priceTimestamps /\ id < priceId
    /\ \A m \in Range(down[c]) : m.id \in Range(got[c])
    /\ \A id \in Range(up[c]) \cup {order[c]} : id \in Range(got[c]) \cup {Name, None}

HitsLogged == \A k \in DOMAIN hits : hits[k].id \in priceAlreadyHit

\* A client has at most one entry, in clients or about to be added, and an open
\* descriptor is that of an entry.
Entries == Range(clients) \cup ({accepted} \ {None})

OneEntryEach ==
  /\ \A j, k \in DOMAIN clients : clients[j].client = clients[k].client => j = k
  /\ accepted # None => \A k \in DOMAIN clients : clients[k].client # accepted.client
  /\ \A e \in Entries : process[e.client] # "absent" /\ e.client \notin backlog
  /\ \A c \in backlog : process[c] # "absent"
  /\ \A d \in DOMAIN descriptors : [fd |-> d, client |-> descriptors[d]] \in Entries
  /\ \A c \in Client : got[c] # << >> => \E e \in Entries : e.client = c

\* An entry is sent a price by the entries with its descriptor, itself included,
\* that the broadcaster has come past.
Copies(id, c) == Cardinality({k \in DOMAIN got[c] : got[c][k] = id})

Passed(id, fd) ==
  {j \in DOMAIN clients : /\ clients[j].fd = fd
                          /\ feed.stage = "send" /\ feed.id = id => j < feed.next}

CopiesByPassed ==
  \A e \in Entries : \A id \in Range(got[e.client]) :
    Copies(id, e.client) <= Cardinality(Passed(id, e.fd))

(***************************************************************************)
(* A price is hit once and by one client, however late or merged the       *)
(* orders for it arrive.  An order received alone is by a client that the  *)
(* price was sent to; orders 2 and 3 received as one hit price 23, whoever *)
(* that was sent to.                                                       *)
(***************************************************************************)
HitOnce ==
  /\ \A j, k \in DOMAIN hits : hits[j].id = hits[k].id => j = k
  /\ \A k \in DOMAIN hits :
       hits[k].alone => hits[k].id \in Range(got[hits[k].client])

(***************************************************************************)
(* No client ever orders a price the server does not know: the time of a   *)
(* price is noted before the first client can have seen it, so "Unknown    *)
(* price ID" is never the answer to an order received by itself.           *)
(***************************************************************************)
OrdersKnown ==
  \A c \in Client :
    {order[c]} \cup Range(up[c]) \subseteq priceTimestamps \cup {None, Name}

(***************************************************************************)
(* Entries are never removed and descriptors are reused, so a client is    *)
(* sent every price once for itself and once for each earlier client that  *)
(* had its descriptor; never more often, and only once before anyone left. *)
(***************************************************************************)
SentOncePerOwner ==
  \A k \in DOMAIN clients : \A id \in priceTimestamps :
    Copies(id, clients[k].client)
      <= Cardinality({clients[j].client : j \in
                        {j \in DOMAIN clients : clients[j].fd = clients[k].fd}})

PriceInv == /\ TypeOK
            /\ FeedInStep
            /\ IdsWereSent
            /\ HitsLogged
            /\ HitOnce
            /\ OneEntryEach
            /\ CopiesByPassed

(***************************************************************************)
(* Who waits for whom is as PriceStreams says, where it is checked that    *)
(* all clients are served: every step of a thread or a client is one of    *)
(* its steps, under the same lock, at the same place and with the streams  *)
(* as full.  Choosing a price and noting its time are not seen there.      *)
(***************************************************************************)
Streams == INSTANCE PriceStreams WITH
             sending  <- feed.stage = "send",
             next     <- IF feed.stage = "send" THEN feed.next ELSE 1,
             ordering <- [c \in Client |-> order[c] # None],
             down     <- [c \in Client |-> Len(down[c])],
             up       <- [c \in Client |-> Len(up[c])]

ImplementsStreams == Streams!Safety
=============================================================================
