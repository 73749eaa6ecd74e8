------------------------- MODULE PriceServerProofs -------------------------
(***************************************************************************)
(* What TLAPS proves about the price server and its clients, for every     *)
(* number of clients, every feed and streams of any size: its types, that  *)
(* a price is hit once, that no client orders an unknown price, and how    *)
(* often a price is sent to a client whose descriptor was used before.     *)
(***************************************************************************)
EXTENDS PriceServer, FiniteSetTheorems, SequenceTheorems, TLAPS

\* What is appended to a stream.
LEMMA AppendFacts ==
  ASSUME NEW S, NEW q \in Seq(S), NEW e \in S
  PROVE  /\ Append(q, e) \in Seq(S) /\ Len(Append(q, e)) = Len(q) + 1
         /\ Range(Append(q, e)) = Range(q) \cup {e}
         /\ Range(q) \subseteq S
<1>1. /\ Append(q, e) \in Seq(S) /\ Len(Append(q, e)) = Len(q) + 1 /\ Len(q) \in Nat
      /\ DOMAIN q = 1 .. Len(q) /\ DOMAIN Append(q, e) = 1 .. Len(q) + 1
      /\ \A k \in 1 .. Len(q) : Append(q, e)[k] = q[k] /\ q[k] \in S
      /\ Append(q, e)[Len(q) + 1] = e
  OBVIOUS
<1>2. \A k \in 1 .. Len(q) + 1 : k \in 1 .. Len(q) \/ k = Len(q) + 1
  BY <1>1
<1>3. ASSUME NEW x PROVE x \in Range(Append(q, e)) <=> x \in Range(q) \cup {e}
  <2>1. x \in Range(Append(q, e)) <=> \E k \in 1 .. Len(q) + 1 : x = Append(q, e)[k]
    BY <1>1 DEF Range
  <2>2. x \in Range(q) <=> \E k \in 1 .. Len(q) : x = q[k]
    BY <1>1 DEF Range
  <2>3. \A k \in 1 .. Len(q) : k \in 1 .. Len(q) + 1
    BY <1>1
  <2>4. Len(q) + 1 \in 1 .. Len(q) + 1
    BY <1>1
  <2>5. QED
    BY <1>1, <1>2, <2>1, <2>2, <2>3, <2>4
<1>4. Range(q) \subseteq S
  BY <1>1 DEF Range
<1>5. QED
  BY <1>1, <1>3, <1>4

\* What is left when the first messages have been received.
LEMMA SubSeqFacts ==
  ASSUME NEW S, NEW q \in Seq(S), NEW n \in 0 .. Len(q)
  PROVE  /\ SubSeq(q, n + 1, Len(q)) \in Seq(S)
         /\ Len(SubSeq(q, n + 1, Len(q))) = Len(q) - n
         /\ Range(SubSeq(q, n + 1, Len(q))) \subseteq Range(q)
<1> DEFINE r == SubSeq(q, n + 1, Len(q))
<1>1. Len(q) \in Nat /\ n \in Nat /\ n <= Len(q) /\ DOMAIN q = 1 .. Len(q)
  OBVIOUS
<1>2. \A k \in n + 1 .. Len(q) : q[k] \in S
  BY <1>1
<1>3. /\ r \in Seq(S)
      /\ Len(r) = IF n + 1 <= Len(q) THEN Len(q) - (n + 1) + 1 ELSE 0
      /\ \A k \in 1 .. Len(q) - (n + 1) + 1 : r[k] = q[n + 1 + k - 1]
  BY <1>1, <1>2, SubSeqProperties
<1> HIDE DEF r
<1>4. Len(r) = Len(q) - n
  <2>1. ASSUME NEW l \in Nat, n <= l
        PROVE  (IF n + 1 <= l THEN l - (n + 1) + 1 ELSE 0) = l - n
    BY <1>1, <2>1
  <2>2. QED
    BY <1>1, <1>3, <2>1
<1>5. \A k \in 1 .. Len(q) - n : r[k] = q[n + k] /\ n + k \in 1 .. Len(q)
  <2> TAKE k \in 1 .. Len(q) - n
  <2>1. k \in 1 .. Len(q) - (n + 1) + 1 /\ n + 1 + k - 1 = n + k /\ n + k \in 1 .. Len(q)
    BY <1>1
  <2>2. QED
    BY <1>3, <2>1
<1>6. Range(r) \subseteq Range(q)
  <2>1. DOMAIN r = 1 .. Len(q) - n
    BY <1>3, <1>4
  <2>2. QED
    BY <1>1, <1>5, <2>1 DEF Range
<1>7. QED
  BY <1>3, <1>4, <1>6 DEF r

\* How often a price has been sent, and after one more was.
Places(q, id) == {k \in DOMAIN q : q[k] = id}

LEMMA PlacesFinite ==
  ASSUME NEW q \in Seq(Nat), NEW id
  PROVE  /\ IsFiniteSet(Places(q, id)) /\ Cardinality(Places(q, id)) \in Nat
         /\ id \notin Range(q) => Cardinality(Places(q, id)) = 0
<1>1. Len(q) \in Nat /\ DOMAIN q = 1 .. Len(q)
  OBVIOUS
<1>2. IsFiniteSet(1 .. Len(q))
  BY <1>1, FS_Interval
<1>3. Places(q, id) \in SUBSET (1 .. Len(q))
  BY <1>1 DEF Places
<1>4. IsFiniteSet(Places(q, id)) /\ Cardinality(Places(q, id)) \in Nat
  BY <1>2, <1>3, FS_Subset, FS_CardinalityType
<1>5. id \notin Range(q) => Places(q, id) = {}
  BY DEF Range, Places
<1>6. id \notin Range(q) => Cardinality(Places(q, id)) = 0
  BY <1>5, FS_EmptySet
<1>7. QED
  BY <1>4, <1>6

LEMMA PlacesAppended ==
  ASSUME NEW q \in Seq(Nat), NEW e \in Nat, NEW id
  PROVE  Cardinality(Places(Append(q, e), id))
           = Cardinality(Places(q, id)) + (IF id = e THEN 1 ELSE 0)
<1> DEFINE n == Len(q)
<1>1. /\ n \in Nat /\ DOMAIN q = 1 .. n /\ DOMAIN Append(q, e) = 1 .. n + 1
      /\ \A k \in 1 .. n : Append(q, e)[k] = q[k]
      /\ Append(q, e)[n + 1] = e
  OBVIOUS
<1>2. IsFiniteSet(Places(q, id)) /\ Cardinality(Places(q, id)) \in Nat
  BY PlacesFinite
<1>3. \A k \in 1 .. n + 1 : k \in 1 .. n \/ k = n + 1
  BY <1>1
<1>4. n + 1 \notin 1 .. n /\ n + 1 \in 1 .. n + 1 /\ 1 .. n \subseteq 1 .. n + 1
  BY <1>1
<1>5. id = e => /\ Places(Append(q, e), id) = Places(q, id) \cup {n + 1}
                /\ n + 1 \notin Places(q, id)
  BY <1>1, <1>3, <1>4 DEF Places
<1>6. id # e => Places(Append(q, e), id) = Places(q, id)
  BY <1>1, <1>3, <1>4 DEF Places
<1>7. id = e => Cardinality(Places(Append(q, e), id)) = Cardinality(Places(q, id)) + 1
  BY <1>2, <1>5, FS_AddElement
<1>8. QED
  BY <1>2, <1>6, <1>7

\* The counts of CopiesByPassed are numbers.
LEMMA PassedFinite ==
  ASSUME NEW T, NEW q \in Seq(T), NEW S \in SUBSET DOMAIN q
  PROVE  IsFiniteSet(S) /\ Cardinality(S) \in Nat
<1>1. DOMAIN q = 1 .. Len(q) /\ Len(q) \in Nat
  OBVIOUS
<1>2. IsFiniteSet(1 .. Len(q))
  BY <1>1, FS_Interval
<1>3. QED
  BY <1>1, <1>2, FS_Subset, FS_CardinalityType

\* The entries of TypeOK, without the sequence.
LEMMA EntryFacts ==
  ASSUME TypeOK
  PROVE  /\ \A e \in Entries : e \in EntryOf /\ e.fd \in Nat /\ e.client \in Client
         /\ \A k \in DOMAIN clients : clients[k] \in Entries
         /\ DOMAIN clients = 1 .. Len(clients) /\ Len(clients) \in Nat
<1>1. clients \in Seq(EntryOf) /\ accepted \in EntryOf \cup {None}
  BY DEF TypeOK
<1>2. \A k \in DOMAIN clients : clients[k] \in EntryOf
  BY <1>1
<1>3. \A e \in EntryOf : e.fd \in Nat /\ e.client \in Client
  BY DEF EntryOf
<1>4. \A e \in Entries : e \in EntryOf
  BY <1>1, <1>2 DEF Entries, Range
<1>5. \A k \in DOMAIN clients : clients[k] \in Entries
  BY DEF Entries, Range
<1>6. QED
  BY <1>1, <1>3, <1>4, <1>5

\* The ids that a client was sent are numbers, and made before.
LEMMA IdFacts ==
  ASSUME PriceInv
  PROVE  /\ priceId \in Nat /\ priceTimestamps \subseteq Nat
         /\ \A c \in Client : \A id \in Range(got[c]) :
              id \in Nat /\ id < priceId /\ id \in priceTimestamps
  BY DEF PriceInv, TypeOK, IdsWereSent

\* The hits of TypeOK, without the sequence.
LEMMA HitFacts ==
  ASSUME TypeOK
  PROVE  \A k \in DOMAIN hits : hits[k].client \in Client /\ hits[k].id \in Nat
<1> DEFINE S == [client : Client, id : Nat, alone : BOOLEAN]
<1>1. hits \in Seq(S) /\ \A h \in S : h.client \in Client /\ h.id \in Nat
  BY DEF TypeOK
<1> HIDE DEF S
<1>2. QED
  BY <1>1

\* Copies counts, and is 0 before the first.
LEMMA CopiesZero ==
  ASSUME TypeOK, NEW c \in Client, NEW id
  PROVE  Copies(id, c) \in Nat /\ (id \notin Range(got[c]) => Copies(id, c) = 0)
<1>1. got[c] \in Seq(Nat)
  BY DEF TypeOK
<1>2. Copies(id, c) = Cardinality(Places(got[c], id))
  BY DEF Copies, Places
<1>3. QED
  BY <1>1, <1>2, PlacesFinite
-----------------------------------------------------------------------------
\* Nothing is open, sent or hit before the first step.
LEMMA InitInv == Init => PriceInv
<1> SUFFICES ASSUME Init PROVE PriceInv
  OBVIOUS
<1>1. Entries = {}
  BY DEF Init, Entries, Range
<1>2. TypeOK
  BY CapacityAssumption DEF Init, TypeOK
<1>3. FeedInStep
  BY DEF Init, FeedInStep
<1>4. IdsWereSent
  BY DEF Init, IdsWereSent, Range
<1>5. HitsLogged /\ HitOnce
  BY DEF Init, HitsLogged, HitOnce
<1>6. OneEntryEach
  BY <1>1 DEF Init, OneEntryEach
<1>7. CopiesByPassed
  BY <1>1 DEF CopiesByPassed
<1>8. QED
  BY <1>2, <1>3, <1>4, <1>5, <1>6, <1>7 DEF PriceInv

\* What OneEntryEach and CopiesByPassed are about, where a step leaves it alone.
LEMMA EntriesUnchanged ==
  ASSUME OneEntryEach, UNCHANGED <<clients, accepted, process, backlog, descriptors, got>>
  PROVE  OneEntryEach' /\ Entries' = Entries
  BY DEF OneEntryEach, Entries

LEMMA CopiesUnchanged ==
  ASSUME CopiesByPassed, UNCHANGED <<clients, accepted, got, feed>>
  PROVE  CopiesByPassed'
<1>1. Entries' = Entries
  BY DEF Entries
<1>2. \A id, c : Copies(id, c)' = Copies(id, c) /\ Passed(id, c)' = Passed(id, c)
  BY DEF Copies, Passed
<1>3. QED
  BY <1>1, <1>2 DEF CopiesByPassed

LEMMA CopiesBound ==
  ASSUME PriceInv, NEW e \in Entries, NEW id
  PROVE  /\ Copies(id, e.client) \in Nat
         /\ IsFiniteSet(Passed(id, e.fd)) /\ Cardinality(Passed(id, e.fd)) \in Nat
         /\ Copies(id, e.client) <= Cardinality(Passed(id, e.fd))
<1>1. clients \in Seq(EntryOf) /\ Passed(id, e.fd) \in SUBSET DOMAIN clients
  BY DEF PriceInv, TypeOK, Passed
<1>2. IsFiniteSet(Passed(id, e.fd)) /\ Cardinality(Passed(id, e.fd)) \in Nat
  BY <1>1, PassedFinite
<1>3. /\ Copies(id, e.client) \in Nat
      /\ id \notin Range(got[e.client]) => Copies(id, e.client) = 0
  BY EntryFacts, CopiesZero DEF PriceInv
<1>4. id \in Range(got[e.client]) => Copies(id, e.client) <= Cardinality(Passed(id, e.fd))
  BY DEF PriceInv, CopiesByPassed
<1>5. QED
  BY <1>2, <1>3, <1>4

\* A step that sends nothing: what has been passed stays so.
LEMMA CopiesAsBefore ==
  ASSUME PriceInv, TypeOK', got' = got, Entries' = Entries,
         \A fd : \A e \in Entries : \A id \in Range(got[e.client]) :
           Passed(id, fd) \subseteq Passed(id, fd)'
  PROVE  CopiesByPassed'
<1> SUFFICES ASSUME NEW e \in Entries, NEW id \in Range(got[e.client])
             PROVE  Copies(id, e.client)' <= Cardinality(Passed(id, e.fd)')
  BY DEF CopiesByPassed
<1> DEFINE before == Passed(id, e.fd)
           after  == Passed(id, e.fd)'
<1>1. /\ Copies(id, e.client)' = Copies(id, e.client) /\ Copies(id, e.client) \in Nat
      /\ Copies(id, e.client) <= Cardinality(before)
  BY CopiesBound DEF Copies
<1>2. clients' \in Seq(EntryOf) /\ after \in SUBSET DOMAIN clients' /\ before \in SUBSET after
  BY DEF TypeOK, Passed
<1> HIDE DEF before, after
<1>3. IsFiniteSet(after) /\ Cardinality(after) \in Nat
  BY <1>2, PassedFinite
<1>4. Cardinality(before) <= Cardinality(after) /\ Cardinality(before) \in Nat
  BY <1>2, <1>3, FS_Subset, FS_CardinalityType
<1>5. QED
  BY <1>1, <1>3, <1>4 DEF after

LEMMA NewPriceStep ==
  ASSUME PriceInv, NewPrice
  PROVE  PriceInv'
<1>1. PICK p \in Price : feed' = [stage |-> "stamp", id |-> priceId, price |-> p, next |-> 1]
  BY DEF NewPrice
<1>2. /\ priceId' = priceId + 1
      /\ UNCHANGED <<priceTimestamps, priceAlreadyHit, hits, clients, accepted, descriptors,
                     backlog, process, window, order, down, up, got, handler>>
  BY DEF NewPrice, hitVars, tableVars, clientVars, streams
<1>3. TypeOK'
  BY <1>1, <1>2 DEF PriceInv, TypeOK
<1>4. priceId \in Nat /\ \A c \in Client : \A id \in Range(got[c]) : id # priceId /\ id \in Nat
  BY IdFacts
<1>5. FeedInStep'
  BY <1>1, <1>2, <1>4 DEF FeedInStep
<1>6. IdsWereSent'
  <2>1. \A c \in Client : \A id \in Range(got[c]) :
          id \in priceTimestamps /\ id < priceId + 1
    BY IdFacts
  <2>2. QED
    BY <1>2, <2>1 DEF PriceInv, IdsWereSent
<1>7. HitsLogged' /\ HitOnce'
  BY <1>2 DEF PriceInv, HitsLogged, HitOnce
<1>8. OneEntryEach' /\ Entries' = Entries
  BY <1>2, EntriesUnchanged DEF PriceInv
<1>9. CopiesByPassed'
  <2>1. \A id, fd : Passed(id, fd) \subseteq Passed(id, fd)'
    BY <1>1, <1>2 DEF Passed
  <2>2. QED
    BY <1>2, <1>3, <1>8, <2>1, CopiesAsBefore
<1>10. QED
  BY <1>3, <1>5, <1>6, <1>7, <1>8, <1>9 DEF PriceInv

LEMMA StampStep ==
  ASSUME PriceInv, Stamp
  PROVE  PriceInv'
<1>1. /\ feed.stage = "stamp"
      /\ feed' = [feed EXCEPT !.stage = "lock"]
      /\ priceTimestamps' = priceTimestamps \cup {feed.id}
      /\ UNCHANGED <<priceId, priceAlreadyHit, hits, clients, accepted, descriptors,
                     backlog, process, window, order, down, up, got, handler>>
  BY DEF Stamp, hitVars, tableVars, clientVars, streams
<1>2. TypeOK'
  BY <1>1 DEF PriceInv, TypeOK
<1>3. FeedInStep'
  BY <1>1 DEF PriceInv, TypeOK, FeedInStep
<1>4. IdsWereSent'
  BY <1>1 DEF PriceInv, IdsWereSent
<1>5. HitsLogged' /\ HitOnce'
  BY <1>1 DEF PriceInv, HitsLogged, HitOnce
<1>6. OneEntryEach' /\ Entries' = Entries
  BY <1>1, EntriesUnchanged DEF PriceInv
<1>7. CopiesByPassed'
  <2>1. \A id, fd : Passed(id, fd) \subseteq Passed(id, fd)'
    BY <1>1 DEF Passed, PriceInv, TypeOK
  <2>2. QED
    BY <1>1, <1>2, <1>6, <2>1, CopiesAsBefore
<1>8. QED
  BY <1>2, <1>3, <1>4, <1>5, <1>6, <1>7 DEF PriceInv

\* A price that is not sent yet has no copies.
LEMMA LockClientsStep ==
  ASSUME PriceInv, LockClients
  PROVE  PriceInv'
<1>1. /\ feed.stage = "lock"
      /\ feed' = [feed EXCEPT !.stage = "send", !.next = 1]
      /\ UNCHANGED <<priceTimestamps, priceId, priceAlreadyHit, hits, clients, accepted,
                     descriptors, backlog, process, window, order, down, up, got, handler>>
  BY DEF LockClients, priceVars, hitVars, tableVars, clientVars, streams
<1>2. TypeOK'
  <2>1. feed' \in [stage : {"price", "stamp", "lock", "send"}, id : Nat,
                   price : Price \cup {0}, next : Nat \ {0}]
    <3>1. feed' = [stage |-> "send", id |-> feed.id, price |-> feed.price, next |-> 1]
      BY <1>1, Zenon DEF PriceInv, TypeOK
    <3>2. QED
      BY <3>1 DEF PriceInv, TypeOK
  <2>2. QED
    BY <1>1, <2>1 DEF PriceInv, TypeOK
<1>3. FeedInStep'
  BY <1>1 DEF PriceInv, TypeOK, FeedInStep
<1>4. IdsWereSent'
  BY <1>1 DEF PriceInv, IdsWereSent
<1>5. HitsLogged' /\ HitOnce'
  BY <1>1 DEF PriceInv, HitsLogged, HitOnce
<1>6. OneEntryEach' /\ Entries' = Entries
  BY <1>1, EntriesUnchanged DEF PriceInv
<1>7. CopiesByPassed'
  <2>1. ASSUME NEW fd, NEW e \in Entries, NEW id \in Range(got[e.client])
        PROVE  Passed(id, fd) \subseteq Passed(id, fd)'
    <3>1. e.client \in Client
      BY <2>1, EntryFacts DEF PriceInv
    <3>2. id # feed.id
      BY <1>1, <2>1, <3>1 DEF PriceInv, FeedInStep
    <3>3. feed'.id = feed.id
      BY <1>1 DEF PriceInv, TypeOK
    <3>4. QED
      BY <1>1, <3>2, <3>3 DEF Passed
  <2>2. QED
    BY <1>1, <1>2, <1>6, <2>1, CopiesAsBefore
<1>8. QED
  BY <1>2, <1>3, <1>4, <1>5, <1>6, <1>7 DEF PriceInv

LEMMA UnlockClientsStep ==
  ASSUME PriceInv, UnlockClients
  PROVE  PriceInv'
<1>1. /\ feed.stage = "send" /\ feed.next > Len(clients)
      /\ feed' = [feed EXCEPT !.stage = "price"]
      /\ UNCHANGED <<priceTimestamps, priceId, priceAlreadyHit, hits, clients, accepted,
                     descriptors, backlog, process, window, order, down, up, got, handler>>
  BY DEF UnlockClients, priceVars, hitVars, tableVars, clientVars, streams
<1>2. TypeOK'
  BY <1>1 DEF PriceInv, TypeOK
<1>3. FeedInStep'
  BY <1>1 DEF PriceInv, TypeOK, FeedInStep
<1>4. IdsWereSent'
  BY <1>1 DEF PriceInv, IdsWereSent
<1>5. HitsLogged' /\ HitOnce'
  BY <1>1 DEF PriceInv, HitsLogged, HitOnce
<1>6. OneEntryEach' /\ Entries' = Entries
  BY <1>1, EntriesUnchanged DEF PriceInv
<1>7. CopiesByPassed'
  <2>1. \A id, fd : Passed(id, fd) \subseteq Passed(id, fd)'
    BY <1>1 DEF Passed, PriceInv, TypeOK
  <2>2. QED
    BY <1>1, <1>2, <1>6, <2>1, CopiesAsBefore
<1>8. QED
  BY <1>2, <1>3, <1>4, <1>5, <1>6, <1>7 DEF PriceInv

\* A client has one entry.
LEMMA EntryOfClient ==
  ASSUME PriceInv, NEW d \in Entries, NEW e \in Entries, d.client = e.client
  PROVE  d = e
  BY DEF PriceInv, OneEntryEach, Entries, Range

\* send() to one entry: the place in clients is passed, and what was passed
\* before still is.  At most one copy is added, to the entry that has the
\* descriptor now.
LEMMA SendPriceStep ==
  ASSUME PriceInv, SendPrice
  PROVE  PriceInv'
<1> DEFINE k == feed.next
           fd == clients[k].fd
<1>1. /\ feed.stage = "send" /\ k <= Len(clients) /\ Deliver(fd)
      /\ feed' = [feed EXCEPT !.next = k + 1]
      /\ UNCHANGED <<priceTimestamps, priceId, priceAlreadyHit, hits, clients, accepted,
                     descriptors, backlog, process, window, order, handler>>
  BY DEF SendPrice, priceVars, hitVars, tableVars, clientVars
<1>2. /\ feed' \in [stage : {"price", "stamp", "lock", "send"}, id : Nat,
                    price : Price \cup {0}, next : Nat \ {0}]
      /\ feed'.stage = feed.stage /\ feed'.id = feed.id /\ feed'.price = feed.price
      /\ k \in Nat \ {0} /\ feed'.next = k + 1 /\ feed.id \in Nat
  <2>1. feed \in [stage : {"price", "stamp", "lock", "send"}, id : Nat,
                  price : Price \cup {0}, next : Nat \ {0}]
    BY DEF PriceInv, TypeOK
  <2>2. k \in Nat \ {0} /\ feed.id \in Nat
    BY <2>1
  <2> HIDE DEF k
  <2>3. k + 1 \in Nat \ {0}
    BY <2>2
  <2>4. QED
    BY <1>1, <2>1, <2>2, <2>3
<1>3. /\ Entries' = Entries
      /\ \A id, d : Passed(id, d) \subseteq Passed(id, d)'
      /\ \A id, d : id = feed.id /\ d = fd => k \in Passed(id, d)' /\ k \notin Passed(id, d)
  <2>1. Entries' = Entries
    BY <1>1 DEF Entries
  <2>2. k \in DOMAIN clients
    BY <1>1, <1>2, EntryFacts DEF PriceInv
  <2>3. ASSUME NEW id, NEW d, NEW j \in Passed(id, d) PROVE j \in Passed(id, d)'
    <3>1. j \in DOMAIN clients /\ j \in Nat
      BY EntryFacts DEF Passed, PriceInv
    <3>2. j < k => j < k + 1
      BY <1>2, <3>1
    <3>3. QED
      BY <1>1, <1>2, <3>1, <3>2 DEF Passed
  <2>4. ASSUME NEW id, NEW d, id = feed.id, d = fd
        PROVE  k \in Passed(id, d)' /\ k \notin Passed(id, d)
    <3>1. k < k + 1 /\ ~(k < k)
      BY <1>2
    <3>2. k \in DOMAIN clients' /\ clients'[k].fd = d /\ k < feed'.next
      BY <1>1, <1>2, <2>2, <2>4, <3>1
    <3>3. k \notin Passed(id, d)
      BY <1>1, <2>4, <3>1 DEF Passed
    <3>4. QED
      BY <3>2, <3>3 DEF Passed
  <2>5. QED
    BY <2>1, <2>3, <2>4
<1>4. feed.id \in priceTimestamps /\ feed.id < priceId /\ feed.price \in Price
  BY <1>1 DEF PriceInv, FeedInStep
<1>5. CASE UNCHANGED <<down, up, got>>
  <2>1. TypeOK'
    BY <1>1, <1>2, <1>5 DEF PriceInv, TypeOK
  <2>2. FeedInStep'
    BY <1>1, <1>2, <1>5 DEF PriceInv, FeedInStep
  <2>3. IdsWereSent'
    BY <1>1, <1>5 DEF PriceInv, IdsWereSent
  <2>4. HitsLogged' /\ HitOnce'
    BY <1>1, <1>5 DEF PriceInv, HitsLogged, HitOnce
  <2>5. OneEntryEach'
    BY <1>1, <1>5, EntriesUnchanged DEF PriceInv
  <2>6. CopiesByPassed'
    BY <1>3, <1>5, <2>1, CopiesAsBefore
  <2>7. QED
    BY <2>1, <2>2, <2>3, <2>4, <2>5, <2>6 DEF PriceInv
<1>6. CASE ~UNCHANGED <<down, up, got>>
  <2> DEFINE c == descriptors[fd]
             m == [id |-> feed.id, price |-> feed.price]
  <2>1. /\ fd \in DOMAIN descriptors
        /\ Len(down[c]) < Capacity
        /\ down' = [down EXCEPT ![c] = Append(down[c], m)]
        /\ got' = [got EXCEPT ![c] = Append(got[c], feed.id)]
        /\ up' = up
    BY <1>1, <1>6 DEF Deliver, streams
  <2>2. c \in Client
    BY <2>1 DEF PriceInv, TypeOK
  <2>3. m \in Message /\ m.id = feed.id
    BY <1>2, <1>4 DEF Message
  <2>4. [fd |-> fd, client |-> c] \in Entries
    BY <2>1 DEF PriceInv, OneEntryEach
  <2> HIDE DEF c, m
  <2>5. /\ down[c] \in Seq(Message) /\ got[c] \in Seq(Nat)
        /\ DOMAIN down = Client /\ DOMAIN got = Client
    BY <2>2 DEF PriceInv, TypeOK
  <2>6. /\ Append(down[c], m) \in Seq(Message) /\ Len(Append(down[c], m)) <= Capacity
        /\ Range(Append(down[c], m)) = Range(down[c]) \cup {m}
        /\ Append(got[c], feed.id) \in Seq(Nat)
        /\ Range(Append(got[c], feed.id)) = Range(got[c]) \cup {feed.id}
    <3>1. Len(Append(down[c], m)) = Len(down[c]) + 1 /\ Len(down[c]) \in Nat
      BY <2>3, <2>5, AppendFacts
    <3>2. Len(Append(down[c], m)) <= Capacity
      BY <2>1, <3>1, CapacityAssumption
    <3>3. QED
      BY <1>2, <2>3, <2>5, <3>2, AppendFacts
  <2>7. /\ \A d \in Client : d # c => down'[d] = down[d] /\ got'[d] = got[d]
        /\ down'[c] = Append(down[c], m) /\ got'[c] = Append(got[c], feed.id)
        /\ \A d \in Client : Range(got[d]) \subseteq Range(got'[d])
    BY <2>1, <2>2, <2>5, <2>6
  <2>8. TypeOK'
    <3>1. /\ down' \in [Client -> Seq(Message)] /\ got' \in [Client -> Seq(Nat)]
          /\ \A d \in Client : Len(down'[d]) <= Capacity
      BY <2>1, <2>2, <2>6, <2>7 DEF PriceInv, TypeOK
    <3>2. QED
      BY <1>1, <1>2, <2>1, <3>1 DEF PriceInv, TypeOK
  <2>9. FeedInStep'
    BY <1>1, <1>2, <1>4 DEF FeedInStep
  <2>10. IdsWereSent'
    <3> SUFFICES ASSUME NEW d \in Client
                 PROVE  /\ \A id \in Range(got'[d]) : id \in priceTimestamps /\ id < priceId
                        /\ \A x \in Range(down'[d]) : x.id \in Range(got'[d])
                        /\ \A id \in Range(up[d]) \cup {order[d]} :
                             id \in Range(got'[d]) \cup {Name, None}
      BY <1>1, <2>1 DEF IdsWereSent
    <3>1. CASE d = c
      BY <1>4, <2>3, <2>6, <2>7, <3>1 DEF PriceInv, IdsWereSent
    <3>2. CASE d # c
      BY <2>7, <3>2 DEF PriceInv, IdsWereSent
    <3>3. QED
      BY <3>1, <3>2
  <2>11. HitsLogged' /\ HitOnce'
    <3>1. \A j \in DOMAIN hits : hits[j].client \in Client
      BY HitFacts DEF PriceInv
    <3>2. QED
      BY <1>1, <2>7, <3>1 DEF PriceInv, HitsLogged, HitOnce
  <2>12. OneEntryEach'
    <3>1. \A d \in Client : got'[d] # << >> => \E e \in Entries : e.client = d
      BY <2>4, <2>7 DEF PriceInv, OneEntryEach
    <3>2. QED
      BY <1>1, <1>3, <3>1 DEF PriceInv, OneEntryEach
  <2>13. CopiesByPassed'
    <3> SUFFICES ASSUME NEW e \in Entries, NEW id \in Range(got'[e.client])
                 PROVE  Copies(id, e.client)' <= Cardinality(Passed(id, e.fd)')
      BY <1>3 DEF CopiesByPassed
    <3> DEFINE before == Passed(id, e.fd)
               after  == Passed(id, e.fd)'
               count  == Copies(id, e.client)
    <3>1. /\ count \in Nat /\ count <= Cardinality(before)
          /\ IsFiniteSet(before) /\ Cardinality(before) \in Nat
      BY CopiesBound
    <3>2. clients' \in Seq(EntryOf) /\ after \in SUBSET DOMAIN clients' /\ before \in SUBSET after
      <4>1. clients' \in Seq(EntryOf)
        BY <2>8 DEF TypeOK
      <4>2. after \in SUBSET DOMAIN clients'
        BY DEF Passed
      <4>3. before \in SUBSET after
        BY <1>3
      <4>4. QED
        BY <4>1, <4>2, <4>3
    <3>3. e.client = c => e.fd = fd
      BY <2>4, EntryOfClient
    <3>4. e.client \in Client
      BY EntryFacts DEF PriceInv
    <3>5. count' = count + (IF e.client = c /\ id = feed.id THEN 1 ELSE 0)
      <4>1. CASE e.client = c
        <5>1. /\ got[e.client] \in Seq(Nat) /\ feed.id \in Nat
              /\ got'[e.client] = Append(got[e.client], feed.id)
          BY <1>2, <2>5, <2>7, <4>1
        <5>2. count' = count + (IF id = feed.id THEN 1 ELSE 0)
          <6> DEFINE q == got[e.client]
          <6>1. count = Cardinality(Places(q, id))
            BY DEF Copies, Places
          <6>2. count' = Cardinality(Places(Append(q, feed.id), id))
            BY <5>1 DEF Copies, Places
          <6>3. q \in Seq(Nat) /\ feed.id \in Nat
            BY <5>1
          <6> HIDE DEF q, count
          <6>4. QED
            BY <6>1, <6>2, <6>3, PlacesAppended
        <5>3. QED
          BY <4>1, <5>2
      <4>2. CASE e.client # c
        <5>1. Copies(id, e.client)' = Copies(id, e.client)
          BY <2>7, <3>4, <4>2 DEF Copies
        <5>2. QED
          BY <3>1, <4>2, <5>1
      <4>3. QED
        BY <4>1, <4>2
    <3>6. e.client = c /\ id = feed.id => k \in after /\ k \notin before
      BY <1>3, <3>3
    <3> HIDE DEF before, after, count
    <3>7. IsFiniteSet(after) /\ Cardinality(after) \in Nat
      BY <3>2, PassedFinite
    <3>8. Cardinality(before) <= Cardinality(after)
      BY <3>2, <3>7, FS_Subset
    <3>9. k \in after /\ k \notin before => Cardinality(before) + 1 <= Cardinality(after)
      <4>1. before # after => Cardinality(before) # Cardinality(after)
        BY <3>2, <3>7, FS_Subset
      <4>2. QED
        BY <3>1, <3>7, <3>8, <4>1
    <3>10. count' <= Cardinality(after)
      BY <3>1, <3>5, <3>6, <3>7, <3>8, <3>9
    <3>11. QED
      BY <3>10 DEF after, count
  <2>14. QED
    BY <2>8, <2>9, <2>10, <2>11, <2>12, <2>13 DEF PriceInv
<1>7. QED
  BY <1>5, <1>6

\* accept(): the entry is not in clients yet, but its descriptor may be one that
\* prices are being sent to.  Nothing was sent to its client before.
LEMMA AcceptStep ==
  ASSUME PriceInv, Accept
  PROVE  PriceInv'
<1>1. PICK c \in backlog, fd \in 1 .. Len(clients) + 1 :
        /\ fd \notin DOMAIN descriptors
        /\ accepted' = [fd |-> fd, client |-> c]
        /\ descriptors' = [d \in DOMAIN descriptors \cup {fd} |->
                              IF d = fd THEN c ELSE descriptors[d]]
        /\ backlog' = backlog \ {c}
  BY DEF Accept
<1> DEFINE new == [fd |-> fd, client |-> c]
<1>2. /\ accepted = None
      /\ UNCHANGED <<priceTimestamps, priceId, priceAlreadyHit, hits, clients, process,
                     window, order, down, up, got, feed, handler>>
  BY DEF Accept, priceVars, hitVars, clientVars, streams
<1>3. fd \in Nat /\ c \in Client
  BY DEF PriceInv, TypeOK
<1>4. new \in EntryOf /\ new # None /\ new.client = c /\ new.fd = fd
  BY <1>3, NoneAssumption DEF EntryOf
<1> HIDE DEF new
<1>5. accepted' = new
  BY <1>1 DEF new
<1>6. Entries' = Entries \cup {new}
  BY <1>2, <1>4, <1>5 DEF Entries
<1>7. \A e \in Entries : e.client # c
  BY DEF PriceInv, OneEntryEach
<1>8. TypeOK'
  BY <1>1, <1>2, <1>3, <1>4, <1>5 DEF PriceInv, TypeOK
<1>9. FeedInStep' /\ HitsLogged' /\ HitOnce'
  BY <1>2 DEF PriceInv, FeedInStep, HitsLogged, HitOnce
<1>10. IdsWereSent'
  BY <1>2 DEF PriceInv, IdsWereSent
<1>11. OneEntryEach'
  <2>1. \A k \in DOMAIN clients : clients[k].client # c
    BY <1>7, EntryFacts DEF PriceInv
  <2>2. \A e \in Entries' : process[e.client] # "absent" /\ e.client \notin backlog'
    BY <1>1, <1>4, <1>6 DEF PriceInv, OneEntryEach
  <2>3. \A d \in DOMAIN descriptors' : [fd |-> d, client |-> descriptors'[d]] \in Entries'
    BY <1>1, <1>6 DEF PriceInv, OneEntryEach, new
  <2>4. \A d \in Client : got[d] # << >> => \E e \in Entries' : e.client = d
    BY <1>6 DEF PriceInv, OneEntryEach
  <2>5. QED
    BY <1>1, <1>2, <1>4, <1>5, <2>1, <2>2, <2>3, <2>4 DEF PriceInv, OneEntryEach
<1>12. CopiesByPassed'
  <2>1. got[c] = << >>
    BY <1>3, <1>7 DEF PriceInv, OneEntryEach
  <2>2. Range(got[c]) = {}
    BY <2>1 DEF Range
  <2>3. \A id, d : Copies(id, d)' = Copies(id, d) /\ Passed(id, d)' = Passed(id, d)
    BY <1>2 DEF Copies, Passed
  <2>4. QED
    BY <1>2, <1>4, <1>6, <2>2, <2>3 DEF PriceInv, CopiesByPassed
<1>13. QED
  BY <1>8, <1>9, <1>10, <1>11, <1>12 DEF PriceInv

\* The accepted entry is added: never while prices are being sent.
LEMMA RegisterStep ==
  ASSUME PriceInv, Register
  PROVE  PriceInv'
<1>1. /\ accepted # None /\ feed.stage # "send"
      /\ clients' = Append(clients, accepted)
      /\ handler' = Append(handler, "name")
      /\ accepted' = None
      /\ UNCHANGED <<priceTimestamps, priceId, priceAlreadyHit, hits, descriptors, backlog,
                     process, window, order, down, up, got, feed>>
  BY DEF Register, priceVars, hitVars, clientVars, streams
<1>2. accepted \in EntryOf /\ clients \in Seq(EntryOf)
  BY <1>1 DEF PriceInv, TypeOK
<1>3. /\ clients' \in Seq(EntryOf) /\ Len(clients') = Len(clients) + 1
      /\ Range(clients') = Range(clients) \cup {accepted}
  BY <1>1, <1>2, AppendFacts
<1>4. /\ Len(clients) \in Nat /\ DOMAIN clients = 1 .. Len(clients)
      /\ DOMAIN clients' = 1 .. Len(clients) + 1
      /\ \A k \in 1 .. Len(clients) : clients'[k] = clients[k]
      /\ clients'[Len(clients) + 1] = accepted
      /\ \A k \in 1 .. Len(clients) + 1 : k \in 1 .. Len(clients) \/ k = Len(clients) + 1
  BY <1>1, <1>2
<1>5. Entries' = Entries
  BY <1>1, <1>3 DEF Entries
<1>6. TypeOK'
  <2>1. handler' \in Seq({"name", "orders", "closed"}) /\ Len(handler') = Len(clients')
    <3> DEFINE S == {"name", "orders", "closed"}
    <3>1. handler \in Seq(S) /\ "name" \in S /\ Len(handler) = Len(clients)
      BY DEF PriceInv, TypeOK
    <3> HIDE DEF S
    <3>2. handler' \in Seq(S) /\ Len(handler') = Len(handler) + 1
      BY <1>1, <3>1, AppendFacts
    <3>3. QED
      BY <1>3, <3>1, <3>2 DEF S
  <2>2. QED
    BY <1>1, <1>3, <2>1 DEF PriceInv, TypeOK
<1>7. FeedInStep' /\ HitsLogged' /\ HitOnce'
  BY <1>1 DEF PriceInv, FeedInStep, HitsLogged, HitOnce
<1>8. IdsWereSent'
  BY <1>1 DEF PriceInv, IdsWereSent
<1>9. OneEntryEach'
  <2>1. \A j, k \in DOMAIN clients' : clients'[j].client = clients'[k].client => j = k
    BY <1>1, <1>4 DEF PriceInv, OneEntryEach
  <2>2. QED
    BY <1>1, <1>5, <2>1 DEF PriceInv, OneEntryEach
<1>10. CopiesByPassed'
  <2>1. \A id, fd : Passed(id, fd) \subseteq Passed(id, fd)'
    BY <1>1, <1>4 DEF Passed
  <2>2. QED
    BY <1>1, <1>5, <1>6, <2>1, CopiesAsBefore
<1>11. QED
  BY <1>6, <1>7, <1>8, <1>9, <1>10 DEF PriceInv

\* recv() on the server's side: what a client has sent gets less.
LEMMA ReceiveFacts ==
  ASSUME PriceInv, NEW c \in Client, NEW n \in 1 .. Capacity, Receive(c, n)
  PROVE  /\ up' \in [Client -> Seq(Nat \cup {Name})]
         /\ \A d \in Client : Len(up'[d]) <= Capacity /\ Range(up'[d]) \subseteq Range(up[d])
         /\ down' = down /\ got' = got
         /\ up[c] \in Seq(Nat \cup {Name}) /\ n \in 1 .. Len(up[c])
<1> DEFINE S == Nat \cup {Name}
<1>1. /\ up \in [Client -> Seq(S)] /\ \A d \in Client : Len(up[d]) <= Capacity
      /\ up' = [up EXCEPT ![c] = SubSeq(up[c], n + 1, Len(up[c]))]
      /\ n <= Len(up[c]) /\ down' = down /\ got' = got
  BY DEF PriceInv, TypeOK, Receive
<1> HIDE DEF S
<1>2. up[c] \in Seq(S) /\ Len(up[c]) \in Nat /\ n \in Nat /\ n \in 0 .. Len(up[c])
  BY <1>1, CapacityAssumption
<1>3. /\ SubSeq(up[c], n + 1, Len(up[c])) \in Seq(S)
      /\ Len(SubSeq(up[c], n + 1, Len(up[c]))) = Len(up[c]) - n
      /\ Range(SubSeq(up[c], n + 1, Len(up[c]))) \subseteq Range(up[c])
  BY <1>2, SubSeqFacts
<1>4. up' \in [Client -> Seq(S)]
  BY <1>1, <1>3
<1>5. up'[c] = SubSeq(up[c], n + 1, Len(up[c])) /\ \A d \in Client : d # c => up'[d] = up[d]
  BY <1>1
<1>6. Len(up'[c]) <= Capacity
  <2>1. Len(up[c]) <= Capacity /\ Len(up'[c]) = Len(up[c]) - n
    BY <1>1, <1>3, <1>5
  <2>2. QED
    BY <1>2, <2>1, CapacityAssumption
<1>7. \A d \in Client : Len(up'[d]) <= Capacity /\ Range(up'[d]) \subseteq Range(up[d])
  BY <1>1, <1>3, <1>5, <1>6
<1>8. QED
  BY <1>1, <1>2, <1>4, <1>7 DEF S

LEMMA ReceiveNameStep ==
  ASSUME PriceInv, NEW k \in DOMAIN clients, ReceiveName(k)
  PROVE  PriceInv'
<1>1. PICK n \in 1 .. Capacity : Receive(clients[k].client, n)
  BY DEF ReceiveName
<1>2. /\ handler' = [handler EXCEPT ![k] = "orders"]
      /\ UNCHANGED <<priceTimestamps, priceId, priceAlreadyHit, hits, clients, accepted,
                     descriptors, backlog, process, window, order, feed>>
  BY DEF ReceiveName, priceVars, hitVars, tableVars, clientVars
<1>3. clients[k].client \in Client
  BY EntryFacts DEF PriceInv
<1>4. /\ up' \in [Client -> Seq(Nat \cup {Name})]
      /\ \A d \in Client : Len(up'[d]) <= Capacity /\ Range(up'[d]) \subseteq Range(up[d])
      /\ down' = down /\ got' = got
  BY <1>1, <1>3, ReceiveFacts
<1>5. TypeOK'
  <2>1. handler' \in Seq({"name", "orders", "closed"}) /\ Len(handler') = Len(handler)
    BY <1>2 DEF PriceInv, TypeOK
  <2>2. QED
    BY <1>2, <1>4, <2>1 DEF PriceInv, TypeOK
<1>6. FeedInStep' /\ HitsLogged' /\ HitOnce'
  BY <1>2, <1>4 DEF PriceInv, FeedInStep, HitsLogged, HitOnce
<1>7. IdsWereSent'
  BY <1>2, <1>4 DEF PriceInv, IdsWereSent
<1>8. OneEntryEach' /\ CopiesByPassed'
  BY <1>2, <1>4, EntriesUnchanged, CopiesUnchanged DEF PriceInv
<1>9. QED
  BY <1>5, <1>6, <1>7, <1>8 DEF PriceInv

\* An order hits what is not among priceAlreadyHit, and is among them from then
\* on; received alone it is an id its client had been sent.
LEMMA ReceiveOrderStep ==
  ASSUME PriceInv, NEW k \in DOMAIN clients, ReceiveOrder(k)
  PROVE  PriceInv'
<1> DEFINE c == clients[k].client
<1>1. PICK n \in 1 .. Capacity :
        /\ Receive(c, n)
        /\ LET id == Atoi(SubSeq(up[c], 1, n))
           IN  IF Hit(id)
                 THEN /\ priceAlreadyHit' = priceAlreadyHit \cup {id}
                      /\ hits' = Append(hits, [client |-> c, id |-> id, alone |-> n = 1])
                 ELSE UNCHANGED hitVars
  BY DEF ReceiveOrder
<1>2. UNCHANGED <<priceTimestamps, priceId, clients, accepted, descriptors, backlog,
                  process, window, order, feed, handler>>
  BY DEF ReceiveOrder, priceVars, tableVars, clientVars
<1>3. c \in Client
  BY EntryFacts DEF PriceInv
<1> HIDE DEF c
<1>4. /\ up' \in [Client -> Seq(Nat \cup {Name})]
      /\ \A d \in Client : Len(up'[d]) <= Capacity /\ Range(up'[d]) \subseteq Range(up[d])
      /\ down' = down /\ got' = got
      /\ up[c] \in Seq(Nat \cup {Name}) /\ n \in 1 .. Len(up[c])
  BY <1>1, <1>3, ReceiveFacts
<1> DEFINE id == Atoi(SubSeq(up[c], 1, n))
           hit == [client |-> c, id |-> id, alone |-> n = 1]
<1>5. n = 1 => id \in Range(up[c])
  <2> SUFFICES ASSUME n = 1 PROVE id \in Range(up[c])
    OBVIOUS
  <2> DEFINE one == SubSeq(up[c], 1, n)
             S == Nat \cup {Name}
  <2>1. up[c] \in Seq(S) /\ 1 \in 1 .. Len(up[c]) /\ n = 1
    BY <1>4
  <2> HIDE DEF S
  <2>2. \A i \in 1 .. 1 : up[c][i] \in S
    BY <2>1
  <2>3. one \in Seq(S) /\ Len(one) = 1 /\ one[1] = up[c][1]
    BY <2>1, <2>2, SubSeqProperties
  <2> HIDE DEF one
  <2>4. Atoi(one) = up[c][1]
    <3>1. Head(one) = one[1]
      BY <2>3
    <3>2. QED
      BY <2>3, <3>1 DEF Atoi
  <2>5. QED
    BY <2>1, <2>4 DEF Range, one
<1> HIDE DEF id
<1>6. /\ priceAlreadyHit \subseteq priceAlreadyHit'
      /\ \/ priceAlreadyHit' = priceAlreadyHit /\ hits' = hits
         \/ /\ id \notin priceAlreadyHit /\ id \in priceTimestamps
            /\ priceAlreadyHit' = priceAlreadyHit \cup {id}
            /\ hits' = Append(hits, hit)
  BY <1>1 DEF Hit, hitVars, id
<1>7. id \in priceTimestamps /\ n = 1 => id \in Range(got[c])
  BY <1>3, <1>5, IdFacts, NoneAssumption DEF PriceInv, IdsWereSent
<1>8. /\ hits' \in Seq([client : Client, id : Nat, alone : BOOLEAN])
      /\ priceAlreadyHit' \subseteq priceTimestamps
      /\ HitsLogged' /\ HitOnce'
  <2>1. CASE priceAlreadyHit' = priceAlreadyHit /\ hits' = hits
    BY <1>2, <1>4, <2>1 DEF PriceInv, TypeOK, HitsLogged, HitOnce
  <2>2. CASE /\ id \notin priceAlreadyHit /\ id \in priceTimestamps
             /\ priceAlreadyHit' = priceAlreadyHit \cup {id}
             /\ hits' = Append(hits, hit)
    <3> DEFINE S == [client : Client, id : Nat, alone : BOOLEAN]
    <3>1. hits \in Seq(S) /\ priceAlreadyHit \subseteq priceTimestamps
      BY DEF PriceInv, TypeOK
    <3>2. hit \in S /\ hit.id = id /\ hit.client = c /\ hit.alone = (n = 1)
      BY <1>3, <2>2, IdFacts
    <3> HIDE DEF S, hit
    <3>3. /\ hits' \in Seq(S) /\ DOMAIN hits = 1 .. Len(hits) /\ Len(hits) \in Nat
          /\ DOMAIN hits' = 1 .. Len(hits) + 1
          /\ \A j \in 1 .. Len(hits) : hits'[j] = hits[j]
          /\ hits'[Len(hits) + 1] = hit
      BY <2>2, <3>1, <3>2
    <3>4. \A j \in DOMAIN hits' :
            \/ j \in DOMAIN hits /\ hits'[j] = hits[j]
            \/ j = Len(hits) + 1 /\ hits'[j] = hit
      <4> TAKE j \in DOMAIN hits'
      <4>1. j \in 1 .. Len(hits) \/ j = Len(hits) + 1
        BY <3>3
      <4>2. CASE j \in 1 .. Len(hits)
        <5>1. j \in DOMAIN hits
          BY <3>3, <4>2
        <5>2. hits'[j] = hits[j]
          BY <3>3, <4>2
        <5>3. QED
          BY <5>1, <5>2
      <4>3. CASE j = Len(hits) + 1
        BY <3>3, <4>3
      <4>4. QED
        BY <4>1, <4>2, <4>3
    <3>5. HitsLogged'
      BY <2>2, <3>2, <3>4 DEF PriceInv, HitsLogged
    <3>6. HitOnce'
      <4>1. \A i, j \in DOMAIN hits' : hits'[i].id = hits'[j].id => i = j
        <5>1. \A j \in DOMAIN hits : hits[j].id # id
          BY <2>2 DEF PriceInv, HitsLogged
        <5>2. QED
          BY <3>2, <3>4, <5>1 DEF PriceInv, HitOnce
      <4>2. \A j \in DOMAIN hits' : hits'[j].alone => hits'[j].id \in Range(got[hits'[j].client])
        BY <1>7, <2>2, <3>2, <3>4 DEF PriceInv, HitOnce
      <4>3. QED
        BY <1>4, <4>1, <4>2 DEF HitOnce
    <3>7. QED
      BY <2>2, <3>1, <3>3, <3>5, <3>6 DEF S
  <2>3. QED
    BY <1>6, <2>1, <2>2
<1>9. TypeOK'
  BY <1>2, <1>4, <1>8 DEF PriceInv, TypeOK
<1>10. FeedInStep'
  BY <1>2, <1>4 DEF PriceInv, FeedInStep
<1>11. IdsWereSent'
  BY <1>2, <1>4 DEF PriceInv, IdsWereSent
<1>12. OneEntryEach' /\ CopiesByPassed'
  BY <1>2, <1>4, EntriesUnchanged, CopiesUnchanged DEF PriceInv
<1>13. QED
  BY <1>8, <1>9, <1>10, <1>11, <1>12 DEF PriceInv

LEMMA DisconnectStep ==
  ASSUME PriceInv, NEW k \in DOMAIN clients, Disconnect(k)
  PROVE  PriceInv'
<1>1. /\ descriptors' = [d \in DOMAIN descriptors \ {clients[k].fd} |-> descriptors[d]]
      /\ handler' = [handler EXCEPT ![k] = "closed"]
      /\ UNCHANGED <<priceTimestamps, priceId, priceAlreadyHit, hits, clients, accepted,
                     backlog, process, window, order, down, up, got, feed>>
  BY DEF Disconnect, priceVars, hitVars, clientVars, streams
<1>2. TypeOK'
  <2>1. handler' \in Seq({"name", "orders", "closed"}) /\ Len(handler') = Len(handler)
    BY <1>1 DEF PriceInv, TypeOK
  <2>2. QED
    BY <1>1, <2>1 DEF PriceInv, TypeOK
<1>3. FeedInStep' /\ HitsLogged' /\ HitOnce'
  BY <1>1 DEF PriceInv, FeedInStep, HitsLogged, HitOnce
<1>4. IdsWereSent'
  BY <1>1 DEF PriceInv, IdsWereSent
<1>5. CopiesByPassed'
  BY <1>1, CopiesUnchanged DEF PriceInv
<1>6. OneEntryEach'
  <2>1. Entries' = Entries
    BY <1>1 DEF Entries
  <2>2. \A d \in DOMAIN descriptors' : d \in DOMAIN descriptors /\ descriptors'[d] = descriptors[d]
    BY <1>1
  <2>3. QED
    BY <1>1, <2>1, <2>2 DEF PriceInv, OneEntryEach
<1>7. QED
  BY <1>2, <1>3, <1>4, <1>5, <1>6 DEF PriceInv

\* A client appears: it is nobody's entry yet, and sends its name.
LEMMA ConnectStep ==
  ASSUME PriceInv, NEW c \in Client, Connect(c)
  PROVE  PriceInv'
<1>1. /\ process[c] = "absent"
      /\ process' = [process EXCEPT ![c] = "running"]
      /\ backlog' = backlog \cup {c}
      /\ up' = [up EXCEPT ![c] = <<Name>>]
      /\ UNCHANGED <<priceTimestamps, priceId, priceAlreadyHit, hits, clients, accepted,
                     descriptors, window, order, down, got, feed, handler>>
  BY DEF Connect, priceVars, hitVars
<1>2. /\ up' \in [Client -> Seq(Nat \cup {Name})]
      /\ \A d \in Client : Len(up'[d]) <= Capacity
      /\ \A d \in Client : Range(up'[d]) \subseteq Range(up[d]) \cup {Name}
  <2>1. /\ <<Name>> \in Seq(Nat \cup {Name}) /\ Len(<<Name>>) <= Capacity
        /\ Range(<<Name>>) = {Name}
    BY CapacityAssumption DEF Range
  <2>2. /\ up' \in [Client -> Seq(Nat \cup {Name})]
        /\ up'[c] = <<Name>> /\ \A d \in Client : d # c => up'[d] = up[d]
    BY <1>1, <2>1 DEF PriceInv, TypeOK
  <2>3. QED
    BY <2>1, <2>2 DEF PriceInv, TypeOK
<1>3. TypeOK'
  <2>1. process' \in [Client -> {"absent", "running", "left"}] /\ backlog' \subseteq Client
    BY <1>1 DEF PriceInv, TypeOK
  <2>2. QED
    BY <1>1, <1>2, <2>1 DEF PriceInv, TypeOK
<1>4. FeedInStep' /\ HitsLogged' /\ HitOnce'
  BY <1>1 DEF PriceInv, FeedInStep, HitsLogged, HitOnce
<1>5. IdsWereSent'
  BY <1>1, <1>2 DEF PriceInv, IdsWereSent
<1>6. CopiesByPassed'
  BY <1>1, CopiesUnchanged DEF PriceInv
<1>7. OneEntryEach'
  <2>1. Entries' = Entries
    BY <1>1 DEF Entries
  <2>2. \A d \in Client : process'[d] = IF d = c THEN "running" ELSE process[d]
    BY <1>1 DEF PriceInv, TypeOK
  <2>3. backlog \subseteq Client
    BY DEF PriceInv, TypeOK
  <2>4. \A e \in Entries : process'[e.client] # "absent" /\ e.client \notin backlog'
    BY <1>1, <2>2, EntryFacts DEF PriceInv, OneEntryEach
  <2>5. \A d \in backlog' : process'[d] # "absent"
    BY <1>1, <2>2, <2>3 DEF PriceInv, OneEntryEach
  <2>6. QED
    BY <1>1, <2>1, <2>4, <2>5 DEF PriceInv, OneEntryEach
<1>8. QED
  BY <1>3, <1>4, <1>5, <1>6, <1>7 DEF PriceInv

\* A client reads: the order it may place is for a price that it was sent.
LEMMA ReceivePriceStep ==
  ASSUME PriceInv, NEW c \in Client, ReceivePrice(c)
  PROVE  PriceInv'
<1> DEFINE m == Head(down[c])
           w == Append(IF Len(window[c]) < 3 THEN window[c] ELSE Tail(window[c]), m.price)
<1>1. PICK n \in 1 .. Len(down[c]) :
        /\ window' = [window EXCEPT ![c] = w]
        /\ order' = [order EXCEPT ![c] = IF Momentum(w) THEN m.id ELSE None]
        /\ down' = [down EXCEPT ![c] = SubSeq(down[c], n + 1, Len(down[c]))]
  BY DEF ReceivePrice
<1>2. UNCHANGED <<priceTimestamps, priceId, priceAlreadyHit, hits, clients, accepted,
                  descriptors, backlog, process, up, got, feed, handler>>
  BY DEF ReceivePrice, priceVars, hitVars, tableVars
<1>3. /\ down \in [Client -> Seq(Message)] /\ window \in [Client -> Seq(Price)]
      /\ order \in [Client -> Nat \cup {None}]
      /\ \A d \in Client : Len(window[d]) <= 3 /\ Len(down[d]) <= Capacity
  BY DEF PriceInv, TypeOK
<1>4. /\ down[c] \in Seq(Message) /\ Len(down[c]) \in Nat /\ Len(down[c]) <= Capacity
      /\ window[c] \in Seq(Price) /\ Len(window[c]) \in Nat /\ Len(window[c]) <= 3
      /\ n \in Nat /\ n \in 0 .. Len(down[c]) /\ 1 \in DOMAIN down[c]
  BY <1>3
<1>5. m \in Message /\ m \in Range(down[c])
  <2>1. m = down[c][1] /\ down[c][1] \in Message
    BY <1>4
  <2>2. QED
    BY <1>4, <2>1 DEF Range
<1>6. m.id \in Nat /\ m.price \in Price /\ m.id \in Range(got[c])
  BY <1>5 DEF PriceInv, IdsWereSent, Message
<1> HIDE DEF m
<1>7. w \in Seq(Price) /\ Len(w) <= 3
  <2>1. CASE Len(window[c]) < 3
    BY <1>4, <1>6, <2>1
  <2>2. CASE ~(Len(window[c]) < 3)
    <3>1. Len(window[c]) = 3 /\ window[c] # << >>
      <4> DEFINE l == Len(window[c])
      <4>1. l \in Nat /\ l <= 3 /\ ~(l < 3)
        BY <1>4, <2>2
      <4> HIDE DEF l
      <4>2. l = 3
        BY <4>1
      <4>3. window[c] = << >> => l = 0
        BY DEF l
      <4>4. QED
        BY <4>2, <4>3 DEF l
    <3>2. Tail(window[c]) \in Seq(Price) /\ Len(Tail(window[c])) = 2
      BY <1>4, <3>1
    <3>3. w = Append(Tail(window[c]), m.price)
      BY <2>2
    <3>4. QED
      BY <1>6, <3>2, <3>3
  <2>3. QED
    BY <2>1, <2>2
<1> HIDE DEF w
<1>8. /\ SubSeq(down[c], n + 1, Len(down[c])) \in Seq(Message)
      /\ Len(SubSeq(down[c], n + 1, Len(down[c]))) <= Capacity
      /\ Range(SubSeq(down[c], n + 1, Len(down[c]))) \subseteq Range(down[c])
  <2>1. Len(SubSeq(down[c], n + 1, Len(down[c]))) = Len(down[c]) - n
    BY <1>4, SubSeqFacts
  <2>2. Len(down[c]) - n <= Capacity
    BY <1>4, CapacityAssumption
  <2>3. QED
    BY <1>4, <2>1, <2>2, SubSeqFacts
<1>9. /\ window' \in [Client -> Seq(Price)] /\ \A d \in Client : Len(window'[d]) <= 3
      /\ order' \in [Client -> Nat \cup {None}]
  BY <1>1, <1>3, <1>6, <1>7
<1>10. /\ down' \in [Client -> Seq(Message)]
       /\ \A d \in Client : Len(down'[d]) <= Capacity /\ Range(down'[d]) \subseteq Range(down[d])
  BY <1>1, <1>3, <1>8
<1>11. TypeOK'
  BY <1>2, <1>9, <1>10 DEF PriceInv, TypeOK
<1>12. FeedInStep' /\ HitsLogged' /\ HitOnce'
  BY <1>2 DEF PriceInv, FeedInStep, HitsLogged, HitOnce
<1>13. IdsWereSent'
  <2>1. \A d \in Client : order'[d] \in Range(got[d]) \cup {Name, None}
    BY <1>1, <1>3, <1>6 DEF PriceInv, IdsWereSent
  <2>2. QED
    BY <1>2, <1>10, <2>1 DEF PriceInv, IdsWereSent
<1>14. OneEntryEach' /\ CopiesByPassed'
  BY <1>2, EntriesUnchanged, CopiesUnchanged DEF PriceInv
<1>15. QED
  BY <1>11, <1>12, <1>13, <1>14 DEF PriceInv

LEMMA SendOrderStep ==
  ASSUME PriceInv, NEW c \in Client, SendOrder(c)
  PROVE  PriceInv'
<1> DEFINE S == Nat \cup {Name}
<1>1. /\ order[c] # None /\ Len(up[c]) < Capacity
      /\ up' = [up EXCEPT ![c] = Append(up[c], order[c])]
      /\ order' = [order EXCEPT ![c] = None]
      /\ UNCHANGED <<priceTimestamps, priceId, priceAlreadyHit, hits, clients, accepted,
                     descriptors, backlog, process, window, down, got, feed, handler>>
  BY DEF SendOrder, priceVars, hitVars, tableVars
<1>2. /\ up \in [Client -> Seq(S)] /\ up[c] \in Seq(S) /\ order[c] \in S
      /\ order \in [Client -> Nat \cup {None}]
      /\ \A d \in Client : Len(up[d]) <= Capacity
  BY <1>1 DEF PriceInv, TypeOK
<1> HIDE DEF S
<1>3. /\ Append(up[c], order[c]) \in Seq(S) /\ Len(Append(up[c], order[c])) = Len(up[c]) + 1
      /\ Range(Append(up[c], order[c])) = Range(up[c]) \cup {order[c]}
  BY <1>2, AppendFacts
<1>4. /\ up' \in [Client -> Seq(S)]
      /\ up'[c] = Append(up[c], order[c]) /\ \A d \in Client : d # c => up'[d] = up[d]
  BY <1>1, <1>2, <1>3
<1>5. \A d \in Client : Len(up'[d]) <= Capacity
  <2>1. Len(up[c]) \in Nat
    BY <1>2
  <2>2. Len(up'[c]) <= Capacity
    BY <1>1, <1>3, <1>4, <2>1, CapacityAssumption
  <2>3. QED
    BY <1>2, <1>4, <2>2
<1>6. order' \in [Client -> Nat \cup {None}] /\ \A d \in Client : order'[d] \in {order[d], None}
  BY <1>1, <1>2
<1>7. TypeOK'
  BY <1>1, <1>4, <1>5, <1>6 DEF PriceInv, TypeOK, S
<1>8. FeedInStep' /\ HitsLogged' /\ HitOnce'
  BY <1>1 DEF PriceInv, FeedInStep, HitsLogged, HitOnce
<1>9. IdsWereSent'
  <2>1. \A d \in Client : Range(up'[d]) \cup {order'[d]}
                            \subseteq Range(up[d]) \cup {order[d]} \cup {None}
    BY <1>3, <1>4, <1>6
  <2>2. QED
    BY <1>1, <2>1 DEF PriceInv, IdsWereSent
<1>10. OneEntryEach' /\ CopiesByPassed'
  BY <1>1, EntriesUnchanged, CopiesUnchanged DEF PriceInv
<1>11. QED
  BY <1>7, <1>8, <1>9, <1>10 DEF PriceInv

LEMMA LeaveStep ==
  ASSUME PriceInv, NEW c \in Client, Leave(c)
  PROVE  PriceInv'
<1>1. /\ process[c] = "running"
      /\ process' = [process EXCEPT ![c] = "left"]
      /\ window' = [window EXCEPT ![c] = << >>]
      /\ order' = [order EXCEPT ![c] = None]
      /\ down' = [down EXCEPT ![c] = << >>]
      /\ UNCHANGED <<priceTimestamps, priceId, priceAlreadyHit, hits, clients, accepted,
                     descriptors, backlog, up, got, feed, handler>>
  BY DEF Leave, priceVars, hitVars, tableVars
<1>2. /\ window' \in [Client -> Seq(Price)] /\ \A d \in Client : Len(window'[d]) <= 3
      /\ order' \in [Client -> Nat \cup {None}] /\ \A d \in Client : order'[d] \in {order[d], None}
      /\ process' \in [Client -> {"absent", "running", "left"}]
      /\ \A d \in Client : process'[d] = "absent" => process[d] = "absent"
  BY <1>1 DEF PriceInv, TypeOK
<1>3. /\ down' \in [Client -> Seq(Message)]
      /\ \A d \in Client : Len(down'[d]) <= Capacity /\ Range(down'[d]) \subseteq Range(down[d])
  <2>1. down'[c] = << >> /\ \A d \in Client : d # c => down'[d] = down[d]
    BY <1>1 DEF PriceInv, TypeOK
  <2>2. Len(<< >>) <= Capacity /\ Range(<< >>) = {} /\ << >> \in Seq(Message)
    BY CapacityAssumption DEF Range
  <2>3. down' \in [Client -> Seq(Message)]
    BY <1>1, <2>2 DEF PriceInv, TypeOK
  <2>4. QED
    BY <2>1, <2>2, <2>3 DEF PriceInv, TypeOK
<1>4. TypeOK'
  BY <1>1, <1>2, <1>3 DEF PriceInv, TypeOK
<1>5. FeedInStep' /\ HitsLogged' /\ HitOnce'
  BY <1>1 DEF PriceInv, FeedInStep, HitsLogged, HitOnce
<1>6. IdsWereSent'
  BY <1>1, <1>2, <1>3 DEF PriceInv, IdsWereSent
<1>7. CopiesByPassed'
  BY <1>1, CopiesUnchanged DEF PriceInv
<1>8. OneEntryEach'
  <2>1. Entries' = Entries
    BY <1>1 DEF Entries
  <2>2. backlog \subseteq Client
    BY DEF PriceInv, TypeOK
  <2>3. \A e \in Entries : process'[e.client] # "absent"
    BY <1>2, EntryFacts DEF PriceInv, OneEntryEach
  <2>4. \A d \in backlog : process'[d] # "absent"
    BY <1>2, <2>2 DEF PriceInv, OneEntryEach
  <2>5. QED
    BY <1>1, <2>1, <2>3, <2>4 DEF PriceInv, OneEntryEach
<1>9. QED
  BY <1>4, <1>5, <1>6, <1>7, <1>8 DEF PriceInv
-----------------------------------------------------------------------------
(***************************************************************************)
(* The inductive invariant, and with it the types, for any number of       *)
(* clients and prices and streams of any size.                             *)
(***************************************************************************)
THEOREM PriceInvHolds == Spec => []PriceInv
<1>1. Init => PriceInv
  BY InitInv
<1>2. PriceInv /\ [Next]_vars => PriceInv'
  <2> SUFFICES ASSUME PriceInv, [Next]_vars PROVE PriceInv'
    OBVIOUS
  <2>1. ASSUME Broadcaster PROVE PriceInv'
    BY <2>1, NewPriceStep, StampStep, LockClientsStep, SendPriceStep, UnlockClientsStep
    DEF Broadcaster
  <2>2. ASSUME Acceptor PROVE PriceInv'
    BY <2>2, AcceptStep, RegisterStep DEF Acceptor
  <2>3. ASSUME NEW k \in DOMAIN clients, Handler(k) PROVE PriceInv'
    BY <2>3, ReceiveNameStep, ReceiveOrderStep, DisconnectStep DEF Handler
  <2>4. ASSUME NEW c \in Client, Connect(c) \/ Running(c) \/ Leave(c) PROVE PriceInv'
    BY <2>4, ConnectStep, ReceivePriceStep, SendOrderStep, LeaveStep DEF Running
  <2>5. ASSUME UNCHANGED vars PROVE PriceInv'
    <3>1. UNCHANGED <<priceId, priceTimestamps, priceAlreadyHit, hits, clients, accepted,
                      descriptors, backlog, process, window, order, down, up, got, feed,
                      handler>>
      BY <2>5 DEF vars, priceVars, hitVars, tableVars, clientVars, streams
    <3>2. TypeOK'
      BY <3>1 DEF PriceInv, TypeOK
    <3>3. FeedInStep' /\ IdsWereSent' /\ HitsLogged' /\ HitOnce'
      BY <3>1 DEF PriceInv, FeedInStep, IdsWereSent, HitsLogged, HitOnce
    <3>4. OneEntryEach' /\ CopiesByPassed'
      BY <3>1, EntriesUnchanged, CopiesUnchanged DEF PriceInv
    <3>5. QED
      BY <3>2, <3>3, <3>4 DEF PriceInv
  <2>6. QED
    BY <2>1, <2>2, <2>3, <2>4, <2>5 DEF Next
<1>3. QED
  BY <1>1, <1>2, PTL DEF Spec

(***************************************************************************)
(* The block under priceMutex lets one order for a price through, and one  *)
(* that is received alone is from a client that was sent the price.        *)
(***************************************************************************)
THEOREM PricesAreHitOnce == Spec => []HitOnce
<1>1. PriceInv => HitOnce
  BY DEF PriceInv
<1>2. QED
  BY <1>1, PriceInvHolds, PTL

(***************************************************************************)
(* Since the broadcaster notes a price before it locks clients, every id   *)
(* on its way from a client is one the server knows.                       *)
(***************************************************************************)
THEOREM OrdersAreKnown == Spec => []OrdersKnown
<1>1. PriceInv => OrdersKnown
  <2> SUFFICES ASSUME PriceInv, NEW c \in Client, NEW id \in {order[c]} \cup Range(up[c])
               PROVE  id \in priceTimestamps \cup {None, Name}
    BY DEF OrdersKnown
  <2>1. id \in Range(got[c]) \cup {Name, None}
    BY DEF PriceInv, IdsWereSent
  <2>2. QED
    BY <2>1, IdFacts
<1>2. QED
  BY <1>1, PriceInvHolds, PTL

(***************************************************************************)
(* A client is sent a price once for each client that has had its          *)
(* descriptor, itself included, however often descriptors are closed and   *)
(* handed out again while prices are sent.                                 *)
(***************************************************************************)
THEOREM PricesSentOncePerOwner == Spec => []SentOncePerOwner
<1>1. PriceInv => SentOncePerOwner
  <2> SUFFICES ASSUME PriceInv, NEW k \in DOMAIN clients, NEW id \in priceTimestamps
               PROVE  Copies(id, clients[k].client)
                        <= Cardinality({clients[j].client : j \in
                             {j \in DOMAIN clients : clients[j].fd = clients[k].fd}})
    BY DEF SentOncePerOwner
  <2> DEFINE e == clients[k]
             P == Passed(id, e.fd)
             J == {j \in DOMAIN clients : clients[j].fd = clients[k].fd}
             O == {clients[j].client : j \in J}
             f == [j \in J |-> clients[j].client]
  <2>1. e \in Entries /\ clients \in Seq(EntryOf)
    BY EntryFacts DEF PriceInv, TypeOK
  <2>2. P \in SUBSET J /\ J \in SUBSET DOMAIN clients
    BY DEF Passed
  <2>3. /\ Copies(id, e.client) \in Nat /\ Cardinality(P) \in Nat
        /\ Copies(id, e.client) <= Cardinality(P)
    BY <2>1, CopiesBound
  <2>4. f \in Surjection(J, O) /\ f \in Injection(J, O)
    <3>1. f \in [J -> O] /\ \A x \in O : \E j \in J : f[j] = x
      OBVIOUS
    <3>2. \A i, j \in J : f[i] = f[j] => i = j
      BY DEF PriceInv, OneEntryEach
    <3> HIDE DEF f, J, O
    <3>3. QED
      BY <3>1, <3>2 DEF Surjection, Injection, IsInjective
  <2> HIDE DEF e, P, J, O, f
  <2>5. IsFiniteSet(J) /\ Cardinality(J) \in Nat
    BY <2>1, <2>2, PassedFinite
  <2>6. Cardinality(P) <= Cardinality(J)
    BY <2>2, <2>5, FS_Subset
  <2>7. Cardinality(O) = Cardinality(J)
    BY <2>4, <2>5, FS_Surjection
  <2>8. QED
    BY <2>3, <2>5, <2>6, <2>7 DEF e, J, O
<1>2. QED
  BY <1>1, PriceInvHolds, PTL
-----------------------------------------------------------------------------
\* The streams as PriceStreams sees them.
Downs == [c \in Client |-> Len(down[c])]
Ups   == [c \in Client |-> Len(up[c])]
Ordering == [c \in Client |-> order[c] # None]

LEMMA StreamLengths ==
  ASSUME TypeOK
  PROVE  /\ \A c \in Client : Len(down[c]) \in Nat /\ Len(up[c]) \in Nat
         /\ \A c \in Client : Downs[c] = Len(down[c]) /\ Ups[c] = Len(up[c])
         /\ \A c \in Client : Ordering[c] = (order[c] # None)
         /\ \A c \in Client : order[c] \in Nat \cup {None}
         /\ \A k \in DOMAIN clients : clients[k].client \in Client
<1>1. \A S, q : q \in Seq(S) => Len(q) \in Nat
  OBVIOUS
<1>2. \A c \in Client : Len(down[c]) \in Nat /\ Len(up[c]) \in Nat
  BY <1>1 DEF TypeOK
<1>3. \A k \in DOMAIN clients : clients[k].client \in Client
  BY EntryFacts
<1>4. QED
  BY <1>2, <1>3 DEF Downs, Ups, Ordering, TypeOK

\* The broadcaster's steps.
LEMMA BroadcasterStreams ==
  ASSUME PriceInv, Broadcaster
  PROVE  Streams!Broadcaster \/ UNCHANGED Streams!vars
<1>1. CASE NewPrice \/ Stamp
  <2>1. /\ feed.stage # "send" /\ feed'.stage # "send"
        /\ UNCHANGED <<tableVars, clientVars, streams, handler>>
    BY <1>1 DEF NewPrice, Stamp, PriceInv, TypeOK
  <2>2. QED
    BY <2>1 DEF tableVars, clientVars, streams, Streams!vars, Streams!feedVars,
       Streams!tableVars
<1>2. CASE LockClients
  <2>1. /\ feed.stage # "send" /\ feed'.stage = "send" /\ feed'.next = 1
        /\ UNCHANGED <<tableVars, clientVars, streams, handler>>
    BY <1>2 DEF LockClients, PriceInv, TypeOK
  <2>2. Streams!LockClients
    BY <2>1 DEF tableVars, clientVars, streams, Streams!LockClients, Streams!tableVars
  <2>3. QED
    BY <2>2 DEF Streams!Broadcaster
<1>3. CASE UnlockClients
  <2>1. /\ feed.stage = "send" /\ feed.next > Len(clients) /\ feed'.stage = "price"
        /\ UNCHANGED <<tableVars, clientVars, streams, handler>>
    BY <1>3 DEF UnlockClients, PriceInv, TypeOK
  <2>2. Streams!UnlockClients
    BY <2>1 DEF tableVars, clientVars, streams, Streams!UnlockClients, Streams!tableVars
  <2>3. QED
    BY <2>2 DEF Streams!Broadcaster
<1>4. CASE SendPrice
  <2> DEFINE fd == clients[feed.next].fd
  <2>1. /\ feed.stage = "send" /\ feed'.stage = "send" /\ feed'.next = feed.next + 1
        /\ feed.next <= Len(clients) /\ Deliver(fd)
        /\ UNCHANGED <<tableVars, clientVars, handler>>
    BY <1>4 DEF SendPrice, PriceInv, TypeOK
  <2> HIDE DEF fd
  <2>2. Ups' = Ups
    BY <2>1 DEF Deliver, streams, Ups
  <2>3. Streams!Deliver(fd)
    <3>1. CASE fd \in DOMAIN descriptors /\ process[descriptors[fd]] = "running"
      <4> DEFINE c == descriptors[fd]
                 m == [id |-> feed.id, price |-> feed.price]
      <4>1. /\ c \in Client /\ Len(down[c]) < Capacity
            /\ down' = [down EXCEPT ![c] = Append(@, m)]
            /\ down \in [Client -> Seq(Message)] /\ m \in Message
        BY <2>1, <3>1 DEF Deliver, PriceInv, TypeOK, FeedInStep, Message
      <4> HIDE DEF c, m
      <4>2. Len(down'[c]) = Len(down[c]) + 1 /\ \A d \in Client \ {c} : down'[d] = down[d]
        BY <4>1, AppendFacts
      <4>3. Downs' = [Downs EXCEPT ![c] = @ + 1] /\ Downs[c] < Capacity
        BY <4>1, <4>2 DEF Downs
      <4>4. QED
        BY <3>1, <4>3 DEF Streams!Deliver, Downs, c
    <3>2. CASE ~(fd \in DOMAIN descriptors /\ process[descriptors[fd]] = "running")
      BY <2>1, <3>2 DEF Deliver, Streams!Deliver, streams
    <3>3. QED
      BY <3>1, <3>2
  <2>4. Streams!SendPrice
    <3>1. UNCHANGED <<Streams!tableVars, handler, process>> /\ UNCHANGED Ordering
      BY <2>1 DEF tableVars, clientVars, Streams!tableVars, Ordering
    <3>2. Streams!Deliver(clients[feed.next].fd)
      BY <2>3 DEF fd
    <3>3. feed.stage = "send" /\ feed'.stage = "send"
      BY <2>1
    <3>4. /\ (IF feed.stage = "send" THEN feed.next ELSE 1) <= Len(clients)
          /\ (IF feed'.stage = "send" THEN feed'.next ELSE 1)
               = (IF feed.stage = "send" THEN feed.next ELSE 1) + 1
      BY <2>1
    <3>5. Streams!Deliver(clients[IF feed.stage = "send" THEN feed.next ELSE 1].fd)
      <4>1. (IF feed.stage = "send" THEN feed.next ELSE 1) = feed.next
        BY <3>3
      <4>2. QED
        BY <3>2, <4>1 DEF Streams!Deliver
    <3>6. (feed'.stage = "send") = (feed.stage = "send")
      BY <3>3
    <3>7. QED
      BY <2>2, <3>1, <3>3, <3>4, <3>5, <3>6 DEF Streams!SendPrice, Ups, Ordering
  <2>5. QED
    BY <2>4 DEF Streams!Broadcaster
<1>5. QED
  BY <1>1, <1>2, <1>3, <1>4 DEF Broadcaster

\* The accepting thread's steps.
LEMMA AcceptorStreams ==
  ASSUME PriceInv, Acceptor
  PROVE  Streams!Accept \/ Streams!Register
<1>1. CASE Accept
  <2>1. UNCHANGED <<Streams!feedVars, clients, handler, process>>
    BY <1>1 DEF Accept, Streams!feedVars, clientVars
  <2>2. UNCHANGED <<Ordering, Downs, Ups>>
    BY <1>1 DEF Accept, clientVars, streams, Ordering, Downs, Ups
  <2>3. /\ accepted = None
        /\ \E c \in backlog, fd \in 1 .. Len(clients) + 1 :
             /\ fd \notin DOMAIN descriptors
             /\ 1 .. fd - 1 \subseteq DOMAIN descriptors
             /\ accepted' = [fd |-> fd, client |-> c]
             /\ descriptors' = [d \in DOMAIN descriptors \cup {fd} |->
                                  IF d = fd THEN c ELSE descriptors[d]]
             /\ backlog' = backlog \ {c}
    BY <1>1, Zenon DEF Accept
  <2>4. UNCHANGED <<Streams!feedVars, clients, handler, process, Ordering, Downs, Ups>>
    BY <2>1, <2>2
  <2>5. QED
    BY <2>3, <2>4, Zenon DEF Streams!Accept, Ordering, Downs, Ups
<1>2. CASE Register
  BY <1>2 DEF Register, Streams!Register, Streams!feedVars, clientVars, streams
<1>3. QED
  BY <1>1, <1>2 DEF Acceptor

\* What recv() takes from a stream shortens it by so many messages.
LEMMA ReceiveStreams ==
  ASSUME PriceInv, NEW c \in Client, NEW n \in 1 .. Capacity, Receive(c, n)
  PROVE  /\ n \in 1 .. Ups[c]
         /\ Ups' = [Ups EXCEPT ![c] = @ - n]
         /\ UNCHANGED <<down, got>>
<1>1. up \in [Client -> Seq(Nat \cup {Name})] /\ up[c] \in Seq(Nat \cup {Name})
  BY DEF PriceInv, TypeOK
<1>2. n \in Nat /\ n >= 1 /\ n <= Len(up[c]) /\ Len(up[c]) \in Nat
  BY <1>1, CapacityAssumption DEF Receive
<1>3. up' = [up EXCEPT ![c] = SubSeq(up[c], n + 1, Len(up[c]))]
  BY DEF Receive
<1>4. Len(SubSeq(up[c], n + 1, Len(up[c]))) = Len(up[c]) - n
  BY <1>1, <1>2, SubSeqFacts
<1>5. Len(up'[c]) = Len(up[c]) - n /\ \A d \in Client \ {c} : up'[d] = up[d]
  BY <1>1, <1>3, <1>4
<1>6. Ups' = [Ups EXCEPT ![c] = @ - n]
  <2>1. Ups' = [d \in Client |-> Len(up'[d])]
    BY DEF Ups
  <2>2. \A d \in Client : Len(up'[d]) = IF d = c THEN Ups[c] - n ELSE Ups[d]
    BY <1>5 DEF Ups
  <2>3. QED
    BY <2>1, <2>2 DEF Ups
<1>7. QED
  BY <1>2, <1>6 DEF Receive, Ups

\* The steps of an entry's thread.
LEMMA HandlerStreams ==
  ASSUME PriceInv, NEW k \in DOMAIN clients, Handler(k)
  PROVE  Streams!Handler(k)
<1> DEFINE c == clients[k].client
<1>0. c \in Client /\ k \in DOMAIN handler /\ Ups[c] = Len(up[c])
  <2>1. TypeOK
    BY DEF PriceInv
  <2>2. c \in Client /\ Ups[c] = Len(up[c])
    BY <2>1, StreamLengths
  <2>3. \A q, S : q \in Seq(S) => DOMAIN q = 1 .. Len(q)
    OBVIOUS
  <2>4. DOMAIN clients = 1 .. Len(clients) /\ DOMAIN handler = 1 .. Len(handler)
        /\ Len(handler) = Len(clients)
    BY <2>1, <2>3 DEF TypeOK
  <2>5. QED
    BY <2>2, <2>4
<1>1. CASE ReceiveName(k) \/ ReceiveOrder(k)
  <2>1. /\ handler[k] # "closed"
        /\ handler' = [handler EXCEPT ![k] = "orders"]
        /\ \E n \in 1 .. Capacity : Receive(c, n)
        /\ UNCHANGED <<tableVars, clientVars, feed>>
    <3>1. CASE ReceiveName(k)
      BY <3>1 DEF ReceiveName
    <3>2. CASE ReceiveOrder(k)
      <4>1. handler[k] = "orders" /\ handler' = handler
        BY <3>2 DEF ReceiveOrder
      <4>2. handler = [handler EXCEPT ![k] = "orders"]
        BY <4>1, <1>0 DEF PriceInv, TypeOK
      <4>3. QED
        BY <3>2, <4>1, <4>2 DEF ReceiveOrder
    <3>3. QED
      BY <1>1, <3>1, <3>2
  <2>2. PICK n \in 1 .. Capacity : Receive(c, n)
    BY <2>1
  <2>3. n \in 1 .. Ups[c] /\ Ups' = [Ups EXCEPT ![c] = @ - n] /\ UNCHANGED <<down, got>>
    BY <2>2, <1>0, ReceiveStreams
  <2>4. Streams!Receive(k)
    BY <2>1, <2>3 DEF Streams!Receive, Streams!feedVars, Streams!tableVars, tableVars,
       clientVars, Ups
  <2>5. QED
    BY <2>4 DEF Streams!Handler
<1>2. CASE Disconnect(k)
  <2>1. Ups[c] = 0
    BY <1>0, <1>2 DEF Disconnect
  <2>2. Streams!Disconnect(k)
    BY <1>2, <2>1 DEF Disconnect, Streams!Disconnect, Streams!feedVars, clientVars,
       streams, Ups
  <2>3. QED
    BY <2>2 DEF Streams!Handler
<1>3. QED
  BY <1>1, <1>2 DEF Handler

\* A client that decides on an order, or has sent it, or has gone
LEMMA OrderingMoves ==
  ASSUME order \in [Client -> Nat \cup {None}], NEW c \in Client, NEW o,
         order' = [order EXCEPT ![c] = o]
  PROVE  Ordering' = [Ordering EXCEPT ![c] = (o # None)]
<1>1. order' \in [Client -> (Nat \cup {None, o})] /\ order'[c] = o
  OBVIOUS
<1>2. \A d \in Client \ {c} : order'[d] = order[d]
  OBVIOUS
<1>3. \A d \in Client : (order'[d] # None) = IF d = c THEN (o # None) ELSE (order[d] # None)
  BY <1>1, <1>2
<1>4. QED
  BY <1>3 DEF Ordering

\* The steps of a client.
LEMMA ClientStreams ==
  ASSUME PriceInv, NEW c \in Client, Connect(c) \/ Running(c) \/ Leave(c)
  PROVE  Streams!Connect(c) \/ Streams!Running(c) \/ Streams!Leave(c)
<1>0. /\ Len(down[c]) \in Nat /\ Len(up[c]) \in Nat
      /\ Downs[c] = Len(down[c]) /\ Ups[c] = Len(up[c])
      /\ Ordering[c] = (order[c] # None) /\ order[c] \in Nat \cup {None}
      /\ down[c] \in Seq(Message) /\ up[c] \in Seq(Nat \cup {Name})
  <2>1. TypeOK
    BY DEF PriceInv
  <2>2. QED
    BY <2>1, StreamLengths DEF TypeOK
<1>1. CASE Connect(c)
  <2>1. up' = [up EXCEPT ![c] = <<Name>>] /\ Len(<<Name>>) = 1 /\ up \in [Client -> Seq(Nat \cup {Name})]
    BY <1>1 DEF Connect, PriceInv, TypeOK
  <2>2. Ups' = [Ups EXCEPT ![c] = 1]
    BY <2>1 DEF Ups
  <2>3. QED
    BY <1>1, <2>2 DEF Connect, Streams!Connect, Streams!feedVars, Ups
<1>2. CASE ReceivePrice(c)
  <2>1. PICK n \in 1 .. Len(down[c]), x \in {TRUE, FALSE} :
          /\ down' = [down EXCEPT ![c] = SubSeq(down[c], n + 1, Len(down[c]))]
          /\ Ordering' = [Ordering EXCEPT ![c] = x]
    <3>1. PICK n \in 1 .. Len(down[c]), o \in Nat \cup {None} :
            /\ down' = [down EXCEPT ![c] = SubSeq(down[c], n + 1, Len(down[c]))]
            /\ order' = [order EXCEPT ![c] = o]
      <4>1. ASSUME NEW n \in 1 .. Len(down[c]) PROVE Head(down[c]).id \in Nat
        <5>1. down[c] # << >>
          BY <1>0
        <5>2. Head(down[c]) \in Message
          BY <5>1, <1>0
        <5>3. QED
          BY <5>2 DEF Message
      <4>2. QED
        BY <1>2, <4>1 DEF ReceivePrice
    <3>2. Ordering' = [Ordering EXCEPT ![c] = (o # None)]
      BY <3>1, OrderingMoves DEF PriceInv, TypeOK
    <3>3. (o # None) \in {TRUE, FALSE}
      OBVIOUS
    <3>4. QED
      BY <3>1, <3>2, <3>3
  <2>2. Len(SubSeq(down[c], n + 1, Len(down[c]))) = Len(down[c]) - n
    BY <1>0, SubSeqFacts
  <2>3. Downs' = [Downs EXCEPT ![c] = @ - n] /\ n \in 1 .. Downs[c]
    BY <1>0, <2>1, <2>2 DEF Downs, PriceInv, TypeOK
  <2>4. ~Ordering[c]
    BY <1>0, <1>2 DEF ReceivePrice
  <2>5. Streams!ReceivePrice(c)
    BY <1>2, <2>1, <2>3, <2>4 DEF ReceivePrice, Streams!ReceivePrice, Streams!feedVars,
       Streams!tableVars, tableVars, Downs, Ordering
  <2>6. QED
    BY <2>5 DEF Streams!Running
<1>3. CASE SendOrder(c)
  <2>1. /\ order[c] \in Nat /\ Len(up[c]) < Capacity
        /\ up' = [up EXCEPT ![c] = Append(up[c], order[c])]
        /\ order' = [order EXCEPT ![c] = None]
    BY <1>0, <1>3 DEF SendOrder
  <2>2. Len(Append(up[c], order[c])) = Len(up[c]) + 1
    BY <1>0, <2>1, AppendFacts
  <2>3. Ups' = [Ups EXCEPT ![c] = @ + 1] /\ Ups[c] < Capacity
    BY <1>0, <2>1, <2>2 DEF Ups, PriceInv, TypeOK
  <2>4. Ordering' = [Ordering EXCEPT ![c] = FALSE] /\ Ordering[c]
    <3>1. Ordering' = [Ordering EXCEPT ![c] = (None # None)]
      BY <2>1, OrderingMoves DEF PriceInv, TypeOK
    <3>2. (None # None) = FALSE
      OBVIOUS
    <3>3. Ordering[c]
      BY <1>0, <1>3 DEF SendOrder
    <3>4. QED
      BY <3>1, <3>2, <3>3
  <2>5. Streams!SendOrder(c)
    BY <1>3, <2>3, <2>4 DEF SendOrder, Streams!SendOrder, Streams!feedVars,
       Streams!tableVars, tableVars, Ups, Ordering
  <2>6. QED
    BY <2>5 DEF Streams!Running
<1>4. CASE Leave(c)
  <2>1. /\ Downs' = [Downs EXCEPT ![c] = 0]
        /\ Ordering' = [Ordering EXCEPT ![c] = FALSE]
    <3>1. down' = [down EXCEPT ![c] = << >>] /\ order' = [order EXCEPT ![c] = None]
      BY <1>4 DEF Leave
    <3>2. Downs' = [Downs EXCEPT ![c] = 0]
      BY <3>1 DEF Downs, PriceInv, TypeOK
    <3>3. Ordering' = [Ordering EXCEPT ![c] = (None # None)]
      BY <3>1, OrderingMoves DEF PriceInv, TypeOK
    <3>4. (None # None) = FALSE
      OBVIOUS
    <3>5. QED
      BY <3>2, <3>3, <3>4
  <2>2. QED
    BY <1>4, <2>1 DEF Leave, Streams!Leave, Streams!feedVars, Streams!tableVars, tableVars,
       Downs, Ordering
<1>5. QED
  BY <1>1, <1>2, <1>3, <1>4 DEF Running

(***************************************************************************)
(* Server and clients implement PriceStreams: they wait for one another as *)
(* it says and for nothing else, for any clients, prices and streams of    *)
(* any size.                                                               *)
(***************************************************************************)
THEOREM ServerImplementsStreams == Spec => ImplementsStreams
<1>1. Init => Streams!Init
  <2> SUFFICES ASSUME Init PROVE Streams!Init
    OBVIOUS
  <2>1. Downs = [c \in Client |-> 0] /\ Ups = [c \in Client |-> 0]
        /\ Ordering = [c \in Client |-> FALSE]
    BY DEF Init, Downs, Ups, Ordering
  <2>2. QED
    BY <2>1 DEF Init, Streams!Init, Downs, Ups, Ordering
<1>2. PriceInv /\ [Next]_vars => [Streams!Next]_(Streams!vars)
  <2> SUFFICES ASSUME PriceInv, [Next]_vars
               PROVE  Streams!Next \/ UNCHANGED Streams!vars
    OBVIOUS
  <2>1. CASE UNCHANGED vars
    BY <2>1 DEF vars, tableVars, clientVars, streams, Streams!vars, Streams!feedVars,
       Streams!tableVars
  <2>2. CASE Next
    <3>1. CASE Broadcaster
      BY <3>1, BroadcasterStreams DEF Streams!Next
    <3>2. CASE Acceptor
      BY <3>2, AcceptorStreams DEF Streams!Next
    <3>3. ASSUME NEW k \in DOMAIN clients, Handler(k) PROVE Streams!Next
      BY <3>3, HandlerStreams DEF Streams!Next
    <3>4. ASSUME NEW c \in Client, Connect(c) \/ Running(c) \/ Leave(c) PROVE Streams!Next
      BY <3>4, ClientStreams DEF Streams!Next
    <3>5. QED
      BY <2>2, <3>1, <3>2, <3>3, <3>4 DEF Next
  <2>3. QED
    BY <2>1, <2>2
<1>3. QED
  BY <1>1, <1>2, PriceInvHolds, PTL DEF Spec, ImplementsStreams, Streams!Safety
=============================================================================
