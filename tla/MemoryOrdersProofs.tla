------------------------- MODULE MemoryOrdersProofs -------------------------
(***************************************************************************)
(* What TLAPS proves about the four versions of the ring that              *)
(* MemoryOrders compares, for every capacity and every number of items:    *)
(* none of them overruns, and in the two whose loads acquire the accesses  *)
(* to a slot are ordered by happens-before and the ring implements the     *)
(* channel of BoundedFifo.  What the other two may do is shown by          *)
(* counterexamples of TLC.                                                 *)
(***************************************************************************)
EXTENDS MemoryOrders, Integers, TLAPS

\* What the modulo of the ring needs of arithmetic: a multiple of c below
\* another one is c below it at least.
LEMMA TimesAtLeast ==
  ASSUME NEW a \in Int, NEW b \in Int, NEW c \in Nat, a < b
  PROVE  a * c + c <= b * c
<1>1. (b - a - 1) * c >= 0
  OBVIOUS
<1>2. (b - a - 1) * c = b * c - a * c - c
  OBVIOUS
<1>3. QED
  BY <1>1, <1>2

\* A number written as a multiple of c and a rest below c has this rest.
LEMMA Remainder ==
  ASSUME NEW c \in Nat \ {0}, NEW q \in Int, NEW r \in 0 .. c - 1
  PROVE  (q * c + r) % c = r
<1> DEFINE x == q * c + r
           p == x \div c
           s == x % c
<1>1. x \in Int /\ p \in Int /\ s \in 0 .. c - 1 /\ x = p * c + s
  OBVIOUS
<1>2. ~(p < q)
  BY <1>1, TimesAtLeast
<1>3. ~(q < p)
  BY <1>1, TimesAtLeast
<1>4. p = q
  BY <1>1, <1>2, <1>3
<1>5. QED
  BY <1>1, <1>4

\* Where an item goes: the place after that of item n is the place of the next
\* item, and a turn later the ring is at the same place again.
LEMMA SlotFacts ==
  ASSUME NEW n \in Nat \ {0}
  PROVE  /\ SlotOf(n) \in Ring
         /\ Succ(SlotOf(n)) = SlotOf(n + 1)
         /\ SlotOf(n + Capacity) = SlotOf(n)
<1> DEFINE q == (n - 1) \div Capacity
           r == (n - 1) % Capacity
<1>1. /\ Capacity \in Nat \ {0}
      /\ q \in Int /\ r \in 0 .. Capacity - 1 /\ n - 1 = q * Capacity + r
  BY CapacityAssumption
<1>2. SlotOf(n) \in Ring
  BY <1>1 DEF SlotOf, Ring
<1> HIDE DEF q, r
<1>3. (n + Capacity - 1) % Capacity = r
  <2>1. n + Capacity - 1 = (q + 1) * Capacity + r
    BY <1>1
  <2>2. ((q + 1) * Capacity + r) % Capacity = r
    BY <1>1, Remainder
  <2>3. QED
    BY <2>1, <2>2
<1>4. (r + 1) % Capacity = n % Capacity
  <2>1. CASE r + 1 < Capacity
    <3>1. n = q * Capacity + (r + 1) /\ r + 1 \in 0 .. Capacity - 1
      BY <1>1, <2>1
    <3>2. (q * Capacity + (r + 1)) % Capacity = r + 1
      BY <1>1, <3>1, Remainder
    <3>3. (0 * Capacity + (r + 1)) % Capacity = r + 1
      BY <1>1, <3>1, Remainder
    <3>4. 0 * Capacity + (r + 1) = r + 1
      BY <1>1
    <3>5. QED
      BY <3>1, <3>2, <3>3, <3>4
  <2>2. CASE ~(r + 1 < Capacity)
    <3>1. r + 1 = 1 * Capacity + 0 /\ n = (q + 1) * Capacity + 0
      BY <1>1, <2>2
    <3>2. (1 * Capacity + 0) % Capacity = 0 /\ ((q + 1) * Capacity + 0) % Capacity = 0
      BY <1>1, Remainder
    <3>3. QED
      BY <3>1, <3>2
  <2>3. QED
    BY <2>1, <2>2
<1>5. SlotOf(n) = r /\ SlotOf(n + 1) = n % Capacity
  BY <1>1 DEF SlotOf, r
<1>6. QED
  BY <1>1, <1>2, <1>3, <1>4, <1>5 DEF SlotOf, Succ

\* Two items less than a turn apart have different places.
LEMMA SlotsDiffer ==
  ASSUME NEW m \in Nat \ {0}, NEW n \in Nat \ {0}, m < n, n < m + Capacity
  PROVE  SlotOf(m) # SlotOf(n)
<1> SUFFICES ASSUME SlotOf(m) = SlotOf(n) PROVE FALSE
  OBVIOUS
<1> DEFINE qm == (m - 1) \div Capacity
           qn == (n - 1) \div Capacity
           r  == (m - 1) % Capacity
<1>1. /\ Capacity \in Nat \ {0}
      /\ qm \in Int /\ qn \in Int /\ r \in 0 .. Capacity - 1
      /\ m - 1 = qm * Capacity + r
      /\ n - 1 = qn * Capacity + r
  BY CapacityAssumption DEF SlotOf
<1> HIDE DEF qm, qn, r
<1>2. ~(qm < qn)
  BY <1>1, TimesAtLeast
<1>3. ~(qn < qm)
  BY <1>1, TimesAtLeast
<1>4. QED
  BY <1>1, <1>2, <1>3
-----------------------------------------------------------------------------
\* Before the first call.
LEMMA InitInv == Init => OrdersInv
<1> SUFFICES ASSUME Init PROVE OrdersInv
  OBVIOUS
<1>1. 0 \in Ring /\ SlotOf(1) = 0
  BY CapacityAssumption, SlotFacts, Remainder DEF Ring, SlotOf
<1>2. /\ \A t \in Thread : Stores(t) = 1 /\ Accesses(t) = 0
      /\ \A t \in Thread : stores[t][1] = [value |-> 0, clock |-> Zero]
  BY DEF Init, Stores, Accesses
<1>3. TypeOK
  BY <1>1 DEF Init, TypeOK, ClockType, Zero
<1>4. PlacesCounted
  BY <1>1, <1>2 DEF Init, PlacesCounted, Stores, Thread
<1>5. RoomSeen
  BY <1>2, CapacityAssumption DEF Init, RoomSeen, Thread, Other
<1>6. ClocksCount
  BY <1>2 DEF Init, ClocksCount, Zero
<1>7. StoresCarry
  BY <1>2 DEF Init, StoresCarry, Zero, Thread, Other
<1>8. WritesInPlace
  BY <1>2 DEF Init, WritesInPlace, Thread
<1>9. TouchesInPlace
  BY <1>2 DEF Init, TouchesInPlace
<1>10. ItemsInOrder
  BY DEF Init, ItemsInOrder, Thread
<1>11. QED
  BY <1>3, <1>4, <1>5, <1>6, <1>7, <1>8, <1>9, <1>10 DEF OrdersInv

\* The join of two clocks is an upper bound, and in each part one of them.
LEMMA JoinFacts ==
  ASSUME NEW c \in ClockType, NEW d \in ClockType
  PROVE  /\ Join(c, d) \in ClockType
         /\ \A u \in Thread : /\ c[u] <= Join(c, d)[u]
                              /\ d[u] <= Join(c, d)[u]
                              /\ Join(c, d)[u] = c[u] \/ Join(c, d)[u] = d[u]
  BY DEF Join, ClockType

\* The stores of TypeOK, without the sequences.
LEMMA StoreTypes ==
  ASSUME TypeOK
  PROVE  \A t \in Thread :
           /\ Stores(t) \in Nat
           /\ \A k \in 1 .. Stores(t) : /\ stores[t][k].value \in Ring
                                        /\ stores[t][k].clock \in ClockType
<1> TAKE t \in Thread
<1> DEFINE S == [value : Ring, clock : ClockType]
<1>1. stores[t] \in Seq(S)
  BY DEF TypeOK
<1>2. \A s \in S : s.value \in Ring /\ s.clock \in ClockType
  OBVIOUS
<1> HIDE DEF S
<1>3. QED
  BY <1>1, <1>2 DEF Stores

\* A call begins.
LEMMA LoadOwnStep ==
  ASSUME OrdersInv, NEW t \in Thread, LoadOwn(t)
  PROVE  OrdersInv'
<1>1. /\ pc[t] = "idle"
      /\ idx' = [idx EXCEPT ![t] = Latest(t).value]
      /\ pc' = [pc EXCEPT ![t] = "check"]
      /\ UNCHANGED <<variant, stores, seen, clock, pending, slots, touched, item, popped>>
  BY DEF LoadOwn, Goto, syncVars
<1>2. Latest(t).value = SlotOf(Stores(t)) /\ Latest(t).value \in Ring
  <2>1. Stores(t) \in 1 .. Stores(t) /\ Latest(t) = stores[t][Stores(t)]
    BY DEF OrdersInv, TypeOK, RoomSeen, Latest, Stores
  <2>2. stores[t][Stores(t)].value \in Ring
    BY <2>1, StoreTypes DEF OrdersInv
  <2>3. QED
    BY <2>1, <2>2 DEF OrdersInv, PlacesCounted
<1>3. \A u \in Thread : Stores(u)' = Stores(u) /\ Accesses(u)' = Accesses(u)
  BY <1>1 DEF Stores, Accesses, OrdersInv, TypeOK
<1>4. TypeOK'
  BY <1>1, <1>2 DEF OrdersInv, TypeOK
<1>5. PlacesCounted'
  BY <1>1, <1>2, <1>3 DEF OrdersInv, TypeOK, PlacesCounted, Thread
<1>6. RoomSeen'
  BY <1>1, <1>3 DEF OrdersInv, TypeOK, RoomSeen, Thread, Other
<1>7. ClocksCount'
  BY <1>1, <1>3 DEF OrdersInv, ClocksCount
<1>8. StoresCarry'
  BY <1>1, <1>3 DEF OrdersInv, StoresCarry, Acquiring
<1>9. WritesInPlace'
  BY <1>1, <1>3 DEF OrdersInv, WritesInPlace, Thread
<1>10. TouchesInPlace'
  BY <1>1, <1>3 DEF OrdersInv, TouchesInPlace
<1>11. ItemsInOrder'
  BY <1>1, <1>3 DEF OrdersInv, TypeOK, ItemsInOrder, Acquiring, Thread
<1>12. QED
  BY <1>4, <1>5, <1>6, <1>7, <1>8, <1>9, <1>10, <1>11 DEF OrdersInv

\* A look at the other index.  Whether it blocks is decided by the number of
\* the store: the consumer needs one it has not popped, the producer the room
\* for one more.
LEMMA Unblocked ==
  ASSUME OrdersInv, NEW t \in Thread, pc[t] = "check",
         NEW k \in seen[t] .. Stores(Other(t)),
         ~Blocked(t, stores[Other(t)][k].value)
  PROVE  IF t = "consumer" THEN Stores(t) < k ELSE Stores(t) + 1 < k + Capacity
<1>1. /\ Stores("producer") \in Nat \ {0} /\ Stores("consumer") \in Nat \ {0}
      /\ seen[t] \in Nat \ {0} /\ k \in 1 .. Stores(Other(t)) /\ k >= seen[t]
      /\ idx[t] = SlotOf(Stores(t))
      /\ stores[Other(t)][k].value = SlotOf(k)
  <2>1. /\ Stores("producer") \in Nat \ {0} /\ Stores("consumer") \in Nat \ {0}
        /\ Other(t) \in Thread
    BY StoreTypes DEF OrdersInv, RoomSeen, Thread, Other
  <2>2. /\ seen[t] \in 1 .. Stores(Other(t)) /\ Stores(Other(t)) \in Nat
        /\ k \in seen[t] .. Stores(Other(t))
    BY <2>1, StoreTypes DEF OrdersInv, RoomSeen
  <2>3. /\ seen[t] \in Nat \ {0} /\ k \in 1 .. Stores(Other(t)) /\ k >= seen[t]
    BY <2>2
  <2>4. QED
    BY <2>1, <2>3 DEF OrdersInv, PlacesCounted
<1>2. CASE t = "consumer"
  <2>1. Stores(t) <= k
    BY <1>1, <1>2 DEF OrdersInv, RoomSeen
  <2>2. Stores(t) # k
    BY <1>1, <1>2 DEF Blocked
  <2>3. QED
    BY <1>1, <1>2, <2>1, <2>2
<1>3. CASE t = "producer"
  <2>1. Stores(t) < k + Capacity
    BY <1>1, <1>3, CapacityAssumption DEF OrdersInv, RoomSeen
  <2>2. Stores(t) + 1 # k + Capacity
    <3>1. Succ(SlotOf(Stores(t))) = SlotOf(Stores(t) + 1)
      BY <1>1, <1>3, SlotFacts
    <3>2. SlotOf(k + Capacity) = SlotOf(k)
      BY <1>1, SlotFacts
    <3>3. QED
      BY <1>1, <1>3, <3>1, <3>2 DEF Blocked
  <2>3. QED
    BY <1>1, <1>3, <2>1, <2>2, CapacityAssumption
<1>4. QED
  BY <1>2, <1>3 DEF Thread

\* What the look does to the clocks.
LEMMA SynchronizeFacts ==
  ASSUME OrdersInv, NEW t \in Thread, NEW c \in ClockType, Synchronize(t, c),
         \A u \in Thread : c[u] <= clock[u][u]
  PROVE  /\ clock' \in [Thread -> ClockType] /\ pending' \in [Thread -> ClockType]
         /\ \A u \in Thread : u # t => clock'[u] = clock[u] /\ pending'[u] = pending[u]
         /\ \A u \in Thread : /\ clock[t][u] <= clock'[t][u]
                              /\ clock'[t][u] <= clock[u][u]
                              /\ pending'[t][u] <= clock[u][u]
         /\ Acquiring => \A u \in Thread : c[u] <= clock'[t][u]
<1>1. /\ clock \in [Thread -> ClockType] /\ pending \in [Thread -> ClockType]
      /\ clock[t] \in ClockType /\ pending[t] \in ClockType
      /\ variant \in {"standard", "relaxed", "seq_cst", "fenced"}
      /\ \A u \in Thread : clock[t][u] \in Nat /\ clock[u][u] \in Nat
      /\ \A u \in Thread : clock[t][u] <= clock[u][u] /\ pending[t][u] <= clock[u][u]
  BY VariantsAssumption DEF OrdersInv, TypeOK, ClocksCount, ClockType
<1>2. CASE variant \in {"standard", "seq_cst"}
  <2>1. /\ clock' = [clock EXCEPT ![t] = Join(clock[t], c)]
        /\ pending' = pending
    BY <1>2 DEF Synchronize
  <2>2. QED
    BY <1>1, <2>1, JoinFacts
<1>3. CASE variant = "fenced"
  <2>1. /\ clock' = [clock EXCEPT ![t] = Join(clock[t], pending[t])]
        /\ pending' = [pending EXCEPT ![t] = c]
    BY <1>3 DEF Synchronize
  <2>2. QED
    BY <1>1, <1>3, <2>1, JoinFacts DEF Acquiring
<1>4. CASE variant = "relaxed"
  <2>1. clock' = clock /\ pending' = pending
    BY <1>4 DEF Synchronize
  <2>2. QED
    BY <1>1, <1>4, <2>1 DEF Acquiring
<1>5. QED
  BY <1>1, <1>2, <1>3, <1>4

LEMMA LoadOtherStep ==
  ASSUME OrdersInv, NEW t \in Thread, LoadOther(t)
  PROVE  OrdersInv'
<1>1. PICK k \in seen[t] .. Stores(Other(t)) :
        /\ seen' = [seen EXCEPT ![t] = k]
        /\ Synchronize(t, stores[Other(t)][k].clock)
        /\ pc' = [pc EXCEPT ![t] = IF Blocked(t, stores[Other(t)][k].value)
                                     THEN "idle" ELSE "access"]
  BY DEF LoadOther, Goto, Stores
<1> DEFINE c == stores[Other(t)][k].clock
<1>2. /\ pc[t] = "check"
      /\ UNCHANGED <<variant, stores, idx, slots, touched, item, popped>>
  BY DEF LoadOther
<1>3. /\ Other(t) \in Thread /\ Other(t) # t
      /\ seen[t] \in Nat \ {0} /\ Stores(Other(t)) \in Nat /\ k \in 1 .. Stores(Other(t))
  BY DEF OrdersInv, TypeOK, Thread, Other, Stores
<1>4. c \in ClockType /\ \A u \in Thread : c[u] <= clock[u][u]
  <2>1. c \in ClockType
    BY <1>3, StoreTypes DEF OrdersInv
  <2>2. QED
    BY <1>3, <2>1 DEF OrdersInv, ClocksCount
<1> HIDE DEF c
<1>5. /\ clock' \in [Thread -> ClockType] /\ pending' \in [Thread -> ClockType]
      /\ \A u \in Thread : u # t => clock'[u] = clock[u] /\ pending'[u] = pending[u]
      /\ \A u \in Thread : /\ clock[t][u] <= clock'[t][u]
                           /\ clock'[t][u] <= clock[u][u]
                           /\ pending'[t][u] <= clock[u][u]
      /\ Acquiring => \A u \in Thread : c[u] <= clock'[t][u]
  BY <1>1, <1>4, SynchronizeFacts DEF c
<1>6. \A u \in Thread : Stores(u)' = Stores(u) /\ Accesses(u)' = Accesses(u)
  BY <1>1, <1>2 DEF Stores, Accesses, OrdersInv, TypeOK
<1>7. \A u \in Thread : clock'[u][u] = clock[u][u]
  <2>1. clock'[t][t] = clock[t][t]
    BY <1>5 DEF OrdersInv, TypeOK, ClockType
  <2>2. QED
    BY <1>5, <2>1
<1>8. TypeOK'
  <2>1. seen' \in [Thread -> Nat \ {0}]
    BY <1>1, <1>3 DEF OrdersInv, TypeOK
  <2>2. pc' \in [Thread -> {"idle", "check", "access", "publish"}]
    BY <1>1 DEF OrdersInv, TypeOK
  <2>3. QED
    BY <1>2, <1>5, <2>1, <2>2 DEF OrdersInv, TypeOK
<1>9. PlacesCounted'
  BY <1>1, <1>2, <1>6 DEF OrdersInv, TypeOK, PlacesCounted, Thread
<1>10. RoomSeen'
  <2>1. pc'[t] = "access" => IF t = "consumer" THEN Stores(t) < k
                                               ELSE Stores(t) + 1 < k + Capacity
    BY <1>1, <1>2, Unblocked DEF OrdersInv, TypeOK
  <2>2. seen'[t] = k /\ \A u \in Thread : u # t => seen'[u] = seen[u] /\ pc'[u] = pc[u]
    BY <1>1 DEF OrdersInv, TypeOK
  <2>3. pc'[t] \in {"idle", "access"}
    BY <1>1 DEF OrdersInv, TypeOK
  <2> DEFINE P == Stores("producer")
             C == Stores("consumer")
  <2>4. /\ Capacity \in Nat /\ P \in Nat /\ C \in Nat /\ P >= 1 /\ C >= 1
        /\ seen["producer"] \in 1 .. C /\ seen["consumer"] \in 1 .. P
        /\ C <= seen["consumer"] /\ P < seen["producer"] + Capacity
        /\ pc["consumer"] \in {"access", "publish"} => C < seen["consumer"]
        /\ pc["producer"] \in {"access", "publish"} => P + 1 < seen["producer"] + Capacity
    BY StoreTypes, CapacityAssumption DEF OrdersInv, RoomSeen, Thread, Other
  <2>5. P' = P /\ C' = C
    BY <1>6 DEF Thread
  <2> HIDE DEF P, C
  <2>6. /\ seen'["producer"] \in 1 .. C /\ seen'["consumer"] \in 1 .. P
        /\ C <= seen'["consumer"] /\ P < seen'["producer"] + Capacity
        /\ pc'["consumer"] \in {"access", "publish"} => C < seen'["consumer"]
        /\ pc'["producer"] \in {"access", "publish"} => P + 1 < seen'["producer"] + Capacity
    <3>1. CASE t = "consumer"
      <4>1. k \in 1 .. P /\ k >= seen["consumer"] /\ (pc'[t] = "access" => C < k)
        BY <1>1, <1>3, <2>1, <3>1 DEF Other, P, C
      <4>2. seen'["producer"] = seen["producer"] /\ pc'["producer"] = pc["producer"]
        BY <2>2, <3>1 DEF Thread
      <4>3. QED
        BY <2>2, <2>3, <2>4, <3>1, <4>1, <4>2
    <3>2. CASE t = "producer"
      <4>1. /\ k \in 1 .. C /\ k >= seen["producer"]
            /\ pc'[t] = "access" => P + 1 < k + Capacity
        BY <1>1, <1>3, <2>1, <3>2 DEF Other, P, C
      <4>2. seen'["consumer"] = seen["consumer"] /\ pc'["consumer"] = pc["consumer"]
        BY <2>2, <3>2 DEF Thread
      <4>3. QED
        BY <2>2, <2>3, <2>4, <3>2, <4>1, <4>2
    <3>3. QED
      BY <3>1, <3>2 DEF Thread
  <2>7. QED
    BY <2>4, <2>5, <2>6 DEF RoomSeen, Thread, Other, P, C
<1>11. ClocksCount'
  BY <1>2, <1>5, <1>6, <1>7 DEF OrdersInv, ClocksCount
<1>12. StoresCarry'
  <2> SUFFICES ASSUME Acquiring PROVE StoresCarry'
    BY <1>2 DEF StoresCarry, Acquiring
  <2>1. k - 1 <= clock'[t][Other(t)]
    BY <1>3, <1>5 DEF OrdersInv, StoresCarry, c
  <2>2. \A u \in Thread : u # t => seen'[u] = seen[u]
    BY <1>1 DEF OrdersInv, TypeOK
  <2>3. seen'[t] = k
    BY <1>1 DEF OrdersInv, TypeOK
  <2>4. QED
    BY <1>2, <1>5, <1>6, <2>1, <2>2, <2>3 DEF OrdersInv, StoresCarry
<1>13. WritesInPlace'
  BY <1>2, <1>6 DEF OrdersInv, WritesInPlace, Thread
<1>14. TouchesInPlace'
  BY <1>2, <1>6 DEF OrdersInv, TouchesInPlace
<1>15. ItemsInOrder'
  BY <1>1, <1>2, <1>6 DEF OrdersInv, TypeOK, ItemsInOrder, Acquiring, Thread
<1>16. QED
  BY <1>8, <1>9, <1>10, <1>11, <1>12, <1>13, <1>14, <1>15 DEF OrdersInv

\* The numbers of RoomSeen, for either end.
LEMMA Counted ==
  ASSUME OrdersInv
  PROVE  /\ Capacity \in Nat \ {0}
         /\ Stores("producer") \in Nat \ {0} /\ Stores("consumer") \in Nat \ {0}
         /\ seen["producer"] \in 1 .. Stores("consumer")
         /\ seen["consumer"] \in 1 .. Stores("producer")
         /\ Stores("consumer") <= seen["consumer"]
         /\ Stores("producer") < seen["producer"] + Capacity
         /\ pc["consumer"] \in {"access", "publish"} => Stores("consumer") < seen["consumer"]
         /\ pc["producer"] \in {"access", "publish"} =>
              Stores("producer") + 1 < seen["producer"] + Capacity
  BY StoreTypes, CapacityAssumption DEF OrdersInv, RoomSeen, Thread, Other

\* The store of the own index: the access before it is counted now as one of a
\* thread that is in no call.
LEMMA PublishStep ==
  ASSUME OrdersInv, NEW t \in Thread, Publish(t)
  PROVE  OrdersInv'
<1> DEFINE c == IF variant = "relaxed" THEN Zero ELSE clock[t]
           new == [value |-> Succ(idx[t]), clock |-> c]
<1>1. /\ pc[t] = "publish"
      /\ stores' = [stores EXCEPT ![t] = Append(stores[t], new)]
      /\ popped' = IF t = "consumer" THEN Append(popped, item) ELSE popped
      /\ pc' = [pc EXCEPT ![t] = "idle"]
      /\ UNCHANGED <<variant, seen, clock, pending, idx, slots, touched, item>>
  BY DEF Publish, Goto, syncVars
<1>2. /\ \A u \in Thread : Stores(u) \in Nat \ {0}
      /\ idx[t] = SlotOf(Stores(t))
  BY <1>1, Counted DEF OrdersInv, PlacesCounted, Thread
<1>3. Succ(idx[t]) = SlotOf(Stores(t) + 1) /\ Succ(idx[t]) \in Ring
  BY <1>2, SlotFacts
<1>4. c \in ClockType /\ \A u \in Thread : c[u] <= clock[u][u]
  <2>1. Zero \in ClockType /\ \A u \in Thread : Zero[u] = 0
    BY DEF ClockType, Zero
  <2>2. clock[t] \in ClockType /\ \A u \in Thread : clock[u][u] \in Nat
    BY DEF OrdersInv, TypeOK, ClockType
  <2>3. \A u \in Thread : clock[t][u] <= clock[u][u]
    BY DEF OrdersInv, ClocksCount
  <2>4. QED
    BY <2>1, <2>2, <2>3
<1>5. Acquiring => c[t] = Stores(t)
  BY <1>1 DEF OrdersInv, ClocksCount, Accesses, Acquiring
<1> HIDE DEF c
<1>6. new \in [value : Ring, clock : ClockType] /\ new.value = SlotOf(Stores(t) + 1)
      /\ new.clock = c
  BY <1>3, <1>4
<1> HIDE DEF new
<1>7. /\ Stores(t)' = Stores(t) + 1
      /\ \A k \in 1 .. Stores(t) : stores'[t][k] = stores[t][k]
      /\ stores'[t][Stores(t) + 1] = new
      /\ stores' \in [Thread -> Seq([value : Ring, clock : ClockType])]
      /\ \A u \in Thread : u # t => stores'[u] = stores[u] /\ Stores(u)' = Stores(u)
  <2> DEFINE S == [value : Ring, clock : ClockType]
  <2>1. stores \in [Thread -> Seq(S)] /\ new \in S
    BY <1>6 DEF OrdersInv, TypeOK
  <2> HIDE DEF S
  <2>2. stores' \in [Thread -> Seq(S)]
    BY <1>1, <2>1
  <2>3. stores'[t] = Append(stores[t], new) /\ stores[t] \in Seq(S)
    BY <1>1, <2>1
  <2>4. /\ Len(stores'[t]) = Len(stores[t]) + 1
        /\ \A k \in 1 .. Len(stores[t]) : stores'[t][k] = stores[t][k]
        /\ stores'[t][Len(stores[t]) + 1] = new
    BY <2>1, <2>3
  <2>5. \A u \in Thread : u # t => stores'[u] = stores[u]
    BY <1>1, <2>1
  <2>6. QED
    BY <2>2, <2>4, <2>5 DEF Stores, S
<1>8. \A u \in Thread : Accesses(u)' = Accesses(u)
  <2>1. \A u \in Thread : pc'[u] = IF u = t THEN "idle" ELSE pc[u]
    BY <1>1 DEF OrdersInv, TypeOK
  <2>2. QED
    BY <1>1, <1>2, <1>7, <2>1 DEF Accesses
<1>9. \A u \in Thread : \A k \in 1 .. Stores(u)' :
        \/ k \in 1 .. Stores(u) /\ stores'[u][k] = stores[u][k]
        \/ u = t /\ k = Stores(t) + 1 /\ stores'[u][k] = new
  BY <1>2, <1>7
<1>10. TypeOK'
  <2>1. popped' \in Seq(Nat)
    BY <1>1 DEF OrdersInv, TypeOK
  <2>2. pc' \in [Thread -> {"idle", "check", "access", "publish"}]
    BY <1>1 DEF OrdersInv, TypeOK
  <2>3. QED
    BY <1>1, <1>7, <2>1, <2>2 DEF OrdersInv, TypeOK
<1>11. PlacesCounted'
  <2>1. \A u \in Thread : \A k \in 1 .. Stores(u)' : stores'[u][k].value = SlotOf(k)
    BY <1>6, <1>9 DEF OrdersInv, PlacesCounted
  <2>2. \A u \in Thread : pc'[u] # "idle" => idx'[u] = SlotOf(Stores(u)')
    BY <1>1, <1>7 DEF OrdersInv, TypeOK, PlacesCounted
  <2>3. Len(popped') = Stores("consumer")' - 1
    <3>1. CASE t = "consumer"
      BY <1>1, <1>2, <1>7, <3>1 DEF OrdersInv, TypeOK, PlacesCounted
    <3>2. CASE t # "consumer"
      BY <1>1, <1>7, <3>2 DEF OrdersInv, PlacesCounted, Thread
    <3>3. QED
      BY <3>1, <3>2
  <2>4. QED
    BY <2>1, <2>2, <2>3 DEF PlacesCounted
<1>12. RoomSeen'
  <2>1. \A u \in Thread : pc'[u] = IF u = t THEN "idle" ELSE pc[u]
    BY <1>1 DEF OrdersInv, TypeOK
  <2>2. CASE t = "consumer"
    <3>1. Stores("consumer")' = Stores("consumer") + 1 /\ Stores("producer")' = Stores("producer")
      BY <1>7, <2>2 DEF Thread
    <3>2. QED
      BY <1>1, <2>1, <2>2, <3>1, Counted DEF RoomSeen, Thread, Other
  <2>3. CASE t = "producer"
    <3>1. Stores("producer")' = Stores("producer") + 1 /\ Stores("consumer")' = Stores("consumer")
      BY <1>7, <2>3 DEF Thread
    <3>2. QED
      BY <1>1, <2>1, <2>3, <3>1, Counted DEF RoomSeen, Thread, Other
  <2>4. QED
    BY <2>2, <2>3 DEF Thread
<1>13. ClocksCount'
  <2>1. \A u, v \in Thread : \A k \in 1 .. Stores(u)' : stores'[u][k].clock[v] <= clock[v][v]
    BY <1>4, <1>6, <1>9 DEF OrdersInv, ClocksCount
  <2>2. QED
    BY <1>1, <1>8, <2>1 DEF OrdersInv, ClocksCount
<1>14. StoresCarry'
  <2> SUFFICES ASSUME Acquiring PROVE StoresCarry'
    BY <1>1 DEF StoresCarry, Acquiring
  <2>1. \A u \in Thread : \A k \in 1 .. Stores(u)' : stores'[u][k].clock[u] = k - 1
    BY <1>2, <1>5, <1>6, <1>9 DEF OrdersInv, StoresCarry
  <2>2. QED
    BY <1>1, <2>1 DEF OrdersInv, StoresCarry
<1>15. WritesInPlace'
  BY <1>1, <1>8 DEF OrdersInv, WritesInPlace, Thread
<1>16. TouchesInPlace'
  BY <1>1, <1>8 DEF OrdersInv, TouchesInPlace
<1>17. ItemsInOrder'
  <2> SUFFICES ASSUME Acquiring PROVE ItemsInOrder'
    BY <1>1 DEF ItemsInOrder, Acquiring
  <2>1. CASE t = "consumer"
    <3>1. /\ popped \in Seq(Nat) /\ item \in Nat /\ popped' = Append(popped, item)
          /\ Len(popped) = Stores(t) - 1 /\ item = Stores(t)
          /\ \A k \in DOMAIN popped : popped[k] = k
      BY <1>1, <2>1 DEF OrdersInv, TypeOK, PlacesCounted, ItemsInOrder
    <3>2. \A k \in DOMAIN popped' : popped'[k] = k
      BY <1>2, <3>1
    <3>3. pc'["consumer"] # "publish"
      BY <1>1, <2>1 DEF OrdersInv, TypeOK
    <3>4. QED
      BY <3>2, <3>3 DEF ItemsInOrder
  <2>2. CASE t # "consumer"
    <3>1. pc'["consumer"] = pc["consumer"] /\ Stores("consumer")' = Stores("consumer")
      BY <1>1, <1>7, <2>2 DEF OrdersInv, TypeOK, Thread
    <3>2. QED
      BY <1>1, <2>2, <3>1 DEF OrdersInv, ItemsInOrder
  <2>3. QED
    BY <2>1, <2>2
<1>18. QED
  BY <1>10, <1>11, <1>12, <1>13, <1>14, <1>15, <1>16, <1>17 DEF OrdersInv

\* An access: the thread's time and its slot's go on to the number of the item.
LEMMA TouchFacts ==
  ASSUME OrdersInv, NEW t \in Thread, pc[t] = "access", Touch(t), Goto(t, "publish"),
         stores' = stores
  PROVE  /\ Stores(t) \in Nat \ {0} /\ idx[t] = SlotOf(Stores(t)) /\ idx[t] \in Ring
         /\ \A u \in Thread : Stores(u)' = Stores(u)
         /\ Accesses(t) = Stores(t) - 1 /\ Accesses(t)' = Stores(t)
         /\ \A u \in Thread : u # t => Accesses(u)' = Accesses(u) /\ clock'[u] = clock[u]
         /\ clock' \in [Thread -> ClockType]
         /\ clock'[t][t] = Stores(t)
         /\ \A u \in Thread : u # t => clock'[t][u] = clock[t][u]
         /\ \A u \in Thread : clock[u][u] <= clock'[u][u]
         /\ touched' \in [Thread -> [Ring -> Nat]]
         /\ touched'[t][idx[t]] = Stores(t)
         /\ \A s \in Ring : s # idx[t] => touched'[t][s] = touched[t][s]
         /\ \A u \in Thread : u # t => touched'[u] = touched[u]
<1>1. Stores(t) \in Nat \ {0} /\ idx[t] = SlotOf(Stores(t)) /\ idx[t] \in Ring
  BY Counted DEF OrdersInv, TypeOK, PlacesCounted, Thread
<1>2. \A u \in Thread : pc'[u] = IF u = t THEN "publish" ELSE pc[u]
  BY DEF OrdersInv, TypeOK, Goto
<1>3. /\ \A u \in Thread : Stores(u)' = Stores(u)
      /\ Accesses(t) = Stores(t) - 1 /\ Accesses(t)' = Stores(t)
      /\ \A u \in Thread : u # t => Accesses(u)' = Accesses(u)
  BY <1>2 DEF Stores, Accesses
<1>4. clock \in [Thread -> [Thread -> Nat]] /\ touched \in [Thread -> [Ring -> Nat]]
  BY DEF OrdersInv, TypeOK, ClockType
<1>5. clock[t][t] = Stores(t) - 1
  BY <1>3 DEF OrdersInv, ClocksCount
<1>6. /\ clock' = [clock EXCEPT ![t] = [clock[t] EXCEPT ![t] = clock[t][t] + 1]]
      /\ touched' = [touched EXCEPT ![t] = [touched[t] EXCEPT ![idx[t]] = clock[t][t] + 1]]
  BY DEF Touch
<1>7. clock[t][t] + 1 = Stores(t) /\ clock[t][t] + 1 \in Nat
  BY <1>1, <1>5
<1>8. /\ clock' \in [Thread -> ClockType]
      /\ clock'[t][t] = Stores(t)
      /\ \A u \in Thread : u # t => clock'[t][u] = clock[t][u]
      /\ \A u \in Thread : u # t => clock'[u] = clock[u]
  BY <1>4, <1>6, <1>7 DEF ClockType
<1>9. \A u \in Thread : clock[u][u] <= clock'[u][u]
  BY <1>1, <1>4, <1>5, <1>8
<1>10. /\ touched' \in [Thread -> [Ring -> Nat]]
       /\ touched'[t][idx[t]] = Stores(t)
       /\ \A s \in Ring : s # idx[t] => touched'[t][s] = touched[t][s]
       /\ \A u \in Thread : u # t => touched'[u] = touched[u]
  BY <1>1, <1>4, <1>6, <1>7
<1>11. QED
  BY <1>1, <1>3, <1>8, <1>9, <1>10

\* What the two accesses have in common.
LEMMA AccessStep ==
  ASSUME OrdersInv, NEW t \in Thread, pc[t] = "access", Touch(t), Goto(t, "publish"),
         UNCHANGED <<variant, stores, seen, pending, idx, popped>>
  PROVE  PlacesCounted' /\ RoomSeen' /\ ClocksCount' /\ StoresCarry' /\ TouchesInPlace'
<1>1. \A u \in Thread : Stores(u)' = Stores(u) /\ pc'[u] = IF u = t THEN "publish" ELSE pc[u]
  BY TouchFacts DEF OrdersInv, TypeOK, Goto
<1>2. PlacesCounted'
  BY <1>1 DEF OrdersInv, PlacesCounted, Thread
<1>3. RoomSeen'
  <2>1. /\ Stores("producer")' = Stores("producer") /\ Stores("consumer")' = Stores("consumer")
        /\ pc'["consumer"] \in {"access", "publish"} => pc["consumer"] \in {"access", "publish"}
        /\ pc'["producer"] \in {"access", "publish"} => pc["producer"] \in {"access", "publish"}
    BY <1>1 DEF Thread
  <2>2. QED
    BY <2>1, Counted DEF RoomSeen, Thread, Other
<1>4. ClocksCount'
  <2>1. \A u, v \in Thread : pending[u][v] \in Nat /\ clock[u][v] \in Nat /\ clock'[u][v] \in Nat
    <3>1. \A u, v \in Thread : pending[u][v] \in Nat /\ clock[u][v] \in Nat
      BY DEF OrdersInv, TypeOK, ClockType
    <3>2. clock' \in [Thread -> [Thread -> Nat]]
      BY TouchFacts DEF ClockType
    <3>3. QED
      BY <3>1, <3>2
  <2>2. \A u \in Thread : clock'[u][u] = Accesses(u)'
    BY TouchFacts DEF OrdersInv, ClocksCount
  <2>3. \A u, v \in Thread : clock'[u][v] <= clock'[v][v]
    BY <2>1, TouchFacts DEF OrdersInv, ClocksCount
  <2>4. \A u, v \in Thread : pending'[u][v] <= clock'[v][v]
    BY <2>1, TouchFacts DEF OrdersInv, ClocksCount
  <2>5. \A u, v \in Thread : \A k \in 1 .. Stores(u)' : stores'[u][k].clock[v] <= clock'[v][v]
    <3> TAKE u, v \in Thread
    <3> TAKE k \in 1 .. Stores(u)'
    <3>1. stores[u][k].clock[v] \in Nat /\ stores[u][k].clock[v] <= clock[v][v]
      BY <1>1, StoreTypes DEF OrdersInv, ClocksCount, ClockType
    <3>2. QED
      BY <2>1, <3>1, TouchFacts
  <2>6. QED
    BY <2>2, <2>3, <2>4, <2>5 DEF ClocksCount
<1>5. StoresCarry'
  BY <1>1, TouchFacts DEF OrdersInv, StoresCarry, Acquiring, Thread, Other
<1>6. TouchesInPlace'
  <2> SUFFICES ASSUME NEW u \in Thread, NEW s \in Ring
               PROVE  /\ touched'[u][s] <= Accesses(u)'
                      /\ touched'[u][s] # 0 => SlotOf(touched'[u][s]) = s
    BY DEF TouchesInPlace
  <2>1. /\ touched[u][s] \in Nat /\ touched[u][s] <= Accesses(u)
        /\ touched[u][s] # 0 => SlotOf(touched[u][s]) = s
    BY DEF OrdersInv, TypeOK, TouchesInPlace
  <2>2. CASE u = t /\ s = idx[t]
    BY <2>2, TouchFacts
  <2>3. CASE u = t /\ s # idx[t]
    BY <2>1, <2>3, TouchFacts
  <2>4. CASE u # t
    BY <2>1, <2>4, TouchFacts
  <2>5. QED
    BY <2>2, <2>3, <2>4
<1>7. QED
  BY <1>2, <1>3, <1>4, <1>5, <1>6

\* The copy of an item into its slot.
LEMMA WriteSlotStep ==
  ASSUME OrdersInv, WriteSlot
  PROVE  OrdersInv'
<1> DEFINE P == Stores("producer")
           s == idx["producer"]
           w == [item |-> P, at |-> P]
<1>1. /\ pc["producer"] = "access" /\ Touch("producer") /\ Goto("producer", "publish")
      /\ UNCHANGED <<variant, stores, seen, pending, idx, item, popped>>
  BY DEF WriteSlot
<1>2. "producer" \in Thread /\ "consumer" \in Thread /\ "consumer" # "producer"
  BY DEF Thread
<1>3. /\ P \in Nat \ {0} /\ s = SlotOf(P) /\ s \in Ring
      /\ clock'["producer"]["producer"] = P
      /\ Accesses("producer") = P - 1 /\ Accesses("producer")' = P
      /\ clock' \in [Thread -> ClockType] /\ touched' \in [Thread -> [Ring -> Nat]]
      /\ Stores("consumer")' = Stores("consumer")
  BY <1>1, <1>2, TouchFacts
<1>4. slots' = [slots EXCEPT ![s] = Append(slots[s], w)]
  <2>1. Pushes + 1 = P
    BY <1>3 DEF Pushes, Stores
  <2>2. QED
    BY <1>3, <2>1 DEF WriteSlot
<1> HIDE DEF P, s
<1>5. /\ slots \in [Ring -> Seq([item : Nat, at : Nat])]
      /\ slots' \in [Ring -> Seq([item : Nat, at : Nat])]
      /\ \A r \in Ring : r # s => slots'[r] = slots[r]
      /\ Len(slots'[s]) = Len(slots[s]) + 1 /\ Len(slots[s]) \in Nat
      /\ \A k \in 1 .. Len(slots[s]) : slots'[s][k] = slots[s][k]
      /\ slots'[s][Len(slots[s]) + 1] = w
  <2> DEFINE S == [item : Nat, at : Nat]
  <2>1. slots \in [Ring -> Seq(S)] /\ w \in S
    BY <1>3 DEF OrdersInv, TypeOK
  <2> HIDE DEF S, w
  <2>2. slots' \in [Ring -> Seq(S)] /\ \A r \in Ring : r # s => slots'[r] = slots[r]
    BY <1>3, <1>4, <2>1
  <2>3. slots'[s] = Append(slots[s], w) /\ slots[s] \in Seq(S)
    BY <1>3, <1>4, <2>1
  <2>4. QED
    BY <2>1, <2>2, <2>3 DEF S
<1>6. PlacesCounted' /\ RoomSeen' /\ ClocksCount' /\ StoresCarry' /\ TouchesInPlace'
  BY <1>1, <1>2, AccessStep
<1>7. TypeOK'
  <2>1. pc' \in [Thread -> {"idle", "check", "access", "publish"}]
    BY <1>1 DEF OrdersInv, TypeOK, Goto
  <2>2. QED
    BY <1>1, <1>3, <1>5, <2>1 DEF OrdersInv, TypeOK
<1>8. WritesInPlace'
  <2>1. ASSUME NEW r \in Ring, NEW k \in 1 .. Len(slots'[r])
        PROVE  /\ slots'[r][k].item = slots'[r][k].at
               /\ slots'[r][k].at <= Accesses("producer")'
               /\ slots'[r][k].at # 0 => SlotOf(slots'[r][k].at) = r
               /\ \A j \in 1 .. k - 1 : slots'[r][j].at < slots'[r][k].at
    <3>1. ASSUME NEW j \in 1 .. Len(slots[r])
          PROVE  /\ slots[r][j].item = slots[r][j].at
                 /\ slots[r][j].at \in 0 .. P - 1
                 /\ slots[r][j].at # 0 => SlotOf(slots[r][j].at) = r
                 /\ \A l \in 1 .. j - 1 : slots[r][l].at < slots[r][j].at
      <4>1. slots[r][j].at \in Nat
        <5> DEFINE S == [item : Nat, at : Nat]
        <5>1. slots[r] \in Seq(S) /\ \A x \in S : x.at \in Nat
          BY <1>5
        <5> HIDE DEF S
        <5>2. QED
          BY <5>1
      <4>2. QED
        BY <1>3, <4>1 DEF OrdersInv, WritesInPlace
    <3>2. CASE r # s
      <4>1. slots'[r] = slots[r] /\ k \in 1 .. Len(slots[r])
        BY <1>5, <2>1, <3>2
      <4>2. /\ slots[r][k].item = slots[r][k].at
            /\ slots[r][k].at \in 0 .. P - 1
            /\ slots[r][k].at # 0 => SlotOf(slots[r][k].at) = r
            /\ \A j \in 1 .. k - 1 : slots[r][j].at < slots[r][k].at
        BY <3>1, <4>1
      <4>3. slots[r][k].at <= Accesses("producer")'
        BY <1>3, <4>2
      <4>4. QED
        BY <4>1, <4>2, <4>3
    <3>3. CASE r = s /\ k # Len(slots[s]) + 1
      <4>1. /\ k \in 1 .. Len(slots[r]) /\ slots'[r][k] = slots[r][k]
            /\ \A j \in 1 .. k - 1 : j \in 1 .. Len(slots[r]) /\ slots'[r][j] = slots[r][j]
        <5> DEFINE n == Len(slots[s])
        <5>0. n \in Nat /\ Len(slots'[s]) = n + 1
          BY <1>5
        <5>1. Len(slots[r]) \in Nat /\ k \in 1 .. Len(slots[r])
          <6> HIDE DEF n
          <6>1. k \in 1 .. n + 1 /\ k # n + 1
            BY <3>3, <5>0 DEF n
          <6>2. k \in 1 .. n
            BY <5>0, <6>1
          <6>3. QED
            BY <3>3, <5>0, <6>2 DEF n
        <5>2. \A j \in 1 .. Len(slots[r]) : slots'[r][j] = slots[r][j]
          BY <1>5, <3>3
        <5>3. \A j \in 1 .. k - 1 : j \in 1 .. Len(slots[r])
          BY <5>1
        <5>4. QED
          BY <5>1, <5>2, <5>3
      <4>2. /\ slots[r][k].item = slots[r][k].at
            /\ slots[r][k].at \in 0 .. P - 1
            /\ slots[r][k].at # 0 => SlotOf(slots[r][k].at) = r
            /\ \A j \in 1 .. k - 1 : slots[r][j].at < slots[r][k].at
        BY <3>1, <4>1
      <4>3. \A j \in 1 .. k - 1 : slots'[r][j].at < slots'[r][k].at
        BY <4>1, <4>2
      <4>4. slots[r][k].at <= Accesses("producer")'
        BY <1>3, <4>2
      <4>5. QED
        BY <4>1, <4>2, <4>3, <4>4
    <3>4. CASE r = s /\ k = Len(slots[s]) + 1
      <4>1. slots'[r][k] = w /\ w.item = P /\ w.at = P
        BY <1>5, <3>4
      <4>2. \A j \in 1 .. k - 1 : j \in 1 .. Len(slots[r]) /\ slots'[r][j] = slots[r][j]
        <5>1. \A j \in 1 .. k - 1 : j \in 1 .. Len(slots[r])
          BY <1>5, <3>4
        <5>2. QED
          BY <1>5, <3>4, <5>1
      <4>3. P \in Nat \ {0}
        BY <1>3
      <4>4. ASSUME NEW j \in 1 .. k - 1 PROVE slots'[r][j].at < P
        <5>1. slots[r][j].at \in 0 .. P - 1 /\ slots'[r][j] = slots[r][j]
          BY <3>1, <4>2
        <5>2. QED
          BY <4>3, <5>1
      <4>5. P <= Accesses("producer")' /\ SlotOf(P) = r
        BY <1>3, <3>4
      <4>6. QED
        BY <4>1, <4>4, <4>5
    <3>5. QED
      BY <3>2, <3>3, <3>4
  <2>2. ASSUME NEW n \in 1 .. P
        PROVE  \E k \in 1 .. Len(slots'[SlotOf(n)]) : slots'[SlotOf(n)][k].at = n
    <3>1. CASE n = P
      <4>1. SlotOf(n) = s /\ w.at = n
        BY <1>3, <3>1
      <4>2. Len(slots[s]) + 1 \in 1 .. Len(slots'[s]) /\ slots'[s][Len(slots[s]) + 1].at = n
        BY <1>5, <4>1
      <4>3. QED
        BY <4>1, <4>2
    <3>2. CASE n # P
      <4>1. n \in 1 .. P - 1 /\ SlotOf(n) \in Ring
        BY <1>3, <3>2, SlotFacts
      <4>2. PICK k \in 1 .. Len(slots[SlotOf(n)]) : slots[SlotOf(n)][k].at = n
        BY <1>3, <4>1 DEF OrdersInv, WritesInPlace
      <4>3. CASE SlotOf(n) = s
        <5>1. k \in 1 .. Len(slots[s]) /\ slots[s][k].at = n
          BY <4>2, <4>3
        <5>2. k \in 1 .. Len(slots'[s]) /\ slots'[s][k] = slots[s][k]
          BY <1>5, <5>1
        <5>3. QED
          BY <4>3, <5>1, <5>2
      <4>4. CASE SlotOf(n) # s
        BY <1>5, <4>1, <4>2, <4>4
      <4>5. QED
        BY <4>3, <4>4
    <3>3. QED
      BY <3>1, <3>2
  <2>3. QED
    BY <1>3, <2>1, <2>2 DEF WritesInPlace
<1>9. ItemsInOrder'
  <2>1. pc'["consumer"] = pc["consumer"]
    BY <1>1, <1>2 DEF OrdersInv, TypeOK, Goto
  <2>2. QED
    BY <1>1, <1>3, <2>1 DEF OrdersInv, ItemsInOrder, Acquiring
<1>10. QED
  BY <1>6, <1>7, <1>8, <1>9 DEF OrdersInv

\* The consumer can read nothing but the item it has come to: the write of that
\* item happens before, so earlier ones are hidden, and a later one would be a
\* whole turn ahead.
LEMMA ReadableIsNext ==
  ASSUME OrdersInv, Acquiring, pc["consumer"] = "access",
         NEW x \in Readable(idx["consumer"])
  PROVE  x = Stores("consumer")
<1> DEFINE C == Stores("consumer")
           P == Stores("producer")
           s == idx["consumer"]
           now == clock["consumer"]["producer"]
           at(k) == slots[s][k].at
<1>1. PICK k \in DOMAIN slots[s] :
        /\ x = slots[s][k].item
        /\ \A j \in k + 1 .. Len(slots[s]) : at(j) > now
  BY DEF Readable
<1>2. /\ s \in Ring /\ s = SlotOf(C) /\ C \in Nat \ {0} /\ P \in Nat \ {0}
      /\ Capacity \in Nat \ {0}
      /\ C < seen["consumer"] /\ seen["consumer"] <= P
      /\ seen["producer"] <= C
      /\ P < seen["producer"] + Capacity
      /\ pc["producer"] = "publish" => P + 1 < seen["producer"] + Capacity
      /\ seen["consumer"] \in Nat /\ seen["producer"] \in Nat
  <2>1. s \in Ring /\ s = SlotOf(C)
    BY DEF OrdersInv, TypeOK, PlacesCounted, Thread
  <2>2. /\ pc["consumer"] \in {"access", "publish"}
        /\ pc["producer"] = "publish" => pc["producer"] \in {"access", "publish"}
    OBVIOUS
  <2>3. /\ C \in Nat \ {0} /\ P \in Nat \ {0} /\ Capacity \in Nat \ {0}
        /\ seen["consumer"] \in 1 .. P /\ seen["producer"] \in 1 .. C
        /\ C < seen["consumer"] /\ P < seen["producer"] + Capacity
        /\ pc["producer"] = "publish" => P + 1 < seen["producer"] + Capacity
    BY <2>2, Counted
  <2> HIDE DEF C, P, s
  <2>4. QED
    BY <2>1, <2>3
<1>3. now \in Nat /\ C <= now
  <2>1. seen["consumer"] - 1 <= now /\ now \in Nat
    BY DEF OrdersInv, TypeOK, StoresCarry, ClockType, Thread, Other
  <2>2. QED
    BY <1>2, <2>1
<1>4. Accesses("producer") \in Nat /\ C <= Accesses("producer")
      /\ Accesses("producer") < C + Capacity
  BY <1>2 DEF Accesses
<1>5. /\ DOMAIN slots[s] = 1 .. Len(slots[s]) /\ Len(slots[s]) \in Nat
      /\ \A j \in 1 .. Len(slots[s]) : at(j) \in Nat
  <2> DEFINE S == [item : Nat, at : Nat]
  <2>1. slots[s] \in Seq(S) /\ \A y \in S : y.at \in Nat
    BY <1>2 DEF OrdersInv, TypeOK
  <2> HIDE DEF S, s
  <2>2. QED
    BY <2>1
<1>6. PICK l \in 1 .. Len(slots[s]) : at(l) = C
  <2>1. C \in 1 .. Accesses("producer")
    BY <1>2, <1>4
  <2> HIDE DEF C
  <2>2. QED
    BY <1>2, <2>1 DEF OrdersInv, WritesInPlace
<1>7. /\ x = at(k)
      /\ at(k) <= Accesses("producer")
      /\ at(k) # 0 => SlotOf(at(k)) = s
      /\ \A j \in 1 .. k - 1 : at(j) < at(k)
  BY <1>1, <1>2, <1>5 DEF OrdersInv, WritesInPlace
<1>8. ~(k < l)
  BY <1>1, <1>3, <1>5, <1>6
<1>9. C <= at(k)
  <2>1. l \in 1 .. k
    BY <1>1, <1>5, <1>8
  <2>2. l = k \/ l \in 1 .. k - 1
    BY <1>1, <1>5, <2>1
  <2>3. at(l) = C /\ C \in Nat /\ at(k) \in Nat
    BY <1>1, <1>2, <1>5, <1>6
  <2> HIDE DEF C, at
  <2>4. l = k => C <= at(k)
    BY <2>3
  <2>5. l \in 1 .. k - 1 => C <= at(k)
    BY <1>7, <2>3
  <2>6. QED
    BY <2>2, <2>4, <2>5
<1>10. ~(C < at(k))
  BY <1>2, <1>4, <1>5, <1>7, SlotsDiffer
<1>11. QED
  BY <1>2, <1>5, <1>7, <1>9, <1>10

\* The copy of an item out of its slot.
LEMMA ReadSlotStep ==
  ASSUME OrdersInv, ReadSlot
  PROVE  OrdersInv'
<1>1. /\ pc["consumer"] = "access" /\ Touch("consumer") /\ Goto("consumer", "publish")
      /\ item' \in Readable(idx["consumer"])
      /\ UNCHANGED <<variant, stores, seen, pending, idx, slots, popped>>
  BY DEF ReadSlot
<1>2. "producer" \in Thread /\ "consumer" \in Thread /\ "consumer" # "producer"
  BY DEF Thread
<1>3. /\ Accesses("producer")' = Accesses("producer")
      /\ Stores("consumer")' = Stores("consumer") /\ idx["consumer"] \in Ring
      /\ clock' \in [Thread -> ClockType] /\ touched' \in [Thread -> [Ring -> Nat]]
  BY <1>1, <1>2, TouchFacts
<1>4. PlacesCounted' /\ RoomSeen' /\ ClocksCount' /\ StoresCarry' /\ TouchesInPlace'
  BY <1>1, <1>2, AccessStep
<1>5. TypeOK'
  <2>1. pc' \in [Thread -> {"idle", "check", "access", "publish"}]
    BY <1>1 DEF OrdersInv, TypeOK, Goto
  <2>2. item' \in Nat
    <3> DEFINE S == [item : Nat, at : Nat]
               r == slots[idx["consumer"]]
    <3>1. r \in Seq(S) /\ \A y \in S : y.item \in Nat
      BY <1>3 DEF OrdersInv, TypeOK
    <3>2. PICK k \in DOMAIN r : item' = r[k].item
      BY <1>1 DEF Readable
    <3> HIDE DEF S, r
    <3>3. QED
      BY <3>1, <3>2
  <2>3. QED
    BY <1>1, <1>3, <2>1, <2>2 DEF OrdersInv, TypeOK
<1>6. WritesInPlace'
  BY <1>1, <1>3 DEF OrdersInv, WritesInPlace
<1>7. ItemsInOrder'
  BY <1>1, <1>3, ReadableIsNext DEF OrdersInv, ItemsInOrder, Acquiring
<1>8. QED
  BY <1>4, <1>5, <1>6, <1>7 DEF OrdersInv
-----------------------------------------------------------------------------
(***************************************************************************)
(* The inductive invariant, for any capacity, any number of items and all  *)
(* four versions of the ring.                                              *)
(***************************************************************************)
THEOREM OrdersInvHolds == Spec => []OrdersInv
<1>1. Init => OrdersInv
  BY InitInv
<1>2. OrdersInv /\ [Next]_vars => OrdersInv'
  <2> SUFFICES ASSUME OrdersInv, [Next]_vars PROVE OrdersInv'
    OBVIOUS
  <2>1. ASSUME NEW t \in Thread, LoadOwn(t) PROVE OrdersInv'
    BY <2>1, LoadOwnStep
  <2>2. ASSUME NEW t \in Thread, LoadOther(t) PROVE OrdersInv'
    BY <2>2, LoadOtherStep
  <2>3. ASSUME NEW t \in Thread, Publish(t) PROVE OrdersInv'
    BY <2>3, PublishStep
  <2>4. CASE WriteSlot
    BY <2>4, WriteSlotStep
  <2>5. CASE ReadSlot
    BY <2>5, ReadSlotStep
  <2>6. CASE UNCHANGED vars
    <3>1. \A t \in Thread : Stores(t)' = Stores(t) /\ Accesses(t)' = Accesses(t)
      BY <2>6 DEF vars, syncVars, Stores, Accesses
    <3>2. "producer" \in Thread /\ "consumer" \in Thread
      BY DEF Thread
    <3>3. UNCHANGED <<variant, stores, seen, clock, pending, pc, idx, slots, touched, item, popped>>
      BY <2>6 DEF vars, syncVars
    <3>4. TypeOK'
      BY <3>3 DEF OrdersInv, TypeOK
    <3>5. PlacesCounted'
      BY <3>1, <3>2, <3>3 DEF OrdersInv, PlacesCounted
    <3>6. RoomSeen'
      BY <3>1, <3>2, <3>3 DEF OrdersInv, RoomSeen, Thread, Other
    <3>7. ClocksCount'
      BY <3>1, <3>3 DEF OrdersInv, ClocksCount
    <3>8. StoresCarry'
      BY <3>1, <3>3 DEF OrdersInv, StoresCarry, Acquiring
    <3>9. WritesInPlace'
      BY <3>1, <3>2, <3>3 DEF OrdersInv, WritesInPlace
    <3>10. TouchesInPlace'
      BY <3>1, <3>3 DEF OrdersInv, TouchesInPlace
    <3>11. ItemsInOrder'
      BY <3>1, <3>2, <3>3 DEF OrdersInv, ItemsInOrder, Acquiring
    <3>12. QED
      BY <3>4, <3>5, <3>6, <3>7, <3>8, <3>9, <3>10, <3>11 DEF OrdersInv
  <2>7. QED
    BY <2>1, <2>2, <2>3, <2>4, <2>5, <2>6 DEF Next
<1>3. QED
  BY <1>1, <1>2, PTL DEF Spec

(***************************************************************************)
(* Whatever the memory order, and however old the index is that a thread   *)
(* compares with, no push overwrites an item that waits and no pop gets    *)
(* ahead of the pushes.                                                    *)
(***************************************************************************)
THEOREM NothingOverruns == Spec => []NeverOverruns
<1>1. OrdersInv => NeverOverruns
  <2> SUFFICES ASSUME OrdersInv PROVE NeverOverruns
    OBVIOUS
  <2>1. Len(popped) = Stores("consumer") - 1 /\ Pushes = Stores("producer") - 1
    BY DEF OrdersInv, PlacesCounted, Pushes, Stores
  <2>2. QED
    BY <2>1, Counted DEF NeverOverruns
<1>2. QED
  BY <1>1, OrdersInvHolds, PTL

(***************************************************************************)
(* With the release stores and acquire loads of ConcurrentQueue.hpp, and   *)
(* with seq_cst, the copy into a slot and the copy out of it never race.   *)
(***************************************************************************)
THEOREM AccessesSynchronized == Spec => []SlotsSynchronized
<1>1. OrdersInv => SlotsSynchronized
  <2> SUFFICES ASSUME OrdersInv, Acquiring, NEW t \in Thread, pc[t] = "access"
               PROVE  touched[Other(t)][idx[t]] <= clock[t][Other(t)]
    BY DEF SlotsSynchronized
  <2> DEFINE o == Other(t)
             n == touched[o][idx[t]]
             C == Stores("consumer")
             P == Stores("producer")
  <2>1. /\ o \in Thread /\ idx[t] \in Ring /\ idx[t] = SlotOf(Stores(t))
        /\ n \in Nat /\ clock[t][o] \in Nat
        /\ seen[t] - 1 <= clock[t][o]
        /\ n <= Accesses(o) /\ (n # 0 => SlotOf(n) = idx[t])
    BY DEF OrdersInv, TypeOK, PlacesCounted, StoresCarry, TouchesInPlace, ClockType, Thread, Other
  <2>2. /\ Capacity \in Nat \ {0} /\ P \in Nat \ {0} /\ C \in Nat \ {0}
        /\ seen["producer"] \in Nat /\ seen["consumer"] \in Nat
        /\ seen["producer"] <= C /\ seen["consumer"] <= P
        /\ C <= seen["consumer"] /\ P < seen["producer"] + Capacity
        /\ pc["consumer"] \in {"access", "publish"} => C < seen["consumer"]
        /\ pc["producer"] \in {"access", "publish"} => P + 1 < seen["producer"] + Capacity
    BY Counted DEF OrdersInv, TypeOK, Thread
  <2> HIDE DEF o, n, C, P
  <2>3. CASE t = "consumer"
    <3>1. o = "producer" /\ Accesses(o) < C + Capacity /\ Accesses(o) \in Nat
      BY <2>2, <2>3 DEF Other, o, Accesses, P
    <3>2. ~(C < n)
      BY <2>1, <2>2, <2>3, <3>1, SlotsDiffer DEF C
    <3>3. QED
      BY <2>1, <2>2, <2>3, <3>2 DEF o, n
  <2>4. CASE t = "producer"
    <3>1. o = "consumer" /\ Accesses(o) < P /\ Accesses(o) \in Nat
      BY <2>2, <2>4 DEF Other, o, Accesses, C
    <3>2. n = 0 \/ ~(P < n + Capacity)
      BY <2>1, <2>2, <2>4, <3>1, SlotsDiffer DEF P
    <3>3. QED
      BY <2>1, <2>2, <2>4, <3>2 DEF o, n
  <2>5. QED
    BY <2>3, <2>4 DEF Thread
<1>2. QED
  BY <1>1, OrdersInvHolds, PTL

\* Nothing is pushed beyond the items there are.
ItemsLeft == /\ Pushes <= Items
             /\ pc["producer"] # "idle" => Pushes < Items

LEMMA ItemsLeftStep == OrdersInv /\ ItemsLeft /\ [Next]_vars => ItemsLeft'
<1> SUFFICES ASSUME OrdersInv, ItemsLeft, [Next]_vars PROVE ItemsLeft'
  OBVIOUS
<1>1. /\ stores \in [Thread -> Seq([value : Ring, clock : ClockType])]
      /\ pc \in [Thread -> {"idle", "check", "access", "publish"}]
      /\ "producer" \in Thread
  BY DEF OrdersInv, TypeOK, Thread
<1>2. Pushes \in Nat /\ Items \in Nat
  BY <1>1, ItemsAssumption, Counted DEF OrdersInv, Pushes, Stores
<1>3. ASSUME Pushes' = Pushes, pc'["producer"] # "idle" => pc["producer"] # "idle" \/ Pushes < Items
      PROVE  ItemsLeft'
  BY <1>3 DEF ItemsLeft
<1>4. ASSUME NEW t \in Thread, LoadOwn(t) PROVE ItemsLeft'
  <2>1. Pushes' = Pushes
    BY <1>4 DEF LoadOwn, Pushes
  <2>2. pc'["producer"] # "idle" => pc["producer"] # "idle" \/ Pushes < Items
    BY <1>1, <1>4 DEF LoadOwn, Goto
  <2>3. QED
    BY <1>3, <2>1, <2>2
<1>5. ASSUME NEW t \in Thread, LoadOther(t) PROVE ItemsLeft'
  <2>1. stores' = stores /\ \E label : pc' = [pc EXCEPT ![t] = label]
    BY <1>5 DEF LoadOther, Goto
  <2>2. pc[t] = "check"
    BY <1>5 DEF LoadOther
  <2>3. pc'["producer"] # "idle" => pc["producer"] # "idle"
    BY <1>1, <2>1, <2>2
  <2>4. Pushes' = Pushes
    BY <2>1 DEF Pushes
  <2>5. QED
    BY <1>3, <2>3, <2>4
<1>6. CASE WriteSlot \/ ReadSlot \/ UNCHANGED vars
  <2>1. stores' = stores
    BY <1>6 DEF WriteSlot, ReadSlot, vars
  <2>2. pc'["producer"] # "idle" => pc["producer"] # "idle"
    BY <1>1, <1>6 DEF WriteSlot, ReadSlot, Goto, vars
  <2>3. Pushes' = Pushes
    BY <2>1 DEF Pushes
  <2>4. QED
    BY <1>3, <2>2, <2>3
<1>7. ASSUME NEW t \in Thread, Publish(t) PROVE ItemsLeft'
  <2>1. CASE t = "producer"
    <3>1. Pushes' = Pushes + 1 /\ pc'["producer"] = "idle" /\ Pushes < Items
      BY <1>1, <1>7, <2>1 DEF Publish, Goto, Pushes, ItemsLeft, Thread
    <3>2. QED
      BY <1>2, <3>1 DEF ItemsLeft
  <2>2. CASE t = "consumer"
    <3>1. Pushes' = Pushes /\ pc'["producer"] = pc["producer"]
      BY <1>1, <1>7, <2>2 DEF Publish, Goto, Pushes, Thread
    <3>2. QED
      BY <3>1 DEF ItemsLeft
  <2>3. QED
    BY <2>1, <2>2 DEF Thread
<1>8. QED
  BY <1>4, <1>5, <1>6, <1>7 DEF Next

(***************************************************************************)
(* In the same two versions the ring is the channel of BoundedFifo, with   *)
(* Capacity - 1 places: bounded, first in first out, nothing lost and      *)
(* nothing twice, for every capacity and number of items.                  *)
(***************************************************************************)
THEOREM AcquiringRingImplementsFifo == Spec => AcquiringImplementsFifo
<1> DEFINE sent == [k \in 1 .. Pushes |-> k]
<1>1. Init => ItemsLeft /\ Channel!FifoInit
  BY ItemsAssumption DEF Init, ItemsLeft, Pushes, Channel!FifoInit, Thread
<1>2. ASSUME OrdersInv, ItemsLeft, [Next]_vars
      PROVE  [Acquiring => Channel!FifoNext]_(Channel!fifoVars)
  <2> DEFINE C == Stores("consumer")
             P == Stores("producer")
  <2>1. /\ popped \in Seq(Nat) /\ Len(popped) = C - 1 /\ Pushes = P - 1
        /\ Items \in Nat /\ Capacity \in Nat \ {0}
        /\ P \in Nat \ {0} /\ C \in Nat \ {0}
        /\ seen["producer"] \in Nat /\ seen["consumer"] \in Nat
        /\ seen["producer"] <= C /\ seen["consumer"] <= P
        /\ pc["consumer"] = "publish" => C < seen["consumer"]
        /\ pc["producer"] = "publish" => P + 1 < seen["producer"] + Capacity
    <3>1. /\ P \in Nat \ {0} /\ C \in Nat \ {0}
          /\ seen["producer"] \in 1 .. C /\ seen["consumer"] \in 1 .. P
          /\ pc["consumer"] = "publish" => C < seen["consumer"]
          /\ pc["producer"] = "publish" => P + 1 < seen["producer"] + Capacity
      BY <1>2, Counted
    <3>2. popped \in Seq(Nat) /\ Len(popped) = C - 1 /\ Pushes = P - 1
      BY <1>2 DEF OrdersInv, TypeOK, PlacesCounted, Pushes, Stores
    <3> HIDE DEF C, P
    <3>3. QED
      BY <3>1, <3>2, ItemsAssumption, CapacityAssumption
  <2>2. /\ stores \in [Thread -> Seq([value : Ring, clock : ClockType])]
        /\ stores["producer"] \in Seq([value : Ring, clock : ClockType])
    BY <1>2 DEF OrdersInv, TypeOK, Thread
  <2>3. ASSUME Publish("producer") PROVE Channel!FifoNext
    <3>1. Pushes' = Pushes + 1 /\ popped' = popped /\ pc["producer"] = "publish"
      BY <2>2, <2>3 DEF Publish, Pushes, Thread
    <3>2. Pushes < Items /\ Pushes < Len(popped) + (Capacity - 1)
      BY <1>2, <2>1, <3>1 DEF ItemsLeft
    <3>3. Len(sent) = Pushes /\ sent \in Seq(Nat) /\ sent' = Append(sent, Pushes + 1)
      BY <2>1, <3>1
    <3>4. PICK n : n = Pushes + 1
      OBVIOUS
    <3>5. n \in 1 .. Items
      BY <2>1, <3>2, <3>4
    <3>6. Channel!Send(n)
      BY <3>1, <3>2, <3>3, <3>4 DEF Channel!Send
    <3>7. QED
      BY <3>5, <3>6 DEF Channel!FifoNext
  <2>4. ASSUME Publish("consumer"), Acquiring PROVE Channel!FifoNext
    <3>1. /\ Pushes' = Pushes /\ popped' = Append(popped, item) /\ pc["consumer"] = "publish"
      BY <2>2, <2>4 DEF Publish, Pushes, Thread
    <3>2. item = Stores("consumer")
      BY <1>2, <2>4, <3>1 DEF OrdersInv, ItemsInOrder
    <3>3. Len(popped) < Pushes /\ item = Len(popped) + 1
      BY <2>1, <3>1, <3>2
    <3>4. Len(sent) = Pushes /\ sent[Len(popped) + 1] = item /\ sent' = sent
      BY <2>1, <3>1, <3>3
    <3>5. Channel!Receive
      BY <3>1, <3>3, <3>4 DEF Channel!Receive
    <3>6. QED
      BY <3>5 DEF Channel!FifoNext
  <2>5. CASE UNCHANGED <<Pushes, popped>>
    BY <2>5 DEF Channel!fifoVars
  <2>6. \/ Publish("producer") \/ Publish("consumer")
        \/ UNCHANGED <<Pushes, popped>>
    BY <1>2 DEF Next, LoadOwn, LoadOther, WriteSlot, ReadSlot, Pushes, vars, Thread
  <2>7. QED
    BY <2>3, <2>4, <2>5, <2>6
<1>3. QED
  BY <1>1, <1>2, OrdersInvHolds, ItemsLeftStep, PTL DEF Spec, AcquiringImplementsFifo
=============================================================================
