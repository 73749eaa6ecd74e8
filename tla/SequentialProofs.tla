-------------------------- MODULE SequentialProofs --------------------------
(***************************************************************************)
(* TLAPS proofs about the programs that have one thread: the two copies of *)
(* the level book of Phase_5 agree after any number of calls, for any ids, *)
(* prices and quantities, its pool of any size keeps the latest orders,    *)
(* the simulation of Phase_3 sells once per top of the feed and its fills  *)
(* add up, and the kernels of Phase 1 multiply matrices of any shape.      *)
(***************************************************************************)
EXTENDS LevelBook, CircularPool, TradeSim, MatrixOps, FiniteSetTheorems,
        WellFoundedInduction, TLAPS

(***************************************************************************)
(* LevelBook: CopiesMatch is inductive as it stands.                       *)
(***************************************************************************)

\* Putting an order into levels that hold no order of its id.
LEMMA PutMatches ==
  ASSUME CopiesMatch, NEW o, NEW levels,
         \A id \in DOMAIN orderLookup : id # o.id =>
           id \in DOMAIN Level(levels, orderLookup[id].price),
         \A p \in DOMAIN levels : \A id \in DOMAIN levels[p] :
           /\ id # o.id /\ id \in DOMAIN orderLookup
           /\ levels[p][id] = orderLookup[id]
           /\ orderLookup[id].price = p,
         PutOrder(levels, o)
  PROVE  CopiesMatch'
<1> DEFINE put == With(Level(levels, o.price), o.id, o)
<1>1. /\ DOMAIN orderLookup' = DOMAIN orderLookup \cup {o.id}
      /\ orderLookup'[o.id] = o
      /\ \A id \in DOMAIN orderLookup : id # o.id => orderLookup'[id] = orderLookup[id]
  BY DEF PutOrder, With
<1>2. /\ DOMAIN orderLevels' = DOMAIN levels \cup {o.price}
      /\ orderLevels'[o.price] = put
      /\ \A p \in DOMAIN levels : p # o.price => orderLevels'[p] = levels[p]
  BY DEF PutOrder, With
<1>3. /\ DOMAIN put = DOMAIN Level(levels, o.price) \cup {o.id}
      /\ put[o.id] = o
      /\ \A id \in DOMAIN Level(levels, o.price) : id # o.id =>
           put[id] = Level(levels, o.price)[id]
  BY DEF With
<1>4. \A id \in DOMAIN orderLookup' : orderLookup'[id].id = id
  BY <1>1 DEF CopiesMatch
<1>5. ASSUME NEW id \in DOMAIN orderLookup'
      PROVE  id \in DOMAIN Level(orderLevels', orderLookup'[id].price)
  <2>1. CASE id = o.id
    BY <1>1, <1>2, <1>3, <2>1 DEF Level
  <2>2. CASE id # o.id
    <3>1. /\ id \in DOMAIN orderLookup /\ orderLookup'[id] = orderLookup[id]
          /\ id \in DOMAIN Level(levels, orderLookup[id].price)
      BY <1>1, <2>2
    <3>2. CASE orderLookup[id].price = o.price
      BY <1>2, <1>3, <3>1, <3>2 DEF Level
    <3>3. CASE orderLookup[id].price # o.price
      <4>1. orderLookup[id].price \in DOMAIN levels
        BY <3>1 DEF Level
      <4>2. QED
        BY <1>2, <3>1, <3>3, <4>1 DEF Level
    <3>4. QED
      BY <3>2, <3>3
  <2>3. QED
    BY <2>1, <2>2
<1>6. ASSUME NEW p \in DOMAIN orderLevels', NEW id \in DOMAIN orderLevels'[p]
      PROVE  /\ id \in DOMAIN orderLookup'
             /\ orderLevels'[p][id] = orderLookup'[id]
             /\ orderLookup'[id].price = p
  <2>1. CASE p = o.price /\ id = o.id
    BY <1>1, <1>2, <1>3, <2>1
  <2>2. CASE p = o.price /\ id # o.id
    <3>1. /\ id \in DOMAIN Level(levels, o.price)
          /\ orderLevels'[p][id] = Level(levels, o.price)[id]
      BY <1>2, <1>3, <2>2
    <3>2. p \in DOMAIN levels /\ Level(levels, p) = levels[p]
      BY <2>2, <3>1 DEF Level
    <3>3. QED
      BY <1>1, <2>2, <3>1, <3>2
  <2>3. CASE p # o.price
    BY <1>1, <1>2, <2>3
  <2>4. QED
    BY <2>1, <2>2, <2>3
<1>7. QED
  BY <1>4, <1>5, <1>6 DEF CopiesMatch

\* Erasing an order from the level of its price leaves the others alone.
LEMMA ErasedLevels ==
  ASSUME CopiesMatch, NEW id \in DOMAIN orderLookup, NEW levels,
         levels = ErasedFrom(orderLevels, orderLookup[id].price, id)
  PROVE  /\ \A d \in DOMAIN orderLookup : d # id =>
              d \in DOMAIN Level(levels, orderLookup[d].price)
         /\ \A p \in DOMAIN levels : \A d \in DOMAIN levels[p] :
              /\ d # id /\ d \in DOMAIN orderLookup
              /\ levels[p][d] = orderLookup[d]
              /\ orderLookup[d].price = p
<1> DEFINE price == orderLookup[id].price
<1>1. price \in DOMAIN orderLevels
  BY DEF CopiesMatch, Level
<1>2. /\ DOMAIN levels = DOMAIN orderLevels
      /\ levels[price] = [d \in DOMAIN orderLevels[price] \ {id} |-> orderLevels[price][d]]
      /\ \A p \in DOMAIN orderLevels : p # price => levels[p] = orderLevels[p]
  BY <1>1 DEF ErasedFrom, With, Without, Level
<1>3. ASSUME NEW d \in DOMAIN orderLookup, d # id
      PROVE  d \in DOMAIN Level(levels, orderLookup[d].price)
  <2>1. /\ orderLookup[d].price \in DOMAIN orderLevels
        /\ d \in DOMAIN orderLevels[orderLookup[d].price]
    BY DEF CopiesMatch, Level
  <2>2. QED
    BY <1>2, <1>3, <2>1 DEF Level
<1>4. ASSUME NEW p \in DOMAIN levels, NEW d \in DOMAIN levels[p]
      PROVE  /\ d # id /\ d \in DOMAIN orderLookup
             /\ levels[p][d] = orderLookup[d]
             /\ orderLookup[d].price = p
  <2>1. CASE p = price
    BY <1>1, <1>2, <2>1 DEF CopiesMatch
  <2>2. CASE p # price
    BY <1>2, <2>2 DEF CopiesMatch
  <2>3. QED
    BY <2>1, <2>2
<1>5. QED
  BY <1>3, <1>4

LEMMA AddMatches ==
  ASSUME CopiesMatch, NEW o, AddOrder(o)
  PROVE  CopiesMatch'
<1>1. o.id \notin DOMAIN orderLookup /\ PutOrder(orderLevels, o)
  BY DEF AddOrder
<1>2. /\ \A id \in DOMAIN orderLookup : id # o.id =>
           id \in DOMAIN Level(orderLevels, orderLookup[id].price)
      /\ \A p \in DOMAIN orderLevels : \A id \in DOMAIN orderLevels[p] :
           /\ id # o.id /\ id \in DOMAIN orderLookup
           /\ orderLevels[p][id] = orderLookup[id]
           /\ orderLookup[id].price = p
  BY <1>1 DEF CopiesMatch
<1>3. QED
  BY <1>1, <1>2, PutMatches

LEMMA ModifyMatches ==
  ASSUME CopiesMatch, NEW id, NEW p, NEW q, ModifyOrder(id, p, q),
         orderLookup[id] \in Order
  PROVE  CopiesMatch'
<1> DEFINE o == [orderLookup[id] EXCEPT !.price = p, !.quantity = q]
           levels == ErasedFrom(orderLevels, orderLookup[id].price, id)
<1>1. id \in DOMAIN orderLookup /\ PutOrder(levels, o)
  BY DEF ModifyOrder
<1>2. o.id = id
  BY <1>1 DEF CopiesMatch, Order
<1> HIDE DEF o, levels
<1>3. /\ \A d \in DOMAIN orderLookup : d # id =>
           d \in DOMAIN Level(levels, orderLookup[d].price)
      /\ \A r \in DOMAIN levels : \A d \in DOMAIN levels[r] :
           /\ d # id /\ d \in DOMAIN orderLookup
           /\ levels[r][d] = orderLookup[d]
           /\ orderLookup[d].price = r
  BY <1>1, ErasedLevels DEF levels
<1>4. QED
  BY <1>1, <1>2, <1>3, PutMatches

LEMMA DeleteMatches ==
  ASSUME CopiesMatch, NEW id, DeleteOrder(id)
  PROVE  CopiesMatch'
<1> DEFINE levels == ErasedFrom(orderLevels, orderLookup[id].price, id)
<1>1. id \in DOMAIN orderLookup
  BY DEF DeleteOrder
<1>2. /\ orderLevels' = levels
      /\ orderLookup' = [d \in DOMAIN orderLookup \ {id} |-> orderLookup[d]]
  BY DEF DeleteOrder, Without
<1> HIDE DEF levels
<1>3. /\ \A d \in DOMAIN orderLookup : d # id =>
           d \in DOMAIN Level(levels, orderLookup[d].price)
      /\ \A r \in DOMAIN levels : \A d \in DOMAIN levels[r] :
           /\ d # id /\ d \in DOMAIN orderLookup
           /\ levels[r][d] = orderLookup[d]
           /\ orderLookup[d].price = r
  BY <1>1, ErasedLevels DEF levels
<1>4. QED
  BY <1>1, <1>2, <1>3 DEF CopiesMatch, Level

LEMMA LevelTypeStep ==
  ASSUME LevelTypeOK, [LevelNext]_levelVars
  PROVE  LevelTypeOK'
<1>1. ASSUME NEW levels, NEW o \in Order, PutOrder(levels, o),
             DOMAIN levels \subseteq LevelPrice,
             \A p \in DOMAIN levels : DOMAIN levels[p] \subseteq Id
      PROVE  LevelTypeOK'
  BY <1>1 DEF LevelTypeOK, PutOrder, With, Level, Order
<1>2. ASSUME NEW id \in DOMAIN orderLookup
      PROVE  LET levels == ErasedFrom(orderLevels, orderLookup[id].price, id)
             IN  /\ DOMAIN levels \subseteq LevelPrice
                 /\ \A p \in DOMAIN levels : DOMAIN levels[p] \subseteq Id
  BY DEF LevelTypeOK, ErasedFrom, With, Without, Level, Order
<1>3. ASSUME NEW o \in Order, AddOrder(o)
      PROVE  LevelTypeOK'
  BY <1>1, <1>3 DEF AddOrder, LevelTypeOK
<1>4. ASSUME NEW id \in Id, DeleteOrder(id)
      PROVE  LevelTypeOK'
  BY <1>2, <1>4 DEF DeleteOrder, Without, LevelTypeOK
<1>5. ASSUME NEW id \in Id, NEW p \in LevelPrice, NEW q \in LevelQuantity,
             ModifyOrder(id, p, q)
      PROVE  LevelTypeOK'
  <2>1. [orderLookup[id] EXCEPT !.price = p, !.quantity = q] \in Order
    BY <1>5 DEF ModifyOrder, LevelTypeOK, Order
  <2>2. QED
    BY <1>1, <1>2, <1>5, <2>1 DEF ModifyOrder
<1>6. CASE UNCHANGED levelVars
  BY <1>6 DEF levelVars, LevelTypeOK
<1>7. QED
  BY <1>3, <1>4, <1>5, <1>6 DEF LevelNext

(***************************************************************************)
(* The level map and the lookup table of the Phase_5 OrderBook hold the    *)
(* same orders, each in the level of its price and in no other, after any  *)
(* sequence of addOrder, modifyOrder and deleteOrder calls; levels and ids *)
(* are those of the calls, and the table holds whole orders.               *)
(***************************************************************************)
THEOREM CopiesAlwaysMatch == LevelSpec => [](LevelTypeOK /\ CopiesMatch)
<1>1. LevelInit => LevelTypeOK /\ CopiesMatch
  BY DEF LevelInit, LevelTypeOK, CopiesMatch
<1>2. LevelTypeOK /\ CopiesMatch /\ [LevelNext]_levelVars => (LevelTypeOK /\ CopiesMatch)'
  <2> SUFFICES ASSUME LevelTypeOK, CopiesMatch, [LevelNext]_levelVars
               PROVE  CopiesMatch'
    BY LevelTypeStep
  <2>1. ASSUME NEW o \in Order, AddOrder(o)
        PROVE  CopiesMatch'
    BY <2>1, AddMatches
  <2>2. ASSUME NEW id \in Id, DeleteOrder(id)
        PROVE  CopiesMatch'
    BY <2>2, DeleteMatches
  <2>3. ASSUME NEW id \in Id, NEW p \in LevelPrice, NEW q \in LevelQuantity,
               ModifyOrder(id, p, q)
        PROVE  CopiesMatch'
    <3>1. orderLookup[id] \in Order
      BY <2>3 DEF ModifyOrder, LevelTypeOK
    <3>2. QED
      BY <2>3, <3>1, ModifyMatches
  <2>4. CASE UNCHANGED levelVars
    BY <2>4 DEF levelVars, CopiesMatch, Level
  <2>5. QED
    BY <2>1, <2>2, <2>3, <2>4 DEF LevelNext
<1>3. QED
  BY <1>1, <1>2, PTL DEF LevelSpec

-----------------------------------------------------------------------------
(***************************************************************************)
(* CircularPool: the inductive invariant says what is at each index        *)
(* without the modulo, for any pool an order is handled by.                *)
(***************************************************************************)
Holds(pool, n) ==
  /\ pool.orders \in Seq(Nat)
  /\ Len(pool.orders) = IF n < Size THEN n ELSE Size
  /\ pool.oldest \in 0 .. Size - 1
  /\ n < Size => pool.oldest = 0
  /\ \A i \in 1 .. Len(pool.orders) :
       pool.orders[i] = IF i > pool.oldest
                          THEN n - Len(pool.orders) + i - pool.oldest
                          ELSE n - pool.oldest + i

PoolInv == /\ Holds([orders |-> orderPool, oldest |-> oldestOrder], handled)
           /\ remaining \in Nat /\ handled \in Nat

\* One order more, whether the vector still grows or wraps around.
LEMMA HandleHolds ==
  ASSUME NEW pool \in [orders : Seq(Nat), oldest : Nat], NEW n \in Nat, Holds(pool, n)
  PROVE  /\ HandleOrder(pool, n + 1) \in [orders : Seq(Nat), oldest : Nat]
         /\ Holds(HandleOrder(pool, n + 1), n + 1)
<1> USE SizeAssumption
<1> DEFINE next == HandleOrder(pool, n + 1)
<1>1. CASE n < Size
  <2>1. next = [orders |-> Append(pool.orders, n + 1), oldest |-> 0]
    BY <1>1 DEF HandleOrder, Holds
  <2>2. /\ Len(pool.orders) = n /\ pool.oldest = 0
        /\ \A i \in 1 .. n : pool.orders[i] = i
    BY <1>1 DEF Holds
  <2> HIDE DEF next
  <2>3. /\ next.orders \in Seq(Nat) /\ Len(next.orders) = n + 1 /\ next.oldest = 0
        /\ next.orders[n + 1] = n + 1
        /\ \A i \in 1 .. n : next.orders[i] = i
    BY <2>1, <2>2
  <2>4. \A i \in 1 .. n + 1 : next.orders[i] = i
    BY <2>3
  <2>5. Holds(next, n + 1)
    BY <1>1, <2>3, <2>4 DEF Holds
  <2>6. QED
    BY <2>1, <2>3, <2>5 DEF next
<1>2. CASE n >= Size
  <2>1. /\ Len(pool.orders) = Size
        /\ pool.oldest \in 0 .. Size - 1
        /\ \A i \in 1 .. Size : pool.orders[i] = IF i > pool.oldest
                                   THEN n - Size + i - pool.oldest
                                   ELSE n - pool.oldest + i
    BY <1>2 DEF Holds
  <2>2. next = [orders |-> [pool.orders EXCEPT ![pool.oldest + 1] = n + 1],
                oldest |-> IF pool.oldest + 1 = Size THEN 0 ELSE pool.oldest + 1]
    BY <1>2, <2>1 DEF HandleOrder
  <2> HIDE DEF next
  <2>3. /\ next.orders \in Seq(Nat) /\ Len(next.orders) = Size
        /\ next.orders[pool.oldest + 1] = n + 1
        /\ \A i \in 1 .. Size : i # pool.oldest + 1 => next.orders[i] = pool.orders[i]
    <3> DEFINE s == pool.orders
               j == pool.oldest + 1
    <3>1. s \in Seq(Nat) /\ Len(s) = Size /\ j \in 1 .. Size /\ n + 1 \in Nat
      BY <2>1
    <3>2. next.orders = [s EXCEPT ![j] = n + 1]
      BY <2>2
    <3> HIDE DEF s, j
    <3>3. /\ next.orders \in Seq(Nat) /\ Len(next.orders) = Size
          /\ next.orders[j] = n + 1
          /\ \A i \in 1 .. Size : i # j => next.orders[i] = s[i]
      BY <3>1, <3>2
    <3>4. QED
      BY <3>3 DEF s, j
  <2>4. next.oldest = IF pool.oldest + 1 = Size THEN 0 ELSE pool.oldest + 1
    BY <2>2
  <2>5. ASSUME NEW i \in 1 .. Size
        PROVE  next.orders[i] = IF i > next.oldest
                                  THEN (n + 1) - Size + i - next.oldest
                                  ELSE (n + 1) - next.oldest + i
    <3>1. CASE i = pool.oldest + 1
      BY <2>1, <2>3, <2>4, <3>1
    <3>2. CASE i # pool.oldest + 1
      <4>1. next.orders[i] = IF i > pool.oldest THEN n - Size + i - pool.oldest
                                                ELSE n - pool.oldest + i
        BY <2>1, <2>3, <3>2
      <4>2. pool.oldest \in 0 .. Size - 1 /\ i \in 1 .. Size
        BY <2>1
      <4>3. CASE pool.oldest + 1 = Size
        <5>1. next.oldest = 0 /\ pool.oldest = Size - 1 /\ i <= pool.oldest
          BY <2>4, <3>2, <4>2, <4>3
        <5>2. next.orders[i] = n - (Size - 1) + i
          BY <4>1, <4>2, <5>1
        <5>3. n - (Size - 1) + i = (n + 1) - Size + i - 0
          BY <4>2
        <5>4. QED
          BY <4>2, <5>1, <5>2, <5>3
      <4>4. CASE pool.oldest + 1 # Size
        <5>1. next.oldest = pool.oldest + 1
          BY <2>4, <4>4
        <5>2. n - Size + i - pool.oldest = (n + 1) - Size + i - (pool.oldest + 1)
          BY <4>2
        <5>3. n - pool.oldest + i = (n + 1) - (pool.oldest + 1) + i
          BY <4>2
        <5>4. i > pool.oldest <=> i > pool.oldest + 1
          BY <3>2, <4>2
        <5>5. QED
          BY <4>1, <5>1, <5>2, <5>3, <5>4
      <4>5. QED
        BY <4>3, <4>4
    <3>3. QED
      BY <3>1, <3>2
  <2>6. Holds(next, n + 1)
    <3>1. n + 1 \in Nat /\ ~(n + 1 < Size) /\ next.oldest \in 0 .. Size - 1
      BY <1>2, <2>1, <2>4
    <3>2. \A i \in 1 .. Len(next.orders) :
            next.orders[i] = IF i > next.oldest
                               THEN (n + 1) - Len(next.orders) + i - next.oldest
                               ELSE (n + 1) - next.oldest + i
      BY <2>3, <2>5
    <3>3. QED
      BY <2>3, <3>1, <3>2 DEF Holds
  <2>7. QED
    <3>1. next.oldest \in Nat
      BY <2>1, <2>4
    <3>2. next = [orders |-> next.orders, oldest |-> next.oldest]
      BY <2>2
    <3>3. next \in [orders : Seq(Nat), oldest : Nat]
      BY <2>3, <3>1, <3>2
    <3>4. QED
      BY <2>6, <3>3 DEF next
<1>3. QED
  BY <1>1, <1>2

LEMMA PoolStep ==
  ASSUME PoolInv, [PoolNext]_poolVars
  PROVE  PoolInv'
<1> DEFINE pool == [orders |-> orderPool, oldest |-> oldestOrder]
<1>1. pool \in [orders : Seq(Nat), oldest : Nat] /\ Holds(pool, handled) /\ handled \in Nat
  BY SizeAssumption DEF PoolInv, Holds
<1>2. CASE Call
  BY <1>2, ListAssumption DEF PoolInv, Call
<1>3. CASE Iterate
  <2> DEFINE one == HandleOrder(pool, handled + 1)
             two == HandleOrder(one, handled + 2)
  <2>1. /\ one \in [orders : Seq(Nat), oldest : Nat]
        /\ Holds(one, handled + 1)
    BY <1>1, HandleHolds
  <2>2. /\ two \in [orders : Seq(Nat), oldest : Nat]
        /\ Holds(two, handled + 2)
    <3> HIDE DEF one
    <3>1. handled + 1 \in Nat /\ (handled + 1) + 1 = handled + 2
      BY <1>1
    <3>2. /\ HandleOrder(one, (handled + 1) + 1) \in [orders : Seq(Nat), oldest : Nat]
          /\ Holds(HandleOrder(one, (handled + 1) + 1), (handled + 1) + 1)
      BY <2>1, <3>1, HandleHolds
    <3>3. QED
      BY <3>1, <3>2
  <2>3. CASE remaining > 1
    <3>1. /\ orderPool' = two.orders /\ oldestOrder' = two.oldest
          /\ remaining' = remaining - 2 /\ handled' = handled + 2
      BY <1>3, <2>3 DEF Iterate
    <3> HIDE DEF one, two
    <3>2. [orders |-> orderPool', oldest |-> oldestOrder'] = two
      BY <2>2, <3>1
    <3>3. QED
      BY <1>1, <2>2, <2>3, <3>1, <3>2 DEF PoolInv
  <2>4. CASE ~(remaining > 1)
    <3>1. /\ orderPool' = one.orders /\ oldestOrder' = one.oldest
          /\ remaining' = remaining - 1 /\ handled' = handled + 1 /\ remaining > 0
      BY <1>3, <2>4 DEF Iterate
    <3> HIDE DEF one, two
    <3>2. [orders |-> orderPool', oldest |-> oldestOrder'] = one
      BY <2>1, <3>1
    <3>3. QED
      BY <1>1, <2>1, <3>1, <3>2 DEF PoolInv
  <2>5. QED
    BY <2>3, <2>4
<1>4. CASE UNCHANGED poolVars
  BY <1>4 DEF poolVars, PoolInv
<1>5. QED
  BY <1>2, <1>3, <1>4 DEF PoolNext

\* Once around at most, the modulo is one subtraction.
LEMMA ModOnce ==
  ASSUME NEW n \in Nat \ {0}, NEW x \in 0 .. 2 * n - 1
  PROVE  x % n = IF x < n THEN x ELSE x - n
  OBVIOUS

\* Reading around from the oldest order, as KeepsLatest does.
LEMMA LatestFromInv ==
  ASSUME PoolInv
  PROVE  KeepsLatest
<1> DEFINE n == Len(orderPool)
<1>1. /\ n = IF handled < Size THEN handled ELSE Size
      /\ n \in Nat /\ handled \in Nat /\ oldestOrder \in 0 .. Size - 1
      /\ handled < Size => oldestOrder = 0
      /\ \A i \in 1 .. n : orderPool[i] = IF i > oldestOrder
                                            THEN handled - n + i - oldestOrder
                                            ELSE handled - oldestOrder + i
  BY SizeAssumption DEF PoolInv, Holds
<1> HIDE DEF n
<1>2. ASSUME NEW k \in 0 .. n - 1
      PROVE  orderPool[((oldestOrder + k) % n) + 1] = handled - n + k + 1
  <2> DEFINE x == oldestOrder + k
  <2>1. /\ n \in Nat \ {0} /\ k \in 0 .. n - 1 /\ oldestOrder \in 0 .. n - 1
        /\ x \in 0 .. 2 * n - 1
    BY <1>1, SizeAssumption
  <2>2. x % n = IF x < n THEN x ELSE x - n
    <3> HIDE DEF x
    <3>1. QED
      BY <2>1, ModOnce
  <2>3. CASE x < n
    <3>1. x + 1 \in 1 .. n /\ x + 1 > oldestOrder
      BY <2>1, <2>3
    <3>2. orderPool[x + 1] = handled - n + (x + 1) - oldestOrder
      BY <1>1, <3>1
    <3>3. handled - n + (x + 1) - oldestOrder = handled - n + k + 1
      BY <1>1, <2>1
    <3>4. QED
      BY <2>2, <2>3, <3>2, <3>3
  <2>4. CASE ~(x < n)
    <3>1. x - n + 1 \in 1 .. n /\ ~(x - n + 1 > oldestOrder)
      BY <2>1, <2>4
    <3>2. orderPool[x - n + 1] = handled - oldestOrder + (x - n + 1)
      BY <1>1, <3>1
    <3>3. handled - oldestOrder + (x - n + 1) = handled - n + k + 1
      BY <1>1, <2>1
    <3>4. QED
      BY <2>2, <2>4, <3>2, <3>3
  <2>5. QED
    BY <2>3, <2>4
<1>3. QED
  BY <1>1, <1>2 DEF KeepsLatest, n

(***************************************************************************)
(* The pool of the Phase_5 OptimizedOrderBook, of any size and for lists   *)
(* of any lengths, holds the latest orders in the order they came in: the  *)
(* loop that is unrolled by two and the index that wraps skip and repeat   *)
(* none.  The vector never grows beyond its size.                          *)
(***************************************************************************)
THEOREM AlwaysKeepsLatest == PoolSpec => [](PoolTypeOK /\ KeepsLatest)
<1>1. PoolInit => PoolInv
  BY SizeAssumption DEF PoolInit, PoolInv, Holds
<1>2. PoolInv /\ [PoolNext]_poolVars => PoolInv'
  BY PoolStep
<1>3. PoolInv => PoolTypeOK
  BY SizeAssumption DEF PoolInv, Holds, PoolTypeOK
<1>4. PoolInv => KeepsLatest
  BY LatestFromInv
<1>5. QED
  BY <1>1, <1>2, <1>3, <1>4, PTL DEF PoolSpec
-----------------------------------------------------------------------------
(***************************************************************************)
(* TradeSim: an event that is appended to the feed leaves what was         *)
(* computed from the events before it as it was.                           *)
(***************************************************************************)
LEMMA FeedGrows ==
  ASSUME feed \in Seq(Event), NEW e \in Event, feed' = Append(feed, e)
  PROVE  /\ feed' \in Seq(Event) /\ Len(feed) \in Nat /\ Len(feed') = Len(feed) + 1
         /\ feed'[Len(feed) + 1] = e
         /\ \A k \in 1 .. Len(feed) : feed'[k] = feed[k]
<1> HIDE DEF Event
<1>1. QED
  OBVIOUS

LEMMA UpdatesKept ==
  ASSUME feed \in Seq(Event), NEW e \in Event, feed' = Append(feed, e),
         NEW type, NEW p, NEW k \in 0 .. Len(feed)
  PROVE  Updates(type, p, k)' = Updates(type, p, k)
<1>1. \A j \in 1 .. k : j \in 1 .. Len(feed)
  BY FeedGrows
<1>2. \A j \in 1 .. k : feed'[j] = feed[j]
  BY <1>1, FeedGrows
<1>3. QED
  BY <1>2 DEF Updates

LEMMA UpdatesGrow ==
  ASSUME feed \in Seq(Event), NEW e \in Event, feed' = Append(feed, e),
         NEW type, NEW p, NEW n, n = Len(feed)
  PROVE  /\ e.type = type /\ e.price = p =>
              Updates(type, p, n + 1)' = Updates(type, p, n) \cup {n + 1}
         /\ ~(e.type = type /\ e.price = p) =>
              Updates(type, p, n + 1)' = Updates(type, p, n)
<1>1. /\ n \in Nat /\ feed'[n + 1] = e
      /\ \A k \in 1 .. n : feed'[k] = feed[k]
  BY FeedGrows
<1>2. 1 .. n + 1 = (1 .. n) \cup {n + 1}
  BY <1>1
<1>3. Updates(type, p, n + 1)' =
        {j \in (1 .. n) \cup {n + 1} : feed'[j].type = type /\ feed'[j].price = p}
  BY <1>2 DEF Updates
<1>4. Updates(type, p, n) = {j \in 1 .. n : feed'[j].type = type /\ feed'[j].price = p}
  BY <1>1 DEF Updates
<1>5. QED
  BY <1>1, <1>3, <1>4

LEMMA MaxIs ==
  ASSUME NEW S \in SUBSET Nat, NEW m \in S, \A x \in S : m >= x
  PROVE  Max(S) = m
<1>1. \A i \in S : (\A j \in S : i >= j) => i = m
  OBVIOUS
<1>2. QED
  BY <1>1 DEF Max

\* A finite set of numbers that is not empty has a greatest one: that with the
\* fewest numbers above it.
LEMMA MaxExists ==
  ASSUME NEW S \in SUBSET Nat, IsFiniteSet(S), S # {}
  PROVE  Max(S) \in S /\ \A x \in S : Max(S) >= x
<1> DEFINE Beyond(m) == {x \in S : x > m}
           T == {Beyond(m) : m \in S}
<1>1. T \subseteq FiniteSubsetsOf(S) /\ T # {}
  <2>1. FiniteSubsetsOf(S) = SUBSET S
    BY FS_FiniteSubsetsOfFinite
  <2>2. T \subseteq SUBSET S
    OBVIOUS
  <2>3. PICK m \in S : TRUE
    OBVIOUS
  <2>4. Beyond(m) \in T
    OBVIOUS
  <2>5. QED
    BY <2>1, <2>2, <2>4
<1>2. PICK U \in T : \A V \in T : <<V, U>> \notin StrictSubsetOrdering(S)
  <2> HIDE DEF T
  <2>1. IsWellFoundedOn(StrictSubsetOrdering(S), FiniteSubsetsOf(S))
    BY FS_StrictSubsetOrderingWellFounded
  <2>2. QED
    BY <1>1, <2>1, WFMin
<1>3. PICK m \in S : U = Beyond(m)
  OBVIOUS
<1>4. ASSUME NEW x \in S, x > m PROVE FALSE
  <2>1. m \in Nat /\ x \in Nat
    OBVIOUS
  <2>2. Beyond(x) \subseteq Beyond(m) /\ x \in Beyond(m) /\ x \notin Beyond(x)
    <3>1. ~(x > x) /\ \A y \in S : y > x => y > m
      BY <1>4, <2>1
    <3>2. QED
      BY <1>4, <3>1
  <2>3. <<Beyond(x), Beyond(m)>> \in StrictSubsetOrdering(S)
    BY <2>2 DEF StrictSubsetOrdering
  <2>4. Beyond(x) \in T
    OBVIOUS
  <2>5. QED
    BY <1>2, <1>3, <2>3, <2>4
<1>5. \A x \in S : m >= x
  BY <1>4
<1>6. QED
  BY <1>5, MaxIs

LEMMA LastUpdateThere ==
  ASSUME feed \in Seq(Event), NEW type, NEW p, NEW k \in 0 .. Len(feed),
         Updates(type, p, k) # {}
  PROVE  Max(Updates(type, p, k)) \in 1 .. k
<1>1. Updates(type, p, k) \in SUBSET (1 .. k) /\ k \in Nat
  BY DEF Updates
<1>2. IsFiniteSet(1 .. k)
  BY <1>1, FS_Interval
<1>3. IsFiniteSet(Updates(type, p, k)) /\ Updates(type, p, k) \in SUBSET Nat
  BY <1>1, <1>2, FS_Subset
<1>4. Max(Updates(type, p, k)) \in Updates(type, p, k)
  BY <1>3, MaxExists
<1>5. QED
  BY <1>1, <1>4

LEMMA LevelsSame ==
  ASSUME feed \in Seq(Event), NEW e \in Event, feed' = Append(feed, e),
         NEW type, NEW n, n = Len(feed), NEW k \in 0 .. n
  PROVE  LevelsAfter(type, k)' = LevelsAfter(type, k)
<1>1. ASSUME NEW p
      PROVE  Updates(type, p, k)' = Updates(type, p, k)
  BY UpdatesKept
<1>2. ASSUME NEW p, Updates(type, p, k) # {}
      PROVE  LastUpdate(type, p, k)' = LastUpdate(type, p, k)
  <2> DEFINE m == Max(Updates(type, p, k))
  <2>1. Max(Updates(type, p, k))' = m
    BY <1>1 DEF Max
  <2>2. m \in 1 .. k
    BY <1>2, LastUpdateThere
  <2>3. feed'[m] = feed[m]
    BY <2>2, FeedGrows
  <2>4. QED
    BY <2>1, <2>3 DEF LastUpdate
<1>3. QED
  BY <1>1, <1>2 DEF LevelsAfter

LEMMA OtherEvent ==
  ASSUME feed \in Seq(Event), NEW e \in Event, feed' = Append(feed, e),
         NEW type, NEW n, n = Len(feed), e.type # type
  PROVE  LevelsAfter(type, n + 1)' = LevelsAfter(type, n)
<1>1. n \in Nat
  BY FeedGrows
<1>2. ASSUME NEW p
      PROVE  /\ Updates(type, p, n + 1)' = Updates(type, p, n)'
             /\ LastUpdate(type, p, n + 1)' = LastUpdate(type, p, n)'
  <2>1. Updates(type, p, n + 1)' = Updates(type, p, n)'
    <3>1. Updates(type, p, n)' = Updates(type, p, n)
      BY <1>1, UpdatesKept
    <3>2. Updates(type, p, n + 1)' = Updates(type, p, n)
      BY UpdatesGrow
    <3>3. QED
      BY <3>1, <3>2
  <2>2. Max(Updates(type, p, n + 1))' = Max(Updates(type, p, n))'
    BY <2>1 DEF Max
  <2>3. QED
    BY <2>1, <2>2 DEF LastUpdate
<1>3. LevelsAfter(type, n + 1)' = LevelsAfter(type, n)'
  BY <1>2 DEF LevelsAfter
<1>4. QED
  BY <1>1, <1>3, LevelsSame

LEMMA UpdateEvent ==
  ASSUME feed \in Seq(Event), NEW e \in Event, feed' = Append(feed, e),
         NEW type, NEW n, n = Len(feed), e.type = type, e.price \in Price
  PROVE  LevelsAfter(type, n + 1)' = Updated(LevelsAfter(type, n), e.price, e.quantity)
<1>1. n \in Nat /\ feed'[n + 1] = e
  BY FeedGrows
<1>2. ASSUME NEW p, p # e.price
      PROVE  /\ Updates(type, p, n + 1)' = Updates(type, p, n)'
             /\ LastUpdate(type, p, n + 1)' = LastUpdate(type, p, n)'
  <2>1. Updates(type, p, n + 1)' = Updates(type, p, n)'
    <3>1. Updates(type, p, n)' = Updates(type, p, n)
      BY <1>1, UpdatesKept
    <3>2. Updates(type, p, n + 1)' = Updates(type, p, n)
      BY <1>2, UpdatesGrow
    <3>3. QED
      BY <3>1, <3>2
  <2>2. Max(Updates(type, p, n + 1))' = Max(Updates(type, p, n))'
    BY <2>1 DEF Max
  <2>3. QED
    BY <2>1, <2>2 DEF LastUpdate
<1>3. /\ Updates(type, e.price, n + 1)' # {}
      /\ LastUpdate(type, e.price, n + 1)' = e.quantity
  <2> DEFINE S == Updates(type, e.price, n)
  <2>1. Updates(type, e.price, n + 1)' = S \cup {n + 1}
    BY UpdatesGrow
  <2>2. S \in SUBSET (1 .. n)
    BY DEF Updates
  <2> HIDE DEF S
  <2>3. /\ S \cup {n + 1} \in SUBSET Nat /\ n + 1 \in S \cup {n + 1}
        /\ \A x \in S \cup {n + 1} : n + 1 >= x
    <3>1. \A x \in S \cup {n + 1} : x \in Nat /\ n + 1 >= x
      BY <1>1, <2>2
    <3>2. QED
      BY <3>1
  <2>4. Max(S \cup {n + 1}) = n + 1
    BY <2>3, MaxIs
  <2>5. Max(Updates(type, e.price, n + 1))' = n + 1
    BY <2>1, <2>4 DEF Max
  <2>6. QED
    BY <1>1, <2>1, <2>5 DEF LastUpdate
<1>4. LevelsAfter(type, n)' = LevelsAfter(type, n)
  BY <1>1, LevelsSame
<1>5. LevelsAfter(type, n + 1)' = Updated(LevelsAfter(type, n)', e.price, e.quantity)
  <2> DEFINE Old == {p \in Price : Updates(type, p, n)' # {} /\ LastUpdate(type, p, n)' # 0}
             New == {p \in Price : Updates(type, p, n + 1)' # {} /\
                                   LastUpdate(type, p, n + 1)' # 0}
  <2>1. /\ LevelsAfter(type, n)' = [p \in Old |-> LastUpdate(type, p, n)']
        /\ LevelsAfter(type, n + 1)' = [p \in New |-> LastUpdate(type, p, n + 1)']
    BY DEF LevelsAfter
  <2>2. New = IF e.quantity = 0 THEN Old \ {e.price} ELSE Old \cup {e.price}
    BY <1>2, <1>3
  <2> HIDE DEF Old, New
  <2>3. \A p \in New : LastUpdate(type, p, n + 1)' =
                        IF p = e.price THEN e.quantity ELSE LastUpdate(type, p, n)'
    BY <1>2, <1>3
  <2>4. \A p \in New : p # e.price => p \in Old
    BY <2>2
  <2> DEFINE old == LevelsAfter(type, n)'
  <2>5. /\ DOMAIN old = Old
        /\ \A p \in New : LastUpdate(type, p, n + 1)' =
                          IF p = e.price THEN e.quantity ELSE old[p]
    BY <2>1, <2>3, <2>4
  <2>6. LevelsAfter(type, n + 1)' =
          [p \in New |-> IF p = e.price THEN e.quantity ELSE old[p]]
    BY <2>1, <2>5
  <2> HIDE DEF old
  <2>7. Updated(old, e.price, e.quantity) =
          [p \in New |-> IF p = e.price THEN e.quantity ELSE old[p]]
    BY <2>2, <2>5 DEF Updated
  <2>8. QED
    BY <2>6, <2>7 DEF old
<1>6. QED
  BY <1>4, <1>5

LEMMA BooksFollow ==
  ASSUME feed \in Seq(Event), BookIsLastUpdate, TradeNext
  PROVE  BookIsLastUpdate'
<1> DEFINE n == Len(feed)
<1>1. ASSUME NEW p \in Price, NEW q \in Quantity, Bid(p, q)
      PROVE  BookIsLastUpdate'
  <2> DEFINE e == [type |-> "BID", price |-> p, quantity |-> q]
  <2>1. e \in Event /\ e.type = "BID" /\ e.price = p /\ e.quantity = q
    BY DEF Event
  <2> HIDE DEF e
  <2>2. feed' = Append(feed, e) /\ bids' = Updated(bids, p, q) /\ asks' = asks
    BY <1>1 DEF Bid, Note, e
  <2>3. Len(feed') = n + 1
    BY <2>1, <2>2, FeedGrows
  <2>4. PICK k : k = n
    OBVIOUS
  <2>5. /\ LevelsAfter("BID", k + 1)' = Updated(LevelsAfter("BID", k), p, q)
        /\ LevelsAfter("ASK", k + 1)' = LevelsAfter("ASK", k)
    BY <2>1, <2>2, <2>4, OtherEvent, UpdateEvent
  <2>6. QED
    BY <2>2, <2>3, <2>4, <2>5 DEF BookIsLastUpdate
<1>2. ASSUME NEW p \in Price, NEW q \in Quantity, Ask(p, q)
      PROVE  BookIsLastUpdate'
  <2> DEFINE e == [type |-> "ASK", price |-> p, quantity |-> q]
  <2>1. e \in Event /\ e.type = "ASK" /\ e.price = p /\ e.quantity = q
    BY DEF Event
  <2> HIDE DEF e
  <2>2. feed' = Append(feed, e) /\ asks' = Updated(asks, p, q) /\ bids' = bids
    BY <1>2 DEF Ask, Note, e
  <2>3. Len(feed') = n + 1
    BY <2>1, <2>2, FeedGrows
  <2>4. PICK k : k = n
    OBVIOUS
  <2>5. /\ LevelsAfter("ASK", k + 1)' = Updated(LevelsAfter("ASK", k), p, q)
        /\ LevelsAfter("BID", k + 1)' = LevelsAfter("BID", k)
    BY <2>1, <2>2, <2>4, OtherEvent, UpdateEvent
  <2>6. QED
    BY <2>2, <2>3, <2>4, <2>5 DEF BookIsLastUpdate
<1>3. ASSUME NEW id \in OrderId, NEW q \in Filled, Execution(id, q)
      PROVE  BookIsLastUpdate'
  <2> DEFINE e == [type |-> "EXECUTION", order_id |-> id, quantity |-> q]
  <2>1. e \in Event /\ e.type = "EXECUTION"
    BY DEF Event
  <2> HIDE DEF e
  <2>2. feed' = Append(feed, e) /\ UNCHANGED <<bids, asks>>
    BY <1>3 DEF Execution, Note, e
  <2>3. Len(feed') = n + 1
    BY <2>1, <2>2, FeedGrows
  <2>4. PICK k : k = n
    OBVIOUS
  <2>5. \A type \in {"BID", "ASK"} :
          LevelsAfter(type, k + 1)' = LevelsAfter(type, k)
    BY <2>1, <2>2, <2>4, OtherEvent
  <2>6. QED
    BY <2>2, <2>3, <2>4, <2>5 DEF BookIsLastUpdate
<1>4. QED
  BY <1>1, <1>2, <1>3 DEF TradeNext

LEMMA TopsGrow ==
  ASSUME feed \in Seq(Event), NEW e \in Event, feed' = Append(feed, e),
         NEW n, n = Len(feed), BookIsLastUpdate'
  PROVE  /\ \A k \in 1 .. n : Tops'[k] = Tops[k]
         /\ Tops'[n + 1] = BestBid(bids')
<1>1. n \in Nat /\ Len(feed') = n + 1
  BY FeedGrows
<1>2. /\ Tops = [k \in 1 .. n |-> BestBid(LevelsAfter("BID", k))]
      /\ Tops' = [k \in 1 .. n + 1 |-> BestBid(LevelsAfter("BID", k)')]
  BY <1>1 DEF Tops, BestBid, Max
<1>3. \A k \in 1 .. n : LevelsAfter("BID", k)' = LevelsAfter("BID", k)
  BY <1>1, LevelsSame
<1>4. bids' = LevelsAfter("BID", n + 1)'
  BY <1>1 DEF BookIsLastUpdate
<1>5. n + 1 \in 1 .. n + 1 /\ \A k \in 1 .. n : k \in 1 .. n + 1
  BY <1>1
<1>6. QED
  BY <1>2, <1>3, <1>4, <1>5

\* The top after m events was sold at.
SoldAt(tops, m) == /\ Above(tops[m])
                   /\ \A j \in 1 .. m - 1 : tops[j] = tops[m] =>
                        \E i \in j .. m : Above(tops[i]) /\ tops[i] # tops[m]

LEMMA SalesKept ==
  ASSUME feed \in Seq(Event), NEW e \in Event, feed' = Append(feed, e),
         NEW n, n = Len(feed), BookIsLastUpdate', NEW k \in 0 .. n
  PROVE  Sales(k)' = Sales(k)
<1> DEFINE tops == Tops
<1>1. n \in Nat /\ \A j \in 1 .. n : Tops'[j] = tops[j]
  BY FeedGrows, TopsGrow
<1>2. Sales(k)' = {m \in 1 .. k : SoldAt(Tops', m)}
  BY DEF Sales, Above, SoldAt
<1>3. Sales(k) = {m \in 1 .. k : SoldAt(tops, m)}
  BY DEF Sales, SoldAt
<1> HIDE DEF tops
<1>4. \A m \in 1 .. k : /\ m \in 1 .. n
                       /\ \A j \in 1 .. m - 1 : j \in 1 .. n /\ \A i \in j .. m : i \in 1 .. n
  BY <1>1
<1>5. ASSUME NEW m \in 1 .. k PROVE SoldAt(Tops', m) <=> SoldAt(tops, m)
  <2>1. Tops'[m] = tops[m]
    BY <1>1, <1>4
  <2>2. ASSUME NEW j \in 1 .. m - 1
        PROVE  /\ Tops'[j] = tops[j]
               /\ \A i \in j .. m : Tops'[i] = tops[i]
    BY <1>1, <1>4
  <2>3. QED
    BY <2>1, <2>2 DEF SoldAt
<1>6. QED
  BY <1>2, <1>3, <1>5

\* The last event is a sale exactly if the strategy finds a price to sell at
\* that is not the one it remembers.
LEMMA SaleEvent ==
  ASSUME feed \in Seq(Event), NEW e \in Event, feed' = Append(feed, e),
         NEW n, n = Len(feed), BookIsLastUpdate', LastSold,
         NEW top, top = BestBid(bids')
  PROVE  /\ Above(top) /\ top # last_sell_price => Sales(n + 1)' = Sales(n) \cup {n + 1}
         /\ ~(Above(top) /\ top # last_sell_price) => Sales(n + 1)' = Sales(n)
<1> DEFINE tops == Tops'
           Good(m) == /\ Above(tops[m])
                      /\ \A j \in 1 .. m - 1 : tops[j] = tops[m] =>
                           \E i \in j .. m : Above(tops[i]) /\ tops[i] # tops[m]
<1>1. n \in Nat /\ tops[n + 1] = top
  BY FeedGrows, TopsGrow
<1>2. /\ Sales(n + 1)' = {m \in 1 .. n + 1 : Good(m)}
      /\ Sales(n)' = {m \in 1 .. n : Good(m)}
  BY DEF Sales, Above
<1>3. Sales(n)' = Sales(n)
  BY <1>1, SalesKept
<1>4. \/ last_sell_price = None /\ \A k \in 1 .. n : ~Above(tops[k])
      \/ \E k \in 1 .. n : /\ Above(tops[k]) /\ last_sell_price = tops[k]
                           /\ \A j \in k + 1 .. n : ~Above(tops[j])
  <2>1. \A k \in 1 .. n : Tops[k] = tops[k]
    BY TopsGrow
  <2>2. \A k \in 1 .. n : \A j \in k + 1 .. n : j \in 1 .. n
    BY <1>1
  <2> HIDE DEF tops
  <2>3. QED
    BY <2>1, <2>2 DEF LastSold
<1> HIDE DEF tops
<1>5. Good(n + 1) <=> Above(top) /\ top # last_sell_price
  <2>1. ASSUME Above(top), top # last_sell_price PROVE Good(n + 1)
    <3> SUFFICES ASSUME NEW j \in 1 .. n, tops[j] = top
                 PROVE  \E i \in j .. n + 1 : Above(tops[i]) /\ tops[i] # top
      BY <1>1, <2>1
    <3>1. PICK k \in 1 .. n : /\ Above(tops[k]) /\ last_sell_price = tops[k]
                             /\ \A i \in k + 1 .. n : ~Above(tops[i])
      BY <1>4, <2>1
    <3>2. j \notin k + 1 .. n
      BY <2>1, <3>1
    <3>3. k \in j .. n + 1
      BY <1>1, <3>2
    <3>4. QED
      BY <2>1, <3>1, <3>3
  <2>2. ASSUME Above(top), top = last_sell_price, Good(n + 1) PROVE FALSE
    <3>1. PICK k \in 1 .. n : /\ Above(tops[k]) /\ last_sell_price = tops[k]
                             /\ \A i \in k + 1 .. n : ~Above(tops[i])
      BY <1>4, <2>2 DEF Above
    <3>2. k \in 1 .. (n + 1) - 1 /\ tops[k] = tops[n + 1]
      BY <1>1, <2>2, <3>1
    <3>3. PICK i \in k .. n + 1 : Above(tops[i]) /\ tops[i] # top
      BY <1>1, <2>2, <3>2
    <3>4. i = k \/ i \in k + 1 .. n \/ i = n + 1
      BY <1>1
    <3>5. QED
      BY <1>1, <2>2, <3>1, <3>3, <3>4
  <2>3. QED
    BY <1>1, <2>1, <2>2
<1>6. 1 .. n + 1 = (1 .. n) \cup {n + 1}
  BY <1>1
<1> HIDE DEF Good
<1>7. Sales(n + 1)' = Sales(n) \cup {m \in {n + 1} : Good(m)}
  BY <1>2, <1>3, <1>6
<1>8. QED
  BY <1>5, <1>7

LEMMA SalesCounted ==
  ASSUME NEW n \in Nat
  PROVE  /\ IsFiniteSet(Sales(n)) /\ Cardinality(Sales(n)) \in Nat
         /\ \A k \in Sales(n) : k \in 1 .. n /\ PlacedBy(k) \in 1 .. Cardinality(Sales(n))
<1>1. Sales(n) \in SUBSET (1 .. n)
  BY DEF Sales
<1>2. IsFiniteSet(1 .. n)
  BY FS_Interval
<1>3. IsFiniteSet(Sales(n))
  BY <1>1, <1>2, FS_Subset
<1>4. Cardinality(Sales(n)) \in Nat
  BY <1>3, FS_CardinalityType
<1>5. ASSUME NEW k \in Sales(n)
      PROVE  k \in 1 .. n /\ PlacedBy(k) \in 1 .. Cardinality(Sales(n))
  <2>1. k \in 1 .. n /\ k \in Sales(k) /\ Sales(k) \in SUBSET Sales(n)
    BY <1>1 DEF Sales
  <2>2. IsFiniteSet(Sales(k)) /\ Cardinality(Sales(k)) <= Cardinality(Sales(n))
    BY <1>3, <2>1, FS_Subset
  <2>3. Cardinality(Sales(k)) \in Nat /\ Cardinality(Sales(k)) # 0
    BY <2>1, <2>2, FS_CardinalityType, FS_EmptySet
  <2>4. QED
    BY <1>4, <2>1, <2>2, <2>3 DEF PlacedBy
<1>6. QED
  BY <1>3, <1>4, <1>5

LEMMA UpdatedTypes ==
  ASSUME NEW levels \in Levels, NEW p \in Price, NEW q \in Quantity
  PROVE  /\ Updated(levels, p, q) \in Levels
         /\ IsFiniteSet(DOMAIN levels) => IsFiniteSet(DOMAIN Updated(levels, p, q))
<1> DEFINE D == IF q = 0 THEN DOMAIN levels \ {p} ELSE DOMAIN levels \cup {p}
<1>1. DOMAIN levels \in SUBSET Price /\ \A r \in DOMAIN levels : levels[r] \in Quantity \ {0}
  BY DEF Levels
<1>2. D \in SUBSET Price /\ \A r \in D : (IF r = p THEN q ELSE levels[r]) \in Quantity \ {0}
  BY <1>1
<1>3. IsFiniteSet(DOMAIN levels) => IsFiniteSet(D)
  BY FS_AddElement, FS_RemoveElement
<1> HIDE DEF D
<1>4. Updated(levels, p, q) = [r \in D |-> IF r = p THEN q ELSE levels[r]]
  BY DEF Updated, D
<1>5. Updated(levels, p, q) \in [D -> Quantity \ {0}]
  BY <1>2, <1>4
<1>6. QED
  BY <1>2, <1>3, <1>4, <1>5 DEF Levels

LEMMA BestBidType ==
  ASSUME NEW levels \in Levels, IsFiniteSet(DOMAIN levels)
  PROVE  BestBid(levels) \in Price \cup {None}
<1>1. DOMAIN levels \in SUBSET Price /\ DOMAIN levels \in SUBSET Nat
  BY FeedAssumption DEF Levels
<1>2. QED
  BY <1>1, MaxExists DEF BestBid

(***************************************************************************)
(* The inductive invariant of the simulation: its types, levels of which   *)
(* there are finitely many on the bid side, and the two facts about the    *)
(* feed.  LastSold, within SellsOncePerTop, is what makes the strategy's   *)
(* one variable stand for all the sales before.                            *)
(***************************************************************************)
TradeInv == /\ TradeTypeOK
            /\ IsFiniteSet(DOMAIN bids)
            /\ BookIsLastUpdate
            /\ SellsOncePerTop

\* The second half of the loop body, after any event
LEMMA StrategyStep ==
  ASSUME TradeInv, NEW e \in Event, feed' = Append(feed, e), BookIsLastUpdate',
         bids' \in Levels, IsFiniteSet(DOMAIN bids'),
         NEW placed \in Seq(MyOrder), Len(placed) = Len(orders),
         \A i \in 1 .. Len(orders) : placed[i].price = orders[i].price,
         NEW levels, levels = bids', Strategy(levels, placed)
  PROVE  /\ orders' \in Seq(MyOrder) /\ last_sell_price' \in Price \cup {None}
         /\ SellsOncePerTop'
<1> DEFINE top == BestBid(levels)
<1>1. PICK n : n = Len(feed)
  OBVIOUS
<1>2. /\ n \in Nat /\ Len(feed') = n + 1 /\ feed \in Seq(Event)
      /\ orders \in Seq(MyOrder) /\ Len(orders) \in Nat
  BY <1>1, FeedGrows DEF TradeInv, TradeTypeOK
<1>3. /\ \A k \in 1 .. n : Tops'[k] = Tops[k]
      /\ Tops'[n + 1] = top
  BY <1>1, <1>2, TopsGrow
<1>4. /\ Len(orders) = Cardinality(Sales(n))
      /\ \A k \in Sales(n) : orders[PlacedBy(k)].price = Tops[k]
      /\ LastSold
  BY <1>1 DEF TradeInv, SellsOncePerTop
<1>5. ASSUME NEW k \in 0 .. n
      PROVE  Sales(k)' = Sales(k) /\ PlacedBy(k)' = PlacedBy(k)
  <2>1. Sales(k)' = Sales(k)
    BY <1>1, <1>2, SalesKept
  <2>2. QED
    BY <2>1 DEF PlacedBy
<1>6. top \in Price \cup {None}
  BY BestBidType
<1>7. /\ IsFiniteSet(Sales(n)) /\ Cardinality(Sales(n)) \in Nat
      /\ \A k \in Sales(n) : k \in 1 .. n /\ PlacedBy(k) \in 1 .. Len(orders)
  BY <1>2, <1>4, SalesCounted
<1>8. /\ \/ last_sell_price = None /\ \A k \in 1 .. n : ~Above(Tops'[k])
         \/ \E k \in 1 .. n : /\ Above(Tops'[k]) /\ last_sell_price = Tops'[k]
                              /\ \A j \in k + 1 .. n : ~Above(Tops'[j])
      /\ \A k \in Sales(n) : placed[PlacedBy(k)].price = Tops'[k]
  <2>1. \A k \in 1 .. n : \A j \in k + 1 .. n : j \in 1 .. n
    BY <1>2
  <2>2. QED
    BY <1>1, <1>3, <1>4, <1>7, <2>1 DEF LastSold
<1>9. CASE Above(top) /\ top # last_sell_price
  <2> DEFINE o == NewOrder(top)
  <2>1. o \in MyOrder /\ o.price = top /\ top \in Price
    BY <1>6, <1>9 DEF NewOrder, MyOrder, Above
  <2>2. orders' = Append(placed, o) /\ last_sell_price' = top
    BY <1>9 DEF Strategy, Above
  <2> HIDE DEF o
  <2>3. /\ orders' \in Seq(MyOrder) /\ Len(orders') = Len(orders) + 1
        /\ orders'[Len(orders) + 1] = o
        /\ \A i \in 1 .. Len(orders) : orders'[i] = placed[i]
    <3> DEFINE T == MyOrder
    <3>1. placed \in Seq(T) /\ o \in T
      BY <2>1
    <3> HIDE DEF T
    <3>2. QED
      BY <2>2, <3>1 DEF T
  <2>4. Sales(n + 1)' = Sales(n) \cup {n + 1} /\ n + 1 \notin Sales(n)
    <3>1. n + 1 \notin Sales(n)
      BY <1>2, <1>7
    <3>2. QED
      BY <1>1, <1>2, <1>4, <1>9, <3>1, SaleEvent
  <2>5. Cardinality(Sales(n + 1)') = Len(orders) + 1
    BY <1>4, <1>7, <2>4, FS_AddElement
  <2>6. ASSUME NEW k \in Sales(n + 1)'
        PROVE  orders'[PlacedBy(k)'].price = Tops'[k]
    <3>1. CASE k = n + 1
      <4>1. PlacedBy(k)' = Len(orders) + 1
        BY <2>5, <3>1 DEF PlacedBy
      <4>2. QED
        BY <1>3, <2>1, <2>3, <3>1, <4>1
    <3>2. CASE k \in Sales(n)
      <4>1. k \in 1 .. n /\ PlacedBy(k) \in 1 .. Len(orders)
        BY <1>7, <3>2
      <4>2. PlacedBy(k)' = PlacedBy(k)
        BY <1>2, <1>5, <4>1
      <4>3. orders'[PlacedBy(k)'] = placed[PlacedBy(k)]
        BY <2>3, <4>1, <4>2
      <4>4. QED
        BY <1>8, <3>2, <4>3
    <3>3. QED
      BY <2>4, <3>1, <3>2
  <2>7. LastSold'
    <3>1. /\ n + 1 \in 1 .. n + 1 /\ Above(Tops'[n + 1]) /\ last_sell_price' = Tops'[n + 1]
          /\ \A j \in (n + 1) + 1 .. n + 1 : ~Above(Tops'[j])
      BY <1>2, <1>3, <1>9, <2>2
    <3>2. QED
      BY <1>2, <3>1 DEF LastSold, Above
  <2>8. SellsOncePerTop'
    BY <1>2, <2>3, <2>5, <2>6, <2>7 DEF SellsOncePerTop
  <2>9. QED
    BY <2>1, <2>2, <2>3, <2>8
<1>10. CASE ~(Above(top) /\ top # last_sell_price)
  <2>1. orders' = placed /\ last_sell_price' = last_sell_price
    BY <1>10 DEF Strategy, Above
  <2>2. Sales(n + 1)' = Sales(n)
    BY <1>1, <1>2, <1>4, <1>10, SaleEvent
  <2>3. Cardinality(Sales(n + 1)') = Len(orders)
    BY <1>4, <2>2
  <2>4. ASSUME NEW k \in Sales(n + 1)'
        PROVE  orders'[PlacedBy(k)'].price = Tops'[k]
    <3>1. k \in Sales(n) /\ k \in 1 .. n
      BY <1>7, <2>2
    <3>2. PlacedBy(k)' = PlacedBy(k)
      BY <1>2, <1>5, <3>1
    <3>3. QED
      BY <1>8, <2>1, <3>1, <3>2
  <2>5. LastSold'
    <3> DEFINE tops == Tops'
    <3>1. \/ last_sell_price = None /\ \A k \in 1 .. n + 1 : ~Above(tops[k])
          \/ \E k \in 1 .. n + 1 : /\ Above(tops[k]) /\ last_sell_price = tops[k]
                                   /\ \A j \in k + 1 .. n + 1 : ~Above(tops[j])
      <4>1. CASE Above(top)
        <5>1. /\ n + 1 \in 1 .. n + 1 /\ Above(tops[n + 1]) /\ last_sell_price = tops[n + 1]
              /\ \A j \in (n + 1) + 1 .. n + 1 : ~Above(tops[j])
          BY <1>2, <1>3, <1>10, <4>1
        <5>2. QED
          BY <5>1
      <4>2. CASE ~Above(top)
        <5>1. \A k \in Nat : \A j \in k + 1 .. n + 1 : j \in k + 1 .. n \/ j = n + 1
          BY <1>2
        <5>2. \A j \in 1 .. n + 1 : j \in 1 .. n \/ j = n + 1
          BY <1>2
        <5>3. \A k \in 1 .. n : k \in 1 .. n + 1 /\ k \in Nat
          BY <1>2
        <5> HIDE DEF tops
        <5>4. QED
          BY <1>3, <1>8, <4>2, <5>1, <5>2, <5>3 DEF tops
      <4>3. QED
        BY <4>1, <4>2
    <3>2. QED
      BY <1>2, <2>1, <3>1 DEF LastSold, Above
  <2>6. SellsOncePerTop'
    BY <1>2, <2>1, <2>3, <2>4, <2>5 DEF SellsOncePerTop
  <2>7. QED
    BY <2>1, <2>6 DEF TradeInv, TradeTypeOK
<1>11. QED
  BY <1>9, <1>10

LEMMA MarketEvent ==
  ASSUME TradeInv, NEW p \in Price, NEW q \in Quantity, Bid(p, q) \/ Ask(p, q)
  PROVE  TradeInv'
<1>1. PICK e \in Event : feed' = Append(feed, e) /\ Len(feed) < MaxEvents
  <2>1. \A type \in {"BID", "ASK"} : [type |-> type, price |-> p, quantity |-> q] \in Event
    BY DEF Event
  <2>2. QED
    BY <2>1 DEF Bid, Ask, Note
<1>2. /\ bids' = Updated(bids, p, q) \/ bids' = bids
      /\ asks' = Updated(asks, p, q) \/ asks' = asks
  BY DEF Bid, Ask
<1>3. PICK levels : levels = bids' /\ Strategy(levels, orders)
  BY DEF Bid, Ask
<1>4. /\ feed \in Seq(Event) /\ Len(feed) \in Nat /\ orders \in Seq(MyOrder)
      /\ bids \in Levels /\ asks \in Levels /\ IsFiniteSet(DOMAIN bids)
  BY DEF TradeInv, TradeTypeOK
<1>5. /\ bids' \in Levels /\ IsFiniteSet(DOMAIN bids')
      /\ asks' \in Levels
  <2>1. bids' \in Levels /\ asks' \in Levels
    BY <1>2, <1>4, UpdatedTypes
  <2>2. IsFiniteSet(DOMAIN bids')
    BY <1>2, <1>4, UpdatedTypes
  <2>3. QED
    BY <2>1, <2>2
<1>6. feed' \in Seq(Event) /\ Len(feed') = Len(feed) + 1
  BY <1>1, <1>4, FeedGrows
<1>7. BookIsLastUpdate'
  BY <1>4, BooksFollow DEF TradeInv, TradeNext
<1>8. /\ orders' \in Seq(MyOrder) /\ last_sell_price' \in Price \cup {None}
      /\ SellsOncePerTop'
  BY <1>1, <1>3, <1>4, <1>5, <1>7, StrategyStep
<1>9. Len(feed') <= MaxEvents
  BY <1>1, <1>4, <1>6, FeedAssumption
<1>10. QED
  BY <1>5, <1>6, <1>7, <1>8, <1>9 DEF TradeInv, TradeTypeOK

LEMMA FilledByType ==
  ASSUME NEW o \in MyOrder, NEW q \in Filled
  PROVE  FilledBy(o, q) \in MyOrder /\ FilledBy(o, q).price = o.price
<1> DEFINE f  == o.filled + q
           st == IF o.filled + q >= o.quantity THEN "Filled" ELSE "PartiallyFilled"
<1>1. f \in Nat /\ st \in {"New", "PartiallyFilled", "Filled"}
  BY FeedAssumption DEF MyOrder
<1>2. FilledBy(o, q) = [o EXCEPT !.filled = f, !.status = st]
  BY DEF FilledBy
<1> HIDE DEF f, st
<1>3. QED
  BY <1>1, <1>2 DEF MyOrder

LEMMA ExecutionEvent ==
  ASSUME TradeInv, NEW id \in OrderId, NEW q \in Filled, Execution(id, q)
  PROVE  TradeInv'
<1> DEFINE e == [type |-> "EXECUTION", order_id |-> id, quantity |-> q]
           placed == IF id \in DOMAIN orders
                       THEN [orders EXCEPT ![id] = FilledBy(@, q)] ELSE orders
<1>1. e \in Event
  BY DEF Event
<1> HIDE DEF e
<1>2. /\ feed' = Append(feed, e) /\ Len(feed) < MaxEvents
      /\ bids' = bids /\ asks' = asks /\ Strategy(bids, placed)
  BY DEF Execution, Note, e
<1>3. /\ placed \in Seq(MyOrder) /\ Len(placed) = Len(orders)
      /\ \A i \in 1 .. Len(orders) : placed[i].price = orders[i].price
  <2>1. orders \in Seq(MyOrder)
    BY DEF TradeInv, TradeTypeOK
  <2>2. CASE id \in DOMAIN orders
    <3> DEFINE o == FilledBy(orders[id], q)
    <3>1. orders[id] \in MyOrder
      BY <2>1, <2>2
    <3>2. o \in MyOrder /\ o.price = orders[id].price
      BY <3>1, FilledByType
    <3>3. placed = [orders EXCEPT ![id] = o]
      BY <2>2
    <3> DEFINE T == MyOrder
    <3> HIDE DEF T, o, placed
    <3>4. o \in T /\ orders \in Seq(T)
      BY <2>1, <3>2 DEF T
    <3>5. /\ placed \in Seq(T) /\ Len(placed) = Len(orders)
          /\ \A i \in 1 .. Len(orders) : placed[i] = IF i = id THEN o ELSE orders[i]
      BY <2>2, <3>3, <3>4
    <3>6. QED
      BY <3>2, <3>5 DEF T
  <2>3. CASE id \notin DOMAIN orders
    BY <2>1, <2>3
  <2>4. QED
    BY <2>2, <2>3
<1> HIDE DEF placed
<1>4. /\ feed \in Seq(Event) /\ Len(feed) \in Nat
      /\ bids' \in Levels /\ asks' \in Levels /\ IsFiniteSet(DOMAIN bids')
  BY <1>2 DEF TradeInv, TradeTypeOK
<1>5. feed' \in Seq(Event) /\ Len(feed') = Len(feed) + 1
  BY <1>1, <1>2, <1>4, FeedGrows
<1>6. BookIsLastUpdate'
  BY <1>4, BooksFollow DEF TradeInv, TradeNext
<1>7. /\ orders' \in Seq(MyOrder) /\ last_sell_price' \in Price \cup {None}
      /\ SellsOncePerTop'
  BY <1>1, <1>2, <1>3, <1>4, <1>6, StrategyStep
<1>8. Len(feed') <= MaxEvents
  BY <1>2, <1>4, <1>5, FeedAssumption
<1>9. QED
  BY <1>4, <1>5, <1>6, <1>7, <1>8 DEF TradeInv, TradeTypeOK

LEMMA TopsStutter ==
  ASSUME UNCHANGED tradeVars
  PROVE  /\ \A type, k : LevelsAfter(type, k)' = LevelsAfter(type, k)
         /\ Tops' = Tops
<1>1. feed' = feed
  BY DEF tradeVars
<1>2. ASSUME NEW type, NEW k
      PROVE  LevelsAfter(type, k)' = LevelsAfter(type, k)
  <2>1. ASSUME NEW p
        PROVE  /\ Updates(type, p, k)' = Updates(type, p, k)
               /\ LastUpdate(type, p, k)' = LastUpdate(type, p, k)
    <3>1. Updates(type, p, k)' = Updates(type, p, k)
      BY <1>1 DEF Updates
    <3>2. Max(Updates(type, p, k))' = Max(Updates(type, p, k))
      BY <3>1 DEF Max
    <3>3. QED
      BY <1>1, <3>1, <3>2 DEF LastUpdate
  <2>2. QED
    BY <2>1 DEF LevelsAfter
<1>3. Tops' = Tops
  <2>1. /\ Tops = [k \in 1 .. Len(feed) |-> BestBid(LevelsAfter("BID", k))]
        /\ Tops' = [k \in 1 .. Len(feed) |-> BestBid(LevelsAfter("BID", k)')]
    BY <1>1 DEF Tops, BestBid, Max
  <2>2. QED
    BY <1>2, <2>1
<1>4. QED
  BY <1>2, <1>3

LEMMA TradeStutter ==
  ASSUME TradeInv, UNCHANGED tradeVars
  PROVE  TradeInv'
<1>1. /\ bids' = bids /\ asks' = asks /\ orders' = orders /\ feed' = feed
      /\ last_sell_price' = last_sell_price
  BY DEF tradeVars
<1>2. Tops' = Tops /\ \A type, k : LevelsAfter(type, k)' = LevelsAfter(type, k)
  BY TopsStutter
<1>3. BookIsLastUpdate'
  BY <1>1, <1>2 DEF TradeInv, BookIsLastUpdate
<1>4. ASSUME NEW k
      PROVE  Sales(k)' = Sales(k) /\ PlacedBy(k)' = PlacedBy(k)
  <2>1. Sales(k)' = Sales(k)
    BY <1>2 DEF Sales, Above
  <2>2. QED
    BY <2>1 DEF PlacedBy
<1>5. LastSold'
  BY <1>1, <1>2 DEF TradeInv, SellsOncePerTop, LastSold, Above
<1>6. SellsOncePerTop'
  BY <1>1, <1>2, <1>4, <1>5 DEF TradeInv, SellsOncePerTop
<1>7. QED
  BY <1>1, <1>3, <1>6 DEF TradeInv, TradeTypeOK

(***************************************************************************)
(* The whole inductive invariant of the simulation, for every feed of any  *)
(* prices, quantities and ids, however long.                               *)
(***************************************************************************)
THEOREM TradeInvHolds == TradeSpec => []TradeInv
<1>1. TradeInit => TradeInv
  <2> SUFFICES ASSUME TradeInit PROVE TradeInv
    OBVIOUS
  <2>1. /\ bids = << >> /\ asks = << >> /\ orders = << >> /\ feed = << >>
        /\ last_sell_price = None /\ Len(feed) = 0
    BY DEF TradeInit
  <2>2. DOMAIN bids = {} /\ bids \in Levels /\ asks \in Levels
    <3>1. << >> \in [{} -> Quantity \ {0}] /\ {} \in SUBSET Price /\ DOMAIN << >> = {}
      OBVIOUS
    <3>2. QED
      BY <2>1, <3>1 DEF Levels
  <2>3. TradeTypeOK
    <3>1. << >> \in Seq(MyOrder) /\ << >> \in Seq(Event)
      OBVIOUS
    <3>2. QED
      BY <2>1, <2>2, <3>1, FeedAssumption DEF TradeTypeOK
  <2>4. IsFiniteSet(DOMAIN bids)
    BY <2>2, FS_EmptySet
  <2>5. BookIsLastUpdate
    <3>1. ASSUME NEW type PROVE LevelsAfter(type, 0) = << >>
      <4>1. \A p : Updates(type, p, 0) = {}
        BY DEF Updates
      <4>2. {p \in Price : Updates(type, p, 0) # {} /\ LastUpdate(type, p, 0) # 0} = {}
        BY <4>1
      <4>3. LevelsAfter(type, 0) = [p \in {} |-> LastUpdate(type, p, 0)]
        BY <4>2 DEF LevelsAfter
      <4>4. QED
        BY <4>3
    <3>2. QED
      BY <2>1, <3>1 DEF BookIsLastUpdate
  <2>6. SellsOncePerTop
    <3>1. Sales(Len(feed)) = {} /\ 1 .. Len(feed) = {}
      BY <2>1 DEF Sales
    <3>2. Cardinality(Sales(Len(feed))) = 0
      BY <3>1, FS_EmptySet
    <3>3. QED
      BY <2>1, <3>1, <3>2 DEF SellsOncePerTop, LastSold
  <2>7. QED
    BY <2>3, <2>4, <2>5, <2>6 DEF TradeInv
<1>2. TradeInv /\ [TradeNext]_tradeVars => TradeInv'
  <2> SUFFICES ASSUME TradeInv, [TradeNext]_tradeVars PROVE TradeInv'
    OBVIOUS
  <2>1. CASE UNCHANGED tradeVars
    BY <2>1, TradeStutter
  <2>2. QED
    BY <2>1, MarketEvent, ExecutionEvent DEF TradeNext
<1>3. QED
  BY <1>1, <1>2, PTL DEF TradeSpec

(***************************************************************************)
(* The snapshot of Phase_3 is what the feed said last of each price, on    *)
(* both sides.                                                             *)
(***************************************************************************)
THEOREM SnapshotFollows == TradeSpec => []BookIsLastUpdate
<1>1. TradeInv => BookIsLastUpdate
  BY DEF TradeInv
<1>2. QED
  BY <1>1, TradeInvHolds, PTL

(***************************************************************************)
(* The strategy of Phase_3 sells exactly once for every change of the best *)
(* bid to another price above the threshold.                               *)
(***************************************************************************)
THEOREM SellsOnce == TradeSpec => []SellsOncePerTop
<1>1. TradeInv => SellsOncePerTop
  BY DEF TradeInv
<1>2. QED
  BY <1>1, TradeInvHolds, PTL
-----------------------------------------------------------------------------
(***************************************************************************)
(* What is inductive about the fills: every order was placed by a sale     *)
(* that the feed shows, which makes the reports of a new order none, and   *)
(* what was reported of an order is finite, so that a report adds to it.   *)
(***************************************************************************)
FillsCounted ==
  /\ \A id \in DOMAIN orders : \E j \in Sales(Len(feed)) : PlacedBy(j) = id
  /\ \A id \in DOMAIN orders : IsFiniteSet(UnitsReported(id))
  /\ FillsAccounted

LEMMA ReportsGrow ==
  ASSUME feed \in Seq(Event), NEW e \in Event, feed' = Append(feed, e),
         NEW n, n = Len(feed), BookIsLastUpdate', NEW id
  PROVE  Reports(id)' = Reports(id) \cup
           {k \in {n + 1} : /\ e.type = "EXECUTION" /\ e.order_id = id
                           /\ \E j \in Sales(n) : PlacedBy(j) = id}
<1>1. /\ n \in Nat /\ Len(feed') = n + 1 /\ feed'[n + 1] = e
      /\ \A k \in 1 .. n : feed'[k] = feed[k]
  BY FeedGrows
<1>2. ASSUME NEW k \in 0 .. n
      PROVE  Sales(k)' = Sales(k) /\ PlacedBy(k)' = PlacedBy(k)
  <2>1. Sales(k)' = Sales(k)
    BY SalesKept
  <2>2. QED
    BY <2>1 DEF PlacedBy
<1>3. ASSUME NEW k \in 0 .. n
      PROVE  (\E j \in Sales(k)' : PlacedBy(j)' = id) <=> \E j \in Sales(k) : PlacedBy(j) = id
  <2>1. Sales(k) \subseteq 0 .. n
    BY <1>1 DEF Sales
  <2>2. QED
    BY <1>2, <2>1
<1> DEFINE Placed(k) == \E j \in Sales(k) : PlacedBy(j) = id
           Names(f, k) == f[k].type = "EXECUTION" /\ f[k].order_id = id
<1>4. /\ Reports(id) = {k \in 1 .. n : Names(feed, k) /\ Placed(k - 1)}
      /\ Reports(id)' = {k \in 1 .. n + 1 :
                            Names(feed', k) /\ \E j \in Sales(k - 1)' : PlacedBy(j)' = id}
  BY <1>1 DEF Reports
<1>5. \A k \in 1 .. n + 1 : k - 1 \in 0 .. n
  BY <1>1
<1>6. Reports(id)' = {k \in 1 .. n + 1 : Names(feed', k) /\ Placed(k - 1)}
  BY <1>3, <1>4, <1>5
<1>7. \A k \in 1 .. n : Names(feed', k) <=> Names(feed, k)
  BY <1>1
<1>8. /\ 1 .. n + 1 = (1 .. n) \cup {n + 1} /\ (n + 1) - 1 = n
  BY <1>1
<1>9. Names(feed', n + 1) <=> e.type = "EXECUTION" /\ e.order_id = id
  BY <1>1
<1> HIDE DEF Placed, Names
<1>10. Reports(id)' = Reports(id) \cup {k \in {n + 1} : Names(feed', k) /\ Placed(k - 1)}
  BY <1>4, <1>6, <1>7, <1>8
<1>11. {k \in {n + 1} : Names(feed', k) /\ Placed(k - 1)}
         = {k \in {n + 1} : e.type = "EXECUTION" /\ e.order_id = id /\ Placed(n)}
  BY <1>8, <1>9
<1>12. QED
  BY <1>10, <1>11 DEF Placed

\* An order that no sale has placed has no reports.
LEMMA NoReportsYet ==
  ASSUME feed \in Seq(Event), NEW e \in Event, feed' = Append(feed, e), BookIsLastUpdate',
         NEW n, n = Len(feed), NEW id, id > Cardinality(Sales(n))
  PROVE  Reports(id)' = {}
<1>1. n \in Nat
  BY FeedGrows
<1>2. ASSUME NEW k \in 0 .. n, NEW j \in Sales(k) PROVE PlacedBy(j) # id
  <2>1. j \in Sales(n)
    BY <1>1 DEF Sales
  <2>2. PlacedBy(j) \in 1 .. Cardinality(Sales(n)) /\ Cardinality(Sales(n)) \in Nat
    BY <1>1, <2>1, SalesCounted
  <2>3. QED
    BY <2>2
<1>3. Reports(id) = {}
  <2>1. \A k \in 1 .. n : k - 1 \in 0 .. n
    BY <1>1
  <2>2. QED
    BY <1>2, <2>1 DEF Reports
<1>4. n \in 0 .. n
  BY <1>1
<1>5. QED
  BY <1>2, <1>3, <1>4, ReportsGrow

\* The units of the reports up to the last one, and those it adds
LEMMA UnitsGrow ==
  ASSUME feed \in Seq(Event), NEW e \in Event, feed' = Append(feed, e),
         NEW n, n = Len(feed), NEW id, e.quantity \in Nat, IsFiniteSet(UnitsReported(id))
  PROVE  /\ Cardinality(UnitsReported(id)) \in Nat
         /\ Reports(id)' = Reports(id) =>
              /\ IsFiniteSet(UnitsReported(id)')
              /\ Cardinality(UnitsReported(id)') = Cardinality(UnitsReported(id))
         /\ Reports(id)' = Reports(id) \cup {n + 1} =>
              /\ IsFiniteSet(UnitsReported(id)')
              /\ Cardinality(UnitsReported(id)')
                   = Cardinality(UnitsReported(id)) + e.quantity
<1> DEFINE u   == UnitsReported(id)
           q   == e.quantity
           new == {n + 1} \X (1 .. q)
<1>1. /\ n \in Nat /\ feed'[n + 1] = e
      /\ \A k \in Reports(id) : feed'[k] = feed[k] /\ k # n + 1
  BY FeedGrows DEF Reports
<1>2. Cardinality(u) \in Nat /\ q \in Nat
  BY FS_CardinalityType
<1>3. CASE Reports(id)' = Reports(id)
  <2>1. UnitsReported(id)' = u
    BY <1>1, <1>3 DEF UnitsReported
  <2>2. Reports(id) # Reports(id) \cup {n + 1}
    BY <1>1
  <2>3. QED
    BY <1>2, <1>3, <2>1, <2>2
<1>4. CASE Reports(id)' = Reports(id) \cup {n + 1}
  <2>1. UnitsReported(id)' = u \cup new /\ u \cap new = {}
    <3> DEFINE R == Reports(id)
               U(f, k) == {k} \X (1 .. f[k].quantity)
    <3>1. /\ UnitsReported(id)' = UNION {U(feed', k) : k \in R \cup {n + 1}}
          /\ u = UNION {U(feed, k) : k \in R}
      BY <1>4 DEF UnitsReported
    <3>2. \A k \in R : U(feed', k) = U(feed, k)
      BY <1>1
    <3>3. U(feed', n + 1) = new
      BY <1>1
    <3>4. n + 1 \notin R
      BY <1>1
    <3>5. u \cap new = {}
      BY <3>1, <3>4
    <3> HIDE DEF R, U, u, new
    <3>6. QED
      BY <3>1, <3>2, <3>3, <3>5
  <2>2. Reports(id) # Reports(id) \cup {n + 1}
    BY <1>1
  <2>3. IsFiniteSet(new) /\ Cardinality(new) = q
    <3> HIDE DEF q
    <3>1. IsFiniteSet(1 .. q) /\ Cardinality(1 .. q) = q
      <4>1. 1 \in Int /\ q \in Int /\ (1 > q <=> q = 0) /\ q - 1 + 1 = q
        BY <1>2
      <4>2. /\ IsFiniteSet(1 .. q)
            /\ Cardinality(1 .. q) = IF 1 > q THEN 0 ELSE q - 1 + 1
        BY <4>1, FS_Interval
      <4>3. QED
        BY <4>1, <4>2
    <3>2. IsFiniteSet({n + 1}) /\ Cardinality({n + 1}) = 1
      BY FS_Singleton
    <3>3. /\ IsFiniteSet({n + 1} \X (1 .. q))
          /\ Cardinality({n + 1} \X (1 .. q)) = Cardinality({n + 1}) * Cardinality(1 .. q)
      BY <3>1, <3>2, FS_Product
    <3>4. QED
      BY <1>2, <3>1, <3>2, <3>3
  <2>4. IsFiniteSet(u)
    OBVIOUS
  <2> HIDE DEF u, new, q
  <2>5. /\ IsFiniteSet(u \cup new)
        /\ Cardinality(u \cup new) = Cardinality(u) + Cardinality(new) - Cardinality({})
    BY <2>1, <2>3, <2>4, FS_Union
  <2>6. Cardinality({}) = 0
    BY FS_EmptySet
  <2>7. Cardinality(u \cup new) = Cardinality(u) + q
    BY <1>2, <2>3, <2>5, <2>6
  <2>8. QED
    BY <1>2, <1>4, <2>1, <2>2, <2>5, <2>7 DEF u, q
<1>5. CASE ~(Reports(id)' = Reports(id)) /\ ~(Reports(id)' = Reports(id) \cup {n + 1})
  BY <1>2, <1>5
<1>6. QED
  BY <1>3, <1>4, <1>5

\* The status that goes with what was reported
StatusOf(filled, reports) == IF reports = {} THEN "New"
                             ELSE IF filled >= Lot THEN "Filled" ELSE "PartiallyFilled"

LEMMA StrategyCounts ==
  ASSUME TradeInv, TradeInv', FillsCounted, NEW e \in Event, feed' = Append(feed, e),
         NEW placed \in Seq(MyOrder), Len(placed) = Len(orders),
         \A id \in DOMAIN orders :
           /\ IsFiniteSet(UnitsReported(id)')
           /\ placed[id].filled = Cardinality(UnitsReported(id)')
           /\ placed[id].status = StatusOf(placed[id].filled, Reports(id)'),
         NEW levels, levels = bids', Strategy(levels, placed)
  PROVE  FillsCounted'
<1> DEFINE top == BestBid(levels)
           l   == Len(orders)
<1>1. PICK n : n = Len(feed)
  OBVIOUS
<1>2. /\ n \in Nat /\ Len(feed') = n + 1 /\ feed \in Seq(Event)
      /\ DOMAIN orders = 1 .. l /\ l \in Nat /\ DOMAIN placed = 1 .. l
      /\ BookIsLastUpdate' /\ LastSold
  BY <1>1, FeedGrows DEF TradeInv, TradeTypeOK, SellsOncePerTop
<1>3. l = Cardinality(Sales(n)) /\ Len(orders') = Cardinality(Sales(n + 1)')
  BY <1>1, <1>2 DEF TradeInv, SellsOncePerTop
<1>4. /\ Sales(n) \subseteq Sales(n + 1)'
      /\ Above(top) /\ top # last_sell_price => n + 1 \in Sales(n + 1)'
  BY <1>1, <1>2, SaleEvent
<1>5. ASSUME NEW id \in 1 .. l PROVE \E j \in Sales(n + 1)' : PlacedBy(j)' = id
  <2>1. PICK j \in Sales(n) : PlacedBy(j) = id
    BY <1>1, <1>2 DEF FillsCounted
  <2>2. j \in 0 .. n
    BY <1>2, <2>1 DEF Sales
  <2>3. PlacedBy(j)' = PlacedBy(j)
    <3>1. Sales(j)' = Sales(j)
      BY <1>1, <1>2, <2>2, SalesKept
    <3>2. QED
      BY <3>1 DEF PlacedBy
  <2>4. QED
    BY <1>4, <2>1, <2>3
<1>6. CASE Above(top) /\ top # last_sell_price
  <2> DEFINE o == NewOrder(top)
  <2>1. orders' = Append(placed, o)
    BY <1>6 DEF Strategy, Above
  <2>2. o.filled = 0 /\ o.status = "New"
    BY DEF NewOrder
  <2> HIDE DEF o
  <2>3. /\ DOMAIN orders' = 1 .. l + 1 /\ Len(orders') = l + 1
        /\ orders'[l + 1] = o
        /\ \A id \in 1 .. l : orders'[id] = placed[id]
    BY <1>2, <2>1
  <2>4. PICK m : m = l + 1
    OBVIOUS
  <2>5. Reports(m)' = {} /\ UnitsReported(m)' = {}
    <3>1. m > Cardinality(Sales(n))
      BY <1>2, <1>3, <2>4
    <3>2. Reports(m)' = {}
      BY <1>1, <1>2, <3>1, NoReportsYet
    <3>3. QED
      BY <3>2 DEF UnitsReported
  <2>6. IsFiniteSet({}) /\ Cardinality({}) = 0
    BY FS_EmptySet
  <2>7. n + 1 \in Sales(n + 1)' /\ PlacedBy(n + 1)' = m
    BY <1>3, <1>4, <1>6, <2>3, <2>4 DEF PlacedBy
  <2>8. \A id \in 1 .. l + 1 : id \in 1 .. l \/ id = m
    BY <1>2, <2>4
  <2>9. \A id \in DOMAIN orders' : \E j \in Sales(n + 1)' : PlacedBy(j)' = id
    BY <1>5, <2>3, <2>7, <2>8
  <2>10. ASSUME NEW id \in DOMAIN orders'
         PROVE  /\ IsFiniteSet(UnitsReported(id)')
                /\ orders'[id].filled = Cardinality(UnitsReported(id)')
                /\ orders'[id].status = StatusOf(orders'[id].filled, Reports(id)')
    <3>1. CASE id \in 1 .. l
      BY <1>2, <2>3, <3>1
    <3>2. CASE id = m
      <4>1. Reports(id)' = {} /\ UnitsReported(id)' = {} /\ orders'[id] = o
        BY <2>3, <2>4, <2>5, <3>2
      <4>2. QED
        BY <2>2, <2>6, <4>1 DEF StatusOf
    <3>3. QED
      BY <2>3, <2>8, <3>1, <3>2
  <2>11. QED
    BY <1>2, <2>9, <2>10 DEF FillsCounted, FillsAccounted, StatusOf
<1>7. CASE ~(Above(top) /\ top # last_sell_price)
  <2>1. orders' = placed
    BY <1>7 DEF Strategy, Above
  <2>2. \A id \in DOMAIN orders' : \E j \in Sales(n + 1)' : PlacedBy(j)' = id
    BY <1>2, <1>5, <2>1
  <2>3. QED
    BY <1>2, <2>1, <2>2 DEF FillsCounted, FillsAccounted, StatusOf
<1>8. QED
  BY <1>6, <1>7

LEMMA MarketCounts ==
  ASSUME TradeInv, TradeInv', FillsCounted, NEW p \in Price, NEW q \in Quantity,
         Bid(p, q) \/ Ask(p, q)
  PROVE  FillsCounted'
<1>1. PICK e \in Event : /\ feed' = Append(feed, e)
                         /\ e.type # "EXECUTION" /\ e.quantity \in Nat
  <2>1. \A type \in {"BID", "ASK"} :
          LET e == [type |-> type, price |-> p, quantity |-> q]
          IN  e \in Event /\ e.type # "EXECUTION" /\ e.quantity \in Nat
    BY FeedAssumption DEF Event
  <2>2. QED
    BY <2>1 DEF Bid, Ask, Note
<1>2. PICK levels : levels = bids' /\ Strategy(levels, orders)
  BY DEF Bid, Ask
<1>3. feed \in Seq(Event) /\ orders \in Seq(MyOrder) /\ BookIsLastUpdate'
  BY DEF TradeInv, TradeTypeOK
<1>4. ASSUME NEW id PROVE Reports(id)' = Reports(id)
  <2>1. PICK n : n = Len(feed)
    OBVIOUS
  <2> DEFINE new == {k \in {n + 1} : /\ e.type = "EXECUTION" /\ e.order_id = id
                                     /\ \E j \in Sales(n) : PlacedBy(j) = id}
  <2>2. new = {}
    BY <1>1
  <2>3. Reports(id)' = Reports(id) \cup new
    BY <1>1, <1>3, <2>1, ReportsGrow
  <2> HIDE DEF new
  <2>4. QED
    BY <2>2, <2>3
<1>5. ASSUME NEW id \in DOMAIN orders
      PROVE  /\ IsFiniteSet(UnitsReported(id)')
             /\ orders[id].filled = Cardinality(UnitsReported(id)')
             /\ orders[id].status = StatusOf(orders[id].filled, Reports(id)')
  <2>1. /\ IsFiniteSet(UnitsReported(id))
        /\ orders[id].filled = Cardinality(UnitsReported(id))
        /\ orders[id].status = StatusOf(orders[id].filled, Reports(id))
    BY DEF FillsCounted, FillsAccounted, StatusOf
  <2>2. /\ IsFiniteSet(UnitsReported(id)')
        /\ Cardinality(UnitsReported(id)') = Cardinality(UnitsReported(id))
    BY <1>1, <1>3, <1>4, <2>1, UnitsGrow
  <2>3. QED
    BY <1>4, <2>1, <2>2
<1>6. QED
  BY <1>1, <1>2, <1>3, <1>5, StrategyCounts

LEMMA FilledByFills ==
  ASSUME NEW o \in MyOrder, NEW q \in Nat
  PROVE  /\ FilledBy(o, q).filled = o.filled + q
         /\ FilledBy(o, q).status = IF o.filled + q >= Lot THEN "Filled"
                                    ELSE "PartiallyFilled"
<1> DEFINE f  == o.filled + q
           st == IF o.filled + q >= Lot THEN "Filled" ELSE "PartiallyFilled"
<1>1. o.quantity = Lot
  BY DEF MyOrder
<1>2. FilledBy(o, q) = [o EXCEPT !.filled = f, !.status = st]
  BY <1>1 DEF FilledBy
<1> HIDE DEF f, st
<1>3. FilledBy(o, q).filled = f /\ FilledBy(o, q).status = st
  BY <1>2 DEF MyOrder
<1>4. QED
  BY <1>3 DEF f, st

LEMMA ExecutionCounts ==
  ASSUME TradeInv, TradeInv', FillsCounted, NEW id \in OrderId, NEW q \in Filled,
         Execution(id, q)
  PROVE  FillsCounted'
<1> DEFINE e == [type |-> "EXECUTION", order_id |-> id, quantity |-> q]
           placed == IF id \in DOMAIN orders
                       THEN [orders EXCEPT ![id] = FilledBy(orders[id], q)] ELSE orders
<1>1. /\ e \in Event /\ e.type = "EXECUTION" /\ e.order_id = id /\ e.quantity = q
      /\ q \in Nat
  BY FeedAssumption DEF Event
<1> HIDE DEF e
<1>2. feed' = Append(feed, e) /\ bids' = bids /\ Strategy(bids, placed)
  BY DEF Execution, Note, e
<1>3. /\ feed \in Seq(Event) /\ orders \in Seq(MyOrder) /\ BookIsLastUpdate'
      /\ \A d \in DOMAIN orders : orders[d] \in MyOrder
  BY DEF TradeInv, TradeTypeOK
<1>4. PICK n : n = Len(feed)
  OBVIOUS
<1>5. /\ placed \in Seq(MyOrder) /\ Len(placed) = Len(orders)
      /\ \A d \in DOMAIN orders :
           placed[d] = IF d = id THEN FilledBy(orders[id], q) ELSE orders[d]
  <2>1. CASE id \in DOMAIN orders
    <3> DEFINE T == MyOrder
               o == FilledBy(orders[id], q)
    <3>1. o \in T /\ orders \in Seq(T) /\ placed = [orders EXCEPT ![id] = o]
      BY <1>3, <2>1, FilledByType
    <3> HIDE DEF T, o, placed
    <3>2. /\ placed \in Seq(T) /\ Len(placed) = Len(orders)
          /\ \A d \in DOMAIN orders : placed[d] = IF d = id THEN o ELSE orders[d]
      BY <2>1, <3>1
    <3>3. QED
      BY <3>2 DEF T, o
  <2>2. CASE id \notin DOMAIN orders
    BY <1>3, <2>2
  <2>3. QED
    BY <2>1, <2>2
<1> HIDE DEF placed
<1>6. ASSUME NEW d \in DOMAIN orders
      PROVE  Reports(d)' = IF d = id THEN Reports(d) \cup {n + 1} ELSE Reports(d)
  <2>1. \E j \in Sales(n) : PlacedBy(j) = d
    BY <1>4 DEF FillsCounted
  <2>2. Reports(d)' = Reports(d) \cup {k \in {n + 1} : id = d}
    BY <1>1, <1>2, <1>3, <1>4, <2>1, ReportsGrow
  <2>3. QED
    BY <2>2
<1>7. ASSUME NEW d \in DOMAIN orders
      PROVE  /\ IsFiniteSet(UnitsReported(d)')
             /\ placed[d].filled = Cardinality(UnitsReported(d)')
             /\ placed[d].status = StatusOf(placed[d].filled, Reports(d)')
  <2>1. /\ IsFiniteSet(UnitsReported(d))
        /\ orders[d].filled = Cardinality(UnitsReported(d))
        /\ orders[d].status = StatusOf(orders[d].filled, Reports(d))
    BY DEF FillsCounted, FillsAccounted, StatusOf
  <2>2. /\ Reports(d)' = Reports(d) =>
             /\ IsFiniteSet(UnitsReported(d)')
             /\ Cardinality(UnitsReported(d)') = Cardinality(UnitsReported(d))
        /\ Reports(d)' = Reports(d) \cup {n + 1} =>
             /\ IsFiniteSet(UnitsReported(d)')
             /\ Cardinality(UnitsReported(d)') = Cardinality(UnitsReported(d)) + q
    BY <1>1, <1>2, <1>3, <1>4, <2>1, UnitsGrow
  <2>3. CASE d = id
    <3>1. /\ placed[d].filled = orders[d].filled + q
          /\ placed[d].status = IF orders[d].filled + q >= Lot THEN "Filled"
                                ELSE "PartiallyFilled"
      BY <1>1, <1>3, <1>5, <2>3, FilledByFills
    <3>2. Reports(d)' = Reports(d) \cup {n + 1}
      BY <1>6, <2>3
    <3>3. QED
      BY <2>1, <2>2, <3>1, <3>2 DEF StatusOf
  <2>4. CASE d # id
    BY <1>5, <1>6, <2>1, <2>2, <2>4
  <2>5. QED
    BY <2>3, <2>4
<1>8. PICK levels : levels = bids' /\ Strategy(levels, placed)
  BY <1>2
<1>9. QED
  BY <1>1, <1>2, <1>3, <1>5, <1>7, <1>8, StrategyCounts

LEMMA StutterCounts ==
  ASSUME TradeInv, FillsCounted, UNCHANGED tradeVars
  PROVE  FillsCounted'
<1>1. orders' = orders /\ feed' = feed
  BY DEF tradeVars
<1>2. Tops' = Tops
  BY <1>1, TopsStutter DEF tradeVars
<1>3. ASSUME NEW k PROVE Sales(k)' = Sales(k) /\ PlacedBy(k)' = PlacedBy(k)
  <2>1. Sales(k)' = Sales(k)
    BY <1>2 DEF Sales, Above
  <2>2. QED
    BY <2>1 DEF PlacedBy
<1>4. ASSUME NEW id PROVE Reports(id)' = Reports(id) /\ UnitsReported(id)' = UnitsReported(id)
  <2>1. Reports(id)' = Reports(id)
    BY <1>1, <1>3 DEF Reports
  <2>2. QED
    BY <1>1, <2>1 DEF UnitsReported
<1>5. QED
  BY <1>1, <1>3, <1>4 DEF FillsCounted, FillsAccounted

(***************************************************************************)
(* The fills of Phase_3 add up: an order has filled what the reports that  *)
(* named it said since it was placed, and its status says whether it is    *)
(* enough, for every feed.                                                 *)
(***************************************************************************)
THEOREM FillsAddUp == TradeSpec => []FillsAccounted
<1>1. TradeInit => FillsCounted
  BY DEF TradeInit, FillsCounted, FillsAccounted
<1>2. TradeInv /\ TradeInv' /\ FillsCounted /\ [TradeNext]_tradeVars => FillsCounted'
  BY MarketCounts, ExecutionCounts, StutterCounts DEF TradeNext
<1>3. FillsCounted => FillsAccounted
  BY DEF FillsCounted
<1>4. QED
  BY <1>1, <1>2, <1>3, TradeInvHolds, PTL DEF TradeSpec
-----------------------------------------------------------------------------
(***************************************************************************)
(* MatrixOps: where the layouts put an entry, what a sum of different      *)
(* terms is, and that a loop unrolled by four takes every column once.     *)
(***************************************************************************)

\* Offset a * c + b of an array with lines of length c is in line a, at place b.
LEMMA Offset ==
  ASSUME NEW a \in Nat, NEW c \in Nat, NEW b \in 0 .. c - 1
  PROVE  (a * c + b) \div c = a /\ (a * c + b) % c = b
<1> DEFINE x == a * c + b
           q == x \div c
           r == x % c
<1>1. x \in Nat /\ c > 0 /\ b \in Nat /\ b < c /\ a * c \in Nat
  OBVIOUS
<1>2. q \in Int /\ r \in 0 .. c - 1 /\ x = c * q + r
  BY <1>1
<1>3. q = a
  <2> HIDE DEF q, r, x
  <2>1. CASE q > a
    <3>1. c * q >= c * (a + 1)
      BY <1>1, <1>2, <2>1
    <3>2. QED
      BY <1>1, <1>2, <3>1 DEF x
  <2>2. CASE q < a
    <3>1. c * (q + 1) <= c * a
      BY <1>1, <1>2, <2>2
    <3>2. QED
      BY <1>1, <1>2, <3>1 DEF x
  <2>3. QED
    BY <1>2, <2>1, <2>2
<1>4. r = b
  BY <1>1, <1>2, <1>3
<1>5. QED
  BY <1>3, <1>4

\* The offsets of n lines of length c are in their array.
LEMMA InArray ==
  ASSUME NEW n \in Nat, NEW c \in Nat, NEW a \in 0 .. n - 1, NEW b \in 0 .. c - 1
  PROVE  a * c + b \in 0 .. n * c - 1
<1>1. a * c + b \in Nat /\ n * c \in Nat
  OBVIOUS
<1>2. (a + 1) * c <= n * c
  OBVIOUS
<1>3. (a + 1) * c = a * c + c /\ a * c \in Nat
  OBVIOUS
<1>4. QED
  BY <1>1, <1>2, <1>3

\* Where an entry is in each layout.
LEMMA Layouts ==
  ASSUME NEW rows \in Nat, NEW cols \in Nat, NEW r \in 0 .. rows - 1, NEW c \in 0 .. cols - 1
  PROVE  /\ RowMajor(rows, cols)[r * cols + c] = <<r, c>>
         /\ RowMajor(rows, cols)[cols * r + c] = <<r, c>>
         /\ ColMajor(rows, cols)[c * rows + r] = <<r, c>>
         /\ ColMajor(rows, cols)[rows * c + r] = <<r, c>>
<1>1. /\ (r * cols + c) \div cols = r /\ (r * cols + c) % cols = c
      /\ r * cols + c \in 0 .. rows * cols - 1
  BY Offset, InArray
<1>2. /\ (c * rows + r) \div rows = c /\ (c * rows + r) % rows = r
      /\ c * rows + r \in 0 .. cols * rows - 1
  BY Offset, InArray
<1>3. r * cols = cols * r /\ c * rows = rows * c /\ cols * rows = rows * cols
  OBVIOUS
<1>4. /\ RowMajor(rows, cols)[r * cols + c] = <<r, c>>
      /\ ColMajor(rows, cols)[c * rows + r] = <<r, c>>
  BY <1>1, <1>2, <1>3 DEF RowMajor, ColMajor
<1>5. QED
  BY <1>3, <1>4

\* A vector is the matrix of one column.
LEMMA VectorEntry ==
  ASSUME NEW n \in Nat, NEW c \in 0 .. n - 1
  PROVE  RowMajor(n, 1)[c] = <<c, 0>>
<1>1. c * 1 + 0 = c /\ 0 \in 0 .. 1 - 1 /\ 1 \in Nat
  OBVIOUS
<1>2. RowMajor(n, 1)[c * 1 + 0] = <<c, 0>>
  BY <1>1, Layouts
<1>3. QED
  BY <1>1, <1>2

\* The terms of the columns in S, each of them once.
BagOver(term, S) == SetToBag({term[k] : k \in S})

Distinct(term) == \A j, k \in DOMAIN term : term[j] = term[k] => j = k

\* A sum of different terms has each of them once.
LEMMA SumOfDistinct ==
  ASSUME NEW term, Distinct(term)
  PROVE  Sum(term) = BagOver(term, DOMAIN term)
<1>1. ASSUME NEW k \in DOMAIN term
      PROVE  Cardinality({j \in DOMAIN term : term[j] = term[k]}) = 1
  <2>1. {j \in DOMAIN term : term[j] = term[k]} = {k}
    BY DEF Distinct
  <2>2. QED
    BY <2>1, FS_Singleton
<1>2. Range(term) = {term[k] : k \in DOMAIN term}
  BY DEF Range
<1>3. QED
  BY <1>1, <1>2 DEF Sum, BagOver, SetToBag

LEMMA DisjointBags ==
  ASSUME NEW S, NEW T, S \cap T = {}
  PROVE  SetToBag(S) (+) SetToBag(T) = SetToBag(S \cup T)
<1>1. ASSUME NEW e \in S \cup T
      PROVE  (IF e \in S THEN SetToBag(S)[e] ELSE 0) + (IF e \in T THEN SetToBag(T)[e] ELSE 0) = 1
  BY DEF SetToBag
<1>2. DOMAIN SetToBag(S) = S /\ DOMAIN SetToBag(T) = T
  BY DEF SetToBag
<1>3. QED
  BY <1>1, <1>2 DEF SetToBag, (+)

\* The sum over a part of the columns, and over two parts without a common one.
LEMMA SumOfPart ==
  ASSUME NEW term, Distinct(term), NEW P, P \subseteq DOMAIN term
  PROVE  Sum(Restrict(term, P)) = BagOver(term, P)
<1>1. /\ Distinct(Restrict(term, P)) /\ DOMAIN Restrict(term, P) = P
      /\ \A k \in P : Restrict(term, P)[k] = term[k]
  BY DEF Distinct, Restrict
<1>2. {Restrict(term, P)[k] : k \in P} = {term[k] : k \in P}
  BY <1>1
<1>3. QED
  BY <1>1, <1>2, SumOfDistinct DEF BagOver

LEMMA BagOfParts ==
  ASSUME NEW term, Distinct(term), NEW P, P \subseteq DOMAIN term,
         NEW Q, Q \subseteq DOMAIN term, P \cap Q = {}
  PROVE  BagOver(term, P) (+) BagOver(term, Q) = BagOver(term, P \cup Q)
<1>1. {term[k] : k \in P} \cap {term[k] : k \in Q} = {}
  BY DEF Distinct
<1>2. {term[k] : k \in P} \cup {term[k] : k \in Q} = {term[k] : k \in P \cup Q}
  OBVIOUS
<1>3. QED
  BY <1>1, <1>2, DisjointBags DEF BagOver

\* Places in a group of four.
LEMMA DivFour ==
  ASSUME NEW n \in Nat
  PROVE  \E q \in Nat, r \in 0 .. 3 : n = 4 * q + r /\ n % 4 = r
<1> DEFINE q == n \div 4
           r == n % 4
<1>1. q \in Int /\ r \in 0 .. 3 /\ n = 4 * q + r
  OBVIOUS
<1>2. q >= 0
  <2> HIDE DEF q, r
  <2>1. QED
    BY <1>1
<1>3. QED
  BY <1>1, <1>2

LEMMA ModFour ==
  ASSUME NEW i \in Nat
  PROVE  /\ i % 4 = 0 => \A l \in 0 .. 3 : (i + l) % 4 = l
         /\ \A l \in 0 .. 3 : i % 4 = l => i - l \in Nat /\ (i - l) % 4 = 0
         /\ \A j \in Nat : i % 4 = 0 /\ j % 4 = 0 /\ i < j => i + 4 <= j
<1>1. PICK q \in Nat, r \in 0 .. 3 : i = 4 * q + r /\ i % 4 = r
  BY DivFour
<1>3. i % 4 = 0 => \A l \in 0 .. 3 : (i + l) % 4 = l
  BY <1>1
<1>4. \A l \in 0 .. 3 : i % 4 = l => i - l \in Nat /\ (i - l) % 4 = 0
  BY <1>1
<1>5. ASSUME NEW j \in Nat, i % 4 = 0, j % 4 = 0, i < j PROVE i + 4 <= j
  <2>1. PICK p \in Nat, s \in 0 .. 3 : j = 4 * p + s /\ j % 4 = s
    BY DivFour
  <2>2. p \in Nat /\ j = 4 * p
    BY <1>5, <2>1
  <2>3. QED
    BY <1>1, <1>5, <2>2
<1>6. QED
  BY <1>3, <1>4, <1>5

\* The groups of four columns, and the columns that are left over.
Starts(cols)    == {i \in 0 .. cols - 4 : i % 4 = 0}
FirstLeft(cols) == IF Starts(cols) = {} THEN 0 ELSE Max(Starts(cols)) + 4

LEMMA Groups ==
  ASSUME NEW cols \in Nat \ {0}
  PROVE  /\ FirstLeft(cols) \in Nat /\ FirstLeft(cols) % 4 = 0
         /\ cols - 4 < FirstLeft(cols) /\ FirstLeft(cols) <= cols
         /\ \A i : i \in Starts(cols) <=> i \in Nat /\ i % 4 = 0 /\ i < FirstLeft(cols)
<1> DEFINE starts == Starts(cols)
           i0     == FirstLeft(cols)
<1>1. \A i : i \in starts <=> i \in Nat /\ i % 4 = 0 /\ i <= cols - 4
  BY DEF Starts
<1>2. CASE starts = {}
  <2>1. 0 % 4 = 0 /\ 0 \in Nat /\ cols \in Nat
    OBVIOUS
  <2>2. ~(0 <= cols - 4)
    BY <1>1, <1>2, <2>1
  <2>3. i0 = 0
    BY <1>2 DEF FirstLeft
  <2>4. \A i : ~(i \in Nat /\ i < 0)
    OBVIOUS
  <2>5. QED
    BY <1>2, <2>1, <2>2, <2>3, <2>4
<1>3. CASE starts # {}
  <2>1. cols - 4 \in Nat
    <3>1. PICK i : i \in starts
      BY <1>3
    <3>2. QED
      BY <1>1, <3>1
  <2>2. PICK q \in Nat, r \in 0 .. 3 : cols - 4 = 4 * q + r
    BY <2>1, DivFour
  <2>3. 4 * q \in Nat /\ (4 * q) % 4 = 0 /\ 4 * q <= cols - 4 /\ cols - 4 < 4 * q + 4
    BY <2>2
  <2>4. \A i \in Nat : i % 4 = 0 /\ i <= cols - 4 => i <= 4 * q
    <3>1. ASSUME NEW i \in Nat, i % 4 = 0, i <= cols - 4 PROVE i <= 4 * q
      <4>1. i \div 4 \in Nat /\ i = 4 * (i \div 4)
        BY <3>1
      <4>2. QED
        BY <2>2, <3>1, <4>1
    <3>2. QED
      BY <3>1
  <2>5. 4 * q \in starts /\ \A i \in starts : 4 * q >= i
    BY <1>1, <2>3, <2>4
  <2>6. Max(starts) \in starts /\ \A i \in starts : Max(starts) >= i
    <3>1. \E x \in starts : \A y \in starts : x >= y
      BY <2>5
    <3>2. QED
      BY <3>1 DEF Max
  <2>7. Max(starts) = 4 * q
    BY <1>1, <2>3, <2>5, <2>6
  <2>8. i0 = 4 * q + 4
    BY <1>3, <2>7 DEF FirstLeft
  <2>9. i0 \in Nat /\ i0 % 4 = 0 /\ cols - 4 < i0 /\ i0 <= cols
    BY <2>2, <2>3, <2>8
  <2>10. ASSUME NEW i \in Nat, i % 4 = 0 PROVE i <= cols - 4 <=> i < i0
    <3>1. i \div 4 \in Nat /\ i = 4 * (i \div 4)
      BY <2>10
    <3>2. QED
      BY <2>2, <2>8, <3>1
  <2>11. QED
    BY <1>1, <2>9, <2>10
<1>4. QED
  BY <1>2, <1>3

\* They are all columns, each of them once.
LEMMA DotProductIsSum ==
  ASSUME NEW matrix, NEW row_ptr, NEW vector, NEW cols \in Nat \ {0},
         NEW term, term = [i \in 0 .. cols - 1 |-> <<matrix[row_ptr + i], vector[i]>>],
         Distinct(term)
  PROVE  DotProductUnrolled(matrix, row_ptr, vector, cols)
           = BagOver(term, 0 .. cols - 1)
<1> DEFINE B(S) == BagOver(term, S)
<1>1. PICK starts : starts = Starts(cols)
  OBVIOUS
<1>2. PICK i0 : i0 = FirstLeft(cols)
  OBVIOUS
<1>3. /\ i0 \in Nat /\ i0 % 4 = 0 /\ cols - 4 < i0 /\ i0 <= cols
      /\ \A i : i \in starts <=> i \in Nat /\ i % 4 = 0 /\ i < i0
  BY <1>1, <1>2, Groups
<1> DEFINE D    == 0 .. cols - 1
           P(l) == {i + l : i \in starts}
           Q    == i0 .. cols - 1
<1>4. \A l \in 0 .. 3 : P(l) = {i \in D : i % 4 = l /\ i < i0}
  <2>1. ASSUME NEW l \in 0 .. 3, NEW i \in starts
        PROVE  i + l \in D /\ (i + l) % 4 = l /\ i + l < i0
    <3>1. i \in Nat /\ i % 4 = 0 /\ i < i0
      BY <1>3
    <3>2. i + 4 <= i0 /\ (i + l) % 4 = l
      BY <1>3, <3>1, ModFour
    <3>3. l <= 3 /\ 0 <= l /\ l \in Int
      OBVIOUS
    <3>4. QED
      BY <1>3, <3>1, <3>2, <3>3
  <2>2. ASSUME NEW l \in 0 .. 3, NEW i \in D, i % 4 = l, i < i0
        PROVE  i - l \in starts
    <3>1. i \in Nat /\ l \in Nat
      OBVIOUS
    <3>2. i - l \in Nat /\ (i - l) % 4 = 0
      BY <2>2, <3>1, ModFour
    <3>3. i - l < i0
      BY <1>3, <2>2, <3>1
    <3>4. QED
      BY <1>3, <3>2, <3>3
  <2>3. ASSUME NEW l \in 0 .. 3 PROVE P(l) = {i \in D : i % 4 = l /\ i < i0}
    <3>1. \A x \in P(l) : x \in D /\ x % 4 = l /\ x < i0
      BY <2>1
    <3>2. ASSUME NEW x \in D, x % 4 = l, x < i0 PROVE x \in P(l)
      <4>1. x - l \in starts /\ x = (x - l) + l
        BY <2>2, <3>2
      <4>2. QED
        BY <4>1
    <3> HIDE DEF P, D
    <3>3. QED
      BY <3>1, <3>2
  <2>4. QED
    BY <2>3
<1>5. Q \subseteq D /\ \A i \in D : i \in Q <=> ~(i < i0)
  BY <1>3
<1> HIDE DEF P, Q, D
<1>6. /\ P(0) \subseteq D /\ P(1) \subseteq D /\ P(2) \subseteq D /\ P(3) \subseteq D
      /\ P(0) \cap P(1) = {} /\ (P(0) \cup P(1)) \cap P(2) = {}
      /\ (P(0) \cup P(1) \cup P(2)) \cap P(3) = {}
      /\ (P(0) \cup P(1) \cup P(2) \cup P(3)) \cap Q = {}
      /\ P(0) \cup P(1) \cup P(2) \cup P(3) \cup Q = D
  <2>1. \A i \in D : i % 4 \in 0 .. 3
    BY DEF D
  <2>2. QED
    BY <1>4, <1>5, <2>1
<1>7. DOMAIN term = D
  BY DEF D
<1>8. /\ Sum(Restrict(term, P(0))) = B(P(0)) /\ Sum(Restrict(term, P(1))) = B(P(1))
      /\ Sum(Restrict(term, P(2))) = B(P(2)) /\ Sum(Restrict(term, P(3))) = B(P(3))
      /\ Sum(Restrict(term, Q)) = B(Q)
  <2>1. ASSUME NEW S, S \subseteq D PROVE Sum(Restrict(term, S)) = B(S)
    BY <1>7, <2>1, SumOfPart
  <2>2. QED
    BY <1>5, <1>6, <2>1
<1>9. ASSUME NEW S, S \subseteq D, NEW T, T \subseteq D, S \cap T = {}
      PROVE  B(S) (+) B(T) = B(S \cup T)
  <2>1. S \subseteq DOMAIN term /\ T \subseteq DOMAIN term
    BY <1>7, <1>9
  <2>2. QED
    BY <1>9, <2>1, BagOfParts
<1>10. /\ B(P(0)) (+) B(P(1)) = B(P(0) \cup P(1))
      /\ B(P(0) \cup P(1)) (+) B(P(2)) = B(P(0) \cup P(1) \cup P(2))
      /\ B(P(0) \cup P(1) \cup P(2)) (+) B(P(3)) = B(P(0) \cup P(1) \cup P(2) \cup P(3))
      /\ B(P(0) \cup P(1) \cup P(2) \cup P(3)) (+) B(Q) = B(D)
  <2> HIDE DEF B
  <2>1. /\ P(0) \cup P(1) \subseteq D /\ P(0) \cup P(1) \cup P(2) \subseteq D
        /\ P(0) \cup P(1) \cup P(2) \cup P(3) \subseteq D
    BY <1>6
  <2>2. B(P(0)) (+) B(P(1)) = B(P(0) \cup P(1))
    BY <1>6, <1>9
  <2>3. B(P(0) \cup P(1)) (+) B(P(2)) = B(P(0) \cup P(1) \cup P(2))
    BY <1>6, <1>9, <2>1
  <2>4. B(P(0) \cup P(1) \cup P(2)) (+) B(P(3)) = B(P(0) \cup P(1) \cup P(2) \cup P(3))
    BY <1>6, <1>9, <2>1
  <2>5. B(P(0) \cup P(1) \cup P(2) \cup P(3)) (+) B(Q) = B(D)
    BY <1>5, <1>6, <1>9, <2>1
  <2>6. QED
    BY <2>2, <2>3, <2>4, <2>5
<1>11. DotProductUnrolled(matrix, row_ptr, vector, cols)
        = Sum(Restrict(term, P(0))) (+) Sum(Restrict(term, P(1))) (+) Sum(Restrict(term, P(2)))
          (+) Sum(Restrict(term, P(3))) (+) Sum(Restrict(term, Q))
  BY <1>1, <1>2 DEF DotProductUnrolled, Starts, FirstLeft, P, Q
<1>12. QED
  BY <1>8, <1>10, <1>11 DEF D

\* The products of a row and a column of n entries.
Terms(n, i, j) == [k \in 0 .. n - 1 |-> <<<<i, k>>, <<k, j>>>>]

LEMMA TermsSummed ==
  ASSUME NEW n, NEW i, NEW j
  PROVE  /\ Distinct(Terms(n, i, j))
         /\ Sum(Terms(n, i, j)) = BagOver(Terms(n, i, j), 0 .. n - 1)
         /\ BagOver(Terms(n, i, j), 0 .. n - 1)
              = SetToBag({<<<<i, k>>, <<k, j>>>> : k \in 0 .. n - 1})
<1>1. Distinct(Terms(n, i, j))
  BY DEF Distinct, Terms
<1>2. DOMAIN Terms(n, i, j) = 0 .. n - 1
  BY DEF Terms
<1>3. {Terms(n, i, j)[k] : k \in 0 .. n - 1} = {<<<<i, k>>, <<k, j>>>> : k \in 0 .. n - 1}
  BY DEF Terms
<1>4. QED
  BY <1>1, <1>2, <1>3, SumOfDistinct DEF BagOver

LEMMA EmptySum == ASSUME NEW S PROVE EmptyBag (+) SetToBag(S) = SetToBag(S)
<1>1. EmptyBag = SetToBag({}) /\ {} \cap S = {} /\ {} \cup S = S
  BY DEF EmptyBag
<1>2. QED
  BY <1>1, DisjointBags

\* The kernels that take a vector, and those that take two matrices.
LEMMA MvKernels ==
  ASSUME NEW rows \in Nat, NEW n \in Nat \ {0}, NEW i \in 0 .. rows - 1, NEW old
  PROVE  /\ MvRowMajor(rows, n)[i] = BagOver(Terms(n, i, 0), 0 .. n - 1)
         /\ MvRowMajorOptimised(rows, n)[i] = BagOver(Terms(n, i, 0), 0 .. n - 1)
         /\ MvColMajor(rows, n, old)[i] = BagOver(Terms(n, i, 0), 0 .. n - 1)
<1> DEFINE matrix == RowMajor(rows, n)
           byCols == ColMajor(rows, n)
           vector == RowMajor(n, 1)
<1>1. ASSUME NEW k \in 0 .. n - 1
      PROVE  matrix[i * n + k] = <<i, k>> /\ byCols[k * rows + i] = <<i, k>> /\ vector[k] = <<k, 0>>
  BY Layouts, VectorEntry
<1> HIDE DEF matrix, byCols, vector
<1>2. [k \in 0 .. n - 1 |-> <<matrix[i * n + k], vector[k]>>] = Terms(n, i, 0)
  BY <1>1 DEF Terms
<1>3. [k \in 0 .. n - 1 |-> <<byCols[k * rows + i], vector[k]>>] = Terms(n, i, 0)
  BY <1>1 DEF Terms
<1>4. MvRowMajor(rows, n)[i] = Sum(Terms(n, i, 0))
  <2>1. MvRowMajor(rows, n)[i] = Sum([k \in 0 .. n - 1 |-> <<matrix[i * n + k], vector[k]>>])
    BY DEF MvRowMajor, matrix, vector
  <2>2. QED
    BY <1>2, <2>1
<1>5. MvRowMajorOptimised(rows, n)[i] = BagOver(Terms(n, i, 0), 0 .. n - 1)
  <2>1. MvRowMajorOptimised(rows, n)[i] = DotProductUnrolled(matrix, i * n, vector, n)
    BY DEF MvRowMajorOptimised, matrix, vector
  <2>2. DotProductUnrolled(matrix, i * n, vector, n) = BagOver(Terms(n, i, 0), 0 .. n - 1)
    <3>1. PICK term, p : term = Terms(n, i, 0) /\ p = i * n
      OBVIOUS
    <3>2. term = [k \in 0 .. n - 1 |-> <<matrix[p + k], vector[k]>>] /\ Distinct(term)
      BY <1>2, <3>1, TermsSummed
    <3>3. DotProductUnrolled(matrix, p, vector, n) = BagOver(term, 0 .. n - 1)
      BY <3>2, DotProductIsSum
    <3>4. QED
      BY <3>1, <3>3
  <2>3. QED
    BY <2>1, <2>2
<1>6. MvColMajor(rows, n, old)[i] = EmptyBag (+) Sum(Terms(n, i, 0))
  <2>1. MvColMajor(rows, n, old)[i]
          = EmptyBag (+) Sum([k \in 0 .. n - 1 |-> <<byCols[k * rows + i], vector[k]>>])
    BY DEF MvColMajor, AddColumns, byCols, vector
  <2>2. QED
    BY <1>3, <2>1
<1>7. QED
  BY <1>4, <1>5, <1>6, TermsSummed, EmptySum

LEMMA MmKernels ==
  ASSUME NEW rows \in Nat, NEW n \in Nat, NEW cols \in Nat,
         NEW i \in 0 .. rows - 1, NEW j \in 0 .. cols - 1
  PROVE  /\ MmNaive(rows, n, cols)[i * cols + j] = Sum(Terms(n, i, j))
         /\ MmTransposedB(rows, n, n, cols)[i * cols + j] = Sum(Terms(n, i, j))
<1> DEFINE matrixA == RowMajor(rows, n)
           matrixB == RowMajor(n, cols)
           byCols  == ColMajor(n, cols)
           at      == i * cols + j
<1>1. at \div cols = i /\ at % cols = j /\ at \in 0 .. rows * cols - 1
  BY Offset, InArray
<1>2. ASSUME NEW k \in 0 .. n - 1
      PROVE  /\ matrixA[n * i + k] = <<i, k>>
             /\ matrixB[cols * k + j] = <<k, j>> /\ byCols[n * j + k] = <<k, j>>
  BY Layouts
<1> HIDE DEF matrixA, matrixB, byCols, at
<1>3. [k \in 0 .. n - 1 |-> <<matrixA[n * i + k], matrixB[cols * k + j]>>] = Terms(n, i, j)
  BY <1>2 DEF Terms
<1>4. [k \in 0 .. n - 1 |-> <<matrixA[n * i + k], byCols[n * j + k]>>] = Terms(n, i, j)
  BY <1>2 DEF Terms
<1>5. MmNaive(rows, n, cols)[at] = Sum(Terms(n, i, j))
  <2>1. MmNaive(rows, n, cols)[at]
          = Sum([k \in 0 .. n - 1 |-> <<matrixA[n * (at \div cols) + k],
                                        matrixB[cols * k + (at % cols)]>>])
    <3>1. MmNaive(rows, n, cols)
            = [m \in 0 .. rows * cols - 1 |->
                 Sum([k \in 0 .. n - 1 |-> <<matrixA[n * (m \div cols) + k],
                                             matrixB[cols * k + (m % cols)]>>])]
      BY DEF MmNaive, matrixA, matrixB
    <3>2. QED
      BY <1>1, <3>1
  <2>2. MmNaive(rows, n, cols)[at]
          = Sum([k \in 0 .. n - 1 |-> <<matrixA[n * i + k], matrixB[cols * k + j]>>])
    BY <1>1, <2>1
  <2>3. QED
    BY <1>3, <2>2
<1>6. MmTransposedB(rows, n, n, cols)[at] = Sum(Terms(n, i, j))
  <2>1. MmTransposedB(rows, n, n, cols)[at]
          = Sum([k \in 0 .. n - 1 |-> <<matrixA[n * (at \div cols) + k],
                                        byCols[n * (at % cols) + k]>>])
    BY <1>1 DEF MmTransposedB, MultiplyElement, matrixA, byCols
  <2>2. QED
    BY <1>1, <1>4, <2>1
<1>7. QED
  BY <1>5, <1>6 DEF at

\* Multiplies is inductive as it stands, for a shape there is.
Calling == /\ shape \in Shapes
           /\ Multiplies

LEMMA CallsMultiply ==
  ASSUME Calling, MatrixNext, Positive, Fitting, called' # "mm_naive_inline",
         NEW i \in 0 .. shape.rows - 1, NEW j \in 0 .. shape.cols - 1
  PROVE  result'[i * shape.cols + j] = Product(i, j)
<1> DEFINE rows == shape.rows
           n    == shape.inner
           cols == shape.cols
<1>1. rows \in Nat /\ n \in Nat \ {0} /\ cols \in Nat /\ shape.given = n
  BY ShapesAssumption DEF Calling, Positive, Fitting
<1>2. Product(i, j) = BagOver(Terms(n, i, j), 0 .. n - 1) /\ Sum(Terms(n, i, j)) = Product(i, j)
  BY TermsSummed DEF Product
<1> HIDE DEF rows, n, cols
<1>3. CASE MultiplyMv
  <2>1. cols = 1 /\ j = 0 /\ i * cols + j = i
    BY <1>1, <1>3 DEF MultiplyMv, cols, rows
  <2>2. \/ result' = MvRowMajor(rows, n)
        \/ result' = MvRowMajorOptimised(rows, n)
        \/ result' = MvColMajor(rows, n, result)
    BY <1>3 DEF MultiplyMv, CallKernel, MvColMajorInline, rows, n
  <2>3. result'[i] = BagOver(Terms(n, i, 0), 0 .. n - 1)
    <3>1. i \in 0 .. rows - 1
      BY DEF rows
    <3>2. PICK old : old = result
      OBVIOUS
    <3>3. /\ MvRowMajor(rows, n)[i] = BagOver(Terms(n, i, 0), 0 .. n - 1)
          /\ MvRowMajorOptimised(rows, n)[i] = BagOver(Terms(n, i, 0), 0 .. n - 1)
          /\ MvColMajor(rows, n, old)[i] = BagOver(Terms(n, i, 0), 0 .. n - 1)
      BY <1>1, <3>1, MvKernels
    <3>4. QED
      BY <2>2, <3>2, <3>3
  <2>4. QED
    BY <1>2, <2>1, <2>3 DEF cols
<1>4. CASE MultiplyMmNaive
  <2>1. result' = MmNaive(rows, n, cols)
    BY <1>4 DEF MultiplyMmNaive, CallKernel, rows, n, cols
  <2>2. i \in 0 .. rows - 1 /\ j \in 0 .. cols - 1
    BY DEF rows, cols
  <2>3. MmNaive(rows, n, cols)[i * cols + j] = Sum(Terms(n, i, j))
    BY <1>1, <2>2, MmKernels
  <2>4. QED
    BY <1>2, <2>1, <2>3 DEF cols
<1>5. CASE MultiplyMmNaiveInline
  BY <1>5 DEF MultiplyMmNaiveInline, CallKernel
<1>6. CASE MultiplyMmTransposedB
  <2>1. result' = MmTransposedB(rows, n, n, cols)
    BY <1>1, <1>6 DEF MultiplyMmTransposedB, MmTransposedBInline, CallKernel, rows, n, cols
  <2>2. i \in 0 .. rows - 1 /\ j \in 0 .. cols - 1
    BY DEF rows, cols
  <2>3. MmTransposedB(rows, n, n, cols)[i * cols + j] = Sum(Terms(n, i, j))
    BY <1>1, <2>2, MmKernels
  <2>4. QED
    BY <1>2, <2>1, <2>3 DEF cols
<1>7. QED
  BY <1>3, <1>4, <1>5, <1>6 DEF MatrixNext

LEMMA CallStep ==
  ASSUME Calling, [MatrixNext]_matrixVars
  PROVE  Calling'
<1>1. shape' = shape
  BY DEF MatrixNext, MultiplyMv, MultiplyMmNaive, MultiplyMmNaiveInline, MultiplyMmTransposedB,
         CallKernel, matrixVars
<1>2. (Positive /\ Fitting)' <=> Positive /\ Fitting
  BY <1>1 DEF Positive, Fitting
<1>3. CASE UNCHANGED matrixVars
  BY <1>3 DEF Calling, Multiplies, Product, Positive, Fitting, matrixVars
<1>4. CASE MatrixNext /\ Positive /\ Fitting
  <2>1. ASSUME NEW i \in 0 .. shape.rows - 1, NEW j \in 0 .. shape.cols - 1,
               called' # "mm_naive_inline"
        PROVE  result'[i * shape.cols + j] = Product(i, j)
    BY <1>4, <2>1, CallsMultiply
  <2>2. \A i, j : Product(i, j)' = Product(i, j)
    BY <1>1 DEF Product
  <2>3. QED
    BY <1>1, <1>2, <1>4, <2>1, <2>2 DEF Calling, Multiplies
<1>5. CASE MatrixNext /\ ~(Positive /\ Fitting)
  <2>1. result' = result
    BY <1>5 DEF MatrixNext, MultiplyMv, MultiplyMmNaive, MultiplyMmNaiveInline,
                MultiplyMmTransposedB, CallKernel
  <2>2. result' = Blank(shape.rows * shape.cols)
    BY <1>5, <2>1 DEF Calling, Multiplies
  <2>3. QED
    BY <1>1, <1>2, <1>5, <2>2 DEF Calling, Multiplies
<1>6. QED
  BY <1>3, <1>4, <1>5

(***************************************************************************)
(* Every kernel but the empty one puts the sum of exactly the products of  *)
(* a row and a column at their entry, for matrices of any shape and after  *)
(* any calls, and a refused call leaves the result as it was allocated.    *)
(***************************************************************************)
THEOREM KernelsMultiply == MatrixSpec => []Multiplies
<1>1. MatrixInit => Calling
  BY DEF MatrixInit, Calling, Multiplies
<1>2. Calling /\ [MatrixNext]_matrixVars => Calling'
  BY CallStep
<1>3. Calling => Multiplies
  BY DEF Calling
<1>4. QED
  BY <1>1, <1>2, <1>3, PTL DEF MatrixSpec
=============================================================================
