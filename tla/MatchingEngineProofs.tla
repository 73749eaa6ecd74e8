------------------------ MODULE MatchingEngineProofs ------------------------
(***************************************************************************)
(* TLAPS proofs about the order book and the tick loop that drives it, for *)
(* every pool size, number of ticks and set of prices and quantities: the  *)
(* book's pool, sides and lookup table under any legal sequence of calls,  *)
(* then what the engine makes of the book.                                 *)
(***************************************************************************)
EXTENDS MatchingEngine, FunctionTheorems, FiniteSetTheorems, WellFoundedInduction,
        TLAPS

\* Putting an order with a new id into the first free slot.
LEMMA InsertTypes ==
  ASSUME BookTypeOK, NEW o \in Order, InsertOrder(o)
  PROVE  BookTypeOK'
<1>1. PICK s \in FreeSlots :
        LET e == [price |-> o.price, at |-> inserted, slot |-> s]
        IN  /\ IF o.is_buy
                 THEN buy_orders_' = buy_orders_ \cup {e} /\ UNCHANGED sell_orders_
                 ELSE sell_orders_' = sell_orders_ \cup {e} /\ UNCHANGED buy_orders_
            /\ id_lookup_' = [d \in DOMAIN id_lookup_ \cup {o.id} |->
                                IF d = o.id THEN e ELSE id_lookup_[d]]
            /\ pool_' = [pool_ EXCEPT ![s] = o]
            /\ inserted' = inserted + 1
  BY DEF InsertOrder
<1> DEFINE e == [price |-> o.price, at |-> inserted, slot |-> s]
<1>2. e \in Entry /\ s \in Slot /\ o.id \in Id
  BY DEF BookTypeOK, Entry, Order, FreeSlots
<1>3. QED
  BY <1>1, <1>2 DEF BookTypeOK

LEMMA InsertConsistent ==
  ASSUME BookTypeOK, BookConsistent, NEW o \in Order, o.id \notin DOMAIN id_lookup_,
         InsertOrder(o)
  PROVE  BookConsistent'
<1>1. PICK s \in FreeSlots :
        LET e == [price |-> o.price, at |-> inserted, slot |-> s]
        IN  /\ IF o.is_buy
                 THEN buy_orders_' = buy_orders_ \cup {e} /\ UNCHANGED sell_orders_
                 ELSE sell_orders_' = sell_orders_ \cup {e} /\ UNCHANGED buy_orders_
            /\ id_lookup_' = [d \in DOMAIN id_lookup_ \cup {o.id} |->
                                IF d = o.id THEN e ELSE id_lookup_[d]]
            /\ pool_' = [pool_ EXCEPT ![s] = o]
            /\ inserted' = inserted + 1
  BY DEF InsertOrder
<1> DEFINE e == [price |-> o.price, at |-> inserted, slot |-> s]
<1>2. /\ s \in Slot /\ e.slot = s /\ e.price = o.price
      /\ pool_'[s] = o /\ o # Unused
      /\ \A r \in Slot : r # s => pool_'[r] = pool_[r]
  BY <1>1, UnusedAssumption DEF BookTypeOK, FreeSlots
<1>3. \A f \in Resting : f.slot \in Slot /\ f.slot # s
  BY DEF BookConsistent, SlotsOwned, BookTypeOK, FreeSlots, Entry, Resting
<1>4. Resting' = Resting \cup {e}
  BY <1>1 DEF Resting
<1>5. SlotsOwned'
  <2>1. ASSUME NEW r \in Slot
        PROVE  pool_'[r] # Unused <=> \E f \in Resting' : f.slot = r
    <3>1. CASE r = s
      BY <1>2, <1>4, <3>1
    <3>2. CASE r # s
      BY <1>2, <1>4, <3>2 DEF BookConsistent, SlotsOwned
    <3>3. QED
      BY <3>1, <3>2
  <2>2. \A f, g \in Resting' : f.slot = g.slot => f = g
    BY <1>2, <1>3, <1>4 DEF BookConsistent, SlotsOwned
  <2>3. QED
    BY <2>1, <2>2 DEF SlotsOwned
<1>6. FiledCorrectly'
  <2>1. \A f \in Resting : pool_'[f.slot] = pool_[f.slot]
    BY <1>2, <1>3
  <2>2. CASE o.is_buy
    BY <1>1, <1>2, <2>1, <2>2 DEF BookConsistent, FiledCorrectly, Resting
  <2>3. CASE ~o.is_buy
    BY <1>1, <1>2, <2>1, <2>3 DEF BookConsistent, FiledCorrectly, Resting
  <2>4. QED
    BY <2>2, <2>3
<1>7. LookupExact'
  <2>1. \A d \in DOMAIN id_lookup_ : id_lookup_'[d] = id_lookup_[d]
    BY <1>1
  <2>2. /\ DOMAIN id_lookup_' = DOMAIN id_lookup_ \cup {o.id}
        /\ id_lookup_'[o.id] = e
    BY <1>1
  <2>3. \A f \in Resting : pool_'[f.slot] = pool_[f.slot]
    BY <1>2, <1>3
  <2>4. QED
    BY <1>2, <1>4, <2>1, <2>2, <2>3 DEF BookConsistent, LookupExact
<1>8. QED
  BY <1>5, <1>6, <1>7 DEF BookConsistent

(***************************************************************************)
(* Removing orders, on a pool whose orders may have been filled meanwhile  *)
(* but kept their identity, side and price.                                *)
(***************************************************************************)
SameOrders(pool) ==
  /\ pool \in [Slot -> Order \cup {Unused}]
  /\ \A s \in Slot : /\ pool[s] = Unused <=> pool_[s] = Unused
                     /\ pool[s] # Unused => /\ pool[s].id = pool_[s].id
                                            /\ pool[s].is_buy = pool_[s].is_buy
                                            /\ pool[s].price = pool_[s].price

LEMMA RemoveTypes ==
  ASSUME BookTypeOK, NEW pool, SameOrders(pool), NEW ids, RemoveFrom(pool, ids)
  PROVE  BookTypeOK'
  BY DEF BookTypeOK, RemoveFrom, SameOrders

LEMMA RemoveConsistent ==
  ASSUME BookTypeOK, BookConsistent, NEW pool, SameOrders(pool), NEW ids,
         RemoveFrom(pool, ids)
  PROVE  BookConsistent'
<1> DEFINE erased == EntriesOf(ids)
<1>1. erased \subseteq Resting
  BY DEF BookConsistent, LookupExact, EntriesOf
<1>2. \A e \in Resting : e.slot \in Slot /\ pool_[e.slot] # Unused
  BY DEF BookConsistent, SlotsOwned, BookTypeOK, Entry, Resting
<1>3. /\ buy_orders_' = buy_orders_ \ erased
      /\ sell_orders_' = sell_orders_ \ erased
  BY <1>1, <1>2 DEF RemoveFrom, SameOrders, BookConsistent, FiledCorrectly, Resting
<1>4. Resting' = Resting \ erased
  BY <1>3 DEF Resting
<1>5. \A s \in Slot : pool_'[s] = IF \E e \in erased : e.slot = s THEN Unused ELSE pool[s]
  BY DEF RemoveFrom
<1>6. \A e \in Resting' : pool_'[e.slot] = pool[e.slot]
  BY <1>1, <1>2, <1>4, <1>5 DEF BookConsistent, SlotsOwned
<1>7. SlotsOwned'
  <2>1. ASSUME NEW s \in Slot
        PROVE  pool_'[s] # Unused <=> \E e \in Resting' : e.slot = s
    BY <1>1, <1>4, <1>5 DEF SameOrders, BookConsistent, SlotsOwned
  <2>2. QED
    BY <1>4, <2>1 DEF BookConsistent, SlotsOwned
<1>8. FiledCorrectly'
  BY <1>2, <1>3, <1>4, <1>6 DEF BookConsistent, FiledCorrectly, SameOrders, Resting
<1>9. LookupExact'
  <2>1. /\ DOMAIN id_lookup_' = DOMAIN id_lookup_ \ ids
        /\ \A d \in DOMAIN id_lookup_' : id_lookup_'[d] = id_lookup_[d]
    BY DEF RemoveFrom
  <2>2. \A e \in Resting' : pool_'[e.slot].id = pool_[e.slot].id
    BY <1>2, <1>4, <1>6 DEF SameOrders
  <2>3. \A d \in DOMAIN id_lookup_ : d \in ids <=> id_lookup_[d] \in erased
    BY DEF EntriesOf, BookConsistent, LookupExact
  <2>4. QED
    BY <1>4, <2>1, <2>2, <2>3 DEF BookConsistent, LookupExact
<1>10. QED
  BY <1>7, <1>8, <1>9 DEF BookConsistent
-----------------------------------------------------------------------------
LEMMA BookStart == BookInit => BookTypeOK /\ BookConsistent
  BY DEF BookInit, BookTypeOK, BookConsistent, SlotsOwned, FiledCorrectly, LookupExact, Resting

LEMMA NewOrderType ==
  ASSUME NEW id \in Id, NEW symbol \in Symbol, NEW price \in Price,
         NEW quantity \in Quantity, NEW b \in BOOLEAN
  PROVE  NewOrder(id, symbol, price, quantity, b) \in Order
  BY DEF NewOrder, Order, Status

(***************************************************************************)
(* add_order and remove_order, in any legal sequence and for any pool      *)
(* size, leak no slot, hand none out twice, file every order on its side   *)
(* and price, and keep id_lookup_ free of dangling iterators.              *)
(***************************************************************************)
THEOREM BookStaysConsistent == BookSpec => [](BookTypeOK /\ BookConsistent)
<1>1. BookTypeOK /\ BookConsistent /\ [BookNext]_bookVars => (BookTypeOK /\ BookConsistent)'
  <2> SUFFICES ASSUME BookTypeOK, BookConsistent, [BookNext]_bookVars
               PROVE  BookTypeOK' /\ BookConsistent'
    OBVIOUS
  <2>1. ASSUME UNCHANGED bookVars PROVE BookTypeOK' /\ BookConsistent'
    BY <2>1 DEF bookVars, BookTypeOK, BookConsistent, SlotsOwned, FiledCorrectly,
       LookupExact, Resting
  <2>2. ASSUME NEW id \in Id, NEW symbol \in Symbol, NEW price \in Price,
               NEW quantity \in Quantity, NEW b \in BOOLEAN,
               id \notin DOMAIN id_lookup_,
               AddOrder(NewOrder(id, symbol, price, quantity, b))
        PROVE  BookTypeOK' /\ BookConsistent'
    <3> DEFINE o == NewOrder(id, symbol, price, quantity, b)
    <3>1. o \in Order /\ o.id = id
      BY NewOrderType DEF NewOrder
    <3>2. CASE InsertOrder(o)
      BY <2>2, <3>1, <3>2, InsertTypes, InsertConsistent
    <3>3. CASE DropOrder
      BY <2>1, <3>3 DEF DropOrder
    <3>4. QED
      BY <2>2, <3>2, <3>3 DEF AddOrder
  <2>3. ASSUME NEW id \in Id, RemoveOrder(id) PROVE BookTypeOK' /\ BookConsistent'
    <3>1. SameOrders(pool_)
      BY DEF SameOrders, BookTypeOK
    <3>2. QED
      BY <2>3, <3>1, RemoveTypes, RemoveConsistent DEF RemoveOrder
  <2>4. QED
    BY <2>1, <2>2, <2>3 DEF BookNext
<1>2. QED
  BY BookStart, <1>1, PTL DEF BookSpec
-----------------------------------------------------------------------------
LEMMA EngineStart == Init => EngineInv
  BY BookStart, TicksAssumption
  DEF Init, EngineInv, TypeOK, InsertedBefore, InsertedById, CopiesAgree, TimePriority,
      WithinLimits,
      AllTrades, BookInit, Resting, Range

\* create_order and add_order of a tick
LEMMA TickStep ==
  ASSUME EngineInv, Tick
  PROVE  EngineInv'
<1>1. PICK symbol \in Symbol, price \in Price, quantity \in Quantity, b \in BOOLEAN :
        LET o == NewOrder(tick, symbol, price, quantity, b)
        IN  /\ orders_' = [d \in DOMAIN orders_ \cup {tick} |->
                             IF d = tick THEN o ELSE orders_[d]]
            /\ \/ InsertOrder(o) /\ UNCHANGED dropped
               \/ DropOrder /\ dropped' = dropped \cup {tick}
  BY DEF Tick
<1> DEFINE o == NewOrder(tick, symbol, price, quantity, b)
<1>2. /\ tick \in Id /\ tick \in 0 .. NumTicks - 1 /\ tick \in Nat
      /\ DOMAIN orders_ = 0 .. tick - 1
      /\ DOMAIN orders_' = DOMAIN orders_ \cup {tick}
      /\ \A d \in DOMAIN orders_ : orders_'[d] = orders_[d]
      /\ orders_'[tick] = o
  <2>1. /\ tick \in 0 .. NumTicks /\ tick < NumTicks /\ NumTicks \in Nat
        /\ 0 .. NumTicks - 1 \subseteq Id /\ DOMAIN orders_ = 0 .. tick - 1
    BY TicksAssumption DEF EngineInv, TypeOK, Tick
  <2>2. tick \in 0 .. NumTicks - 1 /\ tick \in Nat
    BY <2>1
  <2>3. orders_' = [d \in DOMAIN orders_ \cup {tick} |-> IF d = tick THEN o ELSE orders_[d]]
    BY <1>1
  <2>4. tick \notin DOMAIN orders_
    BY <2>1
  <2> HIDE DEF o
  <2>5. QED
    BY <2>1, <2>2, <2>3, <2>4
<1>3. /\ o \in Order /\ o.id = tick /\ o.price = price /\ o.is_buy = b /\ o.filled = 0
  BY <1>2, NewOrderType DEF NewOrder
<1>4. tick \notin DOMAIN id_lookup_
  BY <1>2 DEF EngineInv, BookConsistent, LookupExact, CopiesAgree
<1>5. BookTypeOK' /\ BookConsistent'
  <2>1. CASE InsertOrder(o)
    BY <2>1, <1>3, <1>4, InsertTypes, InsertConsistent DEF EngineInv, TypeOK
  <2>2. CASE DropOrder
    BY <2>2 DEF DropOrder, bookVars, EngineInv, TypeOK, BookTypeOK, BookConsistent,
       SlotsOwned, FiledCorrectly, LookupExact, Resting
  <2>3. QED
    BY <1>1, <2>1, <2>2
<1>6. TypeOK'
  <2>1. /\ tick' \in 0 .. NumTicks /\ DOMAIN orders_' = 0 .. tick' - 1
    <3>1. tick' = tick + 1 /\ NumTicks \in Nat
      BY TicksAssumption DEF Tick
    <3>2. tick' \in 0 .. NumTicks /\ 0 .. tick' - 1 = (0 .. tick - 1) \cup {tick}
      BY <1>2, <3>1
    <3>3. QED
      BY <1>2, <3>2
  <2>2. dropped' \subseteq DOMAIN orders_'
    BY <1>1, <1>2 DEF EngineInv, TypeOK
  <2>3. \A d \in DOMAIN orders_' : orders_'[d] \in Order
    BY <1>2, <1>3 DEF EngineInv, TypeOK
  <2>4. QED
    BY <1>5, <2>1, <2>2, <2>3 DEF EngineInv, TypeOK, Tick, logVars
<1>7. InsertedBefore' /\ InsertedById' /\ CopiesAgree' /\ TimePriority'
  <2>1. \A f \in Resting : /\ pool_[f.slot].id \in 0 .. tick - 1
                            /\ pool_[f.slot].id \in Int /\ pool_[f.slot].id < tick
    BY <1>2 DEF EngineInv, CopiesAgree
  <2>2. /\ \A t \in Range(AllTrades) : /\ t.buy \in DOMAIN orders_
                                        /\ t.sell \in DOMAIN orders_
                                        /\ t.buy <= tick /\ t.sell <= tick
        /\ AllTrades' = AllTrades
    BY <1>2 DEF EngineInv, WithinLimits, Tick, logVars, AllTrades
  <2>3. CASE DropOrder
    BY <2>2, <2>3, <1>2 DEF DropOrder, bookVars, EngineInv, InsertedBefore, InsertedById,
       CopiesAgree, TimePriority, Resting
  <2>4. CASE InsertOrder(o)
    <3>1. PICK s \in FreeSlots :
            LET e == [price |-> o.price, at |-> inserted, slot |-> s]
            IN  /\ IF o.is_buy
                     THEN buy_orders_' = buy_orders_ \cup {e} /\ UNCHANGED sell_orders_
                     ELSE sell_orders_' = sell_orders_ \cup {e} /\ UNCHANGED buy_orders_
                /\ pool_' = [pool_ EXCEPT ![s] = o]
                /\ inserted' = inserted + 1
      BY <2>4 DEF InsertOrder
    <3> DEFINE e == [price |-> o.price, at |-> inserted, slot |-> s]
    <3>2. /\ s \in Slot /\ pool_'[s] = o
          /\ \A f \in Resting : f.slot # s /\ pool_'[f.slot] = pool_[f.slot]
      BY <3>1 DEF EngineInv, TypeOK, BookTypeOK, BookConsistent, SlotsOwned, FreeSlots,
         Entry, Resting
    <3>3. /\ \A f \in Resting : f.at \in Nat /\ f.at < inserted
          /\ inserted \in Nat
      BY DEF EngineInv, TypeOK, BookTypeOK, InsertedBefore, Entry, Resting
    <3>4. Resting' = Resting \cup {e}
      BY <3>1 DEF Resting
    <3>5. InsertedBefore'
      BY <3>1, <3>3, <3>4 DEF InsertedBefore
    <3>6. CopiesAgree'
      BY <3>2, <3>4, <1>2, <1>3 DEF EngineInv, CopiesAgree
    <3>7. InsertedById'
      <4> SUFFICES ASSUME NEW f \in Resting', NEW g \in Resting', f.at <= g.at
                   PROVE  pool_'[f.slot].id <= pool_'[g.slot].id
        BY DEF InsertedById
      <4>1. CASE g = e
        BY <4>1, <3>2, <3>4, <2>1, <1>2, <1>3
      <4>2. CASE g # e
        BY <4>2, <3>2, <3>3, <3>4 DEF EngineInv, InsertedById
      <4>3. QED
        BY <4>1, <4>2
    <3>8. TimePriority'
      <4> SUFFICES ASSUME NEW t \in Range(AllTrades)
                   PROVE  /\ \A f \in buy_orders_' :
                               orders_'[t.buy].price = f.price => t.buy <= pool_'[f.slot].id
                          /\ \A f \in sell_orders_' :
                               orders_'[t.sell].price = f.price => t.sell <= pool_'[f.slot].id
        BY <2>2 DEF TimePriority
      <4>1. /\ pool_'[e.slot].id = tick
            /\ t.buy <= tick /\ t.sell <= tick
            /\ orders_'[t.buy] = orders_[t.buy] /\ orders_'[t.sell] = orders_[t.sell]
        BY <3>2, <2>2, <1>2, <1>3
      <4>2. /\ \A f \in buy_orders_' : f = e \/ f \in buy_orders_
            /\ \A f \in sell_orders_' : f = e \/ f \in sell_orders_
        BY <3>1
      <4> HIDE DEF e
      <4>3. QED
        BY <4>1, <4>2, <3>2 DEF EngineInv, TimePriority, Resting
    <3>9. QED
      BY <3>5, <3>6, <3>7, <3>8
  <2>5. QED
    BY <1>1, <2>3, <2>4
<1>8. WithinLimits'
  <2>1. AllTrades' = AllTrades
    BY DEF Tick, logVars, AllTrades
  <2>2. \A t \in Range(AllTrades) : t.buy \in DOMAIN orders_ /\ t.sell \in DOMAIN orders_
    BY DEF EngineInv, WithinLimits
  <2>3. QED
    BY <2>1, <2>2, <1>2 DEF EngineInv, WithinLimits
<1>9. QED
  BY <1>5, <1>6, <1>7, <1>8 DEF EngineInv
-----------------------------------------------------------------------------
LEMMA RangeOfAppend ==
  ASSUME NEW S, NEW q \in Seq(S), NEW r \in Seq(S), NEW x \in S
  PROVE  Range(q \o Append(r, x)) = Range(q \o r) \cup {x}
<1>1. /\ q \o r \in Seq(S) /\ Len(q \o r) \in Nat
      /\ q \o Append(r, x) = Append(q \o r, x)
  OBVIOUS
<1>2. \A u \in Seq(S) : /\ DOMAIN u = 1 .. Len(u) /\ Len(u) \in Nat
                        /\ DOMAIN Append(u, x) = 1 .. Len(u) + 1
                        /\ Append(u, x)[Len(u) + 1] = x
                        /\ \A k \in 1 .. Len(u) : Append(u, x)[k] = u[k]
  OBVIOUS
<1>3. ASSUME NEW u \in Seq(S) PROVE Range(Append(u, x)) = Range(u) \cup {x}
  <2>1. DOMAIN Append(u, x) = DOMAIN u \cup {Len(u) + 1}
    BY <1>2
  <2>2. QED
    BY <1>2, <2>1 DEF Range
<1>4. QED
  BY <1>1, <1>3

LEMMA UpdateFilledType ==
  ASSUME NEW o \in Order, NEW n \in Int
  PROVE  /\ UpdateFilled(o, n) \in Order
         /\ UpdateFilled(o, n).id = o.id
         /\ UpdateFilled(o, n).is_buy = o.is_buy
         /\ UpdateFilled(o, n).price = o.price
<1>1. ASSUME NEW m \in Int, NEW st \in Status
      PROVE  /\ [o EXCEPT !.filled = m, !.status = st] \in Order
             /\ [o EXCEPT !.filled = m, !.status = st].id = o.id
             /\ [o EXCEPT !.filled = m, !.status = st].is_buy = o.is_buy
             /\ [o EXCEPT !.filled = m, !.status = st].price = o.price
  BY DEF Order
<1> DEFINE m == o.filled + n
           st == IF m = 0 THEN "New" ELSE IF m >= o.quantity THEN "Filled"
                 ELSE "PartiallyFilled"
<1>2. m \in Int /\ st \in Status
  BY DEF Order, Status
<1>3. UpdateFilled(o, n) = [o EXCEPT !.filled = m, !.status = st]
  BY DEF UpdateFilled
<1> DEFINE u == [o EXCEPT !.filled = m, !.status = st]
<1> HIDE DEF m, st
<1>4. u \in Order /\ u.id = o.id /\ u.is_buy = o.is_buy /\ u.price = o.price
  BY <1>1, <1>2
<1> HIDE DEF u
<1>5. UpdateFilled(o, n) = u
  BY <1>3 DEF u
<1>6. QED
  BY <1>4, <1>5

\* What one iteration of match_orders does with the two first entries.
Fill(b, a) == TradeQuantity(pool_[b.slot], pool_[a.slot])

PoolAfter(b, a) == [pool_ EXCEPT ![b.slot] = UpdateFilled(pool_[b.slot], Fill(b, a)),
                                 ![a.slot] = UpdateFilled(pool_[a.slot], Fill(b, a))]

FilledIds(b, a) == {PoolAfter(b, a)[s].id : s \in
                      {s \in {b.slot, a.slot} : PoolAfter(b, a)[s].status = "Filled"}}

TradeOf(b, a) == [buy |-> pool_[b.slot].id, sell |-> pool_[a.slot].id,
                  price |-> pool_[a.slot].price, quantity |-> Fill(b, a)]

LEMMA EntriesHaveOrders ==
  ASSUME EngineInv
  PROVE  /\ \A e \in Resting : /\ e.slot \in Slot /\ e.price \in Price /\ e.at \in Nat
                               /\ pool_[e.slot] \in Order /\ pool_[e.slot] # Unused
         /\ \A b \in buy_orders_, a \in sell_orders_ :
              /\ b \in Resting /\ pool_[b.slot].is_buy /\ pool_[b.slot].price = b.price
              /\ a \in Resting /\ ~pool_[a.slot].is_buy /\ pool_[a.slot].price = a.price
              /\ b.slot # a.slot /\ pool_[b.slot].id # pool_[a.slot].id
<1>1. \A e \in Resting : /\ e.slot \in Slot /\ e.price \in Price /\ e.at \in Nat
                        /\ pool_[e.slot] \in Order /\ pool_[e.slot] # Unused
  BY UnusedAssumption DEF EngineInv, TypeOK, BookTypeOK, BookConsistent, SlotsOwned, Entry,
     Resting
<1>2. ASSUME NEW b \in buy_orders_, NEW a \in sell_orders_
      PROVE  /\ b \in Resting /\ pool_[b.slot].is_buy /\ pool_[b.slot].price = b.price
             /\ a \in Resting /\ ~pool_[a.slot].is_buy /\ pool_[a.slot].price = a.price
             /\ b.slot # a.slot
  BY DEF EngineInv, BookConsistent, FiledCorrectly, Resting
<1>3. \A e, f \in Resting : pool_[e.slot].id = pool_[f.slot].id => e = f
  BY DEF EngineInv, BookConsistent, LookupExact
<1>4. QED
  BY <1>1, <1>2, <1>3

LEMMA QuantitiesPositive == \A o \in Order : o.quantity \in Nat \ {0} /\ o.quantity \in Int
<1>1. \A o \in Order : o.quantity \in Nat \ {0}
  BY QuantityAssumption DEF Order
<1>2. QED
  BY <1>1

LEMMA TradeHappens ==
  ASSUME Trade
  PROVE  \E b \in buy_orders_, a \in sell_orders_ :
           /\ Crossed(b, a)
           /\ trades' = Append(trades, TradeOf(b, a))
           /\ RemoveFrom(PoolAfter(b, a), FilledIds(b, a))
  BY DEF Trade, TradeOf, PoolAfter, FilledIds, Fill

LEMMA TradeFills ==
  ASSUME EngineInv, NEW b \in buy_orders_, NEW a \in sell_orders_
  PROVE  /\ Fill(b, a) \in Nat \ {0}
         /\ TradeOf(b, a) \in TradeRecord
         /\ SameOrders(PoolAfter(b, a))
         /\ PoolAfter(b, a)[b.slot] = UpdateFilled(pool_[b.slot], Fill(b, a))
         /\ PoolAfter(b, a)[a.slot] = UpdateFilled(pool_[a.slot], Fill(b, a))
         /\ \A s \in Slot \ {b.slot, a.slot} : PoolAfter(b, a)[s] = pool_[s]
<1> DEFINE bid == pool_[b.slot]
           ask == pool_[a.slot]
           qty == Fill(b, a)
           pool == PoolAfter(b, a)
<1>1. /\ b.slot \in Slot /\ bid \in Order /\ bid # Unused
      /\ a.slot \in Slot /\ ask \in Order /\ ask # Unused
      /\ b.slot # a.slot
  BY EntriesHaveOrders
<1>2. qty \in Nat \ {0}
  <2>1. bid.quantity \in Nat \ {0} /\ ask.quantity \in Nat \ {0}
    BY <1>1, QuantitiesPositive
  <2>2. QED
    BY <2>1 DEF Fill, TradeQuantity
<1>3. TradeOf(b, a) \in TradeRecord
  BY <1>1, <1>2 DEF TradeOf, TradeRecord, Order
<1>4. qty \in Int
  BY <1>2
<1>5. /\ pool[b.slot] = UpdateFilled(bid, qty)
      /\ pool[a.slot] = UpdateFilled(ask, qty)
      /\ \A s \in Slot \ {b.slot, a.slot} : pool[s] = pool_[s]
      /\ pool \in [Slot -> Order \cup {Unused}]
  <2>1. UpdateFilled(bid, qty) \in Order /\ UpdateFilled(ask, qty) \in Order
    BY <1>1, <1>4, UpdateFilledType
  <2>2. pool = [pool_ EXCEPT ![b.slot] = UpdateFilled(bid, qty),
                             ![a.slot] = UpdateFilled(ask, qty)]
    BY DEF PoolAfter
  <2>3. pool_ \in [Slot -> Order \cup {Unused}] /\ b.slot \in Slot /\ a.slot \in Slot
    BY <1>1 DEF EngineInv, TypeOK, BookTypeOK
  <2> HIDE DEF bid, ask, qty, pool
  <2>4. QED
    BY <1>1, <2>1, <2>2, <2>3
<1>6. SameOrders(pool)
  <2>1. /\ pool[b.slot] \in Order /\ pool[b.slot].id = bid.id
        /\ pool[b.slot].is_buy = bid.is_buy /\ pool[b.slot].price = bid.price
        /\ pool[a.slot] \in Order /\ pool[a.slot].id = ask.id
        /\ pool[a.slot].is_buy = ask.is_buy /\ pool[a.slot].price = ask.price
    <3>1. bid \in Order /\ ask \in Order
      BY <1>1
    <3> HIDE DEF bid, ask, qty, pool
    <3>2. QED
      BY <3>1, <1>4, <1>5, UpdateFilledType
  <2>2. QED
    BY <1>1, <1>5, <2>1, UnusedAssumption DEF SameOrders
<1>7. QED
  BY <1>2, <1>3, <1>5, <1>6

\* one iteration of match_orders
LEMMA TradeStep ==
  ASSUME EngineInv, Trade
  PROVE  EngineInv'
<1>1. PICK b \in buy_orders_, a \in sell_orders_ :
        /\ Crossed(b, a)
        /\ trades' = Append(trades, TradeOf(b, a))
        /\ RemoveFrom(PoolAfter(b, a), FilledIds(b, a))
  BY TradeHappens
<1> DEFINE bid == pool_[b.slot]
           ask == pool_[a.slot]
           pool == PoolAfter(b, a)
           t == TradeOf(b, a)
<1>2. /\ BookTypeOK /\ BookConsistent
      /\ \A e \in Resting : /\ e.slot \in Slot /\ e.price \in Price /\ e.at \in Nat
                             /\ pool_[e.slot] \in Order /\ pool_[e.slot] # Unused
      /\ b \in Resting /\ a \in Resting
  BY EntriesHaveOrders DEF EngineInv, TypeOK
<1>3. /\ bid \in Order /\ bid.is_buy /\ bid.price = b.price
      /\ ask \in Order /\ ~ask.is_buy /\ ask.price = a.price
      /\ b.slot # a.slot
  BY <1>2, EntriesHaveOrders
<1>4. IsBestBid(b) /\ IsBestAsk(a) /\ b.price >= a.price
  BY <1>1 DEF Crossed
<1>5. \A s \in Slot \ {b.slot, a.slot} : pool[s] = pool_[s]
  BY TradeFills
<1>6. SameOrders(pool)
  BY TradeFills
<1>7. BookTypeOK' /\ BookConsistent'
  BY <1>1, <1>2, <1>6, RemoveTypes, RemoveConsistent
<1>8. t \in TradeRecord /\ trades' = Append(trades, t)
  BY <1>1, TradeFills
<1>9. TypeOK'
  BY <1>7, <1>8 DEF EngineInv, TypeOK, Trade, loopVars
<1>10. /\ buy_orders_' \subseteq buy_orders_ /\ sell_orders_' \subseteq sell_orders_
       /\ inserted' = inserted
       /\ \A s \in Slot : pool_'[s] # Unused => pool_'[s] = pool[s]
  BY <1>1 DEF RemoveFrom
<1>11. \A e \in Resting' : e \in Resting /\ pool_'[e.slot] = pool[e.slot]
  BY <1>2, <1>7, <1>10 DEF BookConsistent, SlotsOwned, Resting
<1>12. /\ \A e \in Resting' : pool_'[e.slot].id = pool_[e.slot].id
       /\ InsertedBefore' /\ InsertedById' /\ CopiesAgree'
  BY <1>2, <1>6, <1>10, <1>11
  DEF EngineInv, InsertedBefore, InsertedById, CopiesAgree, SameOrders, Trade, loopVars
<1>13. TimePriority'
  <2>1. \A e \in buy_orders_ : e.price = b.price => bid.id <= pool_[e.slot].id
    <3> SUFFICES ASSUME NEW e \in buy_orders_, e.price = b.price
                 PROVE  b.at <= e.at
      BY <1>2 DEF EngineInv, InsertedById, Resting
    <3>1. e.price \in Int /\ b.price \in Int
      BY <1>2, PriceAssumption DEF Resting
    <3>2. QED
      BY <3>1, <1>4 DEF IsBestBid
  <2>2. \A e \in sell_orders_ : e.price = a.price => ask.id <= pool_[e.slot].id
    <3> SUFFICES ASSUME NEW e \in sell_orders_, e.price = a.price
                 PROVE  a.at <= e.at
      BY <1>2 DEF EngineInv, InsertedById, Resting
    <3>1. e.price \in Int /\ a.price \in Int
      BY <1>2, PriceAssumption DEF Resting
    <3>2. QED
      BY <3>1, <1>4 DEF IsBestAsk
  <2>3. Range(AllTrades') = Range(AllTrades) \cup {t}
    BY <1>8, RangeOfAppend DEF AllTrades, EngineInv, TypeOK, Trade
  <2>4. /\ orders_[bid.id].price = b.price /\ orders_[ask.id].price = a.price
        /\ orders_' = orders_ /\ t.buy = bid.id /\ t.sell = ask.id
    BY <1>2, <1>3 DEF EngineInv, CopiesAgree, Trade, loopVars, TradeOf
  <2>5. \A u \in Range(AllTrades) :
          /\ \A e \in buy_orders_ :
               orders_[u.buy].price = e.price => u.buy <= pool_[e.slot].id
          /\ \A e \in sell_orders_ :
               orders_[u.sell].price = e.price => u.sell <= pool_[e.slot].id
    BY DEF EngineInv, TimePriority
  <2>6. /\ \A e \in buy_orders_' : e \in buy_orders_ /\ e \in Resting'
        /\ \A e \in sell_orders_' : e \in sell_orders_ /\ e \in Resting'
    BY <1>10 DEF Resting
  <2> HIDE DEF bid, ask, pool, t
  <2>7. QED
    BY <2>1, <2>2, <2>3, <2>4, <2>5, <2>6, <1>12 DEF TimePriority
<1>14. WithinLimits'
  <2>1. Range(AllTrades') = Range(AllTrades) \cup {t}
    BY <1>8, RangeOfAppend DEF AllTrades, EngineInv, TypeOK, Trade
  <2>2. /\ bid.id \in DOMAIN orders_ /\ orders_[bid.id].is_buy
        /\ orders_[bid.id].price = b.price
        /\ ask.id \in DOMAIN orders_ /\ ~orders_[ask.id].is_buy
        /\ orders_[ask.id].price = a.price
    BY <1>2, <1>3 DEF EngineInv, CopiesAgree
  <2>3. a.price <= a.price /\ a.price <= b.price
    <3>1. a.price \in Int /\ b.price \in Int
      BY <1>2, PriceAssumption
    <3>2. QED
      BY <3>1, <1>4
  <2>4. orders_' = orders_
    BY DEF Trade, loopVars
  <2>5. QED
    BY <2>1, <2>2, <2>3, <2>4, <1>3 DEF EngineInv, WithinLimits, TradeOf
<1>15. QED
  BY <1>7, <1>9, <1>12, <1>13, <1>14 DEF EngineInv

LEMMA MatchEndStep ==
  ASSUME EngineInv, MatchEnd
  PROVE  EngineInv'
<1>1. /\ trades' = << >> /\ trades_' = trades_ \o trades
      /\ trades_' \in Seq(TradeRecord) /\ trades' \in Seq(TradeRecord)
  BY DEF MatchEnd, EngineInv, TypeOK
<1>2. AllTrades' = AllTrades
  BY <1>1 DEF AllTrades
<1>3. QED
  BY <1>1, <1>2 DEF MatchEnd, bookVars, EngineInv, TypeOK, BookTypeOK, BookConsistent,
     SlotsOwned, FiledCorrectly, LookupExact, Resting, InsertedBefore, InsertedById, CopiesAgree,
     TimePriority, WithinLimits

\* Flush and Done leave the book and the trades alone.
LEMMA IdleStep ==
  ASSUME EngineInv, Flush \/ UNCHANGED vars
  PROVE  EngineInv'
<1>1. UNCHANGED <<bookVars, tick, orders_, dropped, trades, trades_>>
      /\ phase' \in {"tick", "match", "done"} /\ file' \in Seq(TradeRecord)
  <2>1. CASE Flush
    <3>1. << >> \in Seq(TradeRecord) /\ trades_ \in Seq(TradeRecord)
      BY DEF EngineInv, TypeOK
    <3>2. QED
      BY <2>1, <3>1 DEF Flush
  <2>2. CASE UNCHANGED vars
    BY <2>2 DEF vars, loopVars, logVars, EngineInv, TypeOK
  <2>3. QED
    BY <2>1, <2>2
<1>2. QED
  BY <1>1 DEF bookVars, EngineInv, TypeOK, BookTypeOK,
     BookConsistent, SlotsOwned, FiledCorrectly, LookupExact, Resting, InsertedBefore, InsertedById,
     CopiesAgree, TimePriority, WithinLimits, AllTrades

(***************************************************************************)
(* The whole inductive invariant of the tick loop, for every pool and any  *)
(* number of ticks.                                                        *)
(***************************************************************************)
THEOREM EngineInvariant == Spec => []EngineInv
<1>1. EngineInv /\ [Next]_vars => EngineInv'
  BY TickStep, TradeStep, MatchEndStep, IdleStep DEF Next, Done
<1>2. QED
  BY EngineStart, <1>1, PTL DEF Spec
-----------------------------------------------------------------------------
(***************************************************************************)
(* Matching never breaks the book: whatever is traded and removed, pool,   *)
(* sides and lookup table agree, for any pool size and any feed.           *)
(***************************************************************************)
THEOREM EngineKeepsBook == Spec => [](TypeOK /\ BookConsistent)
<1>1. EngineInv => TypeOK /\ BookConsistent
  BY DEF EngineInv
<1>2. QED
  BY <1>1, EngineInvariant, PTL

(***************************************************************************)
(* As long as an order waits, every trade at its side and price is of an   *)
(* order that did not come after it, whether that one has left or not.     *)
(***************************************************************************)
THEOREM TimePriorityHolds == Spec => []TimePriority
<1>1. EngineInv => TimePriority
  BY DEF EngineInv
<1>2. QED
  BY <1>1, EngineInvariant, PTL

(***************************************************************************)
(* Every trade is within the limits of both its orders.                    *)
(***************************************************************************)
THEOREM TradesWithinLimits == Spec => []WithinLimits
<1>1. EngineInv => WithinLimits
  BY DEF EngineInv
<1>2. QED
  BY <1>1, EngineInvariant, PTL
-----------------------------------------------------------------------------
(***************************************************************************)
(* A nonempty finite set has an element that nothing precedes in a         *)
(* transitive, irreflexive relation: one whose predecessors are fewest.    *)
(***************************************************************************)
LEMMA FirstExists ==
  ASSUME NEW S, IsFiniteSet(S), S # {},
         NEW R,
         \A e \in S : <<e, e>> \notin R,
         \A d, e, f \in S : <<d, e>> \in R /\ <<e, f>> \in R => <<d, f>> \in R
  PROVE  \E e \in S : \A f \in S : <<f, e>> \notin R
<1> DEFINE Before(e) == {d \in S : <<d, e>> \in R}
           T == {Before(e) : e \in S}
<1>1. T \subseteq FiniteSubsetsOf(S) /\ T # {}
  <2>1. FiniteSubsetsOf(S) = SUBSET S
    BY FS_FiniteSubsetsOfFinite
  <2>2. T \subseteq SUBSET S
    OBVIOUS
  <2>3. T # {}
    <3>1. PICK e \in S : TRUE
      OBVIOUS
    <3>2. Before(e) \in T
      OBVIOUS
    <3>3. QED
      BY <3>2
  <2>4. QED
    BY <2>1, <2>2, <2>3
<1>2. PICK U \in T : \A V \in T : <<V, U>> \notin StrictSubsetOrdering(S)
  <2> HIDE DEF T
  <2>1. IsWellFoundedOn(StrictSubsetOrdering(S), FiniteSubsetsOf(S))
    BY FS_StrictSubsetOrderingWellFounded
  <2>2. QED
    BY <1>1, <2>1, WFMin
<1>3. PICK e \in S : U = Before(e)
  OBVIOUS
<1>4. ASSUME NEW f \in S, <<f, e>> \in R PROVE FALSE
  <2>1. Before(f) \subseteq Before(e) /\ Before(f) # Before(e)
    BY <1>4
  <2>2. <<Before(f), Before(e)>> \in StrictSubsetOrdering(S)
    BY <2>1 DEF StrictSubsetOrdering
  <2>3. Before(f) \in T
    OBVIOUS
  <2>4. QED
    BY <1>2, <1>3, <2>2, <2>3
<1>5. QED
  BY <1>4

LEMMA SidesFinite ==
  ASSUME BookTypeOK, BookConsistent
  PROVE  IsFiniteSet(buy_orders_) /\ IsFiniteSet(sell_orders_)
<1> DEFINE slot == [e \in Resting |-> e.slot]
<1>1. \A e \in Resting : e.slot \in Slot
  BY DEF BookTypeOK, Resting, Entry
<1>2. slot \in Injection(Resting, Slot)
  <2>1. slot \in [Resting -> Slot]
    BY <1>1
  <2>2. \A e, f \in Resting : slot[e] = slot[f] => e = f
    BY DEF BookConsistent, SlotsOwned
  <2> HIDE DEF slot
  <2>3. QED
    BY <2>1, <2>2, Fun_IsInj
<1>3. IsFiniteSet(Slot)
  BY PoolAssumption, FS_Interval DEF Slot
<1>4. IsFiniteSet(Resting)
  BY <1>2, <1>3, FS_Injection
<1>5. QED
  BY <1>4, FS_Subset DEF Resting

(***************************************************************************)
(* begin() of a side that is not empty is its best entry.                  *)
(***************************************************************************)
LEMMA BestExist ==
  ASSUME BookTypeOK, BookConsistent
  PROVE  /\ buy_orders_ # {} => \E b \in buy_orders_ : IsBestBid(b)
         /\ sell_orders_ # {} => \E a \in sell_orders_ : IsBestAsk(a)
<1>1. \A e \in Resting : e.price \in Int /\ e.at \in Nat
  BY PriceAssumption DEF BookTypeOK, Resting, Entry
<1>2. ASSUME buy_orders_ # {} PROVE \E b \in buy_orders_ : IsBestBid(b)
  <2> DEFINE R == {p \in buy_orders_ \X buy_orders_ :
                     \/ p[1].price > p[2].price
                     \/ p[1].price = p[2].price /\ p[1].at < p[2].at}
  <2>1. \A d, e \in buy_orders_ :
          <<d, e>> \in R <=> d.price > e.price \/ (d.price = e.price /\ d.at < e.at)
    OBVIOUS
  <2> HIDE DEF R
  <2>2. \A e \in buy_orders_ : e.price \in Int /\ e.at \in Nat
    BY <1>1 DEF Resting
  <2>3. PICK b \in buy_orders_ : \A f \in buy_orders_ : <<f, b>> \notin R
    <3>1. \A e \in buy_orders_ : <<e, e>> \notin R
      BY <2>1, <2>2
    <3>2. \A d, e, f \in buy_orders_ : <<d, e>> \in R /\ <<e, f>> \in R => <<d, f>> \in R
      BY <2>1, <2>2
    <3>3. QED
      BY <1>2, <3>1, <3>2, SidesFinite, FirstExists
  <2>4. ASSUME NEW f \in buy_orders_
        PROVE  f.price < b.price \/ (f.price = b.price /\ b.at <= f.at)
    <3>1. /\ f.price \in Int /\ f.at \in Nat /\ b.price \in Int /\ b.at \in Nat
      BY <2>2
    <3>2. <<f, b>> \notin R
      BY <2>3
    <3>3. QED
      BY <2>1, <3>1, <3>2
  <2>5. QED
    BY <2>4 DEF IsBestBid
<1>3. ASSUME sell_orders_ # {} PROVE \E a \in sell_orders_ : IsBestAsk(a)
  <2> DEFINE R == {p \in sell_orders_ \X sell_orders_ :
                     \/ p[1].price < p[2].price
                     \/ p[1].price = p[2].price /\ p[1].at < p[2].at}
  <2>1. \A d, e \in sell_orders_ :
          <<d, e>> \in R <=> d.price < e.price \/ (d.price = e.price /\ d.at < e.at)
    OBVIOUS
  <2> HIDE DEF R
  <2>2. \A e \in sell_orders_ : e.price \in Int /\ e.at \in Nat
    BY <1>1 DEF Resting
  <2>3. PICK a \in sell_orders_ : \A f \in sell_orders_ : <<f, a>> \notin R
    <3>1. \A e \in sell_orders_ : <<e, e>> \notin R
      BY <2>1, <2>2
    <3>2. \A d, e, f \in sell_orders_ : <<d, e>> \in R /\ <<e, f>> \in R => <<d, f>> \in R
      BY <2>1, <2>2
    <3>3. QED
      BY <1>3, <3>1, <3>2, SidesFinite, FirstExists
  <2>4. ASSUME NEW f \in sell_orders_
        PROVE  f.price > a.price \/ (f.price = a.price /\ a.at <= f.at)
    <3>1. /\ f.price \in Int /\ f.at \in Nat /\ a.price \in Int /\ a.at \in Nat
      BY <2>2
    <3>2. <<f, a>> \notin R
      BY <2>3
    <3>3. QED
      BY <2>1, <3>1, <3>2
  <2>5. QED
    BY <2>4 DEF IsBestAsk
<1>4. QED
  BY <1>2, <1>3

LEMMA MatchedToTheEnd ==
  ASSUME EngineInv, MatchEnd
  PROVE  NotCrossedAtRest'
<1>1. BookTypeOK /\ BookConsistent
  BY DEF EngineInv, TypeOK
<1>2. UNCHANGED <<buy_orders_, sell_orders_>>
  BY DEF MatchEnd, bookVars
<1>3. ASSUME NEW b \in buy_orders_, NEW a \in sell_orders_ PROVE b.price < a.price
  <2>1. PICK best \in buy_orders_ : IsBestBid(best)
    BY <1>1, <1>3, BestExist
  <2>2. PICK ask \in sell_orders_ : IsBestAsk(ask)
    BY <1>1, <1>3, BestExist
  <2>3. ~(best.price >= ask.price)
    BY <2>1, <2>2 DEF MatchEnd, Crossed
  <2>4. /\ b.price \in Int /\ best.price \in Int /\ a.price \in Int /\ ask.price \in Int
    BY <1>1, PriceAssumption DEF BookTypeOK, Entry
  <2>5. b.price <= best.price /\ ask.price <= a.price
    BY <2>1, <2>2, <2>4 DEF IsBestBid, IsBestAsk
  <2>6. QED
    BY <2>3, <2>4, <2>5
<1>4. QED
  BY <1>2, <1>3 DEF NotCrossedAtRest

(***************************************************************************)
(* Between ticks every bid is below every ask: match_orders only breaks    *)
(* out of its loop when its two begin() do not cross, and these bound the  *)
(* others, for any pool size and any feed.                                 *)
(***************************************************************************)
THEOREM BookRestsUncrossed == Spec => []NotCrossedAtRest
<1>1. Init => NotCrossedAtRest
  BY DEF Init, BookInit, NotCrossedAtRest
<1>2. EngineInv /\ NotCrossedAtRest /\ [Next]_vars => NotCrossedAtRest'
  <2> SUFFICES ASSUME EngineInv, NotCrossedAtRest, [Next]_vars PROVE NotCrossedAtRest'
    OBVIOUS
  <2>1. CASE Tick
    BY <2>1 DEF Tick, NotCrossedAtRest
  <2>2. CASE Trade
    BY <2>2 DEF Trade, loopVars, NotCrossedAtRest
  <2>3. CASE MatchEnd
    BY <2>3, MatchedToTheEnd
  <2>4. CASE Flush \/ UNCHANGED vars
    BY <2>4 DEF Flush, vars, loopVars, bookVars, NotCrossedAtRest
  <2>5. QED
    BY <2>1, <2>2, <2>3, <2>4 DEF Next, Done
<1>3. QED
  BY <1>1, <1>2, EngineInvariant, PTL DEF Spec
-----------------------------------------------------------------------------
(***************************************************************************)
(* A full pool between two ticks: nothing crosses, nothing has been traded *)
(* that is not logged.  An order that comes then is dropped, and the loop  *)
(* of match_orders breaks in its first iteration.                          *)
(***************************************************************************)
Exhausted == /\ FreeSlots = {}
             /\ \A b \in buy_orders_, a \in sell_orders_ : b.price < a.price
             /\ trades = << >>

LEMMA ExhaustedStays ==
  ASSUME EngineInv, Exhausted, [Next]_vars
  PROVE  Exhausted'
<1>1. CASE Tick
  <2>1. UNCHANGED bookVars
    BY <1>1 DEF Tick, InsertOrder, DropOrder, Exhausted
  <2>2. trades' = trades
    BY <1>1 DEF Tick, logVars
  <2>3. QED
    BY <2>1, <2>2 DEF bookVars, Exhausted, FreeSlots
<1>2. CASE Trade
  <2>1. PICK b \in buy_orders_, a \in sell_orders_ : b.price >= a.price
    BY <1>2 DEF Trade, Crossed
  <2>2. b.price \in Int /\ a.price \in Int /\ b.price < a.price
    BY PriceAssumption DEF EngineInv, TypeOK, BookTypeOK, Entry, Exhausted
  <2>3. QED
    BY <2>1, <2>2
<1>3. CASE MatchEnd \/ Flush \/ UNCHANGED vars
  <2>1. UNCHANGED bookVars /\ (trades' = trades \/ trades' = << >>)
    BY <1>3 DEF MatchEnd, Flush, vars, logVars
  <2>2. QED
    BY <2>1 DEF bookVars, Exhausted, FreeSlots
<1>4. QED
  BY <1>1, <1>2, <1>3 DEF Next, Done

(***************************************************************************)
(* match_orders returns its trades and they are logged before the next     *)
(* tick.                                                                   *)
(***************************************************************************)
TradesLogged == phase # "match" => trades = << >>

LEMMA TradesAreLogged == Spec => []TradesLogged
<1>1. Init => TradesLogged
  BY DEF Init, TradesLogged
<1>2. TradesLogged /\ [Next]_vars => TradesLogged'
  BY DEF TradesLogged, Next, Tick, Trade, MatchEnd, Flush, Done, vars, loopVars, logVars
<1>3. QED
  BY <1>1, <1>2, PTL DEF Spec

(***************************************************************************)
(* Once the pool is full between two ticks it stays full and nothing is    *)
(* traded any more, for any pool size and whatever the feed sends: the     *)
(* orders that rest do not cross, and new ones do not get in.              *)
(***************************************************************************)
THEOREM FullPoolStaysFull == Spec => FullPoolIsFinal
<1>1. EngineInv /\ Exhausted /\ [Next]_vars => Exhausted'
  BY ExhaustedStays
<1>2. NotCrossedAtRest /\ TradesLogged => (phase = "tick" /\ FreeSlots = {} => Exhausted)
  BY DEF NotCrossedAtRest, TradesLogged, Exhausted
<1>3. Exhausted => FreeSlots = {} /\ trades = << >>
  BY DEF Exhausted
<1>4. QED
  BY <1>1, <1>2, <1>3, EngineInvariant, BookRestsUncrossed, TradesAreLogged, PTL
  DEF Spec, FullPoolIsFinal
-----------------------------------------------------------------------------
(***************************************************************************)
(* What is inductive about the fills: the book's copy of an order has the  *)
(* manager's quantity, has filled what was traded of it, which is not yet  *)
(* all, and what was accepted and does not rest any more is traded.        *)
(***************************************************************************)
FillsCounted ==
  /\ \A d \in DOMAIN orders_ : IsFiniteSet(UnitsIn(AllTrades, d))
  /\ \A e \in Resting : LET o == pool_[e.slot]
                        IN  /\ o.quantity = orders_[o.id].quantity
                            /\ o.filled = Traded(o.id)
                            /\ o.filled < o.quantity
  /\ \A d \in Accepted \ DOMAIN id_lookup_ : Traded(d) >= orders_[d].quantity

LEMMA UnitsAppended ==
  ASSUME NEW log \in Seq(TradeRecord), NEW t \in TradeRecord, NEW id,
         IsFiniteSet(UnitsIn(log, id))
  PROVE  /\ IsFiniteSet(UnitsIn(Append(log, t), id))
         /\ Cardinality(UnitsIn(log, id)) \in Nat
         /\ Cardinality(UnitsIn(Append(log, t), id)) =
              Cardinality(UnitsIn(log, id)) + IF id \in {t.buy, t.sell} THEN t.quantity ELSE 0
<1> DEFINE n   == Len(log) + 1
           u   == UnitsIn(log, id)
           new == {n} \X (1 .. t.quantity)
<1>1. /\ DOMAIN log = 1 .. Len(log) /\ Len(log) \in Nat
      /\ DOMAIN Append(log, t) = 1 .. n
      /\ Append(log, t)[n] = t
      /\ \A k \in DOMAIN log : Append(log, t)[k] = log[k]
  OBVIOUS
<1>2. 1 .. n = DOMAIN log \cup {n} /\ n \notin DOMAIN log
  BY <1>1
<1>3. UnitsIn(Append(log, t), id) = u \cup IF id \in {t.buy, t.sell} THEN new ELSE {}
  BY <1>1, <1>2 DEF UnitsIn
<1>4. u \cap new = {}
  BY <1>2 DEF UnitsIn
<1>5. IsFiniteSet(new) /\ Cardinality(new) = t.quantity
  <2>1. t.quantity \in Nat /\ 1 \in Int
    BY DEF TradeRecord
  <2>2. IsFiniteSet(1 .. t.quantity) /\ Cardinality(1 .. t.quantity) = t.quantity
    <3>1. \A q \in Nat : IsFiniteSet(1 .. q) /\ Cardinality(1 .. q) = q
      BY FS_Interval
    <3>2. QED
      BY <2>1, <3>1
  <2>3. IsFiniteSet({n}) /\ Cardinality({n}) = 1
    BY FS_Singleton
  <2>4. /\ IsFiniteSet({n} \X (1 .. t.quantity))
        /\ Cardinality({n} \X (1 .. t.quantity)) = Cardinality({n}) * Cardinality(1 .. t.quantity)
    BY <2>2, <2>3, FS_Product
  <2>5. QED
    BY <2>1, <2>2, <2>3, <2>4
<1>6. Cardinality(u) \in Nat
  BY FS_CardinalityType
<1> HIDE DEF u, new
<1>7. CASE id \in {t.buy, t.sell}
  <2>1. /\ IsFiniteSet(u \cup new)
        /\ Cardinality(u \cup new) = Cardinality(u) + Cardinality(new) - Cardinality({})
    BY <1>4, <1>5, FS_Union DEF u
  <2>2. Cardinality({}) = 0
    BY FS_EmptySet
  <2>3. t.quantity \in Nat
    BY DEF TradeRecord
  <2>4. /\ UnitsIn(Append(log, t), id) = u \cup new
        /\ Cardinality(u \cup new) = Cardinality(u) + t.quantity
    BY <1>3, <1>5, <1>6, <1>7, <2>1, <2>2, <2>3
  <2>5. QED
    BY <1>6, <1>7, <2>1, <2>4 DEF u
<1>8. CASE id \notin {t.buy, t.sell}
  <2>1. UnitsIn(Append(log, t), id) = u
    BY <1>3, <1>8
  <2>2. QED
    BY <1>6, <1>8, <2>1 DEF u
<1>9. QED
  BY <1>7, <1>8

\* Filling an order changes what it has filled, and its status accordingly.
LEMMA UpdateFilledFills ==
  ASSUME NEW o \in Order, NEW n \in Nat \ {0}, o.filled \in Nat
  PROVE  /\ UpdateFilled(o, n).quantity = o.quantity
         /\ UpdateFilled(o, n).filled = o.filled + n
         /\ UpdateFilled(o, n).status = "Filled" <=> o.filled + n >= o.quantity
<1> DEFINE m == o.filled + n
           st == IF m = 0 THEN "New" ELSE IF m >= o.quantity THEN "Filled"
                 ELSE "PartiallyFilled"
<1>1. UpdateFilled(o, n) = [o EXCEPT !.filled = m, !.status = st]
  BY DEF UpdateFilled
<1>2. st = "Filled" <=> m >= o.quantity
  OBVIOUS
<1> HIDE DEF m, st
<1>3. /\ [o EXCEPT !.filled = m, !.status = st].quantity = o.quantity
      /\ [o EXCEPT !.filled = m, !.status = st].filled = m
      /\ [o EXCEPT !.filled = m, !.status = st].status = st
  BY DEF Order
<1>4. QED
  BY <1>1, <1>2, <1>3 DEF m

LEMMA TradesCounted ==
  ASSUME EngineInv, FillsCounted, Trade, NEW t \in TradeRecord, trades' = Append(trades, t)
  PROVE  \A d \in DOMAIN orders_ :
           /\ IsFiniteSet(UnitsIn(AllTrades', d))
           /\ Traded(d) \in Nat
           /\ Cardinality(UnitsIn(AllTrades', d))
                = Traded(d) + IF d \in {t.buy, t.sell} THEN t.quantity ELSE 0
<1>1. /\ trades \in Seq(TradeRecord) /\ trades_ \in Seq(TradeRecord) /\ trades_' = trades_
  BY DEF EngineInv, TypeOK, Trade
<1>2. AllTrades \in Seq(TradeRecord) /\ AllTrades' = Append(AllTrades, t)
  BY <1>1 DEF AllTrades
<1>3. QED
  BY <1>2, UnitsAppended DEF FillsCounted, Traded

LEMMA TradeCounts ==
  ASSUME EngineInv, EngineInv', FillsCounted, Trade
  PROVE  FillsCounted'
<1>1. PICK b \in buy_orders_, a \in sell_orders_ :
        /\ Crossed(b, a)
        /\ trades' = Append(trades, TradeOf(b, a))
        /\ RemoveFrom(PoolAfter(b, a), FilledIds(b, a))
  BY TradeHappens
<1> DEFINE bid == pool_[b.slot]
           ask == pool_[a.slot]
           qty == Fill(b, a)
           pool == PoolAfter(b, a)
           gone == FilledIds(b, a)
           Later(id) == Cardinality(UnitsIn(AllTrades', id))
<1>2. /\ \A e \in Resting : e.slot \in Slot /\ pool_[e.slot] \in Order
      /\ b \in Resting /\ a \in Resting /\ b.slot # a.slot /\ bid.id # ask.id
      /\ bid \in Order /\ ask \in Order
  BY EntriesHaveOrders
<1>3. /\ qty \in Nat \ {0} /\ TradeOf(b, a) \in TradeRecord /\ SameOrders(pool)
      /\ pool[b.slot] = UpdateFilled(bid, qty)
      /\ pool[a.slot] = UpdateFilled(ask, qty)
      /\ \A s \in Slot \ {b.slot, a.slot} : pool[s] = pool_[s]
  BY TradeFills
<1>4. /\ orders_' = orders_ /\ dropped' = dropped /\ Accepted' = Accepted
      /\ \A e \in Resting : pool_[e.slot].id \in DOMAIN orders_
  BY DEF Trade, loopVars, Accepted, EngineInv, CopiesAgree
<1>5. \A d \in DOMAIN orders_ :
        /\ IsFiniteSet(UnitsIn(AllTrades', d))
        /\ Traded(d) \in Nat
        /\ Later(d) = Traded(d) + IF d \in {bid.id, ask.id} THEN qty ELSE 0
  <2>1. TradeOf(b, a).buy = bid.id /\ TradeOf(b, a).sell = ask.id /\ TradeOf(b, a).quantity = qty
    BY DEF TradeOf
  <2>2. QED
    BY <1>1, <1>3, <2>1, TradesCounted
<1> HIDE DEF Later
<1>6. \A e \in {b, a} : LET o == pool_[e.slot]
                       IN  /\ pool[e.slot].id = o.id
                           /\ pool[e.slot].quantity = orders_[o.id].quantity
                           /\ pool[e.slot].filled = Later(o.id)
                           /\ pool[e.slot].status = "Filled" <=>
                                pool[e.slot].filled >= pool[e.slot].quantity
                           /\ pool[e.slot].filled \in Int /\ pool[e.slot].quantity \in Int
  <2>1. ASSUME NEW e \in {b, a}
        PROVE  LET o == pool_[e.slot]
               IN  /\ pool[e.slot].id = o.id
                   /\ pool[e.slot].quantity = orders_[o.id].quantity
                   /\ pool[e.slot].filled = Later(o.id)
                   /\ pool[e.slot].status = "Filled" <=>
                        pool[e.slot].filled >= pool[e.slot].quantity
                   /\ pool[e.slot].filled \in Int /\ pool[e.slot].quantity \in Int
    <3> DEFINE o == pool_[e.slot]
    <3>1. /\ e \in Resting /\ o \in Order /\ pool[e.slot] = UpdateFilled(o, qty)
          /\ o.id \in {bid.id, ask.id}
      BY <1>2, <1>3
    <3>2. /\ o.quantity = orders_[o.id].quantity /\ o.filled = Traded(o.id)
          /\ o.id \in DOMAIN orders_
      BY <3>1, <1>4 DEF FillsCounted
    <3>3. /\ o.filled \in Nat /\ o.quantity \in Int
          /\ Later(o.id) = o.filled + qty
      <4>1. o.quantity \in Int
        BY <3>1, QuantitiesPositive
      <4>2. QED
        BY <4>1, <3>1, <3>2, <1>5
    <3>4. /\ UpdateFilled(o, qty).quantity = o.quantity
          /\ UpdateFilled(o, qty).filled = o.filled + qty
          /\ UpdateFilled(o, qty).status = "Filled" <=> o.filled + qty >= o.quantity
      BY <3>1, <3>3, <1>3, UpdateFilledFills
    <3>5. UpdateFilled(o, qty).id = o.id
      BY <3>1, <1>3, UpdateFilledType
    <3> HIDE DEF o
    <3>6. QED
      BY <3>1, <3>2, <3>3, <3>4, <3>5, <1>3 DEF o
  <2>2. QED
    BY <2>1
<1>7. /\ DOMAIN id_lookup_' = DOMAIN id_lookup_ \ gone
      /\ \A e \in Resting' : e \in Resting /\ pool_'[e.slot] = pool[e.slot]
      /\ \A e \in Resting' : pool_'[e.slot].id \notin gone
  <2>1. /\ buy_orders_' \subseteq buy_orders_ /\ sell_orders_' \subseteq sell_orders_
        /\ \A s \in Slot : pool_'[s] # Unused => pool_'[s] = pool[s]
        /\ DOMAIN id_lookup_' = DOMAIN id_lookup_ \ gone
    BY <1>1 DEF RemoveFrom
  <2>2. /\ \A e \in Resting' : e.slot \in Slot /\ pool_'[e.slot] # Unused
        /\ \A e \in Resting' : pool_'[e.slot].id \in DOMAIN id_lookup_'
    BY <2>1, <1>2 DEF EngineInv, BookConsistent, SlotsOwned, LookupExact, Resting
  <2>3. QED
    BY <2>1, <2>2 DEF Resting
<1>8. \A d \in gone : \E e \in {b, a} : d = pool_[e.slot].id /\ pool[e.slot].status = "Filled"
  BY <1>6 DEF FilledIds
<1>9. \A e \in {b, a} : pool[e.slot].status = "Filled" => pool_[e.slot].id \in gone
  BY <1>6 DEF FilledIds
<1>10. ASSUME NEW e \in Resting'
       PROVE  LET o == pool_'[e.slot]
              IN  /\ o.quantity = orders_'[o.id].quantity
                  /\ o.filled = Later(o.id)
                  /\ o.filled < o.quantity
  <2>1. e \in Resting /\ pool_'[e.slot] = pool[e.slot] /\ pool_'[e.slot].id \notin gone
    BY <1>7
  <2>2. CASE e \in {b, a}
    BY <2>1, <2>2, <1>4, <1>6, <1>9
  <2>3. CASE e \notin {b, a}
    <3>1. e.slot \in Slot \ {b.slot, a.slot}
      BY <2>1, <2>3, <1>2 DEF EngineInv, BookConsistent, SlotsOwned
    <3>2. pool_[e.slot].id \notin {bid.id, ask.id}
      BY <2>1, <2>3, <1>2 DEF EngineInv, BookConsistent, LookupExact
    <3>3. /\ pool_'[e.slot] = pool_[e.slot] /\ pool_[e.slot].id \in DOMAIN orders_
          /\ Later(pool_[e.slot].id) = Traded(pool_[e.slot].id)
      BY <2>1, <3>1, <3>2, <1>3, <1>4, <1>5
    <3>4. QED
      BY <2>1, <3>3, <1>4 DEF FillsCounted
  <2>4. QED
    BY <2>2, <2>3
<1>11. ASSUME NEW d \in Accepted' \ DOMAIN id_lookup_'
       PROVE  Later(d) >= orders_'[d].quantity
  <2>1. d \in Accepted /\ d \in DOMAIN orders_
    BY <1>4 DEF Accepted
  <2>2. CASE d \in DOMAIN id_lookup_
    <3>1. d \in gone
      BY <2>2, <1>7
    <3>2. QED
      BY <3>1, <1>4, <1>6, <1>8
  <2>3. CASE d \notin DOMAIN id_lookup_
    <3>0. d \in DOMAIN orders_ /\ orders_[d] \in Order /\ Traded(d) >= orders_[d].quantity
      BY <2>1, <2>3 DEF FillsCounted, EngineInv, TypeOK
    <3>1. Traded(d) >= orders_[d].quantity /\ orders_[d].quantity \in Int
      BY <3>0, QuantitiesPositive
    <3>2. Traded(d) \in Nat /\ (Later(d) = Traded(d) + qty \/ Later(d) = Traded(d))
      BY <2>1, <1>3, <1>5
    <3>3. QED
      BY <3>1, <3>2, <1>3, <1>4
  <2>4. QED
    BY <2>2, <2>3
<1>12. QED
  BY <1>4, <1>5, <1>10, <1>11 DEF FillsCounted, Traded, Later

LEMMA TickCounts ==
  ASSUME EngineInv, FillsCounted, Tick
  PROVE  FillsCounted'
<1>1. PICK symbol \in Symbol, price \in Price, quantity \in Quantity, b \in BOOLEAN :
        LET o == NewOrder(tick, symbol, price, quantity, b)
        IN  /\ orders_' = [d \in DOMAIN orders_ \cup {tick} |->
                             IF d = tick THEN o ELSE orders_[d]]
            /\ \/ InsertOrder(o) /\ UNCHANGED dropped
               \/ DropOrder /\ dropped' = dropped \cup {tick}
  BY DEF Tick
<1> DEFINE o == NewOrder(tick, symbol, price, quantity, b)
<1>2. /\ tick \notin DOMAIN orders_
      /\ DOMAIN orders_' = DOMAIN orders_ \cup {tick}
      /\ \A d \in DOMAIN orders_ : orders_'[d] = orders_[d]
      /\ orders_'[tick] = o
  BY <1>1 DEF EngineInv, TypeOK
<1>3. o.id = tick /\ o.filled = 0 /\ o.quantity = quantity /\ quantity \in Nat \ {0}
  BY QuantityAssumption DEF NewOrder
<1> HIDE DEF o
<1>4. AllTrades' = AllTrades
  BY DEF Tick, logVars, AllTrades
<1>5. UnitsIn(AllTrades, tick) = {}
  <2>1. \A k \in DOMAIN AllTrades : tick \notin {AllTrades[k].buy, AllTrades[k].sell}
    BY <1>2 DEF EngineInv, WithinLimits, Range
  <2>2. QED
    BY <2>1 DEF UnitsIn
<1>6. Cardinality(UnitsIn(AllTrades, tick)) = 0
  BY <1>5, FS_EmptySet
<1>7. \A d \in DOMAIN orders_' : IsFiniteSet(UnitsIn(AllTrades', d))
  BY <1>2, <1>4, <1>5, FS_EmptySet DEF FillsCounted
<1>8. \A e \in Resting : /\ pool_[e.slot].id \in DOMAIN orders_
                        /\ orders_'[pool_[e.slot].id] = orders_[pool_[e.slot].id]
  BY <1>2 DEF EngineInv, CopiesAgree
<1>9. CASE DropOrder /\ dropped' = dropped \cup {tick}
  <2>1. UNCHANGED bookVars /\ Resting' = Resting /\ Accepted' \subseteq Accepted
    BY <1>2, <1>9 DEF DropOrder, bookVars, Resting, Accepted
  <2>2. \A d \in Accepted : orders_'[d] = orders_[d]
    BY <1>2 DEF Accepted
  <2>3. QED
    BY <1>4, <1>7, <1>8, <2>1, <2>2 DEF FillsCounted, Traded, bookVars
<1>10. CASE InsertOrder(o) /\ UNCHANGED dropped
  <2>1. PICK s \in FreeSlots :
          LET e == [price |-> o.price, at |-> inserted, slot |-> s]
          IN  /\ Resting' = Resting \cup {e}
              /\ DOMAIN id_lookup_' = DOMAIN id_lookup_ \cup {o.id}
              /\ pool_' = [pool_ EXCEPT ![s] = o]
    BY <1>10 DEF InsertOrder, Resting
  <2> DEFINE e == [price |-> o.price, at |-> inserted, slot |-> s]
  <2>2. /\ pool_'[s] = o /\ e.slot = s
        /\ \A f \in Resting : pool_'[f.slot] = pool_[f.slot]
    BY <2>1 DEF EngineInv, TypeOK, BookTypeOK, BookConsistent, SlotsOwned, FreeSlots,
       Entry, Resting
  <2>3. ASSUME NEW f \in Resting'
        PROVE  LET r == pool_'[f.slot]
               IN  /\ r.quantity = orders_'[r.id].quantity
                   /\ r.filled = Cardinality(UnitsIn(AllTrades', r.id))
                   /\ r.filled < r.quantity
    <3>1. CASE f \in Resting
      BY <3>1, <2>2, <1>4, <1>8 DEF FillsCounted, Traded
    <3>2. CASE f = e
      <4>1. pool_'[f.slot] = o
        BY <3>2, <2>2
      <4>2. QED
        BY <4>1, <1>2, <1>3, <1>4, <1>6
    <3>3. QED
      BY <3>1, <3>2, <2>1
  <2>4. ASSUME NEW d \in Accepted' \ DOMAIN id_lookup_'
        PROVE  Cardinality(UnitsIn(AllTrades', d)) >= orders_'[d].quantity
    <3>1. d \in Accepted \ DOMAIN id_lookup_ /\ orders_'[d] = orders_[d]
      BY <1>2, <1>3, <1>10, <2>1 DEF Accepted
    <3>2. QED
      BY <3>1, <1>4 DEF FillsCounted, Traded
  <2>5. QED
    BY <1>7, <2>3, <2>4 DEF FillsCounted, Traded
<1>11. QED
  BY <1>1, <1>9, <1>10 DEF o

LEMMA OtherStepsCount ==
  ASSUME EngineInv, FillsCounted, MatchEnd \/ Flush \/ UNCHANGED vars
  PROVE  FillsCounted'
<1>1. AllTrades' = AllTrades
  <2>1. trades_ \in Seq(TradeRecord) /\ trades \in Seq(TradeRecord)
    BY DEF EngineInv, TypeOK
  <2>2. CASE MatchEnd
    BY <2>1, <2>2 DEF MatchEnd, AllTrades
  <2>3. CASE Flush \/ UNCHANGED vars
    BY <2>3 DEF Flush, vars, logVars, AllTrades
  <2>4. QED
    BY <2>2, <2>3
<1>2. UNCHANGED <<bookVars, orders_, dropped>>
  BY DEF MatchEnd, Flush, vars, loopVars
<1>3. QED
  BY <1>1, <1>2 DEF FillsCounted, bookVars, Resting, Accepted, Traded

(***************************************************************************)
(* An order leaves the book exactly when all of it is traded: what rests   *)
(* has filled just what was traded of it and is short of its quantity, and *)
(* an accepted order that does not rest any more has traded at least all,  *)
(* for any pool size, quantities and feed.                                 *)
(***************************************************************************)
THEOREM OrdersLeaveWhenFilled == Spec => []LeavesWhenFilled
<1>1. Init => FillsCounted
  BY DEF Init, BookInit, FillsCounted, Resting, Accepted
<1>2. EngineInv /\ EngineInv' /\ FillsCounted /\ [Next]_vars => FillsCounted'
  BY TickCounts, TradeCounts, OtherStepsCount DEF Next, Done
<1>3. EngineInv /\ FillsCounted => LeavesWhenFilled
  BY DEF EngineInv, BookConsistent, LookupExact, FillsCounted, LeavesWhenFilled
<1>4. QED
  BY <1>1, <1>2, <1>3, EngineInvariant, PTL DEF Spec
=============================================================================
