----------------------------- MODULE OrderBook -----------------------------
(***************************************************************************)
(* The limit order book of Phase_4: orders live in the slots of a          *)
(* MemoryPool, the two sides are multimaps that own the slots, id_lookup_  *)
(* finds an order's place in its side.                                     *)
(*                                                                         *)
(* A place in a multimap is a record of the key it was inserted under, its *)
(* insertion number and the slot of the order it owns.  begin() of a       *)
(* std::multimap is the entry with the first key and, among equal keys,    *)
(* the earliest insertion.  An iterator is the entry it points at.         *)
(***************************************************************************)
EXTENDS Integers, FiniteSets, Sequences

CONSTANTS PoolSize,   \* constructor argument pool_size
          Id, Symbol, Price, Quantity,
          Unused      \* the content of a slot that is not in use

ASSUME PoolAssumption == PoolSize \in Nat

VARIABLES pool_,         \* slot -> the order in it, or Unused
          buy_orders_,   \* entries of the buy side
          sell_orders_,  \* entries of the sell side
          id_lookup_,    \* id -> entry, for the ids in the book
          inserted       \* how many insertions the multimaps have seen

bookVars == <<pool_, buy_orders_, sell_orders_, id_lookup_, inserted>>

Slot   == 0 .. PoolSize - 1
Status == {"New", "PartiallyFilled", "Filled", "Cancelled"}
Order  == [id : Id, symbol : Symbol, price : Price, quantity : Quantity,
           filled : Int, is_buy : BOOLEAN, status : Status]
Entry  == [price : Price, at : Nat, slot : Slot]

ASSUME UnusedAssumption == Unused \notin Order

\* Mutant: price and quantity change places.
NewOrderSwapped(id, symbol, price, quantity, is_buy) ==
  [id |-> id, symbol |-> symbol, price |-> quantity, quantity |-> price,
   filled |-> 0, is_buy |-> is_buy, status |-> "New"]

NewOrder(id, symbol, price, quantity, is_buy) ==
  [id |-> id, symbol |-> symbol, price |-> price, quantity |-> quantity,
   filled |-> 0, is_buy |-> is_buy, status |-> "New"]

BookInit ==
  /\ pool_ = [s \in Slot |-> Unused]
  /\ buy_orders_ = {}
  /\ sell_orders_ = {}
  /\ id_lookup_ = << >>
  /\ inserted = 0
-----------------------------------------------------------------------------
FreeSlots == {s \in Slot : pool_[s] = Unused}
Resting   == buy_orders_ \cup sell_orders_

\* add_order when allocate() finds its first free slot.
InsertOrder(o) ==
  \E s \in FreeSlots :
    /\ \A r \in FreeSlots : s <= r
    /\ LET e == [price |-> o.price, at |-> inserted, slot |-> s]
       IN  /\ IF o.is_buy
                THEN buy_orders_' = buy_orders_ \cup {e} /\ UNCHANGED sell_orders_
                ELSE sell_orders_' = sell_orders_ \cup {e} /\ UNCHANGED buy_orders_
           /\ id_lookup_' = [d \in DOMAIN id_lookup_ \cup {o.id} |->
                               IF d = o.id THEN e ELSE id_lookup_[d]]
    /\ pool_' = [pool_ EXCEPT ![s] = o]
    /\ inserted' = inserted + 1

\* Mutant: an exhausted pool starts over with its first slot.
DropFirst ==
  /\ FreeSlots = {}
  /\ LET gone == {e \in Resting : e.slot = 0}
     IN  /\ buy_orders_' = buy_orders_ \ gone
         /\ sell_orders_' = sell_orders_ \ gone
         /\ id_lookup_' = [d \in {d \in DOMAIN id_lookup_ : id_lookup_[d] \notin gone}
                             |-> id_lookup_[d]]
  /\ pool_' = [s \in Slot |-> IF s = 0 THEN Unused ELSE pool_[s]]
  /\ UNCHANGED inserted

\* add_order when the pool is exhausted: a message, and the order is gone.
DropOrder == FreeSlots = {} /\ UNCHANGED bookVars

AddOrder(o) == InsertOrder(o) \/ DropOrder

\* remove_order for each id in ids, on a pool whose orders may have been
\* updated since: erasing an entry runs the deleter, which frees its slot.
EntriesOf(ids) == {id_lookup_[d] : d \in ids \cap DOMAIN id_lookup_}

\* Mutant: the erased entry stays in id_lookup_.
RemoveKeepingLookup(pool, ids) ==
  LET erased == EntriesOf(ids)
  IN  /\ buy_orders_' = buy_orders_ \ {e \in erased : pool[e.slot].is_buy}
      /\ sell_orders_' = sell_orders_ \ {e \in erased : ~pool[e.slot].is_buy}
      /\ pool_' = [s \in Slot |-> IF \E e \in erased : e.slot = s THEN Unused ELSE pool[s]]
      /\ UNCHANGED <<id_lookup_, inserted>>

RemoveFrom(pool, ids) ==
  LET erased == EntriesOf(ids)
  IN  /\ buy_orders_' = buy_orders_ \ {e \in erased : pool[e.slot].is_buy}
      /\ sell_orders_' = sell_orders_ \ {e \in erased : ~pool[e.slot].is_buy}
      /\ pool_' = [s \in Slot |-> IF \E e \in erased : e.slot = s THEN Unused ELSE pool[s]]
      /\ id_lookup_' = [d \in DOMAIN id_lookup_ \ ids |-> id_lookup_[d]]
      /\ UNCHANGED inserted

RemoveOrder(id) == RemoveFrom(pool_, {id})

\* Mutant: last in, first out at one price.
IsLatestBid(e) ==
  /\ e \in buy_orders_
  /\ \A f \in buy_orders_ : f.price < e.price \/ (f.price = e.price /\ e.at >= f.at)

IsBestBid(e) ==
  /\ e \in buy_orders_
  /\ \A f \in buy_orders_ : f.price < e.price \/ (f.price = e.price /\ e.at <= f.at)

IsBestAsk(e) ==
  /\ e \in sell_orders_
  /\ \A f \in sell_orders_ : f.price > e.price \/ (f.price = e.price /\ e.at <= f.at)
-----------------------------------------------------------------------------
\* Any caller that keeps to "@param id Unique order identifier".
BookNext ==
  \/ \E id \in Id, symbol \in Symbol, price \in Price, quantity \in Quantity, b \in BOOLEAN :
        /\ id \notin DOMAIN id_lookup_
        /\ AddOrder(NewOrder(id, symbol, price, quantity, b))
  \/ \E id \in Id : RemoveOrder(id)

BookSpec == BookInit /\ [][BookNext]_bookVars
-----------------------------------------------------------------------------
(***************************************************************************)
(* Types of the pool, the two sides and the lookup table.                  *)
(***************************************************************************)
BookTypeOK ==
  /\ pool_ \in [Slot -> Order \cup {Unused}]
  /\ buy_orders_ \subseteq Entry
  /\ sell_orders_ \subseteq Entry
  /\ DOMAIN id_lookup_ \subseteq Id
  /\ \A d \in DOMAIN id_lookup_ : id_lookup_[d] \in Entry
  /\ inserted \in Nat

(***************************************************************************)
(* The pool leaks no slot and no slot is handed out twice: the slots in    *)
(* use are exactly those the entries own, one entry each.                  *)
(***************************************************************************)
SlotsOwned ==
  /\ \A s \in Slot : pool_[s] # Unused <=> \E e \in Resting : e.slot = s
  /\ \A e, f \in Resting : e.slot = f.slot => e = f

(***************************************************************************)
(* Every order rests on its own side under its own price.                  *)
(***************************************************************************)
FiledCorrectly ==
  /\ \A e \in buy_orders_  : pool_[e.slot].is_buy /\ pool_[e.slot].price = e.price
  /\ \A e \in sell_orders_ : ~pool_[e.slot].is_buy /\ pool_[e.slot].price = e.price

(***************************************************************************)
(* id_lookup_ knows exactly the resting orders, and never holds an         *)
(* iterator to an erased entry.                                            *)
(***************************************************************************)
LookupExact ==
  /\ \A e \in Resting : /\ pool_[e.slot].id \in DOMAIN id_lookup_
                        /\ id_lookup_[pool_[e.slot].id] = e
  /\ \A d \in DOMAIN id_lookup_ : /\ id_lookup_[d] \in Resting
                                  /\ pool_[id_lookup_[d].slot].id = d

BookConsistent == SlotsOwned /\ FiledCorrectly /\ LookupExact
=============================================================================
