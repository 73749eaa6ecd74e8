------------------------------ MODULE TradeSim ------------------------------
(***************************************************************************)
(* The simulation of Phase_3: main() replays a feed, one event at a time.  *)
(* A market event updates the snapshot, an execution report fills an       *)
(* order, and after every event, whatever it was, the strategy sells to    *)
(* the best bid if that is above 100.00 and not the price it sold at last. *)
(*                                                                         *)
(* Any sequence of at most MaxEvents events is a feed: reports may come    *)
(* before the order they name, for orders that do not exist and for more   *)
(* than an order has left.  Lines that are no event, or an incomplete one, *)
(* are dropped by load_feed before the loop begins.  cancel() of the       *)
(* order manager is called by nothing.                                     *)
(***************************************************************************)
EXTENDS Integers, Sequences, FiniteSetsExt, SequencesExt

CONSTANTS Price, Quantity,  \* of market events
          Filled,           \* quantities of execution reports
          OrderId,          \* the ids they name
          Threshold,        \* 100.00
          Lot,              \* 50, what the strategy sells
          None,             \* no price
          MaxEvents

ASSUME FeedAssumption ==
  /\ Price \subseteq Nat   \* as far as it is ordered
  /\ Quantity \subseteq Nat
  /\ Filled \subseteq Nat
  /\ None \notin Price
  /\ MaxEvents \in Nat

VARIABLES bids, asks,       \* price -> quantity, for the levels there are
          orders,           \* the order manager's orders, by id: 1, 2, ...
          last_sell_price,
          feed              \* history: the events so far

tradeVars == <<bids, asks, orders, last_sell_price, feed>>

TradeInit ==
  /\ bids = << >>
  /\ asks = << >>
  /\ orders = << >>
  /\ last_sell_price = None
  /\ feed = << >>
-----------------------------------------------------------------------------
\* Mutant: an empty level stays in the snapshot.
UpdatedKeepingEmpty(levels, p, q) ==
  [r \in DOMAIN levels \cup {p} |-> IF r = p THEN q ELSE levels[r]]

\* update_bid and update_ask: a level without quantity is erased.
Updated(levels, p, q) ==
  [r \in IF q = 0 THEN DOMAIN levels \ {p} ELSE DOMAIN levels \cup {p} |->
     IF r = p THEN q ELSE levels[r]]

BestBid(levels) == IF DOMAIN levels = {} THEN None ELSE Max(DOMAIN levels)

NewOrder(p) == [price |-> p, quantity |-> Lot, filled |-> 0, status |-> "New"]

\* Mutant: the strategy forgets the price it sold at when it does not sell.
StrategyForgetful(levels, placed) ==
  LET best == BestBid(levels)
  IN  IF best # None /\ best > Threshold /\ best # last_sell_price
        THEN orders' = Append(placed, NewOrder(best)) /\ last_sell_price' = best
        ELSE orders' = placed /\ last_sell_price' = None

\* The second half of the loop body, for the snapshot and the orders that the
\* event has left.
Strategy(levels, placed) ==
  LET best == BestBid(levels)
  IN  IF best # None /\ best > Threshold /\ best # last_sell_price
        THEN orders' = Append(placed, NewOrder(best)) /\ last_sell_price' = best
        ELSE orders' = placed /\ UNCHANGED last_sell_price

\* Mutant: a fill of a filled order makes it partially filled.
FilledByEqual(o, q) ==
  [o EXCEPT !.filled = @ + q,
            !.status = IF o.filled + q = o.quantity THEN "Filled" ELSE "PartiallyFilled"]

\* handle_fill for an order that exists
FilledBy(o, q) ==
  [o EXCEPT !.filled = @ + q,
            !.status = IF o.filled + q >= o.quantity THEN "Filled" ELSE "PartiallyFilled"]

Note(event) == Len(feed) < MaxEvents /\ feed' = Append(feed, event)

Bid(p, q) ==
  /\ Note([type |-> "BID", price |-> p, quantity |-> q])
  /\ bids' = Updated(bids, p, q)
  /\ Strategy(bids', orders)
  /\ UNCHANGED asks

Ask(p, q) ==
  /\ Note([type |-> "ASK", price |-> p, quantity |-> q])
  /\ asks' = Updated(asks, p, q)
  /\ Strategy(bids, orders)
  /\ UNCHANGED bids

Execution(id, q) ==
  /\ Note([type |-> "EXECUTION", order_id |-> id, quantity |-> q])
  /\ Strategy(bids, IF id \in DOMAIN orders
                      THEN [orders EXCEPT ![id] = FilledBy(@, q)] ELSE orders)
  /\ UNCHANGED <<bids, asks>>

TradeNext == \/ \E p \in Price, q \in Quantity : Bid(p, q) \/ Ask(p, q)
             \/ \E id \in OrderId, q \in Filled : Execution(id, q)

TradeSpec == TradeInit /\ [][TradeNext]_tradeVars
-----------------------------------------------------------------------------
(***************************************************************************)
(* Types; no level is empty.                                               *)
(***************************************************************************)
Levels  == UNION {[P -> Quantity \ {0}] : P \in SUBSET Price}
MyOrder == [price : Price, quantity : {Lot}, filled : Nat,
            status : {"New", "PartiallyFilled", "Filled"}]
Event   == [type : {"BID", "ASK"}, price : Price, quantity : Quantity] \cup
           [type : {"EXECUTION"}, order_id : OrderId, quantity : Filled]

TradeTypeOK ==
  /\ bids \in Levels /\ asks \in Levels
  /\ orders \in Seq(MyOrder)
  /\ last_sell_price \in Price \cup {None}
  /\ feed \in Seq(Event) /\ Len(feed) <= MaxEvents

(***************************************************************************)
(* The same facts computed from the feed alone: the levels after its first *)
(* k events are the last updates of each price, and event k is a sale when *)
(* it leaves a best bid above the threshold at which the strategy did not  *)
(* sell, or would have sold at another such price since.                   *)
(***************************************************************************)
Updates(type, p, k) == {j \in 1 .. k : feed[j].type = type /\ feed[j].price = p}

LastUpdate(type, p, k) == feed[Max(Updates(type, p, k))].quantity

LevelsAfter(type, k) ==
  [p \in {p \in Price : Updates(type, p, k) # {} /\ LastUpdate(type, p, k) # 0} |->
     LastUpdate(type, p, k)]

Tops == [k \in 1 .. Len(feed) |-> BestBid(LevelsAfter("BID", k))]

\* The strategy would sell at this price, had it not done so before.
Above(p) == p # None /\ p > Threshold

Sales(k) ==
  LET tops == Tops
  IN  {n \in 1 .. k :
         /\ Above(tops[n])
         /\ \A j \in 1 .. n - 1 : tops[j] = tops[n] =>
              \E i \in j .. n : Above(tops[i]) /\ tops[i] # tops[n]}

\* The order that event k places when it is a sale
PlacedBy(k) == Cardinality(Sales(k))

(***************************************************************************)
(* The snapshot is what the feed said last of each price, on both sides.   *)
(***************************************************************************)
BookIsLastUpdate == /\ bids = LevelsAfter("BID", Len(feed))
                    /\ asks = LevelsAfter("ASK", Len(feed))

(***************************************************************************)
(* The strategy sells once for every change of the best bid to another     *)
(* price above the threshold: not again when only quantities change, when  *)
(* asks or executions come in, or when a bid comes back at the price last  *)
(* sold at, which is the latest best bid above the threshold there was.    *)
(***************************************************************************)
LastSold ==
  LET n    == Len(feed)
      tops == Tops
  IN  \/ last_sell_price = None /\ \A k \in 1 .. n : ~Above(tops[k])
      \/ \E k \in 1 .. n : /\ Above(tops[k]) /\ last_sell_price = tops[k]
                           /\ \A j \in k + 1 .. n : ~Above(tops[j])

SellsOncePerTop ==
  /\ Len(orders) = Cardinality(Sales(Len(feed)))
  /\ \A k \in Sales(Len(feed)) : orders[PlacedBy(k)].price = Tops[k]
  /\ LastSold

(***************************************************************************)
(* An order has filled what the reports that named it said since it was    *)
(* placed, counted unit by unit: an early report is lost, a late one still *)
(* counts, and the status says whether it is enough.                       *)
(***************************************************************************)
Reports(id) == {k \in 1 .. Len(feed) : /\ feed[k].type = "EXECUTION"
                                      /\ feed[k].order_id = id
                                      /\ \E j \in Sales(k - 1) : PlacedBy(j) = id}

UnitsReported(id) == UNION {{k} \X (1 .. feed[k].quantity) : k \in Reports(id)}

FillsAccounted ==
  \A id \in DOMAIN orders :
    /\ orders[id].filled = Cardinality(UnitsReported(id))
    /\ orders[id].status = IF Reports(id) = {} THEN "New"
                           ELSE IF orders[id].filled >= Lot THEN "Filled"
                           ELSE "PartiallyFilled"
=============================================================================
