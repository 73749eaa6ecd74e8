--------------------------- MODULE MatchingEngine ---------------------------
(***************************************************************************)
(* The tick loop of Phase_4/test/test_latency.cpp around the order book:   *)
(* every tick creates an order in the OrderManager, copies it into the     *)
(* book, lets MatchingEngine::match_orders run to its end, one loop        *)
(* iteration per step, and logs the trades it returned; the log is flushed *)
(* to a file at the end.                                                   *)
(***************************************************************************)
EXTENDS OrderBook, FiniteSets, Functions

CONSTANT NumTicks

ASSUME TicksAssumption    == NumTicks \in Nat /\ 0 .. NumTicks - 1 \subseteq Id
ASSUME QuantityAssumption == Quantity \subseteq Nat \ {0}   \* qtyDist(1,100)
ASSUME PriceAssumption    == Price \subseteq Int            \* as far as it is ordered

VARIABLES tick,      \* the loop variable, and the next order id
          phase,     \* "tick", "match" or "done"
          orders_,   \* the OrderManager's orders: id -> its own copy
          trades,    \* local to match_orders
          trades_,   \* the TradeLogger's buffer
          file,      \* trade_log.csv
          dropped    \* history: ids the book refused

loopVars == <<tick, phase, orders_, dropped>>
logVars  == <<trades, trades_, file>>
vars == <<bookVars, loopVars, logVars>>

Init ==
  /\ BookInit
  /\ tick = 0
  /\ phase = "tick"
  /\ orders_ = << >>
  /\ trades = << >>
  /\ trades_ = << >>
  /\ file = << >>
  /\ dropped = {}

\* create_order, get_order and add_order of one tick.
Tick ==
  /\ phase = "tick"
  /\ tick < NumTicks
  /\ \E symbol \in Symbol, price \in Price, quantity \in Quantity, b \in BOOLEAN :
        LET o == NewOrder(tick, symbol, price, quantity, b)
        IN  /\ orders_' = [d \in DOMAIN orders_ \cup {tick} |->
                             IF d = tick THEN o ELSE orders_[d]]
            /\ \/ InsertOrder(o) /\ UNCHANGED dropped
               \/ DropOrder /\ dropped' = dropped \cup {tick}
  /\ tick' = tick + 1
  /\ phase' = "match"
  /\ UNCHANGED logVars

\* Mutant: any fill is a complete fill.
FilledAtOnce(o, fill_quantity) ==
  [o EXCEPT !.filled = @ + fill_quantity, !.status = "Filled"]

\* Order::update_filled
UpdateFilled(o, fill_quantity) ==
  LET filled == o.filled + fill_quantity
  IN  [o EXCEPT !.filled = filled,
                !.status = IF filled = 0 THEN "New"
                           ELSE IF filled >= o.quantity THEN "Filled"
                           ELSE "PartiallyFilled"]

TradeQuantity(bid, ask) ==
  IF bid.quantity <= ask.quantity THEN bid.quantity ELSE ask.quantity

\* Mutants: prices that meet do not cross; prices are not compared at all.
CrossedBeyond(b, a) == IsBestBid(b) /\ IsBestAsk(a) /\ b.price > a.price
CrossedAlways(b, a) == IsBestBid(b) /\ IsBestAsk(a)

Crossed(b, a) == IsBestBid(b) /\ IsBestAsk(a) /\ b.price >= a.price

\* One iteration of match_orders that trades.
Trade ==
  /\ phase = "match"
  /\ \E b \in buy_orders_, a \in sell_orders_ :
       /\ Crossed(b, a)
       /\ LET bid  == pool_[b.slot]
              ask  == pool_[a.slot]
              qty  == TradeQuantity(bid, ask)
              pool == [pool_ EXCEPT ![b.slot] = UpdateFilled(bid, qty),
                                    ![a.slot] = UpdateFilled(ask, qty)]
          IN  /\ trades' = Append(trades, [buy |-> bid.id, sell |-> ask.id,
                                           price |-> ask.price, quantity |-> qty])
              /\ RemoveFrom(pool, {pool[s].id : s \in
                                     {s \in {b.slot, a.slot} : pool[s].status = "Filled"}})
  /\ UNCHANGED <<loopVars, trades_, file>>

\* Mutant: the loop continues where it should break.
MatchGoesOn ==
  /\ phase = "match"
  /\ ~\E b \in buy_orders_, a \in sell_orders_ : Crossed(b, a)
  /\ trades_' = trades_ \o trades
  /\ trades' = << >>
  /\ UNCHANGED <<bookVars, phase, tick, orders_, dropped, file>>

\* The iteration that breaks out of the loop, and the log_trade calls after it.
MatchEnd ==
  /\ phase = "match"
  /\ ~\E b \in buy_orders_, a \in sell_orders_ : Crossed(b, a)
  /\ phase' = "tick"
  /\ trades_' = trades_ \o trades
  /\ trades' = << >>
  /\ UNCHANGED <<bookVars, tick, orders_, dropped, file>>

\* flush_to_file: nothing is written when the file cannot be opened.
Flush ==
  /\ phase = "tick"
  /\ tick = NumTicks
  /\ phase' = "done"
  /\ file' \in {trades_, << >>}
  /\ UNCHANGED <<bookVars, tick, orders_, dropped, trades, trades_>>

Done == phase = "done" /\ UNCHANGED vars

Next == Tick \/ Trade \/ MatchEnd \/ Flush \/ Done

Spec == Init /\ [][Next]_vars /\ WF_vars(Next)
-----------------------------------------------------------------------------
TradeRecord == [buy : Id, sell : Id, price : Price, quantity : Nat]

AllTrades == trades_ \o trades

\* What has been traded of an order so far, counted unit by unit.
UnitsIn(log, id) ==
  UNION {{k} \X (1 .. log[k].quantity) :
           k \in {k \in DOMAIN log : id \in {log[k].buy, log[k].sell}}}

Traded(id) == Cardinality(UnitsIn(AllTrades, id))

Accepted == DOMAIN orders_ \ dropped

(***************************************************************************)
(* Types of the loop's and the logger's state.                             *)
(***************************************************************************)
TypeOK ==
  /\ BookTypeOK
  /\ tick \in 0 .. NumTicks
  /\ phase \in {"tick", "match", "done"}
  /\ DOMAIN orders_ = 0 .. tick - 1
  /\ \A d \in DOMAIN orders_ : orders_[d] \in Order
  /\ trades \in Seq(TradeRecord)
  /\ trades_ \in Seq(TradeRecord)
  /\ file \in Seq(TradeRecord)
  /\ dropped \subseteq DOMAIN orders_

(***************************************************************************)
(* Between ticks the book is not crossed: match_orders leaves no bid at or *)
(* above an ask, whatever it traded and removed on the way.                *)
(***************************************************************************)
NotCrossedAtRest ==
  phase # "match" => \A b \in buy_orders_, a \in sell_orders_ : b.price < a.price

(***************************************************************************)
(* An order leaves the book exactly when it is completely filled: a        *)
(* resting order has traded its filled quantity, which is short of its     *)
(* quantity, and an accepted order that no longer rests has traded at      *)
(* least all of it.                                                        *)
(***************************************************************************)
LeavesWhenFilled ==
  \A d \in Accepted :
    IF d \in DOMAIN id_lookup_
      THEN LET o == pool_[id_lookup_[d].slot]
           IN  o.filled = Traded(d) /\ o.filled < o.quantity
      ELSE Traded(d) >= orders_[d].quantity

(***************************************************************************)
(* Time priority: as long as an order waits in the book, no trade goes to  *)
(* an order of its side and price that came after it, whether that one     *)
(* waits too or was filled by the trade and has left.  Ids count the       *)
(* orders in the order they come.                                          *)
(***************************************************************************)
TimePriority ==
  \A t \in Range(AllTrades) :
    /\ \A e \in buy_orders_ :
         orders_[t.buy].price = e.price => t.buy <= pool_[e.slot].id
    /\ \A e \in sell_orders_ :
         orders_[t.sell].price = e.price => t.sell <= pool_[e.slot].id

(***************************************************************************)
(* Nobody trades outside their limit: a trade's price is at most the       *)
(* buyer's and at least the seller's, as the OrderManager recorded them.   *)
(***************************************************************************)
WithinLimits ==
  \A t \in Range(AllTrades) :
    /\ {t.buy, t.sell} \subseteq DOMAIN orders_
    /\ orders_[t.buy].is_buy /\ ~orders_[t.sell].is_buy
    /\ orders_[t.sell].price <= t.price /\ t.price <= orders_[t.buy].price

(***************************************************************************)
(* What the proofs of the two need besides the types and the consistency   *)
(* of the book: insertion numbers of resting orders are in the past and    *)
(* grow with the ids, and the copy of an order in the book is of the order *)
(* the OrderManager has under its id.                                      *)
(***************************************************************************)
InsertedBefore == \A e \in Resting : e.at < inserted

InsertedById ==
  \A e, f \in Resting : e.at <= f.at => pool_[e.slot].id <= pool_[f.slot].id

CopiesAgree ==
  \A e \in Resting : LET o == pool_[e.slot]
                     IN  /\ o.id \in DOMAIN orders_
                         /\ orders_[o.id].is_buy = o.is_buy
                         /\ orders_[o.id].price = o.price

EngineInv == /\ TypeOK
             /\ BookConsistent
             /\ InsertedBefore
             /\ InsertedById
             /\ CopiesAgree
             /\ TimePriority
             /\ WithinLimits

(***************************************************************************)
(* A full pool never recovers: with nobody cancelling, once every slot is  *)
(* taken between two ticks, no slot is ever free again and nothing is ever *)
(* traded again, whatever orders the feed still sends.                     *)
(***************************************************************************)
FullPoolIsFinal ==
  [](phase = "tick" /\ FreeSlots = {} => [](FreeSlots = {} /\ trades = << >>))

(***************************************************************************)
(* match_orders returns: every iteration that trades removes an order.     *)
(***************************************************************************)
MatchReturns == (phase = "match") ~> (phase = "tick")
-----------------------------------------------------------------------------
(***************************************************************************)
(* "@param quantity Order quantity" (OrderBook.hpp): no order trades more  *)
(* than its quantity.                                                      *)
(***************************************************************************)
NoOverfill == \A d \in DOMAIN orders_ : Traded(d) <= orders_[d].quantity

=============================================================================
