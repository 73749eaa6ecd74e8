------------------------- MODULE MCOrderProcessing -------------------------
(***************************************************************************)
(* OrderProcessing for TLC: many threads with one order for each producer, *)
(* or fewer threads with more orders, of both symbols and both sides.      *)
(***************************************************************************)
EXTENDS OrderProcessing

CONSTANTS p1, p2, c1, c2

TwoByTwo     == [threads |-> {p1, p2, c1, c2}, ordersPerProducer |-> 1]
TwoProducers == [threads |-> {p1, p2, c1}, ordersPerProducer |-> 2]
TwoConsumers == [threads |-> {p1, c1, c2}, ordersPerProducer |-> 3]
OneByOne     == [threads |-> {p1, c1}, ordersPerProducer |-> 2]

MCSetups    == {TwoByTwo, TwoProducers, TwoConsumers}
DrainSetups == {OneByOne}
=============================================================================
