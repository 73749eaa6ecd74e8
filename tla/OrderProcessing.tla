-------------------------- MODULE OrderProcessing --------------------------
(***************************************************************************)
(* The trade pipeline of Session7: main() starts producers and consumers   *)
(* that meet in the ring of ConcurrentQueue, opens the start latch, joins  *)
(* the producers, raises producersDone, joins the consumers and reports    *)
(* on what was completed.  The steps inside push() and pop() are those of  *)
(* ConcurrentQueue; the steps around them are here.  A block under a mutex *)
(* touches nothing but what the mutex guards and is one step.              *)
(*                                                                         *)
(* The queue's steps are sequentially consistent, which its relaxed loads  *)
(* do not give several producers or consumers.  What is claimed here rests *)
(* on joins, locks, permits and the flag, not on what the ring hands out;  *)
(* only Termination looks at its indices.                                  *)
(***************************************************************************)
EXTENDS Integers, Sequences, FiniteSets

CONSTANTS Producers, Consumers, Capacity, NoOrder,
          Setups,              \* [threads, ordersPerProducer]: what main() may start
          MaxParallel          \* the count of processingSemaphore

Orders == Producers \X UNION {0 .. s.ordersPerProducer - 1 : s \in Setups}

ASSUME PipelineAssumption ==
  /\ Producers \cap Consumers = {} /\ IsFiniteSet(Consumers)
  /\ Capacity \in Nat \ {0}
  /\ NoOrder \notin Orders
  /\ \A s \in Setups : /\ s.threads \subseteq Producers \cup Consumers
                       /\ s.ordersPerProducer \in Nat \ {0}
  /\ MaxParallel \in Nat \ {0}

VARIABLES head, tail, buffer, pc, idx, arg, item, pushed, popped

VARIABLES setup,            \* main() starts these threads and no others
          stage,            \* where each thread is outside the queue's code
          mainStage,        \* where main() is
          i,                \* each producer's loop variable
          latchOpen,        \* startLatch has been counted down
          producersDone,
          permits,          \* what processingSemaphore has left
          orderBook,        \* symbol -> volumes, for the symbols present
          completedOrders,
          ordersProcessed,
          printed           \* the reports of runAnalytics()

Queue == INSTANCE ConcurrentQueue WITH Order <- Orders

exceptPc  == <<head, tail, buffer, idx, arg, item, pushed, popped>>
queueVars == <<exceptPc, pc>>
bookVars  == <<orderBook, completedOrders, ordersProcessed>>
mainVars  == <<setup, mainStage, latchOpen, producersDone, printed>>
vars == <<queueVars, stage, i, permits, bookVars, mainVars>>

\* What the producer loop puts into its i-th order, as far as the book reads
\* it.  The zero-initialised order has an empty symbol and is not a buy.
Symbols     == {"", "APPL", "GOOGL"}
Symbol(o)   == IF o = NoOrder THEN "" ELSE IF o[2] % 2 = 0 THEN "APPL" ELSE "GOOGL"
IsBuy(o)    == o # NoOrder /\ o[2] % 2 = 0
Quantity(o) == IF o = NoOrder THEN 0 ELSE 100 + o[2]

Init ==
  /\ Queue!Init
  /\ setup \in Setups
  /\ stage = [t \in Producers \cup Consumers |-> "latch"]
  /\ mainStage = "start"
  /\ i = [p \in Producers |-> 0]
  /\ latchOpen = FALSE
  /\ producersDone = FALSE
  /\ permits = MaxParallel
  /\ orderBook = << >>
  /\ completedOrders = << >>
  /\ ordersProcessed = 0
  /\ printed = << >>

Enter(t, s) == stage' = [stage EXCEPT ![t] = s]

\* startLatch.wait(), the first line of both thread functions.
PassLatch(t) ==
  /\ t \in setup.threads
  /\ stage[t] = "latch"
  /\ latchOpen
  /\ Enter(t, "run")
  /\ UNCHANGED <<queueVars, i, permits, bookVars, mainVars>>
-----------------------------------------------------------------------------
\* orderProducer

CallPush(p) ==
  /\ stage[p] = "run"
  /\ pc[p] \in {"idle", "full"}
  /\ Queue!PushLoadTail(p, <<p, i[p]>>)
  /\ UNCHANGED <<stage, i, permits, bookVars, mainVars>>

InPush(p) ==
  /\ Queue!PushStep(p)
  /\ UNCHANGED <<stage, i, permits, bookVars, mainVars>>

NextOrder(p) ==
  /\ stage[p] = "run"
  /\ pc[p] = "pushed"
  /\ Queue!Goto(p, "idle")
  /\ i' = [i EXCEPT ![p] = @ + 1]
  /\ Enter(p, IF i'[p] < setup.ordersPerProducer THEN "run" ELSE "exited")
  /\ UNCHANGED exceptPc
  /\ UNCHANGED <<permits, bookVars, mainVars>>

Producer(p) == PassLatch(p) \/ CallPush(p) \/ InPush(p) \/ NextOrder(p)
-----------------------------------------------------------------------------
\* orderConsumer

CallPop(c) ==
  /\ stage[c] = "run"
  /\ pc[c] = "idle"
  /\ Queue!PopLoadHead(c)
  /\ UNCHANGED <<stage, i, permits, bookVars, mainVars>>

InPop(c) ==
  /\ Queue!PopStep(c)
  /\ UNCHANGED <<stage, i, permits, bookVars, mainVars>>

\* Mutant: a consumer that popped nothing releases the semaphore.
CheckDoneReleases(c) ==
  /\ stage[c] = "run"
  /\ pc[c] = "empty"
  /\ Queue!Goto(c, "idle")
  /\ Enter(c, IF producersDone THEN "exited" ELSE "run")
  /\ permits' = permits + 1
  /\ UNCHANGED exceptPc
  /\ UNCHANGED <<i, bookVars, mainVars>>

\* pop() returned false: leave if producersDone, else poll again.
CheckDone(c) ==
  /\ stage[c] = "run"
  /\ pc[c] = "empty"
  /\ Queue!Goto(c, "idle")
  /\ Enter(c, IF producersDone THEN "exited" ELSE "run")
  /\ UNCHANGED exceptPc
  /\ UNCHANGED <<i, permits, bookVars, mainVars>>

\* Mutant: the result of a failed acquire is ignored.
AcquireNothing(c) ==
  /\ stage[c] = "run"
  /\ pc[c] = "popped"
  /\ Enter(c, "book")
  /\ UNCHANGED <<queueVars, i, permits, bookVars, mainVars>>

AcquireSemaphore(c) ==
  /\ stage[c] = "run"
  /\ pc[c] = "popped"
  /\ permits > 0
  /\ permits' = permits - 1
  /\ Enter(c, "book")
  /\ UNCHANGED <<queueVars, i, bookVars, mainVars>>

\* orderBook[order.symbol] inserts an empty entry for a new symbol.
Volume(s) == IF s \in DOMAIN orderBook THEN orderBook[s] ELSE [buy |-> 0, sell |-> 0]

\* Mutant: the volume is overwritten.
BookedOver(o) ==
  LET v == Volume(Symbol(o))
  IN  IF IsBuy(o) THEN [v EXCEPT !.buy = Quantity(o)] ELSE [v EXCEPT !.sell = Quantity(o)]

Booked(o) ==
  LET v == Volume(Symbol(o))
  IN  IF IsBuy(o) THEN [v EXCEPT !.buy = @ + Quantity(o)]
                  ELSE [v EXCEPT !.sell = @ + Quantity(o)]

UpdateBook(c) ==
  /\ stage[c] = "book"
  /\ LET o == item[c].body
     IN  orderBook' = [s \in DOMAIN orderBook \cup {Symbol(o)} |->
                         IF s = Symbol(o) THEN Booked(o) ELSE orderBook[s]]
  /\ Enter(c, "record")
  /\ UNCHANGED <<queueVars, i, permits, completedOrders, ordersProcessed, mainVars>>

RecordCompleted(c) ==
  /\ stage[c] = "record"
  /\ completedOrders' = Append(completedOrders, item[c])
  /\ Enter(c, "count")
  /\ UNCHANGED <<queueVars, i, permits, orderBook, ordersProcessed, mainVars>>

CountProcessed(c) ==
  /\ stage[c] = "count"
  /\ ordersProcessed' = ordersProcessed + 1
  /\ Enter(c, "release")
  /\ UNCHANGED <<queueVars, i, permits, orderBook, completedOrders, mainVars>>

\* Mutant: the permit is not given back.
ReleaseNothing(c) ==
  /\ stage[c] = "release"
  /\ Queue!Goto(c, "idle")
  /\ Enter(c, "run")
  /\ UNCHANGED exceptPc
  /\ UNCHANGED <<i, permits, bookVars, mainVars>>

ReleaseSemaphore(c) ==
  /\ stage[c] = "release"
  /\ permits' = permits + 1
  /\ Queue!Goto(c, "idle")
  /\ Enter(c, "run")
  /\ UNCHANGED exceptPc
  /\ UNCHANGED <<i, bookVars, mainVars>>

Consumer(c) == \/ PassLatch(c) \/ CallPop(c) \/ InPop(c) \/ CheckDone(c)
               \/ AcquireSemaphore(c) \/ UpdateBook(c) \/ RecordCompleted(c)
               \/ CountProcessed(c) \/ ReleaseSemaphore(c)
-----------------------------------------------------------------------------
\* main()

Exited(T) == \A t \in T \cap setup.threads : stage[t] = "exited"

OpenLatch ==
  /\ mainStage = "start"
  /\ latchOpen' = TRUE
  /\ mainStage' = "joinProducers"
  /\ UNCHANGED <<producersDone, printed>>

\* Mutant: the producers are not joined.
ProducersNotJoined ==
  /\ mainStage = "joinProducers"
  /\ mainStage' = "signal"
  /\ UNCHANGED <<latchOpen, producersDone, printed>>

JoinProducers ==
  /\ mainStage = "joinProducers"
  /\ Exited(Producers)
  /\ mainStage' = "signal"
  /\ UNCHANGED <<latchOpen, producersDone, printed>>

SignalDone ==
  /\ mainStage = "signal"
  /\ producersDone' = TRUE
  /\ mainStage' = "joinConsumers"
  /\ UNCHANGED <<latchOpen, printed>>

\* Mutant: the consumers are not joined.
ConsumersNotJoined ==
  /\ mainStage = "joinConsumers"
  /\ mainStage' = "analyse"
  /\ UNCHANGED <<latchOpen, producersDone, printed>>

JoinConsumers ==
  /\ mainStage = "joinConsumers"
  /\ Exited(Consumers)
  /\ mainStage' = "analyse"
  /\ UNCHANGED <<latchOpen, producersDone, printed>>

OfSymbol(sym) == {slot \in Queue!Slots : Symbol(slot.body) = sym}
Buys          == {slot \in Queue!Slots : IsBuy(slot.body)}

\* How many of the orders q are of the kind S.
Times(q, S) == Cardinality({k \in DOMAIN q : q[k] \in S})

\* Latencies and percentages, numbers that nothing depends on, are left out.
Report(completed) ==
  [total        |-> Len(completed),
   symbolCounts |-> [sym \in {Symbol(completed[k].body) : k \in DOMAIN completed} |->
                       Times(completed, OfSymbol(sym))],
   buyCount     |-> Times(completed, Buys)]

\* Without orders there is no report.
Reports(completed) == IF completed = << >> THEN << >> ELSE <<Report(completed)>>

RunAnalytics ==
  /\ mainStage = "analyse"
  /\ printed' = Reports(completedOrders)
  /\ mainStage' = "done"
  /\ UNCHANGED <<latchOpen, producersDone>>

Main == /\ OpenLatch \/ JoinProducers \/ SignalDone \/ JoinConsumers \/ RunAnalytics
        /\ UNCHANGED <<queueVars, setup, stage, i, permits, bookVars>>

Done == mainStage = "done" /\ UNCHANGED vars

Next == \/ \E p \in Producers : Producer(p)
        \/ \E c \in Consumers : Consumer(c)
        \/ Main
        \/ Done

\* Every thread is scheduled again and again; nothing is assumed of the order.
Fairness == /\ \A p \in Producers : WF_vars(Producer(p))
            /\ \A c \in Consumers : WF_vars(Consumer(c))
            /\ WF_vars(Main)

Spec == Init /\ [][Next]_vars /\ Fairness
-----------------------------------------------------------------------------
Processing == {c \in Consumers : stage[c] \in {"book", "record", "count", "release"}}
AtStage(s) == {c \in Consumers : stage[c] = s}

(***************************************************************************)
(* Types, and the semaphore's count never outside 0 .. MaxParallel.        *)
(***************************************************************************)
TypeOK ==
  /\ Queue!TypeOK
  /\ setup \in Setups
  /\ stage \in [Producers \cup Consumers ->
                  {"latch", "run", "book", "record", "count", "release", "exited"}]
  /\ mainStage \in {"start", "joinProducers", "signal", "joinConsumers", "analyse", "done"}
  /\ i \in [Producers -> 0 .. setup.ordersPerProducer]
  /\ latchOpen \in BOOLEAN
  /\ producersDone \in BOOLEAN
  /\ permits \in 0 .. MaxParallel
  /\ DOMAIN orderBook \subseteq Symbols
  /\ \A s \in DOMAIN orderBook : orderBook[s] \in [buy : Nat, sell : Nat]
  /\ completedOrders \in Seq(Queue!Slots)
  /\ ordersProcessed \in Nat
  /\ Len(printed) <= 1

(***************************************************************************)
(* The inductive invariant of the threads and of main(): who is where in   *)
(* the queue's code, and what main() has seen end.                         *)
(***************************************************************************)
StagesInStep ==
  /\ \A t \in Producers \cup Consumers : t \notin setup.threads => stage[t] = "latch"
  /\ \A p \in Producers :
       /\ stage[p] \in {"latch", "run", "exited"}
       /\ stage[p] # "run" => pc[p] = "idle"
       /\ stage[p] # "exited" => i[p] < setup.ordersPerProducer
  /\ \A c \in Consumers :
       /\ stage[c] \in {"latch", "exited"} => pc[c] = "idle"
       /\ stage[c] \in {"book", "record", "count", "release"} => pc[c] = "popped"

JoinsAwaited ==
  /\ mainStage \in {"signal", "joinConsumers", "analyse", "done"} => Exited(Producers)
  /\ mainStage \in {"analyse", "done"} => Exited(Consumers)
  /\ producersDone <=> mainStage \in {"joinConsumers", "analyse", "done"}
  /\ mainStage = "done" => printed = Reports(completedOrders)

PermitsHeld == Cardinality(Processing) = MaxParallel - permits

\* An order that was popped is completed, or in the hands of one consumer.
Holding == {c \in Consumers : pc[c] = "popped" /\ stage[c] \in {"run", "book", "record"}}

Kinds == {{slot} : slot \in Queue!Slots}
           \cup {OfSymbol(sym) : sym \in Symbols} \cup {Buys}

EachPopCompleted ==
  /\ Len(popped) = Len(completedOrders) + Cardinality(Holding)
  /\ Len(completedOrders) = ordersProcessed + Cardinality(AtStage("count"))
  /\ \A S \in Kinds :
       Times(popped, S) = Times(completedOrders, S)
                            + Cardinality({c \in Holding : item[c] \in S})

PipelineInv == /\ TypeOK
               /\ StagesInStep
               /\ JoinsAwaited
               /\ PermitsHeld
               /\ EachPopCompleted

(***************************************************************************)
(* The order book and the completed orders, guarded by two different       *)
(* mutexes, never disagree by more than the orders whose consumer is       *)
(* between the two blocks: for every symbol and side the booked volume is  *)
(* that of the completed orders plus that of the orders about to be        *)
(* recorded.  It holds for any number of threads, whatever the ring hands  *)
(* out.                                                                    *)
(***************************************************************************)
Side(o) == IF IsBuy(o) THEN "buy" ELSE "sell"

VolumeOf(o, s, side) == IF Symbol(o) = s /\ Side(o) = side THEN Quantity(o) ELSE 0

\* The units of that volume in the orders f[k] for the k in K.
UnitsIn(f, K, s, side) == UNION {{k} \X (1 .. VolumeOf(f[k].body, s, side)) : k \in K}

SumOver(s, side) ==
  Cardinality(UnitsIn(completedOrders, DOMAIN completedOrders, s, side))
  + Cardinality(UnitsIn(item, AtStage("record"), s, side))

BookMatchesCompleted ==
  \A s \in Symbols, side \in {"buy", "sell"} :
    Volume(s)[side] = SumOver(s, side)

(***************************************************************************)
(* What main() reports after its joins is about everything any pop()       *)
(* returned, each order as often as it was returned: the totals, the       *)
(* orders of each symbol and the buys, and ordersProcessed (a relaxed      *)
(* counter, read by nobody before the joins) agrees with them.  There is   *)
(* no report exactly if nothing was popped.                                *)
(***************************************************************************)
ReportsWhatWasPopped ==
  mainStage = "done" => printed = Reports(popped) /\ ordersProcessed = Len(popped)

(***************************************************************************)
(* The semaphore lets at most MaxParallel consumers between acquire() and  *)
(* release(), and a consumer that leaves holds no permit: at the end the   *)
(* semaphore is back at its initial count.                                 *)
(***************************************************************************)
SemaphoreHeldByProcessing ==
  /\ Cardinality(Processing) = MaxParallel - permits
  /\ mainStage \in {"analyse", "done"} => permits = MaxParallel

(***************************************************************************)
(* producersDone signals that no more pushes will occur: once it is up,    *)
(* the tail and the slots do not change any more, so a consumer that sees  *)
(* the flag and then an empty ring has seen the last of it.                *)
(***************************************************************************)
NoPushAfterDone == [][producersDone => UNCHANGED <<tail, buffer, pushed>>]_vars

(***************************************************************************)
(* main() always gets to its end: no producer spins on a full ring for     *)
(* ever, no consumer on an empty one, none waits for a permit nobody gives *)
(* back.                                                                   *)
(***************************************************************************)
Termination == <>(mainStage = "done")

(***************************************************************************)
(* "exit when no more producers and queue drained" (OrderProcessing.cpp):  *)
(* a consumer that has left leaves an empty ring.                          *)
(***************************************************************************)
DrainedOnExit == \A c \in Consumers : stage[c] = "exited" => Queue!Empty
=============================================================================
