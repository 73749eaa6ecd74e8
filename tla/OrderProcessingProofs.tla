----------------------- MODULE OrderProcessingProofs -----------------------
(***************************************************************************)
(* What TLAPS proves about the pipeline of OrderProcessing, for any number *)
(* of producers, consumers, orders, permits and slots: nothing is pushed   *)
(* after producersDone, the semaphore is held by the consumers at work,    *)
(* and the report is about every order as often as a pop() returned it.    *)
(***************************************************************************)
EXTENDS OrderProcessing, FiniteSetTheorems, TLAPS

QP == INSTANCE ConcurrentQueueProofs WITH Order <- Orders

\* The ring of OrderProcessing and that of the theorems about it are one.
LEMMA SameRing ==
  /\ Queue!TypeOK <=> QP!TypeOK
  /\ Queue!Init <=> QP!Init
  /\ Queue!Next <=> QP!Next
<1>1. Queue!TypeOK <=> QP!TypeOK
  BY DEF Queue!TypeOK, QP!TypeOK, Queue!Ring, QP!Ring, Queue!Slots,
      QP!Slots, Queue!Field, QP!Field, Queue!Threads, QP!Threads
<1>2. Queue!Init <=> QP!Init
  BY DEF Queue!Init, QP!Init, Queue!Whole, QP!Whole, Queue!Threads,
      QP!Threads, Queue!Ring, QP!Ring
<1>3. Queue!Next <=> QP!Next
  BY DEF Queue!Next, QP!Next, Queue!PushLoadTail, QP!PushLoadTail,
      Queue!PushStep, QP!PushStep, Queue!PushCheckFull,
      QP!PushCheckFull, Queue!PushWriteId, QP!PushWriteId,
      Queue!PushWriteBody, QP!PushWriteBody, Queue!PushStoreTail,
      QP!PushStoreTail, Queue!PopLoadHead, QP!PopLoadHead,
      Queue!PopStep, QP!PopStep, Queue!PopCheckEmpty,
      QP!PopCheckEmpty, Queue!PopReadId, QP!PopReadId,
      Queue!PopReadBody, QP!PopReadBody, Queue!PopStoreHead,
      QP!PopStoreHead, Queue!PushReturned, QP!PushReturned,
      Queue!PopReturned, QP!PopReturned, Queue!Goto, QP!Goto,
      Queue!Succ, QP!Succ, Queue!Whole, QP!Whole, Queue!Field,
      QP!Field, Queue!indices, QP!indices, Queue!history, QP!history
<1>4. QED
  BY <1>1, <1>2, <1>3

(***************************************************************************)
(* Every step of push() or pop() keeps the types of the ring.              *)
(***************************************************************************)
LEMMA RingTypes ==
  /\ Queue!Init => Queue!TypeOK
  /\ Queue!TypeOK /\ Queue!Next => Queue!TypeOK'
<1>1. QP!Init => QP!TypeOK
  BY QP!TypeInit, PipelineAssumption
  DEF QP!ThreadsAssumption, QP!CapacityAssumption, QP!NoOrderAssumption
<1>2. QP!TypeOK /\ [QP!Next]_(QP!queueVars) => QP!TypeOK'
  BY QP!TypeStep, PipelineAssumption
  DEF QP!ThreadsAssumption, QP!CapacityAssumption, QP!NoOrderAssumption
<1>3. Queue!TypeOK' <=> QP!TypeOK'
  BY DEF Queue!TypeOK, QP!TypeOK, Queue!Ring, QP!Ring, Queue!Slots,
      QP!Slots, Queue!Field, QP!Field, Queue!Threads, QP!Threads
<1>4. QED
  BY <1>1, <1>2, <1>3, SameRing
-----------------------------------------------------------------------------
(***************************************************************************)
(* What a step of one thread leaves alone: everything of the other         *)
(* threads, and what only the other kind of thread, or main(), assigns.    *)
(***************************************************************************)
Threads == Producers \cup Consumers

LEMMA Functions ==
  ASSUME TypeOK
  PROVE  /\ stage \in [Threads -> {"latch", "run", "book", "record", "count", "release", "exited"}]
         /\ pc \in [Threads -> {"idle", "checkFull", "writeId", "writeBody", "storeTail",
                                "full", "pushed", "checkEmpty", "readId", "readBody",
                                "storeHead", "empty", "popped"}]
         /\ i \in [Producers -> 0 .. setup.ordersPerProducer]
         /\ item \in [Consumers -> Queue!Slots]
  BY DEF TypeOK, Queue!TypeOK, Queue!Threads, Threads

LEMMA ProducerFrame ==
  ASSUME TypeOK, NEW p \in Producers, Producer(p)
  PROVE  /\ UNCHANGED <<head, item, popped, permits, bookVars, mainVars>>
         /\ \A t \in Threads \ {p} : stage'[t] = stage[t] /\ pc'[t] = pc[t]
         /\ \A q \in Producers \ {p} : i'[q] = i[q]
<1>1. CASE PassLatch(p)
  BY <1>1, Functions DEF PassLatch, Enter, queueVars, exceptPc, Threads
<1>2. CASE CallPush(p)
  BY <1>2, Functions
  DEF CallPush, Queue!PushLoadTail, Queue!Goto, Queue!indices, Queue!history, Threads
<1>3. CASE InPush(p)
  BY <1>3, Functions
  DEF InPush, Queue!PushStep, Queue!PushCheckFull, Queue!PushWriteId, Queue!PushWriteBody,
      Queue!PushStoreTail, Queue!Goto, Queue!indices, Queue!history, Threads
<1>4. CASE NextOrder(p)
  BY <1>4, Functions DEF NextOrder, Queue!Goto, Enter, exceptPc, Threads
<1>5. QED
  BY <1>1, <1>2, <1>3, <1>4 DEF Producer

LEMMA ConsumerFrame ==
  ASSUME TypeOK, NEW c \in Consumers, Consumer(c)
  PROVE  /\ UNCHANGED <<tail, buffer, pushed, arg, i, mainVars>>
         /\ \A t \in Threads \ {c} : stage'[t] = stage[t] /\ pc'[t] = pc[t]
         /\ \A d \in Consumers \ {c} : item'[d] = item[d]
<1>1. CASE PassLatch(c)
  BY <1>1, Functions DEF PassLatch, Enter, queueVars, exceptPc, Threads
<1>2. CASE CallPop(c)
  BY <1>2, Functions
  DEF CallPop, Queue!PopLoadHead, Queue!Goto, Queue!indices, Queue!history, Threads
<1>3. CASE InPop(c)
  BY <1>3, Functions
  DEF InPop, Queue!PopStep, Queue!PopCheckEmpty, Queue!PopReadId, Queue!PopReadBody,
      Queue!PopStoreHead, Queue!Goto, Queue!indices, Queue!history, Threads
<1>4. CASE CheckDone(c) \/ ReleaseSemaphore(c)
  BY <1>4, Functions DEF CheckDone, ReleaseSemaphore, Queue!Goto, Enter, exceptPc, Threads
<1>5. CASE AcquireSemaphore(c) \/ UpdateBook(c) \/ RecordCompleted(c) \/ CountProcessed(c)
  BY <1>5, Functions
  DEF AcquireSemaphore, UpdateBook, RecordCompleted, CountProcessed, Enter,
      queueVars, exceptPc, Threads
<1>6. QED
  BY <1>1, <1>2, <1>3, <1>4, <1>5 DEF Consumer

(***************************************************************************)
(* Where a thread may be after a step of its own.                          *)
(***************************************************************************)
LEMMA ProducerMoves ==
  ASSUME TypeOK, StagesInStep, NEW p \in Producers, Producer(p)
  PROVE  /\ p \in setup.threads
         /\ stage[p] # "exited"
         /\ stage'[p] \in {"run", "exited"}
         /\ stage'[p] = "exited" => pc'[p] = "idle"
         /\ stage'[p] # "exited" => i'[p] < setup.ordersPerProducer
         /\ i'[p] \in 0 .. setup.ordersPerProducer
<1> USE Functions
<1>0. setup.ordersPerProducer \in Nat
  BY PipelineAssumption DEF TypeOK
<1>1. CASE PassLatch(p)
  BY <1>0, <1>1 DEF PassLatch, Enter, queueVars, exceptPc, Threads, StagesInStep
<1>2. CASE CallPush(p)
  BY <1>0, <1>2 DEF CallPush, StagesInStep, Threads
<1>3. CASE InPush(p)
  <2>1. pc[p] # "idle"
    BY <1>3 DEF InPush, Queue!PushStep, Queue!PushCheckFull, Queue!PushWriteId,
                Queue!PushWriteBody, Queue!PushStoreTail
  <2>2. stage[p] = "run"
    BY <2>1 DEF StagesInStep
  <2>3. QED
    BY <1>0, <1>3, <2>2 DEF InPush, StagesInStep, Threads
<1>4. CASE NextOrder(p)
  BY <1>0, <1>4 DEF NextOrder, Enter, Queue!Goto, exceptPc, StagesInStep, Threads
<1>5. QED
  BY <1>1, <1>2, <1>3, <1>4 DEF Producer
LEMMA ConsumerMoves ==
  ASSUME TypeOK, StagesInStep, NEW c \in Consumers, Consumer(c)
  PROVE  /\ c \in setup.threads
         /\ stage[c] # "exited"
         /\ stage'[c] \in {"run", "book", "record", "count", "release", "exited"}
         /\ stage'[c] = "exited" => pc'[c] = "idle"
         /\ stage'[c] \in {"book", "record", "count", "release"} => pc'[c] = "popped"
<1> USE Functions
<1>1. CASE PassLatch(c)
  BY <1>1 DEF PassLatch, Enter, Threads
<1>2. CASE CallPop(c)
  BY <1>2 DEF CallPop, StagesInStep, Threads
<1>3. CASE InPop(c)
  <2>1. pc[c] \notin {"idle", "popped"}
    BY <1>3 DEF InPop, Queue!PopStep, Queue!PopCheckEmpty, Queue!PopReadId,
                Queue!PopReadBody, Queue!PopStoreHead
  <2>2. stage[c] = "run"
    BY <2>1 DEF StagesInStep, Threads
  <2>3. QED
    BY <1>3, <2>2 DEF InPop, StagesInStep, Threads
<1>4. CASE CheckDone(c) \/ ReleaseSemaphore(c)
  BY <1>4 DEF CheckDone, ReleaseSemaphore, Queue!Goto, Enter, StagesInStep, Threads
<1>5. CASE AcquireSemaphore(c) \/ UpdateBook(c) \/ RecordCompleted(c) \/ CountProcessed(c)
  BY <1>5 DEF AcquireSemaphore, UpdateBook, RecordCompleted, CountProcessed, Enter,
              queueVars, exceptPc, StagesInStep, Threads
<1>6. QED
  BY <1>1, <1>2, <1>3, <1>4, <1>5 DEF Consumer
-----------------------------------------------------------------------------
(***************************************************************************)
(* The threads stay in step with the ring, whoever moves.                  *)
(***************************************************************************)
LEMMA StagesStep ==
  ASSUME TypeOK, StagesInStep, [Next]_vars
  PROVE  StagesInStep'
<1> USE Functions, PipelineAssumption
<1>1. ASSUME NEW p \in Producers, Producer(p) PROVE StagesInStep'
  <2>1. setup' = setup
    BY <1>1, ProducerFrame DEF mainVars
  <2>2. \A t \in Producers \cup Consumers : t \notin setup.threads => stage'[t] = "latch"
    BY <1>1, ProducerFrame, ProducerMoves DEF StagesInStep, Threads
  <2>3. ASSUME NEW q \in Producers
        PROVE  /\ stage'[q] \in {"latch", "run", "exited"}
               /\ stage'[q] # "run" => pc'[q] = "idle"
               /\ stage'[q] # "exited" => i'[q] < setup.ordersPerProducer
    <3>1. CASE q = p
      BY <1>1, <3>1, ProducerMoves
    <3>2. CASE q # p
      BY <1>1, <3>2, ProducerFrame DEF StagesInStep, Threads
    <3>3. QED
      BY <3>1, <3>2
  <2>4. ASSUME NEW c \in Consumers
        PROVE  /\ stage'[c] \in {"latch", "exited"} => pc'[c] = "idle"
               /\ stage'[c] \in {"book", "record", "count", "release"} => pc'[c] = "popped"
    BY <1>1, ProducerFrame DEF StagesInStep, Threads
  <2>5. QED
    BY <2>1, <2>2, <2>3, <2>4 DEF StagesInStep
<1>2. ASSUME NEW c \in Consumers, Consumer(c) PROVE StagesInStep'
  <2>1. setup' = setup /\ i' = i
    BY <1>2, ConsumerFrame DEF mainVars
  <2>2. \A t \in Producers \cup Consumers : t \notin setup.threads => stage'[t] = "latch"
    BY <1>2, ConsumerFrame, ConsumerMoves DEF StagesInStep, Threads
  <2>3. ASSUME NEW q \in Producers
        PROVE  /\ stage'[q] \in {"latch", "run", "exited"}
               /\ stage'[q] # "run" => pc'[q] = "idle"
               /\ stage'[q] # "exited" => i'[q] < setup.ordersPerProducer
    BY <1>2, <2>1, ConsumerFrame DEF StagesInStep, Threads
  <2>4. ASSUME NEW d \in Consumers
        PROVE  /\ stage'[d] \in {"latch", "exited"} => pc'[d] = "idle"
               /\ stage'[d] \in {"book", "record", "count", "release"} => pc'[d] = "popped"
    <3>1. CASE d = c
      BY <1>2, <3>1, ConsumerMoves
    <3>2. CASE d # c
      BY <1>2, <3>2, ConsumerFrame DEF StagesInStep, Threads
    <3>3. QED
      BY <3>1, <3>2
  <2>5. QED
    BY <2>1, <2>2, <2>3, <2>4 DEF StagesInStep
<1>3. CASE Main \/ UNCHANGED vars
  BY <1>3 DEF Main, vars, queueVars, exceptPc, mainVars, StagesInStep
<1>4. QED
  BY <1>1, <1>2, <1>3 DEF Next, Done

(***************************************************************************)
(* What main() joined stays joined: a thread that has left takes no step.  *)
(***************************************************************************)
LEMMA ExitedStay ==
  ASSUME TypeOK, StagesInStep, [Next]_vars, NEW t \in Threads, stage[t] = "exited"
  PROVE  stage'[t] = "exited"
<1>1. ASSUME NEW p \in Producers, Producer(p) PROVE stage'[t] = "exited"
  BY <1>1, ProducerFrame, ProducerMoves DEF Threads
<1>2. ASSUME NEW c \in Consumers, Consumer(c) PROVE stage'[t] = "exited"
  BY <1>2, ConsumerFrame, ConsumerMoves DEF Threads
<1>3. CASE Main \/ UNCHANGED vars
  BY <1>3 DEF Main, vars
<1>4. QED
  BY <1>1, <1>2, <1>3 DEF Next, Done

LEMMA JoinsStep ==
  ASSUME TypeOK, StagesInStep, JoinsAwaited, [Next]_vars
  PROVE  JoinsAwaited'
<1> USE DEF Exited
<1>0. \A t \in Threads : stage[t] = "exited" => stage'[t] = "exited"
  BY ExitedStay
<1>1. ASSUME NEW p \in Producers, Producer(p) PROVE JoinsAwaited'
  <2>1. UNCHANGED <<mainStage, producersDone, setup, printed, completedOrders>>
    BY <1>1, ProducerFrame DEF mainVars, bookVars
  <2>2. QED
    BY <1>0, <2>1 DEF JoinsAwaited, Reports, Report, Threads
<1>2. ASSUME NEW c \in Consumers, Consumer(c) PROVE JoinsAwaited'
  <2>1. UNCHANGED <<mainStage, producersDone, setup, printed>>
    BY <1>2, ConsumerFrame DEF mainVars
  <2>2. mainStage # "done"
    BY <1>2, ConsumerMoves DEF JoinsAwaited
  <2>3. QED
    BY <1>0, <2>1, <2>2 DEF JoinsAwaited, Threads
<1>3. CASE Main
  <2> UNCHANGED <<stage, setup, completedOrders>>
    BY <1>3 DEF Main, bookVars
  <2>1. CASE OpenLatch
    BY <2>1 DEF OpenLatch, JoinsAwaited
  <2>2. CASE JoinProducers
    BY <2>2 DEF JoinProducers, JoinsAwaited
  <2>3. CASE SignalDone
    BY <2>3 DEF SignalDone, JoinsAwaited
  <2>4. CASE JoinConsumers
    BY <2>4 DEF JoinConsumers, JoinsAwaited
  <2>5. CASE RunAnalytics
    <3>1. printed' = Reports(completedOrders)'
      BY <2>5 DEF RunAnalytics
    <3>2. QED
      BY <2>5, <3>1 DEF RunAnalytics, JoinsAwaited
  <2>6. QED
    BY <1>3, <2>1, <2>2, <2>3, <2>4, <2>5 DEF Main
<1>4. CASE UNCHANGED vars
  BY <1>4 DEF vars, mainVars, bookVars, JoinsAwaited
<1>5. QED
  BY <1>1, <1>2, <1>3, <1>4 DEF Next, Done
-----------------------------------------------------------------------------
(***************************************************************************)
(* A permit is taken by the step that enters the set of consumers at work, *)
(* and given back by the one that leaves it.                               *)
(***************************************************************************)
LEMMA ConsumersFinite ==
  ASSUME NEW S, S \subseteq Consumers
  PROVE  IsFiniteSet(S) /\ Cardinality(S) \in Nat
<1>1. IsFiniteSet(S)
  BY PipelineAssumption, FS_Subset
<1>2. QED
  BY <1>1, FS_CardinalityType

LEMMA PermitsStep ==
  ASSUME TypeOK, StagesInStep, PermitsHeld, [Next]_vars
  PROVE  /\ PermitsHeld'
         /\ permits' \in 0 .. MaxParallel
<1> USE Functions
<1>0. /\ MaxParallel \in Nat /\ permits \in 0 .. MaxParallel
      /\ Processing \subseteq Consumers
      /\ IsFiniteSet(Processing) /\ Cardinality(Processing) \in Nat
  BY PipelineAssumption, ConsumersFinite DEF TypeOK, Processing
<1>1. ASSUME permits' = permits, Processing' = Processing
      PROVE  PermitsHeld' /\ permits' \in 0 .. MaxParallel
  BY <1>0, <1>1 DEF PermitsHeld
<1>2. ASSUME NEW p \in Producers, Producer(p)
      PROVE  PermitsHeld' /\ permits' \in 0 .. MaxParallel
  <2>1. permits' = permits
    BY <1>2, ProducerFrame
  <2>2. \A c \in Consumers : stage'[c] = stage[c]
    BY <1>2, ProducerFrame, PipelineAssumption DEF Threads
  <2>3. QED
    BY <1>1, <2>1, <2>2 DEF Processing
<1>3. ASSUME NEW c \in Consumers, Consumer(c)
      PROVE  PermitsHeld' /\ permits' \in 0 .. MaxParallel
  <2>0. \A d \in Consumers \ {c} : stage'[d] = stage[d]
    BY <1>3, ConsumerFrame DEF Threads
  <2>1. CASE AcquireSemaphore(c)
    <3>1. stage[c] = "run" /\ stage'[c] = "book"
      BY <2>1 DEF AcquireSemaphore, Enter, Threads
    <3>2. c \notin Processing /\ Processing' = Processing \cup {c}
      BY <2>0, <3>1 DEF Processing
    <3>3. Cardinality(Processing') = Cardinality(Processing) + 1
      BY <1>0, <3>2, FS_AddElement
    <3>4. permits > 0 /\ permits' = permits - 1
      BY <2>1 DEF AcquireSemaphore
    <3>5. QED
      BY <1>0, <3>3, <3>4 DEF PermitsHeld
  <2>2. CASE ReleaseSemaphore(c)
    <3>1. stage[c] = "release" /\ stage'[c] = "run"
      BY <2>2 DEF ReleaseSemaphore, Enter, Threads
    <3>2. c \in Processing /\ Processing' = Processing \ {c}
      BY <2>0, <3>1 DEF Processing
    <3>3. Cardinality(Processing') = Cardinality(Processing) - 1
      BY <1>0, <3>2, FS_RemoveElement
    <3>4. Cardinality(Processing') \in Nat
      BY <1>0, <3>2, ConsumersFinite
    <3>5. permits' = permits + 1
      BY <2>2 DEF ReleaseSemaphore
    <3>6. QED
      BY <1>0, <3>3, <3>4, <3>5 DEF PermitsHeld
  <2>3. CASE PassLatch(c) \/ CallPop(c) \/ InPop(c) \/ CheckDone(c)
    <3>1. permits' = permits
      BY <2>3 DEF PassLatch, CallPop, InPop, CheckDone
    <3>2. stage[c] \notin {"book", "record", "count", "release"}
      <4>1. InPop(c) => pc[c] \notin {"idle", "popped"}
        BY DEF InPop, Queue!PopStep, Queue!PopCheckEmpty, Queue!PopReadId,
               Queue!PopReadBody, Queue!PopStoreHead
      <4>2. QED
        BY <2>3, <4>1 DEF PassLatch, CallPop, CheckDone, StagesInStep
    <3>3. stage'[c] \notin {"book", "record", "count", "release"}
      BY <2>3, <3>2 DEF PassLatch, CallPop, InPop, CheckDone, Enter, Threads
    <3>4. QED
      BY <1>1, <2>0, <3>1, <3>2, <3>3 DEF Processing
  <2>4. CASE UpdateBook(c) \/ RecordCompleted(c) \/ CountProcessed(c)
    <3>1. permits' = permits
      BY <2>4 DEF UpdateBook, RecordCompleted, CountProcessed
    <3>2. /\ stage[c] \in {"book", "record", "count", "release"}
          /\ stage'[c] \in {"book", "record", "count", "release"}
      BY <2>4 DEF UpdateBook, RecordCompleted, CountProcessed, Enter, Threads
    <3>3. QED
      BY <1>1, <2>0, <3>1, <3>2 DEF Processing
  <2>5. QED
    BY <1>3, <2>1, <2>2, <2>3, <2>4 DEF Consumer
<1>4. CASE Main \/ UNCHANGED vars
  BY <1>1, <1>4 DEF Main, vars, Processing
<1>5. QED
  BY <1>2, <1>3, <1>4 DEF Next, Done
-----------------------------------------------------------------------------
(***************************************************************************)
(* The types of the ring, whose steps are steps of ConcurrentQueue or      *)
(* returns to idle.                                                        *)
(***************************************************************************)
LEMMA PushedOrder ==
  ASSUME TypeOK, StagesInStep, NEW p \in Producers, stage[p] = "run"
  PROVE  <<p, i[p]>> \in Orders
<1>1. setup \in Setups /\ setup.ordersPerProducer \in Nat
  BY PipelineAssumption DEF TypeOK
<1>2. i[p] \in Nat /\ i[p] < setup.ordersPerProducer
  BY <1>1, Functions DEF StagesInStep
<1>3. i[p] \in 0 .. setup.ordersPerProducer - 1
  BY <1>1, <1>2
<1>4. QED
  BY <1>1, <1>3 DEF Orders

LEMMA GotoIdleTypes ==
  ASSUME Queue!TypeOK, NEW t \in Threads, Queue!Goto(t, "idle"), UNCHANGED exceptPc
  PROVE  Queue!TypeOK'
  BY DEF Queue!TypeOK, Queue!Goto, Queue!Threads, Threads, exceptPc, Queue!Slots, Queue!Ring

LEMMA RingStaysTyped ==
  ASSUME TypeOK, StagesInStep, [Next]_vars
  PROVE  Queue!TypeOK'
<1>0. Queue!TypeOK
  BY DEF TypeOK
<1>1. ASSUME UNCHANGED queueVars PROVE Queue!TypeOK'
  BY <1>0, <1>1 DEF queueVars, exceptPc, Queue!TypeOK, Queue!Slots, Queue!Ring
<1>2. ASSUME NEW p \in Producers, Producer(p) PROVE Queue!TypeOK'
  <2>1. CASE PassLatch(p)
    BY <1>1, <2>1 DEF PassLatch
  <2>2. CASE CallPush(p)
    <3>1. <<p, i[p]>> \in Orders /\ Queue!PushLoadTail(p, <<p, i[p]>>)
      BY <2>2, PushedOrder DEF CallPush
    <3>2. Queue!Next
      BY <3>1 DEF Queue!Next
    <3>3. QED
      BY <1>0, <3>2, RingTypes
  <2>3. CASE InPush(p)
    <3>1. Queue!Next
      BY <2>3 DEF InPush, Queue!Next
    <3>2. QED
      BY <1>0, <3>1, RingTypes
  <2>4. CASE NextOrder(p)
    BY <1>0, <2>4, GotoIdleTypes DEF NextOrder, Threads
  <2>5. QED
    BY <1>2, <2>1, <2>2, <2>3, <2>4 DEF Producer
<1>3. ASSUME NEW c \in Consumers, Consumer(c) PROVE Queue!TypeOK'
  <2>1. CASE CallPop(c) \/ InPop(c)
    <3>1. Queue!Next
      BY <2>1 DEF CallPop, InPop, Queue!Next
    <3>2. QED
      BY <1>0, <3>1, RingTypes
  <2>2. CASE CheckDone(c) \/ ReleaseSemaphore(c)
    BY <1>0, <2>2, GotoIdleTypes DEF CheckDone, ReleaseSemaphore, Threads
  <2>3. CASE \/ PassLatch(c) \/ AcquireSemaphore(c) \/ UpdateBook(c)
             \/ RecordCompleted(c) \/ CountProcessed(c)
    BY <1>1, <2>3
    DEF PassLatch, AcquireSemaphore, UpdateBook, RecordCompleted, CountProcessed
  <2>4. QED
    BY <1>3, <2>1, <2>2, <2>3 DEF Consumer
<1>4. CASE Main \/ UNCHANGED vars
  BY <1>1, <1>4 DEF Main, vars
<1>5. QED
  BY <1>2, <1>3, <1>4 DEF Next, Done
-----------------------------------------------------------------------------
(***************************************************************************)
(* The other types: what an order is to the book.                          *)
(***************************************************************************)
LEMMA OrderData ==
  ASSUME NEW o \in Queue!Field
  PROVE  /\ Symbol(o) \in Symbols
         /\ Quantity(o) \in Nat
<1>1. ASSUME o \in Orders PROVE o[2] \in Nat
  BY <1>1, PipelineAssumption DEF Orders
<1>2. o # NoOrder => o \in Orders
  BY DEF Queue!Field
<1>3. QED
  BY <1>1, <1>2 DEF Symbol, Symbols, Quantity

LEMMA BookedType ==
  ASSUME NEW o, Quantity(o) \in Nat, Volume(Symbol(o)) \in [buy : Nat, sell : Nat]
  PROVE  Booked(o) \in [buy : Nat, sell : Nat]
<1> DEFINE v == Volume(Symbol(o))
<1>1. Booked(o) = IF IsBuy(o) THEN [v EXCEPT !.buy = v.buy + Quantity(o)]
                              ELSE [v EXCEPT !.sell = v.sell + Quantity(o)]
  BY DEF Booked
<1>2. v \in [buy : Nat, sell : Nat] /\ Quantity(o) \in Nat
  OBVIOUS
<1> HIDE DEF v
<1>3. QED
  BY <1>1, <1>2

LEMMA BookTypes ==
  ASSUME TypeOK, NEW c \in Consumers, UpdateBook(c)
  PROVE  /\ DOMAIN orderBook' \subseteq Symbols
         /\ \A s \in DOMAIN orderBook' : orderBook'[s] \in [buy : Nat, sell : Nat]
<1> DEFINE o == item[c].body
<1>1. o \in Queue!Field
  BY Functions DEF Queue!Slots
<1>2. Symbol(o) \in Symbols /\ Quantity(o) \in Nat
  BY <1>1, OrderData
<1>3. Volume(Symbol(o)) \in [buy : Nat, sell : Nat]
  BY DEF TypeOK, Volume
<1>4. Booked(o) \in [buy : Nat, sell : Nat]
  BY <1>2, <1>3, BookedType
<1>5. orderBook' = [s \in DOMAIN orderBook \cup {Symbol(o)} |->
                      IF s = Symbol(o) THEN Booked(o) ELSE orderBook[s]]
  BY DEF UpdateBook
<1> HIDE DEF o
<1>6. QED
  BY <1>2, <1>4, <1>5 DEF TypeOK

LEMMA OthersStayTyped ==
  ASSUME TypeOK, StagesInStep, [Next]_vars,
         Queue!TypeOK', permits' \in 0 .. MaxParallel
  PROVE  TypeOK'
<1>1. ASSUME NEW p \in Producers, Producer(p) PROVE TypeOK'
  <2>1. UNCHANGED <<permits, orderBook, completedOrders, ordersProcessed,
                    setup, mainStage, latchOpen, producersDone, printed>>
    BY <1>1, ProducerFrame DEF bookVars, mainVars
  <2>2. stage' \in [Producers \cup Consumers ->
                     {"latch", "run", "book", "record", "count", "release", "exited"}]
    BY <1>1, Functions
    DEF Producer, PassLatch, CallPush, InPush, NextOrder, Enter, Threads
  <2>3. i' \in [Producers -> 0 .. setup.ordersPerProducer]
    <3>1. i' \in [Producers -> {i'[q] : q \in Producers}]
      BY <1>1, Functions DEF Producer, PassLatch, CallPush, InPush, NextOrder
    <3>2. \A q \in Producers : i'[q] \in 0 .. setup.ordersPerProducer
      BY <1>1, Functions, ProducerFrame, ProducerMoves
    <3>3. QED
      BY <3>1, <3>2
  <2>4. QED
    BY <2>1, <2>2, <2>3 DEF TypeOK
<1>2. ASSUME NEW c \in Consumers, Consumer(c) PROVE TypeOK'
  <2>1. UNCHANGED <<i, setup, mainStage, latchOpen, producersDone, printed>>
    BY <1>2, ConsumerFrame DEF mainVars
  <2>2. stage' \in [Producers \cup Consumers ->
                     {"latch", "run", "book", "record", "count", "release", "exited"}]
    BY <1>2, Functions
    DEF Consumer, PassLatch, CallPop, InPop, CheckDone, AcquireSemaphore, UpdateBook,
        RecordCompleted, CountProcessed, ReleaseSemaphore, Enter, Threads
  <2>3. /\ DOMAIN orderBook' \subseteq Symbols
        /\ \A s \in DOMAIN orderBook' : orderBook'[s] \in [buy : Nat, sell : Nat]
    <3>1. CASE UpdateBook(c)
      BY <3>1, BookTypes
    <3>2. CASE ~UpdateBook(c)
      <4>1. orderBook' = orderBook
        BY <1>2, <3>2
        DEF Consumer, PassLatch, CallPop, InPop, CheckDone, AcquireSemaphore,
            RecordCompleted, CountProcessed, ReleaseSemaphore, bookVars
      <4>2. QED
        BY <4>1 DEF TypeOK
    <3>3. QED
      BY <3>1, <3>2
  <2>4. completedOrders' \in Seq(Queue!Slots) /\ ordersProcessed' \in Nat
    <3>1. completedOrders' \in {completedOrders, Append(completedOrders, item[c])}
      BY <1>2
      DEF Consumer, PassLatch, CallPop, InPop, CheckDone, AcquireSemaphore, UpdateBook,
          RecordCompleted, CountProcessed, ReleaseSemaphore, bookVars
    <3>2. ordersProcessed' \in {ordersProcessed, ordersProcessed + 1}
      BY <1>2
      DEF Consumer, PassLatch, CallPop, InPop, CheckDone, AcquireSemaphore, UpdateBook,
          RecordCompleted, CountProcessed, ReleaseSemaphore, bookVars
    <3>3. item[c] \in Queue!Slots
      BY Functions
    <3>4. completedOrders \in Seq(Queue!Slots) /\ ordersProcessed \in Nat
      BY DEF TypeOK
    <3> DEFINE T == Queue!Slots
    <3> HIDE DEF T
    <3>5. item[c] \in T /\ completedOrders \in Seq(T)
      BY <3>3, <3>4 DEF T
    <3>6. completedOrders' \in Seq(T) /\ ordersProcessed' \in Nat
      BY <3>1, <3>2, <3>4, <3>5
    <3>7. QED
      BY <3>6 DEF T
  <2>5. QED
    BY <2>1, <2>2, <2>3, <2>4 DEF TypeOK
<1>3. CASE Main
  <2>1. UNCHANGED <<setup, stage, i, permits, orderBook, completedOrders, ordersProcessed>>
    BY <1>3 DEF Main, bookVars
  <2>2. /\ mainStage' \in {"start", "joinProducers", "signal", "joinConsumers",
                           "analyse", "done"}
        /\ latchOpen' \in BOOLEAN
        /\ producersDone' \in BOOLEAN
    BY <1>3
    DEF Main, OpenLatch, JoinProducers, SignalDone, JoinConsumers, RunAnalytics, TypeOK
  <2>3. Len(printed') <= 1
    <3>1. printed' = printed \/ printed' = Reports(completedOrders)
      BY <1>3
      DEF Main, OpenLatch, JoinProducers, SignalDone, JoinConsumers, RunAnalytics
    <3>2. Len(Reports(completedOrders)) <= 1
      BY DEF Reports
    <3>3. QED
      BY <3>1, <3>2 DEF TypeOK
  <2>4. QED
    BY <2>1, <2>2, <2>3 DEF TypeOK
<1>4. CASE UNCHANGED vars
  BY <1>4 DEF vars, mainVars, bookVars, TypeOK
<1>5. QED
  BY <1>1, <1>2, <1>3, <1>4 DEF Next, Done
-----------------------------------------------------------------------------
(***************************************************************************)
(* How many orders of a kind a sequence has, before and after an Append.   *)
(***************************************************************************)
LEMMA TimesAppend ==
  ASSUME NEW T, NEW q \in Seq(T), NEW x \in T, NEW S
  PROVE  /\ Times(q, S) \in Nat
         /\ Times(Append(q, x), S) = Times(q, S) + (IF x \in S THEN 1 ELSE 0)
<1> DEFINE K(r) == {k \in DOMAIN r : r[k] \in S}
           n == Len(q) + 1
           r == Append(q, x)
<1>1. DOMAIN q = 1 .. Len(q) /\ Len(q) \in Nat
  OBVIOUS
<1>2. /\ r \in Seq(T) /\ Len(r) = n /\ DOMAIN r = 1 .. n
      /\ \A k \in 1 .. Len(q) : r[k] = q[k]
      /\ r[n] = x
  BY <1>1
<1>3. IsFiniteSet(K(q)) /\ n \notin K(q)
  <2>1. IsFiniteSet(1 .. Len(q)) /\ K(q) \subseteq 1 .. Len(q)
    BY <1>1, FS_Interval
  <2>2. QED
    BY <1>1, <2>1, FS_Subset
<1>4. Cardinality(K(q)) \in Nat
  BY <1>3, FS_CardinalityType
<1>5. K(r) = IF x \in S THEN K(q) \cup {n} ELSE K(q)
  <2> HIDE DEF r
  <2>1. DOMAIN r = DOMAIN q \cup {n}
    BY <1>1, <1>2
  <2>2. \A k \in DOMAIN q : r[k] = q[k] /\ k # n
    BY <1>1, <1>2
  <2> HIDE DEF n
  <2>3. QED
    BY <1>2, <2>1, <2>2
<1>6. Cardinality(K(r)) = Cardinality(K(q)) + (IF x \in S THEN 1 ELSE 0)
  <2> HIDE DEF K, r, n
  <2>1. Cardinality(K(q) \cup {n}) = Cardinality(K(q)) + 1
    BY <1>3, FS_AddElement
  <2>2. QED
    BY <1>4, <1>5, <2>1
<1>7. QED
  BY <1>4, <1>6 DEF Times

\* The orders of a kind in the hands of the consumers.
InHands(S) == {c \in Holding : item[c] \in S}

LEMMA CompletedTypes ==
  ASSUME TypeOK
  PROVE  /\ popped \in Seq(Queue!Slots) /\ completedOrders \in Seq(Queue!Slots)
         /\ Len(popped) \in Nat /\ Len(completedOrders) \in Nat /\ ordersProcessed \in Nat
         /\ IsFiniteSet(Holding) /\ Cardinality(Holding) \in Nat
         /\ IsFiniteSet(AtStage("count")) /\ Cardinality(AtStage("count")) \in Nat
         /\ \A S : IsFiniteSet(InHands(S)) /\ Cardinality(InHands(S)) \in Nat
<1>1. popped \in Seq(Queue!Slots) /\ completedOrders \in Seq(Queue!Slots)
  BY DEF TypeOK, Queue!TypeOK
<1>2. Len(popped) \in Nat /\ Len(completedOrders) \in Nat
  <2> DEFINE T == Queue!Slots
  <2>1. popped \in Seq(T) /\ completedOrders \in Seq(T)
    BY <1>1
  <2> HIDE DEF T
  <2>2. QED
    BY <2>1
<1>3. ordersProcessed \in Nat
  BY DEF TypeOK
<1>4. IsFiniteSet(Holding) /\ Cardinality(Holding) \in Nat
  BY ConsumersFinite DEF Holding
<1>5. IsFiniteSet(AtStage("count")) /\ Cardinality(AtStage("count")) \in Nat
  BY ConsumersFinite DEF AtStage
<1>6. ASSUME NEW S PROVE IsFiniteSet(InHands(S)) /\ Cardinality(InHands(S)) \in Nat
  <2>1. InHands(S) \subseteq Consumers
    BY DEF InHands, Holding
  <2>2. QED
    BY <2>1, ConsumersFinite
<1>7. QED
  BY <1>1, <1>2, <1>3, <1>4, <1>5, <1>6

(***************************************************************************)
(* A step that neither completes an order nor changes who holds which one. *)
(***************************************************************************)
LEMMA HandsUnchanged ==
  ASSUME EachPopCompleted, UNCHANGED <<popped, completedOrders, ordersProcessed>>,
         Holding' = Holding, AtStage("count")' = AtStage("count"),
         \A c \in Holding : item'[c] = item[c]
  PROVE  EachPopCompleted'
<1>1. \A S : {c \in Holding' : item'[c] \in S} = {c \in Holding : item[c] \in S}
  OBVIOUS
<1>2. QED
  BY <1>1 DEF EachPopCompleted

(***************************************************************************)
(* The head store of pop() hands the order to its consumer.                *)
(***************************************************************************)
LEMMA PopHandsOver ==
  ASSUME TypeOK, StagesInStep, EachPopCompleted,
         NEW c \in Consumers, Consumer(c), InPop(c), Queue!PopStoreHead(c)
  PROVE  EachPopCompleted'
<1> USE Functions, CompletedTypes
<1>1. /\ popped' = Append(popped, item[c]) /\ item' = item
      /\ pc[c] = "storeHead" /\ pc'[c] = "popped"
      /\ stage' = stage
      /\ UNCHANGED <<completedOrders, ordersProcessed>>
  BY DEF InPop, Queue!PopStoreHead, Queue!Goto, Threads, bookVars
<1>2. stage[c] = "run"
  BY <1>1 DEF StagesInStep, Threads
<1>3. c \notin Holding /\ Holding' = Holding \cup {c}
  BY <1>1, <1>2, ConsumerFrame DEF Holding, Threads
<1>4. AtStage("count")' = AtStage("count")
  BY <1>1 DEF AtStage
<1>5. Len(popped') = Len(popped) + 1 /\ Cardinality(Holding') = Cardinality(Holding) + 1
  <2> DEFINE T == Queue!Slots
  <2>1. popped \in Seq(T) /\ item[c] \in T
    OBVIOUS
  <2> HIDE DEF T
  <2>2. Len(Append(popped, item[c])) = Len(popped) + 1
    BY <2>1
  <2>3. QED
    BY <1>1, <1>3, <2>2, FS_AddElement
<1>6. ASSUME NEW S \in Kinds
      PROVE  Times(popped, S)' = Times(completedOrders, S)' + Cardinality(InHands(S))'
  <2>1. InHands(S)' = IF item[c] \in S THEN InHands(S) \cup {c} ELSE InHands(S)
    BY <1>1, <1>3 DEF InHands
  <2>2. c \notin InHands(S)
    BY <1>3 DEF InHands
  <2>3. Cardinality(InHands(S)') = Cardinality(InHands(S)) + (IF item[c] \in S THEN 1 ELSE 0)
    <3>1. CASE item[c] \in S
      BY <2>1, <2>2, <3>1, FS_AddElement
    <3>2. CASE item[c] \notin S
      BY <2>1, <3>2
    <3>3. QED
      BY <3>1, <3>2
  <2>4. /\ Times(popped, S) \in Nat
        /\ Times(popped', S) = Times(popped, S) + (IF item[c] \in S THEN 1 ELSE 0)
    BY <1>1, TimesAppend
  <2>5. Times(popped, S) = Times(completedOrders, S) + Cardinality(InHands(S))
    BY DEF EachPopCompleted, InHands
  <2>6. Times(completedOrders', S) = Times(completedOrders, S)
    BY <1>1
  <2>7. Times(completedOrders, S) \in Nat
    BY TimesAppend
  <2>8. QED
    BY <2>3, <2>4, <2>5, <2>6, <2>7
<1>7. QED
  BY <1>1, <1>4, <1>5, <1>6 
  DEF EachPopCompleted, InHands

(***************************************************************************)
(* The append to completedOrders takes the order from its consumer's hands.*)
(***************************************************************************)
LEMMA RecordTakesOver ==
  ASSUME TypeOK, StagesInStep, EachPopCompleted,
         NEW c \in Consumers, Consumer(c), RecordCompleted(c)
  PROVE  EachPopCompleted'
<1> USE Functions, CompletedTypes
<1>1. /\ completedOrders' = Append(completedOrders, item[c])
      /\ stage[c] = "record" /\ stage'[c] = "count"
      /\ UNCHANGED <<pc, item, popped, ordersProcessed>>
  BY DEF RecordCompleted, Enter, Threads, queueVars, exceptPc
<1>2. pc[c] = "popped"
  BY <1>1 DEF StagesInStep
<1>3. c \in Holding /\ Holding' = Holding \ {c}
  BY <1>1, <1>2, ConsumerFrame DEF Holding, Threads
<1>4. c \notin AtStage("count") /\ AtStage("count")' = AtStage("count") \cup {c}
  BY <1>1, ConsumerFrame DEF AtStage, Threads
<1>5. /\ Len(completedOrders') = Len(completedOrders) + 1
      /\ Cardinality(Holding') = Cardinality(Holding) - 1
      /\ Cardinality(AtStage("count")') = Cardinality(AtStage("count")) + 1
  <2> DEFINE T == Queue!Slots
  <2>1. completedOrders \in Seq(T) /\ item[c] \in T
    OBVIOUS
  <2> HIDE DEF T
  <2>2. Len(Append(completedOrders, item[c])) = Len(completedOrders) + 1
    BY <2>1
  <2>3. Cardinality(Holding \ {c}) = Cardinality(Holding) - 1
    BY <1>3, FS_RemoveElement
  <2>4. Cardinality(AtStage("count") \cup {c}) = Cardinality(AtStage("count")) + 1
    BY <1>4, FS_AddElement
  <2>5. QED
    BY <1>1, <1>3, <1>4, <2>2, <2>3, <2>4
<1>6. ASSUME NEW S \in Kinds
      PROVE  Times(popped, S)' = Times(completedOrders, S)' + Cardinality(InHands(S))'
  <2>1. InHands(S)' = IF item[c] \in S THEN InHands(S) \ {c} ELSE InHands(S)
    BY <1>1, <1>3 DEF InHands
  <2>2. item[c] \in S => c \in InHands(S)
    BY <1>3 DEF InHands
  <2>3. Cardinality(InHands(S)') = Cardinality(InHands(S)) - (IF item[c] \in S THEN 1 ELSE 0)
    <3>1. CASE item[c] \in S
      BY <2>1, <2>2, <3>1, FS_RemoveElement
    <3>2. CASE item[c] \notin S
      BY <2>1, <3>2
    <3>3. QED
      BY <3>1, <3>2
  <2>4. /\ Times(completedOrders, S) \in Nat
        /\ Times(completedOrders', S)
             = Times(completedOrders, S) + (IF item[c] \in S THEN 1 ELSE 0)
    BY <1>1, TimesAppend
  <2>5. Times(popped, S) = Times(completedOrders, S) + Cardinality(InHands(S))
    BY DEF EachPopCompleted, InHands
  <2>6. Times(popped', S) = Times(popped, S)
    BY <1>1
  <2>7. QED
    BY <2>3, <2>4, <2>5, <2>6
<1>7. /\ Len(popped') = Len(completedOrders') + Cardinality(Holding')
      /\ Len(completedOrders') = ordersProcessed' + Cardinality(AtStage("count")')
  <2>1. /\ Len(popped) = Len(completedOrders) + Cardinality(Holding)
        /\ Len(completedOrders) = ordersProcessed + Cardinality(AtStage("count"))
    BY DEF EachPopCompleted
  <2>2. QED
    BY <1>1, <1>5, <2>1
<1>8. QED
  BY <1>6, <1>7 DEF EachPopCompleted, InHands

LEMMA CompletedStep ==
  ASSUME TypeOK, StagesInStep, EachPopCompleted, [Next]_vars
  PROVE  EachPopCompleted'
<1> USE Functions
<1>1. ASSUME NEW p \in Producers, Producer(p) PROVE EachPopCompleted'
  <2>1. UNCHANGED <<item, popped, completedOrders, ordersProcessed>>
    BY <1>1, ProducerFrame DEF bookVars
  <2>2. \A c \in Consumers : stage'[c] = stage[c] /\ pc'[c] = pc[c]
    BY <1>1, ProducerFrame, PipelineAssumption DEF Threads
  <2>3. QED
    BY <2>1, <2>2, HandsUnchanged DEF Holding, AtStage
<1>2. ASSUME NEW c \in Consumers, Consumer(c) PROVE EachPopCompleted'
  <2>0. /\ \A d \in Consumers \ {c} : stage'[d] = stage[d] /\ pc'[d] = pc[d]
        /\ \A d \in Consumers \ {c} : item'[d] = item[d]
    BY <1>2, ConsumerFrame DEF Threads
  <2>1. ASSUME UNCHANGED <<popped, completedOrders, ordersProcessed>>,
               c \in Holding' <=> c \in Holding,
               stage'[c] = "count" <=> stage[c] = "count",
               c \in Holding => item'[c] = item[c]
        PROVE  EachPopCompleted'
    <3>1. Holding' = Holding
      BY <2>0, <2>1 DEF Holding
    <3>2. AtStage("count")' = AtStage("count")
      BY <2>0, <2>1 DEF AtStage
    <3>3. \A d \in Holding : item'[d] = item[d]
      BY <2>0, <2>1 DEF Holding
    <3>4. QED
      BY <2>1, <3>1, <3>2, <3>3, HandsUnchanged
  <2>2. CASE PassLatch(c)
    BY <2>1, <2>2
    DEF PassLatch, Enter, Threads, queueVars, exceptPc, bookVars, Holding, StagesInStep
  <2>3. CASE CallPop(c)
    BY <2>1, <2>3
    DEF CallPop, Queue!PopLoadHead, Queue!Goto, Queue!history, Threads, bookVars, Holding
  <2>4. CASE InPop(c)
    <3>1. CASE Queue!PopStoreHead(c)
      BY <1>2, <2>4, <3>1, PopHandsOver
    <3>2. CASE ~Queue!PopStoreHead(c)
      <4>1. /\ pc[c] # "popped" /\ pc'[c] # "popped" /\ stage' = stage
            /\ UNCHANGED <<popped, completedOrders, ordersProcessed>>
        BY <2>4, <3>2
        DEF InPop, Queue!PopStep, Queue!PopCheckEmpty, Queue!PopReadId, Queue!PopReadBody,
            Queue!Goto, Queue!history, Threads, bookVars
      <4>2. QED
        BY <2>1, <4>1 DEF Holding
    <3>3. QED
      BY <3>1, <3>2
  <2>5. CASE CheckDone(c)
    BY <2>1, <2>5
    DEF CheckDone, Queue!Goto, Enter, Threads, exceptPc, bookVars, Holding
  <2>6. CASE AcquireSemaphore(c)
    BY <2>1, <2>6
    DEF AcquireSemaphore, Enter, Threads, queueVars, exceptPc, bookVars, Holding
  <2>7. CASE UpdateBook(c)
    BY <2>1, <2>7 DEF UpdateBook, Enter, Threads, queueVars, exceptPc, Holding
  <2>8. CASE RecordCompleted(c)
    BY <1>2, <2>8, RecordTakesOver
  <2>9. CASE CountProcessed(c)
    <3>1. /\ stage[c] = "count" /\ stage'[c] = "release"
          /\ UNCHANGED <<pc, item, popped, completedOrders>>
          /\ ordersProcessed' = ordersProcessed + 1
      BY <2>9 DEF CountProcessed, Enter, Threads, queueVars, exceptPc
    <3>2. Holding' = Holding
      BY <2>0, <3>1 DEF Holding
    <3>3. c \in AtStage("count") /\ AtStage("count")' = AtStage("count") \ {c}
      BY <2>0, <3>1 DEF AtStage
    <3>4. Cardinality(AtStage("count")') = Cardinality(AtStage("count")) - 1
      BY <3>3, CompletedTypes, FS_RemoveElement
    <3>5. Len(completedOrders') = ordersProcessed' + Cardinality(AtStage("count")')
      <4>1. Len(completedOrders) = ordersProcessed + Cardinality(AtStage("count"))
        BY DEF EachPopCompleted
      <4>2. QED
        BY <3>1, <3>4, <4>1, CompletedTypes
    <3>6. QED
      BY <3>1, <3>2, <3>5 DEF EachPopCompleted
  <2>10. CASE ReleaseSemaphore(c)
    BY <2>1, <2>10
    DEF ReleaseSemaphore, Queue!Goto, Enter, Threads, exceptPc, bookVars, Holding
  <2>11. QED
    BY <1>2, <2>2, <2>3, <2>4, <2>5, <2>6, <2>7, <2>8, <2>9, <2>10 DEF Consumer
<1>3. CASE Main \/ UNCHANGED vars
  BY <1>3, HandsUnchanged
  DEF Main, vars, queueVars, exceptPc, bookVars, Holding, AtStage
<1>4. QED
  BY <1>1, <1>2, <1>3 DEF Next, Done
-----------------------------------------------------------------------------
(***************************************************************************)
(* The inductive invariant: types, threads in step with the ring, joins,   *)
(* permits, and every popped order completed or in the hands of one        *)
(* consumer, for any setup main() may start.                               *)
(***************************************************************************)
LEMMA PipelineInit == Init => PipelineInv
<1> SUFFICES ASSUME Init PROVE PipelineInv
  OBVIOUS
<1> USE PipelineAssumption
<1>1. Queue!Init /\ Queue!TypeOK
  BY RingTypes DEF Init
<1>2. setup.ordersPerProducer \in Nat \ {0}
  BY DEF Init
<1>3. TypeOK
  <2>1. << >> \in Seq(Queue!Slots) /\ Len(<< >>) = 0 /\ DOMAIN << >> = {}
    OBVIOUS
  <2>2. /\ setup \in Setups
        /\ stage \in [Producers \cup Consumers ->
                        {"latch", "run", "book", "record", "count", "release", "exited"}]
        /\ mainStage = "start" /\ latchOpen = FALSE /\ producersDone = FALSE
        /\ i \in [Producers -> 0 .. setup.ordersPerProducer]
        /\ permits = MaxParallel
        /\ orderBook = << >> /\ completedOrders = << >> /\ printed = << >>
        /\ ordersProcessed = 0
    BY <1>2 DEF Init
  <2>3. /\ permits \in 0 .. MaxParallel
        /\ DOMAIN orderBook = {}
        /\ completedOrders \in Seq(Queue!Slots)
        /\ Len(printed) <= 1
    BY <2>1, <2>2
  <2>4. QED
    BY <1>1, <2>2, <2>3 DEF TypeOK
<1>4. StagesInStep
  BY <1>1, <1>2 DEF Init, StagesInStep, Queue!Init, Queue!Threads
<1>5. JoinsAwaited
  BY DEF Init, JoinsAwaited
<1>6. Processing = {} /\ Holding = {} /\ AtStage("count") = {}
  BY DEF Init, Processing, Holding, AtStage
<1>7. PermitsHeld
  BY <1>6, FS_EmptySet DEF Init, PermitsHeld
<1>8. EachPopCompleted
  <2>1. popped = << >> /\ completedOrders = << >> /\ ordersProcessed = 0
    BY <1>1 DEF Init, Queue!Init
  <2>2. Len(<< >>) = 0 /\ \A S : Times(<< >>, S) = 0
    BY FS_EmptySet DEF Times
  <2>3. \A S : {c \in Holding : item[c] \in S} = {}
    BY <1>6
  <2>4. ASSUME NEW S \in Kinds
        PROVE  Times(popped, S) = Times(completedOrders, S)
                                    + Cardinality({c \in Holding : item[c] \in S})
    <3>1. Cardinality({c \in Holding : item[c] \in S}) = 0
      BY <2>3, FS_EmptySet
    <3>2. QED
      BY <2>1, <2>2, <3>1
  <2>5. Cardinality(Holding) = 0 /\ Cardinality(AtStage("count")) = 0
    BY <1>6, FS_EmptySet
  <2>6. Len(popped) = 0 /\ Len(completedOrders) = 0
    BY <2>1, <2>2
  <2>7. QED
    BY <2>1, <2>4, <2>5, <2>6 DEF EachPopCompleted
<1>9. QED
  BY <1>3, <1>4, <1>5, <1>7, <1>8 DEF PipelineInv

LEMMA PipelineStep == PipelineInv /\ [Next]_vars => PipelineInv'
<1> SUFFICES ASSUME PipelineInv, [Next]_vars PROVE PipelineInv'
  OBVIOUS
<1>0. TypeOK /\ StagesInStep /\ JoinsAwaited /\ PermitsHeld /\ EachPopCompleted
  BY DEF PipelineInv
<1>1. StagesInStep' /\ JoinsAwaited' /\ EachPopCompleted'
  BY <1>0, StagesStep, JoinsStep, CompletedStep
<1>2. PermitsHeld' /\ permits' \in 0 .. MaxParallel
  BY <1>0, PermitsStep
<1>3. TypeOK'
  BY <1>0, <1>2, RingStaysTyped, OthersStayTyped
<1>4. QED
  BY <1>1, <1>2, <1>3 DEF PipelineInv

(***************************************************************************)
(* The pipeline keeps its types, the semaphore's count in 0 .. MaxParallel *)
(* and the parts that make this inductive, whatever threads main() starts. *)
(***************************************************************************)
THEOREM PipelineInvHolds == Spec => []PipelineInv
  BY PipelineInit, PipelineStep, PTL DEF Spec

LEMMA JoinedConsumers ==
  ASSUME PipelineInv, Exited(Consumers)
  PROVE  \A c \in Consumers : stage[c] \in {"latch", "exited"}
  BY DEF PipelineInv, StagesInStep, Exited

LEMMA PermitsReturned == PipelineInv => SemaphoreHeldByProcessing
<1> SUFFICES ASSUME PipelineInv PROVE SemaphoreHeldByProcessing
  OBVIOUS
<1>1. Cardinality(Processing) = MaxParallel - permits
  BY DEF PipelineInv, PermitsHeld
<1>2. ASSUME mainStage \in {"analyse", "done"} PROVE permits = MaxParallel
  <2>1. Exited(Consumers)
    BY <1>2 DEF PipelineInv, JoinsAwaited
  <2>2. Processing = {}
    BY <2>1, JoinedConsumers DEF Processing
  <2>3. permits \in 0 .. MaxParallel /\ MaxParallel \in Nat
    BY PipelineAssumption DEF PipelineInv, TypeOK
  <2>4. QED
    BY <1>1, <2>2, <2>3, FS_EmptySet
<1>3. QED
  BY <1>1, <1>2 DEF SemaphoreHeldByProcessing

(***************************************************************************)
(* At most MaxParallel consumers are between acquire() and release(), and  *)
(* after the joins the semaphore is back at its initial count.             *)
(***************************************************************************)
THEOREM SemaphoreHolds == Spec => []SemaphoreHeldByProcessing
  BY PipelineInvHolds, PermitsReturned, PTL

LEMMA DoneStopsPushes ==
  PipelineInv /\ [Next]_vars => [producersDone => UNCHANGED <<tail, buffer, pushed>>]_vars
<1> SUFFICES ASSUME PipelineInv, [Next]_vars, producersDone
             PROVE  UNCHANGED <<tail, buffer, pushed>>
  OBVIOUS
<1>0. TypeOK /\ StagesInStep /\ JoinsAwaited
  BY DEF PipelineInv
<1>1. ASSUME NEW p \in Producers, Producer(p) PROVE FALSE
  <2>1. p \in setup.threads /\ stage[p] # "exited"
    BY <1>0, <1>1, ProducerMoves
  <2>2. QED
    BY <1>0, <2>1 DEF JoinsAwaited, Exited
<1>2. ASSUME NEW c \in Consumers, Consumer(c) PROVE UNCHANGED <<tail, buffer, pushed>>
  BY <1>0, <1>2, ConsumerFrame
<1>3. CASE Main \/ UNCHANGED vars
  BY <1>3 DEF Main, vars, queueVars, exceptPc
<1>4. QED
  BY <1>1, <1>2, <1>3 DEF Next, Done

(***************************************************************************)
(* producersDone keeps its promise: once it is up no push() stores a tail  *)
(* or touches a slot, because main() raises it after it joined every       *)
(* producer it started.                                                    *)
(***************************************************************************)
THEOREM NoPushesAfterDone == Spec => NoPushAfterDone
  BY PipelineInvHolds, DoneStopsPushes, PTL DEF Spec, NoPushAfterDone

LEMMA SymbolsSeen ==
  ASSUME NEW q \in Seq(Queue!Slots), NEW sym
  PROVE  sym \in {Symbol(q[k].body) : k \in DOMAIN q} <=> Times(q, OfSymbol(sym)) # 0
<1> DEFINE T == Queue!Slots
           K == {k \in DOMAIN q : q[k] \in OfSymbol(sym)}
<1>1. q \in Seq(T)
  OBVIOUS
<1>2. \A k \in DOMAIN q : q[k] \in Queue!Slots
  <2> HIDE DEF T
  <2>1. \A k \in DOMAIN q : q[k] \in T
    BY <1>1
  <2>2. QED
    BY <2>1 DEF T
<1>3. IsFiniteSet(K)
  <2> HIDE DEF T
  <2>1. DOMAIN q = 1 .. Len(q) /\ Len(q) \in Nat
    BY <1>1
  <2>2. IsFiniteSet(1 .. Len(q)) /\ K \subseteq 1 .. Len(q)
    BY <2>1, FS_Interval
  <2>3. QED
    BY <2>2, FS_Subset
<1>4. sym \in {Symbol(q[k].body) : k \in DOMAIN q} <=> K # {}
  BY <1>2 DEF OfSymbol
<1>5. QED
  BY <1>3, <1>4, FS_EmptySet DEF Times

\* Two sequences that hold every kind of order equally often have one report.
LEMMA SameReports ==
  ASSUME NEW q \in Seq(Queue!Slots), NEW r \in Seq(Queue!Slots), Len(q) = Len(r),
         \A S \in Kinds : Times(q, S) = Times(r, S)
  PROVE  Reports(q) = Reports(r)
<1> DEFINE Seen(s) == {Symbol(s[k].body) : k \in DOMAIN s}
<1>1. \A sym \in Symbols : Times(q, OfSymbol(sym)) = Times(r, OfSymbol(sym))
  BY DEF Kinds
<1>2. Times(q, Buys) = Times(r, Buys)
  BY DEF Kinds
<1>3. Seen(q) \subseteq Symbols /\ Seen(r) \subseteq Symbols
  BY DEF Symbol, Symbols
<1>4. Seen(q) = Seen(r)
  BY <1>1, <1>3, SymbolsSeen
<1>5. Report(q) = Report(r)
  BY <1>1, <1>2, <1>3, <1>4 DEF Report
<1>6. q = << >> <=> r = << >>
  <2> DEFINE T == Queue!Slots
  <2>1. q \in Seq(T) /\ r \in Seq(T)
    OBVIOUS
  <2> HIDE DEF T
  <2>2. QED
    BY <2>1
<1>7. QED
  BY <1>5, <1>6 DEF Reports

LEMMA AllReported == PipelineInv => ReportsWhatWasPopped
<1> SUFFICES ASSUME PipelineInv, mainStage = "done"
             PROVE  printed = Reports(popped) /\ ordersProcessed = Len(popped)
  BY DEF ReportsWhatWasPopped
<1>0. TypeOK /\ JoinsAwaited /\ EachPopCompleted
  BY DEF PipelineInv
<1>1. Exited(Consumers) /\ printed = Reports(completedOrders)
  BY <1>0 DEF JoinsAwaited
<1>2. \A c \in Consumers : stage[c] \in {"latch", "exited"}
  BY <1>1, JoinedConsumers
<1>3. Holding = {} /\ AtStage("count") = {}
  BY <1>2 DEF Holding, AtStage
<1>4. /\ Len(popped) \in Nat /\ Len(completedOrders) \in Nat /\ ordersProcessed \in Nat
      /\ popped \in Seq(Queue!Slots) /\ completedOrders \in Seq(Queue!Slots)
  BY <1>0, CompletedTypes
<1>5. Cardinality(Holding) = 0 /\ Cardinality(AtStage("count")) = 0
  BY <1>3, FS_EmptySet
<1>6. Len(popped) = Len(completedOrders) /\ Len(popped) = ordersProcessed
  BY <1>0, <1>4, <1>5 DEF EachPopCompleted
<1>7. ASSUME NEW S \in Kinds PROVE Times(popped, S) = Times(completedOrders, S)
  <2>1. {c \in Holding : item[c] \in S} = {}
    BY <1>3
  <2>2. Times(popped, S) = Times(completedOrders, S) + 0
    BY <1>0, <2>1, FS_EmptySet DEF EachPopCompleted
  <2>3. Times(completedOrders, S) \in Nat
    <3> DEFINE x == [id |-> NoOrder, body |-> NoOrder]
    <3>1. x \in Queue!Slots
      BY DEF Queue!Slots, Queue!Field
    <3> HIDE DEF x
    <3>2. QED
      BY <1>4, <3>1, TimesAppend
  <2>4. QED
    BY <2>2, <2>3
<1>8. Reports(popped) = Reports(completedOrders)
  BY <1>4, <1>6, <1>7, SameReports
<1>9. QED
  BY <1>1, <1>6, <1>8

(***************************************************************************)
(* The report printed after the joins is that of everything any pop()      *)
(* returned, and ordersProcessed has counted all of it.                    *)
(***************************************************************************)
THEOREM ReportsHold == Spec => []ReportsWhatWasPopped
  BY PipelineInvHolds, AllReported, PTL
-----------------------------------------------------------------------------
(***************************************************************************)
(* Sums are counted unit by unit, in sets of which a new key enlarges one  *)
(* by as many as it brings.                                                *)
(***************************************************************************)
LEMMA UnitsAdded ==
  ASSUME NEW f, NEW K, NEW k, k \notin K, NEW s, NEW side,
         VolumeOf(f[k].body, s, side) \in Nat, IsFiniteSet(UnitsIn(f, K, s, side))
  PROVE  /\ IsFiniteSet(UnitsIn(f, K \cup {k}, s, side))
         /\ Cardinality(UnitsIn(f, K, s, side)) \in Nat
         /\ Cardinality(UnitsIn(f, K \cup {k}, s, side))
              = Cardinality(UnitsIn(f, K, s, side)) + VolumeOf(f[k].body, s, side)
<1> DEFINE v   == VolumeOf(f[k].body, s, side)
           u   == UnitsIn(f, K, s, side)
           new == {k} \X (1 .. v)
<1>1. UnitsIn(f, K \cup {k}, s, side) = u \cup new /\ u \cap new = {}
  BY DEF UnitsIn
<1>2. IsFiniteSet(u) /\ v \in Nat
  OBVIOUS
<1>3. IsFiniteSet(new) /\ Cardinality(new) = v
  <2> HIDE DEF v
  <2>1. IsFiniteSet(1 .. v) /\ Cardinality(1 .. v) = v
    <3>1. \A q \in Nat : IsFiniteSet(1 .. q) /\ Cardinality(1 .. q) = q
      BY FS_Interval
    <3>2. QED
      BY <1>2, <3>1
  <2>2. IsFiniteSet({k}) /\ Cardinality({k}) = 1
    BY FS_Singleton
  <2>3. /\ IsFiniteSet({k} \X (1 .. v))
        /\ Cardinality({k} \X (1 .. v)) = Cardinality({k}) * Cardinality(1 .. v)
    BY <2>1, <2>2, FS_Product
  <2>4. QED
    BY <1>2, <2>1, <2>2, <2>3
<1> HIDE DEF u, new, v
<1>4. Cardinality(u) \in Nat /\ Cardinality({}) = 0
  BY <1>2, FS_CardinalityType, FS_EmptySet
<1>5. /\ IsFiniteSet(u \cup new)
      /\ Cardinality(u \cup new) = Cardinality(u) + Cardinality(new) - Cardinality({})
  BY <1>1, <1>2, <1>3, FS_Union
<1>6. Cardinality(u \cup new) = Cardinality(u) + v
  BY <1>2, <1>3, <1>4, <1>5
<1>7. QED
  BY <1>1, <1>4, <1>5, <1>6 DEF u, v

LEMMA UnitsSame ==
  ASSUME NEW f, NEW g, NEW K, NEW s, NEW side, \A k \in K : f[k].body = g[k].body
  PROVE  UnitsIn(f, K, s, side) = UnitsIn(g, K, s, side)
  BY DEF UnitsIn

BookCounted(s, side) ==
  /\ IsFiniteSet(UnitsIn(completedOrders, DOMAIN completedOrders, s, side))
  /\ IsFiniteSet(UnitsIn(item, AtStage("record"), s, side))
  /\ Volume(s)[side] = SumOver(s, side)

LEMMA BookedSides ==
  ASSUME TypeOK, NEW c \in Consumers, UpdateBook(c),
         NEW s \in Symbols, NEW side \in {"buy", "sell"}
  PROVE  /\ VolumeOf(item[c].body, s, side) \in Nat
         /\ Volume(s)[side] \in Nat
         /\ Volume(s)'[side] = Volume(s)[side] + VolumeOf(item[c].body, s, side)
<1> DEFINE o == item[c].body
           v == Volume(Symbol(o))
           q == Quantity(o)
<1>1. o \in Queue!Field
  BY Functions DEF Queue!Slots
<1>2. Symbol(o) \in Symbols /\ q \in Nat /\ Side(o) \in {"buy", "sell"}
  BY <1>1, OrderData DEF Side
<1>3. Volume(s) \in [buy : Nat, sell : Nat] /\ v \in [buy : Nat, sell : Nat]
  BY <1>2 DEF TypeOK, Volume
<1>4. Volume(s)' = IF s = Symbol(o) THEN Booked(o) ELSE Volume(s)
  BY DEF UpdateBook, Volume
<1>5. Booked(o) = [v EXCEPT ![Side(o)] = v[Side(o)] + q]
  BY DEF Booked, Side
<1> HIDE DEF o, v, q
<1>6. VolumeOf(o, s, side) = IF Symbol(o) = s /\ Side(o) = side THEN q ELSE 0
  BY DEF VolumeOf, q
<1>7. /\ VolumeOf(o, s, side) \in Nat
      /\ Volume(s)[side] \in Nat
  BY <1>2, <1>3, <1>6
<1>8. Booked(o)[side] = v[side] + IF Side(o) = side THEN q ELSE 0
  BY <1>2, <1>3, <1>5
<1>9. Volume(s)'[side] = Volume(s)[side] + VolumeOf(o, s, side)
  <2>1. CASE Symbol(o) = s
    BY <2>1, <1>4, <1>6, <1>8 DEF v
  <2>2. CASE Symbol(o) # s
    BY <2>2, <1>4, <1>6, <1>7
  <2>3. QED
    BY <2>1, <2>2
<1>10. QED
  BY <1>7, <1>9 DEF o

(***************************************************************************)
(* A step that books nothing and records nothing.                          *)
(***************************************************************************)
LEMMA SumsUnchanged ==
  ASSUME NEW s, NEW side, BookCounted(s, side), UNCHANGED <<orderBook, completedOrders>>,
         AtStage("record")' = AtStage("record"),
         \A c \in AtStage("record") : item'[c] = item[c]
  PROVE  BookCounted(s, side)'
<1>1. UnitsIn(item', AtStage("record"), s, side) = UnitsIn(item, AtStage("record"), s, side)
  BY UnitsSame
<1>2. Volume(s)' = Volume(s)
  BY DEF Volume
<1>3. QED
  BY <1>1, <1>2 DEF BookCounted, SumOver

LEMMA BookingCounts ==
  ASSUME TypeOK, NEW c \in Consumers, Consumer(c), UpdateBook(c),
         NEW s \in Symbols, NEW side \in {"buy", "sell"}, BookCounted(s, side)
  PROVE  BookCounted(s, side)'
<1> DEFINE v == VolumeOf(item[c].body, s, side)
           P == AtStage("record")
           done == UnitsIn(completedOrders, DOMAIN completedOrders, s, side)
<1>1. /\ UNCHANGED <<item, completedOrders>>
      /\ c \notin P /\ AtStage("record")' = P \cup {c}
  BY ConsumerFrame, Functions DEF UpdateBook, Enter, Threads, AtStage, queueVars, exceptPc
<1>2. v \in Nat /\ Volume(s)'[side] = Volume(s)[side] + v
  BY BookedSides
<1>3. /\ IsFiniteSet(UnitsIn(item, P \cup {c}, s, side))
      /\ Cardinality(UnitsIn(item, P, s, side)) \in Nat
      /\ Cardinality(UnitsIn(item, P \cup {c}, s, side))
           = Cardinality(UnitsIn(item, P, s, side)) + v
  <2>1. IsFiniteSet(UnitsIn(item, P, s, side))
    BY DEF BookCounted
  <2> HIDE DEF P
  <2>2. QED
    BY <1>1, <1>2, <2>1, UnitsAdded
<1>4. IsFiniteSet(done) /\ Cardinality(done) \in Nat
  BY FS_CardinalityType DEF BookCounted
<1>5. Volume(s)[side] = Cardinality(done) + Cardinality(UnitsIn(item, P, s, side))
  BY DEF BookCounted, SumOver
<1>6. Volume(s)'[side]
        = Cardinality(done) + Cardinality(UnitsIn(item, P \cup {c}, s, side))
  <2> DEFINE now == Volume(s)[side]
             later == Volume(s)'[side]
             m     == Cardinality(UnitsIn(item, P, s, side))
             m2    == Cardinality(UnitsIn(item, P \cup {c}, s, side))
             d     == Cardinality(done)
  <2>1. /\ v \in Nat /\ m \in Nat /\ d \in Nat
        /\ now = d + m /\ later = now + v /\ m2 = m + v
    BY <1>2, <1>3, <1>4, <1>5, Zenon
  <2> HIDE DEF v, now, later, m, m2, d
  <2>2. later = d + m2
    BY <2>1
  <2>3. QED
    BY <2>2 DEF later, d, m2
<1>7. QED
  BY <1>1, <1>3, <1>4, <1>6 DEF BookCounted, SumOver

LEMMA RecordingCounts ==
  ASSUME TypeOK, NEW c \in Consumers, Consumer(c), RecordCompleted(c),
         NEW s \in Symbols, NEW side \in {"buy", "sell"}, BookCounted(s, side)
  PROVE  BookCounted(s, side)'
<1> DEFINE v == VolumeOf(item[c].body, s, side)
           P == AtStage("record") \ {c}
           D == DOMAIN completedOrders
           n == Len(completedOrders) + 1
<1>1. /\ UNCHANGED <<item, orderBook>>
      /\ c \in AtStage("record") /\ AtStage("record")' = P
      /\ completedOrders' = Append(completedOrders, item[c])
  BY ConsumerFrame, Functions DEF RecordCompleted, Enter, Threads, AtStage, queueVars, exceptPc
<1>2. v \in Nat
  <2>1. item[c].body \in Queue!Field
    BY Functions DEF Queue!Slots
  <2>2. QED
    BY <2>1, OrderData DEF VolumeOf
<1>3. /\ D = 1 .. Len(completedOrders) /\ n \notin D /\ DOMAIN completedOrders' = D \cup {n}
      /\ completedOrders'[n] = item[c]
      /\ \A k \in D : completedOrders'[k] = completedOrders[k]
  <2> DEFINE T == Queue!Slots
             q == completedOrders
             x == item[c]
  <2>1. q \in Seq(T) /\ x \in T
    BY CompletedTypes, Functions
  <2>2. completedOrders' = Append(q, x)
    BY <1>1
  <2> DEFINE l == Len(q)
  <2> HIDE DEF T, q, x
  <2>3. /\ DOMAIN q = 1 .. Len(q) /\ Len(q) \in Nat
        /\ DOMAIN Append(q, x) = 1 .. Len(q) + 1
        /\ Append(q, x)[Len(q) + 1] = x
        /\ \A k \in 1 .. Len(q) : Append(q, x)[k] = q[k]
    BY <2>1
  <2>4. 1 .. l + 1 = (1 .. l) \cup {l + 1} /\ l + 1 \notin 1 .. l
    <3>1. l \in Nat
      BY <2>3
    <3> HIDE DEF l
    <3>2. QED
      BY <3>1
  <2>5. QED
    BY <2>2, <2>3, <2>4 DEF q, x
<1>4. /\ IsFiniteSet(UnitsIn(item, P, s, side))
      /\ Cardinality(UnitsIn(item, P, s, side)) \in Nat
      /\ Cardinality(UnitsIn(item, AtStage("record"), s, side))
           = Cardinality(UnitsIn(item, P, s, side)) + v
  <2>1. UnitsIn(item, P, s, side) \in SUBSET UnitsIn(item, AtStage("record"), s, side)
    BY DEF UnitsIn
  <2>2. IsFiniteSet(UnitsIn(item, P, s, side))
    BY <2>1, FS_Subset DEF BookCounted
  <2>3. AtStage("record") = P \cup {c} /\ c \notin P
    BY <1>1
  <2> HIDE DEF P
  <2>4. /\ Cardinality(UnitsIn(item, P, s, side)) \in Nat
        /\ Cardinality(UnitsIn(item, P \cup {c}, s, side))
             = Cardinality(UnitsIn(item, P, s, side)) + v
    BY <2>2, <2>3, <1>2, UnitsAdded
  <2>5. QED
    BY <2>2, <2>3, <2>4, Zenon
<1>5. /\ IsFiniteSet(UnitsIn(completedOrders', D \cup {n}, s, side))
      /\ Cardinality(UnitsIn(completedOrders', D, s, side)) \in Nat
      /\ Cardinality(UnitsIn(completedOrders', D \cup {n}, s, side))
           = Cardinality(UnitsIn(completedOrders', D, s, side)) + v
      /\ UnitsIn(completedOrders', D, s, side) = UnitsIn(completedOrders, D, s, side)
  <2>1. UnitsIn(completedOrders', D, s, side) = UnitsIn(completedOrders, D, s, side)
    <3>1. \A k \in D : completedOrders'[k].body = completedOrders[k].body
      BY <1>3
    <3> HIDE DEF D
    <3>2. QED
      BY <3>1, UnitsSame
  <2>2. IsFiniteSet(UnitsIn(completedOrders', D, s, side))
    BY <2>1 DEF BookCounted
  <2>3. VolumeOf(completedOrders'[n].body, s, side) = v
    BY <1>3
  <2>4. n \notin D
    BY <1>3
  <2> HIDE DEF n, D
  <2>5. VolumeOf(completedOrders'[n].body, s, side) \in Nat
    BY <2>3, <1>2, Zenon
  <2>6. /\ IsFiniteSet(UnitsIn(completedOrders', D \cup {n}, s, side))
        /\ Cardinality(UnitsIn(completedOrders', D, s, side)) \in Nat
        /\ Cardinality(UnitsIn(completedOrders', D \cup {n}, s, side))
             = Cardinality(UnitsIn(completedOrders', D, s, side))
                 + VolumeOf(completedOrders'[n].body, s, side)
    BY <2>2, <2>4, <2>5, UnitsAdded
  <2>7. QED
    BY <2>1, <2>3, <2>6, Zenon
<1>6. Volume(s)[side] = Cardinality(UnitsIn(completedOrders, D, s, side))
                               + Cardinality(UnitsIn(item, AtStage("record"), s, side))
  BY DEF BookCounted, SumOver
<1>7. Volume(s)[side] = Cardinality(UnitsIn(completedOrders', D \cup {n}, s, side))
                               + Cardinality(UnitsIn(item, P, s, side))
  <2> DEFINE now  == Volume(s)[side]
             d    == Cardinality(UnitsIn(completedOrders, D, s, side))
             d2   == Cardinality(UnitsIn(completedOrders', D \cup {n}, s, side))
             m    == Cardinality(UnitsIn(item, AtStage("record"), s, side))
             m2   == Cardinality(UnitsIn(item, P, s, side))
  <2>1. /\ v \in Nat /\ m2 \in Nat /\ d \in Nat
        /\ now = d + m /\ m = m2 + v /\ d2 = d + v
    BY <1>2, <1>4, <1>5, <1>6, Zenon
  <2> HIDE DEF v, now, m, m2, d, d2
  <2>2. now = d2 + m2
    BY <2>1
  <2>3. QED
    BY <2>2 DEF now, d2, m2
<1>8. Volume(s)' = Volume(s)
  BY <1>1 DEF Volume
<1>9. QED
  BY <1>1, <1>3, <1>4, <1>5, <1>7, <1>8 DEF BookCounted, SumOver

AllCounted == \A s \in Symbols, side \in {"buy", "sell"} : BookCounted(s, side)

LEMMA BookCountedStep ==
  ASSUME PipelineInv, [Next]_vars, NEW s \in Symbols, NEW side \in {"buy", "sell"},
         BookCounted(s, side)
  PROVE  BookCounted(s, side)'
<1>0. TypeOK /\ StagesInStep
  BY DEF PipelineInv
<1> USE Functions
<1>1. ASSUME NEW p \in Producers, Producer(p) PROVE BookCounted(s, side)'
  <2>1. UNCHANGED <<item, orderBook, completedOrders>>
    BY <1>0, <1>1, ProducerFrame DEF bookVars
  <2>2. \A c \in Consumers : stage'[c] = stage[c]
    BY <1>0, <1>1, ProducerFrame, PipelineAssumption DEF Threads
  <2>3. QED
    BY <2>1, <2>2, SumsUnchanged DEF AtStage
<1>2. ASSUME NEW c \in Consumers, Consumer(c) PROVE BookCounted(s, side)'
  <2>1. /\ \A d \in Consumers \ {c} : stage'[d] = stage[d]
        /\ \A d \in Consumers \ {c} : item'[d] = item[d]
    BY <1>0, <1>2, ConsumerFrame DEF Threads
  <2>2. ASSUME UNCHANGED <<orderBook, completedOrders>>, stage[c] # "record",
               stage'[c] # "record"
        PROVE  BookCounted(s, side)'
    <3>1. AtStage("record")' = AtStage("record")
      BY <2>1, <2>2 DEF AtStage
    <3>2. \A d \in AtStage("record") : item'[d] = item[d]
      BY <2>1, <2>2 DEF AtStage
    <3>3. QED
      BY <2>2, <3>1, <3>2, SumsUnchanged
  <2>3. CASE PassLatch(c) \/ AcquireSemaphore(c) \/ CountProcessed(c)
    BY <1>0, <2>2, <2>3
    DEF PassLatch, AcquireSemaphore, CountProcessed, Enter, Threads, bookVars
  <2>4. CASE CallPop(c) \/ InPop(c)
    <3>1. pc[c] # "popped"
      BY <2>4 DEF CallPop, InPop, Queue!PopStep, Queue!PopCheckEmpty, Queue!PopReadId,
         Queue!PopReadBody, Queue!PopStoreHead
    <3>2. stage[c] # "record" /\ stage' = stage /\ UNCHANGED bookVars
      BY <1>0, <2>4, <3>1 DEF StagesInStep, CallPop, InPop
    <3>3. QED
      BY <2>2, <3>2 DEF bookVars
  <2>5. CASE CheckDone(c) \/ ReleaseSemaphore(c)
    BY <1>0, <2>2, <2>5 DEF CheckDone, ReleaseSemaphore, Enter, Threads, bookVars
  <2>6. CASE UpdateBook(c)
    BY <1>0, <1>2, <2>6, BookingCounts
  <2>7. CASE RecordCompleted(c)
    BY <1>0, <1>2, <2>7, RecordingCounts
  <2>8. QED
    BY <1>2, <2>3, <2>4, <2>5, <2>6, <2>7 DEF Consumer
<1>3. CASE Main \/ UNCHANGED vars
  <2>1. UNCHANGED <<item, stage, orderBook, completedOrders>>
    BY <1>3 DEF Main, vars, queueVars, exceptPc, bookVars
  <2>2. QED
    BY <2>1, SumsUnchanged DEF AtStage
<1>4. QED
  BY <1>1, <1>2, <1>3 DEF Next, Done

(***************************************************************************)
(* The order book and the completed orders tell the same story, up to the  *)
(* orders of the consumers between the two mutexes: for every symbol and   *)
(* side the booked volume is that of the completed orders and of those     *)
(* about to be recorded, for any number of threads and orders.             *)
(***************************************************************************)
THEOREM BookAlwaysMatches == Spec => []BookMatchesCompleted
<1>1. Init => AllCounted
  <2> SUFFICES ASSUME Init, NEW s \in Symbols, NEW side \in {"buy", "sell"}
               PROVE  BookCounted(s, side)
    BY DEF AllCounted
  <2>1. AtStage("record") = {} /\ DOMAIN completedOrders = {}
    BY DEF Init, AtStage
  <2>2. Volume(s)[side] = 0
    BY DEF Init, Volume
  <2>3. /\ UnitsIn(completedOrders, {}, s, side) = {}
        /\ UnitsIn(item, {}, s, side) = {}
    BY DEF UnitsIn
  <2>4. IsFiniteSet({}) /\ Cardinality({}) = 0
    BY FS_EmptySet
  <2>5. /\ UnitsIn(completedOrders, DOMAIN completedOrders, s, side) = {}
        /\ UnitsIn(item, AtStage("record"), s, side) = {}
    BY <2>1, <2>3
  <2>6. SumOver(s, side) = 0
    BY <2>4, <2>5 DEF SumOver
  <2>7. QED
    BY <2>2, <2>4, <2>5, <2>6 DEF BookCounted
<1>2. PipelineInv /\ AllCounted /\ [Next]_vars => AllCounted'
  <2> SUFFICES ASSUME PipelineInv, AllCounted, [Next]_vars,
                      NEW s \in Symbols, NEW side \in {"buy", "sell"}
               PROVE  BookCounted(s, side)'
    BY DEF AllCounted
  <2>1. BookCounted(s, side)
    BY DEF AllCounted
  <2>2. QED
    BY <2>1, BookCountedStep
<1>3. AllCounted => BookMatchesCompleted
  BY DEF AllCounted, BookCounted, BookMatchesCompleted
<1>4. QED
  BY <1>1, <1>2, <1>3, PipelineInvHolds, PTL DEF Spec
=============================================================================
