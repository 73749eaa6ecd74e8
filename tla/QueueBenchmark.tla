--------------------------- MODULE QueueBenchmark ---------------------------
(***************************************************************************)
(* One test of Session7/MemoryOrderingBenchmark.cpp.  Its four tests have  *)
(* the same text but for the ring they use, and share nothing, so that the *)
(* twenty of the program are this one over and over.  Producers push a     *)
(* fixed number of items each, consumers pop until a counter they share    *)
(* says that NUM_OPERATIONS were popped, and main() joins them all and     *)
(* records the time.                                                       *)
(*                                                                         *)
(* None of the four rings is made for several threads at one end: they may *)
(* lose items, hand them out twice, hand out what was never pushed, be     *)
(* full or empty when they are not.  So push() and pop() return true or    *)
(* false here as they like, which is more than any of the rings can do.    *)
(* (With one thread at each end, MemoryOrders says what they do.)          *)
(*                                                                         *)
(* The counters are relaxed: a load may return any value that is not older *)
(* than the last one the thread has read or written, while fetch_add()     *)
(* always adds to the latest.                                              *)
(***************************************************************************)
EXTENDS Integers, FiniteSets

CONSTANTS Producers, Consumers, NUM_OPERATIONS

numProducers     == Cardinality(Producers)
itemsPerProducer == NUM_OPERATIONS \div numProducers

ASSUME ThreadsAssumption ==
  /\ IsFiniteSet(Producers) /\ Producers # {}
  /\ IsFiniteSet(Consumers) /\ Consumers # {}
  /\ Producers \cap Consumers = {}

ASSUME ItemsAssumption ==
  /\ NUM_OPERATIONS \in Nat \ {0}
  /\ NUM_OPERATIONS % Cardinality(Producers) = 0   \* 100000 % 4

VARIABLES stage,               \* where each thread is
          i,                   \* each producer's loop variable
          startFlag, produced, consumed,
          seen,                \* the value of consumed each consumer knows of
          pushes, pops,        \* history: how many calls have returned true
          mainStage

loops    == <<i, seen>>
counters == <<produced, consumed>>
history  == <<pushes, pops>>
testVars == <<stage, loops, startFlag, counters, history, mainStage>>

TestInit ==
  /\ stage = [t \in Producers \cup Consumers |-> "wait"]
  /\ i = [p \in Producers |-> 0]
  /\ startFlag = FALSE
  /\ produced = 0
  /\ consumed = 0
  /\ seen = [c \in Consumers |-> 0]
  /\ pushes = 0
  /\ pops = 0
  /\ mainStage = "start"

Enter(t, s) == stage' = [stage EXCEPT ![t] = s]

\* A thread spins until it reads the flag.
SeeStart(t) ==
  /\ stage[t] = "wait"
  /\ startFlag
  /\ Enter(t, "loop")
  /\ UNCHANGED <<loops, startFlag, counters, history, mainStage>>
-----------------------------------------------------------------------------
\* producer_fn.  A push that returned false is called again.

Push(p) ==
  /\ stage[p] = "loop"
  /\ \/ Enter(p, "pushed") /\ pushes' = pushes + 1
     \/ UNCHANGED <<stage, pushes>>
  /\ UNCHANGED <<loops, startFlag, counters, pops, mainStage>>

CountProduced(p) ==
  /\ stage[p] = "pushed"
  /\ produced' = produced + 1
  /\ i' = [i EXCEPT ![p] = @ + 1]
  /\ Enter(p, IF i'[p] < itemsPerProducer THEN "loop" ELSE "exited")
  /\ UNCHANGED <<seen, startFlag, consumed, history, mainStage>>

Producer(p) == SeeStart(p) \/ Push(p) \/ CountProduced(p)
-----------------------------------------------------------------------------
\* consumer_fn.  Other consumers may count between the look at the counter
\* and the pop, and between the pop and the count.

\* Mutant: one item more than there are is waited for.
TestConsumedBeyond(c) ==
  /\ stage[c] = "loop"
  /\ \E v \in seen[c] .. consumed :
        /\ seen' = [seen EXCEPT ![c] = v]
        /\ Enter(c, IF v <= NUM_OPERATIONS THEN "pop" ELSE "exited")
  /\ UNCHANGED <<i, startFlag, counters, history, mainStage>>

TestConsumed(c) ==
  /\ stage[c] = "loop"
  /\ \E v \in seen[c] .. consumed :
        /\ seen' = [seen EXCEPT ![c] = v]
        /\ Enter(c, IF v < NUM_OPERATIONS THEN "pop" ELSE "exited")
  /\ UNCHANGED <<i, startFlag, counters, history, mainStage>>

Pop(c) ==
  /\ stage[c] = "pop"
  /\ \/ Enter(c, "popped") /\ pops' = pops + 1
     \/ Enter(c, "loop") /\ UNCHANGED pops
  /\ UNCHANGED <<loops, startFlag, counters, pushes, mainStage>>

\* Mutant: a load and a store instead of the fetch_add.
CountSeen(c) ==
  /\ stage[c] = "popped"
  /\ consumed' = seen[c] + 1
  /\ seen' = [seen EXCEPT ![c] = consumed']
  /\ Enter(c, "loop")
  /\ UNCHANGED <<i, startFlag, produced, history, mainStage>>

CountConsumed(c) ==
  /\ stage[c] = "popped"
  /\ consumed' = consumed + 1
  /\ seen' = [seen EXCEPT ![c] = consumed']
  /\ Enter(c, "loop")
  /\ UNCHANGED <<i, startFlag, produced, history, mainStage>>

Consumer(c) == SeeStart(c) \/ TestConsumed(c) \/ Pop(c) \/ CountConsumed(c)
-----------------------------------------------------------------------------
\* benchmark_queues()

Exited(T) == \A t \in T : stage[t] = "exited"

Start == /\ mainStage = "start"
         /\ startFlag' = TRUE
         /\ mainStage' = "joinProducers"

JoinProducers == /\ mainStage = "joinProducers"
                 /\ Exited(Producers)
                 /\ mainStage' = "joinConsumers"
                 /\ UNCHANGED startFlag

Record == /\ mainStage = "joinConsumers"
          /\ Exited(Consumers)
          /\ mainStage' = "recorded"
          /\ UNCHANGED startFlag

Main == /\ Start \/ JoinProducers \/ Record
        /\ UNCHANGED <<stage, loops, counters, history>>

Recorded == mainStage = "recorded" /\ UNCHANGED testVars

TestNext ==
  \/ \E p \in Producers : Producer(p)
  \/ \E c \in Consumers : Consumer(c)
  \/ Main
  \/ Recorded

TestSpec == TestInit /\ [][TestNext]_testVars
-----------------------------------------------------------------------------
In(T, s) == {t \in T : stage[t] = s}

(***************************************************************************)
(* The counters against what push() and pop() returned, whatever the ring  *)
(* does and however old the values are that the consumers see: each is     *)
(* behind by the calls that have returned true and are not counted yet.    *)
(* Consumers that saw too old a count pop too much, but at most one item   *)
(* each and never all of them, and when the time is recorded every item    *)
(* was pushed and at least NUM_OPERATIONS pops are in it, all counted.     *)
(***************************************************************************)
CountsAccount ==
  /\ produced + Cardinality(In(Producers, "pushed")) = pushes
  /\ consumed + Cardinality(In(Consumers, "popped")) = pops
  /\ pops < NUM_OPERATIONS + Cardinality(Consumers)
  /\ mainStage = "recorded" =>
       /\ produced = NUM_OPERATIONS /\ pushes = NUM_OPERATIONS
       /\ consumed >= NUM_OPERATIONS /\ pops = consumed

(***************************************************************************)
(* What makes CountsAccount inductive.  A producer exits after all its     *)
(* items, a consumer when it knows of NUM_OPERATIONS counts.  The items    *)
(* counted by the producers are those before their loop variables.  Who    *)
(* is about to pop, or has popped, does not know that enough are counted,  *)
(* and every count from NUM_OPERATIONS on is known to one more consumer.   *)
(***************************************************************************)
BenchTypeOK ==
  /\ stage \in [Producers \cup Consumers ->
                  {"wait", "loop", "pushed", "pop", "popped", "exited"}]
  /\ i \in [Producers -> 0 .. itemsPerProducer]
  /\ seen \in [Consumers -> Nat]
  /\ startFlag \in BOOLEAN
  /\ produced \in Nat /\ consumed \in Nat
  /\ pushes \in Nat /\ pops \in Nat
  /\ mainStage \in {"start", "joinProducers", "joinConsumers", "recorded"}

StagesInStep ==
  /\ \A p \in Producers :
       /\ stage[p] \in {"wait", "loop", "pushed", "exited"}
       /\ stage[p] = "exited" <=> i[p] = itemsPerProducer
  /\ \A c \in Consumers :
       /\ stage[c] \in {"wait", "loop", "pop", "popped", "exited"}
       /\ stage[c] \in {"pop", "popped"} => seen[c] < NUM_OPERATIONS
       /\ stage[c] = "exited" => seen[c] >= NUM_OPERATIONS
       /\ seen[c] <= consumed

JoinsAwaited ==
  /\ mainStage \in {"joinConsumers", "recorded"} => Exited(Producers)
  /\ mainStage = "recorded" => Exited(Consumers)

ItemsCounted ==
  {x \in Producers \X (0 .. NUM_OPERATIONS - 1) : x[2] < i[x[1]]}

Knowing == {c \in Consumers : seen[c] >= NUM_OPERATIONS}

CountsInStep ==
  /\ produced = Cardinality(ItemsCounted)
  /\ produced + Cardinality(In(Producers, "pushed")) = pushes
  /\ consumed + Cardinality(In(Consumers, "popped")) = pops
  /\ consumed < NUM_OPERATIONS + Cardinality(Knowing)

BenchInv == BenchTypeOK /\ StagesInStep /\ JoinsAwaited /\ CountsInStep
=============================================================================
