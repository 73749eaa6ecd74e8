------------------------ MODULE QueueBenchmarkProofs ------------------------
(***************************************************************************)
(* What TLAPS proves about a test of the memory-order benchmark, for any   *)
(* number of threads and items: what its relaxed counters have to do with  *)
(* what the ring answered, and what is in it when the time is recorded.    *)
(***************************************************************************)
EXTENDS QueueBenchmark, FiniteSetTheorems, TLAPS

LEMMA Shares ==
  /\ NUM_OPERATIONS \in Nat \ {0}
  /\ numProducers \in Nat \ {0}
  /\ itemsPerProducer \in 1 .. NUM_OPERATIONS
  /\ numProducers * itemsPerProducer = NUM_OPERATIONS
  /\ Cardinality(Consumers) \in Nat
<1>1. numProducers \in Nat \ {0} /\ Cardinality(Consumers) \in Nat
  BY ThreadsAssumption, FS_CardinalityType, FS_EmptySet DEF numProducers
<1>2. NUM_OPERATIONS \in Nat \ {0} /\ NUM_OPERATIONS % numProducers = 0
  BY ItemsAssumption DEF numProducers
<1>3. \A n \in Nat \ {0}, d \in Nat \ {0} :
        n % d = 0 => n \div d \in 1 .. n /\ d * (n \div d) = n
  OBVIOUS
<1>4. QED
  BY <1>1, <1>2, <1>3 DEF itemsPerProducer

LEMMA FiniteTeam ==
  ASSUME NEW S, S \subseteq Producers \/ S \subseteq Consumers
  PROVE  IsFiniteSet(S) /\ Cardinality(S) \in Nat
<1>1. IsFiniteSet(S)
  BY ThreadsAssumption, FS_Subset
<1>2. QED
  BY <1>1, FS_CardinalityType

\* Sets that differ in one element at most
LEMMA OneMoves ==
  ASSUME NEW A, NEW B, NEW x, IsFiniteSet(A), A \ {x} = B \ {x}
  PROVE  /\ IsFiniteSet(B) /\ Cardinality(A) \in Nat /\ Cardinality(B) \in Nat
         /\ x \in A /\ x \notin B => Cardinality(A) = Cardinality(B) + 1
         /\ x \notin A /\ x \in B => Cardinality(B) = Cardinality(A) + 1
         /\ (x \in A <=> x \in B) => Cardinality(B) = Cardinality(A)
<1>1. CASE x \in A /\ x \notin B
  <2>1. B = A \ {x}
    BY <1>1
  <2>2. QED
    BY <1>1, <2>1, FS_RemoveElement, FS_CardinalityType
<1>2. CASE x \notin A /\ x \in B
  <2>1. B = A \cup {x}
    BY <1>2
  <2>2. QED
    BY <1>2, <2>1, FS_AddElement, FS_CardinalityType
<1>3. CASE x \in A <=> x \in B
  <2>1. B = A
    BY <1>3
  <2>2. QED
    BY <1>3, <2>1, FS_CardinalityType
<1>4. QED
  BY <1>1, <1>2, <1>3
-----------------------------------------------------------------------------
LEMMA BenchInit == TestInit => BenchInv
<1> SUFFICES ASSUME TestInit PROVE BenchInv
  OBVIOUS
<1>1. itemsPerProducer \in 1 .. NUM_OPERATIONS /\ NUM_OPERATIONS \in Nat \ {0}
  BY Shares
<1>2. BenchTypeOK /\ StagesInStep /\ JoinsAwaited
  <2>1. \A t \in Producers \cup Consumers : stage[t] = "wait"
    BY DEF TestInit
  <2>2. \A p \in Producers : i[p] = 0 /\ itemsPerProducer # 0
    BY <1>1 DEF TestInit
  <2>3. \A c \in Consumers : seen[c] = 0 /\ seen[c] <= consumed
    BY DEF TestInit
  <2>4. BenchTypeOK
    <3>1. 0 \in 0 .. itemsPerProducer
      BY <1>1
    <3>2. QED
      BY <3>1 DEF TestInit, BenchTypeOK
  <2>5. StagesInStep
    BY <2>1, <2>2, <2>3 DEF StagesInStep
  <2>6. JoinsAwaited
    BY DEF TestInit, JoinsAwaited
  <2>7. QED
    BY <2>4, <2>5, <2>6
<1>3. /\ ItemsCounted = {} /\ In(Producers, "pushed") = {} /\ In(Consumers, "popped") = {}
      /\ Knowing = {}
  BY <1>1 DEF TestInit, ItemsCounted, In, Knowing
<1>4. CountsInStep
  BY <1>1, <1>3, FS_EmptySet DEF TestInit, CountsInStep
<1>5. QED
  BY <1>2, <1>4 DEF BenchInv

LEMMA CountedSets ==
  /\ IsFiniteSet(ItemsCounted) /\ Cardinality(ItemsCounted) \in Nat
  /\ \A s : /\ IsFiniteSet(In(Producers, s)) /\ Cardinality(In(Producers, s)) \in Nat
            /\ IsFiniteSet(In(Consumers, s)) /\ Cardinality(In(Consumers, s)) \in Nat
  /\ IsFiniteSet(Knowing) /\ Cardinality(Knowing) \in Nat
<1>1. IsFiniteSet(Producers) /\ IsFiniteSet(0 .. NUM_OPERATIONS - 1)
  BY ThreadsAssumption, ItemsAssumption, FS_Interval
<1>2. IsFiniteSet(Producers \X (0 .. NUM_OPERATIONS - 1))
  BY <1>1, FS_Product
<1>3. IsFiniteSet(ItemsCounted)
  BY <1>2, FS_Subset DEF ItemsCounted
<1>4. \A s : In(Producers, s) \subseteq Producers /\ In(Consumers, s) \subseteq Consumers
  BY DEF In
<1>5. Knowing \subseteq Consumers
  BY DEF Knowing
<1>6. QED
  BY <1>3, <1>4, <1>5, FiniteTeam, FS_CardinalityType

\* A thread that moves leaves or enters the sets of its stages only.
LEMMA InMoves ==
  ASSUME BenchTypeOK, NEW t \in Producers \cup Consumers, NEW s, Enter(t, s)
  PROVE  /\ Cardinality(In(Producers, "pushed")') \in Nat
         /\ Cardinality(In(Consumers, "popped")') \in Nat
         /\ t \in Producers /\ stage[t] # "pushed" /\ s = "pushed" =>
              Cardinality(In(Producers, "pushed")') = Cardinality(In(Producers, "pushed")) + 1
         /\ t \in Producers /\ stage[t] = "pushed" /\ s # "pushed" =>
              Cardinality(In(Producers, "pushed")) = Cardinality(In(Producers, "pushed")') + 1
         /\ t \notin Producers \/ (stage[t] = "pushed" <=> s = "pushed") =>
              Cardinality(In(Producers, "pushed")') = Cardinality(In(Producers, "pushed"))
         /\ t \in Consumers /\ stage[t] # "popped" /\ s = "popped" =>
              Cardinality(In(Consumers, "popped")') = Cardinality(In(Consumers, "popped")) + 1
         /\ t \in Consumers /\ stage[t] = "popped" /\ s # "popped" =>
              Cardinality(In(Consumers, "popped")) = Cardinality(In(Consumers, "popped")') + 1
         /\ t \notin Consumers \/ (stage[t] = "popped" <=> s = "popped") =>
              Cardinality(In(Consumers, "popped")') = Cardinality(In(Consumers, "popped"))
<1>1. stage'[t] = s /\ \A u \in (Producers \cup Consumers) \ {t} : stage'[u] = stage[u]
  BY DEF Enter, BenchTypeOK
<1>2. /\ In(Producers, "pushed") \ {t} = In(Producers, "pushed")' \ {t}
      /\ t \in In(Producers, "pushed") <=> t \in Producers /\ stage[t] = "pushed"
      /\ t \in In(Producers, "pushed")' <=> t \in Producers /\ s = "pushed"
  BY <1>1 DEF In
<1>3. /\ In(Consumers, "popped") \ {t} = In(Consumers, "popped")' \ {t}
      /\ t \in In(Consumers, "popped") <=> t \in Consumers /\ stage[t] = "popped"
      /\ t \in In(Consumers, "popped")' <=> t \in Consumers /\ s = "popped"
  BY <1>1 DEF In
<1>4. IsFiniteSet(In(Producers, "pushed")) /\ IsFiniteSet(In(Consumers, "popped"))
  BY CountedSets
<1>5. QED
  BY <1>2, <1>3, <1>4, OneMoves
-----------------------------------------------------------------------------
(***************************************************************************)
(* One step per action.                                                    *)
(***************************************************************************)
LEMMA SeeStartStep ==
  ASSUME BenchInv, NEW t \in Producers \cup Consumers, SeeStart(t)
  PROVE  BenchInv'
<1>1. /\ Enter(t, "loop") /\ stage[t] = "wait" /\ stage' = [stage EXCEPT ![t] = "loop"]
      /\ UNCHANGED <<loops, startFlag, counters, history, mainStage>>
  BY DEF SeeStart, Enter
<1>2. BenchTypeOK' /\ StagesInStep' /\ JoinsAwaited'
  BY <1>1, ThreadsAssumption
  DEF BenchInv, BenchTypeOK, StagesInStep, JoinsAwaited, Exited, loops, counters, history
<1>3. /\ Cardinality(In(Producers, "pushed")') = Cardinality(In(Producers, "pushed"))
      /\ Cardinality(In(Consumers, "popped")') = Cardinality(In(Consumers, "popped"))
  BY <1>1, InMoves DEF BenchInv
<1>4. ItemsCounted' = ItemsCounted /\ Knowing' = Knowing
  BY <1>1 DEF ItemsCounted, Knowing, loops
<1>5. CountsInStep'
  BY <1>1, <1>3, <1>4 DEF BenchInv, CountsInStep, counters, history
<1>6. QED
  BY <1>2, <1>5 DEF BenchInv

LEMMA PushKeeps ==
  ASSUME BenchInv, NEW p \in Producers, Push(p)
  PROVE  BenchInv'
<1>1. /\ stage[p] = "loop"
      /\ UNCHANGED <<loops, startFlag, counters, pops, mainStage>>
      /\ \/ Enter(p, "pushed") /\ pushes' = pushes + 1
         \/ UNCHANGED <<stage, pushes>>
  BY DEF Push
<1>2. ItemsCounted' = ItemsCounted /\ Knowing' = Knowing
  BY <1>1 DEF ItemsCounted, Knowing, loops
<1>3. CASE UNCHANGED <<stage, pushes>>
  BY <1>1, <1>2, <1>3 DEF BenchInv, BenchTypeOK, StagesInStep, JoinsAwaited, Exited,
     CountsInStep, In, loops, counters
<1>4. CASE Enter(p, "pushed") /\ pushes' = pushes + 1
  <2>1. BenchTypeOK' /\ StagesInStep' /\ JoinsAwaited'
    BY <1>1, <1>4, ThreadsAssumption
    DEF BenchInv, BenchTypeOK, StagesInStep, JoinsAwaited, Exited, loops, counters, Enter
  <2>2. /\ Cardinality(In(Producers, "pushed")') = Cardinality(In(Producers, "pushed")) + 1
        /\ Cardinality(In(Consumers, "popped")') = Cardinality(In(Consumers, "popped"))
    BY <1>1, <1>4, InMoves, ThreadsAssumption DEF BenchInv
  <2>3. CountsInStep'
    BY <1>1, <1>2, <1>4, <2>2, CountedSets DEF BenchInv, BenchTypeOK, CountsInStep, counters
  <2>4. QED
    BY <2>1, <2>3 DEF BenchInv
<1>5. QED
  BY <1>1, <1>3, <1>4

LEMMA CountProducedKeeps ==
  ASSUME BenchInv, NEW p \in Producers, CountProduced(p)
  PROVE  BenchInv'
<1> DEFINE s == IF i'[p] < itemsPerProducer THEN "loop" ELSE "exited"
           x == <<p, i[p]>>
<1>1. /\ stage[p] = "pushed" /\ Enter(p, s) /\ s \in {"loop", "exited"}
      /\ produced' = produced + 1
      /\ i' = [i EXCEPT ![p] = @ + 1]
      /\ UNCHANGED <<seen, startFlag, consumed, history, mainStage>>
  BY DEF CountProduced
<1>2. itemsPerProducer \in 1 .. NUM_OPERATIONS /\ NUM_OPERATIONS \in Nat \ {0}
  BY Shares
<1>3. /\ i \in [Producers -> 0 .. itemsPerProducer] /\ i[p] \in 0 .. itemsPerProducer - 1
      /\ i[p] \in 0 .. NUM_OPERATIONS - 1
      /\ i'[p] = i[p] + 1 /\ i' \in [Producers -> 0 .. itemsPerProducer]
      /\ \A q \in Producers \ {p} : i'[q] = i[q]
  <2>1. i \in [Producers -> 0 .. itemsPerProducer] /\ i[p] # itemsPerProducer
    BY <1>1 DEF BenchInv, BenchTypeOK, StagesInStep
  <2>2. i[p] \in 0 .. itemsPerProducer - 1 /\ i[p] \in 0 .. NUM_OPERATIONS - 1
    BY <1>2, <2>1
  <2>3. QED
    BY <1>1, <1>2, <2>1, <2>2
<1>4. s = "exited" <=> i'[p] = itemsPerProducer
  BY <1>2, <1>3
<1>5. stage' = [stage EXCEPT ![p] = s]
  BY <1>1 DEF Enter
<1> HIDE DEF s
<1>6. BenchTypeOK'
  BY <1>1, <1>3, <1>5 DEF BenchInv, BenchTypeOK, history
<1>7. StagesInStep' /\ JoinsAwaited'
  BY <1>1, <1>3, <1>4, <1>5, ThreadsAssumption
  DEF BenchInv, BenchTypeOK, StagesInStep, JoinsAwaited, Exited
<1>8. Cardinality(ItemsCounted') = Cardinality(ItemsCounted) + 1
  <2>1. \A y \in Producers \X (0 .. NUM_OPERATIONS - 1) :
          y # x => (y[2] < i[y[1]] <=> y[2] < i'[y[1]])
    <3> SUFFICES ASSUME NEW q \in Producers, NEW n \in 0 .. NUM_OPERATIONS - 1,
                        <<q, n>> # x
                 PROVE  n < i[q] <=> n < i'[q]
      OBVIOUS
    <3>1. CASE q = p
      <4>1. n # i[p]
        BY <3>1
      <4>2. QED
        BY <1>3, <3>1, <4>1
    <3>2. CASE q # p
      BY <1>3, <3>2
    <3>3. QED
      BY <3>1, <3>2
  <2>2. x \in Producers \X (0 .. NUM_OPERATIONS - 1) /\ x[1] = p /\ x[2] = i[p]
    BY <1>3
  <2>3. x \notin ItemsCounted /\ x \in ItemsCounted'
    BY <1>3, <2>2 DEF ItemsCounted
  <2> HIDE DEF x
  <2>4. ItemsCounted \ {x} = ItemsCounted' \ {x}
    BY <2>1 DEF ItemsCounted
  <2>5. QED
    BY <2>3, <2>4, OneMoves, CountedSets
<1>9. /\ Cardinality(In(Producers, "pushed")) = Cardinality(In(Producers, "pushed")') + 1
      /\ Cardinality(In(Consumers, "popped")') = Cardinality(In(Consumers, "popped"))
  BY <1>1, InMoves, ThreadsAssumption DEF BenchInv
<1>10. Knowing' = Knowing
  BY <1>1 DEF Knowing
<1>11. Cardinality(In(Producers, "pushed")') \in Nat
  BY <1>1, InMoves DEF BenchInv
<1>12. CountsInStep'
  BY <1>1, <1>8, <1>9, <1>10, <1>11, CountedSets DEF BenchInv, BenchTypeOK, CountsInStep, history
<1>13. QED
  BY <1>6, <1>7, <1>12 DEF BenchInv

\* What a consumer does to its knowledge of the counter.
LEMMA KnowingMoves ==
  ASSUME BenchInv, NEW c \in Consumers, NEW v \in Nat, v >= seen[c],
         seen' = [seen EXCEPT ![c] = v]
  PROVE  /\ Cardinality(Knowing') \in Nat
         /\ Cardinality(Knowing') >= Cardinality(Knowing)
         /\ seen[c] < NUM_OPERATIONS /\ v >= NUM_OPERATIONS =>
              Cardinality(Knowing') = Cardinality(Knowing) + 1
<1>1. seen[c] \in Nat /\ seen'[c] = v /\ NUM_OPERATIONS \in Nat
  BY ItemsAssumption DEF BenchInv, BenchTypeOK
<1>2. /\ c \in Knowing <=> seen[c] >= NUM_OPERATIONS
      /\ c \in Knowing' <=> v >= NUM_OPERATIONS
      /\ Knowing \ {c} = Knowing' \ {c}
  BY <1>1 DEF Knowing, BenchInv, BenchTypeOK
<1>3. IsFiniteSet(Knowing)
  BY CountedSets
<1>4. QED
  BY <1>1, <1>2, <1>3, OneMoves

LEMMA TestConsumedKeeps ==
  ASSUME BenchInv, NEW c \in Consumers, TestConsumed(c)
  PROVE  BenchInv'
<1>1. PICK v \in seen[c] .. consumed :
        /\ seen' = [seen EXCEPT ![c] = v]
        /\ Enter(c, IF v < NUM_OPERATIONS THEN "pop" ELSE "exited")
  BY DEF TestConsumed
<1> DEFINE s == IF v < NUM_OPERATIONS THEN "pop" ELSE "exited"
<1>2. /\ stage[c] = "loop" /\ Enter(c, s) /\ s \in {"pop", "exited"}
      /\ stage' = [stage EXCEPT ![c] = s]
      /\ UNCHANGED <<i, startFlag, counters, history, mainStage>>
  BY <1>1 DEF TestConsumed, Enter
<1>3. /\ seen[c] \in Nat /\ consumed \in Nat /\ v \in Nat /\ v >= seen[c] /\ v <= consumed
      /\ NUM_OPERATIONS \in Nat
  BY ItemsAssumption DEF BenchInv, BenchTypeOK
<1>4. /\ s = "pop" => v < NUM_OPERATIONS
      /\ s = "exited" => v >= NUM_OPERATIONS
  BY <1>3
<1> HIDE DEF s
<1>5. BenchTypeOK'
  BY <1>1, <1>2, <1>3 DEF BenchInv, BenchTypeOK, counters, history
<1>6. StagesInStep' /\ JoinsAwaited'
  BY <1>1, <1>2, <1>3, <1>4, ThreadsAssumption
  DEF BenchInv, BenchTypeOK, StagesInStep, JoinsAwaited, Exited, counters
<1>7. /\ Cardinality(In(Producers, "pushed")') = Cardinality(In(Producers, "pushed"))
      /\ Cardinality(In(Consumers, "popped")') = Cardinality(In(Consumers, "popped"))
  BY <1>2, InMoves, ThreadsAssumption DEF BenchInv
<1>8. ItemsCounted' = ItemsCounted
  BY <1>2 DEF ItemsCounted
<1>9. Cardinality(Knowing') \in Nat /\ Cardinality(Knowing') >= Cardinality(Knowing)
  BY <1>1, <1>3, KnowingMoves
<1>10. CountsInStep'
  BY <1>2, <1>3, <1>7, <1>8, <1>9, CountedSets DEF BenchInv, CountsInStep, counters, history
<1>11. QED
  BY <1>5, <1>6, <1>10 DEF BenchInv

LEMMA PopKeeps ==
  ASSUME BenchInv, NEW c \in Consumers, Pop(c)
  PROVE  BenchInv'
<1>1. PICK s \in {"popped", "loop"} :
        /\ Enter(c, s)
        /\ s = "popped" => pops' = pops + 1
        /\ s = "loop" => pops' = pops
  BY DEF Pop
<1>2. /\ stage[c] = "pop" /\ stage' = [stage EXCEPT ![c] = s]
      /\ UNCHANGED <<loops, startFlag, counters, pushes, mainStage>>
  BY <1>1 DEF Pop, Enter
<1>3. BenchTypeOK' /\ StagesInStep' /\ JoinsAwaited'
  BY <1>1, <1>2, ThreadsAssumption
  DEF BenchInv, BenchTypeOK, StagesInStep, JoinsAwaited, Exited, loops, counters
<1>4. /\ Cardinality(In(Producers, "pushed")') = Cardinality(In(Producers, "pushed"))
      /\ s = "popped" => Cardinality(In(Consumers, "popped")')
                           = Cardinality(In(Consumers, "popped")) + 1
      /\ s = "loop" => Cardinality(In(Consumers, "popped")')
                         = Cardinality(In(Consumers, "popped"))
  BY <1>1, <1>2, InMoves, ThreadsAssumption DEF BenchInv
<1>5. ItemsCounted' = ItemsCounted /\ Knowing' = Knowing
  BY <1>2 DEF ItemsCounted, Knowing, loops
<1>6. CountsInStep'
  BY <1>1, <1>2, <1>4, <1>5, CountedSets DEF BenchInv, BenchTypeOK, CountsInStep, counters
<1>7. QED
  BY <1>3, <1>6 DEF BenchInv

LEMMA CountConsumedKeeps ==
  ASSUME BenchInv, NEW c \in Consumers, CountConsumed(c)
  PROVE  BenchInv'
<1>1. /\ stage[c] = "popped" /\ Enter(c, "loop") /\ stage' = [stage EXCEPT ![c] = "loop"]
      /\ consumed' = consumed + 1 /\ seen' = [seen EXCEPT ![c] = consumed + 1]
      /\ UNCHANGED <<i, startFlag, produced, history, mainStage>>
  BY DEF CountConsumed, Enter
<1>2. /\ seen[c] \in Nat /\ consumed \in Nat /\ seen[c] <= consumed
      /\ seen[c] < NUM_OPERATIONS /\ NUM_OPERATIONS \in Nat
  BY <1>1, ItemsAssumption DEF BenchInv, BenchTypeOK, StagesInStep
<1>3. BenchTypeOK'
  BY <1>1, <1>2 DEF BenchInv, BenchTypeOK, history
<1>4. StagesInStep' /\ JoinsAwaited'
  BY <1>1, <1>2, ThreadsAssumption
  DEF BenchInv, BenchTypeOK, StagesInStep, JoinsAwaited, Exited
<1>5. /\ Cardinality(In(Producers, "pushed")') = Cardinality(In(Producers, "pushed"))
      /\ Cardinality(In(Consumers, "popped")) = Cardinality(In(Consumers, "popped")') + 1
  BY <1>1, InMoves, ThreadsAssumption DEF BenchInv
<1>6. Cardinality(In(Consumers, "popped")') \in Nat
  BY <1>1, InMoves DEF BenchInv
<1>7. ItemsCounted' = ItemsCounted
  BY <1>1 DEF ItemsCounted
<1>8. /\ Cardinality(Knowing') \in Nat /\ Cardinality(Knowing') >= Cardinality(Knowing)
      /\ consumed + 1 >= NUM_OPERATIONS => Cardinality(Knowing') = Cardinality(Knowing) + 1
  <2>1. consumed + 1 \in Nat /\ consumed + 1 >= seen[c]
    BY <1>2
  <2>2. QED
    BY <1>1, <1>2, <2>1, KnowingMoves
<1>9. consumed + 1 < NUM_OPERATIONS + Cardinality(Knowing')
  <2>1. consumed < NUM_OPERATIONS + Cardinality(Knowing) /\ Cardinality(Knowing) \in Nat
    BY CountedSets DEF BenchInv, CountsInStep
  <2>2. QED
    BY <1>2, <1>8, <2>1
<1>10. CountsInStep'
  BY <1>1, <1>2, <1>5, <1>6, <1>7, <1>9, CountedSets DEF BenchInv, CountsInStep, history
<1>11. QED
  BY <1>3, <1>4, <1>10 DEF BenchInv

LEMMA MainKeeps ==
  ASSUME BenchInv, Main \/ UNCHANGED testVars
  PROVE  BenchInv'
<1>1. /\ UNCHANGED <<stage, loops, counters, history>>
      /\ startFlag' \in BOOLEAN
      /\ mainStage' \in {"start", "joinProducers", "joinConsumers", "recorded"}
      /\ mainStage' \in {"joinConsumers", "recorded"} => Exited(Producers)
      /\ mainStage' = "recorded" => Exited(Consumers)
  BY DEF Main, Start, JoinProducers, Record, testVars, BenchInv, BenchTypeOK, JoinsAwaited
<1>2. QED
  BY <1>1 DEF BenchInv, BenchTypeOK, StagesInStep, JoinsAwaited, Exited, CountsInStep,
     ItemsCounted, Knowing, In, loops, counters, history

LEMMA BenchStep == BenchInv /\ [TestNext]_testVars => BenchInv'
<1> SUFFICES ASSUME BenchInv, [TestNext]_testVars PROVE BenchInv'
  OBVIOUS
<1>1. CASE \E p \in Producers : Producer(p)
  BY <1>1, SeeStartStep, PushKeeps, CountProducedKeeps DEF Producer
<1>2. CASE \E c \in Consumers : Consumer(c)
  BY <1>2, SeeStartStep, TestConsumedKeeps, PopKeeps, CountConsumedKeeps DEF Consumer
<1>3. CASE Main \/ UNCHANGED testVars
  BY <1>3, MainKeeps
<1>4. QED
  BY <1>1, <1>2, <1>3 DEF TestNext, Recorded

(***************************************************************************)
(* The whole inductive invariant of a test: stages, counters and joins in  *)
(* step, for any threads and any number of items.                          *)
(***************************************************************************)
THEOREM BenchInvHolds == TestSpec => []BenchInv
  BY BenchInit, BenchStep, PTL DEF TestSpec
-----------------------------------------------------------------------------
\* After the joins the items counted are all that there are to push.
LEMMA AllCounted ==
  ASSUME BenchInv, Exited(Producers)
  PROVE  produced = NUM_OPERATIONS
<1> DEFINE share == 0 .. itemsPerProducer - 1
<1>1. /\ itemsPerProducer \in 1 .. NUM_OPERATIONS /\ NUM_OPERATIONS \in Nat
      /\ numProducers * itemsPerProducer = NUM_OPERATIONS
  BY Shares
<1>2. \A p \in Producers : i[p] = itemsPerProducer
  BY DEF Exited, BenchInv, StagesInStep
<1>3. ItemsCounted = Producers \X share
  <2>1. \A p \in Producers, n \in 0 .. NUM_OPERATIONS - 1 : n < i[p] <=> n \in share
    BY <1>1, <1>2
  <2>2. share \subseteq 0 .. NUM_OPERATIONS - 1
    BY <1>1
  <2> HIDE DEF share
  <2>3. QED
    BY <2>1, <2>2 DEF ItemsCounted
<1>4. IsFiniteSet(share) /\ Cardinality(share) = itemsPerProducer
  BY <1>1, FS_Interval
<1>5. Cardinality(ItemsCounted) = Cardinality(Producers) * Cardinality(share)
  <2> HIDE DEF share
  <2>1. QED
    BY <1>3, <1>4, FS_Product, ThreadsAssumption
<1>6. QED
  BY <1>1, <1>4, <1>5 DEF BenchInv, CountsInStep, numProducers

LEMMA InvAccounts == BenchInv => CountsAccount
<1> SUFFICES ASSUME BenchInv PROVE CountsAccount
  OBVIOUS
<1> DEFINE popped == In(Consumers, "popped")
<1>1. /\ produced + Cardinality(In(Producers, "pushed")) = pushes
      /\ consumed + Cardinality(popped) = pops
      /\ consumed < NUM_OPERATIONS + Cardinality(Knowing)
      /\ consumed \in Nat /\ pops \in Nat /\ produced \in Nat /\ pushes \in Nat
      /\ NUM_OPERATIONS \in Nat /\ Cardinality(Consumers) \in Nat
  BY Shares DEF BenchInv, CountsInStep, BenchTypeOK
<1>2. pops < NUM_OPERATIONS + Cardinality(Consumers)
  <2>1. popped \cap Knowing = {} /\ popped \cup Knowing \subseteq Consumers
    BY ItemsAssumption DEF In, Knowing, BenchInv, StagesInStep, BenchTypeOK
  <2>2. /\ IsFiniteSet(popped) /\ IsFiniteSet(Knowing) /\ IsFiniteSet(Consumers)
        /\ Cardinality(popped) \in Nat /\ Cardinality(Knowing) \in Nat
    BY CountedSets, ThreadsAssumption
  <2> HIDE DEF popped
  <2>3. Cardinality(popped \cup Knowing) = Cardinality(popped) + Cardinality(Knowing)
    BY <2>1, <2>2, FS_Union, FS_EmptySet
  <2>4. Cardinality(popped \cup Knowing) <= Cardinality(Consumers)
    BY <2>1, <2>2, FS_Subset
  <2>5. QED
    BY <1>1, <2>2, <2>3, <2>4
<1>3. ASSUME mainStage = "recorded"
      PROVE  /\ produced = NUM_OPERATIONS /\ pushes = NUM_OPERATIONS
             /\ consumed >= NUM_OPERATIONS /\ pops = consumed
  <2>1. Exited(Producers) /\ Exited(Consumers)
    BY <1>3 DEF BenchInv, JoinsAwaited
  <2>2. In(Producers, "pushed") = {} /\ popped = {}
    BY <2>1 DEF Exited, In
  <2>3. pushes = produced /\ pops = consumed
    BY <1>1, <2>2, FS_EmptySet
  <2>4. PICK c \in Consumers : TRUE
    BY ThreadsAssumption
  <2>5. seen[c] \in Nat /\ seen[c] >= NUM_OPERATIONS /\ seen[c] <= consumed
    BY <2>1 DEF Exited, BenchInv, StagesInStep, BenchTypeOK
  <2>6. QED
    BY <1>1, <2>1, <2>3, <2>5, AllCounted
<1>4. QED
  BY <1>1, <1>2, <1>3 DEF CountsAccount

(***************************************************************************)
(* The relaxed counters are behind push() and pop() by the calls that have *)
(* not been counted yet, consumers pop at most one item each too much and  *)
(* not all of them do, and what is recorded is a test in which every item  *)
(* was pushed and at least NUM_OPERATIONS pops were made and counted.      *)
(***************************************************************************)
THEOREM CountsHold == TestSpec => []CountsAccount
  BY BenchInvHolds, InvAccounts, PTL
=============================================================================
