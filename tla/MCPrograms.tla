----------------------------- MODULE MCPrograms -----------------------------
(***************************************************************************)
(* The small programs for TLC, of which no liveness is asked: the kernels  *)
(* of Phase 1, the simulation of Phase 3, the two books of Phase 5 and a   *)
(* test of Session7's benchmark.  One of them is chosen and runs; they     *)
(* share nothing.                                                          *)
(***************************************************************************)
EXTENDS MatrixOps, TradeSim, LevelBook, CircularPool, QueueBenchmark

CONSTANT MaxHandled

VARIABLE program

mcVars == <<program, matrixVars, tradeVars, levelVars, poolVars, testVars>>

MCInit == /\ program \in {"kernels", "simulation", "levels", "pool", "test"}
          /\ MatrixInit /\ TradeInit /\ LevelInit /\ PoolInit /\ TestInit
          /\ program # "kernels" => shape = CHOOSE s \in Shapes : TRUE

KernelCall ==
  /\ program = "kernels"
  /\ MultiplyMv \/ MultiplyMmNaive \/ MultiplyMmNaiveInline \/ MultiplyMmTransposedB
  /\ UNCHANGED <<program, tradeVars, levelVars, poolVars, testVars>>

FeedEvent ==
  /\ program = "simulation"
  /\ \/ \E p \in Price, q \in Quantity : Bid(p, q) \/ Ask(p, q)
     \/ \E id \in OrderId, q \in Filled : Execution(id, q)
  /\ UNCHANGED <<program, matrixVars, levelVars, poolVars, testVars>>

LevelChange ==
  /\ program = "levels"
  /\ \/ \E o \in Order : AddOrder(o)
     \/ \E id \in Id : DeleteOrder(id)
     \/ \E id \in Id, p \in LevelPrice, q \in LevelQuantity : ModifyOrder(id, p, q)
  /\ UNCHANGED <<program, matrixVars, tradeVars, poolVars, testVars>>

PoolStep ==
  /\ program = "pool"
  /\ Call \/ (handled < MaxHandled /\ Iterate)
  /\ UNCHANGED <<program, matrixVars, tradeVars, levelVars, testVars>>

TestStep ==
  /\ program = "test"
  /\ \/ \E p \in Producers : SeeStart(p) \/ Push(p) \/ CountProduced(p)
     \/ \E c \in Consumers : SeeStart(c) \/ TestConsumed(c) \/ Pop(c) \/ CountConsumed(c)
     \/ Main \/ Recorded
  /\ UNCHANGED <<program, matrixVars, tradeVars, levelVars, poolVars>>

MCNext == KernelCall \/ FeedEvent \/ LevelChange \/ PoolStep \/ TestStep

MCSpec == MCInit /\ [][MCNext]_mcVars

MCShapes ==
  LET S(r, n, g, c) == [rows |-> r, inner |-> n, given |-> g, cols |-> c]
  IN  {S(2, n, n, 1) : n \in 1 .. 9} \cup
      {S(3, 2, 2, 1), S(1, 4, 4, 3), S(2, 3, 3, 2), S(3, 1, 1, 2), S(4, 5, 5, 3),
       S(2, 3, 2, 2), S(2, 2, 3, 1), S(0, 2, 2, 1), S(2, 0, 0, 2)}
=============================================================================
