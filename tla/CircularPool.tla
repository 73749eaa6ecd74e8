---------------------------- MODULE CircularPool ----------------------------
(***************************************************************************)
(* The OptimizedOrderBook of Phase_5: a vector that grows to its size and  *)
(* then replaces its oldest order by each new one.  processOrders hands it *)
(* the orders of a list two at a time.  The n-th order it is ever handed   *)
(* is called n.                                                            *)
(***************************************************************************)
EXTENDS Naturals, Sequences

CONSTANTS Size,      \* constructor argument
          ListSizes  \* lengths of the lists given to processOrders

ASSUME SizeAssumption == Size \in Nat \ {0}   \* 100000 or more
ASSUME ListAssumption == ListSizes \subseteq Nat

VARIABLES orderPool,    \* the vector, from index 1
          oldestOrder,  \* index from 0
          remaining,    \* orders of the list not handled yet
          handled       \* history: how many orders were handled so far

poolVars == <<orderPool, oldestOrder, remaining, handled>>

PoolInit == orderPool = << >> /\ oldestOrder = 0 /\ remaining = 0 /\ handled = 0

Pool == [orders : Seq(Nat), oldest : 0 .. Size - 1]
-----------------------------------------------------------------------------
\* Mutant: the index is reset one order late.
HandleOrderLate(pool, o) ==
  IF Len(pool.orders) < Size
    THEN [pool EXCEPT !.orders = Append(@, o)]
    ELSE [orders |-> [pool.orders EXCEPT ![pool.oldest + 1] = o],
          oldest |-> IF pool.oldest = Size - 1 THEN Size - 1 ELSE pool.oldest + 1]

\* orderCounter is the length of the vector.
HandleOrder(pool, o) ==
  IF Len(pool.orders) < Size
    THEN [pool EXCEPT !.orders = Append(@, o)]
    ELSE [orders |-> [pool.orders EXCEPT ![pool.oldest + 1] = o],
          oldest |-> IF pool.oldest + 1 = Size THEN 0 ELSE pool.oldest + 1]

Call == /\ remaining = 0
        /\ remaining' \in ListSizes
        /\ UNCHANGED <<orderPool, oldestOrder, handled>>

\* One iteration of the unrolled loop: the second order only if there is one.
Iterate ==
  /\ remaining > 0
  /\ LET one  == HandleOrder([orders |-> orderPool, oldest |-> oldestOrder], handled + 1)
         last == IF remaining > 1 THEN HandleOrder(one, handled + 2) ELSE one
         n    == IF remaining > 1 THEN 2 ELSE 1
     IN  /\ orderPool' = last.orders
         /\ oldestOrder' = last.oldest
         /\ remaining' = remaining - n
         /\ handled' = handled + n

PoolNext == Call \/ Iterate

PoolSpec == PoolInit /\ [][PoolNext]_poolVars
-----------------------------------------------------------------------------
PoolTypeOK ==
  /\ orderPool \in Seq(Nat) /\ Len(orderPool) <= Size
  /\ oldestOrder \in 0 .. Size - 1
  /\ remaining \in Nat
  /\ handled \in Nat

(***************************************************************************)
(* The pool holds the last Size orders that were handled, all of them if   *)
(* there were fewer: read from oldestOrder around, they are in the order   *)
(* they came in, none twice and none skipped by the unrolled loop.         *)
(***************************************************************************)
KeepsLatest ==
  LET n == Len(orderPool)
  IN  /\ n = IF handled < Size THEN handled ELSE Size
      /\ \A k \in 0 .. n - 1 :
           orderPool[((oldestOrder + k) % n) + 1] = handled - n + k + 1
=============================================================================
