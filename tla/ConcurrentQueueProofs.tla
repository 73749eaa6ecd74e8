----------------------- MODULE ConcurrentQueueProofs -----------------------
(***************************************************************************)
(* What TLAPS proves about the ring of ConcurrentQueue: its types for any  *)
(* set of threads, and, for one pushing and one popping thread, that it is *)
(* a first-in first-out channel of Capacity - 1 places without data races. *)
(***************************************************************************)
EXTENDS ConcurrentQueue, TLAPS

(***************************************************************************)
(* The modulo of the code's `(index + 1) % Capacity` only acts at the last *)
(* slot.  Every other lemma uses this fact and never the modulo itself.    *)
(***************************************************************************)
LEMMA SuccCases ==
  ASSUME NEW j \in Ring
  PROVE  /\ Succ(j) = IF j + 1 = Capacity THEN 0 ELSE j + 1
         /\ Succ(j) \in Ring
  BY CapacityAssumption DEF Succ, Ring

(***************************************************************************)
(* Types hold for any number of producers and consumers: whatever threads  *)
(* interleave in push() and pop(), the indices stay inside the ring.       *)
(***************************************************************************)
LEMMA TypeInit == Init => TypeOK
  BY CapacityAssumption, ThreadsAssumption
  DEF Init, TypeOK, Ring, Threads, Slots, Field, Whole

LEMMA TypeStep == TypeOK /\ [Next]_queueVars => TypeOK'
<1> SUFFICES ASSUME TypeOK, [Next]_queueVars PROVE TypeOK'
  OBVIOUS
<1> USE ThreadsAssumption
<1>1. ASSUME NEW p \in Producers, NEW o \in Order, PushLoadTail(p, o) PROVE TypeOK'
  BY <1>1 DEF TypeOK, PushLoadTail, PushReturned, Goto, Threads, Field, indices, history
<1>2. ASSUME NEW p \in Producers, PushCheckFull(p) PROVE TypeOK'
  BY <1>2 DEF TypeOK, PushCheckFull, Goto, Threads, indices, history
<1>3. ASSUME NEW p \in Producers, PushWriteId(p) PROVE TypeOK'
  BY <1>3 DEF TypeOK, PushWriteId, Goto, Threads, Slots, indices, history
<1>4. ASSUME NEW p \in Producers, PushWriteBody(p) PROVE TypeOK'
  BY <1>4 DEF TypeOK, PushWriteBody, Goto, Threads, Slots, indices, history
<1>5. ASSUME NEW p \in Producers, PushStoreTail(p) PROVE TypeOK'
  <2>1. tail' \in Ring
    BY <1>5, SuccCases DEF TypeOK, PushStoreTail, Threads
  <2>2. pushed' \in Seq(Order)
    BY <1>5 DEF TypeOK, PushStoreTail
  <2>3. QED
    BY <1>5, <2>1, <2>2 DEF TypeOK, PushStoreTail, Goto, Threads
<1>6. ASSUME NEW c \in Consumers, PopLoadHead(c) PROVE TypeOK'
  BY <1>6 DEF TypeOK, PopLoadHead, PopReturned, Goto, Threads, Slots, Field, Whole,
              indices, history
<1>7. ASSUME NEW c \in Consumers, PopCheckEmpty(c) PROVE TypeOK'
  BY <1>7 DEF TypeOK, PopCheckEmpty, Goto, Threads, indices, history
<1>8. ASSUME NEW c \in Consumers, PopReadId(c) PROVE TypeOK'
  BY <1>8 DEF TypeOK, PopReadId, Goto, Threads, Slots, indices, history
<1>9. ASSUME NEW c \in Consumers, PopReadBody(c) PROVE TypeOK'
  BY <1>9 DEF TypeOK, PopReadBody, Goto, Threads, Slots, indices, history
<1>10. ASSUME NEW c \in Consumers, PopStoreHead(c) PROVE TypeOK'
  <2>1. head' \in Ring
    BY <1>10, SuccCases DEF TypeOK, PopStoreHead, Threads
  <2>2. popped' \in Seq(Slots)
    BY <1>10 DEF TypeOK, PopStoreHead
  <2>3. QED
    BY <1>10, <2>1, <2>2 DEF TypeOK, PopStoreHead, Goto, Threads
<1>11. CASE UNCHANGED queueVars
  BY <1>11 DEF TypeOK, queueVars
<1>12. QED
  BY <1>1, <1>2, <1>3, <1>4, <1>5, <1>6, <1>7, <1>8, <1>9, <1>10, <1>11
  DEF Next, PushStep, PopStep

(***************************************************************************)
(* push() and pop() keep every index in the ring and every slot an order   *)
(* or a zero-initialised one, for any number of threads.                   *)
(***************************************************************************)
THEOREM TypesHold == Spec => []TypeOK
  BY TypeInit, TypeStep, PTL DEF Spec
-----------------------------------------------------------------------------
(***************************************************************************)
(* How many orders are in the ring, and where, after each store.           *)
(***************************************************************************)
LEMMA RingArithmetic ==
  ASSUME TypeOK
  PROVE  /\ Size \in 0 .. Capacity - 1
         /\ Size = 0 <=> head = tail
         /\ Full <=> Size = Capacity - 1
         /\ At(0) = head
         /\ At(Size) = tail
         /\ \A k \in 0 .. Size : At(k) \in Ring
         /\ \A k \in 0 .. Size - 1 : At(k) # tail
<1>1. /\ Capacity \in Nat \ {0}
      /\ head \in 0 .. Capacity - 1
      /\ tail \in 0 .. Capacity - 1
      /\ Succ(tail) = IF tail + 1 = Capacity THEN 0 ELSE tail + 1
  BY SuccCases, CapacityAssumption DEF TypeOK, Ring
<1>2. Size \in 0 .. Capacity - 1 /\ (Size = 0 <=> head = tail)
  BY <1>1 DEF Size
<1>3. Full <=> Size = Capacity - 1
  BY <1>1 DEF Size, Full
<1>4. At(0) = head /\ At(Size) = tail
  BY <1>1 DEF Size, At
<1>5. ASSUME NEW k \in 0 .. Size PROVE At(k) \in Ring
  BY <1>1, <1>2, <1>5 DEF At, Ring
<1>6. ASSUME NEW k \in 0 .. Size - 1 PROVE At(k) # tail
  BY <1>1, <1>2, <1>6 DEF At, Size
<1>7. QED
  BY <1>2, <1>3, <1>4, <1>5, <1>6

LEMMA AfterTailStore ==
  ASSUME TypeOK, ~Full, tail' = Succ(tail), head' = head
  PROVE  /\ Size' = Size + 1
         /\ \A k \in 0 .. Size : At(k)' = At(k)
         /\ ~Empty'
<1>1. /\ Capacity \in Nat \ {0}
      /\ head \in 0 .. Capacity - 1
      /\ tail \in 0 .. Capacity - 1
      /\ Succ(tail) = IF tail + 1 = Capacity THEN 0 ELSE tail + 1
  BY SuccCases, CapacityAssumption DEF TypeOK, Ring
<1>2. Size' = Size + 1
  BY <1>1 DEF Size, Full
<1>3. \A k \in 0 .. Size : At(k)' = At(k)
  BY DEF At
<1>4. ~Empty'
  BY <1>1 DEF Empty, Full
<1>5. QED
  BY <1>2, <1>3, <1>4

LEMMA AfterHeadStore ==
  ASSUME TypeOK, ~Empty, head' = Succ(head), tail' = tail
  PROVE  /\ Size' = Size - 1
         /\ \A k \in 0 .. Size - 2 : At(k)' = At(k + 1)
         /\ ~Full'
<1>1. /\ Capacity \in Nat \ {0}
      /\ head \in 0 .. Capacity - 1
      /\ tail \in 0 .. Capacity - 1
      /\ Succ(head) = IF head + 1 = Capacity THEN 0 ELSE head + 1
  BY SuccCases, CapacityAssumption DEF TypeOK, Ring
<1>2. Size' = Size - 1
  BY <1>1 DEF Size, Empty
<1>3. ASSUME NEW k \in 0 .. Size - 2 PROVE At(k)' = At(k + 1)
  BY <1>1, <1>3 DEF At, Size
<1>4. ~Full'
  <2>1. Succ(tail) = IF tail + 1 = Capacity THEN 0 ELSE tail + 1
    BY SuccCases DEF TypeOK
  <2>2. Full' <=> Succ(tail) = head'
    BY DEF Full, Succ
  <2>3. QED
    BY <1>1, <2>1, <2>2 DEF Empty
<1>5. QED
  BY <1>2, <1>3, <1>4

LEMMA RingInit == Init => RingInv
  BY TypeInit, CapacityAssumption, ThreadsAssumption
  DEF Init, RingInv, IndicesFresh, ChecksHold, CopiesInProgress, Fifo, ContentsIntact,
      Accessing, Threads, Size

\* Of these threads one at most is not idle.
Alone(T) == \A s, t \in T : s # t => pc[s] = "idle" \/ pc[t] = "idle"

(***************************************************************************)
(* While one thread pushes and one pops, a step of a thread is the step of *)
(* all of its kind: there may be others, as long as they stay out.         *)
(***************************************************************************)
LEMMA RingStep ==
  ASSUME Alone(Producers), Alone(Consumers), Alone(Producers)', Alone(Consumers)',
         TypeOK, TypeOK', RingInv, [Next]_queueVars
  PROVE  RingInv'
<1> USE ThreadsAssumption
<1> DEFINE n == Len(pushed)
           m == Len(popped)
<1>0. /\ m \in Nat /\ n \in Nat
      /\ Producers \subseteq Threads /\ Consumers \subseteq Threads
  BY DEF TypeOK, Threads
<1>1. ASSUME NEW p \in Producers, NEW o \in Order, PushLoadTail(p, o) PROVE RingInv'
  BY <1>1, <1>0 DEF Alone, TypeOK, RingInv, IndicesFresh, ChecksHold, CopiesInProgress,
     Fifo, ContentsIntact, Accessing, Full, Empty, Size, At, PushLoadTail, PushReturned, Goto,
     indices, history
<1>2. ASSUME NEW p \in Producers, PushCheckFull(p) PROVE RingInv'
  <2>1. /\ idx[p] = tail /\ pc[p] = "checkFull"
        /\ pc' = [pc EXCEPT ![p] = IF Full THEN "full" ELSE "writeId"]
        /\ UNCHANGED <<head, tail, buffer, idx, arg, item, pushed, popped>>
    BY <1>2, <1>0 DEF RingInv, IndicesFresh, PushCheckFull, Goto, Full, indices, history
  <2>2. \A q \in Producers \ {p} : pc[q] = "idle" /\ pc'[q] = "idle"
    BY <2>1, <1>0 DEF Alone, TypeOK
  <2>3. pc'[p] \in {"full", "writeId"} /\ \A c \in Consumers : pc'[c] = pc[c]
    BY <2>1, <1>0 DEF TypeOK
  <2>4. pc'[p] = "writeId" => ~Full
    BY <2>1, <1>0 DEF TypeOK
  <2>5. IndicesFresh' /\ ChecksHold'
    <3>1. Full' = Full /\ Empty' = Empty
      BY <2>1 DEF Full, Empty
    <3>2. QED
      BY <2>1, <2>2, <2>3, <2>4, <3>1 DEF RingInv, IndicesFresh, ChecksHold, Accessing
  <2>6. CopiesInProgress'
    BY <2>1, <2>2, <2>3 DEF RingInv, CopiesInProgress
  <2>7. Fifo' /\ ContentsIntact'
    BY <2>1 DEF RingInv, Fifo, ContentsIntact, Size, At
  <2>8. QED
    BY <2>5, <2>6, <2>7 DEF RingInv
<1>3. ASSUME NEW c \in Consumers, PopLoadHead(c) PROVE RingInv'
  BY <1>3, <1>0 DEF Alone, TypeOK, RingInv, IndicesFresh, ChecksHold, CopiesInProgress,
     Fifo, ContentsIntact, Accessing, Full, Empty, Size, At, PopLoadHead, PopReturned, Goto,
     indices, history
<1>4. ASSUME NEW c \in Consumers, PopCheckEmpty(c) PROVE RingInv'
  <2>1. /\ idx[c] = head /\ pc[c] = "checkEmpty"
        /\ pc' = [pc EXCEPT ![c] = IF Empty THEN "empty" ELSE "readId"]
        /\ UNCHANGED <<head, tail, buffer, idx, arg, item, pushed, popped>>
    BY <1>4, <1>0 DEF RingInv, IndicesFresh, PopCheckEmpty, Goto, Empty, indices, history
  <2>2. \A d \in Consumers \ {c} : pc[d] = "idle" /\ pc'[d] = "idle"
    BY <2>1, <1>0 DEF Alone, TypeOK
  <2>3. pc'[c] \in {"empty", "readId"} /\ \A p \in Producers : pc'[p] = pc[p]
    BY <2>1, <1>0 DEF TypeOK
  <2>4. pc'[c] = "readId" => ~Empty
    BY <2>1, <1>0 DEF TypeOK
  <2>5. IndicesFresh' /\ ChecksHold'
    <3>1. Full' = Full /\ Empty' = Empty
      BY <2>1 DEF Full, Empty
    <3>2. QED
      BY <2>1, <2>2, <2>3, <2>4, <3>1 DEF RingInv, IndicesFresh, ChecksHold, Accessing
  <2>6. CopiesInProgress'
    BY <2>1, <2>2, <2>3 DEF RingInv, CopiesInProgress
  <2>7. Fifo' /\ ContentsIntact'
    BY <2>1 DEF RingInv, Fifo, ContentsIntact, Size, At
  <2>8. QED
    BY <2>5, <2>6, <2>7 DEF RingInv
<1>5. ASSUME NEW p \in Producers, PushWriteId(p) PROVE RingInv'
  <2>1. /\ idx[p] = tail /\ pc[p] = "writeId" /\ tail \in Ring
        /\ buffer' = [buffer EXCEPT ![tail].id = arg[p]]
        /\ UNCHANGED <<head, tail, idx, arg, item, pushed, popped>>
    BY <1>5 DEF RingInv, IndicesFresh, PushWriteId, TypeOK, indices, history
  <2>2. IndicesFresh' /\ ChecksHold'
    BY <1>5, <2>1, <1>0 DEF RingInv, IndicesFresh, ChecksHold, TypeOK, Alone,
       PushWriteId, Goto, Accessing, Full, Empty
  <2>3. CopiesInProgress'
    BY <1>5, <2>1, <1>0 DEF RingInv, CopiesInProgress, TypeOK, Alone, PushWriteId,
       Goto, Slots
  <2>4. Fifo' /\ ContentsIntact'
    BY <2>1, RingArithmetic DEF RingInv, Fifo, ContentsIntact, Size, At, TypeOK
  <2>5. QED
    BY <2>2, <2>3, <2>4 DEF RingInv
<1>6. ASSUME NEW p \in Producers, PushWriteBody(p) PROVE RingInv'
  <2>1. /\ idx[p] = tail /\ pc[p] = "writeBody" /\ tail \in Ring
        /\ buffer' = [buffer EXCEPT ![tail].body = arg[p]]
        /\ UNCHANGED <<head, tail, idx, arg, item, pushed, popped>>
    BY <1>6 DEF RingInv, IndicesFresh, PushWriteBody, TypeOK, indices, history
  <2>2. IndicesFresh' /\ ChecksHold'
    BY <1>6, <2>1, <1>0 DEF RingInv, IndicesFresh, ChecksHold, TypeOK, Alone,
       PushWriteBody, Goto, Accessing, Full, Empty
  <2>3. CopiesInProgress'
    BY <1>6, <2>1, <1>0 DEF RingInv, CopiesInProgress, TypeOK, Alone, PushWriteBody,
       Goto, Slots, Whole
  <2>4. Fifo' /\ ContentsIntact'
    BY <2>1, RingArithmetic DEF RingInv, Fifo, ContentsIntact, Size, At, TypeOK
  <2>5. QED
    BY <2>2, <2>3, <2>4 DEF RingInv
<1>7. ASSUME NEW p \in Producers, PushStoreTail(p) PROVE RingInv'
  <2>1. /\ pc[p] = "storeTail" /\ arg[p] \in Order
        /\ buffer[tail] = Whole(arg[p]) /\ ~Full
        /\ head' = head /\ tail' = Succ(tail)
        /\ pushed' = Append(pushed, arg[p])
        /\ UNCHANGED <<buffer, idx, arg, item, popped>>
    BY <1>7, <1>0 DEF RingInv, IndicesFresh, ChecksHold, CopiesInProgress, Accessing,
       PushStoreTail, TypeOK
  <2>2. /\ Size \in Nat /\ Size' = Size + 1
        /\ At(Size) = tail
        /\ \A k \in 0 .. Size : At(k)' = At(k)
    BY <2>1, AfterTailStore, RingArithmetic
  <2>3. /\ Len(pushed') = n + 1 /\ pushed'[n + 1] = arg[p]
        /\ \A k \in 1 .. n : pushed'[k] = pushed[k]
    BY <2>1, <1>0 DEF TypeOK
  <2>4. IndicesFresh' /\ ChecksHold'
    <3>1. \A q \in Producers : pc'[q] \in {"idle", "pushed"}
      BY <1>7, <1>0 DEF PushStoreTail, Goto, TypeOK, Alone
    <3>2. \A c \in Consumers : pc'[c] = pc[c]
      BY <1>7, <1>0 DEF PushStoreTail, Goto, TypeOK
    <3>3. ~Empty'
      BY <2>1, AfterTailStore
    <3>4. QED
      BY <3>1, <3>2, <3>3, <2>1, <1>0 DEF RingInv, IndicesFresh, ChecksHold, Accessing
  <2>5. Fifo'
    <3>1. m + Size = n /\ \A k \in 1 .. m : popped[k] = Whole(pushed[k])
      BY DEF RingInv, Fifo
    <3>2. m + Size' = Len(pushed')
      BY <3>1, <2>2, <2>3, <1>0
    <3>3. \A k \in 1 .. m : popped[k] = Whole(pushed'[k])
      BY <3>1, <2>2, <2>3, <1>0
    <3>4. QED
      BY <3>2, <3>3, <2>1 DEF Fifo
  <2>6. ContentsIntact'
    <3> SUFFICES ASSUME NEW k \in (0 .. Size - 1)'
                 PROVE  buffer'[At(k)'] = Whole(pushed'[m + k + 1])
      BY <2>1 DEF ContentsIntact
    <3>0. k \in 0 .. Size /\ buffer'[At(k)'] = buffer[At(k)]
      BY <2>1, <2>2
    <3>1. m + Size = n
      BY DEF RingInv, Fifo
    <3>2. CASE k = Size
      <4>1. m + k + 1 = n + 1
        BY <3>1, <3>2, <1>0
      <4>2. buffer[At(k)] = Whole(arg[p])
        BY <3>2, <2>1, <2>2
      <4>3. QED
        BY <3>0, <4>1, <4>2, <2>3
    <3>3. CASE k \in 0 .. Size - 1
      <4>1. m + k + 1 \in 1 .. n
        BY <3>1, <3>3, <1>0, <2>2
      <4>2. buffer[At(k)] = Whole(pushed[m + k + 1])
        BY <3>3 DEF RingInv, ContentsIntact
      <4>3. QED
        BY <3>0, <4>1, <4>2, <2>3
    <3>4. QED
      BY <3>0, <3>2, <3>3, <2>2
  <2>7. CopiesInProgress'
    <3>1. \A q \in Producers : pc'[q] \in {"idle", "pushed"}
      BY <1>7, <1>0 DEF PushStoreTail, Goto, TypeOK, Alone
    <3>2. \A c \in Consumers : pc'[c] = pc[c]
      BY <1>7, <1>0 DEF PushStoreTail, Goto, TypeOK
    <3>3. \A c \in Consumers : Accessing(c) => m + 1 \in 1 .. n
      BY <1>0, RingArithmetic DEF RingInv, Fifo, ChecksHold, Empty
    <3>4. QED
      BY <3>1, <3>2, <3>3, <2>1, <2>3 DEF RingInv, CopiesInProgress, Accessing
  <2>8. QED
    BY <2>4, <2>5, <2>6, <2>7 DEF RingInv
<1>8. ASSUME NEW c \in Consumers, PopReadId(c) PROVE RingInv'
  <2>1. /\ pc[c] = "readId" /\ idx[c] = head
        /\ item' = [item EXCEPT ![c].id = buffer[head].id]
        /\ UNCHANGED <<head, tail, buffer, idx, arg, pushed, popped>>
    BY <1>8 DEF RingInv, IndicesFresh, PopReadId, indices, history
  <2>2. buffer[head] = Whole(pushed[m + 1])
    <3>1. 0 \in 0 .. Size - 1 /\ At(0) = head
      BY <2>1, RingArithmetic DEF RingInv, ChecksHold, Accessing, Empty
    <3>2. QED
      BY <3>1, <1>0 DEF RingInv, ContentsIntact
  <2>3. IndicesFresh' /\ ChecksHold' /\ Fifo' /\ ContentsIntact'
    BY <1>8, <2>1, <1>0 DEF RingInv, IndicesFresh, ChecksHold, Fifo, ContentsIntact, TypeOK,
       Alone, PopReadId, Goto, Accessing, Full, Empty, Size, At
  <2>4. CopiesInProgress'
    BY <1>8, <2>1, <2>2, <1>0 DEF RingInv, CopiesInProgress, TypeOK, Alone, PopReadId,
       Goto, Slots, Whole
  <2>5. QED
    BY <2>3, <2>4 DEF RingInv
<1>9. ASSUME NEW c \in Consumers, PopReadBody(c) PROVE RingInv'
  <2>1. /\ pc[c] = "readBody" /\ idx[c] = head
        /\ item' = [item EXCEPT ![c].body = buffer[head].body]
        /\ UNCHANGED <<head, tail, buffer, idx, arg, pushed, popped>>
    BY <1>9 DEF RingInv, IndicesFresh, PopReadBody, indices, history
  <2>2. buffer[head] = Whole(pushed[m + 1])
    <3>1. 0 \in 0 .. Size - 1 /\ At(0) = head
      BY <2>1, RingArithmetic DEF RingInv, ChecksHold, Accessing, Empty
    <3>2. QED
      BY <3>1, <1>0 DEF RingInv, ContentsIntact
  <2>3. IndicesFresh' /\ ChecksHold' /\ Fifo' /\ ContentsIntact'
    BY <1>9, <2>1, <1>0 DEF RingInv, IndicesFresh, ChecksHold, Fifo, ContentsIntact, TypeOK,
       Alone, PopReadBody, Goto, Accessing, Full, Empty, Size, At
  <2>4. CopiesInProgress'
    BY <1>9, <2>1, <2>2, <1>0 DEF RingInv, CopiesInProgress, TypeOK, Alone, PopReadBody,
       Goto, Slots, Whole
  <2>5. QED
    BY <2>3, <2>4 DEF RingInv
<1>10. ASSUME NEW c \in Consumers, PopStoreHead(c) PROVE RingInv'
  <2>1. /\ pc[c] = "storeHead" /\ item[c] \in Slots
        /\ item[c] = Whole(pushed[m + 1]) /\ ~Empty
        /\ head' = Succ(head) /\ tail' = tail
        /\ popped' = Append(popped, item[c])
        /\ UNCHANGED <<buffer, idx, arg, item, pushed>>
    BY <1>10, <1>0 DEF RingInv, IndicesFresh, ChecksHold, CopiesInProgress, Accessing,
       PopStoreHead, TypeOK
  <2>2. /\ Size \in Nat \ {0} /\ Size' = Size - 1
        /\ \A k \in 0 .. Size - 2 : At(k)' = At(k + 1)
    BY <2>1, AfterHeadStore, RingArithmetic DEF Empty
  <2>3. /\ Len(popped') = m + 1 /\ popped'[m + 1] = item[c]
        /\ \A k \in 1 .. m : popped'[k] = popped[k]
    BY <2>1, <1>0 DEF TypeOK
  <2>4. IndicesFresh' /\ ChecksHold' /\ CopiesInProgress'
    <3>1. \A d \in Consumers : pc'[d] \in {"idle", "popped"}
      BY <1>10, <1>0 DEF PopStoreHead, Goto, TypeOK, Alone
    <3>2. \A p \in Producers : pc'[p] = pc[p]
      BY <1>10, <1>0 DEF PopStoreHead, Goto, TypeOK
    <3>3. ~Full'
      BY <2>1, AfterHeadStore
    <3>4. QED
      BY <3>1, <3>2, <3>3, <2>1 DEF RingInv, IndicesFresh, ChecksHold, CopiesInProgress,
         Accessing
  <2>5. Fifo'
    <3>1. m + Size = n /\ \A k \in 1 .. m : popped[k] = Whole(pushed[k])
      BY DEF RingInv, Fifo
    <3>2. Len(popped') + Size' = n
      BY <3>1, <2>2, <2>3, <1>0
    <3>3. \A k \in 1 .. m + 1 : popped'[k] = Whole(pushed[k])
      BY <3>1, <2>1, <2>3, <1>0
    <3>4. QED
      BY <3>2, <3>3, <2>1, <2>3 DEF Fifo
  <2>6. ContentsIntact'
    <3> SUFFICES ASSUME NEW k \in 0 .. Size - 2
                 PROVE  buffer[At(k)'] = Whole(pushed[m + 1 + k + 1])
      BY <2>1, <2>2, <2>3 DEF ContentsIntact
    <3>1. k + 1 \in 0 .. Size - 1 /\ m + (k + 1) + 1 = m + 1 + k + 1
      BY <2>2, <1>0
    <3>2. QED
      BY <3>1, <2>2 DEF RingInv, ContentsIntact
  <2>7. QED
    BY <2>4, <2>5, <2>6 DEF RingInv
<1>11. ASSUME UNCHANGED queueVars PROVE RingInv'
  BY <1>11 DEF RingInv, IndicesFresh, ChecksHold, CopiesInProgress,
     Fifo, ContentsIntact, Accessing, Full, Empty, Size, At, queueVars
<1>12. QED
  BY <1>1, <1>2, <1>3, <1>4, <1>5, <1>6, <1>7, <1>8, <1>9, <1>10, <1>11
  DEF Next, PushStep, PopStep

LEMMA RingInvariant ==
  ASSUME OneProducer, OneConsumer
  PROVE  Spec => [](TypeOK /\ RingInv)
<1>1. Init => TypeOK /\ RingInv
  BY TypeInit, RingInit
<1>2. TypeOK /\ RingInv /\ [Next]_queueVars => (TypeOK /\ RingInv)'
  <2>1. /\ Alone(Producers) /\ Alone(Producers)'
        /\ Alone(Consumers) /\ Alone(Consumers)'
    BY DEF Alone, OneProducer, OneConsumer
  <2>2. QED
    BY <2>1, TypeStep, RingStep
<1>3. QED
  BY <1>1, <1>2, PTL DEF Spec
-----------------------------------------------------------------------------
(***************************************************************************)
(* The whole inductive invariant: indices in use are fresh, checks that    *)
(* were passed still hold, and the slots in use and the copies in progress *)
(* are what was pushed.                                                    *)
(***************************************************************************)
THEOREM RingInvHolds ==
  ASSUME OneProducer, OneConsumer
  PROVE  Spec => []RingInv
  BY RingInvariant, PTL

(***************************************************************************)
(* One pushing and one popping thread get out of the ring exactly what     *)
(* they put in, in order, whatever the capacity and the interleaving.      *)
(***************************************************************************)
THEOREM FifoHolds ==
  ASSUME OneProducer, OneConsumer
  PROVE  Spec => [](Fifo /\ ContentsIntact)
<1>1. RingInv => Fifo /\ ContentsIntact
  BY DEF RingInv
<1>2. QED
  BY <1>1, RingInvariant, PTL

(***************************************************************************)
(* The non-atomic copies into and out of a slot never overlap.             *)
(***************************************************************************)
THEOREM DataRaceFreedom ==
  ASSUME OneProducer, OneConsumer
  PROVE  Spec => []NoDataRace
<1>1. TypeOK /\ RingInv => NoDataRace
  <2> SUFFICES ASSUME TypeOK, RingInv, NEW s \in Threads, NEW t \in Threads, s # t,
                      Accessing(s), Accessing(t)
               PROVE  idx[s] # idx[t]
    BY DEF NoDataRace
  <2>1. ASSUME NEW p \in Producers, NEW c \in Consumers, Accessing(p), Accessing(c)
        PROVE  idx[p] = tail /\ idx[c] = head /\ head # tail
    BY <2>1 DEF TypeOK, RingInv, IndicesFresh, ChecksHold, Accessing, Empty
  <2>2. QED
    BY <2>1 DEF OneProducer, OneConsumer, Threads
<1>2. QED
  BY <1>1, RingInvariant, PTL
-----------------------------------------------------------------------------
(***************************************************************************)
(* With one thread on each side the ring implements the channel of         *)
(* BoundedFifo with Capacity - 1 places.                                   *)
(***************************************************************************)
THEOREM RingImplementsFifo ==
  ASSUME OneProducer, OneConsumer
  PROVE  Spec => ImplementsFifo
<1> DEFINE sent == [k \in 1 .. Len(pushed) |-> Whole(pushed[k])]
<1>1. Init => Channel!FifoInit
  BY DEF Init, Channel!FifoInit
<1>2. ASSUME TypeOK, TypeOK', RingInv, [Next]_queueVars
      PROVE  [Channel!FifoNext]_(Channel!fifoVars)
  <2> USE ThreadsAssumption
  <2>1. /\ Len(pushed) \in Nat /\ Len(popped) \in Nat
        /\ Len(popped) + Size = Len(pushed)
        /\ Producers \subseteq Threads /\ Consumers \subseteq Threads
    BY <1>2 DEF TypeOK, RingInv, Fifo, Threads
  <2>2. ASSUME NEW p \in Producers, PushStoreTail(p) PROVE Channel!FifoNext
    <3>1. /\ arg[p] \in Order /\ pushed' = Append(pushed, arg[p])
          /\ popped' = popped /\ ~Full
      BY <1>2, <2>1, <2>2 DEF TypeOK, RingInv, ChecksHold, Accessing, PushStoreTail
    <3>2. /\ Len(pushed') = Len(pushed) + 1 /\ pushed'[Len(pushed) + 1] = arg[p]
          /\ \A k \in 1 .. Len(pushed) : pushed'[k] = pushed[k]
      BY <3>1, <1>2 DEF TypeOK
    <3>3. Len(sent) = Len(pushed) /\ sent \in Seq({Whole(o) : o \in Order})
      BY <2>1, <1>2 DEF TypeOK
    <3>4. sent' = Append(sent, Whole(arg[p]))
      BY <3>2, <3>3, <2>1
    <3>5. Len(sent) < Len(popped) + (Capacity - 1)
      BY <3>1, <3>3, <2>1, <1>2, RingArithmetic, CapacityAssumption
    <3>6. Channel!Send(Whole(arg[p]))
      BY <3>1, <3>4, <3>5 DEF Channel!Send
    <3>7. QED
      BY <3>1, <3>6 DEF Channel!FifoNext
  <2>3. ASSUME NEW c \in Consumers, PopStoreHead(c) PROVE Channel!FifoNext
    <3>1. /\ item[c] = Whole(pushed[Len(popped) + 1])
          /\ popped' = Append(popped, item[c]) /\ pushed' = pushed /\ ~Empty
      BY <1>2, <2>1, <2>3 DEF TypeOK, RingInv, ChecksHold, CopiesInProgress, Accessing,
         PopStoreHead
    <3>2. Len(popped) + 1 \in 1 .. Len(pushed)
      BY <3>1, <2>1, <1>2, RingArithmetic DEF Empty
    <3>3. Len(sent) = Len(pushed) /\ sent[Len(popped) + 1] = item[c]
      BY <3>1, <3>2, <2>1
    <3>4. Channel!Receive
      BY <3>1, <3>2, <3>3, <2>1 DEF Channel!Receive
    <3>5. QED
      BY <3>4 DEF Channel!FifoNext
  <2>4. CASE UNCHANGED history
    BY <2>4 DEF history, Channel!fifoVars
  <2>5. QED
    BY <1>2, <2>2, <2>3, <2>4
    DEF Next, PushStep, PopStep, PushLoadTail, PushCheckFull, PushWriteId, PushWriteBody,
        PopLoadHead, PopCheckEmpty, PopReadId, PopReadBody, queueVars, history
<1>3. QED
  BY <1>1, <1>2, RingInvariant, PTL DEF Spec, ImplementsFifo, Channel!FifoSpec
=============================================================================
