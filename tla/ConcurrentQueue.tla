-------------------------- MODULE ConcurrentQueue --------------------------
(***************************************************************************)
(* The ring of Session7/ConcurrentQueue.hpp, one step for every access to  *)
(* shared memory.  push() and pop() load their own index, compare it with  *)
(* the other one, touch one slot and store the advanced index; between any *)
(* two of these steps any other thread may run.                            *)
(*                                                                         *)
(* An Order is a struct that is copied field by field and is not atomic:   *)
(* a slot therefore has two halves, id and body, and a copy takes two      *)
(* steps.  A slot whose halves belong to different orders is a torn copy.  *)
(*                                                                         *)
(* pushed and popped are histories: the orders whose push() returned true, *)
(* and what each successful pop() handed out.  The result of a call is the *)
(* pc the thread is left at, which is also where its next call may start.  *)
(*                                                                         *)
(* Memory is sequentially consistent.  For one thread at each end nothing  *)
(* is lost by that (MemoryOrders).  With several at one end, whose loads   *)
(* of their own index are relaxed, it is an assumption: they may also see  *)
(* an old index beside a new one.                                          *)
(***************************************************************************)
EXTENDS Naturals, Sequences

CONSTANTS Producers,   \* threads that call push()
          Consumers,   \* threads that call pop()
          Capacity,    \* the template parameter: number of slots
          Order,       \* the orders that may be pushed
          NoOrder      \* a zero-initialised or default-constructed order

ASSUME ThreadsAssumption  == Producers \cap Consumers = {}
ASSUME CapacityAssumption == Capacity \in Nat \ {0}
ASSUME NoOrderAssumption  == NoOrder \notin Order

VARIABLES head, tail,  \* the two atomic indices
          buffer,      \* the slots
          pc,          \* where each thread is in its call
          idx,         \* local currentTail (push) or currentHead (pop)
          arg,         \* the order a producer passed to push()
          item,        \* the out-parameter a consumer passed to pop()
          pushed, popped

indices == <<head, tail>>
history == <<pushed, popped>>
queueVars == <<head, tail, buffer, pc, idx, arg, item, pushed, popped>>

OneProducer == \A p, q \in Producers : p = q
OneConsumer == \A c, d \in Consumers : c = d

Threads == Producers \cup Consumers
Field   == Order \cup {NoOrder}
Slots   == [id : Field, body : Field]
Whole(o) == [id |-> o, body |-> o]
Ring    == 0 .. Capacity - 1

\* Mutant: the index is advanced without the modulo.
SuccUnwrapped(i) == i + 1

Succ(i) == (i + 1) % Capacity

Init ==
  /\ head = 0
  /\ tail = 0
  /\ buffer = [i \in Ring |-> Whole(NoOrder)]
  /\ pc = [t \in Threads |-> "idle"]
  /\ idx = [t \in Threads |-> 0]
  /\ arg = [p \in Producers |-> NoOrder]
  /\ item = [c \in Consumers |-> Whole(NoOrder)]
  /\ pushed = << >>
  /\ popped = << >>

PushReturned(p) == pc[p] \in {"idle", "full", "pushed"}
PopReturned(c)  == pc[c] \in {"idle", "empty", "popped"}

Goto(t, label) == pc' = [pc EXCEPT ![t] = label]
-----------------------------------------------------------------------------
\* bool push(const T& item)

PushLoadTail(p, o) ==
  /\ PushReturned(p)
  /\ idx' = [idx EXCEPT ![p] = tail]
  /\ arg' = [arg EXCEPT ![p] = o]
  /\ Goto(p, "checkFull")
  /\ UNCHANGED <<indices, buffer, item, history>>

\* Mutant: the ring is never found full.
PushNeverFull(p) ==
  /\ pc[p] = "checkFull"
  /\ Goto(p, "writeId")
  /\ UNCHANGED <<indices, buffer, idx, arg, item, history>>

PushCheckFull(p) ==
  /\ pc[p] = "checkFull"
  /\ Goto(p, IF Succ(idx[p]) = head THEN "full" ELSE "writeId")
  /\ UNCHANGED <<indices, buffer, idx, arg, item, history>>

PushWriteId(p) ==
  /\ pc[p] = "writeId"
  /\ buffer' = [buffer EXCEPT ![idx[p]].id = arg[p]]
  /\ Goto(p, "writeBody")
  /\ UNCHANGED <<indices, idx, arg, item, history>>

\* Mutant: part of the order goes to the next slot.
PushWriteNextSlot(p) ==
  /\ pc[p] = "writeBody"
  /\ buffer' = [buffer EXCEPT ![Succ(idx[p])].body = arg[p]]
  /\ Goto(p, "storeTail")
  /\ UNCHANGED <<indices, idx, arg, item, history>>

PushWriteBody(p) ==
  /\ pc[p] = "writeBody"
  /\ buffer' = [buffer EXCEPT ![idx[p]].body = arg[p]]
  /\ Goto(p, "storeTail")
  /\ UNCHANGED <<indices, idx, arg, item, history>>

PushStoreTail(p) ==
  /\ pc[p] = "storeTail"
  /\ tail' = Succ(idx[p])
  /\ pushed' = Append(pushed, arg[p])
  /\ Goto(p, "pushed")
  /\ UNCHANGED <<head, buffer, idx, arg, item, popped>>
-----------------------------------------------------------------------------
\* bool pop(T& item), into a freshly default-constructed order

PopLoadHead(c) ==
  /\ PopReturned(c)
  /\ idx' = [idx EXCEPT ![c] = head]
  /\ item' = [item EXCEPT ![c] = Whole(NoOrder)]
  /\ Goto(c, "checkEmpty")
  /\ UNCHANGED <<indices, buffer, arg, history>>

\* Mutant: the ring is never found empty.
PopNeverEmpty(c) ==
  /\ pc[c] = "checkEmpty"
  /\ Goto(c, "readId")
  /\ UNCHANGED <<indices, buffer, idx, arg, item, history>>

PopCheckEmpty(c) ==
  /\ pc[c] = "checkEmpty"
  /\ Goto(c, IF idx[c] = tail THEN "empty" ELSE "readId")
  /\ UNCHANGED <<indices, buffer, idx, arg, item, history>>

PopReadId(c) ==
  /\ pc[c] = "readId"
  /\ item' = [item EXCEPT ![c].id = buffer[idx[c]].id]
  /\ Goto(c, "readBody")
  /\ UNCHANGED <<indices, buffer, idx, arg, history>>

\* Mutant: part of the order comes from the next slot.
PopReadNextSlot(c) ==
  /\ pc[c] = "readBody"
  /\ item' = [item EXCEPT ![c].body = buffer[Succ(idx[c])].body]
  /\ Goto(c, "storeHead")
  /\ UNCHANGED <<indices, buffer, idx, arg, history>>

PopReadBody(c) ==
  /\ pc[c] = "readBody"
  /\ item' = [item EXCEPT ![c].body = buffer[idx[c]].body]
  /\ Goto(c, "storeHead")
  /\ UNCHANGED <<indices, buffer, idx, arg, history>>

PopStoreHead(c) ==
  /\ pc[c] = "storeHead"
  /\ head' = Succ(idx[c])
  /\ popped' = Append(popped, item[c])
  /\ Goto(c, "popped")
  /\ UNCHANGED <<tail, buffer, idx, arg, item, pushed>>
-----------------------------------------------------------------------------
PushStep(p) == \/ PushCheckFull(p)
               \/ PushWriteId(p)
               \/ PushWriteBody(p)
               \/ PushStoreTail(p)

PopStep(c) == \/ PopCheckEmpty(c)
              \/ PopReadId(c)
              \/ PopReadBody(c)
              \/ PopStoreHead(c)

Next == \/ \E p \in Producers : \/ \E o \in Order : PushLoadTail(p, o)
                                \/ PushStep(p)
        \/ \E c \in Consumers : PopLoadHead(c) \/ PopStep(c)

Spec == Init /\ [][Next]_queueVars
-----------------------------------------------------------------------------
\* empty(), full() and size() of the code, as one atomic look at the indices.

Empty == head = tail
Full  == Succ(tail) = head
Size  == IF tail >= head THEN tail - head ELSE Capacity - head + tail

\* The slot k places after the head.
At(k) == IF head + k < Capacity THEN head + k ELSE head + k - Capacity

\* A thread between its check and its store owns the slot it indexed.
Accessing(t) ==
  pc[t] \in {"writeId", "writeBody", "storeTail", "readId", "readBody", "storeHead"}

(***************************************************************************)
(* Types: the indices stay inside the ring, slots hold orders or the       *)
(* zero-initialised order, threads are inside push() or pop().             *)
(***************************************************************************)
TypeOK ==
  /\ head \in Ring
  /\ tail \in Ring
  /\ buffer \in [Ring -> Slots]
  /\ pc \in [Threads -> {"idle", "checkFull", "writeId", "writeBody", "storeTail",
                         "full", "pushed", "checkEmpty", "readId", "readBody",
                         "storeHead", "empty", "popped"}]
  /\ \A p \in Producers : pc[p] \notin {"checkEmpty", "readId", "readBody",
                                        "storeHead", "empty", "popped"}
  /\ \A c \in Consumers : pc[c] \notin {"checkFull", "writeId", "writeBody",
                                        "storeTail", "full", "pushed"}
  /\ idx \in [Threads -> Ring]
  /\ arg \in [Producers -> Field]
  /\ \A p \in Producers : pc[p] # "idle" => arg[p] \in Order
  /\ item \in [Consumers -> Slots]
  /\ pushed \in Seq(Order)
  /\ popped \in Seq(Slots)

(***************************************************************************)
(* FIFO, without loss, duplication or invention: what the pops handed out  *)
(* is the beginning of what the pushes put in, each order whole, and the   *)
(* difference is what size() reports.                                      *)
(***************************************************************************)
Fifo ==
  /\ Len(popped) + Size = Len(pushed)
  /\ \A k \in 1 .. Len(popped) : popped[k] = Whole(pushed[k])

(***************************************************************************)
(* No two threads are ever in the middle of accesses to one slot, so the   *)
(* non-atomic copy `buffer[currentTail] = item` never overlaps             *)
(* `item = buffer[currentHead]`.                                           *)
(***************************************************************************)
NoDataRace ==
  \A s, t \in Threads : s # t /\ Accessing(s) /\ Accessing(t) => idx[s] # idx[t]

(***************************************************************************)
(* Orders that were pushed and not yet popped are intact in the slots from *)
(* head to tail: a producer never overwrites one, whatever stale head it   *)
(* compared with.                                                          *)
(***************************************************************************)
ContentsIntact ==
  \A k \in 0 .. Size - 1 :
     buffer[At(k)] = Whole(pushed[Len(popped) + k + 1])

(***************************************************************************)
(* What makes Fifo inductive for one producer and one consumer: the local  *)
(* index of a thread inside its call is still the shared one, the check it *)
(* passed still holds (the other side can only have made more room, or     *)
(* more orders), and half-made copies hold the right half.                 *)
(***************************************************************************)
IndicesFresh ==
  /\ \A p \in Producers : pc[p] \in {"checkFull", "writeId", "writeBody", "storeTail"}
                           => idx[p] = tail
  /\ \A c \in Consumers : pc[c] \in {"checkEmpty", "readId", "readBody", "storeHead"}
                           => idx[c] = head

ChecksHold ==
  /\ \A p \in Producers : Accessing(p) => ~Full
  /\ \A c \in Consumers : Accessing(c) => ~Empty

CopiesInProgress ==
  /\ \A p \in Producers :
       /\ pc[p] = "writeBody" => buffer[tail].id = arg[p]
       /\ pc[p] = "storeTail" => buffer[tail] = Whole(arg[p])
  /\ \A c \in Consumers :
       /\ pc[c] = "readBody" => item[c].id = pushed[Len(popped) + 1]
       /\ pc[c] = "storeHead" => item[c] = Whole(pushed[Len(popped) + 1])

RingInv == /\ TypeOK
           /\ IndicesFresh
           /\ ChecksHold
           /\ CopiesInProgress
           /\ Fifo
           /\ ContentsIntact

(***************************************************************************)
(* "Push an item into the queue. Returns false if the queue is full.": an  *)
(* order whose push() returned true is in the ring until it is popped.     *)
(***************************************************************************)
NoneLost == Len(pushed) <= Len(popped) + Size

(***************************************************************************)
(* With one producer and one consumer the ring implements a first-in       *)
(* first-out channel of Capacity - 1 places: a tail store is the Send, a   *)
(* head store is the Receive, every other step is invisible.               *)
(***************************************************************************)
Channel == INSTANCE BoundedFifo WITH
             Item <- {Whole(o) : o \in Order}, Bound <- Capacity - 1,
             sent <- [k \in 1 .. Len(pushed) |-> Whole(pushed[k])],
             received <- popped

ImplementsFifo == Channel!FifoSpec
=============================================================================
