---------------------------- MODULE MemoryOrders ----------------------------
(***************************************************************************)
(* The four versions of the ring that MemoryOrderingBenchmark compares:    *)
(* the "standard" one of ConcurrentQueue.hpp, and those of                 *)
(* ExperimentalQueue.hpp.  They differ in the memory orders of the same    *)
(* loads and stores, so this module says what C++ lets each of them read.  *)
(* One thread pushes and one pops; with more threads no memory order helps *)
(* (see ConcurrentQueue).                                                  *)
(*                                                                         *)
(* Each index is stored by one thread only: its stores are a sequence, and *)
(* the other thread may load any of them that is not older than what it    *)
(* has loaded before (under seq_cst, the latest).  Happens-before is       *)
(* tracked by vector clocks, as race detectors do: a thread's time is the  *)
(* number of its accesses to slots, clock[t][u] the part of u's accesses   *)
(* that happen before what t does next.  A release store, or a relaxed one *)
(* behind a release fence, carries the clock of its thread.  An acquire    *)
(* load takes over the clock it finds; a relaxed load only keeps it until  *)
(* the next acquire fence of its thread.                                   *)
(***************************************************************************)
EXTENDS Naturals, Sequences

CONSTANTS Capacity,
          Items,      \* how many items are pushed, 1 .. Items in this order
          Variants    \* those of the four versions that are looked at

ASSUME CapacityAssumption == Capacity \in Nat \ {0}
ASSUME ItemsAssumption    == Items \in Nat
ASSUME VariantsAssumption == Variants \subseteq {"standard", "relaxed", "seq_cst", "fenced"}

VARIABLES variant,  \* the version in use
          stores,   \* thread -> the stores to its index, each with its clock
          seen,     \* thread -> which store of the other one it loaded last
          clock,    \* thread -> what happens before its next access
          pending,  \* thread -> clocks its next acquire fence will take over
          pc,
          idx,      \* thread -> currentTail, currentHead
          slots,    \* slot -> the writes to it, each with the writer's time
          touched,  \* thread -> slot -> time of its last access
          item,     \* what pop() has read
          popped    \* history: items that pop() returned

syncVars == <<seen, clock, pending>>
vars == <<variant, stores, syncVars, pc, idx, slots, touched, item, popped>>

Thread == {"producer", "consumer"}
Other(t) == IF t = "producer" THEN "consumer" ELSE "producer"
Ring == 0 .. Capacity - 1

\* Mutant: the index is advanced without the modulo.
SuccUnwrapped(j) == j + 1

Succ(j) == (j + 1) % Capacity

Zero == [t \in Thread |-> 0]
Join(c, d) == [t \in Thread |-> IF c[t] >= d[t] THEN c[t] ELSE d[t]]

Latest(t) == stores[t][Len(stores[t])]

Init ==
  /\ variant \in Variants
  /\ stores = [t \in Thread |-> <<[value |-> 0, clock |-> Zero]>>]
  /\ seen = [t \in Thread |-> 1]
  /\ clock = [t \in Thread |-> Zero]
  /\ pending = [t \in Thread |-> Zero]
  /\ pc = [t \in Thread |-> "idle"]
  /\ idx = [t \in Thread |-> 0]
  /\ slots = [s \in Ring |-> <<[item |-> 0, at |-> 0]>>]
  /\ touched = [t \in Thread |-> [s \in Ring |-> 0]]
  /\ item = 0
  /\ popped = << >>
-----------------------------------------------------------------------------
Goto(t, label) == pc' = [pc EXCEPT ![t] = label]

Pushes == Len(stores["producer"]) - 1

\* A call of push() or pop(): the thread loads its own index.
LoadOwn(t) ==
  /\ pc[t] = "idle"
  /\ t = "producer" => Pushes < Items
  /\ idx' = [idx EXCEPT ![t] = Latest(t).value]
  /\ Goto(t, "check")
  /\ UNCHANGED <<variant, stores, syncVars, slots, touched, item, popped>>

\* Mutant: the ring is full only where the modulo does not act.
BlockedUnwrapped(t, index) ==
  IF t = "producer" THEN idx[t] + 1 = index ELSE idx[t] = index

\* Full for push(), empty for pop(): the call returns false.
Blocked(t, index) ==
  IF t = "producer" THEN Succ(idx[t]) = index ELSE idx[t] = index

\* What the load of the other index does for happens-before.  The acquire
\* fence of the fenced version stands before the load.
Synchronize(t, c) ==
  CASE variant \in {"standard", "seq_cst"} ->
         /\ clock' = [clock EXCEPT ![t] = Join(@, c)]
         /\ UNCHANGED pending
    [] variant = "fenced" ->
         /\ clock' = [clock EXCEPT ![t] = Join(@, pending[t])]
         /\ pending' = [pending EXCEPT ![t] = c]
    [] variant = "relaxed" -> UNCHANGED <<clock, pending>>

\* Mutant: the other index is loaded relaxed.
LoadOtherRelaxed(t) ==
  /\ pc[t] = "check"
  /\ \E k \in seen[t] .. Len(stores[Other(t)]) :
       LET store == stores[Other(t)][k]
       IN  /\ variant = "seq_cst" => k = Len(stores[Other(t)])
           /\ seen' = [seen EXCEPT ![t] = k]
           /\ UNCHANGED <<clock, pending>>
           /\ Goto(t, IF Blocked(t, store.value) THEN "idle" ELSE "access")
  /\ UNCHANGED <<variant, stores, idx, slots, touched, item, popped>>

\* Mutant: the other index is loaded once, and only the copy looked at then.
LoadOtherOnce(t) ==
  /\ pc[t] = "check"
  /\ LET store == stores[Other(t)][seen[t]]
     IN  /\ Synchronize(t, store.clock)
         /\ Goto(t, IF Blocked(t, store.value) THEN "idle" ELSE "access")
  /\ UNCHANGED <<variant, stores, seen, idx, slots, touched, item, popped>>

LoadOther(t) ==
  /\ pc[t] = "check"
  /\ \E k \in seen[t] .. Len(stores[Other(t)]) :
       LET store == stores[Other(t)][k]
       IN  /\ variant = "seq_cst" => k = Len(stores[Other(t)])
           /\ seen' = [seen EXCEPT ![t] = k]
           /\ Synchronize(t, store.clock)
           /\ Goto(t, IF Blocked(t, store.value) THEN "idle" ELSE "access")
  /\ UNCHANGED <<variant, stores, idx, slots, touched, item, popped>>

\* A thread's time goes on with each of its accesses.
Touch(t) ==
  /\ clock' = [clock EXCEPT ![t][t] = @ + 1]
  /\ touched' = [touched EXCEPT ![t][idx[t]] = clock[t][t] + 1]

\* buffer[currentTail] = item
WriteSlot ==
  /\ pc["producer"] = "access"
  /\ Touch("producer")
  /\ slots' = [slots EXCEPT ![idx["producer"]] =
                 Append(@, [item |-> Pushes + 1, at |-> clock'["producer"]["producer"]])]
  /\ Goto("producer", "publish")
  /\ UNCHANGED <<variant, stores, seen, pending, idx, item, popped>>

\* A read returns a write that is not hidden by one that happens before the
\* read: the last one, if that happens before it, and else any later one too.
Readable(s) ==
  {slots[s][k].item : k \in
     {k \in DOMAIN slots[s] :
        \A j \in k + 1 .. Len(slots[s]) : slots[s][j].at > clock["consumer"]["producer"]}}

\* item = buffer[currentHead]
ReadSlot ==
  /\ pc["consumer"] = "access"
  /\ Touch("consumer")
  /\ item' \in Readable(idx["consumer"])
  /\ Goto("consumer", "publish")
  /\ UNCHANGED <<variant, stores, seen, pending, idx, slots, popped>>

\* Mutant: the store of the own index releases nothing.
PublishRelaxed(t) ==
  /\ pc[t] = "publish"
  /\ stores' = [stores EXCEPT ![t] = Append(@, [value |-> Succ(idx[t]), clock |-> Zero])]
  /\ popped' = IF t = "consumer" THEN Append(popped, item) ELSE popped
  /\ Goto(t, "idle")
  /\ UNCHANGED <<variant, syncVars, idx, slots, touched, item>>

\* The store of the own index: release, seq_cst, or behind a release fence.
Publish(t) ==
  /\ pc[t] = "publish"
  /\ stores' = [stores EXCEPT ![t] =
                  Append(@, [value |-> Succ(idx[t]),
                             clock |-> IF variant = "relaxed" THEN Zero ELSE clock[t]])]
  /\ popped' = IF t = "consumer" THEN Append(popped, item) ELSE popped
  /\ Goto(t, "idle")
  /\ UNCHANGED <<variant, syncVars, idx, slots, touched, item>>

Next == \/ \E t \in Thread : LoadOwn(t) \/ LoadOther(t) \/ Publish(t)
        \/ WriteSlot
        \/ ReadSlot

\* A thread is scheduled again and again: it calls again when the call before
\* returned false.
Step(t) == \/ LoadOwn(t) \/ LoadOther(t) \/ Publish(t)
           \/ t = "producer" /\ WriteSlot
           \/ t = "consumer" /\ ReadSlot

\* "Implementations should make atomic stores visible to atomic loads within
\* a reasonable amount of time" (C++, [atomics.order]): a thread that loads
\* the other index again and again loads the latest store at some time.
LoadLatest(t) == LoadOther(t) /\ seen'[t] = Len(stores[Other(t)])

Fairness == \A t \in Thread : WF_vars(Step(t)) /\ SF_vars(LoadLatest(t))

Spec == Init /\ [][Next]_vars /\ Fairness
-----------------------------------------------------------------------------
(***************************************************************************)
(* Types of the indices, the clocks and the slots.                         *)
(***************************************************************************)
ClockType == [Thread -> Nat]

TypeOK ==
  /\ variant \in Variants
  /\ stores \in [Thread -> Seq([value : Ring, clock : ClockType])]
  /\ seen \in [Thread -> Nat \ {0}]
  /\ clock \in [Thread -> ClockType]
  /\ pending \in [Thread -> ClockType]
  /\ pc \in [Thread -> {"idle", "check", "access", "publish"}]
  /\ idx \in [Thread -> Ring]
  /\ slots \in [Ring -> Seq([item : Nat, at : Nat])]
  /\ touched \in [Thread -> [Ring -> Nat]]
  /\ item \in Nat
  /\ popped \in Seq(Nat)

(***************************************************************************)
(* The inductive invariant behind the three properties below.  Items are   *)
(* numbered from 1, and so are the accesses of a thread: the n-th one is   *)
(* that to item n, in the slot of item n.                                  *)
(***************************************************************************)
Acquiring == variant \in {"standard", "seq_cst"}

SlotOf(n) == (n - 1) % Capacity

Stores(t)   == Len(stores[t])
Accesses(t) == IF pc[t] = "publish" THEN Stores(t) ELSE Stores(t) - 1

\* The k-th store of an index says that k - 1 items were dealt with, and a
\* thread in a call works at the place of the next one.
PlacesCounted ==
  /\ \A t \in Thread : \A k \in 1 .. Stores(t) : stores[t][k].value = SlotOf(k)
  /\ \A t \in Thread : pc[t] # "idle" => idx[t] = SlotOf(Stores(t))
  /\ Len(popped) = Stores("consumer") - 1

\* What a thread last saw of the other one leaves it room for all it has
\* published, and for one more between its check and its store.
RoomSeen ==
  /\ \A t \in Thread : Stores(t) >= 1 /\ seen[t] \in 1 .. Stores(Other(t))
  /\ Stores("consumer") <= seen["consumer"]
  /\ Stores("producer") < seen["producer"] + Capacity
  /\ pc["consumer"] \in {"access", "publish"} => Stores("consumer") < seen["consumer"]
  /\ pc["producer"] \in {"access", "publish"} =>
       Stores("producer") + 1 < seen["producer"] + Capacity

\* A thread's own time counts its accesses, and nobody is ahead of it.
ClocksCount ==
  /\ \A t \in Thread : clock[t][t] = Accesses(t)
  /\ \A t, u \in Thread : clock[t][u] <= clock[u][u] /\ pending[t][u] <= clock[u][u]
  /\ \A t, u \in Thread : \A k \in 1 .. Stores(t) : stores[t][k].clock[u] <= clock[u][u]

\* Where loads acquire, a store carries the accesses before it, and to have
\* seen it is to have them before.
StoresCarry ==
  Acquiring =>
    /\ \A t \in Thread : \A k \in 1 .. Stores(t) : stores[t][k].clock[t] = k - 1
    /\ \A t \in Thread : seen[t] - 1 <= clock[t][Other(t)]

\* A slot was written the items it is the place of, in their order, and each
\* item was written at the time of its number.
WritesInPlace ==
  /\ \A s \in Ring : \A k \in 1 .. Len(slots[s]) :
       /\ slots[s][k].item = slots[s][k].at
       /\ slots[s][k].at <= Accesses("producer")
       /\ slots[s][k].at # 0 => SlotOf(slots[s][k].at) = s
       /\ \A j \in 1 .. k - 1 : slots[s][j].at < slots[s][k].at
  /\ \A n \in 1 .. Accesses("producer") :
       \E k \in 1 .. Len(slots[SlotOf(n)]) : slots[SlotOf(n)][k].at = n

TouchesInPlace ==
  \A t \in Thread : \A s \in Ring :
    /\ touched[t][s] <= Accesses(t)
    /\ touched[t][s] # 0 => SlotOf(touched[t][s]) = s

ItemsInOrder ==
  Acquiring => /\ \A k \in DOMAIN popped : popped[k] = k
               /\ pc["consumer"] = "publish" => item = Stores("consumer")

OrdersInv == /\ TypeOK
             /\ PlacesCounted
             /\ RoomSeen
             /\ ClocksCount
             /\ StoresCarry
             /\ WritesInPlace
             /\ TouchesInPlace
             /\ ItemsInOrder

(***************************************************************************)
(* Under whatever memory order nothing is pushed over an item that has not *)
(* been popped, and nothing is popped that has not been pushed: an old     *)
(* value of the other index only makes a thread more careful.              *)
(***************************************************************************)
NeverOverruns ==
  /\ Len(popped) <= Pushes
  /\ Pushes <= Len(popped) + Capacity - 1

(***************************************************************************)
(* No data race in the sense of C++, in the two versions whose loads of    *)
(* the other index acquire: when a thread is about to access a slot, every *)
(* access of the other thread to that slot happens before.  This is what   *)
(* makes the interleavings of ConcurrentQueue all there is.                *)
(***************************************************************************)
SlotsSynchronized ==
  Acquiring => \A t \in Thread : pc[t] = "access" =>
    touched[Other(t)][idx[t]] <= clock[t][Other(t)]

(***************************************************************************)
(* Nobody waits for ever at a ring that is full or empty for an old value  *)
(* of the other index only: with one thread at each end, in all four       *)
(* versions, every item is pushed and popped at last.                      *)
(***************************************************************************)
EveryItemPopped == Capacity > 1 => <>(Len(popped) = Items)

(***************************************************************************)
(* "Different memory orderings allow for performance optimization without  *)
(* sacrificing correctness" (README.md): so does the version with explicit *)
(* fences.                                                                 *)
(***************************************************************************)
PopsInOrder == \A k \in DOMAIN popped : popped[k] = k

FencesSuffice == variant = "fenced" => PopsInOrder

(***************************************************************************)
(* The two versions whose loads acquire implement the channel that         *)
(* BoundedFifo promises, as the sequentially consistent ConcurrentQueue    *)
(* does, however old the indices are that the threads compare with: the    *)
(* store of the tail is the Send of the next item, the store of the head   *)
(* is the Receive of the oldest one, and nothing else is visible.          *)
(***************************************************************************)
Channel == INSTANCE BoundedFifo WITH
             Item <- 1 .. Items, Bound <- Capacity - 1,
             sent <- [k \in 1 .. Pushes |-> k], received <- popped

AcquiringImplementsFifo ==
  /\ Acquiring => Channel!FifoInit
  /\ [][Acquiring => Channel!FifoNext]_(Channel!fifoVars)
=============================================================================
