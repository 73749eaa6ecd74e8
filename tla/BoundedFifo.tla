---------------------------- MODULE BoundedFifo ----------------------------
(***************************************************************************)
(* What a bounded first-in first-out channel promises its users: at most   *)
(* Bound items are in transit, and items come out once each, in the order  *)
(* they went in.  The state is the two histories.  The specification says  *)
(* nothing about slots, indices or threads: ConcurrentQueue is shown to    *)
(* implement it when one thread pushes and one thread pops.                *)
(***************************************************************************)
EXTENDS Naturals, Sequences

CONSTANTS Item,   \* what may be sent
          Bound   \* how many items may be in transit

VARIABLES sent, received

fifoVars == <<sent, received>>

FifoInit ==
  /\ sent = << >>
  /\ received = << >>

Send(i) ==
  /\ Len(sent) < Len(received) + Bound
  /\ sent' = Append(sent, i)
  /\ UNCHANGED received

Receive ==
  /\ Len(received) < Len(sent)
  /\ received' = Append(received, sent[Len(received) + 1])
  /\ UNCHANGED sent

FifoNext == Receive \/ \E i \in Item : Send(i)

FifoSpec == FifoInit /\ [][FifoNext]_fifoVars
=============================================================================
