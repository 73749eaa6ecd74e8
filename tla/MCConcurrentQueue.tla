------------------------- MODULE MCConcurrentQueue -------------------------
(***************************************************************************)
(* ConcurrentQueue for TLC: producers stop calling push() once MaxPushes   *)
(* calls have succeeded, consumers keep polling.                           *)
(***************************************************************************)
EXTENDS ConcurrentQueue

CONSTANT MaxPushes

MCNext == \/ \E p \in Producers : \/ \E o \in Order : /\ Len(pushed) < MaxPushes
                                                      /\ PushLoadTail(p, o)
                                  \/ PushStep(p)
          \/ \E c \in Consumers : PopLoadHead(c) \/ PopStep(c)

MCSpec == Init /\ [][MCNext]_queueVars
=============================================================================
