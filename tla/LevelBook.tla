----------------------------- MODULE LevelBook -----------------------------
(***************************************************************************)
(* The order book of Phase_5: orders are kept twice, in a map of price     *)
(* levels and in a lookup table by id.  A level that was made is never     *)
(* removed, even when its last order is.                                   *)
(***************************************************************************)
EXTENDS Naturals

CONSTANTS Id, LevelPrice, LevelQuantity

VARIABLES orderLevels,  \* price -> (id -> order), for the levels made so far
          orderLookup   \* id -> order

levelVars == <<orderLevels, orderLookup>>

Order == [id : Id, price : LevelPrice, quantity : LevelQuantity, isBuy : BOOLEAN]

LevelInit == orderLevels = << >> /\ orderLookup = << >>
-----------------------------------------------------------------------------
With(f, k, v)    == [j \in DOMAIN f \cup {k} |-> IF j = k THEN v ELSE f[j]]
Without(f, k)    == [j \in DOMAIN f \ {k} |-> f[j]]
Level(levels, p) == IF p \in DOMAIN levels THEN levels[p] ELSE << >>

\* erase(id) from the level of a price, which operator[] makes if need be
ErasedFrom(levels, p, id) == With(levels, p, Without(Level(levels, p), id))

\* addOrder, on levels from which modifyOrder may have erased the order
PutOrder(levels, o) ==
  /\ orderLevels' = With(levels, o.price, With(Level(levels, o.price), o.id, o))
  /\ orderLookup' = With(orderLookup, o.id, o)

\* The programs give every order an id of its own.
AddOrder(o) == o.id \notin DOMAIN orderLookup /\ PutOrder(orderLevels, o)

\* Mutant: the order stays in its old level.
ModifyKeepingOld(id, p, q) ==
  /\ id \in DOMAIN orderLookup
  /\ PutOrder(orderLevels, [orderLookup[id] EXCEPT !.price = p, !.quantity = q])

ModifyOrder(id, p, q) ==
  /\ id \in DOMAIN orderLookup
  /\ PutOrder(ErasedFrom(orderLevels, orderLookup[id].price, id),
              [orderLookup[id] EXCEPT !.price = p, !.quantity = q])

DeleteOrder(id) ==
  /\ id \in DOMAIN orderLookup
  /\ orderLevels' = ErasedFrom(orderLevels, orderLookup[id].price, id)
  /\ orderLookup' = Without(orderLookup, id)

LevelNext == \/ \E o \in Order : AddOrder(o)
             \/ \E id \in Id : DeleteOrder(id)
             \/ \E id \in Id, p \in LevelPrice, q \in LevelQuantity : ModifyOrder(id, p, q)

LevelSpec == LevelInit /\ [][LevelNext]_levelVars
-----------------------------------------------------------------------------
LevelTypeOK ==
  /\ DOMAIN orderLevels \subseteq LevelPrice
  /\ \A p \in DOMAIN orderLevels : DOMAIN orderLevels[p] \subseteq Id
  /\ DOMAIN orderLookup \subseteq Id
  /\ \A id \in DOMAIN orderLookup : orderLookup[id] \in Order

(***************************************************************************)
(* The two copies of the book agree after any adds, changes and removals:  *)
(* an order is in the level of its price as the table has it, and in no    *)
(* other.                                                                  *)
(***************************************************************************)
CopiesMatch ==
  /\ \A id \in DOMAIN orderLookup : orderLookup[id].id = id
  /\ \A id \in DOMAIN orderLookup : id \in DOMAIN Level(orderLevels, orderLookup[id].price)
  /\ \A p \in DOMAIN orderLevels : \A id \in DOMAIN orderLevels[p] :
       /\ id \in DOMAIN orderLookup
       /\ orderLevels[p][id] = orderLookup[id]
       /\ orderLookup[id].price = p
=============================================================================
