--------------------------- MODULE MCPriceServer ---------------------------
(***************************************************************************)
(* PriceServer for TLC: only the first MaxPrices prices of the feed are    *)
(* looked at, each of which goes up or down from all the prices before it. *)
(* Such feeds have every run of momentum there is in few prices.  What     *)
(* happens when the feed goes on for ever is checked in PriceStreams.      *)
(***************************************************************************)
EXTENDS PriceServer

CONSTANT MaxPrices

FeedOver == priceId = MaxPrices /\ feed.stage = "price" /\ UNCHANGED vars

SwingPrice ==
  /\ priceId < MaxPrices
  /\ NewPrice
  /\ feed'.price \in {MaxPrices + priceId, MaxPrices - priceId}

MCNext == \/ SwingPrice
          \/ Stamp \/ LockClients \/ SendPrice \/ UnlockClients
          \/ Accept \/ Register
          \/ \E k \in DOMAIN clients : ReceiveName(k) \/ ReceiveOrder(k) \/ Disconnect(k)
          \/ \E c \in Client : Connect(c) \/ ReceivePrice(c) \/ SendOrder(c) \/ Leave(c)
          \/ FeedOver

MCSpec == Init /\ [][MCNext]_vars
=============================================================================
