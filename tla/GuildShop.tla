------------------------------ MODULE GuildShop -------------------------------
(***************************************************************************)
(* What the shop and the inventory promise, with every request a single    *)
(* step: a key buys at most once and for coins the hunter has, a use takes *)
(* one bought item and leaves one message.  It promises nothing about how  *)
(* a settled quest moves a hunter's coins (see Settlement).                *)
(***************************************************************************)
EXTENDS Integers

CONSTANTS Hunters, Items, Keys, Prices

VARIABLES
  coins,      \* balance of each hunter
  stock,      \* how many of each item each hunter has
  receipts,   \* purchases made, at most one for each hunter and key
  messages    \* uses announced in the guild chat

shopVars == <<coins, stock, receipts, messages>>

Init ==
  /\ coins \in [Hunters -> Nat]
  /\ stock = [x \in Hunters \X Items |-> 0]
  /\ receipts = {}
  /\ messages = [x \in Hunters \X Items |-> 0]

Buy(h, i, k, c) ==
  /\ \A r \in receipts : ~(r.hunter = h /\ r.key = k)
  /\ coins[h] >= c
  /\ coins' = [coins EXCEPT ![h] = @ - c]
  /\ stock' = [stock EXCEPT ![<<h, i>>] = @ + 1]
  /\ receipts' = receipts \cup {[hunter |-> h, key |-> k, item |-> i, cost |-> c]}
  /\ UNCHANGED messages

Use(h, i) ==
  /\ stock[<<h, i>>] > 0
  /\ stock' = [stock EXCEPT ![<<h, i>>] = @ - 1]
  /\ messages' = [messages EXCEPT ![<<h, i>>] = @ + 1]
  /\ UNCHANGED <<coins, receipts>>

\* A settled quest leaves h some balance, and everything else alone.
Settle(h) ==
  /\ coins'[h] \in Nat
  /\ coins' = [coins EXCEPT ![h] = coins'[h]]
  /\ UNCHANGED <<stock, receipts, messages>>

Next ==
  \E h \in Hunters :
    \/ \E i \in Items, k \in Keys, c \in Prices : Buy(h, i, k, c)
    \/ \E i \in Items : Use(h, i)
    \/ Settle(h)

Spec == Init /\ [][Next]_shopVars
===============================================================================
