-------------------------- MODULE Settlement_proofs ---------------------------
(***************************************************************************)
(* Proofs about Settlement, for any hunters, items, quests, keys and       *)
(* handler slots.                                                          *)
(***************************************************************************)
EXTENDS Settlement, FiniteSetTheorems, TLAPS

-------------------------------------------------------------------------------
(* Types.  RewardFits is the part of LockedReadsHold that types need: what *)
(* a review is about to write passed the overflow checks.                  *)

RewardFits ==
  \A s \in Slots : pc[s] = "review_pay" =>
    /\ seen[s].coins + RewardCoins[req[s].quest] <= MaxI32
    /\ seen[s].xp + RewardXp[req[s].quest] <= MaxI32

TypeInv == TypeOK /\ RewardFits

\* A level is a natural number: compute_level_from_xp never goes below 1.
LEMMA LevelIsNat == \A xp \in Nat : LevelOf(xp) \in Nat
  BY DEF LevelOf

\* Initially every slot is idle and every balance is StartCoins.
LEMMA TypeInit == Init => TypeInv
<1> SUFFICES ASSUME Init PROVE TypeInv
  OBVIOUS
<1> USE SettlementAssumption DEF Init
<1>1. IsFiniteSet({})
  BY FS_EmptySet
<1>2. RowTypes
  BY <1>1 DEF RowTypes, I32, QuestStatus, ItemStatus
<1>3. SlotTypes
  BY DEF SlotTypes, BuyAt, UseAt, SubmitAt, ReviewAt, NothingSeen, Reading, I32
<1>4. RewardFits
  BY DEF RewardFits
<1> QED BY <1>2, <1>3, <1>4 DEF TypeInv, TypeOK

\* A step that writes no table keeps the types of the tables.
LEMMA RowsUnchanged ==
  ASSUME RowTypes, UNCHANGED dbVars
  PROVE  RowTypes'
  BY DEF RowTypes, dbVars

\* Taking up a request keeps the types when the request fits its label.
LEMMA TypeBegin ==
  ASSUME TypeInv, NEW s \in Slots, NEW label, NEW request, NEW record,
         Begin(s, label, request, record),
         \/ label = "buy_find" /\ request \in BuyRequest
         \/ label = "use_lock" /\ request \in UseRequest
         \/ label = "submit_update" /\ request \in SubmitRequest
         \/ label \in {"review_take_quest", "review_reject"} /\ request \in ReviewRequest,
         record \in Reading,
         label = "buy_find" => record.cost \in Prices
  PROVE  TypeInv'
<1> USE SettlementAssumption DEF TypeInv, TypeOK, Begin, Goto, See
<1>1. RowTypes'
  BY RowsUnchanged
<1>2. SlotTypes'
  BY DEF SlotTypes, BuyAt, UseAt, SubmitAt, ReviewAt, Request
<1>3. RewardFits'
  BY DEF SlotTypes, RewardFits
<1> QED BY <1>1, <1>2, <1>3

\* A handler that returns keeps the types of the slots.
LEMMA TypeAnswer ==
  ASSUME TypeInv, NEW s \in Slots, Answer(s)
  PROVE  SlotTypes' /\ RewardFits'
<1> USE SettlementAssumption DEF TypeInv, TypeOK, Answer, Goto, See
<1>1. SlotTypes'
  BY DEF SlotTypes, BuyAt, UseAt, SubmitAt, ReviewAt, NothingSeen, I32, Reading
<1>2. RewardFits'
  BY DEF SlotTypes, RewardFits
<1> QED BY <1>1, <1>2

\* A handler that returns and leaves every row alone.
LEMMA TypeQuietAnswer ==
  ASSUME TypeInv, NEW s \in Slots, Answer(s), UNCHANGED dbVars
  PROVE  TypeInv'
  BY TypeAnswer, RowsUnchanged DEF TypeInv, TypeOK

\* A handler that moves on, having read something, and leaves every row alone.
LEMMA TypeQuietMove ==
  ASSUME TypeInv, NEW s \in Slots, NEW label, NEW record,
         Goto(s, label), See(s, record), UNCHANGED <<req, left>>, UNCHANGED dbVars,
         \/ pc[s] \in BuyAt /\ label \in BuyAt
         \/ pc[s] \in UseAt /\ label \in UseAt
         \/ pc[s] \in ReviewAt /\ label \in ReviewAt,
         record \in Reading,
         label \in BuyAt \ {"buy_lookup"} => record.cost \in Prices,
         label = "review_pay" =>
           /\ record.coins + RewardCoins[req[s].quest] <= MaxI32
           /\ record.xp + RewardXp[req[s].quest] <= MaxI32
  PROVE  TypeInv'
<1> USE SettlementAssumption DEF TypeInv, TypeOK, Goto, See
<1>1. RowTypes'
  BY RowsUnchanged
<1>2. SlotTypes'
  BY DEF SlotTypes, BuyAt, UseAt, SubmitAt, ReviewAt
<1>3. RewardFits'
  BY DEF SlotTypes, RewardFits
<1> QED BY <1>1, <1>2, <1>3

\* An inventory row that is absent counts as none.
LEMMA QuantityIsNat ==
  ASSUME TypeInv, NEW h \in Hunters, NEW i \in Items
  PROVE  Quantity(h, i) \in Nat
  BY DEF TypeInv, TypeOK, RowTypes, Quantity

\* Every statement keeps every variable in its type.
LEMMA TypeStep == TypeInv /\ [Next]_vars => TypeInv'
<1> SUFFICES ASSUME TypeInv, [Next]_vars PROVE TypeInv'
  OBVIOUS
<1> USE SettlementAssumption
<1>1. ASSUME NEW s \in Slots, BeginRequest(s) PROVE TypeInv'
  <2> NothingSeen \in Reading
    BY DEF NothingSeen, Reading, I32
  <2>1. ASSUME NEW h \in Hunters, NEW i \in Items, NEW k \in Keys, BeginBuy(s, h, i, k)
        PROVE  TypeInv'
    <3> DEFINE record == [NothingSeen EXCEPT !.cost = items[i].cost]
    <3>1. items[i].cost \in Prices
      BY <2>1 DEF BeginBuy, TypeInv, TypeOK, RowTypes
    <3>2. record \in Reading /\ record.cost \in Prices
      BY <3>1 DEF NothingSeen, Reading, I32
    <3>3. Begin(s, "buy_find", [hunter |-> h, item |-> i, key |-> k], record)
      BY <2>1 DEF BeginBuy
    <3>4. [hunter |-> h, item |-> i, key |-> k] \in BuyRequest
      BY DEF BuyRequest
    <3> HIDE DEF record
    <3> QED BY <3>2, <3>3, <3>4, TypeBegin
  <2>2. ASSUME NEW h \in Hunters, NEW i \in Items, BeginUse(s, h, i) PROVE TypeInv'
    BY <2>2, TypeBegin DEF BeginUse, UseRequest
  <2>3. ASSUME NEW h \in Hunters, NEW q \in Quests, BeginSubmit(s, h, q) PROVE TypeInv'
    BY <2>3, TypeBegin DEF BeginSubmit, SubmitRequest
  <2>4. ASSUME NEW q \in Quests, NEW h \in Hunters, NEW approved \in BOOLEAN,
               BeginReview(s, q, h, approved)
        PROVE  TypeInv'
    <3>1. [quest |-> q, hunter |-> h] \in ReviewRequest
      BY DEF ReviewRequest
    <3>2. (IF approved THEN "review_take_quest" ELSE "review_reject")
            \in {"review_take_quest", "review_reject"}
      OBVIOUS
    <3> QED BY <2>4, <3>1, <3>2, TypeBegin DEF BeginReview
  <2> QED BY <1>1, <2>1, <2>2, <2>3, <2>4 DEF BeginRequest
<1>2. ASSUME NEW s \in Slots, Handle(s) PROVE TypeInv'
  <2> seen[s] \in Reading
    BY DEF TypeInv, TypeOK, SlotTypes
  <2>0. pc[s] \in BuyAt \ {"buy_lookup"} =>
          /\ req[s] \in BuyRequest
          /\ seen[s].cost \in Prices
          /\ seen[s].cost \in Nat
    BY DEF TypeInv, TypeOK, SlotTypes
  <2>1. CASE BuyFind(s)
    <3>1. CASE Answer(s)
      BY <2>1, <3>1, TypeQuietAnswer DEF BuyFind
    <3>2. CASE ~Answer(s)
      <4>1. Goto(s, "buy_lock") /\ UNCHANGED <<req, seen, left>> /\ UNCHANGED dbVars
            /\ pc[s] = "buy_find"
        BY <2>1, <3>2 DEF BuyFind
      <4>2. See(s, seen[s])
        BY <4>1 DEF See, TypeInv, TypeOK, SlotTypes
      <4> QED BY <2>0, <4>1, <4>2, TypeQuietMove DEF BuyAt
    <3> QED BY <3>1, <3>2
  <2>2. CASE BuyRefuse(s)
    BY <2>2, TypeQuietAnswer DEF BuyRefuse
  <2>3. CASE BuyLock(s)
    <3> DEFINE change == hunters[req[s].hunter].coins - seen[s].cost
               record == [seen[s] EXCEPT !.coins = change]
    <3>1. pc[s] = "buy_lock" /\ Goto(s, "buy_upsert") /\ See(s, record)
          /\ UNCHANGED <<req, left>> /\ UNCHANGED dbVars
          /\ change >= 0
      BY <2>3, <2>0, <2>0 DEF BuyLock, BuyAt, BuyRequest, TypeInv, TypeOK, RowTypes, I32
    <3>2. req[s].hunter \in Hunters
      BY <2>0, <3>1 DEF BuyAt, BuyRequest
    <3>3. hunters[req[s].hunter].coins \in I32
      BY <3>2 DEF TypeInv, TypeOK, RowTypes
    <3>4. change \in I32
      BY <2>0, <3>1, <3>3 DEF I32, BuyAt
    <3> HIDE DEF change
    <3>5. record \in Reading /\ record.cost = seen[s].cost
      BY <3>4 DEF Reading
    <3> HIDE DEF record
    <3> QED BY <2>0, <3>1, <3>5, TypeQuietMove DEF BuyAt
  <2>4. CASE BuyUpsert(s)
    <3> DEFINE quantity == Quantity(req[s].hunter, req[s].item) + 1
               record == [seen[s] EXCEPT !.quantity = quantity]
    <3>1. pc[s] = "buy_upsert" /\ Goto(s, "buy_insert") /\ See(s, record)
          /\ UNCHANGED <<req, left>> /\ UNCHANGED dbVars
      BY <2>4 DEF BuyUpsert
    <3>2. quantity \in Nat
      BY <2>0, <3>1, QuantityIsNat DEF BuyAt, BuyRequest
    <3> HIDE DEF quantity
    <3>3. record \in Reading /\ record.cost = seen[s].cost
      BY <3>2 DEF Reading
    <3> HIDE DEF record
    <3> QED BY <2>0, <3>1, <3>3, TypeQuietMove DEF BuyAt
  <2>5. CASE BuyInsert(s)
    <3> DEFINE h == req[s].hunter
               row == [hunter |-> h, key |-> req[s].key, item |-> req[s].item,
                       cost |-> seen[s].cost]
    <3>1. SlotTypes' /\ RewardFits'
      BY <2>5, TypeAnswer DEF BuyInsert, CommitPurchase
    <3>2. pc[s] = "buy_insert"
      BY <2>5 DEF BuyInsert, CommitPurchase
    <3>3. h \in Hunters /\ req[s].item \in Items /\ row \in Purchase
      BY <2>0, <3>2 DEF BuyAt, BuyRequest, Purchase
    <3>4. IsFiniteSet(purchases \cup {row})
      BY FS_AddElement DEF TypeInv, TypeOK, RowTypes
    <3>5. purchases' \in SUBSET Purchase /\ IsFiniteSet(purchases')
      BY <2>5, <3>3, <3>4 DEF BuyInsert, CommitPurchase, TypeInv, TypeOK, RowTypes
    <3>6. hunters' \in [Hunters -> [coins : I32, xp : I32, level : Nat]]
      <4>1. [hunters[h] EXCEPT !.coins = seen[s].coins] \in [coins : I32, xp : I32, level : Nat]
        <5>1. hunters[h] \in [coins : I32, xp : I32, level : Nat]
          BY <3>3 DEF TypeInv, TypeOK, RowTypes
        <5>2. seen[s].coins \in I32
          BY DEF Reading
        <5> QED BY <5>1, <5>2
      <4>2. hunters' = [hunters EXCEPT ![h] = [hunters[h] EXCEPT !.coins = seen[s].coins]]
        BY <2>5 DEF BuyInsert, CommitPurchase
      <4> QED BY <3>3, <4>1, <4>2 DEF TypeInv, TypeOK, RowTypes
    <3>7. ledgerTotal' \in [Hunters -> [coins : Int, xp : Nat]]
      <4> DEFINE total == ledgerTotal[h].coins - seen[s].cost
      <4>1. total \in Int
        BY <2>0, <3>2, <3>3 DEF TypeInv, TypeOK, RowTypes, BuyAt
      <4>2. ledgerTotal' = [ledgerTotal EXCEPT ![h] = [ledgerTotal[h] EXCEPT !.coins = total]]
        BY <2>5 DEF BuyInsert, CommitPurchase
      <4> HIDE DEF total
      <4>3. [ledgerTotal[h] EXCEPT !.coins = total] \in [coins : Int, xp : Nat]
        BY <3>3, <4>1 DEF TypeInv, TypeOK, RowTypes
      <4> QED BY <3>3, <4>2, <4>3 DEF TypeInv, TypeOK, RowTypes
    <3>8. inventory' \in [Hunters \X Items -> Nat \cup {NoRow}]
      BY <2>5, <3>3 DEF BuyInsert, CommitPurchase, TypeInv, TypeOK, RowTypes, Reading
    <3>9. RowTypes'
      BY <2>5, <3>5, <3>6, <3>7, <3>8 DEF BuyInsert, CommitPurchase, TypeInv, TypeOK, RowTypes
    <3> QED BY <3>1, <3>9 DEF TypeInv, TypeOK
  <2>6. CASE BuyDuplicate(s)
    BY <2>6, TypeQuietMove DEF BuyDuplicate, BuyAt, NothingSeen, Reading, I32
  <2>7. CASE BuyLookup(s)
    BY <2>7, TypeQuietAnswer DEF BuyLookup
  <2>8. CASE UseLock(s)
    <3> DEFINE quantity == Quantity(req[s].hunter, req[s].item) - 1
               record == [seen[s] EXCEPT !.quantity = quantity]
    <3>1. CASE Answer(s)
      BY <2>8, <3>1, TypeQuietAnswer DEF UseLock
    <3>2. CASE ~Answer(s)
      <4>1. pc[s] = "use_lock" /\ Goto(s, "use_notice") /\ See(s, record)
            /\ UNCHANGED <<req, left>> /\ UNCHANGED dbVars
            /\ Quantity(req[s].hunter, req[s].item) > 0
        BY <2>8, <3>2 DEF UseLock
      <4>2. req[s] \in UseRequest
        BY <4>1 DEF TypeInv, TypeOK, SlotTypes, UseAt
      <4>3. quantity \in Nat
        BY <4>1, <4>2, QuantityIsNat DEF UseRequest
      <4> HIDE DEF quantity
      <4>4. record \in Reading
        BY <4>3 DEF Reading
      <4> HIDE DEF record
      <4> QED BY <4>1, <4>4, TypeQuietMove DEF UseAt, BuyAt
    <3> QED BY <3>1, <3>2
  <2>9. CASE UseCommit(s)
    <3>1. pc[s] = "use_notice" /\ req[s] \in UseRequest
      BY <2>9 DEF UseCommit, TypeInv, TypeOK, SlotTypes, UseAt
    <3>2. RowTypes'
      BY <2>9, <3>1 DEF UseCommit, TypeInv, TypeOK, RowTypes, Reading, UseRequest
    <3>3. SlotTypes'
      BY <2>9, <3>1 DEF UseCommit, TypeInv, TypeOK, SlotTypes, Goto, See, BuyAt, UseAt,
                        SubmitAt, ReviewAt, NothingSeen, Reading, I32
    <3>4. RewardFits'
      BY <2>9, <3>1 DEF UseCommit, TypeInv, TypeOK, SlotTypes, RewardFits, Goto, See
    <3> QED BY <3>2, <3>3, <3>4 DEF TypeInv, TypeOK
  <2>10. CASE UsePublish(s)
    <3>1. SlotTypes' /\ RewardFits'
      BY <2>10, TypeAnswer DEF UsePublish
    <3>2. req[s] \in UseRequest
      BY <2>10 DEF UsePublish, TypeInv, TypeOK, SlotTypes, UseAt
    <3>3. RowTypes'
      BY <2>10, <3>2 DEF UsePublish, TypeInv, TypeOK, RowTypes, UseRequest
    <3> QED BY <3>1, <3>3 DEF TypeInv, TypeOK
  <2>11. CASE SubmitUpdate(s)
    <3>1. SlotTypes' /\ RewardFits'
      BY <2>11, TypeAnswer DEF SubmitUpdate
    <3>2. RowTypes'
      BY <2>11 DEF SubmitUpdate, TypeInv, TypeOK, RowTypes, QuestStatus
    <3> QED BY <3>1, <3>2 DEF TypeInv, TypeOK
  <2>12. CASE ReviewReject(s)
    <3>1. SlotTypes' /\ RewardFits'
      BY <2>12, TypeAnswer DEF ReviewReject
    <3>2. RowTypes'
      BY <2>12 DEF ReviewReject, TypeInv, TypeOK, RowTypes, QuestStatus
    <3> QED BY <3>1, <3>2 DEF TypeInv, TypeOK
  <2>13. CASE ReviewTakeQuest(s)
    <3>1. See(s, seen[s])
      BY <2>13 DEF ReviewTakeQuest, See, TypeInv, TypeOK, SlotTypes
    <3> QED BY <2>13, <3>1, TypeQuietMove DEF ReviewTakeQuest, ReviewAt, BuyAt
  <2>14. CASE ReviewReadHunter(s)
    <3> DEFINE h == req[s].hunter
               record == [seen[s] EXCEPT !.coins = hunters[h].coins, !.xp = hunters[h].xp]
    <3>1. CASE Answer(s)
      BY <2>14, <3>1, TypeQuietAnswer DEF ReviewReadHunter
    <3>2. CASE ~Answer(s)
      <4>1. pc[s] = "review_read_hunter" /\ Goto(s, "review_pay") /\ See(s, record)
            /\ UNCHANGED <<req, left>> /\ UNCHANGED dbVars
            /\ hunters[h].xp + RewardXp[req[s].quest] <= MaxI32
            /\ hunters[h].coins + RewardCoins[req[s].quest] <= MaxI32
        BY <2>14, <3>2 DEF ReviewReadHunter
      <4>2. h \in Hunters
        BY <4>1 DEF TypeInv, TypeOK, SlotTypes, ReviewAt, ReviewRequest
      <4>3. hunters[h].coins \in I32 /\ hunters[h].xp \in I32
        BY <4>2 DEF TypeInv, TypeOK, RowTypes
      <4>4. record \in Reading /\ record.coins = hunters[h].coins
            /\ record.xp = hunters[h].xp
        BY <4>3 DEF Reading
      <4> HIDE DEF record
      <4> QED BY <4>1, <4>4, TypeQuietMove DEF ReviewAt, BuyAt
    <3> QED BY <3>1, <3>2
  <2>15. CASE ReviewPay(s)
    <3> DEFINE h == req[s].hunter
               q == req[s].quest
               xp == seen[s].xp + RewardXp[q]
               coins == seen[s].coins + RewardCoins[q]
    <3>1. SlotTypes' /\ RewardFits'
      BY <2>15, TypeAnswer DEF ReviewPay
    <3>2. pc[s] = "review_pay" /\ h \in Hunters /\ q \in Quests
      BY <2>15 DEF ReviewPay, TypeInv, TypeOK, SlotTypes, ReviewAt, ReviewRequest
    <3>3. xp \in I32 /\ coins \in I32
      BY <3>2 DEF TypeInv, RewardFits, Reading, I32
    <3>4. LevelOf(xp) \in Nat
      BY <3>3, LevelIsNat DEF I32
    <3>5. [coins |-> coins, xp |-> xp, level |-> LevelOf(xp)]
            \in [coins : I32, xp : I32, level : Nat]
      BY <3>3, <3>4
    <3>6. hunters' \in [Hunters -> [coins : I32, xp : I32, level : Nat]]
      BY <2>15, <3>2, <3>5 DEF ReviewPay, TypeInv, TypeOK, RowTypes
    <3>7. ledgerTotal' \in [Hunters -> [coins : Int, xp : Nat]]
      BY <2>15, <3>2 DEF ReviewPay, TypeInv, TypeOK, RowTypes
    <3>8. quests' \in [Quests -> QuestStatus] /\ cycleDone' \in SUBSET Habits
      BY <2>15, <3>2 DEF ReviewPay, TypeInv, TypeOK, RowTypes, QuestStatus
    <3>9. rewarded' \in [Hunters \X Quests -> Nat] /\ overwritten' \in SUBSET Hunters
      BY <2>15, <3>2 DEF ReviewPay, TypeInv, TypeOK, RowTypes
    <3>10. RowTypes'
      BY <2>15, <3>6, <3>7, <3>8, <3>9 DEF ReviewPay, TypeInv, TypeOK, RowTypes
    <3> QED BY <3>1, <3>10 DEF TypeInv, TypeOK
  <2> QED BY <1>2, <2>1, <2>2, <2>3, <2>4, <2>5, <2>6, <2>7, <2>8, <2>9, <2>10,
             <2>11, <2>12, <2>13, <2>14, <2>15 DEF Handle
<1>3. ASSUME NEW s \in Slots, DeadlockAbort(s) \/ Drop(s) PROVE TypeInv'
  BY <1>3, TypeQuietAnswer DEF DeadlockAbort, Drop
<1>4. CASE Manage
  <2> SUFFICES RowTypes' /\ UNCHANGED <<slotVars, left>>
    BY DEF TypeInv, TypeOK, SlotTypes, RewardFits, slotVars
  <2>1. ASSUME NEW q \in Quests, CreateQuest(q) PROVE RowTypes' /\ UNCHANGED <<slotVars, left>>
    BY <2>1 DEF CreateQuest, TypeInv, TypeOK, RowTypes, QuestStatus
  <2>2. ASSUME NEW i \in Items, NEW row \in [status : ItemStatus, cost : Prices],
               WriteItem(i, row)
        PROVE  RowTypes' /\ UNCHANGED <<slotVars, left>>
    BY <2>2 DEF WriteItem, TypeInv, TypeOK, RowTypes
  <2>3. ASSUME NEW i \in Items
        PROVE  /\ items[i] \in [status : ItemStatus, cost : Prices \cup {0}]
               /\ items[i].status # "absent" => items[i].cost \in Prices
    BY DEF TypeInv, TypeOK, RowTypes
  <2>4. ASSUME NEW i \in Items, NEW c \in Prices, CreateShopItem(i, c)
        PROVE  RowTypes' /\ UNCHANGED <<slotVars, left>>
    <3>1. [status |-> "active", cost |-> c] \in [status : ItemStatus, cost : Prices]
      BY DEF ItemStatus
    <3> QED BY <2>2, <2>4, <3>1 DEF CreateShopItem
  <2>5. ASSUME NEW i \in Items, NEW c \in Prices, UpdateShopItem(i, c)
        PROVE  RowTypes' /\ UNCHANGED <<slotVars, left>>
    <3> DEFINE row == [items[i] EXCEPT !.cost = c]
    <3>1. row \in [status : ItemStatus, cost : Prices]
      BY <2>3
    <3>2. WriteItem(i, row)
      BY <2>5 DEF UpdateShopItem
    <3> HIDE DEF row
    <3> QED BY <2>2, <3>1, <3>2
  <2>6. ASSUME NEW i \in Items, DeactivateShopItem(i)
        PROVE  RowTypes' /\ UNCHANGED <<slotVars, left>>
    <3> DEFINE row == [items[i] EXCEPT !.status = "inactive"]
    <3>1. row \in [status : ItemStatus, cost : Prices]
      BY <2>3, <2>6 DEF DeactivateShopItem, ItemStatus
    <3>2. WriteItem(i, row)
      BY <2>6 DEF DeactivateShopItem
    <3> HIDE DEF row
    <3> QED BY <2>2, <3>1, <3>2
  <2>7. ASSUME NEW h \in Hunters, LeaveGuild(h) PROVE RowTypes' /\ UNCHANGED <<slotVars, left>>
    BY <2>7 DEF LeaveGuild, TypeInv, TypeOK, RowTypes
  <2> QED BY <1>4, <2>1, <2>4, <2>5, <2>6, <2>7 DEF Manage
<1>5. CASE UNCHANGED vars
  BY <1>5 DEF vars, TypeInv, TypeOK, RowTypes, SlotTypes, RewardFits
<1> QED BY <1>1, <1>2, <1>3, <1>4, <1>5 DEF Next

\* Every column and every request in flight keeps its type; in particular the
\* balance and the xp of a hunter stay within the i32 columns and never go negative.
THEOREM TypeCorrect == Spec => []TypeOK
<1>1. TypeInv => TypeOK
  BY DEF TypeInv
<1> QED BY <1>1, TypeInit, TypeStep, PTL DEF Spec

-------------------------------------------------------------------------------
(* Row locks.                                                              *)

\* Only slot s moves.
OnlySlot(s) ==
  \A t \in Slots \ {s} : pc'[t] = pc[t] /\ req'[t] = req[t] /\ seen'[t] = seen[t]

\* A step of slot s that takes a lock only when nobody has it keeps locks exclusive.
LEMMA ExclusiveStep ==
  ASSUME RowLocksExclusive, NEW s \in Slots, OnlySlot(s),
         \A h \in Hunters : HoldsHunter(s, h)' =>
           HoldsHunter(s, h) \/ \A t \in Slots \ {s} : ~HoldsHunter(t, h),
         \A h \in Hunters, i \in Items : HoldsStock(s, h, i)' =>
           HoldsStock(s, h, i) \/ \A t \in Slots \ {s} : ~HoldsStock(t, h, i),
         \A q \in Quests : HoldsQuest(s, q)' =>
           HoldsQuest(s, q) \/ \A t \in Slots \ {s} : ~HoldsQuest(t, q)
  PROVE  RowLocksExclusive'
<1> SUFFICES ASSUME NEW t \in Slots, NEW u \in Slots, t # u
             PROVE  /\ \A h \in Hunters : ~(HoldsHunter(t, h)' /\ HoldsHunter(u, h)')
                    /\ \A h \in Hunters, i \in Items :
                         ~(HoldsStock(t, h, i)' /\ HoldsStock(u, h, i)')
                    /\ \A q \in Quests : ~(HoldsQuest(t, q)' /\ HoldsQuest(u, q)')
  BY DEF RowLocksExclusive
<1>1. \A v \in Slots \ {s} :
        /\ \A h \in Hunters : HoldsHunter(v, h)' <=> HoldsHunter(v, h)
        /\ \A h \in Hunters, i \in Items : HoldsStock(v, h, i)' <=> HoldsStock(v, h, i)
        /\ \A q \in Quests : HoldsQuest(v, q)' <=> HoldsQuest(v, q)
  BY DEF OnlySlot, HoldsHunter, HoldsStock, HoldsQuest
<1>2. CASE t # s /\ u # s
  BY <1>1, <1>2 DEF RowLocksExclusive
<1>3. CASE t = s
  BY <1>1, <1>3 DEF RowLocksExclusive
<1>4. CASE u = s
  BY <1>1, <1>4 DEF RowLocksExclusive
<1> QED BY <1>2, <1>3, <1>4

\* What holds of the other slots' reads goes on holding when a step of s leaves
\* alone the rows they have locked.
LEMMA ReadsStep ==
  ASSUME TypeOK, LockedReadsHold, NEW s \in Slots, OnlySlot(s), ReadsHold(s)',
         \A t \in Slots \ {s}, h \in Hunters :
           HoldsHunter(t, h) => hunters'[h].coins = hunters[h].coins,
         \A t \in Slots \ {s}, h \in Hunters, i \in Items :
           HoldsStock(t, h, i) => Quantity(h, i)' = Quantity(h, i)
  PROVE  LockedReadsHold'
<1> SUFFICES ASSUME NEW t \in Slots \ {s} PROVE ReadsHold(t)'
  BY DEF LockedReadsHold
<1>1. ReadsHold(t) /\ pc'[t] = pc[t] /\ req'[t] = req[t] /\ seen'[t] = seen[t]
  BY DEF LockedReadsHold, OnlySlot
<1>2. pc[t] \in {"buy_upsert", "buy_insert"} =>
        req[t].hunter \in Hunters /\ HoldsHunter(t, req[t].hunter)
  BY DEF HoldsHunter, TypeOK, SlotTypes, BuyAt, BuyRequest
<1>3. pc[t] \in {"buy_insert", "use_notice"} =>
        /\ req[t].hunter \in Hunters /\ req[t].item \in Items
        /\ HoldsStock(t, req[t].hunter, req[t].item)
  BY DEF HoldsStock, TypeOK, SlotTypes, BuyAt, BuyRequest, UseAt, UseRequest
<1>4. pc[t] \in {"buy_upsert", "buy_insert"} =>
        hunters'[req[t].hunter].coins = hunters[req[t].hunter].coins
  BY <1>2
<1>5. pc[t] \in {"buy_insert", "use_notice"} =>
        Quantity(req[t].hunter, req[t].item)' = Quantity(req[t].hunter, req[t].item)
  <2> DEFINE h == req[t].hunter
             i == req[t].item
  <2>1. req'[t].hunter = h /\ req'[t].item = i
    BY <1>1
  <2> HIDE DEF h, i
  <2> QED BY <1>3, <2>1 DEF h, i, Quantity
<1> QED BY <1>1, <1>4, <1>5 DEF ReadsHold

\* A statement of one request moves no other request.
LEMMA SlotMoves ==
  ASSUME TypeOK, NEW s \in Slots,
         BeginRequest(s) \/ Handle(s) \/ DeadlockAbort(s) \/ Drop(s)
  PROVE  OnlySlot(s)
<1> USE DEF TypeOK, SlotTypes, OnlySlot, Goto, See
<1>1. ASSUME Answer(s) PROVE OnlySlot(s)
  BY <1>1 DEF Answer
<1>2. ASSUME NEW label, NEW request, NEW record, Begin(s, label, request, record)
      PROVE  OnlySlot(s)
  BY <1>2 DEF Begin
<1>3. ASSUME NEW label, NEW record, Goto(s, label), See(s, record), UNCHANGED req
      PROVE  OnlySlot(s)
  BY <1>3
<1>4. ASSUME NEW label, Goto(s, label), UNCHANGED <<req, seen>> PROVE OnlySlot(s)
  BY <1>4
<1> USE DEF Answer
<1>5. CASE BeginRequest(s)
  BY <1>2, <1>5 DEF BeginRequest, BeginBuy, BeginUse, BeginSubmit, BeginReview
<1>6. CASE BuyFind(s) \/ ReviewTakeQuest(s)
  BY <1>1, <1>4, <1>6 DEF BuyFind, ReviewTakeQuest
<1>7. CASE BuyRefuse(s) \/ BuyLock(s) \/ BuyUpsert(s) \/ BuyInsert(s) \/ BuyDuplicate(s)
            \/ BuyLookup(s)
  BY <1>1, <1>3, <1>7 DEF BuyRefuse, BuyLock, BuyUpsert, BuyInsert, CommitPurchase, BuyDuplicate, BuyLookup
<1>8. CASE UseLock(s) \/ UseCommit(s) \/ UsePublish(s)
  BY <1>1, <1>3, <1>8 DEF UseLock, UseCommit, UsePublish
<1>9. CASE SubmitUpdate(s) \/ ReviewReject(s) \/ ReviewReadHunter(s) \/ ReviewPay(s)
  BY <1>1, <1>3, <1>9 DEF SubmitUpdate, ReviewReject, ReviewReadHunter, ReviewPay
<1>10. CASE DeadlockAbort(s) \/ Drop(s)
  BY <1>1, <1>10 DEF DeadlockAbort, Drop
<1> QED BY <1>5, <1>6, <1>7, <1>8, <1>9, <1>10 DEF Handle

\* A slot that holds no lock after its step satisfies the hypotheses of
\* ExclusiveStep, and has nothing to keep of its reads unless it is about to pay.
Unlocked(s) ==
  /\ \A h \in Hunters : ~HoldsHunter(s, h)
  /\ \A h \in Hunters, i \in Items : ~HoldsStock(s, h, i)
  /\ \A q \in Quests : ~HoldsQuest(s, q)
  /\ ReadsHold(s)

\* A request that is answered, or not yet at a statement under a lock, holds no lock.
LEMMA AnswerUnlocks ==
  ASSUME TypeOK, NEW s \in Slots,
         \/ Answer(s)
         \/ \E label \in {"buy_find", "buy_lock", "buy_lookup", "use_lock", "use_publish",
                          "submit_update", "review_reject", "review_take_quest"} :
              Goto(s, label)
  PROVE  Unlocked(s)'
<1>1. pc'[s] \in {"idle", "buy_find", "buy_lock", "buy_lookup", "use_lock", "use_publish",
                  "submit_update", "review_reject", "review_take_quest"}
  BY DEF TypeOK, SlotTypes, Answer, Goto
<1> QED BY <1>1 DEF Unlocked, HoldsHunter, HoldsStock, HoldsQuest, ReadsHold

LockInv == RowLocksExclusive /\ LockedReadsHold

\* A step of s that leaves every row alone and ends without a lock.
LEMMA UnlockedStep ==
  ASSUME TypeOK, LockInv, NEW s \in Slots, OnlySlot(s), Unlocked(s)',
         UNCHANGED <<hunters, inventory>>
  PROVE  LockInv'
<1>1. RowLocksExclusive'
  BY ExclusiveStep DEF LockInv, Unlocked
<1>2. LockedReadsHold'
  BY ReadsStep DEF LockInv, Unlocked, Quantity
<1> QED BY <1>1, <1>2 DEF LockInv

\* Initially nothing is locked.
LEMMA LockInit == Init => LockInv
  BY DEF Init, LockInv, RowLocksExclusive, LockedReadsHold, ReadsHold, HoldsHunter, HoldsStock,
         HoldsQuest

\* A statement is granted a row only when nobody holds it, and whoever writes a row
\* that a request has read under a lock is that request.
LEMMA LockStep == TypeOK /\ LockInv /\ [Next]_vars => LockInv'
<1> SUFFICES ASSUME TypeOK, LockInv, [Next]_vars PROVE LockInv'
  OBVIOUS
<1>1. ASSUME NEW s \in Slots, BeginRequest(s) PROVE LockInv'
  <2>1. OnlySlot(s) /\ UNCHANGED <<hunters, inventory>>
    BY <1>1, SlotMoves DEF BeginRequest, BeginBuy, BeginUse, BeginSubmit, BeginReview, Begin,
                           dbVars
  <2>2. Unlocked(s)'
    BY <1>1, AnswerUnlocks DEF BeginRequest, BeginBuy, BeginUse, BeginSubmit, BeginReview, Begin
  <2> QED BY <2>1, <2>2, UnlockedStep
<1>2. ASSUME NEW s \in Slots, Handle(s) PROVE LockInv'
  <2> OnlySlot(s)
    BY <1>2, SlotMoves
  <2>0. /\ pc[s] \in BuyAt => req[s].hunter \in Hunters /\ req[s].item \in Items
        /\ pc[s] \in UseAt => req[s].hunter \in Hunters /\ req[s].item \in Items
        /\ pc[s] \in ReviewAt => req[s].hunter \in Hunters /\ req[s].quest \in Quests
    BY DEF TypeOK, SlotTypes, BuyRequest, UseRequest, ReviewRequest
  <2>1. CASE \/ BuyFind(s) \/ BuyRefuse(s) \/ BuyDuplicate(s) \/ BuyLookup(s)
             \/ UsePublish(s) \/ SubmitUpdate(s) \/ ReviewReject(s)
    <3>1. UNCHANGED <<hunters, inventory>>
      BY <2>1 DEF BuyFind, BuyRefuse, BuyDuplicate, BuyLookup, UsePublish, SubmitUpdate,
                  ReviewReject, dbVars
    <3>2. Unlocked(s)'
      BY <2>1, AnswerUnlocks DEF BuyFind, BuyRefuse, BuyDuplicate, BuyLookup, UsePublish,
                                 SubmitUpdate, ReviewReject
    <3> QED BY <3>1, <3>2, UnlockedStep
  <2>2. CASE BuyLock(s)
    <3> DEFINE h == req[s].hunter
    <3>1. /\ pc[s] = "buy_lock" /\ pc'[s] = "buy_upsert" /\ req'[s] = req[s]
          /\ seen'[s] = [seen[s] EXCEPT !.coins = hunters[h].coins - seen[s].cost]
          /\ UNCHANGED <<hunters, inventory>>
      BY <2>2 DEF BuyLock, Goto, See, dbVars, TypeOK, SlotTypes
    <3>2. \A t \in Slots : ~HoldsHunter(t, h)
      BY <2>2, <3>1 DEF BuyLock, Blocked, WaitsFor
    <3>3. RowLocksExclusive'
      BY <3>1, <3>2, ExclusiveStep DEF LockInv, HoldsHunter, HoldsStock, HoldsQuest
    <3>4. hunters[h].coins = (hunters[h].coins - seen[s].cost) + seen[s].cost
      <4>1. h \in Hunters
        BY <2>0, <3>1 DEF BuyAt
      <4>2. hunters[h].coins \in Int
        BY <4>1, SettlementAssumption DEF TypeOK, RowTypes, I32
      <4>3. seen[s].cost \in Int
        BY <3>1, SettlementAssumption DEF TypeOK, SlotTypes, Reading, BuyAt
      <4> QED BY <4>2, <4>3
    <3>5. seen'[s].coins = hunters[h].coins - seen[s].cost /\ seen'[s].cost = seen[s].cost
      BY <3>1 DEF TypeOK, SlotTypes, Reading
    <3>6. ReadsHold(s)'
      BY <3>1, <3>4, <3>5 DEF ReadsHold
    <3>7. LockedReadsHold'
      BY <3>1, <3>6, ReadsStep DEF LockInv, Quantity
    <3> QED BY <3>3, <3>7 DEF LockInv
  <2>3. CASE BuyUpsert(s)
    <3> DEFINE h == req[s].hunter
               i == req[s].item
    <3>1. /\ pc[s] = "buy_upsert" /\ pc'[s] = "buy_insert" /\ req'[s] = req[s]
          /\ seen'[s] = [seen[s] EXCEPT !.quantity = Quantity(h, i) + 1]
          /\ UNCHANGED <<hunters, inventory>>
      BY <2>3 DEF BuyUpsert, Goto, See, dbVars, TypeOK, SlotTypes
    <3>2. \A t \in Slots : ~HoldsStock(t, h, i)
      BY <2>3, <3>1 DEF BuyUpsert, Blocked, WaitsFor
    <3>3. RowLocksExclusive'
      BY <3>1, <3>2, ExclusiveStep DEF LockInv, HoldsHunter, HoldsStock, HoldsQuest
    <3>4. /\ seen'[s].quantity = Quantity(h, i) + 1
          /\ seen'[s].cost = seen[s].cost /\ seen'[s].coins = seen[s].coins
      BY <3>1 DEF TypeOK, SlotTypes, Reading
    <3>5. Quantity(req[s].hunter, req[s].item)' = Quantity(h, i)
      BY <3>1 DEF Quantity
    <3>6. ReadsHold(s)'
      BY <3>1, <3>4, <3>5 DEF LockInv, LockedReadsHold, ReadsHold
    <3>7. LockedReadsHold'
      BY <3>1, <3>6, ReadsStep DEF LockInv, Quantity
    <3> QED BY <3>3, <3>7 DEF LockInv
  <2>4. CASE BuyInsert(s)
    <3> DEFINE h == req[s].hunter
               i == req[s].item
    <3>1. pc[s] = "buy_insert" /\ Answer(s) /\ h \in Hunters /\ i \in Items
          /\ hunters' = [hunters EXCEPT ![h].coins = seen[s].coins]
          /\ inventory' = [inventory EXCEPT ![<<h, i>>] = seen[s].quantity]
      BY <2>0, <2>4 DEF BuyInsert, CommitPurchase, BuyAt
    <3>2. Unlocked(s)'
      BY <3>1, AnswerUnlocks
    <3>3. RowLocksExclusive'
      BY <3>2, ExclusiveStep DEF LockInv, Unlocked
    <3>4. ASSUME NEW t \in Slots \ {s}, NEW g \in Hunters, HoldsHunter(t, g)
          PROVE  hunters'[g].coins = hunters[g].coins
      <4>1. HoldsHunter(s, h)
        BY <3>1 DEF HoldsHunter
      <4>2. g # h
        BY <3>1, <3>4, <4>1 DEF LockInv, RowLocksExclusive
      <4> QED BY <3>1, <4>2 DEF TypeOK, RowTypes
    <3>5. ASSUME NEW t \in Slots \ {s}, NEW g \in Hunters, NEW j \in Items,
                 HoldsStock(t, g, j)
          PROVE  Quantity(g, j)' = Quantity(g, j)
      <4>1. HoldsStock(s, h, i)
        BY <3>1 DEF HoldsStock
      <4>2. <<g, j>> # <<h, i>>
        BY <3>1, <3>5, <4>1 DEF LockInv, RowLocksExclusive
      <4> QED BY <3>1, <4>2 DEF Quantity, TypeOK, RowTypes
    <3>6. LockedReadsHold'
      BY <3>2, <3>4, <3>5, ReadsStep DEF LockInv, Unlocked
    <3> QED BY <3>3, <3>6 DEF LockInv
  <2>5. CASE UseLock(s)
    <3> DEFINE h == req[s].hunter
               i == req[s].item
    <3>1. UNCHANGED <<hunters, inventory>> /\ pc[s] = "use_lock"
      BY <2>5 DEF UseLock, dbVars
    <3>2. CASE Answer(s)
      BY <3>1, <3>2, AnswerUnlocks, UnlockedStep
    <3>3. CASE ~Answer(s)
      <4>1. /\ pc'[s] = "use_notice" /\ req'[s] = req[s]
            /\ seen'[s] = [seen[s] EXCEPT !.quantity = Quantity(h, i) - 1]
            /\ Quantity(h, i) > 0
        BY <2>5, <3>3 DEF UseLock, Goto, See, TypeOK, SlotTypes
      <4>2. \A t \in Slots : ~HoldsStock(t, h, i)
        BY <2>5, <3>1, <4>1 DEF UseLock, Blocked, WaitsFor, Quantity
      <4>3. RowLocksExclusive'
        BY <3>1, <4>1, <4>2, ExclusiveStep DEF LockInv, HoldsHunter, HoldsStock, HoldsQuest
      <4>4. Quantity(h, i) \in Nat
        BY <2>0, <3>1 DEF UseAt, Quantity, TypeOK, RowTypes
      <4>5. seen'[s].quantity = Quantity(h, i) - 1
        BY <4>1 DEF TypeOK, SlotTypes, Reading
      <4>6. Quantity(req[s].hunter, req[s].item)' = Quantity(h, i)
        BY <3>1, <4>1 DEF Quantity
      <4>7. ReadsHold(s)'
        BY <4>1, <4>4, <4>5, <4>6 DEF ReadsHold
      <4>8. LockedReadsHold'
        BY <3>1, <4>7, ReadsStep DEF LockInv, Quantity
      <4> QED BY <4>3, <4>8 DEF LockInv
    <3> QED BY <3>2, <3>3
  <2>6. CASE UseCommit(s)
    <3> DEFINE h == req[s].hunter
               i == req[s].item
    <3>1. pc[s] = "use_notice" /\ Goto(s, "use_publish") /\ h \in Hunters /\ i \in Items
          /\ hunters' = hunters
          /\ inventory' = [inventory EXCEPT ![<<h, i>>] = seen[s].quantity]
      BY <2>0, <2>6 DEF UseCommit, UseAt
    <3>2. Unlocked(s)'
      BY <3>1, AnswerUnlocks
    <3>3. RowLocksExclusive'
      BY <3>2, ExclusiveStep DEF LockInv, Unlocked
    <3>4. ASSUME NEW t \in Slots \ {s}, NEW g \in Hunters, NEW j \in Items,
                 HoldsStock(t, g, j)
          PROVE  Quantity(g, j)' = Quantity(g, j)
      <4>1. HoldsStock(s, h, i)
        BY <3>1 DEF HoldsStock
      <4>2. <<g, j>> # <<h, i>>
        BY <3>1, <3>4, <4>1 DEF LockInv, RowLocksExclusive
      <4> QED BY <3>1, <4>2 DEF Quantity, TypeOK, RowTypes
    <3>5. LockedReadsHold'
      BY <3>1, <3>2, <3>4, ReadsStep DEF LockInv, Unlocked
    <3> QED BY <3>3, <3>5 DEF LockInv
  <2>7. CASE ReviewTakeQuest(s)
    <3> DEFINE q == req[s].quest
    <3>1. /\ pc[s] = "review_take_quest" /\ pc'[s] = "review_read_hunter" /\ req'[s] = req[s]
          /\ UNCHANGED <<hunters, inventory>>
      BY <2>7 DEF ReviewTakeQuest, Goto, dbVars, TypeOK, SlotTypes
    <3>2. \A t \in Slots : ~HoldsQuest(t, q)
      BY <2>7, <3>1 DEF ReviewTakeQuest, Blocked, WaitsFor
    <3>3. RowLocksExclusive'
      BY <3>1, <3>2, ExclusiveStep DEF LockInv, HoldsHunter, HoldsStock, HoldsQuest
    <3>4. ReadsHold(s)'
      BY <3>1 DEF ReadsHold
    <3>5. LockedReadsHold'
      BY <3>1, <3>4, ReadsStep DEF LockInv, Quantity
    <3> QED BY <3>3, <3>5 DEF LockInv
  <2>8. CASE ReviewReadHunter(s)
    <3> DEFINE h == req[s].hunter
               q == req[s].quest
    <3>1. UNCHANGED <<hunters, inventory>> /\ pc[s] = "review_read_hunter"
      BY <2>8 DEF ReviewReadHunter, dbVars
    <3>2. CASE Answer(s)
      BY <3>1, <3>2, AnswerUnlocks, UnlockedStep
    <3>3. CASE ~Answer(s)
      <4>1. /\ pc'[s] = "review_pay" /\ req'[s] = req[s]
            /\ seen'[s] = [seen[s] EXCEPT !.coins = hunters[h].coins, !.xp = hunters[h].xp]
            /\ hunters[h].xp + RewardXp[q] <= MaxI32
            /\ hunters[h].coins + RewardCoins[q] <= MaxI32
        BY <2>8, <3>3 DEF ReviewReadHunter, Goto, See, TypeOK, SlotTypes
      <4>2. RowLocksExclusive'
        BY <3>1, <4>1, ExclusiveStep DEF LockInv, HoldsHunter, HoldsStock, HoldsQuest
      <4>3. seen'[s].coins = hunters[h].coins /\ seen'[s].xp = hunters[h].xp
        BY <4>1 DEF TypeOK, SlotTypes, Reading
      <4>4. ReadsHold(s)'
        BY <4>1, <4>3 DEF ReadsHold
      <4>5. LockedReadsHold'
        BY <3>1, <4>4, ReadsStep DEF LockInv, Quantity
      <4> QED BY <4>2, <4>5 DEF LockInv
    <3> QED BY <3>2, <3>3
  <2>9. CASE ReviewPay(s)
    <3> DEFINE h == req[s].hunter
    <3>1. pc[s] = "review_pay" /\ Answer(s) /\ inventory' = inventory
      BY <2>9 DEF ReviewPay
    <3>2. \A g \in Hunters \ {h} : hunters'[g] = hunters[g]
      BY <2>9 DEF ReviewPay, TypeOK, RowTypes
    <3>3. \A t \in Slots : ~HoldsHunter(t, h)
      BY <2>9, <3>1 DEF ReviewPay, Blocked, WaitsFor
    <3>4. Unlocked(s)'
      BY <3>1, AnswerUnlocks
    <3>5. RowLocksExclusive'
      BY <3>4, ExclusiveStep DEF LockInv, Unlocked
    <3>6. \A t \in Slots \ {s}, g \in Hunters :
            HoldsHunter(t, g) => hunters'[g].coins = hunters[g].coins
      BY <3>2, <3>3
    <3>7. \A g \in Hunters, j \in Items : Quantity(g, j)' = Quantity(g, j)
      BY <3>1 DEF Quantity
    <3>8. LockedReadsHold'
      BY <3>4, <3>6, <3>7, ReadsStep DEF LockInv, Unlocked
    <3> QED BY <3>5, <3>8 DEF LockInv
  <2> QED BY <1>2, <2>1, <2>2, <2>3, <2>4, <2>5, <2>6, <2>7, <2>8, <2>9 DEF Handle
<1>3. ASSUME NEW s \in Slots, DeadlockAbort(s) \/ Drop(s) PROVE LockInv'
  <2>1. OnlySlot(s) /\ UNCHANGED <<hunters, inventory>> /\ Answer(s)
    BY <1>3, SlotMoves DEF DeadlockAbort, Drop, dbVars
  <2> QED BY <2>1, AnswerUnlocks, UnlockedStep
<1>4. CASE Manage \/ UNCHANGED vars
  <2>1. UNCHANGED <<hunters, inventory, pc, req, seen>>
    BY <1>4 DEF Manage, CreateQuest, CreateShopItem, UpdateShopItem, DeactivateShopItem,
                WriteItem, LeaveGuild, vars, slotVars
  <2> QED BY <2>1 DEF LockInv, RowLocksExclusive, LockedReadsHold, ReadsHold, Quantity,
                      HoldsHunter, HoldsStock, HoldsQuest
<1> QED BY <1>1, <1>2, <1>3, <1>4 DEF Next

\* Two transactions never hold the same row, and what a transaction computed from a
\* row it has locked still holds of that row when it commits.
THEOREM LocksAreSound == Spec => [](RowLocksExclusive /\ LockedReadsHold)
<1>1. TypeInv /\ LockInv => RowLocksExclusive /\ LockedReadsHold
  BY DEF LockInv
<1>2. TypeInv => TypeOK
  BY DEF TypeInv
<1> QED BY <1>1, <1>2, TypeInit, TypeStep, LockInit, LockStep, PTL DEF Spec

-------------------------------------------------------------------------------
(* Money and goods, from the types and the row locks.                      *)

\* The tables that hold coins, goods and their history.
account == <<hunters, inventory, purchases, ledgerTotal, rewarded, messages, overwritten>>

\* Coins, goods and ledger are written by three steps only: the commits of a
\* purchase, of a use and of an approved review.
LEMMA WhoWrites ==
  ASSUME [Next]_vars
  PROVE  \/ UNCHANGED account
         \/ \E s \in Slots : BuyInsert(s) \/ UseCommit(s) \/ ReviewPay(s)
<1> USE DEF account, dbVars
<1>1. ASSUME NEW s \in Slots, BeginRequest(s) PROVE UNCHANGED account
  BY <1>1 DEF BeginRequest, BeginBuy, BeginUse, BeginSubmit, BeginReview, Begin
<1>2. ASSUME NEW s \in Slots, Handle(s), ~BuyInsert(s), ~UseCommit(s), ~ReviewPay(s)
      PROVE  UNCHANGED account
  <2>1. CASE BuyFind(s) \/ BuyRefuse(s) \/ BuyLock(s) \/ BuyUpsert(s)
    BY <2>1 DEF BuyFind, BuyRefuse, BuyLock, BuyUpsert
  <2>2. CASE BuyDuplicate(s) \/ BuyLookup(s) \/ UseLock(s) \/ UsePublish(s)
    BY <2>2 DEF BuyDuplicate, BuyLookup, UseLock, UsePublish
  <2>3. CASE SubmitUpdate(s) \/ ReviewReject(s) \/ ReviewTakeQuest(s) \/ ReviewReadHunter(s)
    BY <2>3 DEF SubmitUpdate, ReviewReject, ReviewTakeQuest, ReviewReadHunter
  <2> QED BY <1>2, <2>1, <2>2, <2>3 DEF Handle
<1>3. ASSUME NEW s \in Slots, DeadlockAbort(s) \/ Drop(s) PROVE UNCHANGED account
  BY <1>3 DEF DeadlockAbort, Drop
<1>4. CASE Manage \/ UNCHANGED vars
  BY <1>4 DEF Manage, CreateQuest, CreateShopItem, UpdateShopItem, DeactivateShopItem,
              WriteItem, LeaveGuild, vars
<1> QED BY <1>1, <1>2, <1>3, <1>4 DEF Next

\* What the commit of a purchase writes, in terms of the rows it found.
LEMMA PurchaseCommits ==
  ASSUME TypeOK, LockInv, NEW s \in Slots, BuyInsert(s)
  PROVE  LET h == req[s].hunter
             i == req[s].item
             k == req[s].key
             c == seen[s].cost
         IN
         /\ h \in Hunters /\ i \in Items /\ k \in Keys /\ c \in Prices
         /\ hunters[h].coins >= c
         /\ hunters'[h].coins = hunters[h].coins - c
         /\ hunters'[h].xp = hunters[h].xp /\ hunters'[h].level = hunters[h].level
         /\ \A g \in Hunters \ {h} : hunters'[g] = hunters[g]
         /\ inventory' = [inventory EXCEPT ![<<h, i>>] = Quantity(h, i) + 1]
         /\ purchases' = purchases \cup
              {[hunter |-> h, key |-> k, item |-> i, cost |-> c]}
         /\ \A p \in purchases : ~(p.hunter = h /\ p.key = k)
         /\ ledgerTotal' = [ledgerTotal EXCEPT ![h].coins = @ - c]
         /\ UNCHANGED <<rewarded, messages, overwritten, quests, cycleDone>>
<1> DEFINE h == req[s].hunter
           i == req[s].item
           k == req[s].key
           c == seen[s].cost
<1>1. /\ req[s] \in BuyRequest /\ c \in Prices /\ pc[s] = "buy_insert"
      /\ seen[s] \in Reading
  BY DEF BuyInsert, TypeOK, SlotTypes, BuyAt
<1>2. h \in Hunters /\ i \in Items /\ k \in Keys
  BY <1>1 DEF BuyRequest
<1>3. hunters[h].coins = seen[s].coins + c /\ seen[s].quantity = Quantity(h, i) + 1
  BY <1>1 DEF LockInv, LockedReadsHold, ReadsHold
<1>4. c \in Nat /\ seen[s].coins \in Nat
  <2>1. seen[s].coins \in I32
    BY <1>1 DEF Reading
  <2>2. MaxI32 \in Nat /\ Prices \subseteq Nat
    BY SettlementAssumption
  <2>3. c \in Nat
    BY <1>1, <2>2
  <2>4. seen[s].coins \in Nat
    BY <2>1, <2>2 DEF I32
  <2> QED BY <2>3, <2>4
<1>5. hunters[h].coins >= c /\ seen[s].coins = hunters[h].coins - c
  BY <1>3, <1>4
<1>6. hunters' = [hunters EXCEPT ![h].coins = seen[s].coins]
  BY DEF BuyInsert, CommitPurchase
<1>7. hunters \in [Hunters -> [coins : I32, xp : I32, level : Nat]]
  BY DEF TypeOK, RowTypes
<1>8. hunters'[h] = [hunters[h] EXCEPT !.coins = seen[s].coins]
  BY <1>2, <1>6, <1>7
<1>9. /\ hunters'[h].coins = seen[s].coins
      /\ hunters'[h].xp = hunters[h].xp /\ hunters'[h].level = hunters[h].level
  BY <1>2, <1>7, <1>8
<1>10. \A g \in Hunters \ {h} : hunters'[g] = hunters[g]
  BY <1>6, <1>7
<1>11. \A p \in purchases : ~(p.hunter = h /\ p.key = k)
  BY DEF BuyInsert, PurchasedWith
<1>12. /\ inventory' = [inventory EXCEPT ![<<h, i>>] = Quantity(h, i) + 1]
       /\ purchases' = purchases \cup {[hunter |-> h, key |-> k, item |-> i, cost |-> c]}
       /\ ledgerTotal' = [ledgerTotal EXCEPT ![h].coins = @ - c]
       /\ UNCHANGED <<rewarded, messages, overwritten, quests, cycleDone>>
  BY <1>3 DEF BuyInsert, CommitPurchase
<1> QED BY <1>1, <1>2, <1>5, <1>9, <1>10, <1>11, <1>12

\* What the commit of a use writes.
LEMMA UseCommits ==
  ASSUME TypeOK, LockInv, NEW s \in Slots, UseCommit(s)
  PROVE  LET h == req[s].hunter
             i == req[s].item
         IN
         /\ h \in Hunters /\ i \in Items
         /\ Quantity(h, i) > 0
         /\ inventory' = [inventory EXCEPT ![<<h, i>>] = Quantity(h, i) - 1]
         /\ messages' = [messages EXCEPT ![<<h, i>>] = @ + 1]
         /\ UNCHANGED <<hunters, purchases, ledgerTotal, rewarded, overwritten, quests,
                        cycleDone>>
<1> DEFINE h == req[s].hunter
           i == req[s].item
<1>1. req[s] \in UseRequest /\ seen[s] \in Reading /\ pc[s] = "use_notice"
  BY DEF UseCommit, TypeOK, SlotTypes, UseAt
<1>2. h \in Hunters /\ i \in Items
  BY <1>1 DEF UseRequest
<1>3. seen[s].quantity + 1 = Quantity(h, i)
  BY <1>1 DEF LockInv, LockedReadsHold, ReadsHold
<1>4. seen[s].quantity \in Nat
  BY <1>1 DEF Reading
<1>5. Quantity(h, i) > 0 /\ seen[s].quantity = Quantity(h, i) - 1
  BY <1>3, <1>4
<1> QED BY <1>2, <1>5 DEF UseCommit

\* What the commit of an approved review writes.
LEMMA RewardCommits ==
  ASSUME TypeOK, NEW s \in Slots, ReviewPay(s)
  PROVE  LET h == req[s].hunter
             q == req[s].quest
         IN
         /\ h \in Hunters /\ q \in Quests
         /\ hunters' = [hunters EXCEPT ![h] =
              [coins |-> seen[s].coins + RewardCoins[q], xp |-> seen[s].xp + RewardXp[q],
               level |-> LevelOf(seen[s].xp + RewardXp[q])]]
         /\ quests' = [quests EXCEPT ![q] =
              IF q \in Habits THEN "available" ELSE "completed"]
         /\ cycleDone' = IF q \in Habits THEN cycleDone \cup {q} ELSE cycleDone
         /\ ledgerTotal' = [ledgerTotal EXCEPT ![h].coins = @ + RewardCoins[q],
                                               ![h].xp = @ + RewardXp[q]]
         /\ rewarded' = [rewarded EXCEPT ![<<h, q>>] = @ + 1]
         /\ overwritten' = IF hunters[h].coins = seen[s].coins /\ hunters[h].xp = seen[s].xp
                             THEN overwritten ELSE overwritten \cup {h}
         /\ UNCHANGED <<inventory, purchases, messages>>
<1> DEFINE h == req[s].hunter
           q == req[s].quest
<1>1. h \in Hunters /\ q \in Quests
  BY DEF ReviewPay, TypeOK, SlotTypes, ReviewAt, ReviewRequest
<1> QED BY <1>1 DEF ReviewPay

SafeInv == TypeInv /\ LockInv

\* Initially every slot is idle: nothing is locked and nothing has been read.
LEMMA SafeInit == Init => SafeInv
  BY TypeInit, LockInit DEF SafeInv

\* Every statement keeps the types, the row locks and what was read under them.
LEMMA SafeStep == SafeInv /\ [Next]_vars => SafeInv'
  BY TypeStep, LockStep DEF SafeInv, TypeInv

\* The types, the row locks and the locked reads hold in every reachable state.
LEMMA SafeAlways == Spec => []SafeInv
  BY SafeInit, SafeStep, PTL DEF Spec

-------------------------------------------------------------------------------
(* Replays.                                                                *)

\* A purchase that lost the race for its key finds the row it lost to: rows of the
\* ledger are never taken back while it rolls back.
LEMMA ReplayStep == SafeInv /\ ReplayRecordPresent /\ [Next]_vars => ReplayRecordPresent'
<1> SUFFICES ASSUME SafeInv, ReplayRecordPresent, [Next]_vars,
                    NEW s \in Slots, pc'[s] = "buy_lookup"
             PROVE  PurchasedWith(req[s].hunter, req[s].key)' # {}
  BY DEF ReplayRecordPresent
<1> USE DEF SafeInv, TypeInv
<1>1. purchases \subseteq purchases'
  BY WhoWrites, PurchaseCommits, UseCommits, RewardCommits DEF account
<1>2. CASE pc[s] = "buy_lookup" /\ req'[s] = req[s]
  BY <1>1, <1>2 DEF ReplayRecordPresent, PurchasedWith
<1>3. CASE ~(pc[s] = "buy_lookup" /\ req'[s] = req[s])
  <2> USE DEF TypeOK, SlotTypes, Goto, Answer
  <2>1. \A t \in Slots : ~BeginRequest(t)
    BY <1>3 DEF BeginRequest, BeginBuy, BeginUse, BeginSubmit, BeginReview, Begin
  <2>2. ~(Manage \/ UNCHANGED vars)
    BY <1>3 DEF Manage, CreateQuest, CreateShopItem, UpdateShopItem, DeactivateShopItem,
                WriteItem, LeaveGuild, vars, slotVars
  <2>3. \A t \in Slots : ~(DeadlockAbort(t) \/ Drop(t))
    BY <1>3 DEF DeadlockAbort, Drop
  <2>4. PICK t \in Slots : Handle(t)
    BY <2>1, <2>2, <2>3 DEF Next
  <2>5. BuyDuplicate(t) /\ t = s
    <3>1. CASE \/ BuyFind(t) \/ BuyRefuse(t) \/ BuyLock(t) \/ BuyUpsert(t) \/ BuyInsert(t)
               \/ BuyLookup(t)
      BY <1>3, <3>1 DEF BuyFind, BuyRefuse, BuyLock, BuyUpsert, BuyInsert, CommitPurchase,
                        BuyLookup
    <3>2. CASE UseLock(t) \/ UseCommit(t) \/ UsePublish(t) \/ SubmitUpdate(t)
      BY <1>3, <3>2 DEF UseLock, UseCommit, UsePublish, SubmitUpdate
    <3>3. CASE ReviewReject(t) \/ ReviewTakeQuest(t) \/ ReviewReadHunter(t) \/ ReviewPay(t)
      BY <1>3, <3>3 DEF ReviewReject, ReviewTakeQuest, ReviewReadHunter, ReviewPay
    <3>4. CASE BuyDuplicate(t)
      BY <1>3, <3>4 DEF BuyDuplicate
    <3> QED BY <2>4, <3>1, <3>2, <3>3, <3>4 DEF Handle
  <2> QED BY <1>1, <2>5 DEF BuyDuplicate, PurchasedWith
<1> QED BY <1>2, <1>3

\* "idempotency replay record is missing" is never answered.
THEOREM ReplayFindsRecord == Spec => []ReplayRecordPresent
<1>1. Init => ReplayRecordPresent
  BY DEF Init, ReplayRecordPresent
<1> QED BY <1>1, ReplayStep, SafeAlways, PTL DEF Spec

-------------------------------------------------------------------------------
(* Goods.                                                                  *)

BoughtOf(h, i) == {p \in purchases : p.hunter = h /\ p.item = i}

\* Initially nobody owns, has bought or has used anything.
LEMMA InventoryInit == Init => InventoryBalanced
<1> SUFFICES ASSUME Init, NEW h \in Hunters, NEW i \in Items
             PROVE  Quantity(h, i) + messages[<<h, i>>] = Cardinality(BoughtOf(h, i))
  BY DEF InventoryBalanced, BoughtOf
<1>1. Quantity(h, i) = 0 /\ messages[<<h, i>>] = 0 /\ BoughtOf(h, i) = {}
  BY DEF Init, Quantity, BoughtOf
<1> QED BY <1>1, FS_EmptySet

\* A purchase adds one row of purchases and one unit; a use takes a unit and adds a
\* message; no other step writes these tables.
LEMMA InventoryStep == SafeInv /\ InventoryBalanced /\ [Next]_vars => InventoryBalanced'
<1> SUFFICES ASSUME SafeInv, InventoryBalanced, [Next]_vars,
                    NEW g \in Hunters, NEW j \in Items
             PROVE  Quantity(g, j)' + messages'[<<g, j>>] = Cardinality(BoughtOf(g, j)')
  BY DEF InventoryBalanced, BoughtOf
<1> USE DEF SafeInv, TypeInv
<1>1. Quantity(g, j) + messages[<<g, j>>] = Cardinality(BoughtOf(g, j))
  BY DEF InventoryBalanced, BoughtOf
<1>2. /\ inventory \in [Hunters \X Items -> Nat \cup {NoRow}]
      /\ messages \in [Hunters \X Items -> Nat]
      /\ Quantity(g, j) \in Nat
  BY DEF TypeOK, RowTypes, Quantity
<1>3. CASE UNCHANGED <<inventory, purchases, messages>>
  BY <1>1, <1>3 DEF Quantity, BoughtOf
<1>4. ASSUME NEW s \in Slots, BuyInsert(s)
      PROVE  Quantity(g, j)' + messages'[<<g, j>>] = Cardinality(BoughtOf(g, j)')
  <2> DEFINE h == req[s].hunter
             i == req[s].item
             row == [hunter |-> h, key |-> req[s].key, item |-> i, cost |-> seen[s].cost]
  <2>1. /\ h \in Hunters /\ i \in Items
        /\ inventory' = [inventory EXCEPT ![<<h, i>>] = Quantity(h, i) + 1]
        /\ purchases' = purchases \cup {row} /\ messages' = messages
        /\ \A p \in purchases : ~(p.hunter = h /\ p.key = row.key)
    BY <1>4, PurchaseCommits
  <2>2. row.hunter = h /\ row.item = i /\ row \notin purchases
    BY <2>1
  <2> HIDE DEF row
  <2>3. CASE <<g, j>> = <<h, i>>
    <3>1. Quantity(g, j)' = Quantity(g, j) + 1
      BY <1>2, <2>1, <2>3, SettlementAssumption DEF Quantity
    <3>2. BoughtOf(g, j)' = BoughtOf(g, j) \cup {row} /\ row \notin BoughtOf(g, j)
      BY <2>1, <2>2, <2>3 DEF BoughtOf
    <3>3. IsFiniteSet(BoughtOf(g, j))
      BY FS_Subset DEF BoughtOf, TypeOK, RowTypes
    <3>4. Cardinality(BoughtOf(g, j)') = Cardinality(BoughtOf(g, j)) + 1
      BY <3>2, <3>3, FS_AddElement
    <3> QED BY <1>1, <1>2, <2>1, <3>1, <3>4
  <2>4. CASE <<g, j>> # <<h, i>>
    <3>1. Quantity(g, j)' = Quantity(g, j)
      BY <1>2, <2>1, <2>4 DEF Quantity
    <3>2. BoughtOf(g, j)' = BoughtOf(g, j)
      BY <2>1, <2>2, <2>4 DEF BoughtOf
    <3> QED BY <1>1, <2>1, <3>1, <3>2
  <2> QED BY <2>3, <2>4
<1>5. ASSUME NEW s \in Slots, UseCommit(s)
      PROVE  Quantity(g, j)' + messages'[<<g, j>>] = Cardinality(BoughtOf(g, j)')
  <2> DEFINE h == req[s].hunter
             i == req[s].item
  <2>1. /\ h \in Hunters /\ i \in Items /\ Quantity(h, i) > 0
        /\ inventory' = [inventory EXCEPT ![<<h, i>>] = Quantity(h, i) - 1]
        /\ messages' = [messages EXCEPT ![<<h, i>>] = @ + 1]
        /\ purchases' = purchases
    BY <1>5, UseCommits
  <2>2. BoughtOf(g, j)' = BoughtOf(g, j)
    BY <2>1 DEF BoughtOf
  <2>3. CASE <<g, j>> = <<h, i>>
    <3>1. Quantity(g, j) - 1 \in Nat /\ inventory'[<<g, j>>] = Quantity(g, j) - 1
      BY <1>2, <2>1, <2>3
    <3>2. Quantity(g, j)' = Quantity(g, j) - 1
      BY <3>1, SettlementAssumption DEF Quantity
    <3>3. messages'[<<g, j>>] = messages[<<g, j>>] + 1
      BY <1>2, <2>1, <2>3
    <3>4. messages[<<g, j>>] \in Nat
      BY <1>2
    <3> QED BY <1>1, <1>2, <2>2, <3>2, <3>3, <3>4
  <2>4. CASE <<g, j>> # <<h, i>>
    <3>1. Quantity(g, j)' = Quantity(g, j) /\ messages'[<<g, j>>] = messages[<<g, j>>]
      BY <1>2, <2>1, <2>4 DEF Quantity
    <3> QED BY <1>1, <2>2, <3>1
  <2> QED BY <2>3, <2>4
<1>6. ASSUME NEW s \in Slots, ReviewPay(s) PROVE UNCHANGED <<inventory, purchases, messages>>
  BY <1>6, RewardCommits
<1> QED BY <1>3, <1>4, <1>5, <1>6, WhoWrites DEF account

\* Everything bought is in the inventory or was used and announced.
THEOREM InventoryAddsUp == Spec => []InventoryBalanced
  BY InventoryInit, InventoryStep, SafeAlways, PTL DEF Spec

-------------------------------------------------------------------------------
(* Balances.                                                               *)

\* A purchase takes its price from the balance and from the ledger; a review adds its
\* reward to both, unless it writes from a stale read, which overwritten records.
LEMMA LedgerStep == SafeInv /\ LedgerBalanced /\ [Next]_vars => LedgerBalanced'
<1> SUFFICES ASSUME SafeInv, LedgerBalanced, [Next]_vars,
                    NEW g \in Hunters \ overwritten'
             PROVE  /\ hunters'[g].coins = ledgerTotal'[g].coins
                    /\ hunters'[g].xp = ledgerTotal'[g].xp
  BY DEF LedgerBalanced
<1> USE DEF SafeInv, TypeInv
<1>1. /\ hunters \in [Hunters -> [coins : I32, xp : I32, level : Nat]]
      /\ ledgerTotal \in [Hunters -> [coins : Int, xp : Nat]]
  BY DEF TypeOK, RowTypes
<1>2. g \notin overwritten =>
        hunters[g].coins = ledgerTotal[g].coins /\ hunters[g].xp = ledgerTotal[g].xp
  BY DEF LedgerBalanced
<1>3. CASE UNCHANGED <<hunters, ledgerTotal, overwritten>>
  BY <1>2, <1>3
<1>4. ASSUME NEW s \in Slots, BuyInsert(s)
      PROVE  hunters'[g].coins = ledgerTotal'[g].coins /\ hunters'[g].xp = ledgerTotal'[g].xp
  <2> DEFINE h == req[s].hunter
             c == seen[s].cost
  <2>1. /\ h \in Hunters
        /\ hunters'[h].coins = hunters[h].coins - c /\ hunters'[h].xp = hunters[h].xp
        /\ g # h => hunters'[g] = hunters[g]
        /\ ledgerTotal' = [ledgerTotal EXCEPT ![h].coins = @ - c]
        /\ overwritten' = overwritten
    BY <1>4, PurchaseCommits
  <2> HIDE DEF h, c
  <2>2. /\ ledgerTotal'[h].coins = ledgerTotal[h].coins - c
        /\ ledgerTotal'[h].xp = ledgerTotal[h].xp
        /\ g # h => ledgerTotal'[g] = ledgerTotal[g]
    BY <1>1, <2>1
  <2> QED BY <1>2, <2>1, <2>2
<1>5. ASSUME NEW s \in Slots, ReviewPay(s)
      PROVE  hunters'[g].coins = ledgerTotal'[g].coins /\ hunters'[g].xp = ledgerTotal'[g].xp
  <2> DEFINE h == req[s].hunter
             q == req[s].quest
             row == [coins |-> seen[s].coins + RewardCoins[q],
                     xp |-> seen[s].xp + RewardXp[q],
                     level |-> LevelOf(seen[s].xp + RewardXp[q])]
  <2>1. /\ h \in Hunters /\ q \in Quests
        /\ hunters' = [hunters EXCEPT ![h] = row]
        /\ ledgerTotal' = [ledgerTotal EXCEPT ![h].coins = @ + RewardCoins[q],
                                              ![h].xp = @ + RewardXp[q]]
        /\ overwritten' = IF hunters[h].coins = seen[s].coins /\ hunters[h].xp = seen[s].xp
                            THEN overwritten ELSE overwritten \cup {h}
    BY <1>5, RewardCommits
  <2>2. row.coins = seen[s].coins + RewardCoins[q] /\ row.xp = seen[s].xp + RewardXp[q]
    OBVIOUS
  <2> HIDE DEF h, q, row
  <2>3. hunters'[h] = row /\ (g # h => hunters'[g] = hunters[g])
    BY <1>1, <2>1
  <2>4. /\ ledgerTotal'[h].coins = ledgerTotal[h].coins + RewardCoins[q]
        /\ ledgerTotal'[h].xp = ledgerTotal[h].xp + RewardXp[q]
        /\ g # h => ledgerTotal'[g] = ledgerTotal[g]
    BY <1>1, <2>1
  <2>5. g = h => hunters[h].coins = seen[s].coins /\ hunters[h].xp = seen[s].xp
    BY <2>1
  <2>6. g \notin overwritten
    BY <2>1
  <2>7. CASE g = h
    BY <1>2, <2>2, <2>3, <2>4, <2>5, <2>6, <2>7
  <2>8. CASE g # h
    BY <1>2, <2>3, <2>4, <2>6, <2>8
  <2> QED BY <2>7, <2>8
<1>6. ASSUME NEW s \in Slots, UseCommit(s)
      PROVE  UNCHANGED <<hunters, ledgerTotal, overwritten>>
  BY <1>6, UseCommits
<1> QED BY <1>3, <1>4, <1>5, <1>6, WhoWrites DEF account

\* A balance leaves the ledger only after a review that wrote over a commit it
\* had not seen.
THEOREM LedgerExplainsBalance == Spec => []LedgerBalanced
<1>1. Init => LedgerBalanced
  BY DEF Init, LedgerBalanced
<1> QED BY <1>1, LedgerStep, SafeAlways, PTL DEF Spec

\* The formula of LedgerExplainsCoins for one step.
Explained ==
  /\ purchases \subseteq purchases'
  /\ \A x \in Hunters \X Quests : rewarded'[x] >= rewarded[x]
  /\ \A h \in Hunters : hunters'[h] # hunters[h] =>
       \/ \E p \in purchases' \ purchases : p.hunter = h
       \/ \E q \in Quests : rewarded'[<<h, q>>] > rewarded[<<h, q>>]

\* A balance that moves was moved by a purchase or a reward whose ledger row is new.
LEMMA StepIsExplained ==
  ASSUME SafeInv, [Next]_vars
  PROVE  Explained
<1> USE DEF Explained
<1> USE DEF SafeInv, TypeInv
<1>1. rewarded \in [Hunters \X Quests -> Nat]
  BY DEF TypeOK, RowTypes
<1>2. CASE UNCHANGED <<hunters, purchases, rewarded>>
  BY <1>1, <1>2
<1>3. ASSUME NEW s \in Slots, BuyInsert(s) PROVE Explained
  <2> DEFINE h == req[s].hunter
             row == [hunter |-> h, key |-> req[s].key, item |-> req[s].item,
                     cost |-> seen[s].cost]
  <2>1. /\ purchases' = purchases \cup {row} /\ rewarded' = rewarded
        /\ \A g \in Hunters \ {h} : hunters'[g] = hunters[g]
        /\ \A p \in purchases : ~(p.hunter = h /\ p.key = req[s].key)
    BY <1>3, PurchaseCommits
  <2>2. row.hunter = h /\ row \notin purchases
    BY <2>1
  <2> HIDE DEF row, h
  <2> QED BY <1>1, <2>1, <2>2
<1>4. ASSUME NEW s \in Slots, ReviewPay(s) PROVE Explained
  <2> DEFINE h == req[s].hunter
             q == req[s].quest
  <2>1. /\ h \in Hunters /\ q \in Quests /\ purchases' = purchases
        /\ rewarded' = [rewarded EXCEPT ![<<h, q>>] = @ + 1]
    BY <1>4, RewardCommits
  <2>2. \A g \in Hunters \ {h} : hunters'[g] = hunters[g]
    <3> DEFINE row == [coins |-> seen[s].coins + RewardCoins[q],
                       xp |-> seen[s].xp + RewardXp[q],
                       level |-> LevelOf(seen[s].xp + RewardXp[q])]
    <3>1. hunters' = [hunters EXCEPT ![h] = row]
      BY <1>4, RewardCommits
    <3> HIDE DEF row, h
    <3> QED BY <3>1 DEF TypeOK, RowTypes
  <2> HIDE DEF h, q
  <2>3. rewarded'[<<h, q>>] > rewarded[<<h, q>>]
    BY <1>1, <2>1
  <2>4. \A x \in Hunters \X Quests : rewarded'[x] >= rewarded[x]
    BY <1>1, <2>1
  <2> QED BY <2>1, <2>2, <2>3, <2>4
<1> QED BY <1>2, <1>3, <1>4, UseCommits, WhoWrites DEF account

\* Reward rows are never deleted.
LEMMA RewardsOnlyAdded ==
  ASSUME SafeInv, [Next]_vars, NEW h \in Hunters, NEW q \in Quests
  PROVE  rewarded'[<<h, q>>] >= rewarded[<<h, q>>]
  BY StepIsExplained DEF Explained

\* Ledger rows are only added, and a hunter's row moves only together with a new
\* ledger row of that hunter.
THEOREM CoinsHaveLedgerRows == Spec => LedgerExplainsCoins
<1>1. SafeInv /\ [Next]_vars => Explained
  BY StepIsExplained
<1> QED BY <1>1, SafeAlways, PTL DEF Spec, LedgerExplainsCoins, Explained

-------------------------------------------------------------------------------
(* Quests.                                                                 *)

\* A quest becomes completed, or done for the cycle, only when a review of it is
\* paid.
LEMMA WhoCompletes ==
  ASSUME TypeOK, [Next]_vars, NEW q \in Quests,
         ~\E s \in Slots : ReviewPay(s) /\ req[s].quest = q
  PROVE  /\ quests'[q] = "completed" => quests[q] = "completed"
         /\ q \in cycleDone' => q \in cycleDone
<1> USE DEF TypeOK, RowTypes, SlotTypes, dbVars
<1>1. ASSUME NEW s \in Slots, BeginRequest(s) PROVE UNCHANGED <<quests, cycleDone>>
  BY <1>1 DEF BeginRequest, BeginBuy, BeginUse, BeginSubmit, BeginReview, Begin
<1>2. ASSUME NEW s \in Slots, \/ BuyFind(s) \/ BuyRefuse(s) \/ BuyLock(s) \/ BuyUpsert(s)
                              \/ BuyInsert(s) \/ BuyDuplicate(s) \/ BuyLookup(s)
      PROVE  UNCHANGED <<quests, cycleDone>>
  BY <1>2 DEF BuyFind, BuyRefuse, BuyLock, BuyUpsert, BuyInsert, CommitPurchase, BuyDuplicate,
              BuyLookup
<1>3. ASSUME NEW s \in Slots, \/ UseLock(s) \/ UseCommit(s) \/ UsePublish(s)
                              \/ ReviewTakeQuest(s) \/ ReviewReadHunter(s)
                              \/ DeadlockAbort(s) \/ Drop(s)
      PROVE  UNCHANGED <<quests, cycleDone>>
  BY <1>3 DEF UseLock, UseCommit, UsePublish, ReviewTakeQuest, ReviewReadHunter, DeadlockAbort,
              Drop
<1>4. ASSUME NEW s \in Slots, SubmitUpdate(s) \/ ReviewReject(s)
      PROVE  /\ quests'[q] = "completed" => quests[q] = "completed"
             /\ q \in cycleDone' => q \in cycleDone
  BY <1>4 DEF SubmitUpdate, ReviewReject
<1>5. ASSUME NEW s \in Slots, ReviewPay(s)
      PROVE  /\ quests'[q] = "completed" => quests[q] = "completed"
             /\ q \in cycleDone' => q \in cycleDone
  <2> DEFINE r == req[s].quest
  <2>1. /\ r # q
        /\ quests' = [quests EXCEPT ![r] = IF r \in Habits THEN "available" ELSE "completed"]
        /\ cycleDone' = IF r \in Habits THEN cycleDone \cup {r} ELSE cycleDone
    BY <1>5, RewardCommits
  <2> QED BY <2>1
<1>6. CASE Manage \/ UNCHANGED vars
  BY <1>6 DEF Manage, CreateQuest, CreateShopItem, UpdateShopItem, DeactivateShopItem,
              WriteItem, LeaveGuild, vars
<1> QED BY <1>1, <1>2, <1>3, <1>4, <1>5, <1>6 DEF Next, Handle

\* A quest becomes completed only in the commit that pays it.
LEMMA CompletionStep == SafeInv /\ CompletionIsPaid /\ [Next]_vars => CompletionIsPaid'
<1> SUFFICES ASSUME SafeInv, CompletionIsPaid, [Next]_vars, NEW q \in Quests,
                    quests'[q] = "completed" \/ q \in cycleDone'
             PROVE  \E h \in Hunters : rewarded'[<<h, q>>] > 0
  BY DEF CompletionIsPaid
<1> USE DEF SafeInv, TypeInv
<1>1. rewarded \in [Hunters \X Quests -> Nat]
  BY DEF TypeOK, RowTypes
<1>2. CASE \E s \in Slots : ReviewPay(s) /\ req[s].quest = q
  <2>1. PICK s \in Slots : ReviewPay(s) /\ req[s].quest = q
    BY <1>2
  <2> DEFINE h == req[s].hunter
  <2>2. h \in Hunters /\ rewarded' = [rewarded EXCEPT ![<<h, q>>] = @ + 1]
    BY <2>1, RewardCommits
  <2> HIDE DEF h
  <2>3. rewarded'[<<h, q>>] = rewarded[<<h, q>>] + 1 /\ rewarded[<<h, q>>] \in Nat
    BY <1>1, <2>2
  <2>4. rewarded'[<<h, q>>] > 0
    BY <2>3
  <2> QED BY <2>2, <2>4
<1>3. CASE ~\E s \in Slots : ReviewPay(s) /\ req[s].quest = q
  <2>1. PICK h \in Hunters : rewarded[<<h, q>>] > 0
    BY <1>3, WhoCompletes DEF CompletionIsPaid
  <2>2. rewarded'[<<h, q>>] >= rewarded[<<h, q>>]
    BY RewardsOnlyAdded
  <2>3. rewarded[<<h, q>>] \in Nat /\ rewarded'[<<h, q>>] \in Int
    BY <1>1, SafeStep DEF TypeOK, RowTypes
  <2>4. rewarded'[<<h, q>>] > 0
    BY <2>1, <2>2, <2>3
  <2> QED BY <2>4
<1> QED BY <1>2, <1>3

\* No failure in the middle of a review completes a quest that was not paid.
THEOREM CompletedQuestsArePaid == Spec => []CompletionIsPaid
<1>1. Init => CompletionIsPaid
  BY DEF Init, CompletionIsPaid
<1> QED BY <1>1, CompletionStep, SafeAlways, PTL DEF Spec

-------------------------------------------------------------------------------
(* Membership.                                                             *)

\* Who is buying under the lock is still in the guild.
BuyersAreMembers ==
  \A s \in Slots : pc[s] \in {"buy_upsert", "buy_insert"} => req[s].hunter \in members

\* Membership is asked for under the lock, and a move waits for the lock.
LEMMA BuyersStep == SafeInv /\ BuyersAreMembers /\ [Next]_vars => BuyersAreMembers'
<1> SUFFICES ASSUME SafeInv, BuyersAreMembers, [Next]_vars PROVE BuyersAreMembers'
  OBVIOUS
<1> USE DEF SafeInv, TypeInv
<1>1. CASE \E h \in Hunters : LeaveGuild(h)
  BY <1>1 DEF LeaveGuild, slotVars, BuyersAreMembers, HoldsHunter
<1>2. CASE \/ UNCHANGED vars
           \/ Manage /\ ~\E h \in Hunters : LeaveGuild(h)
  BY <1>2 DEF Manage, CreateQuest, CreateShopItem, UpdateShopItem, DeactivateShopItem,
              WriteItem, slotVars, vars, BuyersAreMembers
<1>3. ASSUME NEW s \in Slots, BeginRequest(s) PROVE BuyersAreMembers'
  <2>1. members' = members /\ OnlySlot(s)
    BY <1>3, SlotMoves DEF BeginRequest, BeginBuy, BeginUse, BeginSubmit, BeginReview, Begin,
                           dbVars
  <2>2. pc'[s] \notin {"buy_upsert", "buy_insert"}
    BY <1>3 DEF BeginRequest, BeginBuy, BeginUse, BeginSubmit, BeginReview, Begin, Goto,
                TypeOK, SlotTypes
  <2> QED BY <2>1, <2>2 DEF BuyersAreMembers, OnlySlot
<1>4. ASSUME NEW s \in Slots, Handle(s) \/ DeadlockAbort(s) \/ Drop(s)
      PROVE  BuyersAreMembers'
  <2>1. OnlySlot(s)
    BY <1>4, SlotMoves
  <2>2. members' = members
    <3>1. CASE BuyFind(s) \/ BuyRefuse(s) \/ BuyLock(s) \/ BuyUpsert(s) \/ BuyInsert(s)
      BY <3>1 DEF BuyFind, BuyRefuse, BuyLock, BuyUpsert, BuyInsert, CommitPurchase, dbVars
    <3>2. CASE BuyDuplicate(s) \/ BuyLookup(s) \/ UseLock(s) \/ UseCommit(s) \/ UsePublish(s)
      BY <3>2 DEF BuyDuplicate, BuyLookup, UseLock, UseCommit, UsePublish, dbVars
    <3>3. CASE SubmitUpdate(s) \/ ReviewReject(s) \/ ReviewTakeQuest(s)
      BY <3>3 DEF SubmitUpdate, ReviewReject, ReviewTakeQuest, dbVars
    <3>4. CASE ReviewReadHunter(s) \/ ReviewPay(s)
      BY <3>4 DEF ReviewReadHunter, ReviewPay, dbVars
    <3>5. CASE DeadlockAbort(s) \/ Drop(s)
      BY <3>5 DEF DeadlockAbort, Drop, dbVars
    <3> QED BY <1>4, <3>1, <3>2, <3>3, <3>4, <3>5 DEF Handle
  <2>3. ASSUME pc'[s] \in {"buy_upsert", "buy_insert"} PROVE req'[s].hunter \in members
    <3> USE DEF TypeOK, SlotTypes, Goto, Answer
    <3>1. CASE BuyLock(s)
      BY <3>1 DEF BuyLock
    <3>2. CASE BuyUpsert(s)
      BY <3>2 DEF BuyUpsert, BuyersAreMembers
    <3>3. ~(BuyFind(s) \/ BuyRefuse(s) \/ BuyInsert(s) \/ BuyDuplicate(s) \/ BuyLookup(s))
      BY <2>3 DEF BuyFind, BuyRefuse, BuyInsert, CommitPurchase, BuyDuplicate, BuyLookup
    <3>4. ~(UseLock(s) \/ UseCommit(s) \/ UsePublish(s) \/ SubmitUpdate(s))
      BY <2>3 DEF UseLock, UseCommit, UsePublish, SubmitUpdate
    <3>5. ~(ReviewReject(s) \/ ReviewTakeQuest(s) \/ ReviewReadHunter(s) \/ ReviewPay(s))
      BY <2>3 DEF ReviewReject, ReviewTakeQuest, ReviewReadHunter, ReviewPay
    <3>6. ~(DeadlockAbort(s) \/ Drop(s))
      BY <2>3 DEF DeadlockAbort, Drop
    <3> QED BY <1>4, <3>1, <3>2, <3>3, <3>4, <3>5, <3>6 DEF Handle
  <2> QED BY <2>1, <2>2, <2>3 DEF BuyersAreMembers, OnlySlot
<1> QED BY <1>1, <1>2, <1>3, <1>4 DEF Next

\* No purchase is committed for a hunter who has moved to another guild.
THEOREM PurchasesAreOfMembers == Spec => PurchaseNeedsMember
<1> DEFINE OfMembers == \A p \in purchases' \ purchases : p.hunter \in members
<1>1. Init => BuyersAreMembers
  BY DEF Init, BuyersAreMembers
<1>2. SafeInv /\ BuyersAreMembers /\ [Next]_vars => OfMembers
  <2> SUFFICES ASSUME SafeInv, BuyersAreMembers, [Next]_vars,
                      NEW p \in purchases', p \notin purchases
               PROVE  p.hunter \in members
    OBVIOUS
  <2> USE DEF SafeInv, TypeInv
  <2>1. PICK s \in Slots : BuyInsert(s)
    BY WhoWrites, UseCommits, RewardCommits DEF account
  <2> DEFINE h == req[s].hunter
             row == [hunter |-> h, key |-> req[s].key, item |-> req[s].item,
                     cost |-> seen[s].cost]
  <2>2. p = row
    <3>1. purchases' = purchases \cup {row}
      BY <2>1, PurchaseCommits
    <3> HIDE DEF row
    <3> QED BY <3>1
  <2>3. pc[s] = "buy_insert"
    BY <2>1 DEF BuyInsert
  <2> QED BY <2>2, <2>3 DEF BuyersAreMembers
<1> QED BY <1>1, <1>2, BuyersStep, SafeAlways, PTL DEF Spec, PurchaseNeedsMember

-------------------------------------------------------------------------------
(* Refinement of GuildShop.                                                *)

\* The mapped variables of GuildShop.
Coins == [h \in Hunters |-> hunters[h].coins]
Stock == [x \in Hunters \X Items |-> Quantity(x[1], x[2])]

\* Initially nobody owns anything.
LEMMA ShopInit == Init => Shop!Init
<1> SUFFICES ASSUME Init PROVE Shop!Init
  OBVIOUS
<1>1. StartCoins \in Nat
  BY SettlementAssumption
<1>2. Coins \in [Hunters -> Nat]
  BY <1>1 DEF Init, Coins
<1>3. Stock = [x \in Hunters \X Items |-> 0]
  BY DEF Init, Stock, Quantity
<1> QED BY <1>2, <1>3 DEF Init, Shop!Init, Coins, Stock

\* A commit that only changes the row of one hunter changes one balance.
LEMMA CoinsOfOne ==
  ASSUME NEW h \in Hunters, \A g \in Hunters \ {h} : hunters'[g] = hunters[g]
  PROVE  Coins' = [Coins EXCEPT ![h] = hunters'[h].coins]
  BY DEF Coins

\* A commit that only changes one row of the inventory changes one quantity.
LEMMA StockOfOne ==
  ASSUME TypeOK, NEW h \in Hunters, NEW i \in Items, NEW n \in Nat,
         inventory' = [inventory EXCEPT ![<<h, i>>] = n]
  PROVE  Stock' = [Stock EXCEPT ![<<h, i>>] = n]
<1>1. ASSUME NEW x \in Hunters \X Items
      PROVE  Stock'[x] = IF x = <<h, i>> THEN n ELSE Stock[x]
  <2>1. PICK g \in Hunters, j \in Items : x = <<g, j>>
    OBVIOUS
  <2>2. /\ Stock'[x] = Quantity(g, j)' /\ Stock[x] = Quantity(g, j)
    BY <2>1 DEF Stock
  <2>3. CASE x = <<h, i>>
    <3>1. inventory'[<<g, j>>] = n
      BY <2>1, <2>3 DEF TypeOK, RowTypes
    <3> QED BY <2>2, <2>3, <3>1, SettlementAssumption DEF Quantity
  <2>4. CASE x # <<h, i>>
    <3>1. inventory'[<<g, j>>] = inventory[<<g, j>>]
      BY <2>1, <2>4 DEF TypeOK, RowTypes
    <3> QED BY <2>2, <2>4, <3>1 DEF Quantity
  <2> QED BY <2>3, <2>4
<1>2. <<h, i>> \in Hunters \X Items
  OBVIOUS
<1> QED BY <1>1, <1>2 DEF Stock

\* The commit of a purchase is the purchase.
LEMMA PurchaseIsBuy ==
  ASSUME SafeInv, NEW s \in Slots, BuyInsert(s)
  PROVE  \E h \in Hunters, i \in Items, k \in Keys, c \in Prices : Shop!Buy(h, i, k, c)
<1> PICK h \in Hunters, i \in Items, k \in Keys, c \in Prices :
       h = req[s].hunter /\ i = req[s].item /\ k = req[s].key /\ c = seen[s].cost
  BY PurchaseCommits DEF SafeInv, TypeInv
<1> USE DEF SafeInv, TypeInv
<1>1. /\ h \in Hunters /\ i \in Items
      /\ hunters[h].coins >= c
      /\ hunters'[h].coins = hunters[h].coins - c
      /\ \A g \in Hunters \ {h} : hunters'[g] = hunters[g]
  BY PurchaseCommits
<1>2. /\ inventory' = [inventory EXCEPT ![<<h, i>>] = Quantity(h, i) + 1]
      /\ purchases' = purchases \cup
           {[hunter |-> h, key |-> k, item |-> i, cost |-> c]}
      /\ \A p \in purchases : ~(p.hunter = h /\ p.key = k)
      /\ messages' = messages
  BY PurchaseCommits
<1>3. Quantity(h, i) \in Nat
  BY <1>1 DEF TypeOK, RowTypes, Quantity
<1>4. Coins[h] = hunters[h].coins /\ Stock[<<h, i>>] = Quantity(h, i)
  BY <1>1 DEF Coins, Stock
<1>5. Coins' = [Coins EXCEPT ![h] = Coins[h] - c]
  BY <1>1, <1>4, CoinsOfOne
<1>6. Stock' = [Stock EXCEPT ![<<h, i>>] = Stock[<<h, i>>] + 1]
  <2>1. PICK n \in Nat : n = Quantity(h, i) + 1
    BY <1>3
  <2>2. inventory' = [inventory EXCEPT ![<<h, i>>] = n]
    BY <1>2, <2>1
  <2>3. TypeOK
    OBVIOUS
  <2>4. Stock' = [Stock EXCEPT ![<<h, i>>] = n]
    BY ONLY <2>2, <2>3, StockOfOne, h \in Hunters, i \in Items, n \in Nat
  <2> QED BY <1>4, <2>1, <2>4
<1>7. Shop!Buy(h, i, k, c)
  BY <1>1, <1>2, <1>4, <1>5, <1>6 DEF Shop!Buy, Coins, Stock
<1> QED BY <1>7

\* The commit of a use is the use.
LEMMA UseIsUse ==
  ASSUME SafeInv, NEW s \in Slots, UseCommit(s)
  PROVE  \E h \in Hunters, i \in Items : Shop!Use(h, i)
<1> PICK h \in Hunters, i \in Items : h = req[s].hunter /\ i = req[s].item
  BY UseCommits DEF SafeInv, TypeInv
<1> USE DEF SafeInv, TypeInv
<1>1. /\ h \in Hunters /\ i \in Items /\ Quantity(h, i) > 0
      /\ inventory' = [inventory EXCEPT ![<<h, i>>] = Quantity(h, i) - 1]
      /\ messages' = [messages EXCEPT ![<<h, i>>] = @ + 1]
      /\ UNCHANGED <<hunters, purchases>>
  BY UseCommits
<1>2. Quantity(h, i) \in Nat
  BY <1>1 DEF TypeOK, RowTypes, Quantity
<1>3. Stock[<<h, i>>] = Quantity(h, i) /\ Quantity(h, i) - 1 \in Nat
  BY <1>1, <1>2 DEF Stock
<1>4. Stock' = [Stock EXCEPT ![<<h, i>>] = Stock[<<h, i>>] - 1]
  <2>1. PICK n \in Nat : n = Quantity(h, i) - 1
    BY <1>3
  <2>2. inventory' = [inventory EXCEPT ![<<h, i>>] = n]
    BY <1>1, <2>1
  <2>3. TypeOK
    OBVIOUS
  <2>4. Stock' = [Stock EXCEPT ![<<h, i>>] = n]
    BY ONLY <2>2, <2>3, StockOfOne, h \in Hunters, i \in Items, n \in Nat
  <2> QED BY <1>3, <2>1, <2>4
<1>5. Coins' = Coins
  BY <1>1 DEF Coins
<1>6. Shop!Use(h, i)
  BY <1>1, <1>3, <1>4, <1>5 DEF Shop!Use, Coins, Stock
<1> QED BY <1>6

\* The commit of a review leaves its hunter some balance that fits the column.
LEMMA RewardIsSettle ==
  ASSUME SafeInv, [Next]_vars, NEW s \in Slots, ReviewPay(s)
  PROVE  \E h \in Hunters : Shop!Settle(h)
<1> PICK h \in Hunters : h = req[s].hunter
  BY RewardCommits DEF SafeInv, TypeInv
<1> DEFINE q == req[s].quest
           row == [coins |-> seen[s].coins + RewardCoins[q], xp |-> seen[s].xp + RewardXp[q],
                   level |-> LevelOf(seen[s].xp + RewardXp[q])]
<1> USE DEF SafeInv, TypeInv
<1>1. /\ h \in Hunters /\ hunters' = [hunters EXCEPT ![h] = row]
      /\ UNCHANGED <<inventory, purchases, messages>>
  BY RewardCommits
<1> HIDE DEF q, row
<1>2. \A g \in Hunters \ {h} : hunters'[g] = hunters[g]
  BY <1>1 DEF TypeOK, RowTypes
<1>3. hunters'[h].coins \in Nat
  <2>1. hunters'[h].coins \in I32
    BY <1>1, SafeStep DEF TypeOK, RowTypes
  <2>2. MaxI32 \in Nat
    BY SettlementAssumption
  <2> QED BY <2>1, <2>2 DEF I32
<1>4. Coins'[h] = hunters'[h].coins
  BY <1>1 DEF Coins
<1>5. Coins' = [Coins EXCEPT ![h] = Coins'[h]]
  BY <1>1, <1>2, <1>4, CoinsOfOne
<1>6. Stock' = Stock
  BY <1>1 DEF Stock, Quantity
<1>7. Shop!Settle(h)
  BY <1>1, <1>3, <1>4, <1>5, <1>6 DEF Shop!Settle, Coins, Stock
<1> QED BY <1>7

\* Every step is a step of the shop or leaves it alone.
LEMMA ShopStep == SafeInv /\ [Next]_vars => [Shop!Next]_(Shop!shopVars)
<1> SUFFICES ASSUME SafeInv, [Next]_vars PROVE [Shop!Next]_(Shop!shopVars)
  OBVIOUS
<1> USE DEF SafeInv, TypeInv
<1>1. CASE UNCHANGED account
  <2>1. Coins' = Coins /\ Stock' = Stock
    BY <1>1 DEF account, Coins, Stock, Quantity
  <2> QED BY <1>1, <2>1 DEF account, Shop!shopVars, Coins, Stock
<1>2. ASSUME NEW s \in Slots, BuyInsert(s) PROVE Shop!Next
  BY <1>2, PurchaseIsBuy DEF Shop!Next
<1>3. ASSUME NEW s \in Slots, UseCommit(s) PROVE Shop!Next
  BY <1>3, UseIsUse DEF Shop!Next
<1>4. ASSUME NEW s \in Slots, ReviewPay(s) PROVE Shop!Next
  BY <1>4, RewardIsSettle DEF Shop!Next
<1> QED BY <1>1, <1>2, <1>3, <1>4, WhoWrites

\* However their statements interleave, buy_item and use_inventory_item act as if
\* each request ran alone.
THEOREM SettlementImplementsShop == Spec => ImplementsShop
  BY ShopInit, ShopStep, SafeAlways, PTL DEF Spec, ImplementsShop
===============================================================================
