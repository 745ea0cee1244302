------------------------------ MODULE Settlement ------------------------------
(***************************************************************************)
(* The settlement core of the server: quests are submitted and reviewed,   *)
(* rewards are paid into hunters, hunters spend coins in the guild shop    *)
(* and use what they bought.  Every HTTP request runs in a handler slot    *)
(* (a tokio task) against one PostgreSQL database at READ COMMITTED.       *)
(*                                                                         *)
(* A step is one statement of a handler, or several that no other request  *)
(* can tell apart because they touch only rows the request has locked.     *)
(* The variables of the database hold COMMITTED rows: what a transaction   *)
(* has written and not yet committed is in seen[s], and the row locks it   *)
(* holds follow from pc[s].  A request that its first read refuses changes *)
(* nothing, so that refusal is a stuttering step and is left out.          *)
(***************************************************************************)
EXTENDS Integers, FiniteSets

CONSTANTS
  Hunters,      \* hunters of the guild
  Master,       \* the hunter of the guild master (one who never leaves if not in Hunters)
  Items,        \* shop items the guild may create
  Quests,       \* quests the guild may create
  Habits,       \* the quests whose category is habit
  Assignee,     \* Assignee[q]: the hunter a quest is assigned to, or Anyone
  Anyone,       \* a quest assigned to nobody
  Keys,         \* idempotency keys of purchases
  Slots,        \* handler slots: requests in flight at the same time
  Prices,       \* prices the master may give an item
  RewardXp,     \* RewardXp[q], RewardCoins[q]: what quest q pays
  RewardCoins,
  StartCoins,   \* balance every hunter has earned before the initial state
  MaxI32,       \* the largest value of the i32 columns
  MaxRequests,  \* bound: requests ever begun
  AllowDrops,   \* may a handler be dropped half-way (client gone, crash)?
  NoRow         \* no hunter_inventories row

ASSUME SettlementAssumption ==
  /\ Habits \subseteq Quests
  /\ Anyone \notin Hunters
  /\ Assignee \in [Quests -> Hunters \cup {Anyone}]
  /\ Prices \subseteq Nat
  /\ RewardXp \in [Quests -> Nat]
  /\ RewardCoins \in [Quests -> Nat]
  /\ MaxI32 \in Nat
  /\ StartCoins \in 0 .. MaxI32
  /\ MaxRequests \in Nat
  /\ AllowDrops \in BOOLEAN
  /\ NoRow \notin Nat

VARIABLES
  hunters,      \* [coins, xp, level] of each hunter
  members,      \* hunters whose guild_id is still this guild
  items,        \* [status, cost] of each shop item
  quests,       \* status of each quest
  cycleDone,    \* habits whose last_completed_at is in today's cycle
  inventory,    \* quantity of each hunter_inventories row, or NoRow
  purchases,    \* shop_purchase rows of the ledger
  ledgerTotal,  \* what hunter_stats gets by summing a hunter's ledger rows
  rewarded,     \* quest_reward rows of the ledger, counted by <<hunter, quest>>
  messages,     \* system messages in chat_messages, counted by <<hunter, item>>
  notices,      \* chat notices published to the presence hub
  pc,           \* where the handler in each slot is
  req,          \* the request it serves
  seen,         \* what it has read, or written and not committed
  left,         \* requests that may still begin (bound)
  overwritten   \* history: hunters whose row a review wrote from a stale read

dbVars == <<hunters, members, items, quests, cycleDone, inventory, purchases,
            ledgerTotal, rewarded, messages, notices, overwritten>>
slotVars == <<pc, req, seen>>
vars == <<hunters, members, items, quests, cycleDone, inventory, purchases,
          ledgerTotal, rewarded, messages, notices, overwritten,
          pc, req, seen, left>>

-------------------------------------------------------------------------------
(* Rows, requests and helpers.                                             *)

I32 == 0 .. MaxI32
QuestStatus == {"absent", "available", "pending_review", "completed"}
ItemStatus == {"absent", "active", "inactive"}

Purchase == [hunter : Hunters, key : Keys, item : Items, cost : Prices]

BuyRequest == [hunter : Hunters, item : Items, key : Keys]
UseRequest == [hunter : Hunters, item : Items]
SubmitRequest == [quest : Quests]
ReviewRequest == [quest : Quests, hunter : Hunters]

Request == BuyRequest \cup UseRequest \cup SubmitRequest \cup ReviewRequest

NoRequest == [quest |-> Anyone]
Reading == [cost : Prices \cup {0}, coins : I32, xp : I32, quantity : Nat]
NothingSeen == [cost |-> 0, coins |-> 0, xp |-> 0, quantity |-> 0]

BuyAt == {"buy_find", "buy_lock", "buy_upsert", "buy_insert", "buy_lookup"}
UseAt == {"use_lock", "use_notice", "use_publish"}
SubmitAt == {"submit_update"}
ReviewAt == {"review_reject", "review_take_quest", "review_read_hunter", "review_pay"}

\* compute_level_from_xp
LevelOf(xp) == xp \div 100 + 1

\* A token of the master is accepted while the master's row is in the guild.
MasterPresent == Master \in Hunters => Master \in members

\* The ledger rows find_purchase_by_idempotency looks for.
PurchasedWith(h, k) == {p \in purchases : p.hunter = h /\ p.key = k}

Quantity(h, i) == IF inventory[<<h, i>>] = NoRow THEN 0 ELSE inventory[<<h, i>>]

Goto(s, label) == pc' = [pc EXCEPT ![s] = label]

See(s, record) == seen' = [seen EXCEPT ![s] = record]

\* The handler returns: its slot is free and its transaction, if any, is over.
Answer(s) ==
  /\ Goto(s, "idle")
  /\ req' = [req EXCEPT ![s] = NoRequest]
  /\ See(s, NothingSeen)
  /\ UNCHANGED left

\* A new request is taken up in slot s, its first read already done.
Begin(s, label, request, record) ==
  /\ pc[s] = "idle"
  /\ left > 0
  /\ left' = left - 1
  /\ Goto(s, label)
  /\ req' = [req EXCEPT ![s] = request]
  /\ See(s, record)
  /\ UNCHANGED dbVars

-------------------------------------------------------------------------------
(* Row locks, held until the transaction of the slot ends.                 *)

\* mutant: coins read without FOR UPDATE, so that only the UPDATE locks the row
HoldsHunterFromUpdate(s, h) == pc[s] = "buy_insert" /\ req[s].hunter = h

\* SELECT ... FOR UPDATE on the hunter's row, then its UPDATE
HoldsHunter(s, h) ==
  /\ pc[s] \in {"buy_upsert", "buy_insert"}
  /\ req[s].hunter = h

\* mutant: quantity read without FOR UPDATE before a use
HoldsStockOfPurchase(s, h, i) ==
  pc[s] = "buy_insert" /\ req[s].hunter = h /\ req[s].item = i

\* the upserted row of a purchase, or SELECT ... FOR UPDATE before a use
HoldsStock(s, h, i) ==
  /\ pc[s] \in {"buy_insert", "use_notice"}
  /\ req[s].hunter = h
  /\ req[s].item = i

\* the quest row an approval has updated
HoldsQuest(s, q) ==
  /\ pc[s] \in {"review_read_hunter", "review_pay"}
  /\ req[s].quest = q

\* The next statement of s needs a row that t has locked.  The message a use
\* inserts takes a key-share lock on its sender's row, which the FOR UPDATE of a
\* purchase excludes.
WaitsFor(s, t) ==
  \/ /\ pc[s] \in {"buy_lock", "use_notice", "review_pay"}
     /\ HoldsHunter(t, req[s].hunter)
  \/ /\ \/ pc[s] = "buy_upsert"
        \/ pc[s] = "use_lock" /\ inventory[<<req[s].hunter, req[s].item>>] # NoRow
     /\ HoldsStock(t, req[s].hunter, req[s].item)
  \/ /\ pc[s] \in {"submit_update", "review_reject", "review_take_quest"}
     /\ HoldsQuest(t, req[s].quest)

Blocked(s) == \E t \in Slots : WaitsFor(s, t)

-------------------------------------------------------------------------------
(* POST /shop/items/{id}/buy                                               *)

\* The item is read outside the transaction: its price is fixed from here on.
BeginBuy(s, h, i, k) ==
  /\ h \in members
  /\ items[i].status = "active"
  /\ Begin(s, "buy_find", [hunter |-> h, item |-> i, key |-> k],
           [NothingSeen EXCEPT !.cost = items[i].cost])

\* A purchase already made with this key is answered, by a replay or by a
\* conflict when it was of another item; neither changes anything.
BuyFind(s) ==
  /\ pc[s] = "buy_find"
  /\ \/ /\ PurchasedWith(req[s].hunter, req[s].key) # {}
        /\ Answer(s)
     \/ /\ PurchasedWith(req[s].hunter, req[s].key) = {}
        /\ Goto(s, "buy_lock")
        /\ UNCHANGED <<req, seen, left>>
  /\ UNCHANGED dbVars

\* mutant: every failure taken for a lost race
BuyRefuseAsReplay(s) ==
  /\ pc[s] = "buy_lock"
  /\ ~Blocked(s)
  /\ hunters[req[s].hunter].coins < seen[s].cost
  /\ Goto(s, "buy_lookup")
  /\ UNCHANGED <<req, seen, left>>
  /\ UNCHANGED dbVars

\* The hunter's row is locked and its coins do not cover the price (or the
\* hunter is no longer in the guild): rollback.
BuyRefuse(s) ==
  /\ pc[s] = "buy_lock"
  /\ ~Blocked(s)
  /\ \/ req[s].hunter \notin members
     \/ hunters[req[s].hunter].coins < seen[s].cost
  /\ Answer(s)
  /\ UNCHANGED dbVars

\* mutant: the new balance written outside the transaction
BuyLockAndCharge(s) ==
  /\ pc[s] = "buy_lock"
  /\ ~Blocked(s)
  /\ hunters[req[s].hunter].coins >= seen[s].cost
  /\ hunters' = [hunters EXCEPT ![req[s].hunter].coins = @ - seen[s].cost]
  /\ See(s, [seen[s] EXCEPT !.coins = hunters[req[s].hunter].coins - seen[s].cost])
  /\ Goto(s, "buy_upsert")
  /\ UNCHANGED <<req, left>>
  /\ UNCHANGED <<members, items, quests, cycleDone, inventory, purchases, ledgerTotal,
                 rewarded, messages, notices, overwritten>>

\* mutant: the guild not asked for again under the lock
BuyLockAnyGuild(s) ==
  /\ pc[s] = "buy_lock"
  /\ ~Blocked(s)
  /\ hunters[req[s].hunter].coins >= seen[s].cost
  /\ See(s, [seen[s] EXCEPT !.coins = hunters[req[s].hunter].coins - seen[s].cost])
  /\ Goto(s, "buy_upsert")
  /\ UNCHANGED <<req, left>>
  /\ UNCHANGED dbVars

BuyLock(s) ==
  /\ pc[s] = "buy_lock"
  /\ ~Blocked(s)
  /\ req[s].hunter \in members
  /\ hunters[req[s].hunter].coins >= seen[s].cost
  /\ See(s, [seen[s] EXCEPT !.coins = hunters[req[s].hunter].coins - seen[s].cost])
  /\ Goto(s, "buy_upsert")
  /\ UNCHANGED <<req, left>>
  /\ UNCHANGED dbVars

BuyUpsert(s) ==
  /\ pc[s] = "buy_upsert"
  /\ ~Blocked(s)
  /\ See(s, [seen[s] EXCEPT !.quantity = Quantity(req[s].hunter, req[s].item) + 1])
  /\ Goto(s, "buy_insert")
  /\ UNCHANGED <<req, left>>
  /\ UNCHANGED dbVars

\* The purchase of s commits, recorded at cost c.
CommitPurchase(s, c) ==
  LET h == req[s].hunter
      i == req[s].item
  IN
  /\ hunters' = [hunters EXCEPT ![h].coins = seen[s].coins]
  /\ inventory' = [inventory EXCEPT ![<<h, i>>] = seen[s].quantity]
  /\ purchases' = purchases \cup
       {[hunter |-> h, key |-> req[s].key, item |-> i, cost |-> c]}
  /\ ledgerTotal' = [ledgerTotal EXCEPT ![h].coins = @ - c]
  /\ Answer(s)
  /\ UNCHANGED <<members, items, quests, cycleDone, rewarded, messages, notices,
                 overwritten>>

\* mutant: the ledger row takes the price of the moment, not the one charged
BuyInsertCurrentPrice(s) ==
  /\ pc[s] = "buy_insert"
  /\ PurchasedWith(req[s].hunter, req[s].key) = {}
  /\ CommitPurchase(s, items[req[s].item].cost)

\* The ledger row goes in and the transaction commits: coins, inventory and
\* ledger change together.
BuyInsert(s) ==
  /\ pc[s] = "buy_insert"
  /\ PurchasedWith(req[s].hunter, req[s].key) = {}
  /\ CommitPurchase(s, seen[s].cost)

\* mutant: the purchase is tried again instead of replayed
BuyDuplicateRetried(s) ==
  /\ pc[s] = "buy_insert"
  /\ PurchasedWith(req[s].hunter, req[s].key) # {}
  /\ Goto(s, "buy_lock")
  /\ UNCHANGED <<req, seen, left>>
  /\ UNCHANGED dbVars

\* The unique index on (hunter_id, idempotency_key) refuses the row: another
\* request with this key committed since BuyFind.  Rollback.
BuyDuplicate(s) ==
  /\ pc[s] = "buy_insert"
  /\ PurchasedWith(req[s].hunter, req[s].key) # {}
  /\ See(s, NothingSeen)
  /\ Goto(s, "buy_lookup")
  /\ UNCHANGED <<req, left>>
  /\ UNCHANGED dbVars

\* lookup_replay_response: only reads
BuyLookup(s) ==
  /\ pc[s] = "buy_lookup"
  /\ Answer(s)
  /\ UNCHANGED dbVars

-------------------------------------------------------------------------------
(* POST /inventory/{id}/use                                                *)

BeginUse(s, h, i) ==
  /\ h \in members
  /\ items[i].status # "absent"
  /\ Begin(s, "use_lock", [hunter |-> h, item |-> i], NothingSeen)

\* SELECT quantity ... FOR UPDATE, and the UPDATE once there is one to use
UseLock(s) ==
  /\ pc[s] = "use_lock"
  /\ ~Blocked(s)
  /\ \/ /\ Quantity(req[s].hunter, req[s].item) = 0
        /\ Answer(s)
     \/ /\ Quantity(req[s].hunter, req[s].item) > 0
        /\ See(s, [seen[s] EXCEPT !.quantity =
                     Quantity(req[s].hunter, req[s].item) - 1])
        /\ Goto(s, "use_notice")
        /\ UNCHANGED <<req, left>>
  /\ UNCHANGED dbVars

\* mutant: answered after the commit without publishing
UseCommitSilent(s) ==
  LET x == <<req[s].hunter, req[s].item>>
  IN
  /\ pc[s] = "use_notice"
  /\ ~Blocked(s)
  /\ inventory' = [inventory EXCEPT ![x] = seen[s].quantity]
  /\ messages' = [messages EXCEPT ![x] = @ + 1]
  /\ Answer(s)
  /\ UNCHANGED <<hunters, members, items, quests, cycleDone, purchases,
                 ledgerTotal, rewarded, notices, overwritten>>

\* The system message goes in and the transaction commits.
UseCommit(s) ==
  LET h == req[s].hunter
      i == req[s].item
  IN
  /\ pc[s] = "use_notice"
  /\ ~Blocked(s)
  /\ inventory' = [inventory EXCEPT ![<<h, i>>] = seen[s].quantity]
  /\ messages' = [messages EXCEPT ![<<h, i>>] = @ + 1]
  /\ See(s, NothingSeen)
  /\ Goto(s, "use_publish")
  /\ UNCHANGED <<req, left>>
  /\ UNCHANGED <<hunters, members, items, quests, cycleDone, purchases,
                 ledgerTotal, rewarded, notices, overwritten>>

\* publish_chat_notice, after the commit
UsePublish(s) ==
  /\ pc[s] = "use_publish"
  /\ notices' = [notices EXCEPT ![<<req[s].hunter, req[s].item>>] = @ + 1]
  /\ Answer(s)
  /\ UNCHANGED <<hunters, members, items, quests, cycleDone, inventory,
                 purchases, ledgerTotal, rewarded, messages, overwritten>>

-------------------------------------------------------------------------------
(* POST /quests/{id}/submit                                                *)

BeginSubmit(s, h, q) ==
  /\ h \in members \ {Master}
  /\ Assignee[q] \in {h, Anyone}
  /\ quests[q] = "available"
  /\ q \notin cycleDone
  /\ Begin(s, "submit_update", [quest |-> q], NothingSeen)

\* The UPDATE is by primary key: it does not look at the status again.
SubmitUpdate(s) ==
  /\ pc[s] = "submit_update"
  /\ ~Blocked(s)
  /\ quests' = [quests EXCEPT ![req[s].quest] = "pending_review"]
  /\ Answer(s)
  /\ UNCHANGED <<hunters, members, items, cycleDone, inventory, purchases,
                 ledgerTotal, rewarded, messages, notices, overwritten>>

-------------------------------------------------------------------------------
(* POST /quests/{id}/review                                                *)

\* The quest is read without a lock.  h is the hunter the payload names, the
\* assignee or the reviewer.
BeginReview(s, q, h, approved) ==
  /\ MasterPresent
  /\ quests[q] = "pending_review"
  /\ Begin(s, IF approved THEN "review_take_quest" ELSE "review_reject",
           [quest |-> q, hunter |-> h], NothingSeen)

ReviewReject(s) ==
  /\ pc[s] = "review_reject"
  /\ ~Blocked(s)
  /\ quests' = [quests EXCEPT ![req[s].quest] = "available"]
  /\ Answer(s)
  /\ UNCHANGED <<hunters, members, items, cycleDone, inventory, purchases,
                 ledgerTotal, rewarded, messages, notices, overwritten>>

\* mutant: the quest updated outside the transaction
ReviewTakeQuestCommitted(s) ==
  /\ pc[s] = "review_take_quest"
  /\ ~Blocked(s)
  /\ quests' = [quests EXCEPT ![req[s].quest] = "completed"]
  /\ Goto(s, "review_read_hunter")
  /\ UNCHANGED <<req, seen, left>>
  /\ UNCHANGED <<hunters, members, items, cycleDone, inventory, purchases,
                 ledgerTotal, rewarded, messages, notices, overwritten>>

\* The quest is updated first and stays locked.
ReviewTakeQuest(s) ==
  /\ pc[s] = "review_take_quest"
  /\ ~Blocked(s)
  /\ Goto(s, "review_read_hunter")
  /\ UNCHANGED <<req, seen, left>>
  /\ UNCHANGED dbVars

\* mutant: no overflow checks
ReviewReadHunterUnchecked(s) ==
  /\ pc[s] = "review_read_hunter"
  /\ See(s, [seen[s] EXCEPT !.coins = hunters[req[s].hunter].coins,
                            !.xp = hunters[req[s].hunter].xp])
  /\ Goto(s, "review_pay")
  /\ UNCHANGED <<req, left>>
  /\ UNCHANGED dbVars

\* The hunter is read, without a lock: coins and xp are as committed now.
ReviewReadHunter(s) ==
  LET h == req[s].hunter
      q == req[s].quest
      payable == /\ h \in members
                 /\ hunters[h].xp + RewardXp[q] <= MaxI32
                 /\ hunters[h].coins + RewardCoins[q] <= MaxI32
  IN
  /\ pc[s] = "review_read_hunter"
  /\ \/ /\ ~payable
        /\ Answer(s)
     \/ /\ payable
        /\ See(s, [seen[s] EXCEPT !.coins = hunters[h].coins, !.xp = hunters[h].xp])
        /\ Goto(s, "review_pay")
        /\ UNCHANGED <<req, left>>
  /\ UNCHANGED dbVars

\* The hunter's new totals, written as absolute values, the ledger row and the
\* quest commit together.
ReviewPay(s) ==
  LET h == req[s].hunter
      q == req[s].quest
      xp == seen[s].xp + RewardXp[q]
      fresh == hunters[h].coins = seen[s].coins /\ hunters[h].xp = seen[s].xp
  IN
  /\ pc[s] = "review_pay"
  /\ ~Blocked(s)
  /\ quests' = [quests EXCEPT ![q] = IF q \in Habits THEN "available" ELSE "completed"]
  /\ cycleDone' = IF q \in Habits THEN cycleDone \cup {q} ELSE cycleDone
  /\ hunters' = [hunters EXCEPT ![h] = [coins |-> seen[s].coins + RewardCoins[q],
                                        xp |-> xp,
                                        level |-> LevelOf(xp)]]
  /\ ledgerTotal' = [ledgerTotal EXCEPT ![h].coins = @ + RewardCoins[q],
                                        ![h].xp = @ + RewardXp[q]]
  /\ rewarded' = [rewarded EXCEPT ![<<h, q>>] = @ + 1]
  /\ overwritten' = IF fresh THEN overwritten ELSE overwritten \cup {h}
  /\ Answer(s)
  /\ UNCHANGED <<members, items, inventory, purchases, messages, notices>>

-------------------------------------------------------------------------------
(* Handlers that are a single write, and what may cut a handler short.     *)

CreateQuest(q) ==
  /\ MasterPresent
  /\ Assignee[q] \in members \cup {Anyone}
  /\ quests[q] = "absent"
  /\ quests' = [quests EXCEPT ![q] = "available"]
  /\ UNCHANGED <<hunters, members, items, cycleDone, inventory, purchases,
                 ledgerTotal, rewarded, messages, notices, overwritten>>
  /\ UNCHANGED <<slotVars, left>>

WriteItem(i, row) ==
  /\ MasterPresent
  /\ items' = [items EXCEPT ![i] = row]
  /\ UNCHANGED <<hunters, members, quests, cycleDone, inventory, purchases,
                 ledgerTotal, rewarded, messages, notices, overwritten>>
  /\ UNCHANGED <<slotVars, left>>

CreateShopItem(i, cost) ==
  /\ items[i].status = "absent"
  /\ WriteItem(i, [status |-> "active", cost |-> cost])

UpdateShopItem(i, cost) ==
  /\ items[i].status # "absent"
  /\ WriteItem(i, [items[i] EXCEPT !.cost = cost])

DeactivateShopItem(i) ==
  /\ items[i].status # "absent"
  /\ WriteItem(i, [items[i] EXCEPT !.status = "inactive"])

\* A hunter accepts the invite of another guild (social.rs): its row moves there.
LeaveGuild(h) ==
  /\ h \in members
  /\ \A s \in Slots : ~HoldsHunter(s, h)
  /\ members' = members \ {h}
  /\ UNCHANGED <<hunters, items, quests, cycleDone, inventory, purchases,
                 ledgerTotal, rewarded, messages, notices, overwritten>>
  /\ UNCHANGED <<slotVars, left>>

\* PostgreSQL finds s and t waiting for each other and aborts s.
DeadlockAbort(s) ==
  /\ \E t \in Slots : WaitsFor(s, t) /\ WaitsFor(t, s)
  /\ Answer(s)
  /\ UNCHANGED dbVars

\* The client goes away or the server stops: the handler is dropped and an open
\* transaction rolled back.
Drop(s) ==
  /\ AllowDrops
  /\ pc[s] # "idle"
  /\ Answer(s)
  /\ UNCHANGED dbVars

-------------------------------------------------------------------------------
Init ==
  /\ hunters = [h \in Hunters |-> [coins |-> StartCoins, xp |-> 0, level |-> 1]]
  /\ members = Hunters
  /\ items = [i \in Items |-> [status |-> "absent", cost |-> 0]]
  /\ quests = [q \in Quests |-> "absent"]
  /\ cycleDone = {}
  /\ inventory = [x \in Hunters \X Items |-> NoRow]
  /\ purchases = {}
  /\ ledgerTotal = [h \in Hunters |-> [coins |-> StartCoins, xp |-> 0]]
  /\ rewarded = [x \in Hunters \X Quests |-> 0]
  /\ messages = [x \in Hunters \X Items |-> 0]
  /\ notices = [x \in Hunters \X Items |-> 0]
  /\ pc = [s \in Slots |-> "idle"]
  /\ req = [s \in Slots |-> NoRequest]
  /\ seen = [s \in Slots |-> NothingSeen]
  /\ left = MaxRequests
  /\ overwritten = {}

BeginRequest(s) ==
  \/ \E h \in Hunters, i \in Items, k \in Keys : BeginBuy(s, h, i, k)
  \/ \E h \in Hunters, i \in Items : BeginUse(s, h, i)
  \/ \E h \in Hunters, q \in Quests : BeginSubmit(s, h, q)
  \/ \E q \in Quests, h \in Hunters, approved \in BOOLEAN :
       BeginReview(s, q, h, approved)

\* The next statement of the handler in slot s.
Handle(s) ==
  \/ BuyFind(s) \/ BuyRefuse(s) \/ BuyLock(s) \/ BuyUpsert(s)
  \/ BuyInsert(s) \/ BuyDuplicate(s) \/ BuyLookup(s)
  \/ UseLock(s) \/ UseCommit(s) \/ UsePublish(s)
  \/ SubmitUpdate(s)
  \/ ReviewReject(s) \/ ReviewTakeQuest(s) \/ ReviewReadHunter(s) \/ ReviewPay(s)

Manage ==
  \/ \E q \in Quests : CreateQuest(q)
  \/ \E i \in Items, c \in Prices : CreateShopItem(i, c) \/ UpdateShopItem(i, c)
  \/ \E i \in Items : DeactivateShopItem(i)
  \/ \E h \in Hunters : LeaveGuild(h)

Next ==
  \/ \E s \in Slots : BeginRequest(s) \/ Handle(s) \/ DeadlockAbort(s) \/ Drop(s)
  \/ Manage

Spec == Init /\ [][Next]_vars

\* Tokio keeps polling a handler, and PostgreSQL grants a free lock and breaks a
\* deadlock.  Nothing obliges a request to be made or the master to act.
FairSpec ==
  /\ Spec
  /\ \A s \in Slots : WF_vars(Handle(s)) /\ WF_vars(DeadlockAbort(s))
-------------------------------------------------------------------------------
(* Type invariant and safety.                                              *)

\* the committed rows
RowTypes ==
  /\ hunters \in [Hunters -> [coins : I32, xp : I32, level : Nat]]
  /\ members \in SUBSET Hunters
  /\ items \in [Items -> [status : ItemStatus, cost : Prices \cup {0}]]
  /\ \A i \in Items : items[i].status # "absent" => items[i].cost \in Prices
  /\ quests \in [Quests -> QuestStatus]
  /\ cycleDone \in SUBSET Habits
  /\ inventory \in [Hunters \X Items -> Nat \cup {NoRow}]
  /\ purchases \in SUBSET Purchase /\ IsFiniteSet(purchases)
  /\ ledgerTotal \in [Hunters -> [coins : Int, xp : Nat]]
  /\ rewarded \in [Hunters \X Quests -> Nat]
  /\ messages \in [Hunters \X Items -> Nat]
  /\ notices \in [Hunters \X Items -> Nat]
  /\ overwritten \in SUBSET Hunters

\* the requests in flight: each serves a request of its own kind
SlotTypes ==
  /\ pc \in [Slots -> {"idle"} \cup BuyAt \cup UseAt \cup SubmitAt \cup ReviewAt]
  /\ req \in [Slots -> Request \cup {NoRequest}]
  /\ \A s \in Slots :
       /\ pc[s] \in BuyAt => req[s] \in BuyRequest
       /\ pc[s] \in UseAt => req[s] \in UseRequest
       /\ pc[s] \in SubmitAt => req[s] \in SubmitRequest
       /\ pc[s] \in ReviewAt => req[s] \in ReviewRequest
  /\ seen \in [Slots -> Reading]
  /\ \A s \in Slots : pc[s] \in BuyAt \ {"buy_lookup"} => seen[s].cost \in Prices
  /\ left \in 0 .. MaxRequests

TypeOK == RowTypes /\ SlotTypes

\* Two transactions never hold the same row: purchases and uses of one hunter, and
\* approvals of one quest, take turns (FOR UPDATE in shop.rs and inventory.rs, the
\* row lock of the quest's UPDATE in review_quest).
RowLocksExclusive ==
  \A s, t \in Slots : s # t =>
    /\ \A h \in Hunters : ~(HoldsHunter(s, h) /\ HoldsHunter(t, h))
    /\ \A h \in Hunters, i \in Items : ~(HoldsStock(s, h, i) /\ HoldsStock(t, h, i))
    /\ \A q \in Quests : ~(HoldsQuest(s, q) /\ HoldsQuest(t, q))

\* What slot s has computed from a locked row, or checked, still holds of the row.
ReadsHold(s) ==
  /\ pc[s] \in {"buy_upsert", "buy_insert"} =>
       hunters[req[s].hunter].coins = seen[s].coins + seen[s].cost
  /\ pc[s] = "buy_insert" =>
       seen[s].quantity = Quantity(req[s].hunter, req[s].item) + 1
  /\ pc[s] = "use_notice" =>
       seen[s].quantity + 1 = Quantity(req[s].hunter, req[s].item)
  /\ pc[s] = "review_pay" =>
       /\ seen[s].coins + RewardCoins[req[s].quest] <= MaxI32
       /\ seen[s].xp + RewardXp[req[s].quest] <= MaxI32

\* Neither a review nor another purchase moves the coins of a hunter between the
\* lock of buy_item and its commit, and nothing moves a quantity between its lock
\* and its update; what a review is about to write passed its overflow checks.
LockedReadsHold == \A s \in Slots : ReadsHold(s)

\* Every bought item is in the inventory or was used and announced: the ledger,
\* the inventory and the chat agree although different handlers, in different
\* orders and possibly cut short, write them.
InventoryBalanced ==
  \A h \in Hunters, i \in Items :
    Quantity(h, i) + messages[<<h, i>>] =
      Cardinality({p \in purchases : p.hunter = h /\ p.item = i})

\* A balance can differ from the hunter's ledger only after a review wrote the
\* hunter's row from a read that another commit had overtaken: no purchase, use,
\* refusal, rollback or drop makes the two disagree.
LedgerBalanced ==
  \A h \in Hunters \ overwritten :
    hunters[h].coins = ledgerTotal[h].coins /\ hunters[h].xp = ledgerTotal[h].xp

\* A quest that reads as completed, and a habit done in this cycle, has been paid:
\* an overflow, a missing hunter, a deadlock or a crash during review_quest leaves
\* the quest unfinished.
CompletionIsPaid ==
  \A q \in Quests :
    (quests[q] = "completed" \/ q \in cycleDone) =>
      \E h \in Hunters : rewarded[<<h, q>>] > 0

\* The rollback path of buy_item always finds the row it lost to: "idempotency
\* replay record is missing" cannot be answered.
ReplayRecordPresent ==
  \A s \in Slots :
    pc[s] = "buy_lookup" => PurchasedWith(req[s].hunter, req[s].key) # {}

-------------------------------------------------------------------------------
(* Action properties.                                                      *)

\* The ledger is append-only, and the row of a hunter never moves without a new
\* ledger row of that hunter (docs/architecture.md).
LedgerExplainsCoins ==
  [][/\ purchases \subseteq purchases'
     /\ \A x \in Hunters \X Quests : rewarded'[x] >= rewarded[x]
     /\ \A h \in Hunters : hunters'[h] # hunters[h] =>
          \/ \E p \in purchases' \ purchases : p.hunter = h
          \/ \E q \in Quests : rewarded'[<<h, q>>] > rewarded[<<h, q>>]
    ]_vars

\* No purchase is committed for a hunter who has moved to another guild: buy_item
\* asks again under the lock, and the move waits for the lock.
PurchaseNeedsMember ==
  [][\A p \in purchases' \ purchases : p.hunter \in members]_vars

\* quests.rs refuses to review a quest that is not pending_review: a reward is
\* only ever paid for a quest that is pending at that moment.
RewardsPendingQuest ==
  [][\A h \in Hunters, q \in Quests :
       rewarded'[<<h, q>>] > rewarded[<<h, q>>] => quests[q] = "pending_review"]_vars

\* shop_tests.rs, buy_item_is_idempotent_by_key: a request whose key has already
\* bought its item is replayed.  One that passed its lookup before the first copy
\* committed must go on to the insert, where the unique index leads it to the
\* replay, and not be answered that the coins are not enough.
RetriesAreReplayed ==
  [][\A s \in Slots :
       (/\ pc[s] = "buy_lock"
        /\ req[s].hunter \in members
        /\ \E p \in PurchasedWith(req[s].hunter, req[s].key) : p.item = req[s].item)
       => pc'[s] # "idle"]_vars

\* docs/architecture.md: the ledger is the source of truth for rewards and the
\* stored balance a snapshot of it.
BalanceIsLedger ==
  \A h \in Hunters : hunters[h].coins = ledgerTotal[h].coins

-------------------------------------------------------------------------------
(* Refinement and liveness.                                                *)

Shop == INSTANCE GuildShop WITH
  coins <- [h \in Hunters |-> hunters[h].coins],
  stock <- [x \in Hunters \X Items |-> Quantity(x[1], x[2])],
  receipts <- purchases

\* However their statements interleave, buy_item and use_inventory_item act as
\* if each request ran alone.
ImplementsShop == Shop!Init /\ [][Shop!Next]_(Shop!shopVars)

\* Every request is answered: row locks are always released, also when a purchase
\* and a use of one hunter lock each other out.
EveryRequestAnswered == \A s \in Slots : pc[s] # "idle" ~> pc[s] = "idle"

\* Unless its handler is dropped, every committed use is announced to the presence
\* hub once the guild is quiet.
EveryUseAnnounced == <>[](notices = messages)
===============================================================================
