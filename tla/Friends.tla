-------------------------------- MODULE Friends --------------------------------
(***************************************************************************)
(* Friend links and friend requests.  A friendship is two friend_links     *)
(* rows, written in one transaction.  Two rows of one pair are refused by  *)
(* a unique index, and so is a second request in the same direction,       *)
(* whatever became of the first.  An INSERT that collides with a row of a  *)
(* transaction in flight waits for that transaction to end.                *)
(***************************************************************************)
EXTENDS Handlers, Sequences

CONSTANTS Hunters

VARIABLES
  links,        \* friend_links rows <<player, friend>> that are committed
  requests,     \* status of the friend_requests row of <<requester, target>>
  added,        \* history: pairs that add_friend has linked
  answeredTwice \* history: requests answered again by a handler that had read
                \* them pending

rowVars == <<links, requests, added, answeredTwice>>
vars == <<rowVars, handlerVars>>

-------------------------------------------------------------------------------
(* Rows, locks and helpers.                                                *)

Pairs == {p \in Hunters \X Hunters : p[1] # p[2]}   \* nobody befriends himself
Reverse(p) == <<p[2], p[1]>>

Status == {"absent", "pending", "accepted", "rejected"}

\* Rows of friend_links the open transaction of s has inserted
Wrote(s) == IF "wrote" \in DOMAIN task[s] THEN task[s].wrote ELSE {}

\* The friend_requests row the open transaction of s has updated
Locks(s, p) ==
  /\ At(s, "ensure") \/ At(s, "link")
  /\ task[s].answer = "accepted" /\ task[s].pair = p

\* The link s inserts next
Inserts(s) == IF At(s, "link") THEN task[s].todo[1] ELSE <<>>

\* The next statement of s needs a row that the transaction of t has written.
WaitsFor(s, t) ==
  /\ s # t
  /\ \/ Inserts(s) \in Wrote(t)
     \/ At(s, "respond_update") /\ Locks(t, task[s].pair)

Blocked(s) == \E t \in Slots : WaitsFor(s, t)

-------------------------------------------------------------------------------
(* Linking two hunters, for add_friend and for an accepted request.        *)

\* txn.commit() of links written before and of the answer that goes with them
Commit(s, wrote) ==
  LET t == task[s] IN
  /\ links' = links \cup wrote
  /\ IF t.answer = "accepted"
       THEN /\ requests' = [requests EXCEPT ![t.pair] = "accepted"]
            /\ answeredTwice' = answeredTwice \cup
                 {p \in {t.pair} : requests[p] # "pending"}
            /\ UNCHANGED added
       ELSE /\ added' = added \cup wrote
            /\ UNCHANGED <<requests, answeredTwice>>
  /\ Answer(s)

\* The link is there: on to the other one, which an accepted request looks for before
\* it inserts it, or commit.
Onward(s, wrote) ==
  LET t == task[s] IN
  IF Len(t.todo) = 1
    THEN Commit(s, wrote)
    ELSE /\ Continue(s, [t EXCEPT !.at = IF t.answer = "accepted" THEN "ensure" ELSE "link",
                                  !.todo = Tail(@), !.wrote = wrote])
         /\ UNCHANGED rowVars

\* ensure_friend_link looks for the link.
EnsureLink(s) ==
  LET t == task[s] IN
  /\ At(s, "ensure")
  /\ IF t.todo[1] \in links \cup t.wrote
       THEN Onward(s, t.wrote)
       ELSE Continue(s, [t EXCEPT !.at = "link"]) /\ UNCHANGED rowVars

\* mutant: no transaction, so that every link commits by itself
InsertLinkAutocommit(s) ==
  LET t == task[s] IN
  /\ At(s, "link")
  /\ ~Blocked(s)
  /\ \/ t.todo[1] \in links /\ Answer(s) /\ UNCHANGED rowVars
     \/ t.todo[1] \notin links /\ Len(t.todo) = 1 /\ Commit(s, {t.todo[1]})
     \/ /\ t.todo[1] \notin links /\ Len(t.todo) > 1
        /\ links' = links \cup {t.todo[1]}
        /\ Continue(s, [t EXCEPT !.todo = Tail(@)])
        /\ UNCHANGED <<requests, added, answeredTwice>>

\* INSERT of the next link: when the row has come into being meanwhile, the unique
\* index refuses it and the whole transaction is rolled back.
InsertLink(s) ==
  LET t == task[s] IN
  /\ At(s, "link")
  /\ ~Blocked(s)
  /\ IF t.todo[1] \in links
       THEN Answer(s) /\ UNCHANGED rowVars
       ELSE Onward(s, t.wrote \cup {t.todo[1]})

\* POST /social/friends: not with oneself, and nothing to do when the link is there
AddFriend(s, p) ==
  /\ p \in Pairs
  /\ p \notin links
  /\ Begin(s, [at |-> "link", pair |-> p, answer |-> "none",
               todo |-> <<p, Reverse(p)>>, wrote |-> {}])
  /\ UNCHANGED rowVars

-------------------------------------------------------------------------------
(* Friend requests.                                                        *)

\* POST /social/friend-requests: an existing link or a pending request in either
\* direction is answered at once.
BeginRequest(s, p) ==
  /\ p \in Pairs
  /\ p \notin links
  /\ requests[p] # "pending" /\ requests[Reverse(p)] # "pending"
  /\ Begin(s, [at |-> "request_insert", pair |-> p])
  /\ UNCHANGED rowVars

\* mutant: no unique index on (requester, target)
RequestInsertAnyway(s) ==
  LET p == task[s].pair IN
  /\ At(s, "request_insert")
  /\ requests' = [requests EXCEPT ![p] = "pending"]
  /\ Answer(s)
  /\ UNCHANGED <<links, added, answeredTwice>>

\* One row for ever per requester and target: an answered request stays answered.
RequestInsert(s) ==
  LET p == task[s].pair IN
  /\ At(s, "request_insert")
  /\ requests' = IF requests[p] = "absent" THEN [requests EXCEPT ![p] = "pending"]
                                           ELSE requests
  /\ Answer(s)
  /\ UNCHANGED <<links, added, answeredTwice>>

\* POST /social/friend-requests/{id}/respond, by the target
BeginRespond(s, p, answer) ==
  /\ requests[p] = "pending"
  /\ Begin(s, [at |-> "respond_update", pair |-> p, answer |-> answer])
  /\ UNCHANGED rowVars

\* An acceptance goes on to the links.
Linking(p) ==
  [at |-> "ensure", pair |-> p, answer |-> "accepted", todo |-> <<p, Reverse(p)>>, wrote |-> {}]

\* mutant: the answer is committed before the links
RespondUpdateFirst(s) ==
  LET p == task[s].pair IN
  /\ At(s, "respond_update")
  /\ ~Blocked(s)
  /\ requests' = [requests EXCEPT ![p] = task[s].answer]
  /\ answeredTwice' = answeredTwice \cup {r \in {p} : requests[r] # "pending"}
  /\ IF task[s].answer = "accepted" THEN Continue(s, Linking(p)) ELSE Answer(s)
  /\ UNCHANGED <<links, added>>

\* UPDATE by primary key, without a look at what the status is by now; a rejection
\* commits.
RespondUpdate(s) ==
  LET p == task[s].pair IN
  /\ At(s, "respond_update")
  /\ ~Blocked(s)
  /\ \/ /\ task[s].answer = "rejected"
        /\ requests' = [requests EXCEPT ![p] = "rejected"]
        /\ answeredTwice' = answeredTwice \cup {r \in {p} : requests[r] # "pending"}
        /\ Answer(s)
        /\ UNCHANGED <<links, added>>
     \/ /\ task[s].answer = "accepted"
        /\ Continue(s, Linking(p))
        /\ UNCHANGED rowVars

-------------------------------------------------------------------------------

\* mutant: the database does not look for deadlocks between inserts
AbortUpdateDeadlock(s) ==
  /\ At(s, "respond_update")
  /\ \E t \in Slots : WaitsFor(s, t) /\ WaitsFor(t, s)
  /\ Answer(s)
  /\ UNCHANGED rowVars

\* PostgreSQL breaks a cycle of two by failing one statement: its transaction is over.
DeadlockAbort(s) ==
  /\ \E t \in Slots : WaitsFor(s, t) /\ WaitsFor(t, s)
  /\ Answer(s)
  /\ UNCHANGED rowVars

\* The client goes away: a transaction that is open is rolled back.
Drop(s) == Abandon(s) /\ UNCHANGED rowVars

Init ==
  /\ links = {}
  /\ requests = [p \in Hunters \X Hunters |-> "absent"]
  /\ added = {}
  /\ answeredTwice = {}
  /\ HandlersInit

Run(s) ==
  EnsureLink(s) \/ InsertLink(s) \/ RequestInsert(s) \/ RespondUpdate(s) \/ DeadlockAbort(s)

Next == \E s \in Slots :
  \/ \E p \in Hunters \X Hunters :
       \/ AddFriend(s, p)
       \/ BeginRequest(s, p)
       \/ \E answer \in {"accepted", "rejected"} : BeginRespond(s, p, answer)
  \/ Run(s)
  \/ Drop(s)

\* The runtime polls every handler, and the database grants free locks.
Spec == Init /\ [][Next]_vars /\ \A s \in Slots : WF_vars(Run(s))

-------------------------------------------------------------------------------
(* Properties.                                                             *)

\* Rows have their types, and only pairs of two hunters are linked or asked.
TypeOK ==
  /\ links \subseteq Pairs
  /\ requests \in [Hunters \X Hunters -> Status]
  /\ \A h \in Hunters : requests[<<h, h>>] = "absent"
  /\ added \subseteq Pairs
  /\ answeredTwice \subseteq Pairs

\* A friendship is seen from both sides or from none, although its two rows are two
\* statements of two possible handlers that may collide on either.
LinksSymmetric == \A p \in links : Reverse(p) \in links

\* The status of a request tells whether the two are friends: accepted means linked,
\* and a rejected request of linked hunters was linked some other way, or else two
\* answers overlapped and the last one won.
AnswerMatchesLinks ==
  \A p \in Pairs :
    /\ requests[p] = "accepted" => p \in links
    /\ requests[p] = "rejected" /\ p \in links =>
         \/ p \in answeredTwice
         \/ requests[Reverse(p)] = "accepted" \/ Reverse(p) \in answeredTwice
         \/ {p, Reverse(p)} \cap added # {}

\* An answered request is never pending again, not even when the requester asks
\* anew: request_friend looks only for pending rows and leaves it to the index.
AnswersStand ==
  [][\A p \in Pairs : requests[p] \in {"accepted", "rejected"}
        => requests'[p] \in {"accepted", "rejected"}]_vars

\* Handlers that wait for each other's links do not wait for ever.
EveryRequestAnswered == \A s \in Slots : task[s] # Idle ~> task[s] = Idle
===============================================================================
