---------------------------- MODULE Friends_proofs -----------------------------
(***************************************************************************)
(* Proofs about Friends, for any hunters and any number of requests.       *)
(***************************************************************************)
EXTENDS Friends, TLAPS

-------------------------------------------------------------------------------
(* What the handlers hold.                                                 *)

\* A handler that links two hunters has both links before it, or the second one and
\* the first behind it, inserted or found.
LinkTask ==
  {t \in [at : {"ensure", "link"}, pair : Pairs, answer : {"none", "accepted"},
          todo : Seq(Pairs), wrote : SUBSET Pairs] :
     \/ t.todo = <<t.pair, Reverse(t.pair)>> /\ t.wrote = {}
     \/ t.todo = <<Reverse(t.pair)>> /\ t.wrote \subseteq {t.pair}}

RequestTask == [at : {"request_insert"}, pair : Pairs]

RespondTask == [at : {"respond_update"}, pair : Pairs, answer : {"accepted", "rejected"}]

Task == LinkTask \cup RequestTask \cup RespondTask \cup {Idle}

\* The first link is there, committed or not, once only the second is to be done; an
\* added link is inserted by its own handler.
FirstLinkThere ==
  \A s \in Slots : At(s, "ensure") \/ At(s, "link") =>
    LET t == task[s] IN
    Len(t.todo) = 1 =>
      /\ t.pair \in links \cup t.wrote
      /\ t.answer = "none" => t.wrote = {t.pair}

\* A handler that looks for links before it inserts them is answering a request.
EnsureAnswers == \A s \in Slots : At(s, "ensure") => task[s].answer = "accepted"

TypeInv == TypeOK /\ task \in [Slots -> Task] /\ left \in Nat

\* What made two hunters friends is on record.
LinkExplained(p) ==
  \/ requests[p] = "accepted" \/ p \in answeredTwice
  \/ requests[Reverse(p)] = "accepted" \/ Reverse(p) \in answeredTwice
  \/ {p, Reverse(p)} \cap added # {}

LinksExplained == \A p \in links : LinkExplained(p)

AcceptedLinked == \A p \in Pairs : requests[p] = "accepted" => p \in links

FriendsInv ==
  /\ TypeInv
  /\ FirstLinkThere
  /\ EnsureAnswers
  /\ LinksSymmetric
  /\ LinksExplained
  /\ AcceptedLinked

\* The reverse of a pair is a pair, and its reverse is the pair.
LEMMA ReversePair ==
  \A p \in Pairs : Reverse(p) \in Pairs /\ Reverse(Reverse(p)) = p /\ Reverse(p) # p
  BY DEF Pairs, Reverse

\* A pair is a pair of hunters.
LEMMA PairOfHunters == \A p \in Pairs : p \in Hunters \X Hunters
  BY DEF Pairs

\* Initially nothing is linked, asked or under way.
LEMMA FriendsInit == Init => FriendsInv
<1> SUFFICES ASSUME Init PROVE FriendsInv
  OBVIOUS
<1> USE DEF Init, HandlersInit, Idle
<1>1. TypeInv
  BY HandlersAssumption DEF TypeInv, TypeOK, Status, Task
<1>2. FirstLinkThere /\ EnsureAnswers
  BY DEF FirstLinkThere, EnsureAnswers, At
<1>3. LinksSymmetric /\ LinksExplained /\ AcceptedLinked
  BY DEF LinksSymmetric, LinksExplained, AcceptedLinked, Pairs
<1> QED BY <1>1, <1>2, <1>3 DEF FriendsInv

-------------------------------------------------------------------------------
(* Steps that only move a handler.                                         *)

\* A handler that moves to a task of its kind, with the rows as they are.
LEMMA HandlerMoves ==
  ASSUME FriendsInv, NEW s \in Slots, NEW t \in Task, UNCHANGED rowVars,
         task' = [task EXCEPT ![s] = t], left' \in Nat,
         t.at = "ensure" => t.answer = "accepted",
         t.at \in {"ensure", "link"} /\ Len(t.todo) = 1 =>
           t.pair \in links \cup t.wrote /\ (t.answer = "none" => t.wrote = {t.pair})
  PROVE  FriendsInv'
<1> USE DEF FriendsInv, rowVars
<1>1. TypeInv'
  BY DEF TypeInv, TypeOK
<1>2. \A r \in Slots : task'[r] = IF r = s THEN t ELSE task[r]
  BY DEF TypeInv
<1>3. FirstLinkThere'
  BY <1>2 DEF FirstLinkThere, At
<1>4. EnsureAnswers'
  BY <1>2 DEF EnsureAnswers, At
<1>5. LinksSymmetric' /\ LinksExplained' /\ AcceptedLinked'
  BY DEF LinksSymmetric, LinksExplained, LinkExplained, AcceptedLinked
<1> QED BY <1>1, <1>3, <1>4, <1>5

\* A handler that returns, fails or is dropped with the rows as they are.
LEMMA HandlerEnds ==
  ASSUME FriendsInv, NEW s \in Slots, Answer(s), UNCHANGED rowVars
  PROVE  FriendsInv'
<1>1. Idle \in Task /\ Idle.at = "idle"
  BY DEF Task, Idle
<1>2. left' \in Nat /\ task' = [task EXCEPT ![s] = Idle]
  BY DEF Answer, Continue, FriendsInv, TypeInv
<1> QED BY <1>1, <1>2, HandlerMoves

\* A request that is taken up.
LEMMA HandlerBegins ==
  ASSUME FriendsInv, NEW s \in Slots, NEW t \in Task, Begin(s, t), UNCHANGED rowVars,
         t.at \in {"link", "request_insert", "respond_update"},
         t.at = "link" => Len(t.todo) # 1
  PROVE  FriendsInv'
<1>1. left' \in Nat /\ task' = [task EXCEPT ![s] = t]
  BY DEF Begin, FriendsInv, TypeInv
<1> QED BY <1>1, HandlerMoves

\* The tasks that link a pair from the start.
LEMMA LinkTasks ==
  ASSUME NEW p \in Pairs, NEW at \in {"ensure", "link"}, NEW answer \in {"none", "accepted"}
  PROVE  LET t == [at |-> at, pair |-> p, answer |-> answer,
                   todo |-> <<p, Reverse(p)>>, wrote |-> {}]
         IN t \in Task /\ Len(t.todo) = 2
<1>1. <<p, Reverse(p)>> \in Seq(Pairs)
  BY ReversePair
<1> QED BY <1>1 DEF Task, LinkTask

\* A handler that is linking has a task of that kind.
LEMMA LinkingHandler ==
  ASSUME FriendsInv, NEW s \in Slots, At(s, "ensure") \/ At(s, "link")
  PROVE  task[s] \in LinkTask
  BY DEF FriendsInv, TypeInv, Task, RequestTask, RespondTask, Idle, At

\* A handler that is answering a request has a task of that kind.
LEMMA RespondingHandler ==
  ASSUME FriendsInv, NEW s \in Slots, At(s, "respond_update")
  PROVE  task[s] \in RespondTask
  BY DEF FriendsInv, TypeInv, Task, RequestTask, LinkTask, Idle, At

-------------------------------------------------------------------------------
(* Commits.                                                                *)

\* A commit of both links of a pair, those that were there already included.
LEMMA CommitStep ==
  ASSUME FriendsInv, NEW s \in Slots, NEW wrote, task[s] \in LinkTask, Commit(s, wrote),
         wrote \subseteq {task[s].pair, Reverse(task[s].pair)},
         {task[s].pair, Reverse(task[s].pair)} \subseteq links \cup wrote,
         task[s].answer = "none" => wrote = {task[s].pair, Reverse(task[s].pair)}
  PROVE  FriendsInv'
<1> DEFINE p == task[s].pair
<1>p. /\ p \in Pairs /\ Reverse(p) \in Pairs /\ Reverse(Reverse(p)) = p
      /\ task[s].answer \in {"none", "accepted"}
  BY ReversePair DEF LinkTask
<1>l. links' = links \cup wrote /\ Answer(s)
  BY DEF Commit
<1>t. \A r \in Slots : task'[r] = IF r = s THEN Idle ELSE task[r]
  BY <1>l DEF Answer, Continue, FriendsInv, TypeInv
<1>r. /\ \A q \in Pairs : requests'[q] = IF q = p /\ task[s].answer = "accepted"
                                       THEN "accepted" ELSE requests[q]
      /\ requests' \in [Hunters \X Hunters -> Status]
      /\ \A h \in Hunters : requests'[<<h, h>>] = "absent"
  <2>1. <<p[1], p[2]>> = p /\ p[1] # p[2] /\ "accepted" \in Status
    BY <1>p DEF Pairs, Status
  <2>2. CASE task[s].answer = "accepted"
    BY <1>p, <2>1, <2>2, PairOfHunters DEF Commit, FriendsInv, TypeInv, TypeOK
  <2>3. CASE task[s].answer = "none"
    BY <2>3 DEF Commit, FriendsInv, TypeInv, TypeOK
  <2> QED BY <1>p, <2>2, <2>3
<1>h. /\ answeredTwice \subseteq answeredTwice' /\ answeredTwice' \subseteq Pairs
      /\ added \subseteq added' /\ added' \subseteq Pairs
      /\ task[s].answer = "none" => {p, Reverse(p)} \subseteq added'
  BY <1>p DEF Commit, FriendsInv, TypeInv, TypeOK
<1>1. TypeInv'
  <2>1. task' \in [Slots -> Task] /\ left' \in Nat
    BY <1>l DEF Answer, Continue, FriendsInv, TypeInv, Task
  <2> QED BY <1>p, <1>l, <1>r, <1>h, <2>1 DEF FriendsInv, TypeInv, TypeOK
<1>2. FirstLinkThere'
  BY <1>t, <1>l DEF FriendsInv, FirstLinkThere, At, Idle
<1>3. EnsureAnswers'
  BY <1>t DEF FriendsInv, EnsureAnswers, At, Idle
<1>4. LinksSymmetric'
  BY <1>p, <1>l DEF FriendsInv, LinksSymmetric
<1>5. ASSUME NEW q \in links' PROVE LinkExplained(q)'
  <2>1. q \in Pairs /\ Reverse(q) \in Pairs
    BY <1>p, <1>l, ReversePair DEF FriendsInv, TypeInv, TypeOK
  <2>2. CASE q \in links
    BY <1>r, <1>h, <2>1, <2>2 DEF FriendsInv, LinksExplained, LinkExplained
  <2>3. CASE q \in {p, Reverse(p)}
    BY <1>p, <1>r, <1>h, <2>1, <2>3 DEF LinkExplained
  <2> QED BY <1>l, <2>2, <2>3
<1>6. AcceptedLinked'
  BY <1>p, <1>l, <1>r DEF FriendsInv, AcceptedLinked
<1> QED BY <1>1, <1>2, <1>3, <1>4, <1>5, <1>6 DEF FriendsInv, LinksExplained
\* The next link is there or has been inserted: the handler goes on to the second one,
\* or commits.
LEMMA OnwardStep ==
  ASSUME FriendsInv, NEW s \in Slots, task[s] \in LinkTask, NEW wrote, Onward(s, wrote),
         task[s].todo[1] \in links \cup wrote,
         wrote \in {task[s].wrote, task[s].wrote \cup {task[s].todo[1]}},
         task[s].answer = "none" => wrote = task[s].wrote \cup {task[s].todo[1]}
  PROVE  FriendsInv'
<1> DEFINE t == task[s]
           p == t.pair
<1>p. p \in Pairs /\ Reverse(p) \in Pairs /\ Reverse(p) # p
  BY ReversePair DEF LinkTask
<1>1. CASE t.todo = <<p, Reverse(p)>> /\ t.wrote = {}
  <2> DEFINE u == [t EXCEPT !.at = IF t.answer = "accepted" THEN "ensure" ELSE "link",
                            !.todo = Tail(@), !.wrote = wrote]
  <2>1. Len(t.todo) = 2 /\ t.todo[1] = p /\ Tail(t.todo) = <<Reverse(p)>>
    BY <1>1
  <2>2. Continue(s, u) /\ UNCHANGED rowVars
    BY <2>1 DEF Onward
  <2>3. u.todo = <<Reverse(p)>> /\ u.todo \in Seq(Pairs) /\ u.wrote = wrote
    BY <1>p, <2>1 DEF LinkTask
  <2>4. /\ u.pair = p /\ u.answer = t.answer /\ u.at \in {"ensure", "link"}
        /\ u.at = "ensure" <=> u.answer = "accepted"
    BY DEF LinkTask
  <2>5. wrote \subseteq {p} /\ (u.answer = "none" => wrote = {p})
    BY <1>1, <2>1, <2>4
  <2>6. u \in Task
    BY <1>p, <2>3, <2>4, <2>5 DEF LinkTask, Task
  <2>7. task' = [task EXCEPT ![s] = u] /\ left' \in Nat
    BY <2>2 DEF Continue, FriendsInv, TypeInv
  <2>8. p \in links \cup u.wrote
    BY <2>1, <2>3
  <2> HIDE DEF u
  <2> QED BY <2>2, <2>4, <2>5, <2>3, <2>6, <2>7, <2>8, HandlerMoves
<1>2. CASE t.todo = <<Reverse(p)>> /\ t.wrote \subseteq {p}
  <2>1. Len(t.todo) = 1 /\ t.todo[1] = Reverse(p)
    BY <1>2
  <2>2. Commit(s, wrote)
    BY <2>1 DEF Onward
  <2>3. p \in links \cup t.wrote /\ (t.answer = "none" => t.wrote = {p})
    BY <2>1 DEF FriendsInv, FirstLinkThere, LinkTask, At
  <2> QED BY <1>2, <2>1, <2>2, <2>3, CommitStep
<1> QED BY <1>1, <1>2 DEF LinkTask

-------------------------------------------------------------------------------
(* The step.                                                               *)

\* A row that a request inserts, and an answer that rejects, leave the links alone.
LEMMA RequestStep ==
  ASSUME FriendsInv, NEW s \in Slots, NEW p \in Pairs, NEW status \in {"pending", "rejected"},
         Answer(s), UNCHANGED <<links, added>>,
         requests' = [requests EXCEPT ![p] = status],
         \/ requests[p] = "absent" /\ answeredTwice' = answeredTwice
         \/ /\ status = "rejected"
            /\ answeredTwice' = answeredTwice \cup {r \in {p} : requests[r] # "pending"}
  PROVE  FriendsInv'
<1>t. \A r \in Slots : task'[r] = IF r = s THEN Idle ELSE task[r]
  BY DEF Answer, Continue, FriendsInv, TypeInv
<1>r. /\ \A q \in Pairs : requests'[q] = IF q = p THEN status ELSE requests[q]
      /\ requests' \in [Hunters \X Hunters -> Status]
      /\ \A h \in Hunters : requests'[<<h, h>>] = "absent"
  <2>1. <<p[1], p[2]>> = p /\ p[1] # p[2] /\ status \in Status
    BY DEF Pairs, Status
  <2> QED BY <2>1, PairOfHunters DEF FriendsInv, TypeInv, TypeOK
<1>h. /\ answeredTwice \subseteq answeredTwice' /\ answeredTwice' \subseteq Pairs
      /\ requests[p] = "accepted" => p \in answeredTwice'
  BY DEF FriendsInv, TypeInv, TypeOK
<1>1. TypeInv'
  <2>1. task' \in [Slots -> Task] /\ left' \in Nat
    BY DEF Answer, Continue, FriendsInv, TypeInv, Task
  <2> QED BY <1>r, <1>h, <2>1 DEF FriendsInv, TypeInv, TypeOK
<1>2. FirstLinkThere' /\ EnsureAnswers'
  BY <1>t DEF FriendsInv, FirstLinkThere, EnsureAnswers, At, Idle
<1>3. LinksSymmetric'
  BY DEF FriendsInv, LinksSymmetric
<1>4. ASSUME NEW q \in links' PROVE LinkExplained(q)'
  <2>1. q \in links /\ q \in Pairs /\ Reverse(q) \in Pairs
    BY ReversePair DEF FriendsInv, TypeInv, TypeOK
  <2> QED BY <1>r, <1>h, <2>1 DEF FriendsInv, LinksExplained, LinkExplained
<1>5. AcceptedLinked'
  BY <1>r DEF FriendsInv, AcceptedLinked
<1> QED BY <1>1, <1>2, <1>3, <1>4, <1>5 DEF FriendsInv, LinksExplained

\* Every step keeps the invariant.
LEMMA FriendsStep == FriendsInv /\ [Next]_vars => FriendsInv'
<1> SUFFICES ASSUME FriendsInv, [Next]_vars PROVE FriendsInv'
  OBVIOUS
<1>0. CASE UNCHANGED vars
  BY <1>0 DEF vars, rowVars, handlerVars, FriendsInv, TypeInv, TypeOK, FirstLinkThere, EnsureAnswers,
              LinksSymmetric, LinksExplained, LinkExplained, AcceptedLinked, At
<1>1. ASSUME NEW s \in Slots, NEW p \in Hunters \X Hunters, AddFriend(s, p)
      PROVE  FriendsInv'
  <2> DEFINE t == [at |-> "link", pair |-> p, answer |-> "none",
                   todo |-> <<p, Reverse(p)>>, wrote |-> {}]
  <2>1. t \in Task /\ Len(t.todo) = 2 /\ t.at = "link"
    BY <1>1, LinkTasks DEF AddFriend
  <2>2. Begin(s, t) /\ UNCHANGED rowVars
    BY <1>1 DEF AddFriend
  <2> HIDE DEF t
  <2> QED BY <2>1, <2>2, HandlerBegins
<1>2. ASSUME NEW s \in Slots, NEW p \in Hunters \X Hunters, BeginRequest(s, p)
      PROVE  FriendsInv'
  <2> DEFINE t == [at |-> "request_insert", pair |-> p]
  <2>1. t \in Task /\ t.at = "request_insert"
    BY <1>2 DEF BeginRequest, Task, RequestTask
  <2>2. Begin(s, t) /\ UNCHANGED rowVars
    BY <1>2 DEF BeginRequest
  <2> HIDE DEF t
  <2> QED BY <2>1, <2>2, HandlerBegins
<1>3. ASSUME NEW s \in Slots, NEW p \in Hunters \X Hunters,
             NEW answer \in {"accepted", "rejected"}, BeginRespond(s, p, answer)
      PROVE  FriendsInv'
  <2> DEFINE t == [at |-> "respond_update", pair |-> p, answer |-> answer]
  <2>1. p \in Pairs
    BY <1>3 DEF BeginRespond, FriendsInv, TypeInv, TypeOK, Pairs
  <2>2. t \in Task /\ t.at = "respond_update"
    BY <2>1 DEF Task, RespondTask
  <2>3. Begin(s, t) /\ UNCHANGED rowVars
    BY <1>3 DEF BeginRespond
  <2> HIDE DEF t
  <2> QED BY <2>2, <2>3, HandlerBegins
<1>4. ASSUME NEW s \in Slots, EnsureLink(s) PROVE FriendsInv'
  <2>1. task[s] \in LinkTask /\ task[s].answer = "accepted" /\ task[s].at = "ensure"
    BY <1>4, LinkingHandler DEF EnsureLink, FriendsInv, EnsureAnswers, At
  <2>2. CASE task[s].todo[1] \in links \cup task[s].wrote
    BY <1>4, <2>1, <2>2, OnwardStep DEF EnsureLink
  <2>3. CASE task[s].todo[1] \notin links \cup task[s].wrote
    <3> DEFINE u == [task[s] EXCEPT !.at = "link"]
    <3>1. /\ u.at = "link" /\ u.pair = task[s].pair /\ u.todo = task[s].todo
          /\ u.wrote = task[s].wrote /\ u.answer = task[s].answer /\ u \in LinkTask
      BY <2>1 DEF LinkTask
    <3>2. Continue(s, u) /\ UNCHANGED rowVars
      BY <1>4, <2>3 DEF EnsureLink
    <3>3. task' = [task EXCEPT ![s] = u] /\ left' \in Nat /\ u \in Task
      BY <3>1, <3>2 DEF Continue, FriendsInv, TypeInv, Task
    <3>4. Len(u.todo) = 1 => u.pair \in links \cup u.wrote
      BY <2>1, <3>1 DEF FriendsInv, FirstLinkThere, At
    <3>5. u.answer # "none"
      BY <2>1, <3>1
    <3> HIDE DEF u
    <3> QED BY <3>1, <3>2, <3>3, <3>4, <3>5, HandlerMoves
  <2> QED BY <2>2, <2>3
<1>5. ASSUME NEW s \in Slots, InsertLink(s) PROVE FriendsInv'
  <2>1. task[s] \in LinkTask
    BY <1>5, LinkingHandler DEF InsertLink
  <2>2. CASE task[s].todo[1] \in links
    BY <1>5, <2>2, HandlerEnds DEF InsertLink
  <2>3. CASE task[s].todo[1] \notin links
    BY <1>5, <2>1, <2>3, OnwardStep DEF InsertLink
  <2> QED BY <2>2, <2>3
<1>6. ASSUME NEW s \in Slots, RequestInsert(s) PROVE FriendsInv'
  <2> DEFINE p == task[s].pair
  <2>1. p \in Pairs
    BY <1>6 DEF RequestInsert, FriendsInv, TypeInv, Task, LinkTask, RespondTask, RequestTask, Idle, At
  <2>2. CASE requests[p] = "absent"
    BY <1>6, <2>1, <2>2, RequestStep DEF RequestInsert
  <2>3. CASE requests[p] # "absent"
    BY <1>6, <2>3, HandlerEnds DEF RequestInsert, rowVars
  <2> QED BY <2>2, <2>3
<1>7. ASSUME NEW s \in Slots, RespondUpdate(s) PROVE FriendsInv'
  <2> DEFINE p == task[s].pair
  <2>1. p \in Pairs
    BY <1>7, RespondingHandler DEF RespondUpdate, RespondTask
  <2>2. CASE task[s].answer = "rejected"
    BY <1>7, <2>1, <2>2, RequestStep DEF RespondUpdate
  <2>3. CASE task[s].answer = "accepted"
    <3> DEFINE u == Linking(p)
    <3>1. Continue(s, u) /\ UNCHANGED rowVars
      BY <1>7, <2>3 DEF RespondUpdate
    <3>2. u \in Task /\ Len(u.todo) = 2 /\ u.answer = "accepted" /\ u.at = "ensure"
      BY <2>1, LinkTasks DEF Linking
    <3>3. task' = [task EXCEPT ![s] = u] /\ left' \in Nat
      BY <3>1 DEF Continue, FriendsInv, TypeInv
    <3> HIDE DEF u
    <3>4. Len(u.todo) # 1
      BY <3>2
    <3> QED BY <3>1, <3>2, <3>3, <3>4, HandlerMoves
  <2>4. task[s].answer \in {"accepted", "rejected"}
    BY <1>7 DEF RespondUpdate
  <2> QED BY <2>2, <2>3, <2>4
<1>8. ASSUME NEW s \in Slots, DeadlockAbort(s) \/ Drop(s) PROVE FriendsInv'
  BY <1>8, HandlerEnds DEF DeadlockAbort, Drop, Abandon
<1> QED BY <1>0, <1>1, <1>2, <1>3, <1>4, <1>5, <1>6, <1>7, <1>8 DEF Next, Run

-------------------------------------------------------------------------------
(* Theorems.                                                               *)

\* FriendsInv is an invariant.
LEMMA FriendsInvariant == Spec => []FriendsInv
  BY FriendsInit, FriendsStep, PTL DEF Spec

\* Rows have their types, however handlers overlap.
THEOREM FriendsTypes == Spec => []TypeOK
<1>1. FriendsInv => TypeOK
  BY DEF FriendsInv, TypeInv
<1> QED BY <1>1, FriendsInvariant, PTL

\* Friendships are mutual, although add_friend and respond_friend_request insert the
\* two rows one after the other.
THEOREM FriendshipsAreMutual == Spec => []LinksSymmetric
<1>1. FriendsInv => LinksSymmetric
  BY DEF FriendsInv
<1> QED BY <1>1, FriendsInvariant, PTL

\* An accepted request has linked its two hunters, and a rejected one has not: what
\* linked them is another answer or add_friend.
THEOREM AnswersExplainLinks == Spec => []AnswerMatchesLinks
<1>1. FriendsInv => AnswerMatchesLinks
  BY DEF FriendsInv, AcceptedLinked, LinksExplained, LinkExplained, AnswerMatchesLinks
<1> QED BY <1>1, FriendsInvariant, PTL

\* request_friend and respond_friend_request never make an answered request pending.
THEOREM AnswersAreFinal == Spec => AnswersStand
<1> DEFINE Final == \A p \in Pairs : requests[p] \in {"accepted", "rejected"}
                      => requests'[p] \in {"accepted", "rejected"}
<1>1. ASSUME FriendsInv, [Next]_vars PROVE [Final]_vars
  <2>0. ASSUME NEW p, NEW status \in {"accepted", "rejected"},
               requests' = [requests EXCEPT ![p] = status]
        PROVE  Final
    <3>1. \A q \in Pairs : requests'[q] = IF q = p THEN status ELSE requests[q]
      BY <1>1, <2>0, PairOfHunters DEF FriendsInv, TypeInv, TypeOK
    <3> QED BY <3>1
  <2>1. ASSUME NEW s \in Slots, NEW wrote, Commit(s, wrote) PROVE Final
    BY <2>0, <2>1 DEF Commit
  <2>2. ASSUME NEW s \in Slots, NEW wrote, Onward(s, wrote) PROVE Final
    BY <2>1, <2>2 DEF Onward, rowVars
  <2>3. ASSUME NEW s \in Slots, Run(s) PROVE Final
    <3>1. ASSUME RequestInsert(s) PROVE Final
      <4> DEFINE p == task[s].pair
      <4>1. CASE requests[p] = "absent"
        <5>1. \A q \in Pairs : requests'[q] = IF q = p THEN "pending" ELSE requests[q]
          BY <1>1, <3>1, <4>1, PairOfHunters DEF RequestInsert, FriendsInv, TypeInv, TypeOK
        <5> QED BY <4>1, <5>1
      <4>2. CASE requests[p] # "absent"
        BY <3>1, <4>2 DEF RequestInsert
      <4> QED BY <4>1, <4>2
    <3>2. ASSUME RespondUpdate(s) PROVE Final
      BY <2>0, <3>2 DEF RespondUpdate, rowVars
    <3>3. ASSUME EnsureLink(s) \/ InsertLink(s) \/ DeadlockAbort(s) PROVE Final
      BY <2>2, <3>3 DEF EnsureLink, InsertLink, DeadlockAbort, rowVars
    <3> QED BY <2>3, <3>1, <3>2, <3>3 DEF Run
  <2>4. ASSUME NEW s \in Slots, Drop(s) PROVE Final
    BY <2>4 DEF Drop, rowVars
  <2>5. ASSUME NEW s \in Slots, NEW p \in Hunters \X Hunters,
               \/ AddFriend(s, p) \/ BeginRequest(s, p)
               \/ \E answer \in {"accepted", "rejected"} : BeginRespond(s, p, answer)
        PROVE  Final
    BY <2>5 DEF AddFriend, BeginRequest, BeginRespond, rowVars
  <2> QED BY <1>1, <2>3, <2>4, <2>5 DEF Next
<1> QED BY <1>1, FriendsInvariant, PTL DEF Spec, AnswersStand
===============================================================================
