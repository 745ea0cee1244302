----------------------------- MODULE Habits_proofs -----------------------------
(***************************************************************************)
(* Proofs about Habits, for any habits, any days and any number of         *)
(* requests.                                                               *)
(***************************************************************************)
EXTENDS Habits, FiniteSetTheorems, SequenceTheorems, TLAPS

-------------------------------------------------------------------------------
(* What the handlers hold.                                                 *)

SubmitTask == [at : {"submit_write"}, habit : Habits, row : Row]

ReadTask == [at : {"review_read"}, habit : Habits, approved : BOOLEAN, day : Nat]

WriteTask == [at : {"approve_write", "reject_write"}, habit : Habits, day : Nat,
              late : BOOLEAN, row : Row]

Task == SubmitTask \cup ReadTask \cup WriteTask \cup {Idle}

TypeInv ==
  /\ TypeOK
  /\ paid \in [Habits -> Seq(Nat)]
  /\ task \in [Slots -> Task]
  /\ left \in Nat

HoldsRow(s) == task[s] \in SubmitTask \cup WriteTask

\* Rows that are read stay there, and nobody is ahead of the clock.
RowPast(row) == row.last # NoDay => row.last <= today

ClockInv ==
  /\ \A q \in Habits : habit[q] # NoRow => RowPast(habit[q])
  /\ \A s \in Slots :
       /\ task[s] # Idle => habit[task[s].habit] # NoRow
       /\ HoldsRow(s) => RowPast(task[s].row)
       /\ task[s] \in ReadTask \cup WriteTask => task[s].day <= today

Counted(row, q) ==
  row.streak <= row.best /\ row.best <= row.completions /\ row.completions <= Len(paid[q])

\* CountsOrdered, of the rows that handlers hold too
CountInv ==
  /\ CountsOrdered
  /\ \A s \in Slots : HoldsRow(s) => Counted(task[s].row, task[s].habit)

\* The cycle of this day comes after the one the row was last completed in.
Due(row, day) ==
  row.last # NoDay => Cycle(row.cadence, row.last) < Cycle(row.cadence, day)

\* A submission is due when it is written and stays so, and an approval that nobody
\* has disturbed is of a row that was due on its day.
DueInv ==
  /\ \A q \in Habits \ disturbed :
       habit[q] # NoRow /\ habit[q].status = "pending_review" => Due(habit[q], today)
  /\ \A s \in Slots :
       /\ At(s, "submit_write") => Due(task[s].row, today)
       /\ /\ At(s, "approve_write") /\ ~task[s].late
          /\ task[s].habit \notin disturbed
          => Due(task[s].row, task[s].day)

\* The approvals of an undisturbed habit are in cycles that go up, and its row tells
\* how many there are and when the last one was.
Increasing(q) ==
  /\ habit[q].completions = Len(paid[q])
  /\ habit[q].last = IF paid[q] = <<>> THEN NoDay ELSE paid[q][Len(paid[q])]
  /\ \A i, j \in DOMAIN paid[q] : i < j =>
       Cycle(habit[q].cadence, paid[q][i]) < Cycle(habit[q].cadence, paid[q][j])

PaidInv ==
  \A q \in Habits \ disturbed :
    IF habit[q] = NoRow THEN paid[q] = <<>> ELSE Increasing(q)

HabitsInv == TypeInv /\ ClockInv /\ CountInv /\ DueInv /\ PaidInv

-------------------------------------------------------------------------------
(* Cycles and rows.                                                        *)

\* Two days have the same anchor when they are in the same cycle, and cycles do not
\* go back.
LEMMA AnchorIsCycle ==
  ASSUME NEW c \in Cadence, NEW a \in Nat, NEW b \in Nat
  PROVE  /\ Anchor(c, a) = Anchor(c, b) <=> Cycle(c, a) = Cycle(c, b)
         /\ a <= b => Cycle(c, a) <= Cycle(c, b)
         /\ Cycle(c, a) \in Nat
<1>1. \A d \in Nat : d = 7 * (d \div 7) + (d % 7) /\ d % 7 \in 0 .. 6 /\ d \div 7 \in Nat
  OBVIOUS
<1>2. PICK x, y, u, v \in Nat : /\ x = a \div 7 /\ u = a % 7 /\ y = b \div 7 /\ v = b % 7
  BY <1>1
<1>3. /\ a = 7 * x + u /\ b = 7 * y + v /\ u < 7 /\ v < 7
  BY <1>1, <1>2
<1>4. a - u = b - v <=> x = y
  BY <1>3
<1>5. a <= b => x <= y
  BY <1>3
<1>6. u <= a /\ v <= b
  BY <1>3
<1> QED BY <1>2, <1>4, <1>5, <1>6 DEF Anchor, Cycle, MinusDays, Cadence

\* What is not completed in this cycle, and not ahead of it, is due.
LEMMA NotCompletedIsDue ==
  ASSUME NEW row \in Row, NEW day \in Nat, ~AlreadyCompleted(row, day),
         row.last # NoDay => row.last <= day
  PROVE  Due(row, day)
<1> SUFFICES ASSUME row.last # NoDay PROVE Cycle(row.cadence, row.last) < Cycle(row.cadence, day)
  BY DEF Due
<1>1. row.last \in Nat /\ row.cadence \in Cadence
  BY DEF Row
<1>2. Anchor(row.cadence, row.last) # Anchor(row.cadence, day)
  BY DEF AlreadyCompleted
<1> QED BY <1>1, <1>2, AnchorIsCycle

\* What is due stays due.
LEMMA DueLater ==
  ASSUME NEW row \in Row, NEW day \in Nat, NEW later \in Nat, day <= later, Due(row, day)
  PROVE  Due(row, later)
<1> SUFFICES ASSUME row.last # NoDay PROVE Cycle(row.cadence, row.last) < Cycle(row.cadence, later)
  BY DEF Due
<1>1. row.last \in Nat /\ row.cadence \in Cadence
  BY DEF Row
<1> QED BY <1>1, AnchorIsCycle DEF Due

\* A completion is a row that is available, counts one more and keeps the counts in order.
LEMMA CompletedRow ==
  ASSUME NEW row \in Row, NEW day \in Nat
  PROVE  LET new == Completed(row, day) IN
         /\ new \in Row
         /\ new.status = "available" /\ new.cadence = row.cadence
         /\ new.completions = row.completions + 1 /\ new.last = day
         /\ row.streak <= row.best /\ row.best <= row.completions =>
              new.streak <= new.best /\ new.best <= new.completions
<1> DEFINE n == NextStreak(row, day)
           b == Larger(row.best, n)
<1>1. /\ row.streak \in Nat /\ row.best \in Nat /\ row.completions \in Nat
      /\ row.cadence \in Cadence /\ DOMAIN row = {"status", "cadence", "streak", "best",
                                                  "completions", "last"}
  BY DEF Row
<1>2. n \in Nat /\ n <= row.streak + 1
  BY <1>1 DEF NextStreak
<1>3. b \in Nat /\ n <= b /\ b \in {row.best, n}
  BY <1>1, <1>2 DEF Larger
<1>4. Completed(row, day) =
        [row EXCEPT !.status = "available", !.streak = n, !.best = b,
                    !.completions = row.completions + 1, !.last = day]
  BY DEF Completed
<1> HIDE DEF n, b
<1>5. /\ Completed(row, day).status = "available"
      /\ Completed(row, day).cadence = row.cadence
      /\ Completed(row, day).streak = n
      /\ Completed(row, day).best = b
      /\ Completed(row, day).completions = row.completions + 1
      /\ Completed(row, day).last = day
  BY <1>1, <1>4
<1>7. Completed(row, day) = [status |-> "available", cadence |-> row.cadence, streak |-> n,
                             best |-> b, completions |-> row.completions + 1, last |-> day]
  BY <1>1, <1>4
<1>8. Completed(row, day) \in Row
  BY <1>1, <1>2, <1>3, <1>7 DEF Row
<1>6. row.streak <= row.best /\ row.best <= row.completions =>
        n <= b /\ b <= row.completions + 1
  BY <1>1, <1>2, <1>3
<1> HIDE DEF Completed
<1> QED BY <1>5, <1>6, <1>8

\* Initially there are no habits.
LEMMA HabitsInit == Init => HabitsInv
<1> SUFFICES ASSUME Init PROVE HabitsInv
  OBVIOUS
<1> USE HabitsAssumption DEF Init, HandlersInit
<1>1. TypeInv
  BY HandlersAssumption DEF TypeInv, TypeOK, Task
<1>2. \A s \in Slots : task[s] = Idle /\ ~HoldsRow(s) /\ task[s].at = "idle"
  BY DEF HoldsRow, SubmitTask, WriteTask, Idle
<1>3. \A s \in Slots : task[s] \notin ReadTask \cup WriteTask
  BY DEF ReadTask, WriteTask, Idle
<1>4. ClockInv /\ CountInv /\ DueInv /\ PaidInv
  BY <1>2, <1>3 DEF ClockInv, CountInv, CountsOrdered, DueInv, PaidInv, At
<1> QED BY <1>1, <1>4 DEF HabitsInv

-------------------------------------------------------------------------------
(* Steps that only move a handler or the clock.                            *)

\* A handler that moves, with the rows as they are.
LEMMA HandlerMoves ==
  ASSUME HabitsInv, NEW s \in Slots, NEW t \in Task, UNCHANGED <<today, habit, paid, disturbed>>,
         task' = [task EXCEPT ![s] = t], left' \in Nat,
         t # Idle => habit[t.habit] # NoRow,
         t \in SubmitTask \cup WriteTask => RowPast(t.row) /\ Counted(t.row, t.habit),
         t \in ReadTask \cup WriteTask => t.day <= today,
         t.at = "submit_write" => Due(t.row, today),
         t.at = "approve_write" /\ ~t.late /\ t.habit \notin disturbed => Due(t.row, t.day)
  PROVE  HabitsInv'
<1> USE DEF HabitsInv
<1>1. TypeInv'
  BY DEF TypeInv, TypeOK
<1>2. \A r \in Slots : task'[r] = IF r = s THEN t ELSE task[r]
  BY DEF TypeInv
<1>3. ClockInv'
  BY <1>2 DEF ClockInv, RowPast, HoldsRow
<1>4. CountInv'
  BY <1>2 DEF CountInv, CountsOrdered, Counted, HoldsRow
<1>5. DueInv'
  BY <1>2 DEF DueInv, Due, At
<1>6. PaidInv'
  BY DEF PaidInv, Increasing
<1> QED BY <1>1, <1>3, <1>4, <1>5, <1>6

\* Idle is not a task.
LEMMA IdleHoldsNothing ==
  Idle \in Task /\ Idle \notin SubmitTask \cup ReadTask \cup WriteTask /\ Idle.at = "idle"
  BY DEF Task, SubmitTask, ReadTask, WriteTask, Idle

\* A handler that returns, or is dropped, with the rows as they are.
LEMMA HandlerEnds ==
  ASSUME HabitsInv, NEW s \in Slots, Answer(s), UNCHANGED <<today, habit, paid, disturbed>>
  PROVE  HabitsInv'
<1>1. left' \in Nat /\ task' = [task EXCEPT ![s] = Idle]
  BY DEF Answer, Continue, HabitsInv, TypeInv
<1> QED BY <1>1, IdleHoldsNothing, HandlerMoves

\* A habit that is there has a row.
LEMMA RowThere ==
  ASSUME HabitsInv, NEW q \in Habits, habit[q] # NoRow
  PROVE  habit[q] \in Row
  BY DEF HabitsInv, TypeInv, TypeOK

\* submit_quest reads the row before the date, which is why what it writes is due.
LEMMA BeginSubmitStep ==
  ASSUME HabitsInv, NEW s \in Slots, NEW q \in Habits, BeginSubmit(s, q)
  PROVE  HabitsInv'
<1> DEFINE t == [at |-> "submit_write", habit |-> q, row |-> habit[q]]
<1>1. habit[q] # NoRow /\ habit[q] \in Row
  BY RowThere DEF BeginSubmit
<1>2. t \in SubmitTask
  BY <1>1 DEF SubmitTask
<1>3. t \in Task /\ t \notin ReadTask \cup WriteTask
  BY <1>2 DEF Task, ReadTask, WriteTask
<1>4. left' \in Nat /\ task' = [task EXCEPT ![s] = t]
  BY DEF BeginSubmit, Begin, HabitsInv, TypeInv
<1>5. RowPast(t.row) /\ Counted(t.row, t.habit)
  BY <1>1 DEF HabitsInv, ClockInv, CountInv, CountsOrdered, Counted
<1>6. Due(t.row, today)
  BY <1>1, <1>5, NotCompletedIsDue DEF BeginSubmit, RowPast, HabitsInv, TypeInv, TypeOK
<1>7. t.at = "submit_write" /\ t.habit = q /\ UNCHANGED <<today, habit, paid, disturbed>>
  BY DEF BeginSubmit
<1> HIDE DEF t
<1> QED BY <1>1, <1>3, <1>4, <1>5, <1>6, <1>7, HandlerMoves

\* review_quest takes the date.
LEMMA BeginReviewStep ==
  ASSUME HabitsInv, NEW s \in Slots, NEW q \in Habits, NEW approved \in BOOLEAN,
         BeginReview(s, q, approved)
  PROVE  HabitsInv'
<1> DEFINE t == [at |-> "review_read", habit |-> q, approved |-> approved, day |-> today]
<1>1. t \in ReadTask /\ t.day <= today
  BY DEF ReadTask, HabitsInv, TypeInv, TypeOK
<1>2. t \in Task /\ t \notin SubmitTask \cup WriteTask
  BY <1>1 DEF Task, SubmitTask, WriteTask
<1>3. left' \in Nat /\ task' = [task EXCEPT ![s] = t]
  BY DEF BeginReview, Begin, HabitsInv, TypeInv
<1>4. t.at = "review_read" /\ t.habit = q /\ UNCHANGED <<today, habit, paid, disturbed>>
  BY DEF BeginReview
<1>5. habit[q] # NoRow
  BY DEF BeginReview
<1> HIDE DEF t
<1> QED BY <1>1, <1>2, <1>3, <1>4, <1>5, HandlerMoves

\* The kinds of tasks by their labels.
LEMMA TaskKinds ==
  ASSUME HabitsInv, NEW s \in Slots
  PROVE  /\ At(s, "submit_write") <=> task[s] \in SubmitTask
         /\ At(s, "review_read") <=> task[s] \in ReadTask
         /\ At(s, "approve_write") \/ At(s, "reject_write") <=> task[s] \in WriteTask
  BY DEF HabitsInv, TypeInv, Task, SubmitTask, ReadTask, WriteTask, Idle, At

\* review_quest reads the row: what is pending and undisturbed is due today.
LEMMA ReviewReadStep ==
  ASSUME HabitsInv, NEW s \in Slots, ReviewRead(s)
  PROVE  HabitsInv'
<1> DEFINE t == task[s]
           q == t.habit
           u == [at |-> IF t.approved THEN "approve_write" ELSE "reject_write",
                 habit |-> q, day |-> t.day, late |-> t.day # today, row |-> habit[q]]
<1>1. t \in ReadTask /\ t # Idle
  BY TaskKinds, IdleHoldsNothing DEF ReviewRead
<1>2. q \in Habits /\ habit[q] # NoRow /\ habit[q] \in Row /\ t.day \in Nat /\ t.day <= today
  BY <1>1, RowThere DEF ReadTask, HabitsInv, ClockInv
<1>3. CASE habit[q].status = "pending_review"
  <2>1. u \in WriteTask
    BY <1>2 DEF WriteTask
  <2>2. u \in Task /\ u \notin SubmitTask \cup ReadTask
    BY <2>1 DEF Task, SubmitTask, ReadTask, WriteTask
  <2>3. left' \in Nat /\ task' = [task EXCEPT ![s] = u]
    BY <1>3 DEF ReviewRead, Continue, HabitsInv, TypeInv
  <2>4. RowPast(u.row) /\ Counted(u.row, u.habit)
    BY <1>2 DEF HabitsInv, ClockInv, CountInv, CountsOrdered, Counted
  <2>5. ~u.late /\ q \notin disturbed => Due(u.row, u.day)
    BY <1>2, <1>3 DEF HabitsInv, DueInv
  <2>6. /\ u.at # "submit_write" /\ u.habit = q /\ u.day = t.day
        /\ UNCHANGED <<today, habit, paid, disturbed>>
    BY DEF ReviewRead
  <2> HIDE DEF u
  <2> QED BY <1>2, <2>2, <2>3, <2>4, <2>5, <2>6, HandlerMoves
<1>4. CASE habit[q].status # "pending_review"
  BY <1>4, HandlerEnds DEF ReviewRead
<1> QED BY <1>3, <1>4

\* Midnight: what is due stays due.
LEMMA TickStep ==
  ASSUME HabitsInv, Tick
  PROVE  HabitsInv'
<1> USE DEF Tick, handlerVars, HabitsInv
<1>1. today \in Nat /\ today' = today + 1
  BY DEF TypeInv, TypeOK
<1>2. TypeInv'
  BY <1>1 DEF TypeInv, TypeOK
<1>3. ClockInv'
  <2>1. ASSUME NEW q \in Habits, habit[q] # NoRow PROVE RowPast(habit[q])'
    BY <1>1, <2>1, RowThere DEF ClockInv, RowPast, Row
  <2>2. ASSUME NEW s \in Slots, HoldsRow(s) PROVE RowPast(task[s].row)'
    BY <1>1, <2>2 DEF ClockInv, RowPast, Row, HoldsRow, SubmitTask, WriteTask
  <2>3. ASSUME NEW s \in Slots, task[s] \in ReadTask \cup WriteTask PROVE task[s].day <= today'
    BY <1>1, <2>3 DEF ClockInv, ReadTask, WriteTask
  <2>4. \A s \in Slots : HoldsRow(s)' = HoldsRow(s)
    BY DEF HoldsRow
  <2> QED BY <2>1, <2>2, <2>3, <2>4 DEF ClockInv
<1>4. CountInv'
  BY DEF CountInv, CountsOrdered, Counted, HoldsRow
<1>5. DueInv'
  <2>1. ASSUME NEW q \in Habits \ disturbed, habit[q] # NoRow, habit[q].status = "pending_review"
        PROVE  Due(habit[q], today')
    BY <1>1, <2>1, RowThere, DueLater DEF DueInv
  <2>2. ASSUME NEW s \in Slots, At(s, "submit_write") PROVE Due(task[s].row, today')
    BY <1>1, <2>2, TaskKinds, DueLater DEF DueInv, SubmitTask
  <2> QED BY <2>1, <2>2 DEF DueInv, Due, At
<1>6. PaidInv'
  BY DEF PaidInv, Increasing
<1> QED BY <1>2, <1>3, <1>4, <1>5, <1>6
-------------------------------------------------------------------------------
(* Steps that write a row.                                                 *)

\* A step that gives the row of q the status st, whatever handler takes it.
LEMMA StatusStep ==
  ASSUME HabitsInv, NEW s \in Slots, NEW q \in Habits, habit[q] # NoRow,
         NEW st \in {"available", "pending_review"},
         habit' = [habit EXCEPT ![q].status = st],
         task' = [task EXCEPT ![s] = Idle], left' \in Nat, UNCHANGED <<today, paid>>,
         disturbed \subseteq disturbed', disturbed' \subseteq Habits,
         st = "pending_review" /\ q \notin disturbed' => Due(habit[q], today)
  PROVE  HabitsInv'
<1> USE DEF HabitsInv
<1>0. /\ habit[q] \in Row
      /\ \A r \in Slots : task'[r] = IF r = s THEN Idle ELSE task[r]
      /\ \A x \in Habits : habit'[x] = IF x = q THEN [habit[q] EXCEPT !.status = st]
                                                ELSE habit[x]
  BY RowThere DEF TypeInv, TypeOK
<1> DEFINE new == [habit[q] EXCEPT !.status = st]
<1>1. /\ new \in Row /\ new # NoRow /\ new.status = st
      /\ new.cadence = habit[q].cadence /\ new.last = habit[q].last
      /\ new.streak = habit[q].streak /\ new.best = habit[q].best
      /\ new.completions = habit[q].completions
  BY <1>0, NoRowAssumption DEF Row
<1> HIDE DEF new
<1>2. \A x \in Habits : habit'[x] = IF x = q THEN new ELSE habit[x]
  BY <1>0 DEF new
<1>3. TypeInv'
  <2>1. habit' \in [Habits -> Row \cup {NoRow}]
    BY <1>1, <1>2 DEF TypeInv, TypeOK
  <2> QED BY <2>1, IdleHoldsNothing DEF TypeInv, TypeOK
<1>4. ClockInv'
  <2>1. ASSUME NEW r \in Slots, task'[r] # Idle PROVE habit'[task'[r].habit] # NoRow
    <3>1. task'[r] = task[r] /\ task[r] # Idle
      BY <1>0, <2>1
    <3>2. task[r].habit \in Habits /\ habit[task[r].habit] # NoRow
      BY <3>1 DEF ClockInv, TypeInv, Task, SubmitTask, ReadTask, WriteTask
    <3> QED BY <1>1, <1>2, <3>1, <3>2
  <2>2. \A x \in Habits : habit'[x] # NoRow => RowPast(habit[x]) /\ habit'[x].last = habit[x].last
    BY <1>1, <1>2 DEF ClockInv
  <2> QED BY <1>0, <2>1, <2>2, IdleHoldsNothing DEF ClockInv, RowPast, HoldsRow
<1>5. CountInv'
  BY <1>0, <1>1, <1>2, IdleHoldsNothing DEF CountInv, CountsOrdered, Counted, HoldsRow
<1>6. DueInv'
  BY <1>0, <1>1, <1>2, IdleHoldsNothing DEF DueInv, Due, At
<1>7. PaidInv'
  BY <1>1, <1>2 DEF PaidInv, Increasing
<1> QED BY <1>3, <1>4, <1>5, <1>6, <1>7

\* submit_quest writes: if the row is still the one it has read, it is due.
LEMMA SubmitWriteStep ==
  ASSUME HabitsInv, NEW s \in Slots, SubmitWrite(s)
  PROVE  HabitsInv'
<1> DEFINE q == task[s].habit
<1>1. task[s] \in SubmitTask /\ q \in Habits /\ habit[q] # NoRow
  BY TaskKinds, IdleHoldsNothing DEF SubmitWrite, SubmitTask, HabitsInv, ClockInv
<1>2. disturbed' = disturbed \cup {x \in {q} : habit[x] # task[s].row}
  BY DEF SubmitWrite, Changed
<1>3. q \notin disturbed' => Due(habit[q], today)
  BY <1>2 DEF SubmitWrite, HabitsInv, DueInv
<1>4. /\ habit' = [habit EXCEPT ![q].status = "pending_review"]
      /\ task' = [task EXCEPT ![s] = Idle] /\ left' \in Nat /\ UNCHANGED <<today, paid>>
  BY DEF SubmitWrite, Answer, Continue, HabitsInv, TypeInv
<1>5. disturbed \subseteq disturbed' /\ disturbed' \subseteq Habits
  BY <1>1, <1>2 DEF HabitsInv, TypeInv, TypeOK
<1> HIDE DEF q
<1> QED BY <1>1, <1>3, <1>4, <1>5, StatusStep

\* A rejection.
LEMMA RejectWriteStep ==
  ASSUME HabitsInv, NEW s \in Slots, RejectWrite(s)
  PROVE  HabitsInv'
<1> DEFINE q == task[s].habit
<1>1. task[s] \in WriteTask /\ q \in Habits /\ habit[q] # NoRow
  BY TaskKinds, IdleHoldsNothing DEF RejectWrite, WriteTask, HabitsInv, ClockInv
<1>2. disturbed' = disturbed \cup {x \in {q} : habit[x] # task[s].row}
  BY DEF RejectWrite, Changed
<1>3. /\ habit' = [habit EXCEPT ![q].status = "available"]
      /\ task' = [task EXCEPT ![s] = Idle] /\ left' \in Nat /\ UNCHANGED <<today, paid>>
  BY DEF RejectWrite, Answer, Continue, HabitsInv, TypeInv
<1>4. disturbed \subseteq disturbed' /\ disturbed' \subseteq Habits
  BY <1>1, <1>2 DEF HabitsInv, TypeInv, TypeOK
<1> HIDE DEF q
<1> QED BY <1>1, <1>3, <1>4, StatusStep

\* One more approval, in a cycle after the last one.
LEMMA IncreasingOneMore ==
  ASSUME NEW c \in Cadence, NEW days \in Seq(Nat), NEW day \in Nat,
         \A i, j \in DOMAIN days : i < j => Cycle(c, days[i]) < Cycle(c, days[j]),
         days # <<>> => Cycle(c, days[Len(days)]) < Cycle(c, day)
  PROVE  LET more == Append(days, day) IN
         /\ more \in Seq(Nat) /\ more # <<>> /\ Len(more) = Len(days) + 1
         /\ more[Len(more)] = day
         /\ \A i, j \in DOMAIN more : i < j => Cycle(c, more[i]) < Cycle(c, more[j])
<1> DEFINE more == Append(days, day)
<1>0. DOMAIN days = 1 .. Len(days) /\ Len(days) \in Nat /\ \A i \in 1 .. Len(days) : days[i] \in Nat
  OBVIOUS
<1>1. /\ more \in Seq(Nat) /\ Len(more) = Len(days) + 1 /\ DOMAIN more = 1 .. Len(days) + 1
      /\ more # <<>>
      /\ \A i \in 1 .. Len(days) : more[i] = days[i]
      /\ more[Len(days) + 1] = day
  BY <1>0, AppendProperties
<1>2. \A i \in 1 .. Len(days) : Cycle(c, days[i]) \in Nat
  BY <1>0, AnchorIsCycle
<1>3. Cycle(c, day) \in Nat
  BY AnchorIsCycle
<1>4. ASSUME NEW i \in DOMAIN more, NEW j \in DOMAIN more, i < j
      PROVE  Cycle(c, more[i]) < Cycle(c, more[j])
  <2>1. CASE j = Len(days) + 1
    <3>1. i \in 1 .. Len(days) /\ days # <<>> /\ Len(days) \in 1 .. Len(days)
      BY <1>0, <1>1, <1>4, <2>1
    <3>2. CASE i = Len(days)
      BY <1>1, <2>1, <3>1, <3>2
    <3>3. CASE i < Len(days)
      <4>1. Cycle(c, days[i]) < Cycle(c, days[Len(days)])
        BY <1>0, <3>1, <3>3
      <4> QED BY <1>1, <1>2, <1>3, <2>1, <3>1, <4>1
    <3> QED BY <1>0, <3>1, <3>2, <3>3
  <2>2. CASE j # Len(days) + 1
    BY <1>0, <1>1, <1>4, <2>2
  <2> QED BY <2>1, <2>2
<1> HIDE DEF more
<1>5. more[Len(more)] = day
  BY <1>1
<1> QED BY <1>1, <1>4, <1>5 DEF more
\* A new habit has been done in no cycle.
LEMMA CreateHabitStep ==
  ASSUME HabitsInv, NEW s \in Slots, NEW q \in Habits, NEW c \in Cadence, CreateHabit(s, q, c)
  PROVE  HabitsInv'
<1> USE DEF HabitsInv
<1> DEFINE new == [status |-> "available", cadence |-> c, streak |-> 0, best |-> 0,
                   completions |-> 0, last |-> NoDay]
<1>1. /\ new \in Row /\ new # NoRow /\ new.status = "available" /\ new.cadence = c
      /\ new.streak = 0 /\ new.best = 0 /\ new.completions = 0 /\ new.last = NoDay
  BY NoRowAssumption DEF Row
<1>2. /\ habit' = [habit EXCEPT ![q] = new]
      /\ habit[q] = NoRow /\ task' = task /\ left' \in Nat /\ UNCHANGED <<today, paid, disturbed>>
  BY DEF CreateHabit, Once, TypeInv
<1> HIDE DEF new
<1>3. \A x \in Habits : habit'[x] = IF x = q THEN new ELSE habit[x]
  BY <1>2 DEF TypeInv, TypeOK
<1>4. TypeInv'
  <2>1. habit' \in [Habits -> Row \cup {NoRow}]
    BY <1>1, <1>2 DEF TypeInv, TypeOK
  <2> QED BY <1>2, <2>1 DEF TypeInv, TypeOK
<1>5. ClockInv'
  <2>1. ASSUME NEW r \in Slots, task[r] # Idle PROVE habit'[task[r].habit] # NoRow
    BY <1>1, <1>3, <2>1 DEF ClockInv, TypeInv, Task, SubmitTask, ReadTask, WriteTask
  <2>2. \A x \in Habits : habit'[x] # NoRow => (habit'[x].last # NoDay => habit'[x].last <= today)
    BY <1>1, <1>3 DEF ClockInv, RowPast
  <2> QED BY <1>2, <2>1, <2>2 DEF ClockInv, RowPast, HoldsRow
<1>6. CountInv'
  <2>1. Len(paid[q]) \in Nat
    BY DEF TypeInv
  <2> QED BY <1>1, <1>2, <1>3, <2>1 DEF CountInv, CountsOrdered, Counted, HoldsRow
<1>7. DueInv'
  BY <1>1, <1>2, <1>3 DEF DueInv, Due, At
<1>8. PaidInv'
  <2>1. ASSUME q \notin disturbed PROVE Increasing(q)'
    <3>1. paid[q] = <<>>
      BY <1>2, <2>1 DEF PaidInv
    <3> QED BY <1>1, <1>2, <1>3, <3>1 DEF Increasing
  <2>2. ASSUME NEW x \in Habits \ disturbed, x # q
        PROVE  IF habit'[x] = NoRow THEN paid'[x] = <<>> ELSE Increasing(x)'
    BY <1>2, <1>3, <2>2 DEF PaidInv, Increasing
  <2> QED BY <1>1, <1>2, <1>3, <2>1, <2>2 DEF PaidInv
<1> QED BY <1>4, <1>5, <1>6, <1>7, <1>8

\* review_quest completes the habit and pays, by what it has read.
LEMMA ApproveWriteStep ==
  ASSUME HabitsInv, NEW s \in Slots, ApproveWrite(s)
  PROVE  HabitsInv'
<1> USE DEF HabitsInv
<1> DEFINE t == task[s]
           q == t.habit
           new == Completed(t.row, t.day)
<1>1. /\ t \in WriteTask /\ q \in Habits /\ t.row \in Row /\ t.day \in Nat /\ t.day <= today
      /\ t.late \in BOOLEAN
      /\ habit[q] # NoRow /\ Counted(t.row, q)
  BY TaskKinds, IdleHoldsNothing DEF ApproveWrite, WriteTask, ClockInv, CountInv, HoldsRow
<1>2. /\ new \in Row /\ new # NoRow
      /\ new.status = "available" /\ new.cadence = t.row.cadence
      /\ new.completions = t.row.completions + 1 /\ new.last = t.day
      /\ new.streak <= new.best /\ new.best <= new.completions
  BY <1>1, CompletedRow, NoRowAssumption DEF Counted
<1>3. /\ habit' = [habit EXCEPT ![q] = new]
      /\ paid' = [paid EXCEPT ![q] = Append(@, t.day)]
      /\ disturbed' = disturbed \cup {x \in {q} : habit[x] # t.row} \cup {x \in {q} : t.late}
      /\ task' = [task EXCEPT ![s] = Idle] /\ left' \in Nat /\ today' = today
  BY DEF ApproveWrite, Changed, Answer, Continue, TypeInv
<1> HIDE DEF new
<1>4. /\ \A x \in Habits : habit'[x] = IF x = q THEN new ELSE habit[x]
      /\ \A x \in Habits : paid'[x] = IF x = q THEN Append(paid[q], t.day) ELSE paid[x]
      /\ \A r \in Slots : task'[r] = IF r = s THEN Idle ELSE task[r]
  BY <1>3 DEF TypeInv, TypeOK
<1>5. /\ \A x \in Habits : paid[x] \in Seq(Nat) /\ Len(paid[x]) \in Nat
      /\ Len(paid'[q]) = Len(paid[q]) + 1 /\ paid'[q] \in Seq(Nat)
  <2>1. \A x \in Habits : paid[x] \in Seq(Nat) /\ Len(paid[x]) \in Nat
    BY DEF TypeInv
  <2>2. paid'[q] = Append(paid[q], t.day) /\ paid[q] \in Seq(Nat) /\ t.day \in Nat
    BY <1>1, <1>4, <2>1
  <2>3. Append(paid[q], t.day) \in Seq(Nat) /\ Len(Append(paid[q], t.day)) = Len(paid[q]) + 1
    BY <2>2, AppendProperties
  <2> QED BY <2>1, <2>2, <2>3
<1>a. \A x \in Habits : Len(paid[x]) <= Len(paid'[x]) /\ Len(paid'[x]) \in Nat
  BY <1>4, <1>5
<1>6. TypeInv'
  <2>1. habit' \in [Habits -> Row \cup {NoRow}]
    BY <1>2, <1>3 DEF TypeInv, TypeOK
  <2>2. paid' \in [Habits -> Seq(Nat)]
    BY <1>1, <1>3, <1>5 DEF TypeInv
  <2>3. disturbed' \subseteq Habits
    BY <1>1, <1>3 DEF TypeInv, TypeOK
  <2>4. task' \in [Slots -> Task]
    BY <1>3, IdleHoldsNothing DEF TypeInv
  <2> QED BY <1>3, <2>1, <2>2, <2>3, <2>4 DEF TypeInv, TypeOK
<1>7. ClockInv'
  <2>1. ASSUME NEW r \in Slots, task'[r] # Idle PROVE habit'[task'[r].habit] # NoRow
    <3>1. task'[r] = task[r] /\ task[r] # Idle
      BY <1>4, <2>1
    <3>2. task[r].habit \in Habits /\ habit[task[r].habit] # NoRow
      BY <3>1 DEF ClockInv, TypeInv, Task, SubmitTask, ReadTask, WriteTask
    <3> QED BY <1>2, <1>4, <3>1, <3>2
  <2>2. \A x \in Habits : habit'[x] # NoRow => (habit'[x].last # NoDay => habit'[x].last <= today)
    BY <1>1, <1>2, <1>4 DEF ClockInv, RowPast
  <2> QED BY <1>3, <1>4, <2>1, <2>2, IdleHoldsNothing DEF ClockInv, RowPast, HoldsRow
<1>8. CountInv'
  <2>1. ASSUME NEW x \in Habits, habit'[x] # NoRow PROVE Counted(habit[x], x)'
    <3>1. CASE x = q
      <4>2. t.row.completions \in Nat /\ t.row.completions <= Len(paid[q])
        BY <1>1 DEF Counted, Row
      <4>3. habit'[x] = new /\ Len(paid'[x]) = Len(paid[q]) + 1 /\ Len(paid[q]) \in Nat
        BY <1>1, <1>4, <1>5, <3>1
      <4>4. new.completions <= Len(paid[q]) + 1
        BY <1>2, <4>2, <4>3
      <4> QED BY <1>2, <4>3, <4>4 DEF Counted
    <3>2. CASE x # q
      BY <1>4, <2>1, <3>2 DEF CountInv, CountsOrdered, Counted
    <3> QED BY <3>1, <3>2
  <2>2. ASSUME NEW r \in Slots, HoldsRow(r)' PROVE Counted(task[r].row, task[r].habit)'
    <3>1. task'[r] = task[r] /\ HoldsRow(r)
      BY <1>4, <2>2, IdleHoldsNothing DEF HoldsRow
    <3>2. task[r].habit \in Habits /\ task[r].row \in Row /\ Counted(task[r].row, task[r].habit)
      BY <3>1 DEF CountInv, HoldsRow, SubmitTask, WriteTask
    <3> QED BY <1>a, <3>1, <3>2 DEF Counted, Row
  <2> QED BY <2>1, <2>2 DEF CountInv, CountsOrdered, Counted
<1>9. DueInv'
  BY <1>2, <1>3, <1>4, IdleHoldsNothing DEF DueInv, Due, At
<1>10. PaidInv'
  <2>1. ASSUME NEW x \in Habits \ disturbed', x # q
        PROVE  IF habit'[x] = NoRow THEN paid'[x] = <<>> ELSE Increasing(x)'
    <3>1. x \in Habits \ disturbed
      BY <1>3, <2>1
    <3> QED BY <1>4, <2>1, <3>1 DEF PaidInv, Increasing
  <2>2. ASSUME NEW x \in Habits, x = q, x \notin disturbed' PROVE Increasing(x)'
    <3>1. q \notin disturbed /\ habit[q] = t.row /\ ~t.late
      BY <1>3, <2>2
    <3>2. Increasing(q) /\ paid[q] \in Seq(Nat)
      BY <1>1, <1>5, <3>1 DEF PaidInv
    <3>3. At(s, "approve_write") /\ Due(t.row, t.day)
      BY <3>1 DEF ApproveWrite, DueInv
    <3> DEFINE c == t.row.cadence
               days == paid[q]
               more == Append(days, t.day)
    <3>4. c \in Cadence
      BY <1>1 DEF Row
    <3>5. days # <<>> => Cycle(c, days[Len(days)]) < Cycle(c, t.day)
      <4> SUFFICES ASSUME days # <<>> PROVE Cycle(c, days[Len(days)]) < Cycle(c, t.day)
        OBVIOUS
      <4>1. t.row.last = days[Len(days)] /\ days[Len(days)] \in Nat
        BY <3>1, <3>2 DEF Increasing
      <4> QED BY <3>3, <4>1, HabitsAssumption DEF Due
    <3>6. \A i, j \in DOMAIN days : i < j => Cycle(c, days[i]) < Cycle(c, days[j])
      BY <3>1, <3>2 DEF Increasing
    <3>a. days \in Seq(Nat) /\ t.day \in Nat
      BY <1>1, <3>2
    <3> HIDE DEF c, days
    <3>7. /\ more # <<>> /\ Len(more) = Len(days) + 1 /\ more[Len(more)] = t.day
          /\ \A i, j \in DOMAIN more : i < j => Cycle(c, more[i]) < Cycle(c, more[j])
      BY <3>a, <3>4, <3>5, <3>6, IncreasingOneMore
    <3>8. paid'[q] = more /\ habit'[q] = new
      BY <1>1, <1>4 DEF days
    <3>9. new.completions = Len(more)
      BY <1>2, <3>1, <3>2, <3>7 DEF Increasing, days
    <3>b. new.cadence = c /\ new.last = t.day
      BY <1>2 DEF c
    <3>c. paid'[x] = more /\ habit'[x] = new
      BY <2>2, <3>8
    <3> HIDE DEF more, q
    <3> QED BY <3>7, <3>9, <3>b, <3>c DEF Increasing
  <2> QED BY <1>1, <1>2, <1>4, <2>1, <2>2 DEF PaidInv
<1> QED BY <1>6, <1>7, <1>8, <1>9, <1>10

\* Every step keeps the invariant.
LEMMA HabitsStep == HabitsInv /\ [Next]_vars => HabitsInv'
<1> SUFFICES ASSUME HabitsInv, [Next]_vars PROVE HabitsInv'
  OBVIOUS
<1>1. CASE UNCHANGED vars
  BY <1>1 DEF vars, handlerVars, HabitsInv, TypeInv, TypeOK, ClockInv, RowPast, HoldsRow, CountInv,
              CountsOrdered, Counted, DueInv, Due, At, PaidInv, Increasing
<1>2. CASE Tick
  BY <1>2, TickStep
<1>3. ASSUME NEW s \in Slots, Drop(s) PROVE HabitsInv'
  BY <1>3, HandlerEnds DEF Drop, Abandon
<1> QED BY <1>1, <1>2, <1>3, CreateHabitStep, BeginSubmitStep, BeginReviewStep, SubmitWriteStep,
           ReviewReadStep, RejectWriteStep, ApproveWriteStep DEF Next

-------------------------------------------------------------------------------
(* Theorems.                                                               *)

\* HabitsInv is an invariant.
LEMMA HabitsInvariant == Spec => []HabitsInv
  BY HabitsInit, HabitsStep, PTL DEF Spec

\* Rows have their types, however handlers overlap and days pass.
THEOREM HabitsTypes == Spec => []TypeOK
<1>1. HabitsInv => TypeOK
  BY DEF HabitsInv, TypeInv
<1> QED BY <1>1, HabitsInvariant, PTL

\* Whatever reviews overlap, the streak is at most the best streak, that at most the
\* completions, and those at most the rewards paid.
THEOREM CountsStayOrdered == Spec => []CountsOrdered
<1>1. HabitsInv => CountsOrdered
  BY DEF HabitsInv, CountInv
<1> QED BY <1>1, HabitsInvariant, PTL

\* The approvals of an undisturbed habit are in different cycles, one for each.
LEMMA OneCycleEach == HabitsInv => PaidOncePerCycle
<1> SUFFICES ASSUME HabitsInv, NEW q \in Undisturbed
             PROVE  Cardinality(CyclesDone(q)) = Len(paid[q]) /\ habit[q].completions = Len(paid[q])
  BY DEF PaidOncePerCycle
<1> DEFINE c == habit[q].cadence
           days == paid[q]
           S == 1 .. Len(days)
           f == [i \in S |-> Cycle(c, days[i])]
<1>1. Increasing(q) /\ days \in Seq(Nat) /\ c \in Cadence
  BY RowThere DEF Undisturbed, HabitsInv, PaidInv, TypeInv, Row
<1>2. Len(days) \in Nat /\ DOMAIN days = S /\ \A i \in S : days[i] \in Nat
  BY <1>1
<1>3. \A i \in S : Cycle(c, days[i]) \in Nat
  BY <1>1, <1>2, AnchorIsCycle
<1>4. CyclesDone(q) = {f[i] : i \in S}
  BY <1>2 DEF CyclesDone
<1>5. f \in Surjection(S, CyclesDone(q))
  BY <1>4 DEF Surjection
<1>6. ASSUME NEW i \in S, NEW j \in S, f[i] = f[j] PROVE i = j
  <2>1. Cycle(c, days[i]) = Cycle(c, days[j])
    BY <1>6
  <2>2. i < j => Cycle(c, days[i]) < Cycle(c, days[j])
    BY <1>1, <1>2 DEF Increasing
  <2>3. j < i => Cycle(c, days[j]) < Cycle(c, days[i])
    BY <1>1, <1>2 DEF Increasing
  <2>4. Cycle(c, days[i]) \in Nat /\ i \in Nat /\ j \in Nat
    BY <1>2, <1>3
  <2> HIDE DEF S, f, c, days
  <2> QED BY <2>1, <2>2, <2>3, <2>4
<1>7. f \in Injection(S, CyclesDone(q))
  BY <1>4, <1>6 DEF Injection, IsInjective
<1>8. IsFiniteSet(S) /\ Cardinality(S) = Len(days)
  BY <1>2, FS_Interval
<1> HIDE DEF f, S
<1>9. Cardinality(CyclesDone(q)) = Len(days)
  BY <1>5, <1>7, <1>8, FS_Surjection
<1> QED BY <1>1, <1>9 DEF Increasing

\* A habit that nobody disturbs is paid once per day or week, although the check is
\* made when the habit is submitted and never repeated.
THEOREM OnePaymentPerCycle == Spec => []PaidOncePerCycle
  BY OneCycleEach, HabitsInvariant, PTL

-------------------------------------------------------------------------------
(* Streaks.                                                                *)

\* n cycles up to c are done and the one before is not.
IsRun(done, c, n) ==
  n \in Nat \ {0} /\ c - n + 1 .. c \subseteq done /\ c - n \notin done

\* The streak is the run that ends with the last cycle, and the best is the longest.
Streaks(done, last, streak, best) ==
  /\ IsRun(done, last, streak)
  /\ \A c \in done : \E n \in 1 .. best : IsRun(done, c, n)
  /\ \E c \in done : IsRun(done, c, best)

\* Streaks, of every undisturbed habit that was ever approved
StreakInv ==
  \A q \in Habits \ disturbed : habit[q] # NoRow =>
    IF paid[q] = <<>>
      THEN habit[q].streak = 0 /\ habit[q].best = 0
      ELSE Streaks(CyclesDone(q), Cycle(habit[q].cadence, paid[q][Len(paid[q])]),
                   habit[q].streak, habit[q].best)

\* A cycle ends one run at most, and RunEndingWith finds it.
LEMMA RunIsFound ==
  ASSUME NEW done \in SUBSET Nat, IsFiniteSet(done), NEW c \in Nat, NEW n, IsRun(done, c, n)
  PROVE  RunEndingWith(done, c) = n
<1>1. n \in Nat \ {0} /\ c - n + 1 .. c \subseteq done /\ c - n \notin done
  BY DEF IsRun
<1>2. n \in 1 .. Cardinality(done)
  <2>1. Cardinality(c - n + 1 .. c) <= Cardinality(done)
    BY <1>1, FS_Subset
  <2>2. Cardinality(c - n + 1 .. c) = n
    <3>1. c - n + 1 \in Int /\ c \in Int /\ ~(c - n + 1 > c) /\ c - (c - n + 1) + 1 = n
      BY <1>1
    <3> QED BY <3>1, FS_Interval
  <2>3. Cardinality(done) \in Nat
    BY FS_CardinalityType
  <2> QED BY <1>1, <2>1, <2>2, <2>3
<1>3. ASSUME NEW m \in Nat \ {0}, c - m + 1 .. c \subseteq done, c - m \notin done PROVE m = n
  <2>1. ~(m < n)
    <3> SUFFICES ASSUME m < n PROVE FALSE
      OBVIOUS
    <3>1. c - m \in c - n + 1 .. c
      BY <1>1
    <3> QED BY <1>1, <1>3, <3>1
  <2>2. ~(n < m)
    <3> SUFFICES ASSUME n < m PROVE FALSE
      OBVIOUS
    <3>1. c - n \in c - m + 1 .. c
      BY <1>1
    <3> QED BY <1>1, <1>3, <3>1
  <2> QED BY <1>1, <2>1, <2>2
<1>4. \A m \in 1 .. Cardinality(done) :
        (c - m + 1 .. c \subseteq done /\ c - m \notin done) <=> m = n
  BY <1>1, <1>3, FS_CardinalityType
<1> QED BY <1>2, <1>4 DEF RunEndingWith

\* The first cycle is a run of one.
LEMMA FirstStreak ==
  ASSUME NEW k \in Nat
  PROVE  Streaks({k}, k, 1, 1)
<1>1. k - 1 + 1 .. k = {k} /\ k - 1 # k
  OBVIOUS
<1>2. IsRun({k}, k, 1)
  BY <1>1 DEF IsRun
<1> QED BY <1>2 DEF Streaks

\* A cycle after all that are done goes on with the run before it, or begins one.
LEMMA NextStreakIsRun ==
  ASSUME NEW done \in SUBSET Nat, NEW last \in done, \A c \in done : c <= last,
         NEW streak \in Nat, NEW best \in Nat, Streaks(done, last, streak, best),
         NEW k \in Nat, last < k, NEW n, n = IF last = k - 1 THEN streak + 1 ELSE 1
  PROVE  Streaks(done \cup {k}, k, n, Larger(best, n))
<1> DEFINE more == done \cup {k}
           b == Larger(best, n)
<1>0. last \in Nat /\ k \notin done /\ n \in Nat \ {0}
  OBVIOUS
<1>1. ASSUME NEW c \in done, NEW m, IsRun(done, c, m) PROVE IsRun(more, c, m)
  <2>1. m \in Nat \ {0} /\ c \in Nat /\ c <= last
    BY <1>1 DEF IsRun
  <2>2. c - m # k
    BY <1>0, <2>1
  <2> QED BY <1>1, <2>2 DEF IsRun
<1>2. IsRun(more, k, n)
  <2>1. CASE last = k - 1
    <3>1. /\ streak \in Nat \ {0} /\ last - streak + 1 .. last \subseteq done
          /\ last - streak \notin done
      BY DEF Streaks, IsRun
    <3>2. k - n = last - streak /\ k - n # k /\ n = streak + 1
      BY <1>0, <2>1, <3>1
    <3>3. ASSUME NEW x \in k - n + 1 .. k PROVE x \in more
      <4>1. x = k \/ x \in last - streak + 1 .. last
        BY <1>0, <2>1, <3>1, <3>2
      <4> QED BY <3>1, <4>1
    <3> QED BY <1>0, <3>1, <3>2, <3>3 DEF IsRun
  <2>2. CASE last # k - 1
    <3>1. n = 1 /\ k - 1 # k /\ k - 1 \notin done /\ k - 1 + 1 .. k = {k}
      BY <1>0, <2>2
    <3> QED BY <3>1 DEF IsRun
  <2> QED BY <2>1, <2>2
<1>3. b \in Nat /\ best <= b /\ n <= b /\ (b = best \/ b = n)
  BY <1>0 DEF Larger
<1>4. ASSUME NEW c \in more PROVE \E m \in 1 .. b : IsRun(more, c, m)
  <2>1. CASE c = k
    <3>1. n \in 1 .. b
      BY <1>0, <1>3
    <3> QED BY <1>2, <2>1, <3>1
  <2>2. CASE c \in done
    <3>1. PICK m \in 1 .. best : IsRun(done, c, m)
      BY <2>2 DEF Streaks
    <3>2. m \in 1 .. b
      BY <1>3, <3>1
    <3> QED BY <1>1, <2>2, <3>1, <3>2
  <2> QED BY <2>1, <2>2
<1>5. \E c \in more : IsRun(more, c, b)
  <2>1. CASE b = n
    BY <1>2, <2>1
  <2>2. CASE b = best
    <3>1. PICK c \in done : IsRun(done, c, best)
      BY DEF Streaks
    <3> QED BY <1>1, <2>2, <3>1
  <2> QED BY <1>3, <2>1, <2>2
<1> HIDE DEF more, b
<1>6. Streaks(more, k, n, b)
  BY <1>2, <1>4, <1>5 DEF Streaks
<1> QED BY <1>6 DEF more, b

\* next_habit_streak compares anchors, which is to compare cycles: the run goes on when
\* the last completion was in the cycle before.
LEMMA NextStreakByCycle ==
  ASSUME NEW row \in Row, NEW day \in Nat, row.last # NoDay, Due(row, day)
  PROVE  NextStreak(row, day) =
           IF Cycle(row.cadence, row.last) = Cycle(row.cadence, day) - 1 THEN row.streak + 1 ELSE 1
<1>1. PICK a : a = row.last /\ a \in Nat /\ row.cadence \in Cadence
  BY DEF Row
<1>2. \A d \in Nat : d = 7 * (d \div 7) + (d % 7) /\ d % 7 \in 0 .. 6 /\ d \div 7 \in Nat
  OBVIOUS
<1>3. PICK x \in Nat, u \in Nat : x = a \div 7 /\ u = a % 7 /\ a = 7 * x + u
  BY <1>1, <1>2
<1>4. PICK y \in Nat, v \in Nat : y = day \div 7 /\ v = day % 7 /\ day = 7 * y + v
  BY <1>2
<1>5. CASE row.cadence = "weekly"
  <2>1. x < y
    BY <1>1, <1>3, <1>4, <1>5 DEF Due, Cycle
  <2>2. Anchor("weekly", a) = 7 * x /\ Anchor("weekly", day) = 7 * y
    BY <1>3, <1>4 DEF Anchor, MinusDays
  <2>3. PreviousAnchor("weekly", 7 * y) = 7 * y - 7
    BY <2>1 DEF PreviousAnchor, MinusDays
  <2>4. 7 * x = 7 * y - 7 <=> x = y - 1
    OBVIOUS
  <2> QED BY <1>1, <1>3, <1>4, <1>5, <2>2, <2>3, <2>4 DEF NextStreak, Cycle
<1>6. CASE row.cadence # "weekly"
  <2>1. a < day
    BY <1>1, <1>6 DEF Due, Cycle
  <2>2. Anchor(row.cadence, a) = a /\ Anchor(row.cadence, day) = day
    BY <1>6 DEF Anchor
  <2>3. PreviousAnchor(row.cadence, day) = day - 1
    BY <1>1, <1>6, <2>1 DEF PreviousAnchor, MinusDays
  <2> QED BY <1>1, <1>6, <2>2, <2>3 DEF NextStreak, Cycle
<1> QED BY <1>5, <1>6

\* The cycles done in a habit are numbers, the last one is the greatest, and there are
\* finitely many.
LEMMA LastIsGreatest ==
  ASSUME HabitsInv, NEW q \in Habits \ disturbed, habit[q] # NoRow, paid[q] # <<>>
  PROVE  LET last == Cycle(habit[q].cadence, paid[q][Len(paid[q])]) IN
         /\ CyclesDone(q) \in SUBSET Nat /\ IsFiniteSet(CyclesDone(q))
         /\ last \in CyclesDone(q) /\ \A c \in CyclesDone(q) : c <= last
<1> DEFINE c == habit[q].cadence
           days == paid[q]
<1>1. Increasing(q) /\ days \in Seq(Nat) /\ c \in Cadence
  BY RowThere DEF HabitsInv, PaidInv, TypeInv, Row
<1>2. Len(days) \in Nat /\ DOMAIN days = 1 .. Len(days) /\ \A i \in DOMAIN days : days[i] \in Nat
  BY <1>1
<1>3. \A i \in DOMAIN days : Cycle(c, days[i]) \in Nat
  BY <1>1, <1>2, AnchorIsCycle
<1>4. Len(days) \in DOMAIN days
  BY <1>1, <1>2
<1>5. ASSUME NEW i \in DOMAIN days PROVE Cycle(c, days[i]) <= Cycle(c, days[Len(days)])
  <2>1. i < Len(days) \/ i = Len(days)
    BY <1>2
  <2>2. i < Len(days) => Cycle(c, days[i]) < Cycle(c, days[Len(days)])
    BY <1>1, <1>4 DEF Increasing
  <2> QED BY <1>3, <1>4, <2>1, <2>2
<1>6. CyclesDone(q) \in SUBSET Nat
  BY <1>3 DEF CyclesDone
<1>7. Cycle(c, days[Len(days)]) \in CyclesDone(q)
      /\ \A x \in CyclesDone(q) : x <= Cycle(c, days[Len(days)])
  BY <1>4, <1>5 DEF CyclesDone
<1> HIDE DEF c, days
<1>8. IsFiniteSet(CyclesDone(q))
  BY <1>6, <1>7, FS_BoundedSetOfNaturals
<1> QED BY <1>6, <1>7, <1>8 DEF c, days

\* A step that is no approval leaves streaks and approvals, or makes a new habit.
LEMMA StreaksMove ==
  ASSUME HabitsInv, [Next]_vars, NEW q \in Habits, habit'[q] # NoRow,
         ~(\E s \in Slots : ApproveWrite(s) /\ task[s].habit = q)
  PROVE  /\ paid'[q] = paid[q] /\ disturbed \subseteq disturbed'
         /\ \/ /\ habit[q] # NoRow
               /\ habit'[q].streak = habit[q].streak /\ habit'[q].best = habit[q].best
               /\ habit'[q].cadence = habit[q].cadence
            \/ habit[q] = NoRow /\ habit'[q].streak = 0 /\ habit'[q].best = 0
<1> DEFINE Goal == /\ paid'[q] = paid[q] /\ disturbed \subseteq disturbed'
                   /\ \/ /\ habit[q] # NoRow
                         /\ habit'[q].streak = habit[q].streak /\ habit'[q].best = habit[q].best
                         /\ habit'[q].cadence = habit[q].cadence
                      \/ habit[q] = NoRow /\ habit'[q].streak = 0 /\ habit'[q].best = 0
<1>0. habit \in [Habits -> Row \cup {NoRow}] /\ paid \in [Habits -> Seq(Nat)]
  BY DEF HabitsInv, TypeInv, TypeOK
<1>1. ASSUME UNCHANGED <<habit, paid, disturbed>> PROVE Goal
  BY <1>1
<1>2. ASSUME NEW s \in Slots, NEW x \in Habits, NEW c \in Cadence, CreateHabit(s, x, c) PROVE Goal
  BY <1>0, <1>2 DEF CreateHabit
<1>3. ASSUME NEW x \in Habits, NEW st, habit[x] # NoRow, habit' = [habit EXCEPT ![x].status = st],
             paid' = paid, disturbed \subseteq disturbed'
      PROVE  Goal
  <2>1. habit[x] \in Row
    BY <1>0, <1>3
  <2>2. CASE x = q
    <3>1. habit'[q] = [habit[q] EXCEPT !.status = st]
      BY <1>0, <1>3, <2>2
    <3>2. /\ habit'[q].streak = habit[q].streak /\ habit'[q].best = habit[q].best
          /\ habit'[q].cadence = habit[q].cadence
      BY <2>1, <2>2, <3>1 DEF Row
    <3> QED BY <1>3, <2>2, <3>2
  <2>3. CASE x # q
    BY <1>0, <1>3, <2>3
  <2> QED BY <2>2, <2>3
<1>4. ASSUME NEW s \in Slots, SubmitWrite(s) PROVE Goal
  <2>1. task[s].habit \in Habits /\ habit[task[s].habit] # NoRow
    BY <1>4, TaskKinds, IdleHoldsNothing DEF SubmitWrite, SubmitTask, HabitsInv, ClockInv
  <2> QED BY <1>3, <1>4, <2>1 DEF SubmitWrite
<1>5. ASSUME NEW s \in Slots, RejectWrite(s) PROVE Goal
  <2>1. task[s].habit \in Habits /\ habit[task[s].habit] # NoRow
    BY <1>5, TaskKinds, IdleHoldsNothing DEF RejectWrite, WriteTask, HabitsInv, ClockInv
  <2> QED BY <1>3, <1>5, <2>1 DEF RejectWrite
<1>6. ASSUME NEW s \in Slots, ApproveWrite(s) PROVE Goal
  <2>1. task[s].habit # q
    BY <1>6
  <2>2. /\ habit' = [habit EXCEPT ![task[s].habit] = Completed(task[s].row, task[s].day)]
        /\ paid' = [paid EXCEPT ![task[s].habit] = Append(@, task[s].day)]
        /\ disturbed \subseteq disturbed'
    BY <1>6 DEF ApproveWrite
  <2>3. habit'[q] = habit[q] /\ paid'[q] = paid[q]
    BY <1>0, <2>1, <2>2
  <2> QED BY <2>2, <2>3
<1> HIDE DEF Goal
<1>7. Goal
  BY <1>1, <1>2, <1>4, <1>5, <1>6 DEF Next, Tick, BeginSubmit, BeginReview, ReviewRead, Drop, vars
<1> QED BY <1>7 DEF Goal

\* An approval of an undisturbed habit counts its run on.
LEMMA ApprovalCountsOn ==
  ASSUME HabitsInv, StreakInv, NEW s \in Slots, ApproveWrite(s), NEW q \in Habits \ disturbed',
         task[s].habit = q
  PROVE  paid'[q] # <<>> /\
         Streaks(CyclesDone(q), Cycle(habit[q].cadence, paid[q][Len(paid[q])]),
                 habit[q].streak, habit[q].best)'
<1>1. PICK t : t = task[s]
  OBVIOUS
<1>2. /\ t \in WriteTask /\ t.row \in Row /\ t.day \in Nat /\ habit[q] # NoRow /\ t.habit = q
  BY <1>1, TaskKinds, IdleHoldsNothing DEF ApproveWrite, WriteTask, HabitsInv, ClockInv
<1>3. /\ q \notin disturbed /\ habit[q] = t.row /\ ~t.late
  BY <1>1, <1>2 DEF ApproveWrite, Changed
<1>4. Due(t.row, t.day)
  BY <1>1, <1>2, <1>3 DEF ApproveWrite, HabitsInv, DueInv
<1>5. PICK new : new = Completed(t.row, t.day)
  OBVIOUS
<1>6. PICK n : n = NextStreak(t.row, t.day)
  OBVIOUS
<1>7. /\ new.streak = n /\ new.best = Larger(t.row.best, n) /\ new.cadence = t.row.cadence
  BY <1>2, <1>5, <1>6 DEF Completed, Row
<1>8. /\ habit \in [Habits -> Row \cup {NoRow}] /\ paid \in [Habits -> Seq(Nat)]
  BY DEF HabitsInv, TypeInv, TypeOK
<1>9. habit'[q] = new /\ paid'[q] = Append(paid[q], t.day)
  BY <1>1, <1>2, <1>5, <1>8 DEF ApproveWrite
<1>10. PICK days \in Seq(Nat) : days = paid[q]
  BY <1>8
<1>11. PICK more \in Seq(Nat) : more = Append(days, t.day)
  <2>1. Append(days, t.day) \in Seq(Nat)
    BY <1>2, AppendProperties
  <2> QED BY <2>1
<1>12. /\ Len(days) \in Nat /\ Len(more) = Len(days) + 1 /\ DOMAIN more = 1 .. Len(days) + 1
       /\ DOMAIN days = 1 .. Len(days)
       /\ \A i \in 1 .. Len(days) : more[i] = days[i]
       /\ more[Len(days) + 1] = t.day /\ more # <<>>
  BY <1>2, <1>10, <1>11, AppendProperties
<1>13. PICK c \in Cadence : c = t.row.cadence
  BY <1>2 DEF Row
<1>14. PICK k \in Nat : k = Cycle(c, t.day)
  BY <1>2, <1>13, AnchorIsCycle
<1>15. PICK done : done = CyclesDone(q)
  OBVIOUS
<1>16. CyclesDone(q)' = done \cup {k}
  <2>1. done = {Cycle(c, days[i]) : i \in 1 .. Len(days)}
    BY <1>3, <1>10, <1>12, <1>13, <1>15 DEF CyclesDone
  <2>2. CyclesDone(q)' = {Cycle(c, more[i]) : i \in 1 .. Len(days) + 1}
    <3>1. paid'[q] = more /\ habit'[q].cadence = c /\ DOMAIN paid'[q] = 1 .. Len(days) + 1
      BY <1>7, <1>9, <1>10, <1>11, <1>12, <1>13
    <3>2. CyclesDone(q)' = {Cycle(habit'[q].cadence, paid'[q][i]) : i \in DOMAIN paid'[q]}
      BY DEF CyclesDone
    <3> QED BY <3>1, <3>2
  <2>3. \A i : i \in 1 .. Len(days) + 1 <=> i \in 1 .. Len(days) \/ i = Len(days) + 1
    BY <1>12
  <2>4. ASSUME NEW x PROVE x \in {Cycle(c, more[i]) : i \in 1 .. Len(days) + 1} <=> x \in done \cup {k}
    BY <1>12, <1>14, <2>1, <2>3
  <2> QED BY <2>2, <2>4
<1>17. Cycle(habit[q].cadence, paid[q][Len(paid[q])])' = k
  BY <1>7, <1>9, <1>10, <1>11, <1>12, <1>13, <1>14
<1>18. Increasing(q)
  BY <1>2, <1>3 DEF HabitsInv, PaidInv
<1>19. t.row.last = IF days = <<>> THEN NoDay ELSE days[Len(days)]
  BY <1>3, <1>10, <1>18 DEF Increasing
<1>20. Streaks(done \cup {k}, k, n, Larger(t.row.best, n))
  <2>1. CASE days = <<>>
    <3>1. done = {} /\ done \cup {k} = {k}
      BY <1>10, <1>15, <2>1 DEF CyclesDone
    <3>2. t.row.best = 0
      BY <1>2, <1>3, <1>10, <2>1 DEF StreakInv
    <3>3. n = 1
      BY <1>6, <1>19, <2>1 DEF NextStreak
    <3>4. Larger(t.row.best, n) = 1
      BY <3>2, <3>3 DEF Larger
    <3> QED BY <3>1, <3>3, <3>4, FirstStreak
  <2>2. CASE days # <<>>
    <3>1. PICK last : last = Cycle(c, days[Len(days)])
      OBVIOUS
    <3>2. /\ done \in SUBSET Nat /\ last \in done /\ \A x \in done : x <= last
      BY <1>2, <1>3, <1>10, <1>13, <1>15, <2>2, <3>1, LastIsGreatest
    <3>3. Streaks(done, last, t.row.streak, t.row.best)
      BY <1>2, <1>3, <1>10, <1>13, <1>15, <2>2, <3>1 DEF StreakInv
    <3>4. t.row.last = days[Len(days)] /\ t.row.last # NoDay
      <4>1. days[Len(days)] \in Nat
        BY <1>12, <2>2
      <4> QED BY <1>19, <2>2, <4>1, HabitsAssumption
    <3>5. last < k
      BY <1>4, <1>13, <1>14, <3>1, <3>4 DEF Due
    <3>6. n = IF last = k - 1 THEN t.row.streak + 1 ELSE 1
      BY <1>2, <1>4, <1>6, <1>13, <1>14, <3>1, <3>4, NextStreakByCycle
    <3>7. t.row.streak \in Nat /\ t.row.best \in Nat
      BY <1>2 DEF Row
    <3> QED BY <3>2, <3>3, <3>5, <3>6, <3>7, NextStreakIsRun
  <2> QED BY <2>1, <2>2
<1>21. paid'[q] # <<>>
  BY <1>9, <1>10, <1>11, <1>12
<1> QED BY <1>7, <1>9, <1>16, <1>17, <1>20, <1>21

\* Every step keeps the streaks.
LEMMA StreakStep == HabitsInv /\ StreakInv /\ [Next]_vars => StreakInv'
<1> SUFFICES ASSUME HabitsInv, StreakInv, [Next]_vars,
                    NEW q \in Habits \ disturbed', habit'[q] # NoRow
             PROVE  IF paid'[q] = <<>>
                      THEN habit'[q].streak = 0 /\ habit'[q].best = 0
                      ELSE Streaks(CyclesDone(q), Cycle(habit[q].cadence, paid[q][Len(paid[q])]),
                                   habit[q].streak, habit[q].best)'
  BY DEF StreakInv
<1>1. ASSUME NEW s \in Slots, ApproveWrite(s), task[s].habit = q
      PROVE  paid'[q] # <<>> /\
             Streaks(CyclesDone(q), Cycle(habit[q].cadence, paid[q][Len(paid[q])]),
                     habit[q].streak, habit[q].best)'
  BY <1>1, ApprovalCountsOn
<1>2. CASE ~(\E s \in Slots : ApproveWrite(s) /\ task[s].habit = q)
  <2>1. /\ paid'[q] = paid[q] /\ q \in Habits \ disturbed
        /\ \/ /\ habit[q] # NoRow
              /\ habit'[q].streak = habit[q].streak /\ habit'[q].best = habit[q].best
              /\ habit'[q].cadence = habit[q].cadence
           \/ habit[q] = NoRow /\ habit'[q].streak = 0 /\ habit'[q].best = 0
    BY <1>2, StreaksMove
  <2>2. CASE habit[q] = NoRow
    BY <2>1, <2>2 DEF HabitsInv, PaidInv
  <2>3. CASE habit[q] # NoRow
    <3>1. /\ habit'[q].streak = habit[q].streak /\ habit'[q].best = habit[q].best
          /\ habit'[q].cadence = habit[q].cadence
      BY <2>1, <2>3
    <3>2. CyclesDone(q)' = CyclesDone(q)
      BY <2>1, <3>1 DEF CyclesDone
    <3> QED BY <2>1, <2>3, <3>1, <3>2 DEF StreakInv
  <2> QED BY <2>2, <2>3
<1> QED BY <1>1, <1>2

\* The streak counted on from review to review is the run of days or weeks that a look at
\* all approvals finds, and the best streak is the longest run.
THEOREM StreaksAreRuns == Spec => []StreakIsRun
<1>1. Init => HabitsInv /\ StreakInv
  BY HabitsInit DEF Init, StreakInv
<1>2. HabitsInv /\ StreakInv /\ [Next]_vars => (HabitsInv /\ StreakInv)'
  BY HabitsStep, StreakStep
<1>3. HabitsInv /\ StreakInv => StreakIsRun
  <2> SUFFICES ASSUME HabitsInv, StreakInv, NEW q \in Undisturbed,
                      NEW last, last = Cycle(habit[q].cadence, paid[q][Len(paid[q])]),
                      NEW done, done = CyclesDone(q)
               PROVE  /\ habit[q].streak = RunEndingWith(done, last)
                      /\ \A c \in done : RunEndingWith(done, c) <= habit[q].best
                      /\ \E c \in done : RunEndingWith(done, c) = habit[q].best
    BY DEF StreakIsRun
  <2>1. q \in Habits \ disturbed /\ habit[q] # NoRow /\ paid[q] # <<>>
    BY DEF Undisturbed
  <2>2. Streaks(done, last, habit[q].streak, habit[q].best)
    BY <2>1 DEF StreakInv
  <2>3. done \in SUBSET Nat /\ IsFiniteSet(done) /\ last \in done
    BY <2>1, LastIsGreatest
  <2>4. \A c \in done : \A n : IsRun(done, c, n) => RunEndingWith(done, c) = n
    BY <2>3, RunIsFound
  <2>5. \A c \in done : RunEndingWith(done, c) <= habit[q].best
    BY <2>2, <2>4 DEF Streaks
  <2> QED BY <2>2, <2>3, <2>4, <2>5 DEF Streaks
<1> QED BY <1>1, <1>2, <1>3, PTL DEF Spec
===============================================================================
