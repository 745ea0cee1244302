-------------------------------- MODULE Habits ---------------------------------
(***************************************************************************)
(* Habits: quests that are done again and again, once per day or week, and *)
(* whose streak the review of a submission counts on.  Who may submit and  *)
(* review, and what a review pays, is in Settlement; here days pass.       *)
(* submit_quest reads the row and then takes the date; review_quest takes  *)
(* the date and then reads the row.  Both write by primary key later, and  *)
(* a review that goes wrong after its UPDATE is rolled back, which leaves  *)
(* nothing, so that its UPDATE and its COMMIT are one step.                *)
(***************************************************************************)
EXTENDS Handlers, Integers, Sequences, FiniteSets

CONSTANTS
  Habits,       \* ids of habits
  NoRow,        \* no row
  NoDay,        \* last_completed_at is NULL
  FirstDay,     \* the clock starts here; day 0 is a Monday
  MaxDay        \* bound: the clock stops here

ASSUME HabitsAssumption ==
  /\ FirstDay \in Nat /\ MaxDay \in Nat
  /\ NoDay \notin Nat

VARIABLES
  today,        \* Utc::now().date_naive()
  habit,        \* quests row of each habit
  paid,         \* history: the days of its approvals, one per quest_reward row
  disturbed     \* history: habits written by a handler that had read another row, or
                \* that took the date on an earlier day than the row

vars == <<today, habit, paid, disturbed, handlerVars>>

-------------------------------------------------------------------------------
(* Cycles.                                                                 *)

Cadence == {"daily", "weekly"}

\* Chrono counts from day 0, which has no predecessor here either: the date stays.
MinusDays(day, n) == IF day >= n THEN day - n ELSE day

\* cadence_anchor: the Monday of the week, or the day itself
Anchor(cadence, day) == IF cadence = "weekly" THEN MinusDays(day, day % 7) ELSE day

\* mutant: yesterday's anchor, whatever the cadence
PreviousDayAnchor(cadence, day) == MinusDays(day, 1)

PreviousAnchor(cadence, day) == MinusDays(day, IF cadence = "weekly" THEN 7 ELSE 1)

\* mutant: done today rather than done in this cycle
AlreadyCompletedToday(row, day) == row.last = day

\* already_completed_in_cycle
AlreadyCompleted(row, day) ==
  row.last # NoDay /\ Anchor(row.cadence, row.last) = Anchor(row.cadence, day)

\* next_habit_streak
NextStreak(row, day) ==
  IF /\ row.last # NoDay
     /\ Anchor(row.cadence, row.last) = PreviousAnchor(row.cadence, Anchor(row.cadence, day))
    THEN row.streak + 1
    ELSE 1

Larger(a, b) == IF a >= b THEN a ELSE b

Row == [status : {"available", "pending_review"}, cadence : Cadence,
        streak : Nat, best : Nat, completions : Nat, last : Nat \cup {NoDay}]

ASSUME NoRowAssumption == NoRow \notin Row

\* mutant: best_streak looks at the streak before this completion
CompletedLate(row, day) ==
  [row EXCEPT !.status = "available",
              !.streak = NextStreak(row, day),
              !.best = Larger(row.best, row.streak),
              !.completions = row.completions + 1,
              !.last = day]

\* What an approval on this day makes of the row it has read
Completed(row, day) ==
  [row EXCEPT !.status = "available",
              !.streak = NextStreak(row, day),
              !.best = Larger(row.best, NextStreak(row, day)),
              !.completions = row.completions + 1,
              !.last = day]

\* The habits that s is about to write and that have changed since it read them
Changed(s) == {q \in {task[s].habit} : habit[q] # task[s].row}

-------------------------------------------------------------------------------

\* POST /quests with category habit: daily unless told otherwise
CreateHabit(s, q, cadence) ==
  /\ habit[q] = NoRow
  /\ habit' = [habit EXCEPT ![q] = [status |-> "available", cadence |-> cadence,
                 streak |-> 0, best |-> 0, completions |-> 0, last |-> NoDay]]
  /\ Once(s)
  /\ UNCHANGED <<today, paid, disturbed>>

\* POST /quests/{id}/submit
BeginSubmit(s, q) ==
  /\ habit[q] # NoRow
  /\ habit[q].status = "available"
  /\ ~AlreadyCompleted(habit[q], today)
  /\ Begin(s, [at |-> "submit_write", habit |-> q, row |-> habit[q]])
  /\ UNCHANGED <<today, habit, paid, disturbed>>

SubmitWrite(s) ==
  /\ At(s, "submit_write")
  /\ habit' = [habit EXCEPT ![task[s].habit].status = "pending_review"]
  /\ disturbed' = disturbed \cup Changed(s)
  /\ Answer(s)
  /\ UNCHANGED <<today, paid>>

\* POST /quests/{id}/review: the date is taken here ...
BeginReview(s, q, approved) ==
  /\ habit[q] # NoRow
  /\ Begin(s, [at |-> "review_read", habit |-> q, approved |-> approved, day |-> today])
  /\ UNCHANGED <<today, habit, paid, disturbed>>

\* ... and the row is read, with a date that may be yesterday's by now.
ReviewRead(s) ==
  LET t == task[s] IN
  /\ At(s, "review_read")
  /\ IF habit[t.habit].status = "pending_review"
       THEN Continue(s, [at |-> IF t.approved THEN "approve_write" ELSE "reject_write",
                         habit |-> t.habit, day |-> t.day, late |-> t.day # today,
                         row |-> habit[t.habit]])
       ELSE Answer(s)
  /\ UNCHANGED <<today, habit, paid, disturbed>>

RejectWrite(s) ==
  /\ At(s, "reject_write")
  /\ habit' = [habit EXCEPT ![task[s].habit].status = "available"]
  /\ disturbed' = disturbed \cup Changed(s)
  /\ Answer(s)
  /\ UNCHANGED <<today, paid>>

\* Every column of the completion comes from the row that was read.
ApproveWrite(s) ==
  LET t == task[s] IN
  /\ At(s, "approve_write")
  /\ habit' = [habit EXCEPT ![t.habit] = Completed(t.row, t.day)]
  /\ paid' = [paid EXCEPT ![t.habit] = Append(@, t.day)]
  /\ disturbed' = disturbed \cup Changed(s) \cup {q \in {t.habit} : t.late}
  /\ Answer(s)
  /\ UNCHANGED today

\* The client goes away, or the hunter of an approval is not to be found.
Drop(s) == Abandon(s) /\ UNCHANGED <<today, habit, paid, disturbed>>

Tick ==
  /\ today < MaxDay
  /\ today' = today + 1
  /\ UNCHANGED <<habit, paid, disturbed, handlerVars>>

Init ==
  /\ today = FirstDay
  /\ habit = [q \in Habits |-> NoRow]
  /\ paid = [q \in Habits |-> <<>>]
  /\ disturbed = {}
  /\ HandlersInit

Next ==
  \/ Tick
  \/ \E s \in Slots :
       \/ \E q \in Habits :
            \/ \E cadence \in Cadence : CreateHabit(s, q, cadence)
            \/ BeginSubmit(s, q)
            \/ \E approved \in BOOLEAN : BeginReview(s, q, approved)
       \/ SubmitWrite(s) \/ ReviewRead(s) \/ RejectWrite(s) \/ ApproveWrite(s)
       \/ Drop(s)

Spec == Init /\ [][Next]_vars

-------------------------------------------------------------------------------
(* Properties.                                                             *)

\* Rows have their types.
TypeOK ==
  /\ today \in Nat
  /\ habit \in [Habits -> Row \cup {NoRow}]
  /\ disturbed \subseteq Habits

\* However requests overlap, the streak is at most the best streak, which is at most
\* the completions counted, which are at most the rewards paid (two approvals that
\* read the same row pay twice and count once).
CountsOrdered ==
  \A q \in Habits : habit[q] # NoRow =>
    /\ habit[q].streak <= habit[q].best
    /\ habit[q].best <= habit[q].completions
    /\ habit[q].completions <= Len(paid[q])

\* Weeks and days by their number, for reference
Cycle(cadence, day) == IF cadence = "weekly" THEN day \div 7 ELSE day

CyclesDone(q) == {Cycle(habit[q].cadence, paid[q][i]) : i \in DOMAIN paid[q]}

\* The longest run of cycles done that ends with the last one
RunEndingWith(done, last) ==
  CHOOSE n \in 1 .. Cardinality(done) :
    /\ last - n + 1 .. last \subseteq done
    /\ last - n \notin done

Undisturbed == {q \in Habits \ disturbed : habit[q] # NoRow /\ paid[q] # <<>>}

\* The streak that is counted on from review to review is the run of consecutive days
\* or weeks that a look at all approvals finds, and best_streak is the longest run.
StreakIsRun ==
  \A q \in Undisturbed :
    LET done == CyclesDone(q)
        last == Cycle(habit[q].cadence, paid[q][Len(paid[q])])
    IN
    /\ habit[q].streak = RunEndingWith(done, last)
    /\ \A c \in done : RunEndingWith(done, c) <= habit[q].best
    /\ \E c \in done : RunEndingWith(done, c) = habit[q].best

\* A habit pays once per day or week.  The check is made when it is submitted, and
\* nobody repeats it when the submission is written, or reviewed on a later day.
PaidOncePerCycle ==
  \A q \in Undisturbed :
    /\ Cardinality(CyclesDone(q)) = Len(paid[q])
    /\ habit[q].completions = Len(paid[q])
===============================================================================
