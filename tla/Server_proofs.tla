------------------------------ MODULE Server_proofs -----------------------------
(***************************************************************************)
(* What Server promises of locked accounts, of the schema the migrations   *)
(* leave and of the rows a current process finds.                          *)
(***************************************************************************)
EXTENDS Server, SequenceTheorems, FiniteSetTheorems, WellFoundedInduction, TLAPS

-------------------------------------------------------------------------------
(* Least and greatest members.                                             *)

\* A set of numbers that is not empty has a least member, which is its Min.
LEMMA MinIsLeast ==
  ASSUME NEW S \in SUBSET Nat, S # {}
  PROVE  Min(S) \in S /\ \A y \in S : Min(S) <= y
<1> DEFINE R == {ss \in Nat \X Nat : ss[1] < ss[2]}
<1>1. IsWellFoundedOn(R, Nat)
  BY NatLessThanWellFounded DEF OpToRel
<1> HIDE DEF R
<1>2. PICK x \in S : \A y \in S : ~(<<y, x>> \in R)
  BY <1>1, WFMin
<1>3. \A y \in S : ~(y < x)
  BY <1>2 DEF R
<1>4. \A y \in S : x <= y
  BY <1>3
<1> QED BY <1>4 DEF Min

\* A set of numbers below a bound has a greatest member, which is its Max.
LEMMA MaxIsGreatest ==
  ASSUME NEW n \in Nat, NEW S \in SUBSET (0 .. n), S # {}
  PROVE  Max(S) \in S /\ \A y \in S : y <= Max(S)
<1> DEFINE T == {k \in Nat : n - k \in S}
<1>1. ASSUME NEW z \in S PROVE n - z \in T
  <2>1. n - (n - z) = z /\ n - z \in Nat
    BY <1>1
  <2> QED BY <2>1
<1>2. T \in SUBSET Nat /\ T # {}
  BY <1>1
<1> DEFINE k == Min(T)
<1> HIDE DEF T, k
<1>3. k \in T /\ \A j \in T : k <= j
  BY <1>2, MinIsLeast DEF k
<1>4. n - k \in S /\ k \in Nat
  BY <1>3 DEF T
<1>5. ASSUME NEW y \in S PROVE n - k >= y
  <2>1. y \in 0 .. n
    OBVIOUS
  <2>2. k <= n - y
    BY <1>1, <1>3
  <2> QED BY <1>4, <2>1, <2>2
<1>6. \E x \in S : \A y \in S : x >= y
  BY <1>4, <1>5
<1>7. Max(S) \in S /\ \A y \in S : Max(S) >= y
  BY <1>6 DEF Max
<1> QED BY <1>7

-------------------------------------------------------------------------------
(* Types of the throttle and of the logins in flight.                      *)

AttemptState == [failures : Nat, until : Nat, seen : Nat]

\* The map of a node: an entry for each account it counts.
IsMap(map) ==
  /\ DOMAIN map \in SUBSET Accounts
  /\ map \in [DOMAIN map -> AttemptState]

LoginTask == [at : {"verify"}, node : Nodes, account : Accounts]

TaskTypes == task \in [Slots -> {Idle} \cup LoginTask]

ThrottleTypes ==
  /\ now \in Nat
  /\ attempts = [n \in Nodes |-> attempts[n]]
  /\ \A n \in Nodes : IsMap(attempts[n])
  /\ failed \in [Nodes -> [Accounts -> Seq(Nat)]]

\* The length of a lock is a number of instants, at least that of a lock for fewer failures.
LEMMA LockLengthGrows ==
  ASSUME NEW j \in Nat, NEW k \in Nat, LockAfter <= j, j <= k
  PROVE  LockLength(j) \in Nat /\ LockLength(k) \in Nat /\ LockLength(j) <= LockLength(k)
<1>1. /\ LockSeconds \in Nat /\ MaxLock \in Nat /\ Second \in Nat /\ LockAfter \in Nat
  BY ThrottleAssumption
<1>2. PICK u \in Nat, v \in Nat : /\ u = LockSeconds * (j - LockAfter + 1)
                                  /\ v = LockSeconds * (k - LockAfter + 1)
                                  /\ u <= v
  <2>1. PICK x \in Nat, y \in Nat : x = j - LockAfter + 1 /\ y = k - LockAfter + 1 /\ x <= y
    BY <1>1
  <2>2. LockSeconds * x \in Nat /\ LockSeconds * y \in Nat /\ LockSeconds * x <= LockSeconds * y
    BY <1>1, <2>1
  <2> QED BY <2>1, <2>2
<1>3. PICK p \in Nat, q \in Nat : p = Min({u, MaxLock}) /\ q = Min({v, MaxLock}) /\ p <= q
  <2>1. {u, MaxLock} \in SUBSET Nat /\ {v, MaxLock} \in SUBSET Nat
    BY <1>1
  <2>2. /\ Min({u, MaxLock}) \in {u, MaxLock}
        /\ \A y \in {u, MaxLock} : Min({u, MaxLock}) <= y
    BY <2>1, MinIsLeast
  <2>3. /\ Min({v, MaxLock}) \in {v, MaxLock}
        /\ \A y \in {v, MaxLock} : Min({v, MaxLock}) <= y
    BY <2>1, MinIsLeast
  <2> QED BY <1>1, <1>2, <2>2, <2>3
<1>4. p * Second \in Nat /\ q * Second \in Nat /\ p * Second <= q * Second
  BY <1>1, <1>3
<1> QED BY <1>2, <1>3, <1>4 DEF LockLength

\* Cleaning a map keeps entries as they are.
LEMMA CleanedKeepsEntries ==
  ASSUME NEW map, IsMap(map)
  PROVE  /\ IsMap(Cleaned(map))
         /\ \A a \in DOMAIN Cleaned(map) : a \in DOMAIN map /\ Cleaned(map)[a] = map[a]
         /\ \A a \in DOMAIN map : now - map[a].seen <= ForgetAfter => a \in DOMAIN Cleaned(map)
<1> DEFINE kept == {a \in DOMAIN map : \/ now - map[a].seen <= ForgetAfter
                                       \/ map[a].until > now}
<1>1. Cleaned(map) = [a \in kept |-> map[a]]
  BY DEF Cleaned
<1> QED BY <1>1 DEF IsMap

-------------------------------------------------------------------------------
(* What a map knows of the failures.                                       *)

\* The last k of the times reach back to a gap that is longer than a count lives, or to the
\* first of them.
CoversRun(times, k) ==
  \/ Len(times) <= k
  \/ \E i \in 1 .. (Len(times) - 1) : i >= Len(times) - k /\ times[i + 1] - times[i] > ForgetAfter

\* The entry has counted these failures, and has locked the account if they were enough.
Counted(times, e) ==
  /\ e.seen = times[Len(times)]
  /\ CoversRun(times, e.failures)
  /\ e.failures >= LockAfter => e.until = e.seen + LockLength(e.failures)

\* A failure that is not yet forgotten is counted by its node.
CountedAt(n, a) ==
  LET times == failed[n][a]
  IN times # <<>> /\ now - times[Len(times)] <= ForgetAfter =>
       a \in DOMAIN attempts[n] /\ Counted(times, attempts[n][a])

CountInv == \A n \in Nodes, a \in Accounts : CountedAt(n, a)

\* One failure more is covered by one count more, and after a long gap by any.
LEMMA AppendIsCovered ==
  ASSUME NEW times \in Seq(Nat), NEW t \in Nat, NEW k \in Nat,
         \/ CoversRun(times, k)
         \/ t - times[Len(times)] > ForgetAfter
  PROVE  CoversRun(Append(times, t), k + 1)
<1> DEFINE more == Append(times, t)
           n == Len(times)
<1>1. /\ Len(more) = n + 1
      /\ more[n + 1] = t
      /\ \A i \in 1 .. n : more[i] = times[i]
      /\ n \in Nat
  BY AppendProperties, LenProperties
<1>2. CASE n <= k
  BY <1>1, <1>2 DEF CoversRun
<1>3. CASE \E i \in 1 .. (n - 1) : i >= n - k /\ times[i + 1] - times[i] > ForgetAfter
  <2>1. PICK i \in 1 .. (n - 1) : i >= n - k /\ times[i + 1] - times[i] > ForgetAfter
    BY <1>3
  <2>2. i \in 1 .. (Len(more) - 1) /\ i >= Len(more) - (k + 1)
    BY <1>1, <2>1
  <2>3. more[i] = times[i] /\ more[i + 1] = times[i + 1]
    BY <1>1, <2>1
  <2> QED BY <2>1, <2>2, <2>3 DEF CoversRun
<1>4. CASE t - times[n] > ForgetAfter
  <2>1. CASE n = 0
    BY <1>1, <2>1 DEF CoversRun
  <2>2. CASE n # 0
    <3>1. n \in 1 .. (Len(more) - 1) /\ n >= Len(more) - (k + 1)
      BY <1>1, <1>4, <2>2
    <3>2. more[n + 1] - more[n] > ForgetAfter
      BY <1>1, <1>4, <2>2
    <3> QED BY <3>1, <3>2 DEF CoversRun
  <2> QED BY <2>1, <2>2
<1> QED BY <1>2, <1>3, <1>4 DEF CoversRun

\* The run that still counts is no longer than what covers it, ends with the last failure,
\* and is empty once that is forgotten.
LEMMA RunIsCovered ==
  ASSUME NEW times \in Seq(Nat), now \in Nat, NEW k \in Nat, CoversRun(times, k),
         RunOfFailures(times) # <<>>
  PROVE  /\ Len(RunOfFailures(times)) \in 1 .. k
         /\ times # <<>>
         /\ now - times[Len(times)] <= ForgetAfter
         /\ RunOfFailures(times)[Len(RunOfFailures(times))] = times[Len(times)]
<1> DEFINE n == Len(times)
           gap(i) == (IF i = n THEN now ELSE times[i + 1]) - times[i]
           cuts == {i \in DOMAIN times : gap(i) > ForgetAfter}
           from == IF cuts = {} THEN 1 ELSE Max(cuts) + 1
           run == RunOfFailures(times)
<1>1. n \in Nat /\ DOMAIN times = 1 .. n /\ ForgetAfter \in Nat
  BY LenProperties, ThrottleAssumption
<1>2. run = SubSeq(times, from, n)
  BY DEF RunOfFailures
<1>3. cuts # {} => Max(cuts) \in cuts /\ \A i \in cuts : i <= Max(cuts)
  <2>1. cuts \in SUBSET (0 .. n)
    BY <1>1
  <2> HIDE DEF cuts
  <2> QED BY <1>1, <2>1, MaxIsGreatest
<1>4. from \in 1 .. (n + 1)
  BY <1>1, <1>3
<1> HIDE DEF from
<1>5. from <= n
  <2>1. CASE from > n
    <3>1. run = <<>>
      BY <1>1, <1>2, <1>4, <2>1
    <3> QED BY <3>1
  <2> QED BY <1>1, <1>4, <2>1
<1>6. Len(run) = n - from + 1 /\ run[n - from + 1] = times[n]
  <2>1. PICK u \in 1 .. n : u = from
    BY <1>4, <1>5
  <2>2. run = SubSeq(times, u, n)
    BY <1>2, <2>1
  <2>3. Len(run) = n - u + 1 /\ \A i \in 1 .. (n - u + 1) : run[i] = times[u + i - 1]
    BY <1>1, <2>1, <2>2, SubSeqProperties
  <2>4. n - u + 1 \in 1 .. (n - u + 1) /\ u + (n - u + 1) - 1 = n
    BY <1>1, <2>1
  <2> QED BY <2>1, <2>3, <2>4
<1>7. \A i \in cuts : i < from
  <2>1. cuts \in SUBSET (1 .. n)
    BY <1>1
  <2> HIDE DEF cuts
  <2>2. CASE cuts # {}
    <3>1. PICK m \in 1 .. n : m = Max(cuts) /\ \A i \in cuts : i <= m
      BY <1>3, <2>1, <2>2
    <3>2. from = m + 1
      BY <2>2, <3>1 DEF from
    <3> QED BY <1>1, <2>1, <3>1, <3>2
  <2> QED BY <2>2
<1>8. now - times[n] <= ForgetAfter
  <2>1. n \in DOMAIN times /\ times[n] \in Nat
    BY <1>1, <1>4, <1>5
  <2>2. n \notin cuts
    <3> HIDE DEF cuts
    <3> QED BY <1>1, <1>4, <1>5, <1>7
  <2>3. ~(gap(n) > ForgetAfter)
    BY <2>1, <2>2
  <2>4. gap(n) = now - times[n]
    OBVIOUS
  <2> QED BY <1>1, <2>1, <2>3, <2>4
<1>9. n - from + 1 <= k
  <2>1. CASE n <= k
    BY <1>1, <1>4, <2>1
  <2>2. CASE \E i \in 1 .. (n - 1) : i >= n - k /\ times[i + 1] - times[i] > ForgetAfter
    <3>1. PICK i \in 1 .. (n - 1) : i >= n - k /\ times[i + 1] - times[i] > ForgetAfter
      BY <2>2
    <3>2. i \in cuts
      <4>1. i \in 1 .. n /\ i # n
        <5>1. PICK m \in Nat : m = n
          BY <1>1
        <5>2. i \in 1 .. (m - 1)
          BY <5>1
        <5> QED BY <5>1, <5>2
      <4>2. gap(i) = times[i + 1] - times[i]
        BY <4>1
      <4> QED BY <1>1, <3>1, <4>1, <4>2
    <3>3. i < from
      <4> HIDE DEF cuts
      <4> QED BY <1>7, <3>2
    <3> QED BY <1>1, <1>4, <3>1, <3>3
  <2> QED BY <2>1, <2>2 DEF CoversRun
<1>10. n - from + 1 \in 1 .. k /\ times # <<>>
  BY <1>1, <1>4, <1>5, <1>9
<1> QED BY <1>6, <1>8, <1>10

-------------------------------------------------------------------------------
(* The steps of the throttle keep its counts.                              *)

\* An account that is let through is in no lock that its failures deserve.
LEMMA LetThroughIsUnlocked ==
  ASSUME ThrottleTypes, CountInv, NEW n \in Nodes, NEW a \in Accounts,
         BlockedSeconds(n, a) = 0
  PROVE  ~Deserved(n, a)
<1> SUFFICES ASSUME Deserved(n, a) PROVE FALSE
  OBVIOUS
<1> DEFINE times == failed[n][a]
           run == RunOfFailures(times)
           map == Cleaned(attempts[n])
<1>1. times \in Seq(Nat) /\ now \in Nat /\ IsMap(attempts[n])
  BY DEF ThrottleTypes
<1>2. /\ Len(run) >= LockAfter
      /\ now + Second <= run[Len(run)] + LockLength(Len(run))
  BY DEF Deserved, LockLength
<1>3. /\ Second \in Nat \ {0} /\ LockAfter \in Nat \ {0} /\ ForgetAfter \in Nat
  BY ThrottleAssumption
<1>4. run # <<>>
  BY <1>2, <1>3
<1>5. times # <<>> /\ now - times[Len(times)] <= ForgetAfter
  <2>1. CoversRun(times, Len(times)) /\ Len(times) \in Nat
    BY <1>1, LenProperties DEF CoversRun
  <2> HIDE DEF times, run
  <2> QED BY <1>1, <1>4, <2>1, RunIsCovered DEF run
<1>6. a \in DOMAIN attempts[n] /\ Counted(times, attempts[n][a])
  BY <1>5 DEF CountInv, CountedAt
<1>7. PICK e \in AttemptState : e = attempts[n][a]
  BY <1>1, <1>6 DEF IsMap
<1>8. a \in DOMAIN map /\ map[a] = e
  <2>1. now - attempts[n][a].seen <= ForgetAfter
    BY <1>5, <1>6 DEF Counted
  <2> QED BY <1>1, <1>6, <1>7, <2>1, CleanedKeepsEntries
<1>9. /\ e.failures \in Nat /\ e.until \in Nat /\ e.seen \in Nat
      /\ e.seen = times[Len(times)]
      /\ CoversRun(times, e.failures)
      /\ e.failures >= LockAfter => e.until = e.seen + LockLength(e.failures)
  BY <1>6, <1>7 DEF Counted, AttemptState
<1>10. Len(run) \in 1 .. e.failures /\ run[Len(run)] = e.seen
  <2> HIDE DEF times, run
  <2> QED BY <1>1, <1>4, <1>9, RunIsCovered DEF run
<1>11. PICK k \in Nat, f \in Nat : k = Len(run) /\ f = e.failures /\ LockAfter <= k /\ k <= f
  BY <1>2, <1>3, <1>9, <1>10
<1>12. PICK x \in Nat, y \in Nat : x = LockLength(k) /\ y = LockLength(f) /\ x <= y
  BY <1>11, LockLengthGrows
<1>13. e.until = e.seen + y /\ now + Second <= e.seen + x
  BY <1>2, <1>3, <1>9, <1>10, <1>11, <1>12
<1>14. PICK d \in Nat : d = e.until - now /\ d >= Second
  <2> HIDE DEF run, times, map
  <2> QED BY <1>1, <1>3, <1>9, <1>12, <1>13
<1>15. d \div Second \in Nat /\ d \div Second >= 1
  BY <1>3, <1>14
<1>16. BlockedSeconds(n, a) = Max({d \div Second, 0})
  BY <1>8, <1>14 DEF BlockedSeconds
<1>17. Max({d \div Second, 0}) >= 1
  <2>1. PICK q \in Nat : q = d \div Second /\ q >= 1
    BY <1>15
  <2>2. {q, 0} \in SUBSET (0 .. q)
    BY <2>1
  <2>3. \A z \in {q, 0} : z <= Max({q, 0}) 
    BY <2>2, MaxIsGreatest
  <2>4. Max({q, 0}) \in {q, 0}
    BY <2>2, MaxIsGreatest
  <2> QED BY <2>1, <2>3, <2>4
<1> QED BY <1>16, <1>17

\* The throttle's variables after a step.
ThrottleAfter == ThrottleTypes' /\ CountInv'

\* Looking at a map drops only entries that have nothing left to count.
LEMMA LookStep ==
  ASSUME ThrottleTypes, CountInv, NEW n \in Nodes, Look(n)
  PROVE  ThrottleAfter
<1>1. /\ attempts' = [attempts EXCEPT ![n] = Cleaned(@)]
      /\ failed' = failed /\ now' = now
  BY DEF Look
<1>2. attempts' = [m \in Nodes |-> IF m = n THEN Cleaned(attempts[n]) ELSE attempts[m]]
  <2>1. attempts = [m \in Nodes |-> attempts[m]]
    BY DEF ThrottleTypes
  <2> QED BY <1>1, <2>1
<1>3. IsMap(attempts[n])
  BY DEF ThrottleTypes
<1>4. ThrottleTypes'
  <2>1. IsMap(Cleaned(attempts[n]))
    BY <1>3, CleanedKeepsEntries
  <2>2. ASSUME NEW m \in Nodes PROVE IsMap(attempts'[m])
    BY <1>2, <2>1 DEF ThrottleTypes
  <2>3. attempts' = [m \in Nodes |-> attempts'[m]]
    BY <1>2
  <2>4. \A m \in Nodes : IsMap(attempts[m])'
    BY <2>2 DEF IsMap
  <2> QED BY <1>1, <2>3, <2>4 DEF ThrottleTypes
<1>5. ASSUME NEW m \in Nodes, NEW a \in Accounts PROVE CountedAt(m, a)'
  <2> DEFINE times == failed[m][a]
  <2>1. SUFFICES ASSUME times # <<>>, now - times[Len(times)] <= ForgetAfter
                 PROVE  a \in DOMAIN attempts'[m] /\ Counted(times, attempts'[m][a])
    BY <1>1 DEF CountedAt, Counted
  <2>2. a \in DOMAIN attempts[m] /\ Counted(times, attempts[m][a])
    BY <2>1 DEF CountInv, CountedAt
  <2>3. CASE m # n
    BY <1>2, <2>2, <2>3
  <2>4. CASE m = n
    <3>1. now - attempts[n][a].seen <= ForgetAfter
      BY <2>1, <2>2, <2>4 DEF Counted
    <3>2. a \in DOMAIN Cleaned(attempts[n]) /\ Cleaned(attempts[n])[a] = attempts[n][a]
      BY <1>3, <2>2, <2>4, <3>1, CleanedKeepsEntries
    <3> QED BY <1>2, <2>2, <2>4, <3>2
  <2> QED BY <2>3, <2>4
<1>6. CountInv'
  BY <1>5 DEF CountInv
<1> QED BY <1>4, <1>6 DEF ThrottleAfter

\* A success drops the count together with the failures it counted.
LEMMA SuccessStep ==
  ASSUME ThrottleTypes, CountInv, NEW n \in Nodes, NEW a \in Accounts, RecordSuccess(n, a)
  PROVE  ThrottleAfter
<1> DEFINE map == [b \in DOMAIN attempts[n] \ {a} |-> attempts[n][b]]
<1>1. /\ attempts' = [attempts EXCEPT ![n] = map]
      /\ failed' = [failed EXCEPT ![n][a] = <<>>] /\ now' = now
  BY DEF RecordSuccess
<1>2. attempts' = [m \in Nodes |-> IF m = n THEN map ELSE attempts[m]]
  <2>1. attempts = [m \in Nodes |-> attempts[m]]
    BY DEF ThrottleTypes
  <2> QED BY <1>1, <2>1
<1>3. IsMap(map)
  BY DEF ThrottleTypes, IsMap
<1>4. failed' \in [Nodes -> [Accounts -> Seq(Nat)]]
  <2>1. <<>> \in Seq(Nat)
    OBVIOUS
  <2> QED BY <1>1, <2>1 DEF ThrottleTypes
<1>5. ThrottleTypes'
  <2>1. \A m \in Nodes : IsMap(attempts'[m])
    BY <1>2, <1>3 DEF ThrottleTypes
  <2>2. attempts' = [m \in Nodes |-> attempts'[m]]
    BY <1>2
  <2>3. \A m \in Nodes : IsMap(attempts[m])'
    BY <2>1 DEF IsMap
  <2> QED BY <1>1, <1>4, <2>2, <2>3 DEF ThrottleTypes
<1>6. ASSUME NEW m \in Nodes, NEW b \in Accounts PROVE CountedAt(m, b)'
  <2>1. CASE m = n /\ b = a
    <3>1. failed'[m][b] = <<>>
      BY <1>1, <2>1 DEF ThrottleTypes
    <3> QED BY <3>1 DEF CountedAt
  <2>2. CASE ~(m = n /\ b = a)
    <3>1. failed'[m][b] = failed[m][b]
      BY <1>1, <2>2 DEF ThrottleTypes
    <3>2. b \in DOMAIN attempts[m] =>
            b \in DOMAIN attempts'[m] /\ attempts'[m][b] = attempts[m][b]
      BY <1>2, <2>2
    <3>3. CountedAt(m, b)
      BY DEF CountInv
    <3> QED BY <1>1, <3>1, <3>2, <3>3 DEF CountedAt, Counted
  <2> QED BY <2>1, <2>2
<1>7. CountInv'
  BY <1>6 DEF CountInv
<1> QED BY <1>5, <1>7 DEF ThrottleAfter

\* A failure is counted on top of what the map had not forgotten.
LEMMA FailureStep ==
  ASSUME ThrottleTypes, CountInv, NEW n \in Nodes, NEW a \in Accounts, RecordFailure(n, a)
  PROVE  ThrottleAfter
<1> DEFINE map      == Cleaned(attempts[n])
           before   == IF a \in DOMAIN map THEN map[a]
                       ELSE [failures |-> 0, until |-> 0, seen |-> now]
           failures == before.failures + 1
           state    == [failures |-> failures, seen |-> now,
                        until |-> IF failures >= LockAfter THEN now + LockLength(failures)
                                  ELSE before.until]
           after    == [b \in DOMAIN map \union {a} |-> IF b = a THEN state ELSE map[b]]
           times    == failed[n][a]
<1>1. /\ attempts' = [attempts EXCEPT ![n] = after]
      /\ failed' = [failed EXCEPT ![n][a] = Append(@, now)] /\ now' = now
  BY DEF RecordFailure
<1>2. attempts' = [m \in Nodes |-> IF m = n THEN after ELSE attempts[m]]
  <2>1. attempts = [m \in Nodes |-> attempts[m]]
    BY DEF ThrottleTypes
  <2> HIDE DEF after
  <2> QED BY <1>1, <2>1
<1>3. now \in Nat /\ times \in Seq(Nat) /\ IsMap(attempts[n]) /\ IsMap(map)
  BY CleanedKeepsEntries DEF ThrottleTypes
<1>4. before \in AttemptState
  <2>1. a \in DOMAIN map => map[a] \in AttemptState
    BY <1>3 DEF IsMap
  <2>2. [failures |-> 0, until |-> 0, seen |-> now] \in AttemptState
    BY <1>3 DEF AttemptState
  <2> QED BY <2>1, <2>2
<1>5. before.failures \in Nat /\ before.until \in Nat /\ failures \in Nat
  <2> HIDE DEF before
  <2> QED BY <1>4 DEF AttemptState
<1>6. failures >= LockAfter => now + LockLength(failures) \in Nat
  <2> HIDE DEF failures
  <2>1. CASE failures >= LockAfter
    <3>1. LockLength(failures) \in Nat
      BY <1>5, <2>1, LockLengthGrows
    <3> QED BY <1>3, <3>1
  <2> QED BY <2>1
<1>7. state \in AttemptState
  <2> HIDE DEF failures, before
  <2> QED BY <1>3, <1>5, <1>6 DEF AttemptState
<1>8. IsMap(after)
  <2> HIDE DEF state, map
  <2> QED BY <1>3, <1>7 DEF IsMap
<1>9. failed' \in [Nodes -> [Accounts -> Seq(Nat)]]
  <2>1. Append(times, now) \in Seq(Nat)
    BY <1>3, AppendProperties
  <2> QED BY <1>1, <2>1 DEF ThrottleTypes
<1>10. ThrottleTypes'
  <2> HIDE DEF after
  <2>1. \A m \in Nodes : IsMap(attempts'[m])
    BY <1>2, <1>8 DEF ThrottleTypes
  <2>2. attempts' = [m \in Nodes |-> attempts'[m]]
    BY <1>2
  <2>3. \A m \in Nodes : IsMap(attempts[m])'
    BY <2>1 DEF IsMap
  <2> QED BY <1>1, <1>9, <2>2, <2>3 DEF ThrottleTypes
<1>11. Counted(Append(times, now), state)
  <2>1. CoversRun(Append(times, now), failures)
    <3>1. \/ CoversRun(times, before.failures)
          \/ now - times[Len(times)] > ForgetAfter
      <4>1. CASE times = <<>>
        <5>1. Len(times) = 0
          BY <4>1
        <5> HIDE DEF before, times
        <5> QED BY <1>5, <5>1 DEF CoversRun
      <4>2. CASE times # <<>> /\ now - times[Len(times)] <= ForgetAfter
        <5>1. a \in DOMAIN attempts[n] /\ Counted(times, attempts[n][a])
          BY <4>2 DEF CountInv, CountedAt
        <5>2. now - attempts[n][a].seen <= ForgetAfter
          BY <4>2, <5>1 DEF Counted
        <5>3. a \in DOMAIN map /\ map[a] = attempts[n][a]
          BY <1>3, <5>1, <5>2, CleanedKeepsEntries
        <5>4. before = attempts[n][a]
          BY <5>3
        <5> HIDE DEF before
        <5> QED BY <5>1, <5>4 DEF Counted
      <4>3. CASE times # <<>> /\ ~(now - times[Len(times)] <= ForgetAfter)
        <5>1. now - times[Len(times)] > ForgetAfter
          BY <1>3, <4>3, ThrottleAssumption
        <5> QED BY <5>1
      <4> QED BY <4>1, <4>2, <4>3
    <3> HIDE DEF before, times
    <3> QED BY <1>3, <1>5, <3>1, AppendIsCovered
  <2>2. Append(times, now)[Len(Append(times, now))] = now
    BY <1>3, AppendProperties
  <2> HIDE DEF before, times
  <2> QED BY <1>3, <1>5, <1>6, <2>1, <2>2 DEF Counted
<1>12. ASSUME NEW m \in Nodes, NEW b \in Accounts PROVE CountedAt(m, b)'
  <2> HIDE DEF state, map
  <2>1. CASE m = n /\ b = a
    <3>1. failed'[m][b] = Append(times, now)
      BY <1>1, <2>1 DEF ThrottleTypes
    <3>2. b \in DOMAIN attempts'[m] /\ attempts'[m][b] = state
      BY <1>2, <2>1
    <3> QED BY <1>11, <3>1, <3>2 DEF CountedAt, Counted
  <2>2. CASE m # n
    <3>1. failed'[m][b] = failed[m][b]
      BY <1>1, <2>2 DEF ThrottleTypes
    <3>2. attempts'[m] = attempts[m]
      BY <1>2, <2>2
    <3>3. CountedAt(m, b)
      BY DEF CountInv
    <3> QED BY <1>1, <3>1, <3>2, <3>3 DEF CountedAt, Counted
  <2>3. CASE m = n /\ b # a
    <3>1. failed'[m][b] = failed[m][b]
      BY <1>1, <2>3 DEF ThrottleTypes
    <3>2. CountedAt(m, b)
      BY DEF CountInv
    <3>3. ASSUME failed[m][b] # <<>>, now - failed[m][b][Len(failed[m][b])] <= ForgetAfter
          PROVE  b \in DOMAIN attempts'[m] /\ attempts'[m][b] = attempts[m][b]
      <4>1. b \in DOMAIN attempts[n] /\ attempts[n][b].seen = failed[n][b][Len(failed[n][b])]
        BY <2>3, <3>2, <3>3 DEF CountedAt, Counted
      <4>2. b \in DOMAIN map /\ map[b] = attempts[n][b]
        BY <1>3, <2>3, <3>3, <4>1, CleanedKeepsEntries DEF map
      <4> QED BY <1>2, <2>3, <4>2
    <3> QED BY <1>1, <3>1, <3>2, <3>3 DEF CountedAt, Counted
  <2> QED BY <2>1, <2>2, <2>3
<1>13. CountInv'
  BY <1>12 DEF CountInv
<1> QED BY <1>10, <1>13 DEF ThrottleAfter

\* A process that ends forgets its counts, and its failures are counted from its next start.
LEMMA ForgetStep ==
  ASSUME ThrottleTypes, CountInv, NEW n \in Nodes, ForgetAttempts(n)
  PROVE  ThrottleAfter
<1>1. /\ attempts' = [attempts EXCEPT ![n] = NoAttempts]
      /\ failed' = [failed EXCEPT ![n] = [a \in Accounts |-> <<>>]] /\ now' = now
  BY DEF ForgetAttempts
<1>2. attempts' = [m \in Nodes |-> IF m = n THEN NoAttempts ELSE attempts[m]]
  <2>1. attempts = [m \in Nodes |-> attempts[m]]
    BY DEF ThrottleTypes
  <2> QED BY <1>1, <2>1
<1>3. IsMap(NoAttempts)
  BY DEF NoAttempts, IsMap
<1>4. failed' \in [Nodes -> [Accounts -> Seq(Nat)]]
  <2>1. <<>> \in Seq(Nat)
    OBVIOUS
  <2>2. [a \in Accounts |-> <<>>] \in [Accounts -> Seq(Nat)]
    BY <2>1
  <2> QED BY <1>1, <2>2 DEF ThrottleTypes
<1>5. ThrottleTypes'
  <2>1. \A m \in Nodes : IsMap(attempts'[m])
    BY <1>2, <1>3 DEF ThrottleTypes
  <2>2. attempts' = [m \in Nodes |-> attempts'[m]]
    BY <1>2
  <2>3. \A m \in Nodes : IsMap(attempts[m])'
    BY <2>1 DEF IsMap
  <2> QED BY <1>1, <1>4, <2>2, <2>3 DEF ThrottleTypes
<1>6. ASSUME NEW m \in Nodes, NEW b \in Accounts PROVE CountedAt(m, b)'
  <2>1. CASE m = n
    <3>1. failed'[m][b] = <<>>
      BY <1>1, <2>1 DEF ThrottleTypes
    <3> QED BY <3>1 DEF CountedAt
  <2>2. CASE m # n
    <3>1. failed'[m] = failed[m] /\ attempts'[m] = attempts[m]
      BY <1>1, <1>2, <2>2 DEF ThrottleTypes
    <3>2. CountedAt(m, b)
      BY DEF CountInv
    <3> QED BY <1>1, <3>1, <3>2 DEF CountedAt, Counted
  <2> QED BY <2>1, <2>2
<1>7. CountInv'
  BY <1>6 DEF CountInv
<1> QED BY <1>5, <1>7 DEF ThrottleAfter

\* Time that passes can only make a failure forgotten.
LEMMA TickStep ==
  ASSUME ThrottleTypes, CountInv, Tick
  PROVE  ThrottleAfter
<1>1. now' = now + 1 /\ attempts' = attempts /\ failed' = failed /\ now \in Nat
  BY DEF Tick, ThrottleTypes
<1>2. ThrottleTypes'
  BY <1>1 DEF ThrottleTypes, IsMap
<1>3. ASSUME NEW n \in Nodes, NEW a \in Accounts PROVE CountedAt(n, a)'
  <2> DEFINE times == failed[n][a]
  <2>1. SUFFICES ASSUME times # <<>>, now' - times[Len(times)] <= ForgetAfter
                 PROVE  a \in DOMAIN attempts[n] /\ Counted(times, attempts[n][a])
    BY <1>1 DEF CountedAt, Counted
  <2>2. times[Len(times)] \in Nat
    <3>1. times \in Seq(Nat)
      BY DEF ThrottleTypes
    <3> HIDE DEF times
    <3> QED BY <2>1, <3>1, LenProperties
  <2>3. now - times[Len(times)] <= ForgetAfter
    <3> HIDE DEF times
    <3> QED BY <1>1, <2>1, <2>2, ThrottleAssumption
  <2> QED BY <2>1, <2>3 DEF CountInv, CountedAt
<1>4. CountInv'
  BY <1>3 DEF CountInv
<1> QED BY <1>2, <1>4 DEF ThrottleAfter

-------------------------------------------------------------------------------
(* Accounts are locked.                                                    *)

ThrottleInv == TaskTypes /\ ThrottleTypes /\ CountInv

\* No failure is on record when the first process starts.
LEMMA ThrottleInvInit == Init => ThrottleInv
<1> SUFFICES ASSUME Init PROVE ThrottleInv
  OBVIOUS
<1>1. ThrottleInit /\ task = [s \in Slots |-> Idle]
  BY DEF Init, HandlersInit
<1>2. TaskTypes
  BY <1>1 DEF TaskTypes
<1>3. IsMap(NoAttempts)
  BY DEF IsMap, NoAttempts
<1>4. ThrottleTypes
  <2>1. <<>> \in Seq(Nat)
    OBVIOUS
  <2>2. [a \in Accounts |-> <<>>] \in [Accounts -> Seq(Nat)]
    BY <2>1
  <2> QED BY <1>1, <1>3, <2>2 DEF ThrottleInit, ThrottleTypes
<1>5. CountInv
  BY <1>1 DEF ThrottleInit, CountInv, CountedAt
<1> QED BY <1>2, <1>4, <1>5 DEF ThrottleInv

\* What a step does to the throttle: it looks at a map, counts an outcome, forgets a map or
\* lets time pass.
LEMMA WhoCounts ==
  ASSUME TaskTypes, [Next]_vars
  PROVE  \/ UNCHANGED throttleVars
         \/ \E n \in Nodes : Look(n) \/ ForgetAttempts(n)
         \/ \E n \in Nodes, a \in Accounts : RecordSuccess(n, a) \/ RecordFailure(n, a)
         \/ Tick
<1>1. ASSUME NEW n \in Nodes, StartMigrating(n) \/ FinishMigrating(n) \/ ServeUnmigrated(n)
      PROVE  UNCHANGED throttleVars
  BY <1>1 DEF StartMigrating, FinishMigrating, ServeUnmigrated
<1>2. ASSUME NEW n \in Nodes, Stop(n) PROVE ForgetAttempts(n)
  BY <1>2 DEF Stop
<1>3. CASE OperatorUp
  BY <1>3 DEF OperatorUp
<1>4. ASSUME NEW k \in RollBackSteps, OperatorDown(k) PROVE UNCHANGED throttleVars
  BY <1>4 DEF OperatorDown
<1>5. ASSUME NEW n \in Nodes, NEW g \in Guilds, RegisterGuild(n, g)
      PROVE  UNCHANGED throttleVars
  BY <1>5 DEF RegisterGuild
<1>6. ASSUME NEW s \in Slots, NEW n \in Nodes, NEW a \in Accounts,
             BeginLogin(s, n, a) \/ RefuseLogin(s, n, a)
      PROVE  Look(n)
  BY <1>6 DEF BeginLogin, RefuseLogin
<1>7. ASSUME NEW s \in Slots, LoginSucceeds(s) \/ LoginUnauthorized(s)
      PROVE  \E n \in Nodes, a \in Accounts : RecordSuccess(n, a) \/ RecordFailure(n, a)
  <2>1. task[s] \in LoginTask
    BY <1>7 DEF LoginSucceeds, LoginUnauthorized, At, Idle, TaskTypes
  <2>2. task[s].node \in Nodes /\ task[s].account \in Accounts
    BY <2>1 DEF LoginTask
  <2> QED BY <1>7, <2>2 DEF LoginSucceeds, LoginUnauthorized
<1>8. ASSUME NEW s \in Slots, LoginBreaksOff(s) PROVE UNCHANGED throttleVars
  BY <1>8 DEF LoginBreaksOff
<1>9. CASE Passes
  BY <1>9 DEF Passes
<1>10. CASE UNCHANGED vars
  BY <1>10 DEF vars, throttleVars
<1> QED
  BY <1>1, <1>2, <1>3, <1>4, <1>5, <1>6, <1>7, <1>8, <1>9, <1>10 DEF Next

\* What a step does to a login: it begins one that its node lets through, or ends one.
LEMMA WhoLogsIn ==
  ASSUME TaskTypes, [Next]_vars
  PROVE  /\ TaskTypes'
         /\ \A s \in Slots : task[s] = Idle /\ task'[s] # Idle =>
              \E n \in Nodes, a \in Accounts :
                /\ BlockedSeconds(n, a) = 0
                /\ task'[s] = [at |-> "verify", node |-> n, account |-> a]
<1> DEFINE Begun(s) == \E n \in Nodes, a \in Accounts :
                         /\ BlockedSeconds(n, a) = 0
                         /\ task'[s] = [at |-> "verify", node |-> n, account |-> a]
           Ended == \E S \in SUBSET Slots :
                      task' = [s \in Slots |-> IF s \in S THEN Idle ELSE task[s]]
<1>1. CASE task' = task
  BY <1>1 DEF TaskTypes
<1>2. CASE Ended
  BY <1>2 DEF TaskTypes
<1>3. ASSUME NEW s \in Slots, NEW n \in Nodes, NEW a \in Accounts, BeginLogin(s, n, a)
      PROVE  /\ TaskTypes'
             /\ \A r \in Slots : task[r] = Idle /\ task'[r] # Idle => Begun(r)
  <2> DEFINE t == [at |-> "verify", node |-> n, account |-> a]
  <2>1. task' = [task EXCEPT ![s] = t] /\ BlockedSeconds(n, a) = 0
    BY <1>3 DEF BeginLogin, Begin
  <2>2. t \in LoginTask
    BY DEF LoginTask
  <2>3. TaskTypes'
    <3> HIDE DEF t
    <3> QED BY <2>1, <2>2 DEF TaskTypes
  <2>4. ASSUME NEW r \in Slots, task[r] = Idle, task'[r] # Idle PROVE Begun(r)
    <3>1. r = s /\ task'[r] = t
      BY <2>1, <2>4 DEF TaskTypes
    <3> QED BY <2>1, <3>1
  <2> QED BY <2>3, <2>4
<1>4. ASSUME NEW n \in Nodes, StartMigrating(n) \/ FinishMigrating(n) \/ ServeUnmigrated(n)
      PROVE  task' = task
  BY <1>4 DEF StartMigrating, FinishMigrating, ServeUnmigrated, handlerVars
<1>5. ASSUME NEW n \in Nodes, Stop(n) PROVE Ended
  <2>1. {s \in Slots : task[s] # Idle /\ task[s].node = n} \in SUBSET Slots
    OBVIOUS
  <2> QED BY <1>5, <2>1 DEF Stop
<1>6. ASSUME OperatorUp \/ Passes \/ UNCHANGED vars PROVE task' = task
  BY <1>6 DEF OperatorUp, Passes, handlerVars, vars
<1>7. ASSUME NEW k \in RollBackSteps, OperatorDown(k) PROVE task' = task
  BY <1>7 DEF OperatorDown, handlerVars
<1>8. ASSUME NEW n \in Nodes, NEW g \in Guilds, RegisterGuild(n, g) PROVE task' = task
  BY <1>8 DEF RegisterGuild, handlerVars
<1>9. ASSUME NEW s \in Slots, NEW n \in Nodes, NEW a \in Accounts, RefuseLogin(s, n, a)
      PROVE  task' = task
  BY <1>9 DEF RefuseLogin, Once
<1>10. ASSUME NEW s \in Slots, LoginSucceeds(s) \/ LoginUnauthorized(s) \/ LoginBreaksOff(s)
       PROVE  Ended
  <2>1. task' = [task EXCEPT ![s] = Idle]
    BY <1>10 DEF LoginSucceeds, LoginUnauthorized, LoginBreaksOff, Abandon, Answer, Continue
  <2>2. task' = [r \in Slots |-> IF r \in {s} THEN Idle ELSE task[r]]
    BY <2>1 DEF TaskTypes
  <2> QED BY <2>2
<1>11. \/ task' = task
       \/ Ended
       \/ \E s \in Slots, n \in Nodes, a \in Accounts : BeginLogin(s, n, a)
  <2> HIDE DEF Ended
  <2> QED BY <1>4, <1>5, <1>6, <1>7, <1>8, <1>9, <1>10 DEF Next
<1> QED BY <1>1, <1>2, <1>3, <1>11

\* No step of a login, of a process or of the clock leaves the invariant.
LEMMA ThrottleInvStep == ThrottleInv /\ [Next]_vars => ThrottleInv'
<1> SUFFICES ASSUME ThrottleInv, [Next]_vars PROVE ThrottleInv'
  OBVIOUS
<1>1. TaskTypes /\ ThrottleTypes /\ CountInv
  BY DEF ThrottleInv
<1>2. TaskTypes'
  BY <1>1, WhoLogsIn
<1>3. ASSUME UNCHANGED throttleVars PROVE ThrottleAfter
  BY <1>1, <1>3 DEF throttleVars, ThrottleAfter, ThrottleTypes, IsMap, CountInv, CountedAt,
                    Counted
<1>4. ASSUME NEW n \in Nodes, Look(n) \/ ForgetAttempts(n) PROVE ThrottleAfter
  BY <1>1, <1>4, LookStep, ForgetStep
<1>5. ASSUME NEW n \in Nodes, NEW a \in Accounts, RecordSuccess(n, a) \/ RecordFailure(n, a)
      PROVE  ThrottleAfter
  BY <1>1, <1>5, SuccessStep, FailureStep
<1>6. ASSUME Tick PROVE ThrottleAfter
  BY <1>1, <1>6, TickStep
<1>7. ThrottleAfter
  BY <1>1, <1>3, <1>4, <1>5, <1>6, WhoCounts
<1> QED BY <1>2, <1>7 DEF ThrottleInv, ThrottleAfter

\* Every node's map counts each failure of an account until it is forgotten, in every
\* interleaving of logins, looks that clean the map, restarts and passing time.
THEOREM FailuresAreCounted == Spec => []ThrottleInv
  BY ThrottleInvInit, ThrottleInvStep, PTL DEF Spec

\* A login that a process lets through is in no lock that the failures counted by then call
\* for, for any number of nodes, accounts and requests and any lengths of the locks.
THEOREM LocksHold == Spec => LocksAreServed
<1> DEFINE LetThrough ==
      \A s \in Slots :
        task[s] = Idle /\ task'[s] # Idle => ~Deserved(task'[s].node, task'[s].account)
<1>1. ThrottleInv /\ [Next]_vars => LetThrough
  <2> SUFFICES ASSUME ThrottleInv, [Next]_vars,
                      NEW s \in Slots, task[s] = Idle, task'[s] # Idle
               PROVE  ~Deserved(task'[s].node, task'[s].account)
    OBVIOUS
  <2>1. TaskTypes /\ ThrottleTypes /\ CountInv
    BY DEF ThrottleInv
  <2>2. PICK n \in Nodes, a \in Accounts :
          /\ BlockedSeconds(n, a) = 0
          /\ task'[s] = [at |-> "verify", node |-> n, account |-> a]
    BY <2>1, WhoLogsIn
  <2>3. ~Deserved(n, a)
    BY <2>1, <2>2, LetThroughIsUnlocked
  <2>4. task'[s].node = n /\ task'[s].account = a
    BY <2>2
  <2> QED BY <2>3, <2>4
<1>2. ThrottleInv /\ [Next]_vars => [LetThrough]_vars
  BY <1>1
<1> QED BY <1>2, FailuresAreCounted, PTL DEF Spec, LocksAreServed

-------------------------------------------------------------------------------
(* Folds: a script's statements and the migrator's migrations, in turn.    *)

\* A set that has 0, and with a number below n the next one, has all numbers up to n.
LEMMA UpTo ==
  ASSUME NEW n \in Nat, NEW S, 0 \in S, \A i \in 0 .. n - 1 : i \in S => i + 1 \in S
  PROVE  \A i \in 0 .. n : i \in S
<1> DEFINE T == {i \in 0 .. n : i \notin S}
<1> SUFFICES ASSUME T # {} PROVE FALSE
  OBVIOUS
<1>1. T \in SUBSET Nat
  OBVIOUS
<1>2. PICK k \in T : \A j \in T : k <= j
  <2> HIDE DEF T
  <2> QED BY <1>1, MinIsLeast
<1>3. k \in 0 .. n /\ k \notin S /\ k # 0
  BY <1>2
<1>4. k - 1 \in 0 .. n - 1 /\ k - 1 \notin T /\ (k - 1) + 1 = k
  <2>1. k - 1 \in 0 .. n - 1 /\ ~(k <= k - 1) /\ (k - 1) + 1 = k
    BY <1>3
  <2> QED BY <1>2, <2>1
<1> QED BY <1>3, <1>4

\* Running a list of statements is running them one by one.
LEMMA FoldRuns ==
  ASSUME NEW n \in Nat, NEW ss, DOMAIN ss = 1 .. n, NEW d
  PROVE  \E r : /\ r[0] = d
                /\ \A i \in 1 .. n : r[i] = Run(r[i - 1], ss[i])
                /\ RunAll(d, ss) = r[n]
<1> DEFINE Body(it, S) == IF S = {} THEN d ELSE Run(it[S \ {Max(S)}], ss[Max(S)])
           K == {m \in 0 .. n : \E it : it = [S \in SUBSET (1 .. m) |-> Body(it, S)]}
<1>1. 0 \in K
  <2> DEFINE it == [S \in SUBSET (1 .. 0) |-> d]
  <2>1. SUBSET (1 .. 0) = {{}}
    OBVIOUS
  <2>2. it = [S \in SUBSET (1 .. 0) |-> Body(it, S)]
    BY <2>1
  <2> QED BY <2>2
<1>2. ASSUME NEW m \in 0 .. n - 1, m \in K PROVE m + 1 \in K
  <2>1. PICK it : it = [S \in SUBSET (1 .. m) |-> Body(it, S)]
    BY <1>2
  <2> DEFINE more == [S \in SUBSET (1 .. m + 1) |->
                        IF m + 1 \in S THEN Run(it[S \ {m + 1}], ss[m + 1]) ELSE it[S]]
  <2>2. ASSUME NEW S \in SUBSET (1 .. m + 1) PROVE more[S] = Body(more, S)
    <3>1. CASE m + 1 \in S
      <4>1. S \in SUBSET (0 .. m + 1) /\ m + 1 \in Nat /\ S # {}
        BY <3>1
      <4>2. Max(S) \in S /\ m + 1 <= Max(S)
        BY <3>1, <4>1, MaxIsGreatest
      <4>3. Max(S) = m + 1
        <5>1. PICK x \in 1 .. m + 1 : x = Max(S) /\ m + 1 <= x
          BY <4>2
        <5> QED BY <5>1
      <4>4. S \ {m + 1} \in SUBSET (1 .. m) /\ S \ {m + 1} \in SUBSET (1 .. m + 1)
        OBVIOUS
      <4>5. more[S \ {m + 1}] = it[S \ {m + 1}]
        BY <4>4
      <4> QED BY <3>1, <4>3, <4>5
    <3>2. CASE m + 1 \notin S /\ S # {}
      <4>1. S \in SUBSET (0 .. m) /\ S \in SUBSET (1 .. m) /\ m \in Nat
        BY <3>2
      <4>2. Max(S) \in S
        BY <3>2, <4>1, MaxIsGreatest
      <4>3. S \ {Max(S)} \in SUBSET (1 .. m) /\ S \ {Max(S)} \in SUBSET (1 .. m + 1)
            /\ m + 1 \notin S \ {Max(S)}
        BY <3>2, <4>1
      <4>4. more[S \ {Max(S)}] = it[S \ {Max(S)}]
        BY <4>3
      <4>5. it[S] = Body(it, S)
        BY <2>1, <4>1
      <4>6. more[S] = it[S]
        BY <3>2
      <4> QED BY <3>2, <4>4, <4>5, <4>6
    <3>3. CASE S = {}
      <4>1. it[{}] = d
        BY <2>1
      <4> QED BY <3>3, <4>1
    <3> QED BY <3>1, <3>2, <3>3
  <2>3. more = [S \in SUBSET (1 .. m + 1) |-> Body(more, S)]
    <3> HIDE DEF Body
    <3> QED BY <2>2
  <2>4. m + 1 \in 0 .. n
    OBVIOUS
  <2> HIDE DEF Body, more
  <2> QED BY <2>3, <2>4
<1>3. n \in K
  <2> HIDE DEF K
  <2>1. \A i \in 0 .. n : i \in K
    BY <1>1, <1>2, UpTo
  <2> QED BY <2>1
<1> DEFINE it == CHOOSE it : it = [S \in SUBSET DOMAIN ss |-> Body(it, S)]
<1>4. it = [S \in SUBSET (1 .. n) |-> Body(it, S)]
  <2>1. \E f : f = [S \in SUBSET DOMAIN ss |-> Body(f, S)]
    <3> HIDE DEF Body
    <3> QED BY <1>3
  <2>2. it = [S \in SUBSET DOMAIN ss |-> Body(it, S)]
    <3> HIDE DEF Body
    <3> QED BY <2>1
  <2> QED BY <2>2
<1>5. RunAll(d, ss) = it[DOMAIN ss]
  BY DEF RunAll, FoldLeft, MapThenFoldSet
<1> HIDE DEF it
<1> DEFINE r == [i \in 0 .. n |-> it[1 .. i]]
<1>6. r[0] = d
  <2>1. 1 .. 0 = {} /\ {} \in SUBSET (1 .. n)
    OBVIOUS
  <2> QED BY <1>4, <2>1
<1>7. ASSUME NEW i \in 1 .. n PROVE r[i] = Run(r[i - 1], ss[i])
  <2>0. i \in Nat /\ i \in 1 .. i
    OBVIOUS
  <2>1. 1 .. i \in SUBSET (1 .. n) /\ 1 .. i # {}
    <3>1. ASSUME NEW j \in 1 .. i PROVE j \in 1 .. n
      OBVIOUS
    <3> QED BY <2>0, <3>1
  <2>2. Max(1 .. i) = i
    <3>1. 1 .. i \in SUBSET (0 .. i)
      BY <2>0
    <3>2. Max(1 .. i) \in 1 .. i /\ \A y \in 1 .. i : y <= Max(1 .. i)
      BY <2>0, <2>1, <3>1, MaxIsGreatest
    <3>3. PICK x \in 1 .. i : x = Max(1 .. i) /\ i <= x
      BY <2>0, <3>2
    <3> QED BY <3>3
  <2>3. (1 .. i) \ {i} = 1 .. i - 1
    OBVIOUS
  <2>4. it[1 .. i] = Run(it[1 .. i - 1], ss[i])
    BY <1>4, <2>1, <2>2, <2>3
  <2> QED BY <2>4
<1>8. RunAll(d, ss) = r[n]
  BY <1>5
<1> HIDE DEF r
<1> QED BY <1>6, <1>7, <1>8
\* Executing migrations is executing them one by one.
LEMMA FoldExecutes ==
  ASSUME NEW n \in Nat, NEW order, DOMAIN order = 1 .. n, NEW d,
         NEW due, NEW way
  PROVE  \E r : /\ r[0] = d
                /\ \A i \in 1 .. n : r[i] = Execute(r[i - 1], order[i], due, way)
                /\ Executed(d, order, due, way) = r[n]
<1> DEFINE Body(it, S) == IF S = {} THEN d ELSE Execute(it[S \ {Max(S)}], order[Max(S)], due, way)
           K == {m \in 0 .. n : \E it : it = [S \in SUBSET (1 .. m) |-> Body(it, S)]}
<1>1. 0 \in K
  <2> DEFINE it == [S \in SUBSET (1 .. 0) |-> d]
  <2>1. SUBSET (1 .. 0) = {{}}
    OBVIOUS
  <2>2. it = [S \in SUBSET (1 .. 0) |-> Body(it, S)]
    BY <2>1
  <2> QED BY <2>2
<1>2. ASSUME NEW m \in 0 .. n - 1, m \in K PROVE m + 1 \in K
  <2>1. PICK it : it = [S \in SUBSET (1 .. m) |-> Body(it, S)]
    BY <1>2
  <2> DEFINE more == [S \in SUBSET (1 .. m + 1) |->
                        IF m + 1 \in S THEN Execute(it[S \ {m + 1}], order[m + 1], due, way)
                                       ELSE it[S]]
  <2>2. ASSUME NEW S \in SUBSET (1 .. m + 1) PROVE more[S] = Body(more, S)
    <3>1. CASE m + 1 \in S
      <4>1. S \in SUBSET (0 .. m + 1) /\ m + 1 \in Nat /\ S # {}
        BY <3>1
      <4>2. Max(S) \in S /\ m + 1 <= Max(S)
        BY <3>1, <4>1, MaxIsGreatest
      <4>3. Max(S) = m + 1
        <5>1. PICK x \in 1 .. m + 1 : x = Max(S) /\ m + 1 <= x
          BY <4>2
        <5> QED BY <5>1
      <4>4. S \ {m + 1} \in SUBSET (1 .. m) /\ S \ {m + 1} \in SUBSET (1 .. m + 1)
        OBVIOUS
      <4>5. more[S \ {m + 1}] = it[S \ {m + 1}]
        BY <4>4
      <4> QED BY <3>1, <4>3, <4>5
    <3>2. CASE m + 1 \notin S /\ S # {}
      <4>1. S \in SUBSET (0 .. m) /\ S \in SUBSET (1 .. m) /\ m \in Nat
        BY <3>2
      <4>2. Max(S) \in S
        BY <3>2, <4>1, MaxIsGreatest
      <4>3. S \ {Max(S)} \in SUBSET (1 .. m) /\ S \ {Max(S)} \in SUBSET (1 .. m + 1)
            /\ m + 1 \notin S \ {Max(S)}
        BY <3>2, <4>1
      <4>4. more[S \ {Max(S)}] = it[S \ {Max(S)}]
        BY <4>3
      <4>5. it[S] = Body(it, S)
        BY <2>1, <4>1
      <4>6. more[S] = it[S]
        BY <3>2
      <4> QED BY <3>2, <4>4, <4>5, <4>6
    <3>3. CASE S = {}
      <4>1. it[{}] = d
        BY <2>1
      <4> QED BY <3>3, <4>1
    <3> QED BY <3>1, <3>2, <3>3
  <2>3. more = [S \in SUBSET (1 .. m + 1) |-> Body(more, S)]
    <3> HIDE DEF Body
    <3> QED BY <2>2
  <2>4. m + 1 \in 0 .. n
    OBVIOUS
  <2> HIDE DEF Body, more
  <2> QED BY <2>3, <2>4
<1>3. n \in K
  <2> HIDE DEF K
  <2>1. \A i \in 0 .. n : i \in K
    BY <1>1, <1>2, UpTo
  <2> QED BY <2>1
<1> DEFINE it == CHOOSE it : it = [S \in SUBSET DOMAIN order |-> Body(it, S)]
<1>4. it = [S \in SUBSET (1 .. n) |-> Body(it, S)]
  <2>1. \E f : f = [S \in SUBSET DOMAIN order |-> Body(f, S)]
    <3> HIDE DEF Body
    <3> QED BY <1>3
  <2>2. it = [S \in SUBSET DOMAIN order |-> Body(it, S)]
    <3> HIDE DEF Body
    <3> QED BY <2>1
  <2> QED BY <2>2
<1>5. Executed(d, order, due, way) = it[DOMAIN order]
  BY DEF Executed, FoldLeft, MapThenFoldSet
<1> HIDE DEF it
<1> DEFINE r == [i \in 0 .. n |-> it[1 .. i]]
<1>6. r[0] = d
  <2>1. 1 .. 0 = {} /\ {} \in SUBSET (1 .. n)
    OBVIOUS
  <2> QED BY <1>4, <2>1
<1>7. ASSUME NEW i \in 1 .. n PROVE r[i] = Execute(r[i - 1], order[i], due, way)
  <2>0. i \in Nat /\ i \in 1 .. i
    OBVIOUS
  <2>1. 1 .. i \in SUBSET (1 .. n) /\ 1 .. i # {}
    <3>1. ASSUME NEW j \in 1 .. i PROVE j \in 1 .. n
      OBVIOUS
    <3> QED BY <2>0, <3>1
  <2>2. Max(1 .. i) = i
    <3>1. 1 .. i \in SUBSET (0 .. i)
      BY <2>0
    <3>2. Max(1 .. i) \in 1 .. i /\ \A y \in 1 .. i : y <= Max(1 .. i)
      BY <2>0, <2>1, <3>1, MaxIsGreatest
    <3>3. PICK x \in 1 .. i : x = Max(1 .. i) /\ i <= x
      BY <2>0, <3>2
    <3> QED BY <3>3
  <2>3. (1 .. i) \ {i} = 1 .. i - 1
    OBVIOUS
  <2>4. it[1 .. i] = Execute(it[1 .. i - 1], order[i], due, way)
    BY <1>4, <2>1, <2>2, <2>3
  <2> QED BY <2>4
<1>8. Executed(d, order, due, way) = r[n]
  BY <1>5
<1> HIDE DEF r
<1> QED BY <1>6, <1>7, <1>8

-------------------------------------------------------------------------------
(* Statements.                                                             *)

Kinds == {"create", "alter", "drop", "dropColumn", "dropUse", "dropIndex", "rewrite"}

\* A list of statements
IsScript(ss) ==
  /\ Len(ss) \in Nat /\ DOMAIN ss = 1 .. Len(ss)
  /\ \A i \in DOMAIN ss : ss[i].do \in Kinds

IsDatabase(d) ==
  /\ d = [catalogue |-> d.catalogue, applied |-> d.applied, guilds |-> d.guilds,
          hunters |-> d.hunters, failed |-> d.failed]
  /\ d.failed \in BOOLEAN

\* Databases that differ in their rows and in the list of migrations at most.
Alike(d, e) == d.catalogue = e.catalogue /\ d.failed = e.failed

\* Marking a database as failed changes nothing else.
LEMMA FailedFields ==
  ASSUME NEW d, IsDatabase(d)
  PROVE  /\ IsDatabase(Failed(d)) /\ Failed(d).failed = TRUE
         /\ Failed(d).catalogue = d.catalogue /\ Failed(d).applied = d.applied
         /\ Failed(d).guilds = d.guilds /\ Failed(d).hunters = d.hunters
<1> DEFINE e == [d EXCEPT !.failed = TRUE]
<1>1. e = [catalogue |-> d.catalogue, applied |-> d.applied, guilds |-> d.guilds,
           hunters |-> d.hunters, failed |-> TRUE]
  <2>1. DOMAIN d = {"catalogue", "applied", "guilds", "hunters", "failed"}
    BY DEF IsDatabase
  <2>2. /\ DOMAIN e = {"catalogue", "applied", "guilds", "hunters", "failed"}
        /\ e = [x \in DOMAIN e |-> e[x]]
    BY <2>1
  <2>3. e.catalogue = d.catalogue /\ e.applied = d.applied /\ e.guilds = d.guilds
        /\ e.hunters = d.hunters /\ e.failed = TRUE
    BY <2>1
  <2> HIDE DEF e
  <2> QED BY <2>2, <2>3
<1>2. Failed(d) = e
  BY DEF Failed
<1> HIDE DEF e
<1> QED BY <1>1, <1>2 DEF IsDatabase

\* Writing the catalogue changes nothing else.
LEMMA CatalogueFields ==
  ASSUME NEW d, IsDatabase(d), NEW c, NEW e, e = [d EXCEPT !.catalogue = c]
  PROVE  /\ IsDatabase(e) /\ e.catalogue = c
         /\ e.applied = d.applied /\ e.failed = d.failed
         /\ e.guilds = d.guilds /\ e.hunters = d.hunters
<1>1. e = [catalogue |-> c, applied |-> d.applied, guilds |-> d.guilds,
           hunters |-> d.hunters, failed |-> d.failed]
  BY DEF IsDatabase
<1> QED BY <1>1 DEF IsDatabase

\* Conforming changes rows only.
LEMMA ConformFields ==
  ASSUME NEW d, IsDatabase(d)
  PROVE  LET e == Conform(d)
             has(c) == c \in d.catalogue["hunters"].columns
         IN  /\ IsDatabase(e) /\ e.catalogue = d.catalogue
             /\ e.applied = d.applied /\ e.failed = d.failed
             /\ e.guilds = IF "guilds" \in Tables(d) THEN d.guilds ELSE {}
             /\ e.hunters = IF "hunters" \notin Tables(d) THEN {}
                            ELSE {[h EXCEPT !.role  = IF has("guild_role") THEN @ ELSE NoRole,
                                            !.owner = @ /\ has("user_id")] : h \in d.hunters}
<1> DEFINE has(c) == c \in d.catalogue["hunters"].columns
           gs == IF "guilds" \in Tables(d) THEN d.guilds ELSE {}
           hs == IF "hunters" \notin Tables(d) THEN {}
                 ELSE {[h EXCEPT !.role  = IF has("guild_role") THEN @ ELSE NoRole,
                                 !.owner = @ /\ has("user_id")] : h \in d.hunters}
<1>1. Conform(d) = [d EXCEPT !.guilds = gs, !.hunters = hs]
  BY DEF Conform
<1> HIDE DEF gs, hs
<1>2. Conform(d) = [catalogue |-> d.catalogue, applied |-> d.applied, guilds |-> gs,
                    hunters |-> hs, failed |-> d.failed]
  BY <1>1 DEF IsDatabase
<1>3. /\ IsDatabase(Conform(d)) /\ Conform(d).catalogue = d.catalogue
      /\ Conform(d).applied = d.applied /\ Conform(d).failed = d.failed
      /\ Conform(d).guilds = gs /\ Conform(d).hunters = hs
  BY <1>2 DEF IsDatabase
<1> QED BY <1>3 DEF gs, hs

\* What becomes of the catalogue, and whether the statement fails, is in the catalogue.
LEMMA CreateAlike ==
  ASSUME NEW d, NEW e, IsDatabase(d), IsDatabase(e), Alike(d, e), NEW s
  PROVE  /\ IsDatabase(CreateIn(d, s)) /\ CreateIn(d, s).applied = d.applied
         /\ Alike(CreateIn(d, s), CreateIn(e, s))
<1>0. Tables(d) = Tables(e) /\ e.catalogue = d.catalogue
  BY DEF Alike, Tables
<1>1. CASE s.name \in Tables(d) /\ s.ifNotExists
  BY <1>0, <1>1 DEF CreateIn
<1>2. CASE \/ s.name \in Tables(d) /\ ~s.ifNotExists
           \/ s.name \notin Tables(d) /\ ~(\A u \in s.entry.uses : u[2] \in Tables(d))
  <2>1. CreateIn(d, s) = Failed(d) /\ CreateIn(e, s) = Failed(e)
    BY <1>0, <1>2 DEF CreateIn
  <2> QED BY <2>1, FailedFields DEF Alike
<1>3. CASE s.name \notin Tables(d) /\ \A u \in s.entry.uses : u[2] \in Tables(d)
  <2> DEFINE c == [t \in Tables(d) \union {s.name} |->
                     IF t = s.name THEN s.entry ELSE d.catalogue[t]]
             d1 == [d EXCEPT !.catalogue = c]
             e1 == [e EXCEPT !.catalogue = c]
  <2>1. CreateIn(d, s) = d1 /\ CreateIn(e, s) = e1
    BY <1>0, <1>3 DEF CreateIn
  <2> HIDE DEF c
  <2>2. IsDatabase(d1) /\ d1.catalogue = c /\ d1.applied = d.applied /\ d1.failed = d.failed
    BY CatalogueFields
  <2>3. IsDatabase(e1) /\ e1.catalogue = c /\ e1.failed = e.failed
    BY CatalogueFields
  <2> HIDE DEF d1, e1
  <2> QED BY <2>1, <2>2, <2>3 DEF Alike
<1> QED BY <1>1, <1>2, <1>3

\* The same for an ALTER, a DROP of a table and a DROP of a part of one.
LEMMA AlterAlike ==
  ASSUME NEW d, NEW e, IsDatabase(d), IsDatabase(e), Alike(d, e), NEW s
  PROVE  /\ IsDatabase(AlterIn(d, s)) /\ AlterIn(d, s).applied = d.applied
         /\ Alike(AlterIn(d, s), AlterIn(e, s))
<1> DEFINE p == d.catalogue[s.name]
           q == IF s.ifNotExists THEN Missing(p, s.entry) ELSE s.entry
           r == With(p, q)
           fits == /\ s.name \in Tables(d)
                   /\ q.columns \intersect p.columns = {}
                   /\ q.uses \intersect p.uses = {}
                   /\ IndexNames(q) \intersect IndexNames(p) = {}
                   /\ \A i \in q.indexes : i[2] \subseteq r.columns
                   /\ \A u \in q.uses : u[1] \in r.columns /\ u[2] \in Tables(d)
           c == [d.catalogue EXCEPT ![s.name] = r]
           d1 == [d EXCEPT !.catalogue = c]
           e1 == [e EXCEPT !.catalogue = c]
<1>0. Tables(d) = Tables(e) /\ e.catalogue = d.catalogue
  BY DEF Alike, Tables
<1>1. AlterIn(d, s) = IF fits THEN d1 ELSE Failed(d)
  BY DEF AlterIn
<1>2. AlterIn(e, s) = IF fits THEN e1 ELSE Failed(e)
  BY <1>0 DEF AlterIn
<1> HIDE DEF fits, c
<1>3. IsDatabase(d1) /\ d1.catalogue = c /\ d1.applied = d.applied /\ d1.failed = d.failed
  BY CatalogueFields
<1>4. IsDatabase(e1) /\ e1.catalogue = c /\ e1.failed = e.failed
  BY CatalogueFields
<1> HIDE DEF d1, e1
<1> QED BY <1>1, <1>2, <1>3, <1>4, FailedFields DEF Alike

\* A DROP of a table or a type sees no rows either.
LEMMA DropAlike ==
  ASSUME NEW d, NEW e, IsDatabase(d), IsDatabase(e), Alike(d, e), NEW s
  PROVE  /\ IsDatabase(DropIn(d, s)) /\ DropIn(d, s).applied = d.applied
         /\ Alike(DropIn(d, s), DropIn(e, s))
<1> DEFINE c == [t \in Tables(d) \ {s.name} |-> d.catalogue[t]]
           d1 == [d EXCEPT !.catalogue = c]
           e1 == [e EXCEPT !.catalogue = c]
           used == \E t \in Tables(d) \ {s.name} : \E u \in d.catalogue[t].uses : u[2] = s.name
<1>0. Tables(d) = Tables(e) /\ e.catalogue = d.catalogue
  BY DEF Alike, Tables
<1>1. DropIn(d, s) = IF s.name \notin Tables(d) THEN IF s.ifExists THEN d ELSE Failed(d)
                     ELSE IF used THEN Failed(d) ELSE Conform(d1)
  BY DEF DropIn
<1>2. DropIn(e, s) = IF s.name \notin Tables(d) THEN IF s.ifExists THEN e ELSE Failed(e)
                     ELSE IF used THEN Failed(e) ELSE Conform(e1)
  BY <1>0 DEF DropIn
<1> HIDE DEF used, c
<1>3. IsDatabase(d1) /\ d1.catalogue = c /\ d1.applied = d.applied /\ d1.failed = d.failed
  BY CatalogueFields
<1>4. IsDatabase(e1) /\ e1.catalogue = c /\ e1.failed = e.failed
  BY CatalogueFields
<1> HIDE DEF d1, e1
<1>5. IsDatabase(Conform(d1)) /\ Conform(d1).catalogue = c /\ Conform(d1).applied = d.applied
      /\ Conform(d1).failed = d.failed
  BY <1>3, ConformFields
<1>6. Conform(e1).catalogue = c /\ Conform(e1).failed = e.failed
  BY <1>4, ConformFields
<1> QED BY <1>1, <1>2, <1>5, <1>6, FailedFields DEF Alike

\* Nor does a DROP of a column, a foreign key or an index.
LEMMA RemoveAlike ==
  ASSUME NEW d, NEW e, IsDatabase(d), IsDatabase(e), Alike(d, e), NEW s, NEW there, NEW after
  PROVE  /\ IsDatabase(RemoveIn(d, s, there, after))
         /\ RemoveIn(d, s, there, after).applied = d.applied
         /\ Alike(RemoveIn(d, s, there, after), RemoveIn(e, s, there, after))
<1> DEFINE c == [d.catalogue EXCEPT ![s.name] = after]
           d1 == [d EXCEPT !.catalogue = c]
           e1 == [e EXCEPT !.catalogue = c]
<1>0. Tables(d) = Tables(e) /\ e.catalogue = d.catalogue
  BY DEF Alike, Tables
<1>1. RemoveIn(d, s, there, after) = IF s.name \in Tables(d) /\ there THEN Conform(d1)
                                    ELSE IF s.ifExists THEN d ELSE Failed(d)
  BY DEF RemoveIn
<1>2. RemoveIn(e, s, there, after) = IF s.name \in Tables(d) /\ there THEN Conform(e1)
                                    ELSE IF s.ifExists THEN e ELSE Failed(e)
  BY <1>0 DEF RemoveIn
<1> HIDE DEF c
<1>3. IsDatabase(d1) /\ d1.catalogue = c /\ d1.applied = d.applied /\ d1.failed = d.failed
  BY CatalogueFields
<1>4. IsDatabase(e1) /\ e1.catalogue = c /\ e1.failed = e.failed
  BY CatalogueFields
<1> HIDE DEF d1, e1
<1>5. IsDatabase(Conform(d1)) /\ Conform(d1).catalogue = c /\ Conform(d1).applied = d.applied
      /\ Conform(d1).failed = d.failed
  BY <1>3, ConformFields
<1>6. Conform(e1).catalogue = c /\ Conform(e1).failed = e.failed
  BY <1>4, ConformFields
<1> QED BY <1>1, <1>2, <1>5, <1>6, FailedFields DEF Alike

\* A rewrite changes the hunters only.
LEMMA HuntersFields ==
  ASSUME NEW d, IsDatabase(d), NEW hs, NEW e, e = [d EXCEPT !.hunters = hs]
  PROVE  /\ IsDatabase(e) /\ e.hunters = hs /\ e.catalogue = d.catalogue
         /\ e.applied = d.applied /\ e.failed = d.failed /\ e.guilds = d.guilds
<1>1. e = [catalogue |-> d.catalogue, applied |-> d.applied, guilds |-> d.guilds,
           hunters |-> hs, failed |-> d.failed]
  BY DEF IsDatabase
<1> QED BY <1>1 DEF IsDatabase

\* What becomes of the catalogue, and whether a statement fails, is in the catalogue; once one
\* has failed the rest is not run.
LEMMA RunAlike ==
  ASSUME NEW d, NEW e, IsDatabase(d), IsDatabase(e), Alike(d, e), NEW s, s.do \in Kinds
  PROVE  /\ IsDatabase(Run(d, s)) /\ Run(d, s).applied = d.applied
         /\ Alike(Run(d, s), Run(e, s))
         /\ d.failed => Run(d, s) = d
<1>0. e.catalogue = d.catalogue /\ e.failed = d.failed /\ d.failed \in BOOLEAN
  BY DEF Alike, IsDatabase
<1>1. CASE d.failed
  BY <1>0, <1>1 DEF Run
<1>2. CASE ~d.failed /\ s.do = "create"
  <2>1. Run(d, s) = CreateIn(d, s) /\ Run(e, s) = CreateIn(e, s)
    BY <1>0, <1>2 DEF Run
  <2> QED BY <1>2, <2>1, CreateAlike
<1>3. CASE ~d.failed /\ s.do = "alter"
  <2>1. Run(d, s) = AlterIn(d, s) /\ Run(e, s) = AlterIn(e, s)
    BY <1>0, <1>3 DEF Run
  <2> QED BY <1>3, <2>1, AlterAlike
<1>4. CASE ~d.failed /\ s.do = "drop"
  <2>1. Run(d, s) = DropIn(d, s) /\ Run(e, s) = DropIn(e, s)
    BY <1>0, <1>4 DEF Run
  <2> QED BY <1>4, <2>1, DropAlike
<1> DEFINE p == d.catalogue[s.name]
<1>5. CASE ~d.failed /\ s.do \in {"dropColumn", "dropUse", "dropIndex"}
  <2>1. PICK there, after : /\ Run(d, s) = RemoveIn(d, s, there, after)
                           /\ Run(e, s) = RemoveIn(e, s, there, after)
    <3>1. CASE s.do = "dropColumn"
      <4>1. /\ Run(d, s) = RemoveIn(d, s, s.part \in p.columns, WithoutColumn(p, s.part))
            /\ Run(e, s) = RemoveIn(e, s, s.part \in p.columns, WithoutColumn(p, s.part))
        BY <1>0, <1>5, <3>1 DEF Run
      <4> QED BY <4>1
    <3>2. CASE s.do = "dropUse"
      <4>1. /\ Run(d, s) = RemoveIn(d, s, s.part \in p.uses,
                                    [p EXCEPT !.uses = @ \ {s.part}])
            /\ Run(e, s) = RemoveIn(e, s, s.part \in p.uses,
                                    [p EXCEPT !.uses = @ \ {s.part}])
        BY <1>0, <1>5, <3>2 DEF Run
      <4> QED BY <4>1
    <3>3. CASE s.do = "dropIndex"
      <4>1. /\ Run(d, s) = RemoveIn(d, s, s.part \in IndexNames(p),
                                    [p EXCEPT !.indexes = {i \in @ : i[1] # s.part}])
            /\ Run(e, s) = RemoveIn(e, s, s.part \in IndexNames(p),
                                    [p EXCEPT !.indexes = {i \in @ : i[1] # s.part}])
        BY <1>0, <1>5, <3>3 DEF Run
      <4> QED BY <4>1
    <3> QED BY <1>5, <3>1, <3>2, <3>3
  <2> QED BY <1>5, <2>1, RemoveAlike
<1>6. CASE ~d.failed /\ s.do = "rewrite"
  <2> DEFINE d1 == [d EXCEPT !.hunters = Rewritten(d.guilds, d.hunters, s.what)]
             e1 == [e EXCEPT !.hunters = Rewritten(e.guilds, e.hunters, s.what)]
  <2>1. Run(d, s) = d1 /\ Run(e, s) = e1
    BY <1>0, <1>6 DEF Run
  <2>2. /\ IsDatabase(d1) /\ d1.catalogue = d.catalogue /\ d1.applied = d.applied
        /\ d1.failed = d.failed
    BY HuntersFields
  <2>3. e1.catalogue = e.catalogue /\ e1.failed = e.failed
    BY HuntersFields
  <2> HIDE DEF d1, e1
  <2> QED BY <1>0, <1>6, <2>1, <2>2, <2>3 DEF Alike
<1> QED BY <1>0, <1>1, <1>2, <1>3, <1>4, <1>5, <1>6 DEF Kinds

\* What is true of RunAll(d, ss) after each statement of the list.
LEMMA ScriptAlike ==
  ASSUME NEW d, NEW e, IsDatabase(d), IsDatabase(e), Alike(d, e), NEW ss, IsScript(ss)
  PROVE  LET f == RunAll(d, ss)
             g == RunAll(e, ss)
         IN  /\ IsDatabase(f) /\ f.applied = d.applied /\ Alike(f, g)
             /\ d.failed => f = d
<1> DEFINE n == Len(ss)
<1>1. n \in Nat /\ DOMAIN ss = 1 .. n /\ \A i \in 1 .. n : ss[i].do \in Kinds
  BY DEF IsScript
<1> HIDE DEF n
<1>2. PICK r : /\ r[0] = d
               /\ \A i \in 1 .. n : r[i] = Run(r[i - 1], ss[i])
               /\ RunAll(d, ss) = r[n]
  BY <1>1, FoldRuns
<1>3. PICK q : /\ q[0] = e
               /\ \A i \in 1 .. n : q[i] = Run(q[i - 1], ss[i])
               /\ RunAll(e, ss) = q[n]
  BY <1>1, FoldRuns
<1> DEFINE S == {i \in 0 .. n : /\ IsDatabase(r[i]) /\ IsDatabase(q[i])
                                /\ r[i].applied = d.applied /\ Alike(r[i], q[i])
                                /\ d.failed => r[i] = d}
<1>4. 0 \in S
  BY <1>1, <1>2, <1>3
<1>5. ASSUME NEW i \in 0 .. n - 1, i \in S PROVE i + 1 \in S
  <2>1. i + 1 \in 1 .. n /\ i + 1 \in 0 .. n /\ (i + 1) - 1 = i
    BY <1>1
  <2>2. r[i + 1] = Run(r[i], ss[i + 1]) /\ q[i + 1] = Run(q[i], ss[i + 1])
    BY <1>2, <1>3, <2>1
  <2>3. ss[i + 1].do \in Kinds
    BY <1>1, <2>1
  <2>4. /\ IsDatabase(r[i]) /\ IsDatabase(q[i]) /\ r[i].applied = d.applied
        /\ Alike(r[i], q[i])
        /\ d.failed => r[i] = d
    BY <1>5
  <2>5. Alike(q[i], r[i])
    BY <2>4 DEF Alike
  <2> DEFINE t == ss[i + 1]
             x == r[i]
             y == q[i]
  <2>6. /\ IsDatabase(Run(x, t)) /\ Run(x, t).applied = x.applied
        /\ Alike(Run(x, t), Run(y, t))
        /\ x.failed => Run(x, t) = x
    BY <2>3, <2>4, RunAlike
  <2>7. IsDatabase(Run(y, t))
    BY <2>3, <2>4, <2>5, RunAlike
  <2> HIDE DEF t, x, y
  <2>8. /\ IsDatabase(r[i + 1]) /\ IsDatabase(q[i + 1]) /\ r[i + 1].applied = d.applied
        /\ Alike(r[i + 1], q[i + 1])
        /\ d.failed => r[i + 1] = d
    BY <2>2, <2>4, <2>6, <2>7 DEF t, x, y
  <2> QED BY <2>1, <2>8
<1>6. n \in S
  <2> HIDE DEF S
  <2>1. \A i \in 0 .. n : i \in S
    BY <1>1, <1>4, <1>5, UpTo
  <2> QED BY <1>1, <2>1
<1> QED BY <1>2, <1>3, <1>6

-------------------------------------------------------------------------------
(* The scripts of the migrations.                                          *)

IsList(ss) == ss \in Seq({ss[i] : i \in DOMAIN ss})

\* The statement leaves guilds, hunters, their roles and their owners where they are.
Keeps(s) ==
  /\ s.do = "drop" => s.name \notin {"guilds", "hunters"}
  /\ s.do = "dropColumn" /\ s.name = "hunters" => s.part \notin {"guild_role", "user_id"}
  /\ s.do = "rewrite" => s.what = "hashed"

\* The statements that only add
Grows(s) == s.do \in {"create", "alter"}

\* The statements that write to no row
Defines(s) == s.do \in Kinds \ {"rewrite"}

AllKnown(ss) == IsList(ss) /\ \A i \in DOMAIN ss : ss[i].do \in Kinds

AllGrow(ss) == IsList(ss) /\ \A i \in DOMAIN ss : Grows(ss[i])

AllDefine(ss) == IsList(ss) /\ \A i \in DOMAIN ss : Defines(ss[i])

AllKeep(ss) == IsList(ss) /\ \A i \in DOMAIN ss : ss[i].do \in Kinds /\ Keeps(ss[i])

\* What each kind of statement is
LEMMA Statements ==
  /\ \A t, cs, us : CreateTable(t, cs, us).do = "create"
  /\ \A y : CreateType(y).do = "create"
  /\ \A t, cs, us : AddColumns(t, cs, us).do = "alter"
  /\ \A t, cs, us : IfNotExists(AddColumns(t, cs, us)).do = "alter"
  /\ \A t, c, to : AddReference(t, c, to).do = "alter"
  /\ \A i, t, cs : CreateIndex(i, t, cs).do = "alter"
  /\ \A i, t, cs : IfNotExists(CreateIndex(i, t, cs)).do = "alter"
  /\ \A t : DropTable(t).do = "drop" /\ DropTable(t).name = t
  /\ \A t : DropTableIfExists(t).do = "drop" /\ DropTableIfExists(t).name = t
  /\ \A t : DropTypeIfExists(t).do = "drop" /\ DropTypeIfExists(t).name = t
  /\ \A t, c : /\ DropColumn(t, c).do = "dropColumn" /\ DropColumn(t, c).name = t
               /\ DropColumn(t, c).part = c
  /\ \A t, c : LET s == IfExists(DropColumn(t, c))
               IN  s.do = "dropColumn" /\ s.name = t /\ s.part = c
  /\ \A i, t : DropIndex(i, t).do = "dropIndex" /\ IfExists(DropIndex(i, t)).do = "dropIndex"
  /\ \A t, c, to : /\ DropReference(t, c, to).do = "dropUse"
                   /\ IfExists(DropReference(t, c, to)).do = "dropUse"
  /\ \A what : Rewrite(what).do = "rewrite" /\ Rewrite(what).what = what
<1>1. /\ \A t, cs, us : CreateTable(t, cs, us).do = "create"
      /\ \A y : CreateType(y).do = "create"
  BY DEF CreateTable, CreateType
<1>2. /\ \A t, cs, us, is : Alter(t, cs, us, is).do = "alter"
      /\ \A t, cs, us, is : IfNotExists(Alter(t, cs, us, is)).do = "alter"
  BY DEF Alter, IfNotExists
<1>3. /\ \A t, cs, us : AddColumns(t, cs, us).do = "alter"
      /\ \A t, cs, us : IfNotExists(AddColumns(t, cs, us)).do = "alter"
      /\ \A t, c, to : AddReference(t, c, to).do = "alter"
      /\ \A i, t, cs : CreateIndex(i, t, cs).do = "alter"
      /\ \A i, t, cs : IfNotExists(CreateIndex(i, t, cs)).do = "alter"
  BY <1>2 DEF AddColumns, AddReference, CreateIndex
<1>4. /\ \A t : DropTable(t).do = "drop" /\ DropTable(t).name = t
      /\ \A t : DropTableIfExists(t).do = "drop" /\ DropTableIfExists(t).name = t
      /\ \A t : DropTypeIfExists(t).do = "drop" /\ DropTypeIfExists(t).name = t
  BY DEF DropTable, DropTableIfExists, DropTypeIfExists
<1>5. /\ \A t, c : /\ DropColumn(t, c).do = "dropColumn" /\ DropColumn(t, c).name = t
                   /\ DropColumn(t, c).part = c
      /\ \A t, c : LET s == IfExists(DropColumn(t, c))
                   IN  s.do = "dropColumn" /\ s.name = t /\ s.part = c
  BY DEF DropColumn, IfExists
<1>6. /\ \A i, t : DropIndex(i, t).do = "dropIndex" /\ IfExists(DropIndex(i, t)).do = "dropIndex"
      /\ \A t, c, to : /\ DropReference(t, c, to).do = "dropUse"
                       /\ IfExists(DropReference(t, c, to)).do = "dropUse"
  BY DEF DropIndex, DropReference, IfExists
<1>7. \A what : Rewrite(what).do = "rewrite" /\ Rewrite(what).what = what
  BY DEF Rewrite
<1> QED BY <1>1, <1>3, <1>4, <1>5, <1>6, <1>7

\* The scripts that bring the tables of accounts, guilds and friends only add.
LEMMA FirstScriptsGrow ==
  /\ AllGrow(CoreTablesUp) /\ AllGrow(UsersAndGuildsUp) /\ AllGrow(HuntersAndQuestsUp)
  /\ AllGrow(PlayerIdsAndLinksUp) /\ AllGrow(GuildInvitesUp) /\ AllGrow(UserTagsUp)
<1>1. AllGrow(CoreTablesUp)
  BY DEF AllGrow, IsList, CoreTablesUp
<1>2. AllGrow(UsersAndGuildsUp)
  BY Statements DEF AllGrow, IsList, Grows, UsersAndGuildsUp
<1>3. AllGrow(HuntersAndQuestsUp)
  BY Statements DEF AllGrow, IsList, Grows, HuntersAndQuestsUp
<1>4. AllGrow(PlayerIdsAndLinksUp)
  BY Statements DEF AllGrow, IsList, Grows, PlayerIdsAndLinksUp
<1>5. AllGrow(GuildInvitesUp)
  BY Statements DEF AllGrow, IsList, Grows, GuildInvitesUp
<1>6. AllGrow(UserTagsUp)
  BY Statements DEF AllGrow, IsList, Grows, UserTagsUp
<1> QED BY <1>1, <1>2, <1>3, <1>4, <1>5, <1>6

\* What holds of the statements of two scripts holds of the two joined.
LEMMA Joined ==
  ASSUME NEW a, NEW b, IsList(a), IsList(b)
  PROVE  /\ AllKnown(a) /\ AllKnown(b) => AllKnown(a \o b)
         /\ AllGrow(a) /\ AllGrow(b) => AllGrow(a \o b)
         /\ AllDefine(a) /\ AllDefine(b) => AllDefine(a \o b)
         /\ AllKeep(a) /\ AllKeep(b) => AllKeep(a \o b)
<1> DEFINE A == {a[i] : i \in DOMAIN a}
           B == {b[i] : i \in DOMAIN b}
           S == A \union B
           c == a \o b
<1>1. a \in Seq(S) /\ b \in Seq(S)
  BY DEF IsList
<1>2. /\ Len(a) \in Nat /\ Len(b) \in Nat /\ DOMAIN a = 1 .. Len(a) /\ DOMAIN b = 1 .. Len(b)
      /\ c \in Seq(S) /\ Len(c) = Len(a) + Len(b) /\ DOMAIN c = 1 .. Len(c)
      /\ \A i \in 1 .. Len(a) + Len(b) : c[i] = IF i <= Len(a) THEN a[i] ELSE b[i - Len(a)]
  <2> HIDE DEF S
  <2> QED BY <1>1, ConcatProperties
<1> HIDE DEF c, S
<1>3. ASSUME NEW i \in DOMAIN c
      PROVE  (\E j \in DOMAIN a : c[i] = a[j]) \/ (\E j \in DOMAIN b : c[i] = b[j])
  <2>1. PICK m \in Nat, n \in Nat : m = Len(a) /\ n = Len(b)
    BY <1>2
  <2>2. i \in 1 .. m + n
    BY <1>2, <2>1
  <2>3. CASE i <= m
    <3>1. i \in 1 .. m
      BY <2>1, <2>2, <2>3
    <3> QED BY <1>2, <2>1, <2>2, <2>3, <3>1
  <2>4. CASE ~(i <= m)
    <3>1. i - m \in 1 .. n
      BY <2>1, <2>2, <2>4
    <3> QED BY <1>2, <2>1, <2>2, <2>4, <3>1
  <2> QED BY <2>3, <2>4
<1>4. IsList(c)
  <2> DEFINE T == {c[j] : j \in DOMAIN c}
  <2>1. c \in [1 .. Len(c) -> S] /\ Len(c) \in Nat /\ DOMAIN c = 1 .. Len(c)
    BY <1>2, LenProperties
  <2>2. \A i \in 1 .. Len(c) : c[i] \in T
    BY <2>1
  <2> HIDE DEF T
  <2>3. c \in [1 .. Len(c) -> T]
    BY <2>1, <2>2
  <2>4. c \in Seq(T)
    BY <2>1, <2>3
  <2> QED BY <2>4 DEF IsList, T
<1>5. /\ AllKnown(a) /\ AllKnown(b) => AllKnown(c)
      /\ AllGrow(a) /\ AllGrow(b) => AllGrow(c)
      /\ AllDefine(a) /\ AllDefine(b) => AllDefine(c)
      /\ AllKeep(a) /\ AllKeep(b) => AllKeep(c)
  <2>1. AllGrow(a) /\ AllGrow(b) => AllGrow(c)
    BY <1>3, <1>4 DEF AllGrow
  <2>2. AllDefine(a) /\ AllDefine(b) => AllDefine(c)
    BY <1>3, <1>4 DEF AllDefine
  <2>3. AllKeep(a) /\ AllKeep(b) => AllKeep(c)
    BY <1>3, <1>4 DEF AllKeep
  <2>4. AllKnown(a) /\ AllKnown(b) => AllKnown(c)
    BY <1>3, <1>4 DEF AllKnown
  <2> QED BY <2>1, <2>2, <2>3, <2>4
<1> QED BY <1>5 DEF c

\* The scripts of the roles rewrite rows on the way up only.
LEMMA RolesScripts == AllKnown(OwnerRoleUp) /\ AllDefine(OwnerRoleDown)
<1> DEFINE a == << AddColumns("hunters", {"user_id"}, {}),
                   AddColumns("hunters", {"guild_role"}, {}),
                   Rewrite("members"),
                   CreateIndex("idx_hunters_user_id_unique", "hunters", {"user_id"}),
                   CreateIndex("idx_hunters_guild_role", "hunters", {"guild_id", "guild_role"}),
                   AddReference("hunters", "user_id", "users") >>
           b == << Rewrite("owners") >>
<1>1. OwnerRoleUp = a \o b
  BY DEF OwnerRoleUp, OwnerRoleUpThen
<1>2. AllKnown(a) /\ AllKnown(b)
  BY Statements DEF AllKnown, IsList, Kinds
<1> HIDE DEF a, b
<1>3. AllKnown(a \o b)
  BY <1>2, Joined DEF AllKnown
<1>4. AllDefine(OwnerRoleDown)
  BY Statements DEF AllDefine, IsList, Defines, Kinds, OwnerRoleDown
<1> QED BY <1>1, <1>3, <1>4

\* Guilds stay until the tables they came with are undone.
LEMMA EarlyDowns ==
  /\ AllDefine(CoreTablesDown) /\ AllDefine(GuildAuthDown) /\ AllDefine(SocialDown)
  /\ AllDefine(UserTagsDown)
  /\ \A ss \in {SocialDown, UserTagsDown, OwnerRoleDown} :
       \A i \in DOMAIN ss : ss[i].do = "drop" => ss[i].name # "guilds"
<1>1. AllDefine(CoreTablesDown)
  BY DEF AllDefine, IsList, CoreTablesDown
<1>2. AllDefine(GuildAuthDown)
  BY Statements DEF AllDefine, IsList, Defines, Kinds, GuildAuthDown
<1>3. AllDefine(SocialDown)
  BY Statements DEF AllDefine, IsList, Defines, Kinds, SocialDown
<1>4. AllDefine(UserTagsDown)
  BY Statements DEF AllDefine, IsList, Defines, Kinds, UserTagsDown
<1>5. \A i \in DOMAIN SocialDown : SocialDown[i].do = "drop" => SocialDown[i].name # "guilds"
  BY Statements DEF SocialDown
<1>6. \A i \in DOMAIN UserTagsDown :
        UserTagsDown[i].do = "drop" => UserTagsDown[i].name # "guilds"
  BY Statements DEF UserTagsDown
<1>7. \A i \in DOMAIN OwnerRoleDown : OwnerRoleDown[i].do # "drop"
  BY Statements DEF OwnerRoleDown
<1> QED BY <1>1, <1>2, <1>3, <1>4, <1>5, <1>6, <1>7


\* The ups from the sixth on keep guilds, hunters, roles and owners in their place ...
LEMMA LaterUps ==
  /\ AllKeep(MottoUp) /\ AllKeep(StatCategoryUp) /\ AllKeep(HashPinsUp)
  /\ AllKeep(StatEnumUp) /\ AllKeep(ChatUp) /\ AllKeep(LedgerUp)
  /\ AllKeep(ShopUp) /\ AllKeep(ActiveItemsUp) /\ AllKeep(HabitsUp)
  /\ AllKeep(DirectMessagesUp) /\ AllKeep(DeviceKeysUp) /\ AllKeep(CapabilitiesUp)
  /\ AllKeep(EncryptedMessagesUp) /\ AllKeep(ThreadReadsUp) /\ AllKeep(ProofMediaUp)
  /\ AllKeep(MediaAssetsUp) /\ AllKeep(OnceDeliveriesUp) /\ AllKeep(PhotoDumpsUp)
  /\ AllKeep(OnceEncryptionUp) /\ AllKeep(TelemetryUp)
<1>1. AllKeep(MottoUp)
  BY Statements DEF AllKeep, IsList, Kinds, Keeps, MottoUp
<1>2. AllKeep(StatCategoryUp)
  BY Statements DEF AllKeep, IsList, Kinds, Keeps, StatCategoryUp
<1>3. AllKeep(HashPinsUp)
  BY Statements DEF AllKeep, IsList, Kinds, Keeps, HashPinsUp
<1>4. AllKeep(StatEnumUp)
  BY Statements DEF AllKeep, IsList, Kinds, Keeps, StatEnumUp
<1>5. AllKeep(ChatUp)
  BY Statements DEF AllKeep, IsList, Kinds, Keeps, ChatUp
<1>6. AllKeep(LedgerUp)
  BY Statements DEF AllKeep, IsList, Kinds, Keeps, LedgerUp
<1>7. AllKeep(ShopUp)
  BY Statements DEF AllKeep, IsList, Kinds, Keeps, ShopUp
<1>8. AllKeep(ActiveItemsUp)
  BY Statements DEF AllKeep, IsList, Kinds, Keeps, ActiveItemsUp
<1>9. AllKeep(HabitsUp)
  BY Statements DEF AllKeep, IsList, Kinds, Keeps, HabitsUp
<1>10. AllKeep(DirectMessagesUp)
  BY Statements DEF AllKeep, IsList, Kinds, Keeps, DirectMessagesUp
<1>11. AllKeep(DeviceKeysUp)
  BY Statements DEF AllKeep, IsList, Kinds, Keeps, DeviceKeysUp
<1>12. AllKeep(CapabilitiesUp)
  BY Statements DEF AllKeep, IsList, Kinds, Keeps, CapabilitiesUp
<1>13. AllKeep(EncryptedMessagesUp)
  BY Statements DEF AllKeep, IsList, Kinds, Keeps, EncryptedMessagesUp
<1>14. AllKeep(ThreadReadsUp)
  BY Statements DEF AllKeep, IsList, Kinds, Keeps, ThreadReadsUp
<1>15. AllKeep(ProofMediaUp)
  BY Statements DEF AllKeep, IsList, Kinds, Keeps, ProofMediaUp
<1>16. AllKeep(MediaAssetsUp)
  BY Statements DEF AllKeep, IsList, Kinds, Keeps, MediaAssetsUp
<1>17. AllKeep(OnceDeliveriesUp)
  BY Statements DEF AllKeep, IsList, Kinds, Keeps, OnceDeliveriesUp
<1>18. AllKeep(PhotoDumpsUp)
  BY Statements DEF AllKeep, IsList, Kinds, Keeps, PhotoDumpsUp
<1>19. AllKeep(OnceEncryptionUp)
  BY Statements DEF AllKeep, IsList, Kinds, Keeps, OnceEncryptionUp
<1>20. AllKeep(TelemetryUp)
  BY Statements DEF AllKeep, IsList, Kinds, Keeps, TelemetryUp
<1> QED BY <1>1, <1>2, <1>3, <1>4, <1>5, <1>6, <1>7, <1>8, <1>9, <1>10, <1>11, <1>12, <1>13
, <1>14, <1>15, <1>16, <1>17, <1>18, <1>19, <1>20

\* ... and so do their downs, which write to no row.
LEMMA LaterDowns ==
  /\ AllKeep(MottoDown) /\ AllDefine(MottoDown)
  /\ AllKeep(StatCategoryDown) /\ AllDefine(StatCategoryDown)
  /\ AllKeep(HashPinsDown) /\ AllDefine(HashPinsDown)
  /\ AllKeep(StatEnumDown) /\ AllDefine(StatEnumDown)
  /\ AllKeep(ChatDown) /\ AllDefine(ChatDown)
  /\ AllKeep(LedgerDown) /\ AllDefine(LedgerDown)
  /\ AllKeep(ShopDown) /\ AllDefine(ShopDown)
  /\ AllKeep(ActiveItemsDown) /\ AllDefine(ActiveItemsDown)
  /\ AllKeep(DirectMessagesDown) /\ AllDefine(DirectMessagesDown)
  /\ AllKeep(EncryptionDown) /\ AllDefine(EncryptionDown)
  /\ AllKeep(ThreadReadsDown) /\ AllDefine(ThreadReadsDown)
  /\ AllKeep(ProofMediaDown) /\ AllDefine(ProofMediaDown)
  /\ AllKeep(MediaDown) /\ AllDefine(MediaDown)
  /\ AllKeep(OnceEncryptionDown) /\ AllDefine(OnceEncryptionDown)
  /\ AllKeep(TelemetryDown) /\ AllDefine(TelemetryDown)
  /\ AllKeep(HabitsDown) /\ AllDefine(HabitsDown)
<1>1. AllKeep(MottoDown) /\ AllDefine(MottoDown)
  BY Statements
     DEF AllKeep, AllDefine, Defines, IsList, Kinds, Keeps, MottoDown
<1>2. AllKeep(StatCategoryDown) /\ AllDefine(StatCategoryDown)
  BY Statements
     DEF AllKeep, AllDefine, Defines, IsList, Kinds, Keeps, StatCategoryDown
<1>3. AllKeep(HashPinsDown) /\ AllDefine(HashPinsDown)
  BY Statements
     DEF AllKeep, AllDefine, Defines, IsList, Kinds, Keeps, HashPinsDown
<1>4. AllKeep(StatEnumDown) /\ AllDefine(StatEnumDown)
  BY Statements
     DEF AllKeep, AllDefine, Defines, IsList, Kinds, Keeps, StatEnumDown
<1>5. AllKeep(ChatDown) /\ AllDefine(ChatDown)
  BY Statements
     DEF AllKeep, AllDefine, Defines, IsList, Kinds, Keeps, ChatDown
<1>6. AllKeep(LedgerDown) /\ AllDefine(LedgerDown)
  BY Statements
     DEF AllKeep, AllDefine, Defines, IsList, Kinds, Keeps, LedgerDown
<1>7. AllKeep(ShopDown) /\ AllDefine(ShopDown)
  BY Statements
     DEF AllKeep, AllDefine, Defines, IsList, Kinds, Keeps, ShopDown
<1>8. AllKeep(ActiveItemsDown) /\ AllDefine(ActiveItemsDown)
  BY Statements
     DEF AllKeep, AllDefine, Defines, IsList, Kinds, Keeps, ActiveItemsDown
<1>9. AllKeep(DirectMessagesDown) /\ AllDefine(DirectMessagesDown)
  BY Statements
     DEF AllKeep, AllDefine, Defines, IsList, Kinds, Keeps, DirectMessagesDown
<1>10. AllKeep(EncryptionDown) /\ AllDefine(EncryptionDown)
  BY Statements
     DEF AllKeep, AllDefine, Defines, IsList, Kinds, Keeps, EncryptionDown
<1>11. AllKeep(ThreadReadsDown) /\ AllDefine(ThreadReadsDown)
  BY Statements
     DEF AllKeep, AllDefine, Defines, IsList, Kinds, Keeps, ThreadReadsDown
<1>12. AllKeep(ProofMediaDown) /\ AllDefine(ProofMediaDown)
  BY Statements
     DEF AllKeep, AllDefine, Defines, IsList, Kinds, Keeps, ProofMediaDown
<1>13. AllKeep(MediaDown) /\ AllDefine(MediaDown)
  BY Statements
     DEF AllKeep, AllDefine, Defines, IsList, Kinds, Keeps, MediaDown
<1>14. AllKeep(OnceEncryptionDown) /\ AllDefine(OnceEncryptionDown)
  BY Statements
     DEF AllKeep, AllDefine, Defines, IsList, Kinds, Keeps, OnceEncryptionDown, DropColumns
<1>15. AllKeep(TelemetryDown) /\ AllDefine(TelemetryDown)
  BY Statements
     DEF AllKeep, AllDefine, Defines, IsList, Kinds, Keeps, TelemetryDown
<1>16. AllKeep(HabitsDown) /\ AllDefine(HabitsDown)
  <2> DEFINE a == << IfExists(DropIndex("idx_quests_assigned_status", "quests")),
                     IfExists(DropIndex("idx_quests_guild_category", "quests")) >>
             cs == <<"updated_at", "last_review_note", "last_completed_at",
                     "proof_submitted_at", "proof_note", "completions_count", "best_streak",
                     "streak_count", "cadence", "created_by_hunter_id", "assigned_hunter_id",
                     "category">>
             b == DropColumns("quests", cs)
  <2>1. HabitsDown = a \o b
    BY DEF HabitsDown
  <2>2. AllKeep(a) /\ AllDefine(a)
    BY Statements DEF AllKeep, AllDefine, Defines, IsList, Kinds, Keeps
  <2>3. AllKeep(b) /\ AllDefine(b)
    BY Statements DEF AllKeep, AllDefine, Defines, IsList, Kinds, Keeps, DropColumns
  <2> HIDE DEF a, b
  <2>4. AllKeep(a \o b) /\ AllDefine(a \o b)
    BY <2>2, <2>3, Joined DEF AllKeep
  <2> QED BY <2>1, <2>4
<1> QED BY <1>1, <1>2, <1>3, <1>4, <1>5, <1>6, <1>7, <1>8, <1>9, <1>10, <1>11, <1>12, <1>13
, <1>14, <1>15, <1>16

\* The scripts of each migration
LEMMA ListOfMigrations ==
  /\ Len(Migrations) = 21
  /\ Migrations[1].up = CoreTablesUp
  /\ Migrations[1].down = CoreTablesDown
  /\ Migrations[2].up = UsersAndGuildsUp \o HuntersAndQuestsUp
  /\ Migrations[2].down = GuildAuthDown
  /\ Migrations[3].up = PlayerIdsAndLinksUp \o GuildInvitesUp
  /\ Migrations[3].down = SocialDown
  /\ Migrations[4].up = UserTagsUp
  /\ Migrations[4].down = UserTagsDown
  /\ Migrations[5].up = OwnerRoleUp
  /\ Migrations[5].down = OwnerRoleDown
  /\ Migrations[6].up = MottoUp
  /\ Migrations[6].down = MottoDown
  /\ Migrations[7].up = StatCategoryUp
  /\ Migrations[7].down = StatCategoryDown
  /\ Migrations[8].up = HashPinsUp
  /\ Migrations[8].down = HashPinsDown
  /\ Migrations[9].up = StatEnumUp
  /\ Migrations[9].down = StatEnumDown
  /\ Migrations[10].up = ChatUp
  /\ Migrations[10].down = ChatDown
  /\ Migrations[11].up = LedgerUp
  /\ Migrations[11].down = LedgerDown
  /\ Migrations[12].up = ShopUp
  /\ Migrations[12].down = ShopDown
  /\ Migrations[13].up = ActiveItemsUp
  /\ Migrations[13].down = ActiveItemsDown
  /\ Migrations[14].up = HabitsUp
  /\ Migrations[14].down = HabitsDown
  /\ Migrations[15].up = DirectMessagesUp
  /\ Migrations[15].down = DirectMessagesDown
  /\ Migrations[16].up = DeviceKeysUp \o CapabilitiesUp \o EncryptedMessagesUp
  /\ Migrations[16].down = EncryptionDown
  /\ Migrations[17].up = ThreadReadsUp
  /\ Migrations[17].down = ThreadReadsDown
  /\ Migrations[18].up = ProofMediaUp
  /\ Migrations[18].down = ProofMediaDown
  /\ Migrations[19].up = MediaAssetsUp \o OnceDeliveriesUp \o PhotoDumpsUp
  /\ Migrations[19].down = MediaDown
  /\ Migrations[20].up = OnceEncryptionUp
  /\ Migrations[20].down = OnceEncryptionDown
  /\ Migrations[21].up = TelemetryUp
  /\ Migrations[21].down = TelemetryDown
<1>1. \A u, d : Migration(u, d).up = u /\ Migration(u, d).down = d
  BY DEF Migration
<1>2. Len(Migrations) = 21
  BY DEF Migrations
<1>3. Migrations[1].up = CoreTablesUp /\ Migrations[1].down = CoreTablesDown
  <2>1. Migrations[1] = Migration(CoreTablesUp, CoreTablesDown)
    BY DEF Migrations
  <2> QED BY <1>1, <2>1
<1>4. /\ Migrations[2].up = UsersAndGuildsUp \o HuntersAndQuestsUp
      /\ Migrations[2].down = GuildAuthDown
  <2> DEFINE up == UsersAndGuildsUp \o HuntersAndQuestsUp
  <2>1. Migrations[2] = Migration(up, GuildAuthDown)
    BY DEF Migrations
  <2> HIDE DEF up
  <2>2. Migrations[2].up = up /\ Migrations[2].down = GuildAuthDown
    BY <1>1, <2>1
  <2> QED BY Zenon, <2>2 DEF up
<1>5. /\ Migrations[3].up = PlayerIdsAndLinksUp \o GuildInvitesUp
      /\ Migrations[3].down = SocialDown
  <2> DEFINE up == PlayerIdsAndLinksUp \o GuildInvitesUp
  <2>1. Migrations[3] = Migration(up, SocialDown)
    BY DEF Migrations
  <2> HIDE DEF up
  <2>2. Migrations[3].up = up /\ Migrations[3].down = SocialDown
    BY <1>1, <2>1
  <2> QED BY Zenon, <2>2 DEF up
<1>6. Migrations[4].up = UserTagsUp /\ Migrations[4].down = UserTagsDown
  <2>1. Migrations[4] = Migration(UserTagsUp, UserTagsDown)
    BY DEF Migrations
  <2> QED BY <1>1, <2>1
<1>7. Migrations[5].up = OwnerRoleUp /\ Migrations[5].down = OwnerRoleDown
  <2>1. Migrations[5] = Migration(OwnerRoleUp, OwnerRoleDown)
    BY DEF Migrations
  <2> QED BY <1>1, <2>1
<1>8. Migrations[6].up = MottoUp /\ Migrations[6].down = MottoDown
  <2>1. Migrations[6] = Migration(MottoUp, MottoDown)
    BY DEF Migrations
  <2> QED BY <1>1, <2>1
<1>9. Migrations[7].up = StatCategoryUp /\ Migrations[7].down = StatCategoryDown
  <2>1. Migrations[7] = Migration(StatCategoryUp, StatCategoryDown)
    BY DEF Migrations
  <2> QED BY <1>1, <2>1
<1>10. Migrations[8].up = HashPinsUp /\ Migrations[8].down = HashPinsDown
  <2>1. Migrations[8] = Migration(HashPinsUp, HashPinsDown)
    BY DEF Migrations
  <2> QED BY <1>1, <2>1
<1>11. Migrations[9].up = StatEnumUp /\ Migrations[9].down = StatEnumDown
  <2>1. Migrations[9] = Migration(StatEnumUp, StatEnumDown)
    BY DEF Migrations
  <2> QED BY <1>1, <2>1
<1>12. Migrations[10].up = ChatUp /\ Migrations[10].down = ChatDown
  <2>1. Migrations[10] = Migration(ChatUp, ChatDown)
    BY DEF Migrations
  <2> QED BY <1>1, <2>1
<1>13. Migrations[11].up = LedgerUp /\ Migrations[11].down = LedgerDown
  <2>1. Migrations[11] = Migration(LedgerUp, LedgerDown)
    BY DEF Migrations
  <2> QED BY <1>1, <2>1
<1>14. Migrations[12].up = ShopUp /\ Migrations[12].down = ShopDown
  <2>1. Migrations[12] = Migration(ShopUp, ShopDown)
    BY DEF Migrations
  <2> QED BY <1>1, <2>1
<1>15. Migrations[13].up = ActiveItemsUp /\ Migrations[13].down = ActiveItemsDown
  <2>1. Migrations[13] = Migration(ActiveItemsUp, ActiveItemsDown)
    BY DEF Migrations
  <2> QED BY <1>1, <2>1
<1>16. Migrations[14].up = HabitsUp /\ Migrations[14].down = HabitsDown
  <2>1. Migrations[14] = Migration(HabitsUp, HabitsDown)
    BY DEF Migrations
  <2> QED BY <1>1, <2>1
<1>17. Migrations[15].up = DirectMessagesUp /\ Migrations[15].down = DirectMessagesDown
  <2>1. Migrations[15] = Migration(DirectMessagesUp, DirectMessagesDown)
    BY DEF Migrations
  <2> QED BY <1>1, <2>1
<1>18. /\ Migrations[16].up = DeviceKeysUp \o CapabilitiesUp \o EncryptedMessagesUp
       /\ Migrations[16].down = EncryptionDown
  <2> DEFINE up == DeviceKeysUp \o CapabilitiesUp \o EncryptedMessagesUp
  <2>1. Migrations[16] = Migration(up, EncryptionDown)
    BY DEF Migrations
  <2> HIDE DEF up
  <2>2. Migrations[16].up = up /\ Migrations[16].down = EncryptionDown
    BY <1>1, <2>1
  <2> QED BY Zenon, <2>2 DEF up
<1>19. Migrations[17].up = ThreadReadsUp /\ Migrations[17].down = ThreadReadsDown
  <2>1. Migrations[17] = Migration(ThreadReadsUp, ThreadReadsDown)
    BY DEF Migrations
  <2> QED BY <1>1, <2>1
<1>20. Migrations[18].up = ProofMediaUp /\ Migrations[18].down = ProofMediaDown
  <2>1. Migrations[18] = Migration(ProofMediaUp, ProofMediaDown)
    BY DEF Migrations
  <2> QED BY <1>1, <2>1
<1>21. /\ Migrations[19].up = MediaAssetsUp \o OnceDeliveriesUp \o PhotoDumpsUp
       /\ Migrations[19].down = MediaDown
  <2> DEFINE up == MediaAssetsUp \o OnceDeliveriesUp \o PhotoDumpsUp
  <2>1. Migrations[19] = Migration(up, MediaDown)
    BY DEF Migrations
  <2> HIDE DEF up
  <2>2. Migrations[19].up = up /\ Migrations[19].down = MediaDown
    BY <1>1, <2>1
  <2> QED BY Zenon, <2>2 DEF up
<1>22. Migrations[20].up = OnceEncryptionUp /\ Migrations[20].down = OnceEncryptionDown
  <2>1. Migrations[20] = Migration(OnceEncryptionUp, OnceEncryptionDown)
    BY DEF Migrations
  <2> QED BY <1>1, <2>1
<1>23. Migrations[21].up = TelemetryUp /\ Migrations[21].down = TelemetryDown
  <2>1. Migrations[21] = Migration(TelemetryUp, TelemetryDown)
    BY DEF Migrations
  <2> QED BY <1>1, <2>1
<1> QED BY Zenon, <1>2, <1>3, <1>4, <1>5, <1>6, <1>7, <1>8, <1>9, <1>10, <1>11, <1>12,
           <1>13, <1>14, <1>15, <1>16, <1>17, <1>18, <1>19, <1>20, <1>21, <1>22, <1>23

\* Up to migration 5 tables only grow; only migration 5 writes roles, and they go when it is
\* undone, as guilds and hunters do when migration 2 is.  No down writes to a row.
LEMMA ScriptsAre ==
  ASSUME NEW m \in Versions
  PROVE  LET up   == Migrations[m].up
             down == Migrations[m].down
         IN /\ IsScript(up) /\ IsScript(down)
            /\ m < 5 => \A i \in DOMAIN up : up[i].do \in {"create", "alter"}
            /\ m > 5 => \A i \in DOMAIN up : Keeps(up[i])
            /\ m > 5 => \A i \in DOMAIN down : Keeps(down[i])
            /\ \A i \in DOMAIN down : down[i].do # "rewrite"
            /\ m > 2 => \A i \in DOMAIN down : down[i].do = "drop" => down[i].name # "guilds"
<1> DEFINE up   == Migrations[m].up
           down == Migrations[m].down
<1>0. m \in 1 .. 21
  BY ListOfMigrations DEF Versions
<1>1. \A ss : AllGrow(ss) \/ AllKeep(ss) \/ AllDefine(ss) => AllKnown(ss)
  BY DEF AllGrow, AllKeep, AllDefine, AllKnown, Grows, Defines, Kinds
<1>2. \A ss : AllKnown(ss) => IsScript(ss)
  <2>1. ASSUME NEW ss, AllKnown(ss) PROVE Len(ss) \in Nat /\ DOMAIN ss = 1 .. Len(ss)
    BY <2>1, LenProperties DEF AllKnown, IsList
  <2> QED BY <2>1 DEF AllKnown, IsScript
<1>3. m < 5 => AllGrow(up)
  <2>1. AllGrow(UsersAndGuildsUp \o HuntersAndQuestsUp)
    BY FirstScriptsGrow, Joined DEF AllGrow
  <2>2. AllGrow(PlayerIdsAndLinksUp \o GuildInvitesUp)
    BY FirstScriptsGrow, Joined DEF AllGrow
  <2>3. m < 5 => m \in {1, 2, 3, 4}
    BY <1>0
  <2> QED BY <2>1, <2>2, <2>3, FirstScriptsGrow, ListOfMigrations
<1>4. m > 5 => AllKeep(up)
  <2>1. AllKeep(DeviceKeysUp \o CapabilitiesUp \o EncryptedMessagesUp)
    <3>1. AllKeep(DeviceKeysUp \o CapabilitiesUp)
      BY LaterUps, Joined DEF AllKeep
    <3> QED BY <3>1, LaterUps, Joined DEF AllKeep
  <2>2. AllKeep(MediaAssetsUp \o OnceDeliveriesUp \o PhotoDumpsUp)
    <3>1. AllKeep(MediaAssetsUp \o OnceDeliveriesUp)
      BY LaterUps, Joined DEF AllKeep
    <3> QED BY <3>1, LaterUps, Joined DEF AllKeep
  <2>3. m > 5 => m \in {6, 7, 8, 9, 10, 11, 12, 13, 14, 15, 16, 17, 18, 19, 20, 21}
    BY <1>0
  <2> QED BY <2>1, <2>2, <2>3, LaterUps, ListOfMigrations
<1>5. m > 5 => AllKeep(down) /\ AllDefine(down)
  <2>1. m > 5 => m \in {6, 7, 8, 9, 10, 11, 12, 13, 14, 15, 16, 17, 18, 19, 20, 21}
    BY <1>0
  <2> QED BY <2>1, LaterDowns, ListOfMigrations
<1>6. m <= 5 => AllDefine(down)
  <2>1. m <= 5 => m \in {1, 2, 3, 4, 5}
    BY <1>0
  <2> QED BY <2>1, EarlyDowns, RolesScripts, ListOfMigrations
<1>7. m = 5 => AllKnown(up)
  BY RolesScripts, ListOfMigrations
<1>8. m > 2 /\ m <= 5 =>
        \A i \in DOMAIN down : down[i].do = "drop" => down[i].name # "guilds"
  <2>1. m > 2 /\ m <= 5 => m \in {3, 4, 5}
    BY <1>0
  <2> QED BY <2>1, EarlyDowns, ListOfMigrations
<1> HIDE DEF up, down
<1>9. m < 5 \/ m = 5 \/ m > 5
  BY <1>0
<1>10. IsScript(up) /\ IsScript(down) /\ AllDefine(down)
  <2>1. m < 5 => m <= 5
    BY <1>0
  <2>2. m = 5 => m <= 5
    BY <1>0
  <2> QED BY <1>1, <1>2, <1>3, <1>4, <1>5, <1>6, <1>7, <1>9, <2>1, <2>2
<1>11. m < 5 => \A i \in DOMAIN up : up[i].do \in {"create", "alter"}
  BY <1>3 DEF AllGrow, Grows
<1>12. m > 5 => \A i \in DOMAIN up : Keeps(up[i])
  BY <1>4 DEF AllKeep
<1>13. m > 5 => \A i \in DOMAIN down : Keeps(down[i])
  BY <1>5 DEF AllKeep
<1>14. \A i \in DOMAIN down : down[i].do # "rewrite"
  BY <1>10 DEF AllDefine, Defines
<1>15. m > 2 => \A i \in DOMAIN down : down[i].do = "drop" => down[i].name # "guilds"
  <2>1. m > 5 \/ m <= 5
    BY <1>0
  <2> QED BY <1>8, <1>13, <2>1 DEF Keeps
<1> QED BY <1>10, <1>11, <1>12, <1>13, <1>14, <1>15 DEF up, down

-------------------------------------------------------------------------------
(* Migrations.                                                             *)

N == Len(Migrations)

\* There are 21 migrations, each with its two scripts.
LEMMA MigrationsAre ==
  /\ N = 21 /\ Versions = 1 .. N
  /\ \A m \in Versions : IsScript(Migrations[m].up) /\ IsScript(Migrations[m].down)
<1>1. N = 21
  BY DEF N, Migrations
<1>2. \A m \in Versions : IsScript(Migrations[m].up) /\ IsScript(Migrations[m].down)
  BY ScriptsAre
<1> QED BY <1>1, <1>2 DEF N, Versions

\* The list of applied migrations is kept beside the schema.
LEMMA AppliedFields ==
  ASSUME NEW d, IsDatabase(d), NEW a, NEW e, e = [d EXCEPT !.applied = a]
  PROVE  /\ IsDatabase(e) /\ e.applied = a /\ e.catalogue = d.catalogue
         /\ e.failed = d.failed /\ e.guilds = d.guilds /\ e.hunters = d.hunters
<1>1. e = [catalogue |-> d.catalogue, applied |-> a, guilds |-> d.guilds,
           hunters |-> d.hunters, failed |-> d.failed]
  BY DEF IsDatabase
<1> QED BY <1>1 DEF IsDatabase

\* A migration that is not applied is run and entered; what it does to the schema depends on
\* the schema only.
LEMMA ApplyUpAlike ==
  ASSUME NEW d, NEW e, IsDatabase(d), IsDatabase(e), Alike(d, e), NEW m \in Versions,
         m \notin d.applied, m \notin e.applied
  PROVE  /\ IsDatabase(ApplyUp(d, m)) /\ ApplyUp(d, m).applied = d.applied \union {m}
         /\ Alike(ApplyUp(d, m), ApplyUp(e, m))
         /\ d.failed => ApplyUp(d, m).failed
<1> DEFINE ss == Migrations[m].up
           f == RunAll(d, ss)
           g == RunAll(e, ss)
<1>1. IsScript(ss)
  BY MigrationsAre
<1>2. /\ IsDatabase(f) /\ f.applied = d.applied /\ Alike(f, g)
      /\ d.failed => f = d
  BY <1>1, ScriptAlike
<1>3. IsDatabase(g) /\ g.applied = e.applied
  <2>1. Alike(e, d)
    BY DEF Alike
  <2> QED BY <1>1, <2>1, ScriptAlike
<1> DEFINE x == f.applied \union {m}
           y == g.applied \union {m}
<1>4. ApplyUp(d, m) = [f EXCEPT !.applied = x] /\ ApplyUp(e, m) = [g EXCEPT !.applied = y]
  BY DEF ApplyUp
<1> HIDE DEF f, g, ss
<1>5. /\ IsDatabase(ApplyUp(d, m)) /\ ApplyUp(d, m).applied = x
      /\ ApplyUp(d, m).catalogue = f.catalogue /\ ApplyUp(d, m).failed = f.failed
  BY <1>2, <1>4, AppliedFields
<1>6. ApplyUp(e, m).catalogue = g.catalogue /\ ApplyUp(e, m).failed = g.failed
  BY <1>3, <1>4, AppliedFields
<1> QED BY <1>2, <1>5, <1>6 DEF Alike

\* A migration that is applied already cannot be entered again.
LEMMA ApplyUpAgain ==
  ASSUME NEW d, IsDatabase(d), NEW m, m \in d.applied
  PROVE  IsDatabase(ApplyUp(d, m)) /\ ApplyUp(d, m).applied = d.applied /\ ApplyUp(d, m).failed
<1>1. ApplyUp(d, m) = Failed(d)
  BY DEF ApplyUp, Failed
<1> QED BY <1>1, FailedFields

\* A migration that is undone is struck off.
LEMMA ApplyDownAlike ==
  ASSUME NEW d, NEW e, IsDatabase(d), IsDatabase(e), Alike(d, e), NEW m \in Versions
  PROVE  /\ IsDatabase(ApplyDown(d, m)) /\ ApplyDown(d, m).applied = d.applied \ {m}
         /\ Alike(ApplyDown(d, m), ApplyDown(e, m))
         /\ d.failed => ApplyDown(d, m).failed
<1> DEFINE ss == Migrations[m].down
           f == RunAll(d, ss)
           g == RunAll(e, ss)
<1>1. IsScript(ss)
  BY MigrationsAre
<1>2. /\ IsDatabase(f) /\ f.applied = d.applied /\ Alike(f, g)
      /\ d.failed => f = d
  BY <1>1, ScriptAlike
<1>3. IsDatabase(g) /\ g.applied = e.applied
  <2>1. Alike(e, d)
    BY DEF Alike
  <2> QED BY <1>1, <2>1, ScriptAlike
<1> DEFINE x == f.applied \ {m}
           y == g.applied \ {m}
<1>4. ApplyDown(d, m) = [f EXCEPT !.applied = x] /\ ApplyDown(e, m) = [g EXCEPT !.applied = y]
  BY DEF ApplyDown
<1> HIDE DEF f, g, ss
<1>5. /\ IsDatabase(ApplyDown(d, m)) /\ ApplyDown(d, m).applied = x
      /\ ApplyDown(d, m).catalogue = f.catalogue /\ ApplyDown(d, m).failed = f.failed
  BY <1>2, <1>4, AppliedFields
<1>6. ApplyDown(e, m).catalogue = g.catalogue /\ ApplyDown(e, m).failed = g.failed
  BY <1>3, <1>4, AppliedFields
<1> QED BY <1>2, <1>5, <1>6 DEF Alike

\* The same for all the migrations, in the order they are applied in.
LEMMA FoldAscends ==
  ASSUME NEW d, NEW due
  PROVE  \E r : /\ r[0] = d
                /\ \A i \in 1 .. N : r[i] = Execute(r[i - 1], i, due, "up")
                /\ Migrated(d, due) = r[N]
<1> DEFINE order == Ascending
           way == "up"
<1>1. N \in Nat
  BY MigrationsAre
<1>2. DOMAIN order = 1 .. N /\ \A i \in 1 .. N : order[i] = i
  BY MigrationsAre DEF Ascending
<1>3. Migrated(d, due) = Executed(d, order, due, way)
  BY DEF Migrated
<1> HIDE DEF order, way
<1>4. PICK r : /\ r[0] = d
               /\ \A i \in 1 .. N : r[i] = Execute(r[i - 1], order[i], due, way)
               /\ Executed(d, order, due, way) = r[N]
  BY <1>1, <1>2, FoldExecutes
<1>5. \A i \in 1 .. N : r[i] = Execute(r[i - 1], i, due, "up")
  BY <1>2, <1>4 DEF way
<1> QED BY <1>3, <1>4, <1>5

\* The schema of a prefix is what its last migration makes of the shorter prefix's.
LEMMA NextSchema ==
  ASSUME NEW k \in 0 .. N - 1
  PROVE  SchemaAt[k + 1] = ApplyUp(SchemaAt[k], k + 1) /\ SchemaAt[0] = Empty
<1>0. /\ N \in Nat /\ N = 21 /\ Versions = 1 .. N
      /\ k \in {0} \union Versions /\ k + 1 \in {0} \union Versions
  BY MigrationsAre
<1>1. /\ SchemaAt[k] = Migrated(Empty, 1 .. k)
      /\ SchemaAt[k + 1] = Migrated(Empty, 1 .. k + 1)
      /\ SchemaAt[0] = Migrated(Empty, 1 .. 0)
  BY <1>0 DEF SchemaAt
<1>3. PICK r : /\ r[0] = Empty
               /\ \A i \in 1 .. N : r[i] = Execute(r[i - 1], i, 1 .. k, "up")
               /\ Migrated(Empty, 1 .. k) = r[N]
  BY FoldAscends
<1>4. PICK q : /\ q[0] = Empty
               /\ \A i \in 1 .. N : q[i] = Execute(q[i - 1], i, 1 .. k + 1, "up")
               /\ Migrated(Empty, 1 .. k + 1) = q[N]
  BY FoldAscends
<1>5. PICK z : /\ z[0] = Empty
               /\ \A i \in 1 .. N : z[i] = Execute(z[i - 1], i, 1 .. 0, "up")
               /\ Migrated(Empty, 1 .. 0) = z[N]
  BY FoldAscends
<1> DEFINE S == {i \in 0 .. N : /\ i <= k => r[i] = q[i]
                                /\ i >= k => r[i] = r[k]
                                /\ i > k => q[i] = ApplyUp(r[k], k + 1)
                                /\ z[i] = Empty}
<1>6. 0 \in S
  <2>1. 0 \in 0 .. N /\ (0 >= k => k = 0) /\ ~(0 > k)
    BY <1>0
  <2> QED BY <1>3, <1>4, <1>5, <2>1
<1>7. ASSUME NEW i \in 0 .. N - 1, i \in S PROVE i + 1 \in S
  <2>0. PICK j \in 1 .. N : j = i + 1
    BY <1>0
  <2>1. j \in 0 .. N /\ j - 1 = i /\ j \notin 1 .. 0
    BY <2>0
  <2>2. /\ r[j] = IF j \in 1 .. k THEN ApplyUp(r[i], j) ELSE r[i]
        /\ q[j] = IF j \in 1 .. k + 1 THEN ApplyUp(q[i], j) ELSE q[i]
        /\ z[j] = z[i]
    BY <1>3, <1>4, <1>5, <2>1 DEF Execute
  <2>3. /\ i <= k => r[i] = q[i]
        /\ i >= k => r[i] = r[k]
        /\ i > k => q[i] = ApplyUp(r[k], k + 1)
        /\ z[i] = Empty
    BY <1>7
  <2>4. CASE j <= k
    <3>1. j \in 1 .. k /\ j \in 1 .. k + 1 /\ i <= k /\ (j >= k => j = k) /\ ~(j > k)
      BY <2>0, <2>4
    <3> QED BY <2>0, <2>1, <2>2, <2>3, <3>1
  <2>5. CASE j = k + 1
    <3>1. j \notin 1 .. k /\ j \in 1 .. k + 1 /\ i = k /\ i <= k /\ i >= k /\ ~(j <= k) /\ j > k
      BY <2>0, <2>5
    <3> QED BY <2>0, <2>1, <2>2, <2>3, <2>5, <3>1
  <2>6. CASE j > k + 1
    <3>1. j \notin 1 .. k /\ j \notin 1 .. k + 1 /\ i > k /\ i >= k /\ ~(j <= k)
      BY <2>0, <2>6
    <3> QED BY <2>0, <2>1, <2>2, <2>3, <3>1
  <2> QED BY <2>4, <2>5, <2>6, <2>0
<1>8. N \in S
  <2> HIDE DEF S
  <2>1. \A i \in 0 .. N : i \in S
    BY <1>0, <1>6, <1>7, UpTo
  <2> QED BY <1>0, <2>1
<1>9. N >= k /\ N > k
  BY <1>0
<1> QED BY <1>1, <1>3, <1>4, <1>5, <1>8, <1>9

\* The schema of each prefix is a database to which the prefix was applied.
LEMMA SchemasAre ==
  /\ \A k \in 0 .. N : /\ IsDatabase(SchemaAt[k]) /\ SchemaAt[k].applied = 1 .. k
                       /\ ~SchemaAt[k].failed
  /\ SchemaAt[0].guilds = {} /\ SchemaAt[0].hunters = {}
<1>0. N \in Nat /\ Versions = 1 .. N /\ 0 \in 0 .. N - 1
  BY MigrationsAre
<1> DEFINE S == {k \in 0 .. N : /\ IsDatabase(SchemaAt[k]) /\ SchemaAt[k].applied = 1 .. k}
<1>1. 0 \in S /\ SchemaAt[0].guilds = {} /\ SchemaAt[0].hunters = {}
  <2>1. SchemaAt[0] = Empty
    BY <1>0, NextSchema
  <2>2. IsDatabase(Empty) /\ Empty.applied = 1 .. 0 /\ Empty.guilds = {} /\ Empty.hunters = {}
    BY DEF Empty, IsDatabase
  <2>3. 0 \in 0 .. N
    BY <1>0
  <2> QED BY <2>1, <2>2, <2>3
<1>2. ASSUME NEW k \in 0 .. N - 1, k \in S PROVE k + 1 \in S
  <2>1. SchemaAt[k + 1] = ApplyUp(SchemaAt[k], k + 1)
    BY NextSchema
  <2>2. IsDatabase(SchemaAt[k]) /\ SchemaAt[k].applied = 1 .. k
    BY <1>2
  <2> DEFINE d == SchemaAt[k]
             m == k + 1
  <2>3. m \in Versions /\ m \notin 1 .. k /\ (1 .. k) \union {m} = 1 .. m
    BY <1>0
  <2> HIDE DEF d, m
  <2>4. Alike(d, d)
    BY DEF Alike
  <2>5. IsDatabase(ApplyUp(d, m)) /\ ApplyUp(d, m).applied = 1 .. m
    <3>1. IsDatabase(d) /\ d.applied = 1 .. k
      BY <2>2 DEF d
    <3> QED BY <2>3, <2>4, <3>1, ApplyUpAlike
  <2>6. k + 1 \in 0 .. N
    BY <1>0
  <2> QED BY <2>1, <2>5, <2>6 DEF d, m
<1>3. \A k \in 0 .. N : k \in S
  <2> HIDE DEF S
  <2> QED BY <1>0, <1>1, <1>2, UpTo
<1>4. \A k \in 0 .. N : ~SchemaAt[k].failed
  <2>1. {0} \union Versions = 0 .. N
    BY <1>0
  <2> QED BY <2>1, MigrationsAssumption
<1> QED BY <1>1, <1>3, <1>4

\* The first k migrations are applied, and the schema is theirs.
Explained(d, k) ==
  /\ IsDatabase(d) /\ ~d.failed
  /\ d.applied = 1 .. k
  /\ d.catalogue = SchemaAt[k].catalogue

\* The next migration never fails and leads to the next schema.
LEMMA UpOne ==
  ASSUME NEW k \in 0 .. N - 1, NEW d, Explained(d, k)
  PROVE  Explained(ApplyUp(d, k + 1), k + 1)
<1> DEFINE e == SchemaAt[k]
           m == k + 1
<1>0. N \in Nat /\ Versions = 1 .. N /\ k \in 0 .. N /\ m \in 0 .. N
  BY MigrationsAre
<1>1. m \in Versions /\ m \notin 1 .. k /\ (1 .. k) \union {m} = 1 .. m
  BY <1>0
<1>2. IsDatabase(e) /\ e.applied = 1 .. k /\ ~e.failed
  BY <1>0, SchemasAre
<1>3. ApplyUp(e, m) = SchemaAt[m] /\ IsDatabase(SchemaAt[m]) /\ ~SchemaAt[m].failed
  BY <1>0, NextSchema, SchemasAre
<1> HIDE DEF m
<1>4. IsDatabase(d) /\ d.applied = 1 .. k /\ Alike(d, e)
  BY <1>2 DEF Explained, Alike, IsDatabase
<1> HIDE DEF e
<1>5. /\ IsDatabase(ApplyUp(d, m)) /\ ApplyUp(d, m).applied = 1 .. m
      /\ Alike(ApplyUp(d, m), ApplyUp(e, m))
  <2>1. m \notin d.applied /\ m \notin e.applied /\ d.applied \union {m} = 1 .. m
    BY <1>1, <1>2, <1>4
  <2> QED BY <1>1, <1>2, <1>4, <2>1, ApplyUpAlike
<1>6. Explained(ApplyUp(d, m), m)
  BY <1>3, <1>5 DEF Explained, Alike
<1> QED BY <1>6 DEF m

\* The last migration is undone, unless its down fails, to the schema before it.
LEMMA DownOne ==
  ASSUME NEW k \in 1 .. N, NEW d, Explained(d, k)
  PROVE  /\ IsDatabase(ApplyDown(d, k))
         /\ ~ApplyDown(d, k).failed => Explained(ApplyDown(d, k), k - 1)
<1> DEFINE e == SchemaAt[k]
<1>0. N \in Nat /\ Versions = 1 .. N /\ k \in 0 .. N /\ k \in Versions
  BY MigrationsAre
<1>1. (1 .. k) \ {k} = 1 .. k - 1
  BY <1>0
<1>2. IsDatabase(e) /\ e.applied = 1 .. k /\ ~e.failed
  BY <1>0, SchemasAre
<1>3. ~ApplyDown(e, k).failed => ApplyDown(e, k).catalogue = SchemaAt[k - 1].catalogue
  BY <1>0, MigrationsAssumption
<1>4. IsDatabase(d) /\ d.applied = 1 .. k /\ Alike(d, e)
  BY <1>2 DEF Explained, Alike, IsDatabase
<1> HIDE DEF e
<1>5. /\ IsDatabase(ApplyDown(d, k)) /\ ApplyDown(d, k).applied = d.applied \ {k}
      /\ Alike(ApplyDown(d, k), ApplyDown(e, k))
  BY <1>0, <1>2, <1>4, ApplyDownAlike
<1> QED BY <1>1, <1>3, <1>4, <1>5 DEF Explained, Alike

-------------------------------------------------------------------------------
(* What a statement does to the rows.                                      *)

IsHunter(h) ==
  /\ h = Hunter(h.id, h.guild, h.owner, h.role, h.pin, h.hashed)
  /\ h.id \in Nat /\ h.owner \in BOOLEAN

HuntersAre(hunters, guilds) ==
  IsFiniteSet(hunters) /\ \A h \in hunters : IsHunter(h) /\ h.guild \in guilds

NoOwners(hunters) == \A h \in hunters : ~h.owner

\* Of the statements that are not rewrites only a DROP touches the rows, by conforming them
\* to the tables and columns that are left.
LEMMA CreateKeepsRows ==
  ASSUME NEW d, IsDatabase(d), NEW s, s.do \in {"create", "alter"}
  PROVE  /\ Run(d, s).guilds = d.guilds /\ Run(d, s).hunters = d.hunters
         /\ Tables(d) \subseteq Tables(Run(d, s))
         /\ KeepsOwners(d) => KeepsOwners(Run(d, s))
<1>0. d.failed \in BOOLEAN
  BY DEF IsDatabase
<1>1. CASE d.failed
  <2>1. Run(d, s) = d
    BY <1>0, <1>1 DEF Run
  <2> QED BY <2>1
<1>2. CASE ~d.failed /\ s.do = "create"
  <2>1. Run(d, s) = CreateIn(d, s)
    BY <1>0, <1>2 DEF Run
  <2> DEFINE c == [t \in Tables(d) \union {s.name} |->
                     IF t = s.name THEN s.entry ELSE d.catalogue[t]]
             d1 == [d EXCEPT !.catalogue = c]
  <2>2. CreateIn(d, s) \in {d, Failed(d)} \/ (CreateIn(d, s) = d1 /\ s.name \notin Tables(d))
    BY DEF CreateIn
  <2>3. s.name \notin Tables(d) =>
          /\ DOMAIN d.catalogue \subseteq DOMAIN c
          /\ \A t \in DOMAIN d.catalogue : c[t] = d.catalogue[t]
    BY DEF Tables
  <2> HIDE DEF c
  <2>4. IsDatabase(d1) /\ d1.catalogue = c /\ d1.guilds = d.guilds /\ d1.hunters = d.hunters
    BY CatalogueFields
  <2> HIDE DEF d1
  <2>5. /\ Failed(d).catalogue = d.catalogue
        /\ Failed(d).guilds = d.guilds /\ Failed(d).hunters = d.hunters
    BY FailedFields
  <2>6. CASE CreateIn(d, s) \in {d, Failed(d)}
    BY <2>1, <2>5, <2>6 DEF Tables, KeepsOwners
  <2>7. CASE CreateIn(d, s) = d1 /\ s.name \notin Tables(d)
    BY <2>1, <2>3, <2>4, <2>7 DEF Tables, KeepsOwners
  <2> QED BY <2>2, <2>6, <2>7
<1>3. CASE ~d.failed /\ s.do = "alter"
  <2>1. Run(d, s) = AlterIn(d, s)
    BY <1>0, <1>3 DEF Run
  <2> DEFINE p == d.catalogue[s.name]
             q == IF s.ifNotExists THEN Missing(p, s.entry) ELSE s.entry
             r == With(p, q)
             c == [d.catalogue EXCEPT ![s.name] = r]
             d1 == [d EXCEPT !.catalogue = c]
  <2>2. AlterIn(d, s) \in {Failed(d), d1}
    BY DEF AlterIn
  <2>3. /\ DOMAIN c = DOMAIN d.catalogue
        /\ \A t \in DOMAIN d.catalogue : t # s.name => c[t] = d.catalogue[t]
        /\ s.name \in DOMAIN d.catalogue => c[s.name] = r
    OBVIOUS
  <2>4. "columns" \in DOMAIN r /\ p.columns \subseteq r.columns
    BY DEF With, Entry
  <2> HIDE DEF c, r, q
  <2>5. IsDatabase(d1) /\ d1.catalogue = c /\ d1.guilds = d.guilds /\ d1.hunters = d.hunters
    BY CatalogueFields
  <2> HIDE DEF d1
  <2>6. /\ Failed(d).catalogue = d.catalogue
        /\ Failed(d).guilds = d.guilds /\ Failed(d).hunters = d.hunters
    BY FailedFields
  <2>7. CASE AlterIn(d, s) = Failed(d)
    BY <2>1, <2>6, <2>7 DEF Tables, KeepsOwners
  <2>8. CASE AlterIn(d, s) = d1
    <3>1. Tables(Run(d, s)) = Tables(d)
      BY <2>1, <2>3, <2>5, <2>8 DEF Tables
    <3>2. ASSUME KeepsOwners(d) PROVE KeepsOwners(Run(d, s))
      <4>1. CASE s.name = "hunters"
        <5>1. c["hunters"] = r /\ p = d.catalogue["hunters"]
          BY <2>3, <3>2, <4>1 DEF KeepsOwners, Tables
        <5> QED BY <2>1, <2>4, <2>5, <2>8, <3>1, <3>2, <5>1 DEF KeepsOwners
      <4>2. CASE s.name # "hunters"
        <5>1. c["hunters"] = d.catalogue["hunters"]
          BY <2>3, <3>2, <4>2 DEF KeepsOwners, Tables
        <5> QED BY <2>1, <2>5, <2>8, <3>1, <3>2, <5>1 DEF KeepsOwners
      <4> QED BY <4>1, <4>2
    <3> QED BY <2>1, <2>5, <2>8, <3>1, <3>2
  <2> QED BY <2>2, <2>7, <2>8
<1> QED BY <1>1, <1>2, <1>3, <1>0

\* A DROP: the table or part is gone and the rows conform, or nothing changes.
Drops == {"drop", "dropColumn", "dropUse", "dropIndex"}

WithCatalogue(d, c) == [d EXCEPT !.catalogue = c]

\* What a DROP may leave of the catalogue, as far as columns go
Leaves(d, s, c) ==
  LET p == d.catalogue[s.name]
      q == c[s.name]
  IN /\ DOMAIN c = IF s.do = "drop" THEN Tables(d) \ {s.name} ELSE Tables(d)
     /\ \A t \in DOMAIN c : t # s.name => c[t] = d.catalogue[t]
     /\ s.do = "dropColumn" => "columns" \in DOMAIN q /\ q.columns = p.columns \ {s.part}
     /\ s.do \in {"dropUse", "dropIndex"} /\ "columns" \in DOMAIN p =>
          "columns" \in DOMAIN q /\ q.columns = p.columns

\* A DROP fails, or finds nothing to drop and may say so, or leaves the rest.
LEMMA DropLeaves ==
  ASSUME NEW d, IsDatabase(d), NEW s, s.do \in Drops
  PROVE  \/ Run(d, s) = Failed(d)
         \/ Run(d, s) = d /\ (d.failed \/ s.ifExists)
         \/ \E c : Run(d, s) = Conform(WithCatalogue(d, c)) /\ Leaves(d, s, c)
<1>0. d.failed \in BOOLEAN
  BY DEF IsDatabase
<1> DEFINE p == d.catalogue[s.name]
<1>1. CASE d.failed
  BY <1>0, <1>1 DEF Run
<1>2. CASE ~d.failed /\ s.do = "drop"
  <2> DEFINE c == [t \in Tables(d) \ {s.name} |-> d.catalogue[t]]
  <2>1. Run(d, s) = DropIn(d, s)
    BY <1>0, <1>2 DEF Run
  <2>2. \/ DropIn(d, s) = Failed(d)
        \/ DropIn(d, s) = d /\ s.ifExists
        \/ DropIn(d, s) = Conform(WithCatalogue(d, c))
    BY DEF DropIn, WithCatalogue
  <2>3. Leaves(d, s, c)
    BY <1>2 DEF Leaves
  <2> HIDE DEF c
  <2> QED BY <1>2, <2>1, <2>2, <2>3
<1>3. ASSUME NEW after, NEW there, Run(d, s) = RemoveIn(d, s, there, after), s.do # "drop",
             s.do = "dropColumn" =>
               "columns" \in DOMAIN after /\ after.columns = p.columns \ {s.part},
             s.do \in {"dropUse", "dropIndex"} /\ "columns" \in DOMAIN p =>
               "columns" \in DOMAIN after /\ after.columns = p.columns
      PROVE  \/ Run(d, s) = Failed(d)
             \/ Run(d, s) = d /\ (d.failed \/ s.ifExists)
             \/ \E c : Run(d, s) = Conform(WithCatalogue(d, c)) /\ Leaves(d, s, c)
  <2> DEFINE c == [d.catalogue EXCEPT ![s.name] = after]
  <2>1. \/ RemoveIn(d, s, there, after) = Failed(d)
        \/ RemoveIn(d, s, there, after) = d /\ s.ifExists
        \/ RemoveIn(d, s, there, after) = Conform(WithCatalogue(d, c)) /\ s.name \in Tables(d)
    BY DEF RemoveIn, WithCatalogue
  <2>2. /\ DOMAIN c = Tables(d)
        /\ \A t \in DOMAIN c : t # s.name => c[t] = d.catalogue[t]
        /\ s.name \in Tables(d) => c[s.name] = after
    BY DEF Tables
  <2> HIDE DEF c
  <2>3. s.name \in Tables(d) => Leaves(d, s, c)
    BY <1>3, <2>2 DEF Leaves
  <2> QED BY <1>3, <2>1, <2>3
<1>4. CASE ~d.failed /\ s.do = "dropColumn"
  <2> DEFINE after == WithoutColumn(p, s.part)
  <2>1. Run(d, s) = RemoveIn(d, s, s.part \in p.columns, after)
    BY <1>0, <1>4 DEF Run
  <2>2. "columns" \in DOMAIN after /\ after.columns = p.columns \ {s.part}
    BY DEF WithoutColumn, Entry
  <2> HIDE DEF after
  <2> QED BY <1>3, <1>4, <2>1, <2>2
<1>5. CASE ~d.failed /\ s.do = "dropUse"
  <2> DEFINE after == [p EXCEPT !.uses = @ \ {s.part}]
  <2>1. Run(d, s) = RemoveIn(d, s, s.part \in p.uses, after)
    BY <1>0, <1>5 DEF Run
  <2>2. "columns" \in DOMAIN p => "columns" \in DOMAIN after /\ after.columns = p.columns
    OBVIOUS
  <2> HIDE DEF after
  <2> QED BY <1>3, <1>5, <2>1, <2>2
<1>6. CASE ~d.failed /\ s.do = "dropIndex"
  <2> DEFINE after == [p EXCEPT !.indexes = {i \in @ : i[1] # s.part}]
  <2>1. Run(d, s) = RemoveIn(d, s, s.part \in IndexNames(p), after)
    BY <1>0, <1>6 DEF Run
  <2>2. "columns" \in DOMAIN p => "columns" \in DOMAIN after /\ after.columns = p.columns
    OBVIOUS
  <2> HIDE DEF after
  <2> QED BY <1>3, <1>6, <2>1, <2>2
<1> QED BY <1>0, <1>1, <1>2, <1>4, <1>5, <1>6 DEF Drops

\* A hunter's row when its table has the columns cs
Conformed(h, cs) ==
  [h EXCEPT !.role  = IF "guild_role" \in cs THEN @ ELSE NoRole,
            !.owner = @ /\ "user_id" \in cs]

ConformedAll(hs, cs) == {Conformed(h, cs) : h \in hs}

\* Conforming leaves a row of the same guild; it may lose its role and its owner.
LEMMA ConformedIs ==
  ASSUME NEW h, IsHunter(h), NEW cs
  PROVE  /\ IsHunter(Conformed(h, cs)) /\ Conformed(h, cs).guild = h.guild
         /\ Conformed(h, cs).owner => h.owner /\ "user_id" \in cs
         /\ {"guild_role", "user_id"} \subseteq cs => Conformed(h, cs) = h
<1> DEFINE e == Conformed(h, cs)
           ro == IF "guild_role" \in cs THEN h.role ELSE NoRole
           ow == h.owner /\ "user_id" \in cs
<1>0. h.owner \in BOOLEAN /\ h.id \in Nat
  BY DEF IsHunter
<1>1. DOMAIN h = {"id", "guild", "owner", "role", "pin", "hashed"}
  BY DEF IsHunter, Hunter
<1>2. e = [h EXCEPT !.role = ro, !.owner = ow]
  BY DEF Conformed
<1>3. ow \in BOOLEAN /\ (ow => h.owner /\ "user_id" \in cs)
  OBVIOUS
<1>4. {"guild_role", "user_id"} \subseteq cs => ro = h.role /\ ow = h.owner
  BY <1>0
<1> HIDE DEF e, ro, ow
<1>5. /\ DOMAIN e = {"id", "guild", "owner", "role", "pin", "hashed"}
      /\ e = [x \in DOMAIN e |-> e[x]]
  BY <1>1, <1>2
<1>6. e.id = h.id /\ e.guild = h.guild /\ e.owner = ow /\ e.role = ro /\ e.pin = h.pin
      /\ e.hashed = h.hashed
  BY <1>1, <1>2
<1>7. e = Hunter(h.id, h.guild, ow, ro, h.pin, h.hashed)
  BY <1>5, <1>6 DEF Hunter
<1>8. IsHunter(e)
  BY <1>0, <1>3, <1>6, <1>7 DEF IsHunter
<1>9. {"guild_role", "user_id"} \subseteq cs => e = h
  BY <1>4, <1>7 DEF IsHunter
<1> QED BY <1>3, <1>6, <1>8, <1>9 DEF e

\* The rows under another catalogue
LEMMA ConformRows ==
  ASSUME NEW d, IsDatabase(d), NEW c
  PROVE  LET e == Conform(WithCatalogue(d, c))
         IN  /\ e.catalogue = c
             /\ "guilds" \in DOMAIN c => e.guilds = d.guilds
             /\ "guilds" \notin DOMAIN c => e.guilds = {}
             /\ "hunters" \in DOMAIN c =>
                  e.hunters = ConformedAll(d.hunters, c["hunters"].columns)
             /\ "hunters" \notin DOMAIN c => e.hunters = {}
<1> DEFINE d1 == WithCatalogue(d, c)
<1>1. /\ IsDatabase(d1) /\ d1.catalogue = c /\ d1.applied = d.applied /\ d1.failed = d.failed
      /\ d1.guilds = d.guilds /\ d1.hunters = d.hunters
  BY CatalogueFields DEF WithCatalogue
<1> HIDE DEF d1
<1>2. /\ Conform(d1).catalogue = d1.catalogue
      /\ Conform(d1).guilds = IF "guilds" \in Tables(d1) THEN d1.guilds ELSE {}
      /\ Conform(d1).hunters = IF "hunters" \notin Tables(d1) THEN {}
                               ELSE ConformedAll(d1.hunters, d1.catalogue["hunters"].columns)
  BY <1>1, ConformFields DEF Conformed, ConformedAll
<1>3. Tables(d1) = DOMAIN c
  BY <1>1 DEF Tables
<1> QED BY <1>1, <1>2, <1>3 DEF d1

\* Conformed rows are rows of the same guilds, and none has become an owner's.
LEMMA ConformedRows ==
  ASSUME NEW hs, NEW gs, HuntersAre(hs, gs), NEW cs
  PROVE  LET ks == ConformedAll(hs, cs)
         IN  /\ HuntersAre(ks, gs)
             /\ NoOwners(hs) \/ "user_id" \notin cs => NoOwners(ks)
             /\ {"guild_role", "user_id"} \subseteq cs => ks = hs
<1> DEFINE ks == ConformedAll(hs, cs)
<1>0. ks = {Conformed(h, cs) : h \in hs}
  BY DEF ConformedAll
<1> HIDE DEF ks
<1>1. IsFiniteSet(ks)
  <2> DEFINE f == [h \in hs |-> Conformed(h, cs)]
  <2>1. f \in Surjection(hs, ks)
    BY <1>0 DEF Surjection
  <2> QED BY <2>1, FS_Surjection DEF HuntersAre
<1>2. ASSUME NEW k \in ks
      PROVE  \E h \in hs : k = Conformed(h, cs) /\ IsHunter(h) /\ h.guild \in gs
  BY <1>0 DEF HuntersAre
<1>3. \A k \in ks : IsHunter(k) /\ k.guild \in gs
  BY <1>2, ConformedIs
<1>4. NoOwners(hs) \/ "user_id" \notin cs => NoOwners(ks)
  BY <1>2, ConformedIs DEF NoOwners
<1>5. ASSUME {"guild_role", "user_id"} \subseteq cs PROVE ks = hs
  <2>1. \A h \in hs : Conformed(h, cs) = h
    BY <1>5, ConformedIs DEF HuntersAre
  <2> QED BY <1>0, <2>1
<1> QED BY <1>1, <1>3, <1>4, <1>5 DEF HuntersAre, ks

\* While guilds keep their table, a DROP leaves rows of the same guilds.
LEMMA DropRows ==
  ASSUME NEW d, IsDatabase(d), NEW s, s.do \in Drops, s.do = "drop" => s.name # "guilds",
         "guilds" \in Tables(d), HuntersAre(d.hunters, d.guilds)
  PROVE  LET e == Run(d, s)
         IN  /\ "guilds" \in Tables(e) /\ e.guilds = d.guilds
             /\ HuntersAre(e.hunters, e.guilds)
             /\ NoOwners(d.hunters) => NoOwners(e.hunters)
<1> DEFINE e == Run(d, s)
<1>1. CASE e = d
  BY <1>1
<1>2. CASE e = Failed(d)
  <2>1. e.catalogue = d.catalogue /\ e.guilds = d.guilds /\ e.hunters = d.hunters
    BY <1>2, FailedFields
  <2> QED BY <2>1 DEF Tables
<1>3. ASSUME NEW c, e = Conform(WithCatalogue(d, c)), Leaves(d, s, c)
      PROVE  /\ "guilds" \in Tables(e) /\ e.guilds = d.guilds
             /\ HuntersAre(e.hunters, e.guilds)
             /\ NoOwners(d.hunters) => NoOwners(e.hunters)
  <2>1. "guilds" \in DOMAIN c
    BY <1>3 DEF Leaves
  <2>2. /\ e.catalogue = c /\ e.guilds = d.guilds
        /\ e.hunters = IF "hunters" \notin DOMAIN c THEN {}
                       ELSE ConformedAll(d.hunters, c["hunters"].columns)
    <3> DEFINE x == Conform(WithCatalogue(d, c))
    <3>1. /\ x.catalogue = c
          /\ "guilds" \in DOMAIN c => x.guilds = d.guilds
          /\ "guilds" \notin DOMAIN c => x.guilds = {}
          /\ "hunters" \in DOMAIN c =>
               x.hunters = ConformedAll(d.hunters, c["hunters"].columns)
          /\ "hunters" \notin DOMAIN c => x.hunters = {}
      BY ConformRows
    <3> HIDE DEF x
    <3> QED BY <1>3, <2>1, <3>1 DEF x
  <2>3. CASE "hunters" \notin DOMAIN c
    <3>1. HuntersAre({}, d.guilds) /\ NoOwners({})
      BY FS_EmptySet DEF HuntersAre, NoOwners
    <3> QED BY <2>1, <2>2, <2>3, <3>1 DEF Tables
  <2>4. CASE "hunters" \in DOMAIN c
    <3> DEFINE cs == c["hunters"].columns
               ks == ConformedAll(d.hunters, cs)
    <3>1. HuntersAre(ks, d.guilds) /\ (NoOwners(d.hunters) => NoOwners(ks))
      <4> HIDE DEF cs
      <4> QED BY ConformedRows
    <3>2. e.hunters = ks
      BY <2>2, <2>4
    <3> HIDE DEF ks
    <3> QED BY <2>1, <2>2, <3>1, <3>2 DEF Tables
  <2> QED BY <2>3, <2>4
<1>4. e = d \/ e = Failed(d) \/ \E c : e = Conform(WithCatalogue(d, c)) /\ Leaves(d, s, c)
  BY DropLeaves
<1> QED BY <1>1, <1>2, <1>3, <1>4

\* While roles and owners keep their columns, a DROP leaves the rows alone.
LEMMA DropKeeps ==
  ASSUME NEW d, IsDatabase(d), NEW s, s.do \in Drops, Keeps(s), KeepsOwners(d),
         HuntersAre(d.hunters, d.guilds)
  PROVE  LET e == Run(d, s)
         IN  KeepsOwners(e) /\ e.guilds = d.guilds /\ e.hunters = d.hunters
<1> DEFINE e == Run(d, s)
           p == d.catalogue[s.name]
<1>1. CASE e = d
  BY <1>1
<1>2. CASE e = Failed(d)
  <2>1. e.catalogue = d.catalogue /\ e.guilds = d.guilds /\ e.hunters = d.hunters
    BY <1>2, FailedFields
  <2> QED BY <2>1 DEF Tables, KeepsOwners
<1>3. CASE \E c : e = Conform(WithCatalogue(d, c)) /\ Leaves(d, s, c)
  <2>1. PICK c : e = Conform(WithCatalogue(d, c)) /\ Leaves(d, s, c)
    BY <1>3
  <2>2. {"guilds", "hunters"} \subseteq DOMAIN c
    BY <2>1 DEF Keeps, KeepsOwners, Leaves
  <2>3. /\ "columns" \in DOMAIN c["hunters"]
        /\ {"guild_role", "user_id"} \subseteq c["hunters"].columns
    <3>1. CASE s.name # "hunters"
      <4>1. c["hunters"] = d.catalogue["hunters"]
        BY <2>1, <2>2, <3>1 DEF Leaves
      <4> QED BY <4>1 DEF KeepsOwners
    <3>2. CASE s.name = "hunters"
      <4>1. "columns" \in DOMAIN p /\ {"guild_role", "user_id"} \subseteq p.columns
        BY <3>2 DEF KeepsOwners
      <4>2. s.do # "drop" /\ (s.do = "dropColumn" => s.part \notin {"guild_role", "user_id"})
        BY <3>2 DEF Keeps
      <4>3. CASE s.do = "dropColumn"
        BY <2>1, <3>2, <4>1, <4>2, <4>3 DEF Leaves
      <4>4. CASE s.do \in {"dropUse", "dropIndex"}
        BY <2>1, <3>2, <4>1, <4>4 DEF Leaves
      <4> QED BY <4>2, <4>3, <4>4 DEF Drops
    <3> QED BY <3>1, <3>2
  <2> DEFINE cs == c["hunters"].columns
             ks == ConformedAll(d.hunters, cs)
  <2>4. e.catalogue = c /\ e.guilds = d.guilds /\ e.hunters = ks
    BY <2>1, <2>2, ConformRows
  <2>5. ks = d.hunters
    BY <2>3, ConformedRows
  <2> HIDE DEF ks
  <2> QED BY <2>2, <2>3, <2>4, <2>5 DEF KeepsOwners, Tables
<1> HIDE DEF e
<1>4. KeepsOwners(e) /\ e.guilds = d.guilds /\ e.hunters = d.hunters
  BY <1>1, <1>2, <1>3, DropLeaves DEF e
<1> QED BY <1>4 DEF e

\* A DROP leaves the guilds or none; where there are no hunters none appear.
LEMMA DropEmpty ==
  ASSUME NEW d, IsDatabase(d), NEW s, s.do \in Drops, IsFiniteSet(d.guilds)
  PROVE  /\ IsFiniteSet(Run(d, s).guilds)
         /\ d.hunters = {} => Run(d, s).hunters = {}
<1> DEFINE e == Run(d, s)
<1>1. CASE e = d \/ e = Failed(d)
  BY <1>1, FailedFields
<1>2. CASE \E c : e = Conform(WithCatalogue(d, c)) /\ Leaves(d, s, c)
  <2>1. PICK c : e = Conform(WithCatalogue(d, c))
    BY <1>2
  <2>2. \A cs : ConformedAll({}, cs) = {}
    BY DEF ConformedAll
  <2>3. e.guilds \in {d.guilds, {}} /\ (d.hunters = {} => e.hunters = {})
    <3> DEFINE x == Conform(WithCatalogue(d, c))
    <3>1. /\ x.catalogue = c
          /\ "guilds" \in DOMAIN c => x.guilds = d.guilds
          /\ "guilds" \notin DOMAIN c => x.guilds = {}
          /\ "hunters" \in DOMAIN c =>
               x.hunters = ConformedAll(d.hunters, c["hunters"].columns)
          /\ "hunters" \notin DOMAIN c => x.hunters = {}
      BY ConformRows
    <3> HIDE DEF x
    <3> QED BY <2>1, <2>2, <3>1 DEF x
  <2> QED BY <2>3, FS_EmptySet
<1> QED BY <1>1, <1>2, DropLeaves

\* With the table of hunters go its rows.
LEMMA DropHunters ==
  ASSUME NEW d, IsDatabase(d), ~Run(d, DropTable("hunters")).failed, IsFiniteSet(d.guilds)
  PROVE  LET e == Run(d, DropTable("hunters")) IN e.hunters = {} /\ IsFiniteSet(e.guilds)
<1> DEFINE s == DropTable("hunters")
           e == Run(d, s)
<1>1. s.do = "drop" /\ s.name = "hunters" /\ s.ifExists = FALSE /\ s.do \in Drops
  BY DEF DropTable, Drops
<1> HIDE DEF s
<1>2. PICK c : e = Conform(WithCatalogue(d, c)) /\ Leaves(d, s, c)
  <2>1. e # Failed(d)
    BY FailedFields DEF s
  <2>2. ~(e = d /\ d.failed)
    BY DEF s
  <2> QED BY <1>1, <2>1, <2>2, DropLeaves
<1>3. "hunters" \notin DOMAIN c
  BY <1>1, <1>2 DEF Leaves
<1>4. e.guilds \in {d.guilds, {}} /\ e.hunters = {}
  BY <1>2, <1>3, ConformRows
<1> QED BY <1>4, FS_EmptySet DEF s

\* With the column that refers to their accounts go the owners.
LEMMA DropOwners ==
  ASSUME NEW d, IsDatabase(d), ~Run(d, DropColumn("hunters", "user_id")).failed,
         HuntersAre(d.hunters, d.guilds)
  PROVE  NoOwners(Run(d, DropColumn("hunters", "user_id")).hunters)
<1> DEFINE s == DropColumn("hunters", "user_id")
           e == Run(d, s)
           p == d.catalogue["hunters"]
<1>1. /\ s.do = "dropColumn" /\ s.name = "hunters" /\ s.part = "user_id" /\ s.ifExists = FALSE
      /\ s.do \in Drops
  BY DEF DropColumn, Drops
<1> HIDE DEF s
<1>2. PICK c : e = Conform(WithCatalogue(d, c)) /\ Leaves(d, s, c)
  <2>1. e # Failed(d)
    BY FailedFields DEF s
  <2>2. ~(e = d /\ d.failed)
    BY DEF s
  <2> QED BY <1>1, <2>1, <2>2, DropLeaves
<1> DEFINE cs == c["hunters"].columns
           ks == ConformedAll(d.hunters, cs)
<1>3. "user_id" \notin cs
  BY <1>1, <1>2 DEF Leaves
<1>4. NoOwners(ks)
  BY <1>3, ConformedRows
<1>5. e.hunters \in {{}, ks}
  BY <1>2, ConformRows
<1> HIDE DEF ks
<1>6. NoOwners(e.hunters)
  BY <1>4, <1>5 DEF NoOwners
<1> QED BY <1>6 DEF s

-------------------------------------------------------------------------------
(* What a rewrite does to the rows.                                        *)

\* One hunter of the guild is its owner's and a master.
OneOwner(hunters, g) ==
  \E x \in hunters :
    /\ x.guild = g /\ x.owner /\ x.role = "master"
    /\ \A h \in hunters : h.guild = g /\ h.owner /\ h.role = "master" => h = x

OwnersAre(hunters, guilds) == \A g \in guilds : OneOwner(hunters, g)

Hashed(hunters) == \A h \in hunters : h.hashed

\* Hashing the PINs changes nothing else of a row.
LEMMA HashPinsRows ==
  ASSUME NEW hs, NEW gs, HuntersAre(hs, gs)
  PROVE  /\ HuntersAre(HashPins(hs), gs) /\ Hashed(HashPins(hs))
         /\ OwnersAre(hs, gs) => OwnersAre(HashPins(hs), gs)
<1> DEFINE hash(h) == [h EXCEPT !.hashed = TRUE]
           ks == HashPins(hs)
<1>0. ks = {hash(h) : h \in hs}
  BY DEF HashPins
<1>1. ASSUME NEW h \in hs
      PROVE  /\ hash(h) = Hunter(h.id, h.guild, h.owner, h.role, h.pin, TRUE)
             /\ IsHunter(h) /\ h.guild \in gs
  <2>0. IsHunter(h) /\ h.guild \in gs
    BY DEF HuntersAre
  <2>1. DOMAIN h = {"id", "guild", "owner", "role", "pin", "hashed"}
    BY <2>0 DEF IsHunter, Hunter
  <2>2. /\ DOMAIN hash(h) = {"id", "guild", "owner", "role", "pin", "hashed"}
        /\ hash(h) = [x \in DOMAIN hash(h) |-> hash(h)[x]]
    BY <2>1
  <2>3. hash(h).id = h.id /\ hash(h).guild = h.guild /\ hash(h).owner = h.owner
        /\ hash(h).role = h.role /\ hash(h).pin = h.pin /\ hash(h).hashed = TRUE
    BY <2>1
  <2> HIDE DEF hash
  <2> QED BY <2>0, <2>2, <2>3 DEF Hunter
<1> HIDE DEF hash, ks
<1>2. ASSUME NEW h \in hs
      PROVE  /\ IsHunter(hash(h)) /\ hash(h).guild = h.guild /\ hash(h).owner = h.owner
             /\ hash(h).role = h.role /\ hash(h).hashed = TRUE /\ h.guild \in gs
  BY <1>1 DEF IsHunter, Hunter
<1>3. IsFiniteSet(ks)
  <2> DEFINE f == [h \in hs |-> hash(h)]
  <2>1. f \in Surjection(hs, ks)
    BY <1>0 DEF Surjection
  <2> QED BY <2>1, FS_Surjection DEF HuntersAre
<1>4. HuntersAre(ks, gs) /\ Hashed(ks)
  BY <1>0, <1>2, <1>3 DEF HuntersAre, Hashed
<1>5. ASSUME OwnersAre(hs, gs), NEW g \in gs PROVE OneOwner(ks, g)
  <2>1. PICK x \in hs : /\ x.guild = g /\ x.owner /\ x.role = "master"
                        /\ \A h \in hs : h.guild = g /\ h.owner /\ h.role = "master" => h = x
    BY <1>5 DEF OwnersAre, OneOwner
  <2>2. hash(x) \in ks /\ hash(x).guild = g /\ hash(x).owner /\ hash(x).role = "master"
    BY <1>0, <1>2, <2>1
  <2>3. ASSUME NEW k \in ks, k.guild = g /\ k.owner /\ k.role = "master" PROVE k = hash(x)
    <3>1. PICK h \in hs : k = hash(h)
      BY <1>0
    <3>2. h.guild = g /\ h.owner /\ h.role = "master"
      BY <1>2, <2>3, <3>1
    <3> QED BY <2>1, <3>1, <3>2
  <2> QED BY <2>2, <2>3 DEF OneOwner
<1> QED BY <1>4, <1>5 DEF OwnersAre, ks

\* Giving a role to who has none changes nothing else of a row.
LEMMA MembersRows ==
  ASSUME NEW hs, NEW gs, HuntersAre(hs, gs), NoOwners(hs)
  PROVE  HuntersAre(Members(hs), gs) /\ NoOwners(Members(hs))
<1> DEFINE role(h) == IF h.role = NoRole THEN "member" ELSE h.role
           enrol(h) == [h EXCEPT !.role = role(h)]
           ks == Members(hs)
<1>0. ks = {enrol(h) : h \in hs}
  BY DEF Members
<1> HIDE DEF role
<1>1. ASSUME NEW h \in hs
      PROVE  /\ enrol(h) = Hunter(h.id, h.guild, h.owner, role(h), h.pin, h.hashed)
             /\ IsHunter(h) /\ h.guild \in gs
  BY DEF HuntersAre, IsHunter, Hunter
<1> HIDE DEF enrol, ks
<1>2. ASSUME NEW h \in hs
      PROVE  /\ IsHunter(enrol(h)) /\ enrol(h).guild \in gs /\ enrol(h).owner = h.owner
  BY <1>1 DEF IsHunter, Hunter
<1>3. IsFiniteSet(ks)
  <2> DEFINE f == [h \in hs |-> enrol(h)]
  <2>1. f \in Surjection(hs, ks)
    BY <1>0 DEF Surjection
  <2> QED BY <2>1, FS_Surjection DEF HuntersAre
<1>4. HuntersAre(ks, gs) /\ NoOwners(ks)
  BY <1>0, <1>2, <1>3 DEF HuntersAre, NoOwners
<1> QED BY <1>4 DEF ks

\* A guild none of whose hunters is its owner's has one that is afterwards; the hunters of
\* the others stay as they are.
LEMMA BackfillsOne ==
  ASSUME NEW hs, NEW gs, HuntersAre(hs, gs), NEW g \in gs, \A h \in hs : h.guild = g => ~h.owner
  PROVE  LET ks == BackfillOwner(hs, g)
         IN  /\ HuntersAre(ks, gs) /\ OneOwner(ks, g)
             /\ \A h : h.guild # g => (h \in ks <=> h \in hs)
<1> DEFINE ks == BackfillOwner(hs, g)
           found == {h \in hs : h.guild = g /\ h.role = "master"}
           pin == AvailablePin(hs, g)
           n == Fresh(hs)
           new == Hunter(n, g, TRUE, "master", pin, FALSE)
           old == CHOOSE h \in found : \A k \in found : h.id <= k.id
           own == [old EXCEPT !.owner = TRUE, !.role = "master"]
<1>1. OwnerHunters(hs, g) = found
  <2>1. {h \in hs : h.guild = g /\ h.owner} = {}
    OBVIOUS
  <2> QED BY <2>1 DEF OwnerHunters
<1>2. ks = IF found = {} THEN hs \union {new} ELSE (hs \ {old}) \union {own}
  BY <1>1 DEF BackfillOwner
<1>3. IsFiniteSet(hs) /\ n \in Nat
  BY FS_CardinalityType DEF HuntersAre, Fresh
<1> HIDE DEF ks, n, pin
<1>4. CASE found = {}
  <2>1. IsHunter(new) /\ new.guild = g /\ new.owner = TRUE /\ new.role = "master"
    BY <1>3 DEF IsHunter, Hunter
  <2> HIDE DEF new
  <2>2. ks = hs \union {new}
    BY <1>2, <1>4
  <2>3. IsFiniteSet(ks)
    BY <1>3, <2>2, FS_AddElement
  <2>4. HuntersAre(ks, gs)
    BY <2>1, <2>2, <2>3 DEF HuntersAre
  <2>5. OneOwner(ks, g)
    BY <2>1, <2>2 DEF OneOwner
  <2> QED BY <2>1, <2>2, <2>4, <2>5 DEF ks
<1>5. CASE found # {}
  <2>1. \E h \in found : \A k \in found : h.id <= k.id
    <3> DEFINE ids == {h.id : h \in found}
    <3>1. ids \in SUBSET Nat /\ ids # {}
      BY <1>5 DEF HuntersAre, IsHunter
    <3>2. PICK i \in ids : \A j \in ids : i <= j
      <4> HIDE DEF ids
      <4> QED BY <3>1, MinIsLeast
    <3> QED BY <3>2
  <2>2. old \in hs /\ old.guild = g /\ IsHunter(old)
    <3>1. old \in found
      BY <2>1
    <3> HIDE DEF old
    <3> QED BY <3>1 DEF HuntersAre
  <2> HIDE DEF old, found
  <2>3. own = Hunter(old.id, g, TRUE, "master", old.pin, old.hashed)
    <3>1. DOMAIN old = {"id", "guild", "owner", "role", "pin", "hashed"}
      BY <2>2 DEF IsHunter, Hunter
    <3>2. /\ DOMAIN own = {"id", "guild", "owner", "role", "pin", "hashed"}
          /\ own = [x \in DOMAIN own |-> own[x]]
      BY <3>1
    <3>3. own.id = old.id /\ own.guild = g /\ own.owner = TRUE /\ own.role = "master"
          /\ own.pin = old.pin /\ own.hashed = old.hashed
      BY <2>2, <3>1
    <3> HIDE DEF own
    <3> QED BY <3>2, <3>3 DEF Hunter
  <2> HIDE DEF own
  <2>4. IsHunter(own) /\ own.guild = g /\ own.owner = TRUE /\ own.role = "master"
    BY <2>2, <2>3 DEF IsHunter, Hunter
  <2>5. ks = (hs \ {old}) \union {own}
    BY <1>2, <1>5
  <2>6. IsFiniteSet(ks)
    <3>1. IsFiniteSet(hs \ {old})
      BY <1>3, FS_RemoveElement
    <3> QED BY <2>5, <3>1, FS_AddElement
  <2>7. HuntersAre(ks, gs)
    BY <2>4, <2>5, <2>6 DEF HuntersAre
  <2>8. OneOwner(ks, g)
    BY <2>4, <2>5 DEF OneOwner
  <2> QED BY <2>2, <2>4, <2>5, <2>7, <2>8 DEF ks
<1> QED BY <1>4, <1>5

\* Backfilling a finite set of guilds is backfilling them one by one, in some order.
LEMMA FoldBackfills ==
  ASSUME NEW gs, IsFiniteSet(gs), NEW hs
  PROVE  \E it : /\ it[{}] = hs
                 /\ \A S \in SUBSET gs : S # {} =>
                      \E x \in S : it[S] = BackfillOwner(it[S \ {x}], x)
                 /\ BackfillOwners(gs, hs) = it[gs]
<1> DEFINE first(S) == CHOOSE x \in S : TRUE
           Body(it, S) == IF S = {} THEN hs ELSE BackfillOwner(it[S \ {first(S)}], first(S))
           n == Cardinality(gs)
           Small(m) == {S \in SUBSET gs : Cardinality(S) <= m}
           K == {m \in 0 .. n : \E it : it = [S \in Small(m) |-> Body(it, S)]}
<1>0. n \in Nat
  BY FS_CardinalityType
<1>a. ASSUME NEW S \in SUBSET gs
      PROVE  /\ IsFiniteSet(S) /\ Cardinality(S) \in 0 .. n
             /\ Cardinality(S) = 0 <=> S = {}
             /\ S # {} => /\ first(S) \in S /\ S \ {first(S)} \in SUBSET gs
                          /\ Cardinality(S \ {first(S)}) = Cardinality(S) - 1
  <2>1. IsFiniteSet(S) /\ Cardinality(S) <= n /\ Cardinality(S) \in Nat
    BY FS_Subset, FS_CardinalityType
  <2>2. Cardinality(S) \in 0 .. n
    BY <1>0, <2>1
  <2>3. S # {} => first(S) \in S
    OBVIOUS
  <2> HIDE DEF first
  <2>4. S # {} => Cardinality(S \ {first(S)}) = Cardinality(S) - 1
    BY <2>1, <2>3, FS_RemoveElement
  <2> QED BY <2>1, <2>2, <2>3, <2>4, FS_EmptySet
<1> HIDE DEF first, n
<1>1. 0 \in K
  <2> DEFINE it == [S \in Small(0) |-> hs]
  <2>1. ASSUME NEW S \in Small(0) PROVE S = {}
    <3>1. S \in SUBSET gs /\ Cardinality(S) <= 0
      OBVIOUS
    <3>2. PICK c \in 0 .. n : c = Cardinality(S)
      BY <1>a, <3>1
    <3>3. c = 0
      BY <1>0, <3>1, <3>2
    <3> QED BY <1>a, <3>1, <3>2, <3>3
  <2> HIDE DEF Small
  <2>2. it = [S \in Small(0) |-> Body(it, S)]
    BY <2>1
  <2> HIDE DEF Body, it
  <2> QED BY <1>0, <2>2
<1>2. ASSUME NEW m \in 0 .. n - 1, m \in K PROVE m + 1 \in K
  <2>1. PICK it : it = [S \in Small(m) |-> Body(it, S)]
    BY <1>2
  <2> DEFINE more == [S \in Small(m + 1) |->
                        IF S \in Small(m) THEN it[S]
                        ELSE BackfillOwner(it[S \ {first(S)}], first(S))]
  <2>2. ASSUME NEW S \in Small(m + 1) PROVE more[S] = Body(more, S)
    <3>0. S \in SUBSET gs /\ Cardinality(S) <= m + 1
      OBVIOUS
    <3>1. PICK c \in 0 .. n : c = Cardinality(S)
      BY <1>a, <3>0
    <3>2. CASE S = {}
      <4>1. S \in Small(m)
        <5>1. Cardinality(S) = 0
          BY <1>a, <3>2
        <5> QED BY <1>0, <3>0, <5>1
      <4>2. it[S] = hs
        <5> HIDE DEF Small
        <5> QED BY <2>1, <3>2, <4>1
      <4> HIDE DEF Small
      <4> QED BY <3>2, <4>1, <4>2
    <3>3. CASE S # {}
      <4> DEFINE R == S \ {first(S)}
      <4>1. R \in SUBSET gs /\ Cardinality(R) = c - 1 /\ c # 0
        BY <1>a, <3>0, <3>1, <3>3
      <4>2. c - 1 <= m /\ c - 1 <= m + 1
        BY <1>0, <3>0, <3>1
      <4>3. R \in Small(m) /\ R \in Small(m + 1)
        BY <4>1, <4>2
      <4> HIDE DEF Small
      <4>4. more[R] = it[R]
        BY <4>3
      <4>5. S \in Small(m) => it[S] = BackfillOwner(it[R], first(S))
        BY <2>1, <3>3
      <4> HIDE DEF R
      <4>6. more[S] = BackfillOwner(it[R], first(S))
        BY <4>5 DEF R
      <4> QED BY <3>3, <4>4, <4>6 DEF R
    <3> QED BY <3>2, <3>3
  <2>3. more = [S \in Small(m + 1) |-> Body(more, S)]
    <3> HIDE DEF Body, Small
    <3> QED BY <2>2
  <2>4. m + 1 \in 0 .. n
    BY <1>0
  <2> HIDE DEF Body, more, Small
  <2> QED BY <2>3, <2>4
<1>3. n \in K
  <2> HIDE DEF K
  <2>1. \A i \in 0 .. n : i \in K
    BY <1>0, <1>1, <1>2, UpTo
  <2> QED BY <1>0, <2>1
<1> DEFINE it == CHOOSE it : it = [S \in SUBSET gs |-> Body(it, S)]
<1>4. it = [S \in SUBSET gs |-> Body(it, S)]
  <2>1. Small(n) = SUBSET gs
    <3>1. ASSUME NEW S \in SUBSET gs PROVE S \in Small(n)
      <4>1. PICK c \in 0 .. n : c = Cardinality(S)
        BY <1>a
      <4> QED BY <1>0, <4>1
    <3> QED BY <3>1
  <2> HIDE DEF Small
  <2>2. \E f : f = [S \in SUBSET gs |-> Body(f, S)]
    <3> HIDE DEF Body
    <3> QED BY <1>3, <2>1
  <2> HIDE DEF Body
  <2> QED BY <2>2
<1>5. BackfillOwners(gs, hs) = it[gs]
  BY DEF BackfillOwners, FoldSet, MapThenFoldSet, first
<1> HIDE DEF it
<1>6. it[{}] = hs
  BY <1>4
<1>7. ASSUME NEW S \in SUBSET gs, S # {}
      PROVE  \E x \in S : it[S] = BackfillOwner(it[S \ {x}], x)
  <2>1. first(S) \in S
    BY <1>a, <1>7
  <2>2. it[S] = BackfillOwner(it[S \ {first(S)}], first(S))
    BY <1>4, <1>7
  <2> QED BY <2>1, <2>2
<1> QED BY <1>5, <1>6, <1>7

\* When no guild has an owner's hunter, backfilling gives each of them one.
LEMMA BackfillsAll ==
  ASSUME NEW gs, IsFiniteSet(gs), NEW hs, HuntersAre(hs, gs), NoOwners(hs)
  PROVE  LET ks == BackfillOwners(gs, hs) IN HuntersAre(ks, gs) /\ OwnersAre(ks, gs)
<1> DEFINE n == Cardinality(gs)
<1>1. PICK it : /\ it[{}] = hs
                /\ \A S \in SUBSET gs : S # {} =>
                     \E x \in S : it[S] = BackfillOwner(it[S \ {x}], x)
                /\ BackfillOwners(gs, hs) = it[gs]
  BY FoldBackfills
<1>2. n \in Nat
  BY FS_CardinalityType
<1> DEFINE Filled(S) == /\ HuntersAre(it[S], gs) /\ OwnersAre(it[S], S)
                        /\ \A h \in it[S] : h.guild \notin S => ~h.owner
           T == {m \in 0 .. n : \A S \in SUBSET gs : Cardinality(S) = m => Filled(S)}
<1>3. 0 \in T
  <2>1. ASSUME NEW S \in SUBSET gs, Cardinality(S) = 0 PROVE Filled(S)
    <3>1. S = {}
      BY <2>1, FS_Subset, FS_EmptySet
    <3>2. it[S] = hs
      BY <1>1, <3>1
    <3> QED BY <3>1, <3>2 DEF OwnersAre, NoOwners
  <2> HIDE DEF Filled
  <2> QED BY <1>2, <2>1
<1>4. ASSUME NEW m \in 0 .. n - 1, m \in T PROVE m + 1 \in T
  <2>1. ASSUME NEW S \in SUBSET gs, Cardinality(S) = m + 1 PROVE Filled(S)
    <3>1. S # {} /\ IsFiniteSet(S)
      <4>1. IsFiniteSet(S) /\ ~(m + 1 = 0)
        BY <1>2, FS_Subset
      <4> QED BY <2>1, <4>1, FS_EmptySet
    <3>2. PICK g \in S : it[S] = BackfillOwner(it[S \ {g}], g)
      BY <1>1, <3>1
    <3> DEFINE R == S \ {g}
    <3>3. Cardinality(R) = m /\ R \in SUBSET gs
      <4>1. Cardinality(R) = Cardinality(S) - 1
        BY <3>1, FS_RemoveElement
      <4>2. (m + 1) - 1 = m
        BY <1>2
      <4> QED BY <2>1, <4>1, <4>2
    <3>4. Filled(R)
      <4> HIDE DEF Filled, R
      <4> QED BY <1>4, <3>3
    <3>5. g \in gs /\ \A h \in it[R] : h.guild = g => ~h.owner
      BY <3>4
    <3> DEFINE qs == it[R]
               ks == BackfillOwner(qs, g)
    <3>6. HuntersAre(qs, gs) /\ OwnersAre(qs, R) /\ \A h \in qs : h.guild \notin R => ~h.owner
      BY <3>4
    <3>7. \A h \in qs : h.guild = g => ~h.owner
      BY <3>5
    <3>8. it[S] = ks
      BY <3>2
    <3> HIDE DEF qs
    <3>9. /\ HuntersAre(ks, gs) /\ OneOwner(ks, g)
          /\ \A h : h.guild # g => (h \in ks <=> h \in qs)
      BY <3>5, <3>6, <3>7, BackfillsOne
    <3> HIDE DEF ks
    <3>10. ASSUME NEW f \in S PROVE OneOwner(ks, f)
      <4>1. CASE f = g
        BY <3>9, <4>1
      <4>2. CASE f # g
        <5>1. OneOwner(qs, f)
          BY <3>6, <4>2 DEF OwnersAre
        <5> QED BY <3>9, <4>2, <5>1 DEF OneOwner
      <4> QED BY <4>1, <4>2
    <3>11. ASSUME NEW h \in ks, h.guild \notin S PROVE ~h.owner
      <4>1. h.guild # g /\ h.guild \notin R
        BY <3>11
      <4> QED BY <3>6, <3>9, <4>1
    <3> QED BY <3>8, <3>9, <3>10, <3>11 DEF OwnersAre
  <2>2. m + 1 \in 0 .. n
    BY <1>2
  <2> HIDE DEF Filled
  <2> QED BY <2>1, <2>2
<1>5. n \in T
  <2> HIDE DEF T
  <2>1. \A i \in 0 .. n : i \in T
    <3> HIDE DEF n
    <3> QED BY <1>2, <1>3, <1>4, UpTo
  <2> QED BY <1>2, <2>1
<1>6. Filled(gs)
  BY <1>5
<1> QED BY <1>1, <1>6

\* A rewrite writes the hunters only.
LEMMA RewriteRows ==
  ASSUME NEW d, IsDatabase(d), ~d.failed, NEW s, s.do = "rewrite"
  PROVE  LET e == Run(d, s)
         IN  /\ e.catalogue = d.catalogue /\ e.guilds = d.guilds
             /\ e.hunters = Rewritten(d.guilds, d.hunters, s.what)
<1> DEFINE hs == Rewritten(d.guilds, d.hunters, s.what)
           e == [d EXCEPT !.hunters = hs]
<1>1. Run(d, s) = e
  BY DEF Run
<1> HIDE DEF hs
<1>2. IsDatabase(e) /\ e.hunters = hs /\ e.catalogue = d.catalogue /\ e.guilds = d.guilds
  BY HuntersFields
<1> HIDE DEF e
<1> QED BY <1>1, <1>2 DEF hs

-------------------------------------------------------------------------------
(* What a script does to the rows.                                         *)

\* A script that does not fail fails at none of its statements.
LEMMA ScriptRuns ==
  ASSUME NEW d, IsDatabase(d), NEW ss, IsScript(ss), ~RunAll(d, ss).failed
  PROVE  \E r : /\ r[0] = d
                /\ \A i \in 1 .. Len(ss) : r[i] = Run(r[i - 1], ss[i])
                /\ RunAll(d, ss) = r[Len(ss)]
                /\ \A i \in 0 .. Len(ss) : IsDatabase(r[i]) /\ ~r[i].failed
<1> DEFINE n == Len(ss)
<1>1. n \in Nat /\ DOMAIN ss = 1 .. n /\ \A i \in 1 .. n : ss[i].do \in Kinds
  BY DEF IsScript
<1> HIDE DEF n
<1>2. PICK r : /\ r[0] = d
               /\ \A i \in 1 .. n : r[i] = Run(r[i - 1], ss[i])
               /\ RunAll(d, ss) = r[n]
  BY <1>1, FoldRuns
<1> DEFINE S == {i \in 0 .. n : IsDatabase(r[i])}
           T == {i \in 0 .. n : ~r[n - i].failed}
<1>3. \A i \in 0 .. n : IsDatabase(r[i])
  <2>1. 0 \in S
    BY <1>1, <1>2
  <2>2. ASSUME NEW i \in 0 .. n - 1, i \in S PROVE i + 1 \in S
    <3>1. i + 1 \in 1 .. n /\ i + 1 \in 0 .. n /\ (i + 1) - 1 = i
      BY <1>1
    <3> DEFINE x == r[i]
               t == ss[i + 1]
    <3>2. r[i + 1] = Run(x, t) /\ IsDatabase(x) /\ Alike(x, x) /\ t.do \in Kinds
      BY <1>1, <1>2, <2>2, <3>1 DEF Alike
    <3> HIDE DEF x, t
    <3>3. IsDatabase(Run(x, t))
      BY <3>2, RunAlike
    <3> QED BY <3>1, <3>2, <3>3
  <2>3. \A i \in 0 .. n : i \in S
    <3> HIDE DEF S
    <3> QED BY <1>1, <2>1, <2>2, UpTo
  <2> QED BY <2>3
<1>4. \A i \in 0 .. n : i \in T
  <2>1. 0 \in T
    <3>1. 0 \in 0 .. n /\ n - 0 = n
      BY <1>1
    <3> QED BY <1>2, <3>1 DEF n
  <2>2. ASSUME NEW i \in 0 .. n - 1, i \in T PROVE i + 1 \in T
    <3>1. PICK j \in 1 .. n : j = n - i
      BY <1>1
    <3>2. i + 1 \in 0 .. n /\ n - (i + 1) = j - 1 /\ j - 1 \in 0 .. n
      BY <1>1, <3>1
    <3> DEFINE x == r[j - 1]
               t == ss[j]
    <3>3. r[j] = Run(x, t) /\ IsDatabase(x) /\ Alike(x, x) /\ t.do \in Kinds /\ ~r[j].failed
      BY <1>1, <1>2, <1>3, <2>2, <3>1, <3>2 DEF Alike
    <3> HIDE DEF x, t
    <3>4. ~x.failed
      BY <3>3, RunAlike
    <3> QED BY <3>2, <3>4 DEF x
  <2> HIDE DEF T
  <2> QED BY <1>1, <2>1, <2>2, UpTo
<1>5. ASSUME NEW i \in 0 .. n PROVE ~r[i].failed
  <2>1. n - i \in 0 .. n /\ n - (n - i) = i
    BY <1>1
  <2> QED BY <1>4, <2>1
<1> QED BY <1>2, <1>3, <1>5 DEF n

\* Statements that create and alter leave the rows.
LEMMA CreatesKeepRows ==
  ASSUME NEW d, IsDatabase(d), NEW ss, IsScript(ss), ~RunAll(d, ss).failed,
         \A i \in DOMAIN ss : ss[i].do \in {"create", "alter"}
  PROVE  RunAll(d, ss).guilds = d.guilds /\ RunAll(d, ss).hunters = d.hunters
<1> DEFINE n == Len(ss)
<1>1. n \in Nat /\ DOMAIN ss = 1 .. n
  BY DEF IsScript
<1>2. PICK r : /\ r[0] = d
               /\ \A i \in 1 .. n : r[i] = Run(r[i - 1], ss[i])
               /\ RunAll(d, ss) = r[n]
               /\ \A i \in 0 .. n : IsDatabase(r[i]) /\ ~r[i].failed
  BY ScriptRuns
<1> HIDE DEF n
<1> DEFINE S == {i \in 0 .. n : r[i].guilds = d.guilds /\ r[i].hunters = d.hunters}
<1>3. 0 \in S
  BY <1>1, <1>2
<1>4. ASSUME NEW i \in 0 .. n - 1, i \in S PROVE i + 1 \in S
  <2>1. i + 1 \in 1 .. n /\ i + 1 \in 0 .. n /\ (i + 1) - 1 = i /\ i \in 0 .. n
    BY <1>1
  <2> DEFINE x == r[i]
             t == ss[i + 1]
  <2>2. r[i + 1] = Run(x, t) /\ IsDatabase(x) /\ t.do \in {"create", "alter"}
    BY <1>1, <1>2, <2>1
  <2>3. x.guilds = d.guilds /\ x.hunters = d.hunters
    BY <1>4
  <2> HIDE DEF x, t
  <2>4. Run(x, t).guilds = d.guilds /\ Run(x, t).hunters = d.hunters
    BY <2>2, <2>3, CreateKeepsRows
  <2> QED BY <2>1, <2>2, <2>4
<1>5. \A i \in 0 .. n : i \in S
  <2> HIDE DEF S
  <2> QED BY <1>1, <1>3, <1>4, UpTo
<1> QED BY <1>1, <1>2, <1>5

\* A script that may drop what it likes but the guilds leaves rows of the same guilds.
LEMMA DropsLeaveRows ==
  ASSUME NEW d, IsDatabase(d), NEW ss, IsScript(ss), ~RunAll(d, ss).failed,
         \A i \in DOMAIN ss : /\ ss[i].do # "rewrite"
                              /\ ss[i].do = "drop" => ss[i].name # "guilds",
         "guilds" \in Tables(d), HuntersAre(d.hunters, d.guilds)
  PROVE  \E r : /\ r[0] = d
                /\ \A i \in 1 .. Len(ss) : r[i] = Run(r[i - 1], ss[i])
                /\ RunAll(d, ss) = r[Len(ss)]
                /\ \A i \in 0 .. Len(ss) :
                     /\ IsDatabase(r[i]) /\ ~r[i].failed
                     /\ r[i].guilds = d.guilds /\ HuntersAre(r[i].hunters, d.guilds)
                     /\ NoOwners(d.hunters) => NoOwners(r[i].hunters)
<1> DEFINE n == Len(ss)
<1>1. n \in Nat /\ DOMAIN ss = 1 .. n /\ \A i \in 1 .. n : ss[i].do \in Kinds
  BY DEF IsScript
<1>2. PICK r : /\ r[0] = d
               /\ \A i \in 1 .. n : r[i] = Run(r[i - 1], ss[i])
               /\ RunAll(d, ss) = r[n]
               /\ \A i \in 0 .. n : IsDatabase(r[i]) /\ ~r[i].failed
  <2>1. IsDatabase(d) /\ IsScript(ss) /\ ~RunAll(d, ss).failed
    OBVIOUS
  <2> QED BY ONLY <2>1, ScriptRuns
<1> HIDE DEF n
<1> DEFINE S == {i \in 0 .. n : /\ "guilds" \in Tables(r[i])
                                /\ r[i].guilds = d.guilds /\ HuntersAre(r[i].hunters, d.guilds)
                                /\ NoOwners(d.hunters) => NoOwners(r[i].hunters)}
<1>3. 0 \in S
  BY <1>1, <1>2
<1>4. ASSUME NEW i \in 0 .. n - 1, i \in S PROVE i + 1 \in S
  <2>1. i + 1 \in 1 .. n /\ i + 1 \in 0 .. n /\ (i + 1) - 1 = i /\ i \in 0 .. n
    BY <1>1
  <2> DEFINE x == r[i]
             t == ss[i + 1]
             y == Run(x, t)
  <2>2. r[i + 1] = y /\ IsDatabase(x) /\ t.do \in Kinds \ {"rewrite"}
        /\ (t.do = "drop" => t.name # "guilds")
    BY <1>1, <1>2, <2>1
  <2>3. /\ "guilds" \in Tables(x)
        /\ x.guilds = d.guilds /\ HuntersAre(x.hunters, d.guilds)
        /\ NoOwners(d.hunters) => NoOwners(x.hunters)
    BY <1>4
  <2> HIDE DEF x, t
  <2>4. /\ "guilds" \in Tables(y)
        /\ y.guilds = d.guilds /\ HuntersAre(y.hunters, d.guilds)
        /\ NoOwners(d.hunters) => NoOwners(y.hunters)
    <3>1. CASE t.do \in {"create", "alter"}
      <4>1. y.guilds = x.guilds /\ y.hunters = x.hunters /\ Tables(x) \subseteq Tables(y)
        BY <2>2, <3>1, CreateKeepsRows
      <4> HIDE DEF y
      <4> QED BY <2>3, <4>1
    <3>2. CASE t.do \in Drops
      <4>1. HuntersAre(x.hunters, x.guilds)
        BY <2>3
      <4>2. /\ "guilds" \in Tables(y) /\ y.guilds = x.guilds
            /\ HuntersAre(y.hunters, y.guilds)
            /\ NoOwners(x.hunters) => NoOwners(y.hunters)
        BY <2>2, <2>3, <3>2, <4>1, DropRows
      <4> HIDE DEF y
      <4> QED BY <2>3, <4>2
    <3> QED BY <2>2, <3>1, <3>2 DEF Kinds, Drops
  <2> HIDE DEF y
  <2> QED BY <2>1, <2>2, <2>4
<1>5. \A i \in 0 .. n : i \in S
  <2> HIDE DEF S
  <2> QED BY <1>1, <1>3, <1>4, UpTo
<1> QED BY <1>2, <1>5 DEF n

\* What is true of the rows of a schema that has owners, and of PINs once they are hashed
OwnedRows(d, gs) ==
  /\ KeepsOwners(d) /\ d.guilds = gs
  /\ HuntersAre(d.hunters, gs) /\ OwnersAre(d.hunters, gs)

\* A script that keeps roles and owners keeps one owner per guild, and hashed PINs.
LEMMA KeepsOwnedRows ==
  ASSUME NEW d, IsDatabase(d), NEW ss, IsScript(ss), ~RunAll(d, ss).failed,
         \A i \in DOMAIN ss : Keeps(ss[i]), NEW gs, OwnedRows(d, gs)
  PROVE  LET e == RunAll(d, ss)
         IN  OwnedRows(e, gs) /\ (Hashed(d.hunters) => Hashed(e.hunters))
<1> DEFINE n == Len(ss)
<1>1. n \in Nat /\ DOMAIN ss = 1 .. n /\ \A i \in 1 .. n : ss[i].do \in Kinds
  BY DEF IsScript
<1>2. PICK r : /\ r[0] = d
               /\ \A i \in 1 .. n : r[i] = Run(r[i - 1], ss[i])
               /\ RunAll(d, ss) = r[n]
               /\ \A i \in 0 .. n : IsDatabase(r[i]) /\ ~r[i].failed
  BY ScriptRuns
<1> HIDE DEF n
<1> DEFINE S == {i \in 0 .. n : OwnedRows(r[i], gs) /\ (Hashed(d.hunters) => Hashed(r[i].hunters))}
<1>3. 0 \in S
  BY <1>1, <1>2
<1>4. ASSUME NEW i \in 0 .. n - 1, i \in S PROVE i + 1 \in S
  <2>1. i + 1 \in 1 .. n /\ i + 1 \in 0 .. n /\ (i + 1) - 1 = i /\ i \in 0 .. n
    BY <1>1
  <2> DEFINE x == r[i]
             t == ss[i + 1]
             y == Run(x, t)
  <2>2. r[i + 1] = y /\ IsDatabase(x) /\ ~x.failed /\ t.do \in Kinds /\ Keeps(t)
    BY <1>1, <1>2, <2>1
  <2>3. OwnedRows(x, gs) /\ (Hashed(d.hunters) => Hashed(x.hunters))
    BY <1>4
  <2> HIDE DEF x, t
  <2>4. KeepsOwners(x) /\ x.guilds = gs /\ HuntersAre(x.hunters, gs) /\ OwnersAre(x.hunters, gs)
    BY <2>3 DEF OwnedRows
  <2>5. OwnedRows(y, gs) /\ (Hashed(d.hunters) => Hashed(y.hunters))
    <3>1. CASE t.do \in {"create", "alter"}
      <4>1. y.guilds = x.guilds /\ y.hunters = x.hunters /\ KeepsOwners(y)
        BY <2>2, <2>4, <3>1, CreateKeepsRows
      <4> HIDE DEF y
      <4> QED BY <2>3, <2>4, <4>1 DEF OwnedRows
    <3>2. CASE t.do \in Drops
      <4>1. HuntersAre(x.hunters, x.guilds)
        BY <2>4
      <4>2. y.guilds = x.guilds /\ y.hunters = x.hunters /\ KeepsOwners(y)
        BY <2>2, <2>4, <3>2, <4>1, DropKeeps
      <4> HIDE DEF y
      <4> QED BY <2>3, <2>4, <4>2 DEF OwnedRows
    <3>3. CASE t.do = "rewrite"
      <4>1. t.what = "hashed"
        BY <2>2, <3>3 DEF Keeps
      <4>2. /\ y.catalogue = x.catalogue /\ y.guilds = x.guilds
            /\ y.hunters = Rewritten(x.guilds, x.hunters, t.what)
        BY <2>2, <3>3, RewriteRows
      <4>3. y.hunters = HashPins(x.hunters)
        BY <4>1, <4>2 DEF Rewritten
      <4>4. /\ HuntersAre(HashPins(x.hunters), gs) /\ Hashed(HashPins(x.hunters))
            /\ OwnersAre(HashPins(x.hunters), gs)
        BY <2>4, HashPinsRows
      <4> HIDE DEF y
      <4> QED BY <2>4, <4>2, <4>3, <4>4 DEF OwnedRows, KeepsOwners, Tables
    <3> QED BY <2>2, <3>1, <3>2, <3>3 DEF Kinds, Drops
  <2> HIDE DEF y
  <2> QED BY <2>1, <2>2, <2>5
<1>5. \A i \in 0 .. n : i \in S
  <2> HIDE DEF S
  <2> QED BY <1>1, <1>3, <1>4, UpTo
<1> QED BY <1>1, <1>2, <1>5

-------------------------------------------------------------------------------
(* What a migration does to the rows.                                      *)

\* The migration that brings the roles writes the members' first and the owners' last.
LEMMA FifthUp ==
  LET ss == Migrations[5].up
  IN  /\ Len(ss) = 7
      /\ \A i \in {1, 2, 4, 5, 6} : ss[i].do = "alter"
      /\ ss[3].do = "rewrite" /\ ss[3].what = "members"
      /\ ss[7].do = "rewrite" /\ ss[7].what = "owners"
<1>1. Migrations[5] = Migration(OwnerRoleUp, OwnerRoleDown)
  BY DEF Migrations
<1>2. Migrations[5].up = OwnerRoleUp
  BY <1>1 DEF Migration
<1> DEFINE a1 == AddColumns("hunters", {"user_id"}, {})
           a2 == AddColumns("hunters", {"guild_role"}, {})
           a3 == Rewrite("members")
           a4 == CreateIndex("idx_hunters_user_id_unique", "hunters", {"user_id"})
           a5 == CreateIndex("idx_hunters_guild_role", "hunters", {"guild_id", "guild_role"})
           a6 == AddReference("hunters", "user_id", "users")
           a7 == Rewrite("owners")
<1>3. OwnerRoleUp = <<a1, a2, a3, a4, a5, a6>> \o <<a7>>
  BY DEF OwnerRoleUp, OwnerRoleUpThen
<1>4. /\ \A a \in {a1, a2, a4, a5, a6} : a.do = "alter"
      /\ a3.do = "rewrite" /\ a3.what = "members" /\ a7.do = "rewrite" /\ a7.what = "owners"
  BY DEF AddColumns, CreateIndex, AddReference, Alter, Rewrite
<1> HIDE DEF a1, a2, a3, a4, a5, a6, a7
<1> DEFINE A == {a1, a2, a3, a4, a5, a6, a7}
           s == <<a1, a2, a3, a4, a5, a6>>
           t == <<a7>>
<1>5. /\ s \in Seq(A) /\ Len(s) = 6 /\ s[1] = a1 /\ s[2] = a2 /\ s[3] = a3
      /\ s[4] = a4 /\ s[5] = a5 /\ s[6] = a6
      /\ t \in Seq(A) /\ Len(t) = 1 /\ t[1] = a7
  OBVIOUS
<1>6. Len(OwnerRoleUp) = 7 /\ OwnerRoleUp[1] = a1 /\ OwnerRoleUp[2] = a2
      /\ OwnerRoleUp[3] = a3 /\ OwnerRoleUp[4] = a4 /\ OwnerRoleUp[5] = a5
      /\ OwnerRoleUp[6] = a6 /\ OwnerRoleUp[7] = a7
  <2> DEFINE u == s \o t
  <2>1. OwnerRoleUp = u
    BY <1>3
  <2> HIDE DEF A, s, t
  <2>2. /\ Len(u) = Len(s) + Len(t)
        /\ \A i \in 1 .. Len(s) + Len(t) : u[i] = IF i <= Len(s) THEN s[i] ELSE t[i - Len(s)]
    BY <1>5, ConcatProperties
  <2> HIDE DEF u
  <2>3. /\ Len(u) = 7 /\ u[1] = s[1] /\ u[2] = s[2] /\ u[3] = s[3] /\ u[4] = s[4]
        /\ u[5] = s[5] /\ u[6] = s[6] /\ u[7] = t[1]
    <3>1. Len(s) = 6 /\ Len(t) = 1
      BY <1>5
    <3>2. Len(u) = 7 /\ \A i \in 1 .. 7 : u[i] = IF i <= 6 THEN s[i] ELSE t[i - 6]
      BY <2>2, <3>1
    <3> QED BY <3>2
  <2> QED BY <1>5, <2>1, <2>3
<1> QED BY <1>2, <1>4, <1>6

\* The migration that hashes the PINs does nothing else.
LEMMA EighthUp ==
  LET ss == Migrations[8].up
  IN  Len(ss) = 1 /\ ss[1].do = "rewrite" /\ ss[1].what = "hashed"
<1>1. Migrations[8] = Migration(HashPinsUp, HashPinsDown)
  BY DEF Migrations
<1>2. Migrations[8].up = <<Rewrite("hashed")>>
  BY <1>1 DEF Migration, HashPinsUp
<1> QED BY <1>2 DEF Rewrite

\* Undone first to last: the roles' columns, the owners' last ...
LEMMA FifthDown ==
  LET ss == Migrations[5].down
  IN  Len(ss) = 5 /\ ss[5] = DropColumn("hunters", "user_id")
<1>1. Migrations[5] = Migration(OwnerRoleUp, OwnerRoleDown)
  BY DEF Migrations
<1>2. Migrations[5].down = OwnerRoleDown
  BY <1>1 DEF Migration
<1> QED BY <1>2 DEF OwnerRoleDown

\* ... the tables of guilds and hunters, the hunters' first ...
LEMMA SecondDown ==
  LET ss == Migrations[2].down
  IN  /\ Len(ss) = 4 /\ ss[2] = DropTable("hunters")
      /\ \A i \in {1, 3, 4} : ss[i].do = "drop"
<1>1. Migrations[2] = Migration(UsersAndGuildsUp \o HuntersAndQuestsUp, GuildAuthDown)
  BY DEF Migrations
<1>2. Migrations[2].down = GuildAuthDown
  BY <1>1 DEF Migration
<1> QED BY <1>2 DEF GuildAuthDown, DropTable

\* ... and nothing.
LEMMA FirstDown == Len(Migrations[1].down) = 0
<1>1. Migrations[1] = Migration(CoreTablesUp, CoreTablesDown)
  BY DEF Migrations
<1> QED BY <1>1 DEF Migration, CoreTablesDown

\* What is true of the rows when the first k migrations are applied
Rows(d, k) ==
  /\ IsFiniteSet(d.guilds) /\ HuntersAre(d.hunters, d.guilds)
  /\ k < 5 => NoOwners(d.hunters)
  /\ k >= 5 => OwnersAre(d.hunters, d.guilds)
  /\ k >= 8 => Hashed(d.hunters)

\* The rows of a migration are those of its script.
LEMMA UpRuns ==
  ASSUME NEW d, IsDatabase(d), NEW m \in Versions, m \notin d.applied
  PROVE  LET f == RunAll(d, Migrations[m].up)
             e == ApplyUp(d, m)
         IN  /\ IsScript(Migrations[m].up) /\ IsDatabase(f)
             /\ e.guilds = f.guilds /\ e.hunters = f.hunters /\ e.failed = f.failed
<1> DEFINE ss == Migrations[m].up
           f == RunAll(d, ss)
           x == f.applied \union {m}
           e == [f EXCEPT !.applied = x]
<1>1. IsScript(ss)
  BY MigrationsAre
<1>2. IsDatabase(f)
  <2>1. Alike(d, d)
    BY DEF Alike
  <2> QED BY <1>1, <2>1, ScriptAlike
<1>3. ApplyUp(d, m) = e
  BY DEF ApplyUp
<1> HIDE DEF f, x
<1>4. e.guilds = f.guilds /\ e.hunters = f.hunters /\ e.failed = f.failed
  BY <1>2, AppliedFields
<1> QED BY <1>1, <1>2, <1>3, <1>4 DEF f

\* So are those of a migration that is undone.
LEMMA DownRuns ==
  ASSUME NEW d, IsDatabase(d), NEW m \in Versions
  PROVE  LET f == RunAll(d, Migrations[m].down)
             e == ApplyDown(d, m)
         IN  /\ IsScript(Migrations[m].down) /\ IsDatabase(f)
             /\ e.guilds = f.guilds /\ e.hunters = f.hunters /\ e.failed = f.failed
<1> DEFINE ss == Migrations[m].down
           f == RunAll(d, ss)
           x == f.applied \ {m}
           e == [f EXCEPT !.applied = x]
<1>1. IsScript(ss)
  BY MigrationsAre
<1>2. IsDatabase(f)
  <2>1. Alike(d, d)
    BY DEF Alike
  <2> QED BY <1>1, <2>1, ScriptAlike
<1>3. ApplyDown(d, m) = e
  BY DEF ApplyDown
<1> HIDE DEF f, x
<1>4. e.guilds = f.guilds /\ e.hunters = f.hunters /\ e.failed = f.failed
  BY <1>2, AppliedFields
<1> QED BY <1>1, <1>2, <1>3, <1>4 DEF f

\* Guilds have a table from version 2 on, owners and roles have columns from version 5 on.
LEMMA TablesAre ==
  ASSUME NEW k \in 0 .. N, NEW d, Explained(d, k)
  PROVE  /\ k >= 2 => "guilds" \in Tables(d)
         /\ k >= 5 => KeepsOwners(d)
         /\ k < 5 => ~Serves(d, HunterEntity)
<1> DEFINE e == SchemaAt[k]
<1>0. k \in {0} \union Versions /\ k \in Nat
  BY MigrationsAre
<1>1. /\ k >= 2 => "guilds" \in Tables(e)
      /\ IF k >= 5 THEN KeepsOwners(e) ELSE ~Serves(e, HunterEntity)
  BY <1>0, MigrationsAssumption
<1>2. d.catalogue = e.catalogue
  BY DEF Explained
<1> HIDE DEF e
<1>3. k < 5 <=> ~(k >= 5)
  BY <1>0
<1> QED BY <1>1, <1>2, <1>3 DEF Tables, KeepsOwners, Serves

\* Bringing the roles gives every guild one owner's hunter.
LEMMA FifthUpRows ==
  ASSUME NEW d, IsDatabase(d), IsScript(Migrations[5].up), ~RunAll(d, Migrations[5].up).failed,
         IsFiniteSet(d.guilds), HuntersAre(d.hunters, d.guilds), NoOwners(d.hunters)
  PROVE  LET f == RunAll(d, Migrations[5].up)
         IN  /\ f.guilds = d.guilds /\ HuntersAre(f.hunters, d.guilds)
             /\ OwnersAre(f.hunters, d.guilds)
<1> DEFINE ss == Migrations[5].up
<1>1. PICK r : /\ r[0] = d
               /\ \A i \in 1 .. Len(ss) : r[i] = Run(r[i - 1], ss[i])
               /\ RunAll(d, ss) = r[Len(ss)]
               /\ \A i \in 0 .. Len(ss) : IsDatabase(r[i]) /\ ~r[i].failed
  <2>1. IsDatabase(d) /\ IsScript(ss) /\ ~RunAll(d, ss).failed
    OBVIOUS
  <2> HIDE DEF ss
  <2> QED BY ONLY <2>1, ScriptRuns
<1>2. /\ Len(ss) = 7
      /\ \A i \in {1, 2, 4, 5, 6} : ss[i].do = "alter"
      /\ ss[3].do = "rewrite" /\ ss[3].what = "members"
      /\ ss[7].do = "rewrite" /\ ss[7].what = "owners"
  BY FifthUp
<1> HIDE DEF ss
<1>3. ASSUME NEW i \in {1, 2, 4, 5, 6}
      PROVE  r[i].guilds = r[i - 1].guilds /\ r[i].hunters = r[i - 1].hunters
  <2> DEFINE x == r[i - 1]
             t == ss[i]
  <2>1. r[i] = Run(x, t) /\ IsDatabase(x) /\ t.do \in {"create", "alter"}
    BY <1>1, <1>2
  <2> HIDE DEF x, t
  <2>2. r[i].guilds = x.guilds /\ r[i].hunters = x.hunters
    BY <2>1, CreateKeepsRows
  <2> QED BY <2>2 DEF x
<1>4. r[1].guilds = d.guilds /\ r[1].hunters = d.hunters
  BY <1>1, <1>3
<1>5. r[2].guilds = d.guilds /\ r[2].hunters = d.hunters
  BY <1>3, <1>4
<1>6. r[3].guilds = d.guilds /\ r[3].hunters = Members(d.hunters)
  <2> DEFINE x == r[2]
             t == ss[3]
  <2>1. r[3] = Run(x, t) /\ IsDatabase(x) /\ ~x.failed /\ t.do = "rewrite" /\ t.what = "members"
    BY <1>1, <1>2
  <2> HIDE DEF x, t
  <2>2. r[3].guilds = x.guilds /\ r[3].hunters = Rewritten(x.guilds, x.hunters, t.what)
    BY <2>1, RewriteRows
  <2>3. r[3].guilds = x.guilds /\ r[3].hunters = Members(x.hunters)
    BY <2>1, <2>2 DEF Rewritten
  <2> QED BY <1>5, <2>3 DEF x
<1>7. r[4].guilds = d.guilds /\ r[4].hunters = Members(d.hunters)
  BY <1>3, <1>6
<1>8. r[5].guilds = d.guilds /\ r[5].hunters = Members(d.hunters)
  BY <1>3, <1>7
<1>9. r[6].guilds = d.guilds /\ r[6].hunters = Members(d.hunters)
  BY <1>3, <1>8
<1>10. r[7].guilds = d.guilds /\ r[7].hunters = BackfillOwners(d.guilds, Members(d.hunters))
  <2> DEFINE x == r[6]
             t == ss[7]
  <2>1. r[7] = Run(x, t) /\ IsDatabase(x) /\ ~x.failed /\ t.do = "rewrite" /\ t.what = "owners"
    BY <1>1, <1>2
  <2> HIDE DEF x, t
  <2>2. r[7].guilds = x.guilds /\ r[7].hunters = Rewritten(x.guilds, x.hunters, t.what)
    BY <2>1, RewriteRows
  <2>3. r[7].guilds = x.guilds /\ r[7].hunters = BackfillOwners(x.guilds, x.hunters)
    BY <2>1, <2>2 DEF Rewritten
  <2> QED BY <1>9, <2>3 DEF x
<1> DEFINE ms == Members(d.hunters)
           ks == BackfillOwners(d.guilds, ms)
<1>11. HuntersAre(ms, d.guilds) /\ NoOwners(ms)
  BY MembersRows
<1> HIDE DEF ms
<1>12. HuntersAre(ks, d.guilds) /\ OwnersAre(ks, d.guilds)
  BY <1>11, BackfillsAll
<1> QED BY <1>1, <1>2, <1>10, <1>12 DEF ms, ss

\* Applying a migration keeps what is true of the rows.
LEMMA UpRows ==
  ASSUME NEW k \in 0 .. N - 1, NEW d, Explained(d, k), Rows(d, k)
  PROVE  Rows(ApplyUp(d, k + 1), k + 1)
<1> DEFINE m == k + 1
           ss == Migrations[m].up
           f == RunAll(d, ss)
           e == ApplyUp(d, m)
<1>0. N = 21 /\ Versions = 1 .. N /\ k \in 0 .. N /\ m \in 1 .. N /\ k \in Nat
  BY MigrationsAre
<1>1. IsDatabase(d) /\ m \in Versions /\ m \notin d.applied
  BY <1>0 DEF Explained
<1>2. ~e.failed
  BY UpOne DEF Explained
<1>3. /\ IsScript(ss) /\ IsDatabase(f) /\ ~f.failed
      /\ e.guilds = f.guilds /\ e.hunters = f.hunters
  <2> HIDE DEF m
  <2> QED BY <1>1, <1>2, UpRuns
<1>4. IsFiniteSet(d.guilds) /\ HuntersAre(d.hunters, d.guilds)
  BY DEF Rows
<1> HIDE DEF e
<1>5. CASE k < 4
  <2>1. m < 5 /\ ~(m >= 5) /\ ~(m >= 8) /\ NoOwners(d.hunters)
    BY <1>0, <1>5 DEF Rows
  <2>2. \A i \in DOMAIN ss : ss[i].do \in {"create", "alter"}
    BY <1>1, <2>1, ScriptsAre
  <2>3. f.guilds = d.guilds /\ f.hunters = d.hunters
    BY <1>1, <1>3, <2>2, CreatesKeepRows
  <2> HIDE DEF f, m
  <2>4. Rows(e, m)
    BY <1>3, <1>4, <2>1, <2>3 DEF Rows
  <2> QED BY <2>4 DEF e, m
<1>6. CASE k = 4
  <2>1. m = 5 /\ ss = Migrations[5].up /\ NoOwners(d.hunters)
    BY <1>6 DEF Rows
  <2>2. f.guilds = d.guilds /\ HuntersAre(f.hunters, d.guilds) /\ OwnersAre(f.hunters, d.guilds)
    BY <1>1, <1>3, <1>4, <2>1, FifthUpRows
  <2> HIDE DEF f, m
  <2>3. Rows(e, m)
    BY <1>3, <1>4, <2>1, <2>2 DEF Rows
  <2> QED BY <2>3 DEF e, m
<1>7. CASE k > 4
  <2>1. k >= 5 /\ m > 5 /\ ~(m < 5) /\ (m >= 8 => k >= 8 \/ m = 8)
    BY <1>0, <1>7
  <2> DEFINE gs == d.guilds
  <2>2. OwnedRows(d, gs)
    BY <1>0, <1>4, <2>1, TablesAre DEF OwnedRows, Rows
  <2>3. \A i \in DOMAIN ss : Keeps(ss[i])
    BY <1>1, <2>1, ScriptsAre
  <2>4. OwnedRows(f, gs) /\ (Hashed(d.hunters) => Hashed(f.hunters))
    <3> HIDE DEF gs, ss
    <3> QED BY <1>1, <1>3, <2>2, <2>3, KeepsOwnedRows
  <2>5. m >= 8 => Hashed(f.hunters)
    <3>1. CASE k >= 8
      BY <2>4, <3>1 DEF Rows
    <3>2. CASE m = 8
      <4>1. PICK r : /\ r[0] = d
                     /\ \A i \in 1 .. Len(ss) : r[i] = Run(r[i - 1], ss[i])
                     /\ RunAll(d, ss) = r[Len(ss)]
                     /\ \A i \in 0 .. Len(ss) : IsDatabase(r[i]) /\ ~r[i].failed
        <5>1. IsDatabase(d) /\ IsScript(ss) /\ ~RunAll(d, ss).failed
          BY <1>1, <1>3
        <5> HIDE DEF ss
        <5> QED BY ONLY <5>1, ScriptRuns
      <4>2. Len(ss) = 1 /\ ss[1].do = "rewrite" /\ ss[1].what = "hashed"
        BY <3>2, EighthUp
      <4> DEFINE t == ss[1]
      <4>3. f = Run(d, t) /\ ~d.failed
        BY <4>1, <4>2 DEF Explained
      <4>4. t.do = "rewrite" /\ t.what = "hashed"
        BY <4>2
      <4> HIDE DEF t, f
      <4>5. f.hunters = Rewritten(d.guilds, d.hunters, t.what)
        BY <1>1, <4>3, <4>4, RewriteRows
      <4>6. f.hunters = HashPins(d.hunters)
        BY <4>4, <4>5 DEF Rewritten
      <4> QED BY <1>4, <4>6, HashPinsRows
    <3> QED BY <2>1, <3>1, <3>2
  <2> HIDE DEF f, m
  <2>6. Rows(e, m)
    BY <1>3, <1>4, <2>1, <2>4, <2>5 DEF Rows, OwnedRows
  <2> QED BY <2>6 DEF e, m
<1> QED BY <1>0, <1>5, <1>6, <1>7

\* Undoing the roles leaves no owners.
LEMMA FifthDownRows ==
  ASSUME NEW d, IsDatabase(d), IsScript(Migrations[5].down), ~RunAll(d, Migrations[5].down).failed,
         \A i \in DOMAIN Migrations[5].down :
           /\ Migrations[5].down[i].do # "rewrite"
           /\ Migrations[5].down[i].do = "drop" => Migrations[5].down[i].name # "guilds",
         "guilds" \in Tables(d), HuntersAre(d.hunters, d.guilds)
  PROVE  LET f == RunAll(d, Migrations[5].down)
         IN  f.guilds = d.guilds /\ HuntersAre(f.hunters, d.guilds) /\ NoOwners(f.hunters)
<1> DEFINE ss == Migrations[5].down
<1>1. PICK r : /\ r[0] = d
               /\ \A i \in 1 .. Len(ss) : r[i] = Run(r[i - 1], ss[i])
               /\ RunAll(d, ss) = r[Len(ss)]
               /\ \A i \in 0 .. Len(ss) :
                    /\ IsDatabase(r[i]) /\ ~r[i].failed
                    /\ r[i].guilds = d.guilds /\ HuntersAre(r[i].hunters, d.guilds)
                    /\ NoOwners(d.hunters) => NoOwners(r[i].hunters)
  <2>1. /\ IsDatabase(d) /\ IsScript(ss) /\ ~RunAll(d, ss).failed
        /\ "guilds" \in Tables(d) /\ HuntersAre(d.hunters, d.guilds)
    OBVIOUS
  <2>2. \A i \in DOMAIN ss : /\ ss[i].do # "rewrite"
                             /\ ss[i].do = "drop" => ss[i].name # "guilds"
    OBVIOUS
  <2> HIDE DEF ss
  <2> QED BY ONLY <2>1, <2>2, DropsLeaveRows
<1>2. Len(ss) = 5 /\ ss[5] = DropColumn("hunters", "user_id")
  BY FifthDown
<1> HIDE DEF ss
<1> DEFINE x == r[4]
           s == DropColumn("hunters", "user_id")
<1>3. /\ r[5] = Run(x, s) /\ IsDatabase(x) /\ ~r[5].failed
      /\ x.guilds = d.guilds /\ HuntersAre(x.hunters, d.guilds)
      /\ r[5].guilds = d.guilds /\ HuntersAre(r[5].hunters, d.guilds)
  BY <1>1, <1>2
<1>4. HuntersAre(x.hunters, x.guilds) /\ ~Run(x, s).failed
  BY <1>3
<1> HIDE DEF x
<1>5. NoOwners(r[5].hunters)
  BY <1>3, <1>4, DropOwners
<1> QED BY <1>1, <1>2, <1>3, <1>5 DEF ss

\* Undoing the tables leaves no rows.
LEMMA SecondDownRows ==
  ASSUME NEW d, IsDatabase(d), IsScript(Migrations[2].down), ~RunAll(d, Migrations[2].down).failed,
         IsFiniteSet(d.guilds)
  PROVE  LET f == RunAll(d, Migrations[2].down) IN IsFiniteSet(f.guilds) /\ f.hunters = {}
<1> DEFINE ss == Migrations[2].down
<1>1. PICK r : /\ r[0] = d
               /\ \A i \in 1 .. Len(ss) : r[i] = Run(r[i - 1], ss[i])
               /\ RunAll(d, ss) = r[Len(ss)]
               /\ \A i \in 0 .. Len(ss) : IsDatabase(r[i]) /\ ~r[i].failed
  <2>1. IsDatabase(d) /\ IsScript(ss) /\ ~RunAll(d, ss).failed
    OBVIOUS
  <2> HIDE DEF ss
  <2> QED BY ONLY <2>1, ScriptRuns
<1>2. /\ Len(ss) = 4 /\ ss[2] = DropTable("hunters")
      /\ \A i \in {1, 3, 4} : ss[i].do = "drop"
  BY SecondDown
<1> HIDE DEF ss
<1>3. ASSUME NEW i \in {1, 3, 4}, IsFiniteSet(r[i - 1].guilds)
      PROVE  IsFiniteSet(r[i].guilds) /\ (r[i - 1].hunters = {} => r[i].hunters = {})
  <2> DEFINE x == r[i - 1]
             t == ss[i]
  <2>1. r[i] = Run(x, t) /\ IsDatabase(x) /\ t.do \in Drops /\ IsFiniteSet(x.guilds)
    BY <1>1, <1>2, <1>3 DEF Drops
  <2> HIDE DEF x, t
  <2>2. IsFiniteSet(r[i].guilds) /\ (x.hunters = {} => r[i].hunters = {})
    BY <2>1, DropEmpty
  <2> QED BY <2>2 DEF x
<1>4. IsFiniteSet(r[1].guilds)
  BY <1>1, <1>3
<1>5. r[2].hunters = {} /\ IsFiniteSet(r[2].guilds)
  <2> DEFINE x == r[1]
             s == DropTable("hunters")
  <2>1. r[2] = Run(x, s) /\ IsDatabase(x) /\ ~Run(x, s).failed /\ IsFiniteSet(x.guilds)
    BY <1>1, <1>2, <1>4
  <2> HIDE DEF x
  <2> QED BY <2>1, DropHunters
<1>6. r[3].hunters = {} /\ IsFiniteSet(r[3].guilds)
  BY <1>3, <1>5
<1>7. r[4].hunters = {} /\ IsFiniteSet(r[4].guilds)
  BY <1>3, <1>6
<1> QED BY <1>1, <1>2, <1>7 DEF ss

\* Undoing the last migration keeps what is true of the rows.
LEMMA DownRows ==
  ASSUME NEW k \in 1 .. N, NEW d, Explained(d, k), Rows(d, k), ~ApplyDown(d, k).failed
  PROVE  Rows(ApplyDown(d, k), k - 1)
<1> DEFINE m == k - 1
           ss == Migrations[k].down
           f == RunAll(d, ss)
           e == ApplyDown(d, k)
<1>0. N = 21 /\ Versions = 1 .. N /\ k \in 0 .. N /\ m \in 0 .. N /\ k \in Nat /\ k \in Versions
  BY MigrationsAre
<1>1. IsDatabase(d)
  BY DEF Explained
<1>2. ~e.failed
  OBVIOUS
<1>3. /\ IsScript(ss) /\ IsDatabase(f) /\ ~f.failed
      /\ e.guilds = f.guilds /\ e.hunters = f.hunters
  BY <1>0, <1>1, <1>2, DownRuns
<1>4. IsFiniteSet(d.guilds) /\ HuntersAre(d.hunters, d.guilds)
  BY DEF Rows
<1>a. /\ \A i \in DOMAIN ss : ss[i].do # "rewrite"
      /\ k > 5 => \A i \in DOMAIN ss : Keeps(ss[i])
      /\ k > 2 => \A i \in DOMAIN ss : ss[i].do = "drop" => ss[i].name # "guilds"
  BY <1>0, ScriptsAre
<1> HIDE DEF e
<1>5. CASE k = 1
  <2>1. Len(ss) = 0 /\ ~(m >= 5) /\ ~(m >= 8) /\ NoOwners(d.hunters)
    BY <1>5, FirstDown DEF Rows
  <2>2. f = d
    <3>1. PICK r : /\ r[0] = d
                   /\ \A i \in 1 .. Len(ss) : r[i] = Run(r[i - 1], ss[i])
                   /\ RunAll(d, ss) = r[Len(ss)]
                   /\ \A i \in 0 .. Len(ss) : IsDatabase(r[i]) /\ ~r[i].failed
      <4>1. IsDatabase(d) /\ IsScript(ss) /\ ~RunAll(d, ss).failed
        BY <1>1, <1>3
      <4> HIDE DEF ss
      <4> QED BY ONLY <4>1, ScriptRuns
    <3> HIDE DEF ss
    <3> QED BY <2>1, <3>1
  <2> HIDE DEF f, m
  <2>3. Rows(e, m)
    BY <1>3, <1>4, <2>1, <2>2 DEF Rows
  <2> QED BY <2>3 DEF e, m
<1>6. CASE k = 2
  <2>1. ~(m >= 5) /\ ~(m >= 8)
    BY <1>6
  <2>2. IsFiniteSet(f.guilds) /\ f.hunters = {}
    BY <1>1, <1>3, <1>4, <1>6, SecondDownRows
  <2> HIDE DEF f, m
  <2>3. HuntersAre(f.hunters, f.guilds) /\ NoOwners(f.hunters)
    BY <2>2, FS_EmptySet DEF HuntersAre, NoOwners
  <2>4. Rows(e, m)
    BY <1>3, <2>1, <2>2, <2>3 DEF Rows
  <2> QED BY <2>4 DEF e, m
<1>7. CASE k = 3 \/ k = 4
  <2>1. k > 2 /\ k >= 2 /\ ~(m >= 5) /\ ~(m >= 8) /\ NoOwners(d.hunters)
    BY <1>7 DEF Rows
  <2>2. "guilds" \in Tables(d)
    BY <1>0, <2>1, TablesAre
  <2>3. f.guilds = d.guilds /\ HuntersAre(f.hunters, d.guilds) /\ NoOwners(f.hunters)
    <3>1. PICK r : /\ r[0] = d
                   /\ \A i \in 1 .. Len(ss) : r[i] = Run(r[i - 1], ss[i])
                   /\ RunAll(d, ss) = r[Len(ss)]
                   /\ \A i \in 0 .. Len(ss) :
                        /\ IsDatabase(r[i]) /\ ~r[i].failed
                        /\ r[i].guilds = d.guilds /\ HuntersAre(r[i].hunters, d.guilds)
                        /\ NoOwners(d.hunters) => NoOwners(r[i].hunters)
      <4>1. IsDatabase(d) /\ IsScript(ss) /\ ~RunAll(d, ss).failed
        BY <1>1, <1>3
      <4>2. \A i \in DOMAIN ss : /\ ss[i].do # "rewrite"
                                 /\ ss[i].do = "drop" => ss[i].name # "guilds"
        BY <1>a, <2>1
      <4> HIDE DEF ss
      <4> QED BY ONLY <1>4, <2>2, <4>1, <4>2, DropsLeaveRows
    <3>2. Len(ss) \in Nat
      BY <1>3 DEF IsScript
    <3> HIDE DEF ss
    <3>3. Len(ss) \in 0 .. Len(ss)
      BY <3>2
    <3> QED BY <2>1, <3>1, <3>3
  <2> HIDE DEF f, m
  <2>4. Rows(e, m)
    BY <1>3, <1>4, <2>1, <2>3 DEF Rows
  <2> QED BY <2>4 DEF e, m
<1>8. CASE k = 5
  <2>1. k > 2 /\ k >= 2 /\ ~(m >= 5) /\ ~(m >= 8) /\ ss = Migrations[5].down
    BY <1>8
  <2>2. "guilds" \in Tables(d)
    BY <1>0, <2>1, TablesAre
  <2>3. f.guilds = d.guilds /\ HuntersAre(f.hunters, d.guilds) /\ NoOwners(f.hunters)
    BY <1>1, <1>3, <1>4, <1>a, <2>1, <2>2, FifthDownRows
  <2> HIDE DEF f, m
  <2>4. Rows(e, m)
    BY <1>3, <1>4, <2>1, <2>3 DEF Rows
  <2> QED BY <2>4 DEF e, m
<1>9. CASE k > 5
  <2>1. k >= 5 /\ ~(m < 5) /\ (m >= 8 => k >= 8)
    BY <1>0, <1>9
  <2> DEFINE gs == d.guilds
  <2>2. OwnedRows(d, gs)
    BY <1>0, <1>4, <2>1, TablesAre DEF OwnedRows, Rows
  <2>3. \A i \in DOMAIN ss : Keeps(ss[i])
    BY <1>a, <1>9
  <2>4. OwnedRows(f, gs) /\ (Hashed(d.hunters) => Hashed(f.hunters))
    <3> HIDE DEF gs, ss
    <3> QED BY <1>1, <1>3, <2>2, <2>3, KeepsOwnedRows
  <2>5. m >= 8 => Hashed(f.hunters)
    BY <2>1, <2>4 DEF Rows
  <2> HIDE DEF f, m
  <2>6. Rows(e, m)
    BY <1>3, <1>4, <2>1, <2>4, <2>5 DEF Rows, OwnedRows
  <2> QED BY <2>6 DEF e, m
<1> QED BY <1>0, <1>5, <1>6, <1>7, <1>8, <1>9
-------------------------------------------------------------------------------
(* Migrating and rolling back.                                             *)

\* A database with the first k migrations applied, their schema and the rows they leave
Consistent(d, k) == Explained(d, k) /\ Rows(d, k)

\* The pending migrations, run on the schema they were found on, lead to the last schema.
LEMMA MigratesUp ==
  ASSUME NEW k \in 0 .. N, NEW d, Consistent(d, k)
  PROVE  Consistent(Migrated(d, (k + 1) .. N), N)
<1> DEFINE due == (k + 1) .. N
           at(i) == IF i <= k THEN k ELSE i
<1>0. N \in Nat /\ k \in Nat /\ k <= N
  BY MigrationsAre
<1>1. PICK r : /\ r[0] = d
               /\ \A i \in 1 .. N : r[i] = Execute(r[i - 1], i, due, "up")
               /\ Migrated(d, due) = r[N]
  <2> HIDE DEF due
  <2> QED BY FoldAscends
<1> DEFINE S == {i \in 0 .. N : Consistent(r[i], at(i))}
<1>2. 0 \in S
  BY <1>0, <1>1
<1>3. ASSUME NEW i \in 0 .. N - 1, i \in S PROVE i + 1 \in S
  <2>1. i + 1 \in 1 .. N /\ i + 1 \in 0 .. N /\ (i + 1) - 1 = i
    BY <1>0
  <2>2. r[i + 1] = Execute(r[i], i + 1, due, "up")
    BY <1>1, <2>1
  <2>3. Consistent(r[i], at(i))
    BY <1>3
  <2>4. CASE i + 1 <= k
    <3>1. i + 1 \notin due /\ at(i) = k /\ at(i + 1) = k
      BY <1>0, <2>4
    <3> QED BY <2>1, <2>2, <2>3, <3>1 DEF Execute
  <2>5. CASE ~(i + 1 <= k)
    <3>1. i + 1 \in due /\ at(i) = i /\ at(i + 1) = i + 1
      BY <1>0, <2>5
    <3>2. r[i + 1] = ApplyUp(r[i], i + 1)
      BY <2>2, <3>1 DEF Execute
    <3>3. Consistent(r[i + 1], i + 1)
      BY <2>3, <3>1, <3>2, UpOne, UpRows DEF Consistent
    <3> QED BY <2>1, <3>1, <3>3
  <2> QED BY <2>4, <2>5
<1>4. N \in S
  <2> HIDE DEF S
  <2>1. \A i \in 0 .. N : i \in S
    BY <1>0, <1>2, <1>3, UpTo
  <2> QED BY <1>0, <2>1
<1>5. at(N) = N
  BY <1>0
<1> QED BY <1>1, <1>4, <1>5

\* Run after another process has run some of them, they fail at the first of those.
LEMMA MigratesAgain ==
  ASSUME NEW k \in 0 .. N, NEW d, Explained(d, k), NEW j \in 0 .. N, j < k
  PROVE  Migrated(d, (j + 1) .. N).failed
<1> DEFINE due == (j + 1) .. N
<1>0. N \in Nat /\ k \in Nat /\ k <= N /\ j \in Nat /\ j < k /\ Versions = 1 .. N
  BY MigrationsAre
<1>1. PICK r : /\ r[0] = d
               /\ \A i \in 1 .. N : r[i] = Execute(r[i - 1], i, due, "up")
               /\ Migrated(d, due) = r[N]
  <2> HIDE DEF due
  <2> QED BY FoldAscends
<1> DEFINE S == {i \in 0 .. N : /\ IsDatabase(r[i])
                                /\ i <= j => r[i] = d
                                /\ i > j => r[i].failed}
<1>2. 0 \in S
  BY <1>0, <1>1 DEF Explained
<1>3. ASSUME NEW i \in 0 .. N - 1, i \in S PROVE i + 1 \in S
  <2>1. i + 1 \in 1 .. N /\ i + 1 \in 0 .. N /\ (i + 1) - 1 = i
    BY <1>0
  <2>2. r[i + 1] = Execute(r[i], i + 1, due, "up")
    BY <1>1, <2>1
  <2>3. IsDatabase(r[i]) /\ (i <= j => r[i] = d) /\ (i > j => r[i].failed)
    BY <1>3
  <2>4. CASE i + 1 <= j
    <3>1. i + 1 \notin due /\ i <= j /\ ~(i + 1 > j)
      BY <1>0, <2>4
    <3> QED BY <2>1, <2>2, <2>3, <3>1 DEF Execute
  <2>5. CASE i = j
    <3>1. i + 1 \in due /\ i <= j /\ ~(i + 1 <= j) /\ i + 1 \in 1 .. k
      BY <1>0, <2>5
    <3>2. r[i + 1] = ApplyUp(d, i + 1)
      BY <2>2, <2>3, <3>1 DEF Execute
    <3>3. i + 1 \in d.applied /\ IsDatabase(d)
      BY <3>1 DEF Explained
    <3>4. IsDatabase(r[i + 1]) /\ r[i + 1].failed
      BY <3>2, <3>3, ApplyUpAgain
    <3> QED BY <2>1, <3>1, <3>4
  <2>6. CASE i > j
    <3>1. i + 1 \in due /\ ~(i + 1 <= j) /\ i + 1 \in Versions
      BY <1>0, <2>6
    <3>2. r[i + 1] = ApplyUp(r[i], i + 1)
      BY <2>2, <3>1 DEF Execute
    <3> DEFINE x == r[i]
               m == i + 1
    <3>3. IsDatabase(x) /\ x.failed /\ Alike(x, x) /\ m \in Versions
      BY <2>3, <2>6, <3>1 DEF Alike
    <3> HIDE DEF x, m
    <3>4. IsDatabase(ApplyUp(x, m)) /\ ApplyUp(x, m).failed
      <4>1. CASE m \in x.applied
        BY <3>3, <4>1, ApplyUpAgain
      <4>2. CASE m \notin x.applied
        BY <3>3, <4>2, ApplyUpAlike
      <4> QED BY <4>1, <4>2
    <3>5. IsDatabase(r[i + 1]) /\ r[i + 1].failed
      BY <3>2, <3>4 DEF x, m
    <3> QED BY <2>1, <3>1, <3>5
  <2> QED BY <1>0, <2>4, <2>5, <2>6
<1>4. N \in S
  <2> HIDE DEF S
  <2>1. \A i \in 0 .. N : i \in S
    BY <1>0, <1>2, <1>3, UpTo
  <2> QED BY <1>0, <2>1
<1>5. N > j
  BY <1>0
<1> QED BY <1>1, <1>4, <1>5

\* The last migrations applied are the greatest ones.
LEMMA UndoneAre ==
  ASSUME NEW k \in 0 .. N, NEW d, Explained(d, k), NEW n \in Nat
  PROVE  Undone(d, n) = {m \in 1 .. k : m > k - n}
<1>0. N \in Nat /\ k \in Nat
  BY MigrationsAre
<1>1. ASSUME NEW m \in 1 .. k
      PROVE  Cardinality({l \in 1 .. k : l >= m}) <= n <=> m > k - n
  <2>1. {l \in 1 .. k : l >= m} = m .. k
    BY <1>0
  <2>2. m \in Int /\ k \in Int /\ ~(m > k)
    BY <1>0
  <2>3. Cardinality(m .. k) = (k - m) + 1
    BY <2>2, FS_Interval
  <2>4. PICK c \in Int : c = (k - m) + 1
    BY <1>0
  <2>5. c <= n <=> m > k - n
    BY <1>0, <2>4
  <2>6. Cardinality({l \in 1 .. k : l >= m}) = c
    BY <2>1, <2>3, <2>4
  <2> QED BY <2>5, <2>6
<1> QED BY <1>1 DEF Undone, Explained

\* Migrations are undone in descending order.
LEMMA FoldDescends ==
  ASSUME NEW d, NEW n
  PROVE  \E r : /\ r[0] = d
                /\ \A i \in 1 .. N : r[i] = Execute(r[i - 1], (N - i) + 1, Undone(d, n), "down")
                /\ RolledBack(d, n) = r[N]
<1> DEFINE order == Descending
           way == "down"
           due == Undone(d, n)
<1>1. N \in Nat
  BY MigrationsAre
<1>2. DOMAIN order = 1 .. N /\ \A i \in 1 .. N : order[i] = (N - i) + 1
  <2>1. Ascending \in Seq(Nat) /\ Len(Ascending) = N /\ \A j \in 1 .. N : Ascending[j] = j
    <3>1. Ascending = [i \in 1 .. N |-> i]
      BY MigrationsAre DEF Ascending
    <3>2. Ascending \in [1 .. N -> Nat]
      BY <1>1, <3>1
    <3> QED BY <1>1, <3>1, <3>2
  <2>2. order = [i \in 1 .. N |-> Ascending[(N - i) + 1]]
    BY <2>1 DEF Descending, Reverse
  <2>3. ASSUME NEW i \in 1 .. N PROVE (N - i) + 1 \in 1 .. N
    BY <1>1
  <2> QED BY <2>1, <2>2, <2>3
<1>3. RolledBack(d, n) = Executed(d, order, due, way)
  BY DEF RolledBack
<1> HIDE DEF order, way, due
<1>4. PICK r : /\ r[0] = d
               /\ \A i \in 1 .. N : r[i] = Execute(r[i - 1], order[i], due, way)
               /\ Executed(d, order, due, way) = r[N]
  <2>1. DOMAIN order = 1 .. N
    BY <1>2
  <2> QED BY <1>1, <2>1, FoldExecutes
<1>5. \A i \in 1 .. N : r[i] = Execute(r[i - 1], (N - i) + 1, Undone(d, n), "down")
  BY <1>2, <1>4 DEF way, due
<1> QED BY <1>3, <1>4, <1>5

\* A roll-back that does not fail leads to the schema of the prefix that remains.
LEMMA RollsBack ==
  ASSUME NEW k \in 0 .. N, NEW d, Consistent(d, k), NEW n \in 0 .. k, ~RolledBack(d, n).failed
  PROVE  Consistent(RolledBack(d, n), k - n)
<1> DEFINE due == Undone(d, n)
           at(i) == IF N - i >= k THEN k ELSE IF N - i >= k - n THEN N - i ELSE k - n
<1>0. N \in Nat /\ k \in Nat /\ k <= N /\ n \in Nat /\ n <= k /\ Versions = 1 .. N
  BY MigrationsAre
<1>1. PICK r : /\ r[0] = d
               /\ \A i \in 1 .. N : r[i] = Execute(r[i - 1], (N - i) + 1, due, "down")
               /\ RolledBack(d, n) = r[N]
  BY FoldDescends
<1>2. due = {m \in 1 .. k : m > k - n}
  BY <1>0, UndoneAre DEF Consistent
<1> HIDE DEF due
<1> DEFINE S == {i \in 0 .. N : IsDatabase(r[i]) /\ (~r[i].failed => Consistent(r[i], at(i)))}
<1>3. 0 \in S
  BY <1>0, <1>1 DEF Consistent, Explained
<1>4. ASSUME NEW i \in 0 .. N - 1, i \in S PROVE i + 1 \in S
  <2>0. i + 1 \in 1 .. N /\ i + 1 \in 0 .. N /\ (i + 1) - 1 = i
    BY <1>0
  <2>1. PICK m \in 1 .. N : m = N - i
    BY <1>0
  <2>2. (N - (i + 1)) + 1 = m
    BY <1>0, <2>1
  <2>3. r[i + 1] = Execute(r[i], m, due, "down")
    BY <1>1, <2>0, <2>2
  <2>4. IsDatabase(r[i]) /\ (~r[i].failed => Consistent(r[i], at(i)))
    BY <1>4
  <2>5. CASE m \notin due
    <3>1. m > k \/ m <= k - n
      BY <1>0, <1>2, <2>5
    <3>2. at(i + 1) = at(i)
      BY <1>0, <2>1, <3>1
    <3> HIDE DEF at
    <3>3. r[i + 1] = r[i]
      BY <2>3, <2>5 DEF Execute
    <3> QED BY <2>0, <2>4, <3>2, <3>3
  <2>6. CASE m \in due
    <3>1. at(i) = m /\ at(i + 1) = m - 1
      BY <1>0, <1>2, <2>1, <2>6
    <3> HIDE DEF at
    <3>2. r[i + 1] = ApplyDown(r[i], m)
      BY <2>3, <2>6 DEF Execute
    <3> DEFINE x == r[i]
    <3>3. IsDatabase(x) /\ (~x.failed => Consistent(x, m)) /\ Alike(x, x) /\ m \in Versions
      BY <1>0, <2>4, <3>1 DEF Alike
    <3> HIDE DEF x
    <3>4. IsDatabase(ApplyDown(x, m)) /\ (x.failed => ApplyDown(x, m).failed)
      BY <3>3, ApplyDownAlike
    <3>5. ~ApplyDown(x, m).failed => Consistent(ApplyDown(x, m), m - 1)
      BY <3>3, <3>4, DownOne, DownRows DEF Consistent
    <3>6. IsDatabase(r[i + 1]) /\ (~r[i + 1].failed => Consistent(r[i + 1], at(i + 1)))
      BY <3>1, <3>2, <3>4, <3>5 DEF x
    <3> QED BY <2>0, <3>6
  <2> QED BY <2>5, <2>6
<1>5. N \in S
  <2> HIDE DEF S
  <2>1. \A i \in 0 .. N : i \in S
    BY <1>0, <1>3, <1>4, UpTo
  <2> QED BY <1>0, <2>1
<1>6. at(N) = k - n
  BY <1>0
<1> QED BY <1>1, <1>5, <1>6
-------------------------------------------------------------------------------
(* The invariant.                                                          *)

\* The applied migrations are the first k, and the schema and the rows are theirs.  A process
\* that is migrating found a prefix of them, perhaps a shorter one, since none is undone meanwhile.
\* While a process counts as current all of them are applied.
SchemaInv ==
  /\ mode \in [Nodes -> {"down", "migrating", "serving"}]
  /\ pending \in [Nodes -> SUBSET Versions] /\ current \in [Nodes -> BOOLEAN]
  /\ \E k \in 0 .. N :
       /\ Consistent(db, k)
       /\ \A n \in Nodes : mode[n] = "migrating" => \E j \in 0 .. k : pending[n] = (j + 1) .. N
       /\ \A n \in Nodes : current[n] => k = N

\* A database with other rows
WithRows(d, gs, hs) == [d EXCEPT !.guilds = gs, !.hunters = hs]

\* Writing the rows changes nothing else.
LEMMA RowsFields ==
  ASSUME NEW d, IsDatabase(d), NEW gs, NEW hs
  PROVE  LET e == WithRows(d, gs, hs)
         IN  /\ IsDatabase(e) /\ e.guilds = gs /\ e.hunters = hs
             /\ e.applied = d.applied /\ e.failed = d.failed /\ e.catalogue = d.catalogue
<1> DEFINE e == WithRows(d, gs, hs)
<1>1. e = [catalogue |-> d.catalogue, applied |-> d.applied, guilds |-> gs,
           hunters |-> hs, failed |-> d.failed]
  <2>1. DOMAIN d = {"catalogue", "applied", "guilds", "hunters", "failed"}
    BY DEF IsDatabase
  <2>2. /\ DOMAIN e = {"catalogue", "applied", "guilds", "hunters", "failed"}
        /\ e = [x \in DOMAIN e |-> e[x]]
    BY <2>1 DEF WithRows
  <2>3. e.catalogue = d.catalogue /\ e.applied = d.applied /\ e.guilds = gs
        /\ e.hunters = hs /\ e.failed = d.failed
    BY <2>1 DEF WithRows
  <2> HIDE DEF e
  <2> QED BY <2>2, <2>3
<1> QED BY <1>1 DEF IsDatabase

\* An earlier release leaves the schema and the rows of a prefix behind.
LEMMA DeployedIsConsistent ==
  ASSUME NEW k \in 0 .. N
  PROVE  Consistent(Deployed(k), k)
<1> DEFINE d == SchemaAt[k]
           e == Deployed(k)
           hashed == k >= 8
           owner == Hunter(2, FirstGuild, TRUE, "master", 1, hashed)
           role == IF k >= 5 THEN "member" ELSE NoRole
           member == Hunter(1, FirstGuild, FALSE, role, 0, hashed)
           gs == IF k >= 2 THEN {FirstGuild} ELSE {}
           hs == IF k >= 5 THEN {owner, member} ELSE IF k >= 2 THEN {member} ELSE {}
<1>0. k \in Nat
  BY MigrationsAre
<1>1. e = WithRows(d, gs, hs)
  BY DEF Deployed, WithRows
<1>2. IsDatabase(d) /\ d.applied = 1 .. k /\ ~d.failed
  BY SchemasAre
<1>3. /\ IsHunter(owner) /\ owner.guild = FirstGuild /\ owner.owner = TRUE
      /\ owner.role = "master" /\ owner.hashed = hashed
      /\ IsHunter(member) /\ member.guild = FirstGuild /\ member.owner = FALSE
      /\ member.hashed = hashed
  <2> HIDE DEF hashed, role
  <2> QED BY DEF Hunter, IsHunter
<1> HIDE DEF owner, member, d, role
<1>4. IsFiniteSet(gs) /\ HuntersAre(hs, gs)
  <2>1. IsFiniteSet({}) /\ IsFiniteSet({FirstGuild}) /\ IsFiniteSet({member})
    BY FS_EmptySet, FS_Singleton
  <2>2. IsFiniteSet({owner, member})
    <3>1. {owner, member} = {member} \union {owner}
      OBVIOUS
    <3> QED BY <2>1, <3>1, FS_AddElement
  <2>3. IsFiniteSet(gs) /\ IsFiniteSet(hs)
    BY <2>1, <2>2
  <2>4. \A h \in hs : h.guild \in gs /\ IsHunter(h)
    BY <1>0, <1>3
  <2> QED BY <2>3, <2>4 DEF HuntersAre
<1>5. k < 5 => NoOwners(hs)
  BY <1>0, <1>3 DEF NoOwners
<1>6. k >= 5 => OwnersAre(hs, gs)
  <2>1. SUFFICES ASSUME k >= 5, NEW g \in gs PROVE OneOwner(hs, g)
    BY DEF OwnersAre
  <2>2. hs = {owner, member} /\ g = FirstGuild
    BY <1>0, <2>1
  <2> HIDE DEF hs, gs, hashed
  <2>3. owner \in hs /\ \A h \in hs : h.owner => h = owner
    BY <1>3, <2>2
  <2> QED BY <1>3, <2>2, <2>3 DEF OneOwner
<1>7. k >= 8 => Hashed(hs)
  BY <1>3 DEF Hashed
<1> HIDE DEF gs, hs
<1>8. /\ IsDatabase(e) /\ e.applied = d.applied /\ e.failed = d.failed
      /\ e.catalogue = d.catalogue /\ e.guilds = gs /\ e.hunters = hs
  BY <1>1, <1>2, RowsFields
<1> HIDE DEF e
<1>9. Explained(e, k)
  BY <1>2, <1>8 DEF Explained, d
<1>10. Rows(e, k)
  BY <1>4, <1>5, <1>6, <1>7, <1>8 DEF Rows
<1> QED BY <1>9, <1>10 DEF Consistent, e

\* A guild that registers gets its owner's hunter, with a hashed PIN.
LEMMA RegistersOwner ==
  ASSUME NEW hs, NEW gs, HuntersAre(hs, gs), OwnersAre(hs, gs), NEW g, g \notin gs
  PROVE  LET new == Hunter(Fresh(hs), g, TRUE, "master", 0, TRUE)
             ks  == hs \union {new}
             fs  == gs \union {g}
         IN  /\ HuntersAre(ks, fs) /\ OwnersAre(ks, fs)
             /\ Hashed(hs) => Hashed(ks)
<1> DEFINE id == Fresh(hs)
           new == Hunter(id, g, TRUE, "master", 0, TRUE)
           ks  == hs \union {new}
           fs  == gs \union {g}
<1>1. id \in Nat
  BY FS_CardinalityType DEF Fresh, HuntersAre
<1> HIDE DEF id
<1>2. /\ IsHunter(new) /\ new.guild = g /\ new.owner = TRUE /\ new.role = "master"
      /\ new.hashed = TRUE
  BY <1>1 DEF Hunter, IsHunter
<1> HIDE DEF new
<1>3. HuntersAre(ks, fs)
  <2>1. IsFiniteSet(ks)
    BY FS_AddElement DEF HuntersAre
  <2> QED BY <1>2, <2>1 DEF HuntersAre
<1>4. ASSUME NEW f \in fs PROVE OneOwner(ks, f)
  <2>1. CASE f \in gs
    <3>1. PICK x \in hs :
            /\ x.guild = f /\ x.owner /\ x.role = "master"
            /\ \A h \in hs : h.guild = f /\ h.owner /\ h.role = "master" => h = x
      BY <2>1 DEF OwnersAre, OneOwner
    <3>2. new.guild # f
      BY <1>2, <2>1
    <3> QED BY <3>1, <3>2 DEF OneOwner
  <2>2. CASE f = g
    <3>1. \A h \in hs : h.guild # g
      BY DEF HuntersAre
    <3> QED BY <1>2, <2>2, <3>1 DEF OneOwner
  <2> QED BY <2>1, <2>2
<1>5. Hashed(hs) => Hashed(ks)
  BY <1>2 DEF Hashed
<1> QED BY <1>3, <1>4, <1>5 DEF OwnersAre, new, id

\* The database is at a prefix when the first process starts.
LEMMA SchemaInvInit == Init => SchemaInv
<1> SUFFICES ASSUME Init PROVE SchemaInv
  OBVIOUS
<1>0. N \in Nat /\ Versions = 1 .. N
  BY MigrationsAre
<1>1. PICK k \in DeployedVersions : db = Deployed(k)
  BY DEF Init
<1>2. k \in 0 .. N
  BY <1>0, ServerAssumption
<1>3. Consistent(db, k)
  BY <1>1, <1>2, DeployedIsConsistent
<1>4. /\ mode \in [Nodes -> {"down", "migrating", "serving"}]
      /\ pending \in [Nodes -> SUBSET Versions] /\ current \in [Nodes -> BOOLEAN]
      /\ \A n \in Nodes : mode[n] = "down" /\ current[n] = FALSE
  BY DEF Init
<1> QED BY <1>2, <1>3, <1>4 DEF SchemaInv

\* Migrating from the schema of a prefix leads to the last schema or fails.
LEMMA MigratesFrom ==
  ASSUME NEW k \in 0 .. N, NEW d, Consistent(d, k), NEW j \in 0 .. k,
         ~Migrated(d, (j + 1) .. N).failed
  PROVE  Consistent(Migrated(d, (j + 1) .. N), N)
<1>0. N \in Nat
  BY MigrationsAre
<1>1. CASE j = k
  BY <1>1, MigratesUp
<1>2. CASE j # k
  <2>1. j \in 0 .. N /\ j < k
    BY <1>0, <1>2
  <2> QED BY <2>1, MigratesAgain DEF Consistent
<1> QED BY <1>1, <1>2

\* What is not applied is the rest.
LEMMA RestIsPending ==
  ASSUME NEW k \in 0 .. N, NEW d, Explained(d, k)
  PROVE  Versions \ d.applied = (k + 1) .. N
<1>0. N \in Nat /\ Versions = 1 .. N
  BY MigrationsAre
<1> QED BY <1>0 DEF Explained

\* No step of a process, of the operator or of a request leaves it.
LEMMA SchemaInvStep == SchemaInv /\ [Next]_vars => SchemaInv'
<1> SUFFICES ASSUME SchemaInv, [Next]_vars PROVE SchemaInv'
  OBVIOUS
<1>0. N \in Nat /\ Versions = 1 .. N /\ N \in 0 .. N
  BY MigrationsAre
<1>1. PICK k \in 0 .. N :
        /\ Consistent(db, k)
        /\ \A n \in Nodes : mode[n] = "migrating" => \E j \in 0 .. k : pending[n] = (j + 1) .. N
        /\ \A n \in Nodes : current[n] => k = N
  BY DEF SchemaInv
<1>2. /\ mode \in [Nodes -> {"down", "migrating", "serving"}]
      /\ pending \in [Nodes -> SUBSET Versions] /\ current \in [Nodes -> BOOLEAN]
  BY DEF SchemaInv
<1>3. ASSUME UNCHANGED <<db, mode, pending, current>> PROVE SchemaInv'
  BY <1>1, <1>2, <1>3 DEF SchemaInv
<1>4. ASSUME NEW n \in Nodes, StartMigrating(n) PROVE SchemaInv'
  <2>1. /\ mode' = [mode EXCEPT ![n] = "migrating"]
        /\ pending' = [pending EXCEPT ![n] = Versions \ db.applied]
        /\ db' = db /\ current' = current
    BY <1>4 DEF StartMigrating
  <2>2. Versions \ db.applied = (k + 1) .. N /\ k \in 0 .. k
    BY <1>0, <1>1, RestIsPending DEF Consistent
  <2>3. /\ mode' \in [Nodes -> {"down", "migrating", "serving"}]
        /\ pending' \in [Nodes -> SUBSET Versions] /\ current' \in [Nodes -> BOOLEAN]
    BY <1>2, <2>1
  <2>4. ASSUME NEW o \in Nodes, mode'[o] = "migrating"
        PROVE  \E j \in 0 .. k : pending'[o] = (j + 1) .. N
    <3>1. CASE o = n
      BY <1>2, <2>1, <2>2, <3>1
    <3>2. CASE o # n
      <4>1. mode[o] = "migrating" /\ pending'[o] = pending[o]
        BY <1>2, <2>1, <2>4, <3>2
      <4> QED BY <1>1, <4>1
    <3> QED BY <3>1, <3>2
  <2> QED BY <1>1, <2>1, <2>3, <2>4 DEF SchemaInv
<1>5. ASSUME NEW n \in Nodes, FinishMigrating(n) PROVE SchemaInv'
  <2> DEFINE after == Migrated(db, pending[n])
  <2>1. /\ mode[n] = "migrating"
        /\ mode' = [mode EXCEPT ![n] = IF after.failed THEN "down" ELSE "serving"]
        /\ db' = IF after.failed THEN db ELSE after
        /\ current' = [current EXCEPT ![n] = ~after.failed]
        /\ pending' = [pending EXCEPT ![n] = {}]
    BY <1>5 DEF FinishMigrating
  <2>2. PICK j \in 0 .. k : pending[n] = (j + 1) .. N
    BY <1>1, <2>1
  <2>3. ~after.failed => Consistent(after, N)
    BY <1>1, <2>2, MigratesFrom
  <2> HIDE DEF after
  <2>4. /\ mode' \in [Nodes -> {"down", "migrating", "serving"}]
        /\ pending' \in [Nodes -> SUBSET Versions] /\ current' \in [Nodes -> BOOLEAN]
    BY <1>2, <2>1
  <2>5. ASSUME NEW o \in Nodes, mode'[o] = "migrating"
        PROVE  \E i \in 0 .. k : pending'[o] = (i + 1) .. N
    <3>1. mode[o] = "migrating" /\ pending'[o] = pending[o]
      BY <1>2, <2>1, <2>5
    <3> QED BY <1>1, <3>1
  <2>6. CASE after.failed
    <3>1. db' = db /\ \A o \in Nodes : current'[o] => current[o]
      BY <1>2, <2>1, <2>6
    <3> QED BY <1>1, <2>4, <2>5, <3>1 DEF SchemaInv
  <2>7. CASE ~after.failed
    <3>1. Consistent(db', N)
      BY <2>1, <2>3, <2>7
    <3>2. ASSUME NEW o \in Nodes, mode'[o] = "migrating"
          PROVE  \E i \in 0 .. N : pending'[o] = (i + 1) .. N
      <4>1. 0 .. k \subseteq 0 .. N
        BY <1>0
      <4> QED BY <2>5, <3>2, <4>1
    <3> QED BY <1>0, <2>4, <3>1, <3>2 DEF SchemaInv
  <2> QED BY <2>6, <2>7
<1>6. ASSUME NEW n \in Nodes, ServeUnmigrated(n) PROVE SchemaInv'
  <2>1. /\ mode' = [mode EXCEPT ![n] = "serving"] /\ current' = [current EXCEPT ![n] = FALSE]
        /\ db' = db /\ pending' = pending
    BY <1>6 DEF ServeUnmigrated
  <2>2. /\ mode' \in [Nodes -> {"down", "migrating", "serving"}]
        /\ pending' \in [Nodes -> SUBSET Versions] /\ current' \in [Nodes -> BOOLEAN]
        /\ \A o \in Nodes : (mode'[o] = "migrating" => mode[o] = "migrating")
                            /\ (current'[o] => current[o])
    BY <1>2, <2>1
  <2> QED BY <1>1, <2>1, <2>2 DEF SchemaInv
<1>7. ASSUME NEW n \in Nodes, Stop(n) PROVE SchemaInv'
  <2>1. /\ mode' = [mode EXCEPT ![n] = "down"] /\ current' = [current EXCEPT ![n] = FALSE]
        /\ db' = db /\ pending' = [pending EXCEPT ![n] = {}]
    BY <1>7 DEF Stop
  <2>2. /\ mode' \in [Nodes -> {"down", "migrating", "serving"}]
        /\ pending' \in [Nodes -> SUBSET Versions] /\ current' \in [Nodes -> BOOLEAN]
        /\ \A o \in Nodes : /\ mode'[o] = "migrating" =>
                                 mode[o] = "migrating" /\ pending'[o] = pending[o]
                            /\ current'[o] => current[o]
    BY <1>2, <2>1
  <2> QED BY <1>1, <2>1, <2>2 DEF SchemaInv
<1>8. ASSUME OperatorUp PROVE SchemaInv'
  <2> DEFINE after == Migrated(db, Versions \ db.applied)
  <2>1. /\ db' = IF after.failed THEN db ELSE after
        /\ mode' = mode /\ pending' = pending /\ current' = current
    BY <1>8 DEF OperatorUp
  <2>2. Consistent(after, N)
    BY <1>1, RestIsPending, MigratesUp DEF Consistent
  <2> HIDE DEF after
  <2>3. Consistent(db', N)
    BY <2>1, <2>2 DEF Consistent, Explained
  <2>4. 0 .. k \subseteq 0 .. N
    BY <1>0
  <2>5. \A n \in Nodes : mode'[n] = "migrating" => \E j \in 0 .. N : pending'[n] = (j + 1) .. N
    BY <1>1, <2>1, <2>4
  <2> QED BY <1>0, <1>2, <2>1, <2>3, <2>5 DEF SchemaInv
<1>9. ASSUME NEW n \in RollBackSteps, OperatorDown(n) PROVE SchemaInv'
  <2> DEFINE after == RolledBack(db, n)
  <2>1. /\ \A o \in Nodes : mode[o] # "migrating"
        /\ n <= Cardinality(db.applied)
        /\ db' = IF after.failed THEN db ELSE after
        /\ current' = [o \in Nodes |-> FALSE]
        /\ mode' = mode /\ pending' = pending
    BY <1>9 DEF OperatorDown
  <2>2. Cardinality(1 .. k) = k
    BY <1>0, FS_Interval
  <2>3. n \in 0 .. k /\ k - n \in 0 .. N
    <3>1. n \in Nat /\ n <= k
      BY <1>1, <2>1, <2>2, ServerAssumption DEF Consistent, Explained
    <3> QED BY <1>0, <3>1
  <2>4. ~after.failed => Consistent(after, k - n)
    BY <1>1, <2>3, RollsBack
  <2> HIDE DEF after
  <2>5. \E i \in 0 .. N : Consistent(db', i)
    BY <1>1, <2>1, <2>3, <2>4
  <2> QED BY <1>2, <2>1, <2>5 DEF SchemaInv
<1>10. ASSUME NEW n \in Nodes, NEW g \in Guilds, RegisterGuild(n, g) PROVE SchemaInv'
  <2> DEFINE new == Hunter(Fresh(db.hunters), g, TRUE, "master", 0, TRUE)
             gs == db.guilds \union {g}
             hs == db.hunters \union {new}
  <2>1. db' = WithRows(db, gs, hs)
    BY <1>10 DEF RegisterGuild, WithRows
  <2>2. /\ mode' = mode /\ pending' = pending /\ current' = current
        /\ g \notin db.guilds /\ Serves(db, HunterEntity)
    BY <1>10 DEF RegisterGuild, Readable
  <2>3. IsDatabase(db) /\ Explained(db, k) /\ Rows(db, k)
    BY <1>1 DEF Consistent, Explained
  <2>4. k \in Nat /\ k >= 5 /\ ~(k < 5)
    <3>1. ~(k < 5)
      BY <2>2, <2>3, TablesAre
    <3> QED BY <1>0, <3>1
  <2>5. /\ HuntersAre(hs, gs) /\ OwnersAre(hs, gs)
        /\ Hashed(db.hunters) => Hashed(hs)
    <3>1. HuntersAre(db.hunters, db.guilds) /\ OwnersAre(db.hunters, db.guilds)
      BY <2>3, <2>4 DEF Rows
    <3> QED BY <2>2, <3>1, RegistersOwner
  <2>6. IsFiniteSet(gs)
    BY <2>3, FS_AddElement DEF Rows
  <2> HIDE DEF gs, hs
  <2>7. /\ IsDatabase(db') /\ db'.applied = db.applied /\ db'.failed = db.failed
        /\ db'.catalogue = db.catalogue /\ db'.guilds = gs /\ db'.hunters = hs
    BY <2>1, <2>3, RowsFields
  <2>8. Explained(db', k)
    BY <2>3, <2>7 DEF Explained
  <2>9. Rows(db', k)
    BY <2>3, <2>4, <2>5, <2>6, <2>7 DEF Rows
  <2> QED BY <1>1, <1>2, <2>2, <2>8, <2>9 DEF SchemaInv, Consistent
<1>11. ASSUME NEW s \in Slots, NEW n \in Nodes, NEW a \in Accounts,
              BeginLogin(s, n, a) \/ RefuseLogin(s, n, a)
       PROVE  SchemaInv'
  BY <1>3, <1>11 DEF BeginLogin, RefuseLogin, serverVars
<1>12. ASSUME NEW s \in Slots, LoginSucceeds(s) \/ LoginUnauthorized(s) \/ LoginBreaksOff(s)
       PROVE  SchemaInv'
  BY <1>3, <1>12 DEF LoginSucceeds, LoginUnauthorized, LoginBreaksOff, serverVars
<1>13. ASSUME Passes PROVE SchemaInv'
  BY <1>3, <1>13 DEF Passes, serverVars
<1>14. ASSUME UNCHANGED vars PROVE SchemaInv'
  BY <1>3, <1>14 DEF vars
<1> QED BY <1>4, <1>5, <1>6, <1>7, <1>8, <1>9, <1>10, <1>11, <1>12, <1>13, <1>14 DEF Next

\* However processes that boot at once, failures, stops and roll-backs interleave, the list of
\* applied migrations is a prefix and explains every table, column, index, key and type.
THEOREM HistoryIsKept == Spec => []HistoryExplainsSchema
<1>1. SchemaInv => HistoryExplainsSchema
  <2>1. 0 .. N = {0} \union Versions
    BY MigrationsAre
  <2> QED BY <2>1 DEF SchemaInv, Consistent, Explained, HistoryExplainsSchema
<1> QED BY <1>1, SchemaInvInit, SchemaInvStep, PTL DEF Spec

\* A process that migrated when it started, and that no roll-back has overtaken, finds every
\* column and key its entities name, one owner's hunter per guild, and every PIN hashed.
THEOREM WhatIsServedIsThere == Spec => []ServesWhatItNeeds
<1>1. SchemaInv => ServesWhatItNeeds
  <2> SUFFICES ASSUME SchemaInv, NEW n \in Nodes, current[n]
               PROVE  Readable(db, Entities) /\ OwnersHaveHunters(db) /\ PinsAreHashed(db)
    BY DEF ServesWhatItNeeds
  <2>0. N = 21 /\ N \in {0} \union Versions
    BY MigrationsAre
  <2>1. Explained(db, N) /\ Rows(db, N)
    BY DEF SchemaInv, Consistent
  <2>2. ASSUME NEW e \in Entities PROVE Serves(db, e)
    <3> DEFINE d == SchemaAt[N]
    <3>1. Serves(d, e) /\ db.catalogue = d.catalogue
      BY <2>1, MigrationsAssumption DEF N, Explained
    <3> HIDE DEF d
    <3> QED BY <3>1 DEF Serves, Tables
  <2>3. OwnersAre(db.hunters, db.guilds) /\ Hashed(db.hunters)
    BY <2>0, <2>1 DEF Rows
  <2>4. ASSUME NEW g \in db.guilds
        PROVE  Cardinality({h \in db.hunters : h.guild = g /\ h.owner /\ h.role = "master"}) = 1
    <3>1. PICK x \in db.hunters :
            /\ x.guild = g /\ x.owner /\ x.role = "master"
            /\ \A h \in db.hunters : h.guild = g /\ h.owner /\ h.role = "master" => h = x
      BY <2>3 DEF OwnersAre, OneOwner
    <3>2. {h \in db.hunters : h.guild = g /\ h.owner /\ h.role = "master"} = {x}
      BY <3>1
    <3> QED BY <3>2, FS_Singleton
  <2> QED BY <2>2, <2>3, <2>4 DEF Readable, OwnersHaveHunters, PinsAreHashed, Hashed
<1> QED BY <1>1, SchemaInvInit, SchemaInvStep, PTL DEF Spec
====
