------------------------------- MODULE Throttle --------------------------------
(***************************************************************************)
(* The login throttle (auth_throttle.rs): each node counts, in memory, the *)
(* failed logins of an account and locks it for a while, longer with every *)
(* failure past the limit.  Time is counted in fractions of a second,      *)
(* since what is left of a lock is rounded down to whole seconds.          *)
(***************************************************************************)
EXTENDS Integers, Sequences, FiniteSetsExt

CONSTANTS
  Nodes,
  Accounts,
  Second,       \* instants in a second
  LockAfter,    \* failures before the first lock (5)
  LockSeconds,  \* its length in seconds (30), and what each failure more adds
  MaxLock,      \* the longest lock in seconds (10 minutes)
  ForgetAfter,  \* instants without an attempt after which a count is dropped (30 minutes)
  MaxTime       \* bound: the clock stops here

ASSUME ThrottleAssumption ==
  /\ {Second, LockAfter, LockSeconds} \subseteq Nat \ {0}
  /\ {MaxLock, ForgetAfter, MaxTime} \subseteq Nat
  /\ MaxLock * Second <= ForgetAfter

VARIABLES
  now,          \* the servers' clock
  attempts,     \* per node: account -> AttemptState, for the accounts it counts
  failed        \* history, per node and account: the times of the failures counted
                \* since the last success and since the node came up

throttleVars == <<now, attempts, failed>>

NoAttempts == [a \in {} |-> 0]

ThrottleInit ==
  /\ now = 0
  /\ attempts = [n \in Nodes |-> NoAttempts]
  /\ failed = [n \in Nodes |-> [a \in Accounts |-> <<>>]]

\* Mutant: the first lock is empty, since the failure that causes it is not counted.
LockLengthShort(failures) == Min({LockSeconds * (failures - LockAfter), MaxLock}) * Second

LockLength(failures) == Min({LockSeconds * (failures - LockAfter + 1), MaxLock}) * Second

\* cleanup_expired
Cleaned(map) ==
  LET kept == {a \in DOMAIN map : \/ now - map[a].seen <= ForgetAfter
                                  \/ map[a].until > now}
  IN [a \in kept |-> map[a]]

\* blocked_seconds, of the cleaned map
BlockedSeconds(n, a) ==
  LET map == Cleaned(attempts[n])
  IN IF a \in DOMAIN map THEN Max({(map[a].until - now) \div Second, 0}) ELSE 0

\* The attempt is let through or told how long to wait; the map is cleaned either way.
Look(n) ==
  /\ attempts' = [attempts EXCEPT ![n] = Cleaned(@)]
  /\ UNCHANGED <<now, failed>>

RecordSuccess(n, a) ==
  /\ attempts' = [attempts EXCEPT ![n] = [b \in DOMAIN @ \ {a} |-> @[b]]]
  /\ failed' = [failed EXCEPT ![n][a] = <<>>]
  /\ UNCHANGED now

RecordFailure(n, a) ==
  LET map      == Cleaned(attempts[n])
      before   == IF a \in DOMAIN map THEN map[a] ELSE [failures |-> 0, until |-> 0, seen |-> now]
      failures == before.failures + 1
      state    == [failures |-> failures, seen |-> now,
                   until |-> IF failures >= LockAfter THEN now + LockLength(failures)
                             ELSE before.until]
  IN /\ attempts' = [attempts EXCEPT ![n] =
                       [b \in DOMAIN map \union {a} |-> IF b = a THEN state ELSE map[b]]]
     /\ failed' = [failed EXCEPT ![n][a] = Append(@, now)]
     /\ UNCHANGED now

\* The map is memory: it goes with the process.
ForgetAttempts(n) ==
  /\ attempts' = [attempts EXCEPT ![n] = NoAttempts]
  /\ failed' = [failed EXCEPT ![n] = [a \in Accounts |-> <<>>]]
  /\ UNCHANGED now

Tick == now < MaxTime /\ now' = now + 1 /\ UNCHANGED <<attempts, failed>>

(* What the history says *)

\* The failures that still count: a run in which no two lie further apart than
\* ForgetAfter, and the last not further back.
RunOfFailures(times) ==
  LET gap(i) == (IF i = Len(times) THEN now ELSE times[i + 1]) - times[i]
      cuts   == {i \in DOMAIN times : gap(i) > ForgetAfter}
      from   == IF cuts = {} THEN 1 ELSE Max(cuts) + 1
  IN SubSeq(times, from, Len(times))

\* The account is in the lock that its last failure calls for, up to the part of a second
\* that rounding gives away.
Deserved(n, a) ==
  LET run == RunOfFailures(failed[n][a])
      k   == Len(run)
  IN k >= LockAfter
       /\ now + Second <= run[k] + Min({LockSeconds * (k - LockAfter + 1), MaxLock}) * Second
===============================================================================
