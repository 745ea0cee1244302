---------------------------- MODULE Messages_proofs ----------------------------
(***************************************************************************)
(* Proofs about Messages, for any number of client ids and requests in     *)
(* flight, any page size and any span of time.                             *)
(***************************************************************************)
EXTENDS Messages, FiniteSetTheorems, WellFoundedInduction, TLAPS

-------------------------------------------------------------------------------
(* The least and the greatest of a set of numbers.                         *)

\* A set of naturals has a least member, which is its Min.
LEMMA MinIsLeast ==
  ASSUME NEW S \in SUBSET Nat, S # {}
  PROVE  Min(S) \in S /\ \A y \in S : Min(S) <= y
<1> DEFINE R == {ss \in Nat \X Nat : ss[1] < ss[2]}
<1>1. IsWellFoundedOn(R, Nat)
  BY NatLessThanWellFounded DEF OpToRel
<1> HIDE DEF R
<1>2. PICK x \in S : \A y \in S : ~(<<y, x>> \in R)
  BY <1>1, WFMin
<1>3. \A y \in S : ~(y < x)
  BY <1>2 DEF R
<1>4. \A y \in S : x <= y
  BY <1>3
<1> QED BY <1>4 DEF Min

\* A set of numbers below a bound has a greatest member, which is its Max.
LEMMA MaxIsGreatest ==
  ASSUME NEW n \in Nat, NEW S \in SUBSET (0 .. n), S # {}
  PROVE  Max(S) \in S /\ \A y \in S : y <= Max(S)
<1> DEFINE T == {k \in Nat : n - k \in S}
<1>1. ASSUME NEW z \in S PROVE n - z \in T
  <2>1. n - (n - z) = z /\ n - z \in Nat
    BY <1>1
  <2> QED BY <2>1
<1>2. T \in SUBSET Nat /\ T # {}
  BY <1>1
<1> DEFINE k == Min(T)
<1> HIDE DEF T, k
<1>3. k \in T /\ \A j \in T : k <= j
  BY <1>2, MinIsLeast DEF k
<1>4. n - k \in S /\ k \in Nat
  BY <1>3 DEF T
<1>5. ASSUME NEW y \in S PROVE n - k >= y
  <2>1. y \in 0 .. n
    OBVIOUS
  <2>2. k <= n - y
    BY <1>1, <1>3
  <2> QED BY <1>4, <2>1, <2>2
<1>6. \E x \in S : \A y \in S : x >= y
  BY <1>4, <1>5
<1>7. Max(S) \in S /\ \A y \in S : Max(S) >= y
  BY <1>6 DEF Max
<1> QED BY <1>7

-------------------------------------------------------------------------------
(* Types.                                                                  *)

Row == [table : Tables, client_id : ClientIds, from : Hunters, at : Times]

KeyState == {"none", "active", "revoked"}

Looking == [at : {"recipient_key", "encrypted_insert"}, id : ClientIds, from : Hunters]

CapabilityReading == [at : {"capability_read"}, id : ClientIds]

CapabilityWriting == [at : {"capability_write"}, id : ClientIds, found : {"none", "encrypted"}]

Registering == [at : {"register_write"}, hunter : Hunters, found : KeyState]

Revoking == [at : {"revoke_write"}, hunter : Hunters]

MarkingEncrypted == [at : {"mark_encrypted"}, hunter : Hunters,
                     plain : Times \cup {NoTime}, count : Nat]

MarkingRead == [at : {"mark_read"}, hunter : Hunters, count : Nat, to : Times]

MarkingWrite == [at : {"mark_write"}, hunter : Hunters, count : Nat, to : Times,
                 found : Times \cup {NoTime}]

Task == Looking \cup CapabilityReading \cup CapabilityWriting \cup Registering \cup Revoking
          \cup MarkingEncrypted \cup MarkingRead \cup MarkingWrite \cup {Idle}

TypeInv ==
  /\ rows \subseteq Row /\ IsFiniteSet(rows)
  /\ key \in [Hunters -> KeyState]
  /\ capability \in {"none", "encrypted"}
  /\ marker \in [Hunters -> Times \cup {NoTime}]
  /\ answered \subseteq ClientIds
  /\ settled \subseteq Hunters
  /\ overtaken \subseteq Slots
  /\ task \in [Slots -> Task]

\* Where a task is says what it holds.
LEMMA TaskKinds ==
  ASSUME NEW t \in Task
  PROVE  /\ t.at \in {"recipient_key", "encrypted_insert"} => t \in Looking
         /\ t.at = "capability_read" => t \in CapabilityReading
         /\ t.at = "capability_write" => t \in CapabilityWriting
         /\ t.at = "register_write" => t \in Registering
         /\ t.at = "revoke_write" => t \in Revoking
         /\ t.at = "mark_encrypted" => t \in MarkingEncrypted
         /\ t.at = "mark_read" => t \in MarkingRead
         /\ t.at = "mark_write" => t \in MarkingWrite
<1>1. t \in Looking => t.at \in {"recipient_key", "encrypted_insert"}
  BY DEF Looking
<1>2. t \in CapabilityReading => t.at = "capability_read"
  BY DEF CapabilityReading
<1>3. t \in CapabilityWriting => t.at = "capability_write"
  BY DEF CapabilityWriting
<1>4. t \in Registering => t.at = "register_write"
  BY DEF Registering
<1>5. t \in Revoking => t.at = "revoke_write"
  BY DEF Revoking
<1>6. t \in MarkingEncrypted => t.at = "mark_encrypted"
  BY DEF MarkingEncrypted
<1>7. t \in MarkingRead => t.at = "mark_read"
  BY DEF MarkingRead
<1>8. t \in MarkingWrite => t.at = "mark_write"
  BY DEF MarkingWrite
<1>9. t = Idle => t.at = "idle"
  BY DEF Idle
<1> QED BY <1>1, <1>2, <1>3, <1>4, <1>5, <1>6, <1>7, <1>8, <1>9 DEF Task

\* Latest is the time of the newest of some messages.
LEMMA LatestIsNewest ==
  ASSUME NEW ms \in SUBSET Row
  PROVE  /\ Latest(ms) \in Times \cup {NoTime}
         /\ \A m \in ms : Latest(ms) \in Times /\ m.at <= Latest(ms)
<1> DEFINE S == {m.at : m \in ms}
<1>1. S \in SUBSET (0 .. MaxTime)
  BY DEF Row, Times
<1>2. CASE ms = {}
  BY <1>2 DEF Latest
<1>3. CASE ms # {}
  <2>1. S # {}
    BY <1>3
  <2>2. Max(S) \in S /\ \A y \in S : y <= Max(S)
    BY <1>1, <2>1, MaxIsGreatest, MessagesAssumption
  <2>3. Latest(ms) = Max(S)
    BY <1>3 DEF Latest
  <2> QED BY <1>1, <2>2, <2>3 DEF Times
<1> QED BY <1>2, <1>3

\* The newer of two times, of which either may be missing
LEMMA LatestTimestampIsNewer ==
  ASSUME NEW x \in Times \cup {NoTime}, NEW y \in Times \cup {NoTime}
  PROVE  /\ LatestTimestamp(x, y) \in Times \cup {NoTime}
         /\ x # NoTime => LatestTimestamp(x, y) \in Times /\ x <= LatestTimestamp(x, y)
         /\ y # NoTime => LatestTimestamp(x, y) \in Times /\ y <= LatestTimestamp(x, y)
<1>0. NoTime \notin Times /\ \A t \in Times : t <= t
  BY MessagesAssumption DEF Times
<1>1. CASE x = NoTime \/ y = NoTime
  BY <1>0, <1>1 DEF LatestTimestamp
<1>2. CASE x # NoTime /\ y # NoTime
  <2>1. {x, y} \in SUBSET (0 .. MaxTime)
    BY <1>2 DEF Times
  <2>2. Max({x, y}) \in {x, y} /\ \A z \in {x, y} : z <= Max({x, y})
    BY <2>1, MaxIsGreatest, MessagesAssumption
  <2> QED BY <1>2, <2>2 DEF LatestTimestamp
<1> QED BY <1>1, <1>2

\* What a handler may do next
Acts(s) ==
  \/ \E h \in Hunters, id \in ClientIds, at \in Times :
       \E t \in {"plain", "chat"} : Post(s, t, id, h, at)
  \/ \E h \in Hunters, id \in ClientIds : BeginEncrypted(s, id, h)
  \/ RecipientKey(s)
  \/ \E at \in Times : EncryptedInsert(s, at)
  \/ CapabilityRead(s) \/ CapabilityWrite(s)
  \/ \E h \in Hunters : BeginRegister(s, h) \/ BeginRevoke(s, h)
  \/ RegisterWrite(s) \/ RevokeWrite(s)
  \/ \E h \in Hunters : BeginMark(s, h)
  \/ \E now \in Times : MarkEncrypted(s, now)
  \/ MarkRead(s) \/ MarkWrite(s)
  \/ Drop(s)

\* A client reads on.
Reads == (\E t \in Tables : FirstPage(t)) \/ NextPage

\* A step is a client's that reads, or a handler's.
LEMMA NextActs == Next <=> Reads \/ \E s \in Slots : Acts(s)
  BY DEF Next, Reads, Acts

\* What a handler goes on with is a task, and the others keep theirs.
LEMMA TaskStep ==
  ASSUME TypeInv, NEW s \in Slots, Acts(s)
  PROVE  task' = [task EXCEPT ![s] = task'[s]] /\ task'[s] \in Task
<1>0. task \in [Slots -> Task] /\ task[s] \in Task
  BY DEF TypeInv
<1>1. ASSUME NEW t \in Task, Begin(s, t) \/ Continue(s, t)
      PROVE  task' = [task EXCEPT ![s] = task'[s]] /\ task'[s] \in Task
  BY <1>0, <1>1 DEF Begin, Continue
<1>2. ASSUME Answer(s) PROVE task' = [task EXCEPT ![s] = task'[s]] /\ task'[s] \in Task
  <2>1. Idle \in Task
    BY DEF Task
  <2> QED BY <1>1, <1>2, <2>1 DEF Answer
<1>3. ASSUME Once(s) PROVE task' = [task EXCEPT ![s] = task'[s]] /\ task'[s] \in Task
  BY <1>0, <1>3 DEF Once
<1>4. ASSUME NEW h \in Hunters, NEW id \in ClientIds, NEW at \in Times,
             NEW t \in {"plain", "chat"}, Post(s, t, id, h, at)
      PROVE  Once(s)
  BY <1>4 DEF Post
<1>5. ASSUME NEW h \in Hunters, NEW id \in ClientIds, BeginEncrypted(s, id, h)
      PROVE  \E t \in Task : Begin(s, t)
  <2>1. [at |-> "recipient_key", id |-> id, from |-> h] \in Task
    BY DEF Task, Looking
  <2> QED BY <1>5, <2>1 DEF BeginEncrypted
<1>6. ASSUME RecipientKey(s) PROVE Answer(s) \/ \E t \in Task : Continue(s, t)
  <2>1. task[s] \in Looking
    BY <1>0, <1>6, TaskKinds DEF RecipientKey, At
  <2>2. [task[s] EXCEPT !.at = "encrypted_insert"] \in Looking
    BY <2>1 DEF Looking
  <2>3. [task[s] EXCEPT !.at = "encrypted_insert"] \in Task
    BY <2>2 DEF Task
  <2> QED BY <1>6, <2>3 DEF RecipientKey
<1>7. ASSUME NEW at \in Times, EncryptedInsert(s, at) PROVE \E t \in Task : Continue(s, t)
  <2>1. task[s] \in Looking
    BY <1>0, <1>7, TaskKinds DEF EncryptedInsert, At
  <2>2. [at |-> "capability_read", id |-> task[s].id] \in Task
    BY <2>1 DEF Task, Looking, CapabilityReading
  <2> QED BY <1>7, <2>2 DEF EncryptedInsert
<1>8. ASSUME CapabilityRead(s) PROVE \E t \in Task : Continue(s, t)
  <2>1. task[s] \in CapabilityReading
    BY <1>0, <1>8, TaskKinds DEF CapabilityRead, At
  <2>2. [at |-> "capability_write", id |-> task[s].id, found |-> capability] \in Task
    BY <2>1 DEF Task, CapabilityReading, CapabilityWriting, TypeInv
  <2> QED BY <1>8, <2>2 DEF CapabilityRead
<1>9. ASSUME NEW h \in Hunters, BeginRegister(s, h) PROVE \E t \in Task : Begin(s, t)
  <2>1. [at |-> "register_write", hunter |-> h, found |-> key[h]] \in Task
    BY DEF Task, Registering, TypeInv
  <2> QED BY <1>9, <2>1 DEF BeginRegister
<1>10. ASSUME NEW h \in Hunters, BeginRevoke(s, h) PROVE \E t \in Task : Begin(s, t)
  <2>1. [at |-> "revoke_write", hunter |-> h] \in Task
    BY DEF Task, Revoking
  <2> QED BY <1>10, <2>1 DEF BeginRevoke
<1>11. ASSUME NEW h \in Hunters, BeginMark(s, h) PROVE \E t \in Task : Begin(s, t)
  <2>1. Latest(Table("plain")) \in Times \cup {NoTime}
    BY LatestIsNewest DEF Table, TypeInv
  <2>2. Cardinality(DirectRows) \in Nat
    BY FS_Subset, FS_CardinalityType DEF DirectRows, TypeInv
  <2>3. [at |-> "mark_encrypted", hunter |-> h, plain |-> Latest(Table("plain")),
         count |-> Cardinality(DirectRows)] \in Task
    BY <2>1, <2>2 DEF Task, MarkingEncrypted
  <2> QED BY <1>11, <2>3 DEF BeginMark
<1>12. ASSUME NEW now \in Times, MarkEncrypted(s, now) PROVE \E t \in Task : Continue(s, t)
  <2> DEFINE latest == LatestTimestamp(task[s].plain, Latest(Table("encrypted")))
  <2>1. task[s] \in MarkingEncrypted
    BY <1>0, <1>12, TaskKinds DEF MarkEncrypted, At
  <2>2. task[s].plain \in Times \cup {NoTime} /\ task[s].hunter \in Hunters /\ task[s].count \in Nat
    BY <2>1 DEF MarkingEncrypted
  <2>3. Latest(Table("encrypted")) \in Times \cup {NoTime}
    BY LatestIsNewest DEF Table, TypeInv
  <2>4. latest \in Times \cup {NoTime}
    BY <2>2, <2>3, LatestTimestampIsNewer
  <2> HIDE DEF latest
  <2>5. [at |-> "mark_read", hunter |-> task[s].hunter, count |-> task[s].count,
         to |-> IF latest = NoTime THEN now ELSE latest] \in Task
    BY <2>2, <2>4 DEF Task, MarkingRead
  <2> QED BY <1>12, <2>5 DEF MarkEncrypted, latest
<1>13. ASSUME MarkRead(s) PROVE \E t \in Task : Continue(s, t)
  <2>1. task[s] \in MarkingRead
    BY <1>0, <1>13, TaskKinds DEF MarkRead, At
  <2>2. [at |-> "mark_write", hunter |-> task[s].hunter, count |-> task[s].count,
         to |-> task[s].to, found |-> marker[task[s].hunter]] \in Task
    BY <2>1 DEF Task, MarkingRead, MarkingWrite, TypeInv
  <2> QED BY <1>13, <2>2 DEF MarkRead
<1>14. ASSUME CapabilityWrite(s) \/ RegisterWrite(s) \/ RevokeWrite(s) \/ MarkWrite(s) \/ Drop(s)
       PROVE  Answer(s)
  BY <1>14 DEF CapabilityWrite, RegisterWrite, RevokeWrite, MarkWrite, Drop, Abandon
<1> QED BY <1>1, <1>2, <1>3, <1>4, <1>5, <1>6, <1>7, <1>8, <1>9, <1>10, <1>11, <1>12, <1>13, <1>14
        DEF Acts

\* A row that no client id of its table keeps out is stored.
NewRow(m) ==
  /\ rows' = rows \cup {m} /\ m \notin rows
  /\ Stored(m.table, m.client_id) = {}
  /\ m.table \in Direct => settled' = {}

Grow == rows' = rows \/ \E m \in Row : NewRow(m)

\* The rows only grow: by one new row, whose client id its table did not have.
LEMMA RowsGrow ==
  ASSUME TypeInv, [Next]_vars
  PROVE  Grow
<1>1. ASSUME NEW t \in Tables, NEW id \in ClientIds, NEW h \in Hunters, NEW at \in Times,
             InsertMessage(t, id, h, at)
      PROVE  Grow
  <2>1. CASE Stored(t, id) # {}
    BY <1>1, <2>1 DEF InsertMessage, Grow
  <2>2. CASE Stored(t, id) = {}
    <3> DEFINE m == Message(t, id, h, at)
    <3>1. m \in Row /\ m.table = t /\ m.client_id = id
      BY DEF Message, Row
    <3>2. m \notin rows
      BY <2>2, <3>1 DEF Stored, Table
    <3>3. rows' = rows \cup {m} /\ (t \in Direct => settled' = {})
      BY <1>1, <2>2 DEF InsertMessage
    <3> HIDE DEF m
    <3> QED BY <2>2, <3>1, <3>2, <3>3 DEF NewRow, Grow
  <2> QED BY <2>1, <2>2
<1>2. ASSUME NEW s \in Slots, NEW h \in Hunters, NEW id \in ClientIds, NEW at \in Times,
             NEW t \in {"plain", "chat"}, Post(s, t, id, h, at)
      PROVE  InsertMessage(t, id, h, at) /\ t \in Tables
  BY <1>2 DEF Post, Tables
<1>3. ASSUME NEW s \in Slots, NEW at \in Times, EncryptedInsert(s, at)
      PROVE  /\ InsertMessage("encrypted", task[s].id, task[s].from, at)
             /\ task[s].id \in ClientIds /\ task[s].from \in Hunters
  <2>1. task[s] \in Looking
    BY <1>3, TaskKinds DEF EncryptedInsert, At, TypeInv
  <2> QED BY <1>3, <2>1 DEF EncryptedInsert, Looking
<1>4. "encrypted" \in Tables
  BY DEF Tables
<1>5. ASSUME NEW s \in Slots, Acts(s)
      PROVE \/ rows' = rows
            \/ \E h \in Hunters, id \in ClientIds, at \in Times :
                 \E t \in {"plain", "chat"} : Post(s, t, id, h, at)
            \/ \E at \in Times : EncryptedInsert(s, at)
  BY <1>5 DEF Acts, BeginEncrypted, RecipientKey, CapabilityRead, CapabilityWrite, BeginRegister,
              BeginRevoke, RegisterWrite, RevokeWrite, BeginMark, MarkEncrypted, MarkRead,
              MarkWrite, Drop
<1>6. Reads \/ UNCHANGED vars => rows' = rows
  BY DEF Reads, FirstPage, NextPage, vars
<1>7. ASSUME NEW s \in Slots, Acts(s)
      PROVE  Grow
  <2>1. ASSUME NEW h \in Hunters, NEW id \in ClientIds, NEW at \in Times,
               NEW t \in {"plain", "chat"}, Post(s, t, id, h, at)
        PROVE  Grow
    <3>1. InsertMessage(t, id, h, at) /\ t \in Tables
      BY <1>2, <2>1
    <3> QED BY <1>1, <3>1
  <2>2. ASSUME NEW at \in Times, EncryptedInsert(s, at)
        PROVE  Grow
    BY <1>1, <1>3, <1>4, <2>2
  <2> QED BY <1>5, <1>7, <2>1, <2>2 DEF Grow
<1> QED BY <1>6, <1>7, NextActs DEF Grow

\* The tasks of the other slots stay, and whoever reads or does nothing leaves all tasks.
LEMMA OthersKeepTheirTask ==
  ASSUME TypeInv, [Next]_vars
  PROVE  \/ task' = task
         \/ \E s \in Slots : /\ Acts(s) /\ task'[s] \in Task
                            /\ \A o \in Slots \ {s} : task'[o] = task[o]
<1>1. CASE Reads \/ UNCHANGED vars
  BY <1>1 DEF Reads, FirstPage, NextPage, vars, handlerVars
<1>2. ASSUME NEW s \in Slots, Acts(s)
      PROVE  task'[s] \in Task /\ \A o \in Slots \ {s} : task'[o] = task[o]
  BY <1>2, TaskStep DEF TypeInv
<1> QED BY <1>1, <1>2, NextActs

\* The state the system starts in is of the types.
LEMMA TypeInit == Init => TypeInv
<1> SUFFICES ASSUME Init PROVE TypeInv
  OBVIOUS
<1>1. task \in [Slots -> Task]
  BY DEF Init, HandlersInit, Task
<1> QED BY <1>1, FS_EmptySet DEF Init, TypeInv, KeyState

\* Every step keeps the types.
LEMMA TypeStep == TypeInv /\ [Next]_vars => TypeInv'
<1> SUFFICES ASSUME TypeInv, [Next]_vars PROVE TypeInv'
  OBVIOUS
<1>1. rows' \subseteq Row /\ IsFiniteSet(rows')
  <2>1. IsFiniteSet(rows)
    BY DEF TypeInv
  <2>2. \A m : IsFiniteSet(rows \cup {m})
    BY <2>1, FS_AddElement
  <2> QED BY <2>1, <2>2, RowsGrow DEF Grow, NewRow, TypeInv
<1>2. task' \in [Slots -> Task]
  <2>1. ASSUME NEW s \in Slots, Acts(s) PROVE task' \in [Slots -> Task]
    BY <2>1, TaskStep DEF TypeInv
  <2> QED BY <2>1, NextActs DEF Reads, FirstPage, NextPage, vars, handlerVars, TypeInv
<1> DEFINE Rest == /\ key' \in [Hunters -> KeyState]
                   /\ capability' \in {"none", "encrypted"}
                   /\ marker' \in [Hunters -> Times \cup {NoTime}]
                   /\ answered' \subseteq ClientIds
                   /\ settled' \subseteq Hunters
                   /\ overtaken' \subseteq Slots
<1>3. ASSUME Reads \/ UNCHANGED vars PROVE Rest
  BY <1>3 DEF Reads, FirstPage, NextPage, vars, TypeInv
<1>4. ASSUME NEW s \in Slots, Acts(s) PROVE Rest
  <2>0. task[s] \in Task
    BY DEF TypeInv
  <2>1. ASSUME NEW t \in Tables, NEW id \in ClientIds, NEW h \in Hunters, NEW at \in Times,
               InsertMessage(t, id, h, at)
        PROVE  settled' \subseteq Hunters
    BY <2>1 DEF InsertMessage, TypeInv
  <2>2. ASSUME NEW h \in Hunters, NEW id \in ClientIds, NEW at \in Times,
               NEW t \in {"plain", "chat"}, Post(s, t, id, h, at)
        PROVE  Rest
    <3>1. t \in Tables
      BY DEF Tables
    <3> QED BY <2>1, <2>2, <3>1 DEF Post, TypeInv
  <2>3. ASSUME NEW at \in Times, EncryptedInsert(s, at) PROVE Rest
    <3>1. task[s] \in Looking /\ "encrypted" \in Tables
      BY <2>0, <2>3, TaskKinds DEF EncryptedInsert, At, Tables
    <3> QED BY <2>1, <2>3, <3>1 DEF EncryptedInsert, TypeInv, Looking
  <2>4. ASSUME CapabilityWrite(s) PROVE Rest
    <3>1. task[s] \in CapabilityWriting
      BY <2>0, <2>4, TaskKinds DEF CapabilityWrite, At
    <3> QED BY <2>4, <3>1 DEF CapabilityWrite, TypeInv, CapabilityWriting
  <2>5. ASSUME RegisterWrite(s) PROVE Rest
    <3>1. task[s] \in Registering
      BY <2>0, <2>5, TaskKinds DEF RegisterWrite, At
    <3> QED BY <2>5, <3>1 DEF RegisterWrite, TypeInv, Registering, KeyState
  <2>6. ASSUME RevokeWrite(s) PROVE Rest
    <3>1. task[s] \in Revoking
      BY <2>0, <2>6, TaskKinds DEF RevokeWrite, At
    <3> QED BY <2>6, <3>1 DEF RevokeWrite, TypeInv, Revoking, KeyState
  <2>7. ASSUME MarkWrite(s) PROVE Rest
    <3>1. task[s] \in MarkingWrite
      BY <2>0, <2>7, TaskKinds DEF MarkWrite, At
    <3> QED BY <2>7, <3>1 DEF MarkWrite, TypeInv, MarkingWrite
  <2>8. ASSUME \/ \E h \in Hunters, id \in ClientIds : BeginEncrypted(s, id, h)
               \/ RecipientKey(s) \/ CapabilityRead(s)
               \/ \E h \in Hunters : BeginRegister(s, h) \/ BeginRevoke(s, h) \/ BeginMark(s, h)
               \/ \E now \in Times : MarkEncrypted(s, now)
               \/ MarkRead(s) \/ Drop(s)
        PROVE  Rest
    BY <2>8 DEF BeginEncrypted, RecipientKey, CapabilityRead, BeginRegister, BeginRevoke,
                BeginMark, MarkEncrypted, MarkRead, Drop, TypeInv
  <2> HIDE DEF Rest
  <2> QED BY <1>4, <2>2, <2>3, <2>4, <2>5, <2>6, <2>7, <2>8 DEF Acts
<1> QED BY <1>1, <1>2, <1>3, <1>4, NextActs DEF TypeInv

-------------------------------------------------------------------------------
(* Messages are stored once.                                               *)

\* What a send that is about to read or to write the capability has stored is there.
StoredFor(s) ==
  task[s].at \in {"capability_read", "capability_write"} =>
    \E m \in rows : m.table = "encrypted" /\ m.client_id = task[s].id

\* A client id has at most one row in a table, what a send that reads or writes the
\* capability has stored is there, and an answer leaves the conversation encrypted.
SendInv ==
  /\ \A m \in rows : Stored(m.table, m.client_id) = {m}
  /\ \A s \in Slots : StoredFor(s)
  /\ \A id \in answered : Stored("encrypted", id) # {}
  /\ answered # {} => capability = "encrypted"

\* What is stored stays stored.
LEMMA StoredStays ==
  ASSUME TypeInv, [Next]_vars, NEW t, NEW id, Stored(t, id) # {}
  PROVE  (Stored(t, id) # {})'
BY RowsGrow DEF Grow, NewRow, Stored, Table

\* A task that keeps its client id keeps its row.
LEMMA StoredForStays ==
  ASSUME TypeInv, [Next]_vars, NEW s,
         \E m \in rows : m.table = "encrypted" /\ m.client_id = task'[s].id
  PROVE  StoredFor(s)'
<1>1. \A m \in rows : m \in rows'
  BY RowsGrow DEF Grow, NewRow
<1> QED BY <1>1 DEF StoredFor

\* No step stores a client id twice, or answers for one that is not stored.
LEMMA SendStep == TypeInv /\ SendInv /\ [Next]_vars => SendInv'
<1> SUFFICES ASSUME TypeInv, SendInv, [Next]_vars PROVE SendInv'
  OBVIOUS
<1>1. (\A m \in rows : Stored(m.table, m.client_id) = {m})'
  <2>1. CASE rows' = rows
    BY <2>1 DEF SendInv, Stored, Table
  <2>2. ASSUME NEW n \in Row, NewRow(n)
        PROVE  (\A m \in rows : Stored(m.table, m.client_id) = {m})'
    <3>1. \A o \in rows : ~(o.table = n.table /\ o.client_id = n.client_id)
      BY <2>2 DEF NewRow, Stored, Table
    <3>2. ASSUME NEW m \in rows' PROVE \A o \in rows' : o.table = m.table /\ o.client_id = m.client_id => o = m
      <4>1. \A x \in rows' : x \in rows \/ x = n
        BY <2>2 DEF NewRow
      <4>2. ASSUME NEW x \in rows, NEW y \in rows, x.table = y.table, x.client_id = y.client_id
            PROVE  x = y
        BY <4>2 DEF SendInv, Stored, Table
      <4> QED BY <3>1, <4>1, <4>2
    <3> QED BY <3>2 DEF Stored, Table
  <2> QED BY <2>1, <2>2, RowsGrow DEF Grow
<1>2. ASSUME NEW s \in Slots, Acts(s)
      PROVE  /\ StoredFor(s)'
             /\ \/ answered' = answered /\ capability' = capability
                \/ /\ \E id : answered' \subseteq answered \cup {id} /\ Stored("encrypted", id) # {}
                   /\ capability' = "encrypted"
  <2>0. task[s] \in Task /\ task \in [Slots -> Task]
    BY DEF TypeInv
  <2> DEFINE Goal == /\ StoredFor(s)'
                     /\ \/ answered' = answered /\ capability' = capability
                        \/ /\ \E id : answered' \subseteq answered \cup {id} /\ Stored("encrypted", id) # {}
                           /\ capability' = "encrypted"
  <2>1. ASSUME NEW at \in Times, EncryptedInsert(s, at) PROVE Goal
    <3>1. InsertMessage("encrypted", task[s].id, task[s].from, at)
      BY <2>1 DEF EncryptedInsert
    <3>2. task'[s].id = task[s].id /\ answered' = answered /\ capability' = capability
      BY <2>0, <2>1 DEF EncryptedInsert, Continue
    <3>3. CASE Stored("encrypted", task[s].id) # {}
      <4>1. \E m \in rows : m.table = "encrypted" /\ m.client_id = task'[s].id
        BY <3>2, <3>3 DEF Stored, Table
      <4> QED BY <3>2, <4>1, StoredForStays
    <3>4. CASE rows' = rows \cup {Message("encrypted", task[s].id, task[s].from, at)}
      <4>0. PICK n : n = Message("encrypted", task[s].id, task[s].from, at)
        OBVIOUS
      <4>1. n.table = "encrypted" /\ n.client_id = task[s].id
        BY <4>0 DEF Message
      <4>2. n \in rows'
        BY <3>4, <4>0
      <4>3. \E m \in rows' : m.table = "encrypted" /\ m.client_id = task'[s].id
        BY <3>2, <4>1, <4>2
      <4> QED BY <3>2, <4>3 DEF StoredFor
    <3> QED BY <3>1, <3>3, <3>4 DEF InsertMessage
  <2>2. ASSUME CapabilityRead(s) PROVE Goal
    <3>1. task'[s].id = task[s].id /\ answered' = answered /\ capability' = capability
      BY <2>0, <2>2 DEF CapabilityRead, Continue
    <3>2. \E m \in rows : m.table = "encrypted" /\ m.client_id = task'[s].id
      BY <2>2, <3>1 DEF CapabilityRead, At, SendInv, StoredFor
    <3> QED BY <3>1, <3>2, StoredForStays
  <2>3. ASSUME CapabilityWrite(s) PROVE Goal
    <3>1. task'[s].at = "idle"
      BY <2>0, <2>3 DEF CapabilityWrite, Answer, Continue, Idle
    <3>2. Stored("encrypted", task[s].id) # {}
      BY <2>3 DEF CapabilityWrite, At, SendInv, StoredFor, Stored, Table
    <3>3. answered' \subseteq answered \cup {task[s].id} /\ capability' = "encrypted"
      BY <2>3 DEF CapabilityWrite
    <3> QED BY <3>1, <3>2, <3>3 DEF StoredFor
  <2>4. ASSUME NEW h \in Hunters, NEW id \in ClientIds, NEW at \in Times,
               NEW t \in {"plain", "chat"}, Post(s, t, id, h, at)
        PROVE Goal
    BY <2>4 DEF Post, Once, Idle, StoredFor
  <2>5. ASSUME \/ \E h \in Hunters, id \in ClientIds : BeginEncrypted(s, id, h)
               \/ \E h \in Hunters : BeginRegister(s, h) \/ BeginRevoke(s, h) \/ BeginMark(s, h)
        PROVE  Goal
    BY <2>0, <2>5 DEF BeginEncrypted, BeginRegister, BeginRevoke, BeginMark, Begin, StoredFor
  <2>6. ASSUME RecipientKey(s) PROVE Goal
    <3>1. task[s] \in Looking
      BY <2>0, <2>6, TaskKinds DEF RecipientKey, At
    <3>2. task'[s].at \in {"encrypted_insert", "idle"}
      BY <2>0, <2>6, <3>1 DEF RecipientKey, Continue, Answer, Idle, Looking
    <3> QED BY <2>6, <3>2 DEF RecipientKey, StoredFor
  <2>7. ASSUME \/ RegisterWrite(s) \/ RevokeWrite(s) \/ MarkWrite(s) \/ Drop(s)
               \/ \E now \in Times : MarkEncrypted(s, now)
               \/ MarkRead(s)
        PROVE  Goal
    BY <2>0, <2>7 DEF RegisterWrite, RevokeWrite, MarkWrite, Drop, Abandon, MarkEncrypted, MarkRead,
                Continue, Answer, Idle, StoredFor
  <2> HIDE DEF Goal
  <2>8. Goal
    BY <1>2, <2>1, <2>2, <2>3, <2>4, <2>5, <2>6, <2>7 DEF Acts
  <2> QED BY <2>8 DEF Goal
<1>3. \A s \in Slots : task'[s] = task[s] => StoredFor(s)'
  BY StoredForStays DEF SendInv, StoredFor
<1>4. ASSUME Reads \/ UNCHANGED vars PROVE SendInv'
  <2>1. task' = task /\ answered' = answered /\ capability' = capability
    BY <1>4 DEF Reads, FirstPage, NextPage, vars, handlerVars
  <2>2. \A s \in Slots : StoredFor(s)'
    BY <1>3, <2>1
  <2> QED BY <1>1, <2>1, <2>2, StoredStays DEF SendInv
<1>5. ASSUME NEW s \in Slots, Acts(s) PROVE SendInv'
  <2>1. \A o \in Slots \ {s} : task'[o] = task[o]
    BY <1>5, TaskStep DEF TypeInv
  <2>2. \A o \in Slots : StoredFor(o)'
    BY <1>2, <1>3, <1>5, <2>1
  <2>3. (\A id \in answered : Stored("encrypted", id) # {})'
    <3>1. \A id : Stored("encrypted", id) # {} => (Stored("encrypted", id) # {})'
      BY StoredStays
    <3>2. \A id \in answered' : Stored("encrypted", id) # {}
      BY <1>2, <1>5 DEF SendInv
    <3> QED BY <3>1, <3>2
  <2>4. (answered # {} => capability = "encrypted")'
    BY <1>2, <1>5 DEF SendInv
  <2> QED BY <1>1, <2>2, <2>3, <2>4 DEF SendInv
<1> QED BY <1>4, <1>5, NextActs

\* A message is stored once, and an answered encrypted one shows in every thread list.
THEOREM SendsAreStoredOnce == Spec => []SendsOnce
<1>1. Init => TypeInv /\ SendInv
  <2>1. Init => SendInv
    BY DEF Init, HandlersInit, Idle, SendInv, StoredFor
  <2> QED BY <2>1, TypeInit
<1>2. TypeInv /\ SendInv /\ [Next]_vars => (TypeInv /\ SendInv)'
  BY TypeStep, SendStep
<1>3. SendInv => SendsOnce
  BY DEF SendInv, SendsOnce, ThreadModes
<1> QED BY <1>1, <1>2, <1>3, PTL DEF Spec

-------------------------------------------------------------------------------
(* Encrypted messages are stored for active keys.                          *)

\* The keys a send has found active are active, unless it was overtaken.
Looked(s) ==
  /\ task[s].at = "encrypted_insert" => \A h \in Hunters : key[h] = "active"
  /\ task[s].at = "recipient_key" => key[task[s].from] = "active"

KeyInv == \A s \in Slots \ overtaken : Looked(s)

\* A task that looks up no key needs none.
LEMMA LooksElsewhere ==
  ASSUME NEW s, task'[s].at \notin {"recipient_key", "encrypted_insert"}
  PROVE  Looked(s)'
BY DEF Looked

\* Every step keeps the keys of the sends that are not overtaken.
LEMMA KeyStep == TypeInv /\ KeyInv /\ [Next]_vars => KeyInv'
<1> SUFFICES ASSUME TypeInv, KeyInv, [Next]_vars PROVE KeyInv'
  OBVIOUS
<1>1. CASE Reads \/ UNCHANGED vars
  <2>1. task' = task /\ key' = key /\ overtaken' = overtaken
    BY <1>1 DEF Reads, FirstPage, NextPage, vars, handlerVars
  <2> QED BY <2>1 DEF KeyInv, Looked
<1>2. ASSUME NEW s \in Slots, Acts(s) PROVE KeyInv'
  <2>0. task[s] \in Task /\ task \in [Slots -> Task] /\ key \in [Hunters -> KeyState]
    BY DEF TypeInv
  <2>1. \A o \in Slots \ {s} : task'[o] = task[o]
    BY <1>2, TaskStep DEF TypeInv
  <2>2. \A o \in Slots : task[o].at \in {"recipient_key", "encrypted_insert"} => task[o].from \in Hunters
    <3>1. \A o \in Slots : task[o].at \in {"recipient_key", "encrypted_insert"} => task[o] \in Looking
      BY <2>0, TaskKinds
    <3> QED BY <3>1 DEF Looking
  <2>3. ASSUME RevokeWrite(s) PROVE KeyInv'
    <3>1. task'[s].at = "idle"
      BY <2>0, <2>3 DEF RevokeWrite, Answer, Continue, Idle
    <3>2. ASSUME NEW o \in Slots \ overtaken', o # s PROVE Looked(o)'
      <4>1. o \notin overtaken /\ ~LookedUp(o, task[s].hunter)
        BY <2>3, <3>2 DEF RevokeWrite
      <4>2. task'[o] = task[o]
        BY <2>1, <3>2
      <4>3. task[o].at # "encrypted_insert"
        BY <4>1 DEF LookedUp, At
      <4>4. ASSUME task[o].at = "recipient_key" PROVE key'[task[o].from] = "active"
        <5>1. task[o].from # task[s].hunter
          BY <4>1, <4>4 DEF LookedUp, At
        <5>2. key[task[o].from] = "active"
          BY <4>1, <4>4 DEF KeyInv, Looked
        <5> QED BY <2>0, <2>2, <2>3, <4>4, <5>1, <5>2 DEF RevokeWrite
      <4> QED BY <4>2, <4>3, <4>4 DEF Looked
    <3>3. Looked(s)'
      BY <3>1, LooksElsewhere
    <3> QED BY <3>2, <3>3 DEF KeyInv
  <2>4. ASSUME ~RevokeWrite(s)
        PROVE  /\ \A h \in Hunters : key[h] = "active" => key'[h] = "active"
               /\ overtaken \subseteq overtaken' \cup {s}
               /\ s \in overtaken' \/ Looked(s)'
    <3> DEFINE Kept == /\ \A h \in Hunters : key[h] = "active" => key'[h] = "active"
                       /\ overtaken \subseteq overtaken' \cup {s}
                       /\ s \in overtaken' \/ Looked(s)'
    <3>1. ASSUME NEW h \in Hunters, NEW id \in ClientIds, BeginEncrypted(s, id, h) PROVE Kept
      <4>1. task'[s] = [at |-> "recipient_key", id |-> id, from |-> h] /\ key' = key
            /\ overtaken' = overtaken /\ key[h] = "active"
        BY <2>0, <3>1 DEF BeginEncrypted, Begin
      <4> QED BY <4>1 DEF Looked
    <3>2. ASSUME RecipientKey(s) PROVE Kept
      <4>1. task[s] \in Looking /\ key' = key /\ task[s].at = "recipient_key"
        BY <2>0, <3>2, TaskKinds DEF RecipientKey, At
      <4>2. CASE \A h \in Hunters \ {task[s].from} : key[h] = "active"
        <5>1. task'[s].at = "encrypted_insert"
          BY <2>0, <3>2, <4>1, <4>2 DEF RecipientKey, Continue, Looking
        <5>2. overtaken' = overtaken
          BY <3>2, <5>1 DEF RecipientKey, Idle
        <5>3. s \notin overtaken => key[task[s].from] = "active"
          BY <4>1 DEF KeyInv, Looked
        <5> QED BY <4>1, <4>2, <5>1, <5>2, <5>3 DEF Looked
      <4>3. CASE ~(\A h \in Hunters \ {task[s].from} : key[h] = "active")
        <5>1. task'[s] = Idle
          BY <2>0, <3>2, <4>3 DEF RecipientKey, Answer, Continue
        <5>2. overtaken' = overtaken \ {s}
          BY <3>2, <5>1 DEF RecipientKey
        <5>3. Looked(s)'
          BY <5>1, LooksElsewhere DEF Idle
        <5> QED BY <4>1, <5>2, <5>3
      <4> QED BY <4>2, <4>3
    <3>3. ASSUME NEW at \in Times, EncryptedInsert(s, at) PROVE Kept
      <4>1. task'[s].at = "capability_read" /\ key' = key /\ overtaken' = overtaken \ {s}
        BY <2>0, <3>3 DEF EncryptedInsert, Continue
      <4> QED BY <4>1, LooksElsewhere
    <3>4. ASSUME RegisterWrite(s) PROVE Kept
      <4>1. task'[s].at = "idle" /\ overtaken' = overtaken
        BY <2>0, <3>4 DEF RegisterWrite, Answer, Continue, Idle
      <4>2. \A h \in Hunters : key[h] = "active" => key'[h] = "active"
        BY <2>0, <3>4 DEF RegisterWrite
      <4> QED BY <4>1, <4>2, LooksElsewhere
    <3>5. ASSUME NEW h \in Hunters, NEW id \in ClientIds, NEW at \in Times,
                 NEW t \in {"plain", "chat"}, Post(s, t, id, h, at)
          PROVE  Kept
      BY <3>5 DEF Post, Once, Looked, Idle
    <3>6. ASSUME \/ \E h \in Hunters : BeginRegister(s, h) \/ BeginRevoke(s, h) \/ BeginMark(s, h)
                 \/ CapabilityRead(s) \/ CapabilityWrite(s)
                 \/ \E now \in Times : MarkEncrypted(s, now)
                 \/ MarkRead(s) \/ MarkWrite(s) \/ Drop(s)
          PROVE  Kept
      <4>1. task'[s].at \notin {"recipient_key", "encrypted_insert"}
        BY <2>0, <3>6 DEF BeginRegister, BeginRevoke, BeginMark, CapabilityRead, CapabilityWrite,
             MarkEncrypted, MarkRead, MarkWrite, Drop, Abandon, Begin, Continue, Answer, Idle
      <4>2. key' = key /\ overtaken \subseteq overtaken' \cup {s}
        BY <3>6 DEF BeginRegister, BeginRevoke, BeginMark, CapabilityRead, CapabilityWrite,
             MarkEncrypted, MarkRead, MarkWrite, Drop
      <4> QED BY <4>1, <4>2, LooksElsewhere
    <3> HIDE DEF Kept
    <3>7. Kept
      BY <1>2, <2>4, <3>1, <3>2, <3>3, <3>4, <3>5, <3>6 DEF Acts
    <3> QED BY <3>7 DEF Kept
  <2>5. ASSUME ~RevokeWrite(s), NEW o \in Slots \ overtaken', o # s PROVE Looked(o)'
    <3>1. o \notin overtaken /\ task'[o] = task[o]
      BY <2>1, <2>4, <2>5
    <3> QED BY <2>2, <2>4, <2>5, <3>1 DEF KeyInv, Looked
  <2>6. CASE ~RevokeWrite(s)
    BY <2>4, <2>5, <2>6 DEF KeyInv
  <2> QED BY <2>3, <2>6
<1> QED BY <1>1, <1>2, NextActs

\* Only a send whose keys are active, or which was overtaken, stores encrypted messages.
THEOREM EncryptedReachesActiveKeys == Spec => SentToActiveKeys
<1>1. Init => TypeInv /\ KeyInv
  <2>1. Init => KeyInv
    <3> SUFFICES ASSUME Init, NEW s \in Slots \ overtaken PROVE Looked(s)
      BY DEF KeyInv
    <3>1. task[s].at = "idle"
      BY DEF Init, HandlersInit, Idle
    <3> QED BY <3>1 DEF Looked
  <2> QED BY <2>1, TypeInit
<1>2. TypeInv /\ KeyInv /\ [Next]_vars => (TypeInv /\ KeyInv)'
  BY TypeStep, KeyStep
<1> DEFINE Sent == rows' \ rows # {} /\ (\A m \in rows' \ rows : m.table = "encrypted") =>
                     \/ \A h \in Hunters : key[h] = "active"
                     \/ \E s \in overtaken : At(s, "encrypted_insert")
<1>3. TypeInv /\ KeyInv /\ [Next]_vars => [Sent]_vars
  <2> SUFFICES ASSUME TypeInv, KeyInv, Next, rows' \ rows # {},
                      \A m \in rows' \ rows : m.table = "encrypted"
               PROVE  \/ \A h \in Hunters : key[h] = "active"
                      \/ \E s \in overtaken : At(s, "encrypted_insert")
    OBVIOUS
  <2>1. PICK s \in Slots : Acts(s)
    BY NextActs DEF Reads, FirstPage, NextPage
  <2>2. ASSUME NEW h \in Hunters, NEW id \in ClientIds, NEW at \in Times,
               NEW t \in {"plain", "chat"}, Post(s, t, id, h, at)
        PROVE  FALSE
    <3>1. PICK m : m = Message(t, id, h, at)
      OBVIOUS
    <3>2. m.table # "encrypted"
      BY <3>1 DEF Message
    <3>3. rows' = rows \/ rows' = rows \cup {m}
      BY <2>2, <3>1 DEF Post, InsertMessage
    <3> QED BY <3>2, <3>3
  <2>3. ASSUME NEW at \in Times, EncryptedInsert(s, at)
        PROVE  \/ \A h \in Hunters : key[h] = "active"
               \/ s \in overtaken /\ At(s, "encrypted_insert")
    <3>1. task[s].at = "encrypted_insert"
      BY <2>3 DEF EncryptedInsert, At
    <3> QED BY <3>1 DEF KeyInv, Looked, At
  <2>4. (\E h \in Hunters, id \in ClientIds, at \in Times :
           \E t \in {"plain", "chat"} : Post(s, t, id, h, at))
        \/ \E at \in Times : EncryptedInsert(s, at)
    BY <2>1 DEF Acts, BeginEncrypted, RecipientKey, CapabilityRead, CapabilityWrite, BeginRegister,
                BeginRevoke, RegisterWrite, RevokeWrite, BeginMark, MarkEncrypted, MarkRead,
                MarkWrite, Drop
  <2> QED BY <2>2, <2>3, <2>4
<1> QED BY <1>1, <1>2, <1>3, PTL DEF Spec, SentToActiveKeys

-------------------------------------------------------------------------------
(* Read markers.                                                           *)

\* What a mark has read is not newer than where it puts the marker.
MarkOf(s) ==
  /\ task[s].at = "mark_encrypted" =>
       \E D \in SUBSET DirectRows :
         /\ Cardinality(D) = task[s].count
         /\ \A m \in D : m.table = "plain" => task[s].plain \in Times /\ m.at <= task[s].plain
  /\ task[s].at \in {"mark_read", "mark_write"} =>
       \E D \in SUBSET DirectRows :
         Cardinality(D) = task[s].count /\ \A m \in D : m.at <= task[s].to

MarkInv == \A s \in Slots : MarkOf(s)

\* What is stored for two stays stored.
LEMMA DirectRowsGrow ==
  ASSUME TypeInv, [Next]_vars
  PROVE  \A D \in SUBSET DirectRows : D \in SUBSET DirectRows'
BY RowsGrow DEF Grow, NewRow, DirectRows

\* There are finitely many of them.
LEMMA DirectRowsFinite ==
  ASSUME TypeInv
  PROVE  DirectRows \subseteq Row /\ IsFiniteSet(DirectRows) /\ Cardinality(DirectRows) \in Nat
<1>1. IsFiniteSet(rows) /\ DirectRows \in SUBSET rows
  BY DEF TypeInv, DirectRows
<1>2. IsFiniteSet(DirectRows)
  BY <1>1, FS_Subset
<1> QED BY <1>1, <1>2, FS_CardinalityType DEF TypeInv

\* A mark that waits keeps what it has read.
LEMMA MarkStays ==
  ASSUME TypeInv, [Next]_vars, NEW s, MarkOf(s), task'[s] = task[s]
  PROVE  MarkOf(s)'
BY DirectRowsGrow DEF MarkOf

\* A task that marks nothing has read nothing.
LEMMA MarksElsewhere ==
  ASSUME NEW s, task'[s].at \notin {"mark_encrypted", "mark_read", "mark_write"}
  PROVE  MarkOf(s)'
BY DEF MarkOf

\* There are no marks at first.
LEMMA MarkInit == Init => MarkInv
<1> SUFFICES ASSUME Init, NEW s \in Slots PROVE MarkOf(s)
  BY DEF MarkInv
<1>1. task[s].at = "idle"
  BY DEF Init, HandlersInit, Idle
<1> QED BY <1>1 DEF MarkOf

\* Every step keeps what the marks have read.
LEMMA MarkStep == TypeInv /\ MarkInv /\ [Next]_vars => MarkInv'
<1> SUFFICES ASSUME TypeInv, MarkInv, [Next]_vars PROVE MarkInv'
  OBVIOUS
<1>1. ASSUME NEW s \in Slots, Acts(s) PROVE MarkOf(s)'
  <2>0. task[s] \in Task /\ task \in [Slots -> Task] /\ MarkOf(s)
    BY DEF TypeInv, MarkInv
  <2>1. ASSUME NEW h \in Hunters, BeginMark(s, h) PROVE MarkOf(s)'
    <3>1. task'[s] = [at |-> "mark_encrypted", hunter |-> h,
                      plain |-> Latest(Table("plain")), count |-> Cardinality(DirectRows)]
          /\ rows' = rows
      BY <2>0, <2>1 DEF BeginMark, Begin
    <3>2. \A m \in DirectRows : m.table = "plain" =>
            Latest(Table("plain")) \in Times /\ m.at <= Latest(Table("plain"))
      <4>1. Table("plain") \in SUBSET Row
        BY DEF Table, TypeInv
      <4>2. \A m \in Table("plain") : Latest(Table("plain")) \in Times /\ m.at <= Latest(Table("plain"))
        BY <4>1, LatestIsNewest
      <4> QED BY <4>2 DEF Table, DirectRows
    <3>3. /\ task'[s].at = "mark_encrypted" /\ task'[s].plain = Latest(Table("plain"))
          /\ task'[s].count = Cardinality(DirectRows) /\ DirectRows' = DirectRows
      BY <3>1 DEF DirectRows
    <3> QED BY <3>2, <3>3 DEF MarkOf
  <2>2. ASSUME NEW now \in Times, MarkEncrypted(s, now) PROVE MarkOf(s)'
    <3>1. task[s] \in MarkingEncrypted /\ task[s].at = "mark_encrypted"
      BY <2>0, <2>2, TaskKinds DEF MarkEncrypted, At
    <3>2. PICK D \in SUBSET DirectRows :
            /\ Cardinality(D) = task[s].count
            /\ \A m \in D : m.table = "plain" => task[s].plain \in Times /\ m.at <= task[s].plain
      BY <2>0, <3>1 DEF MarkOf
    <3>3. PICK last : last = Latest(Table("encrypted"))
      OBVIOUS
    <3>4. PICK latest : latest = LatestTimestamp(task[s].plain, last)
      OBVIOUS
    <3>5. last \in Times \cup {NoTime}
          /\ \A m \in D : m.table = "encrypted" => last \in Times /\ m.at <= last
      <4>1. Table("encrypted") \in SUBSET Row
        BY DEF Table, TypeInv
      <4>2. /\ last \in Times \cup {NoTime}
            /\ \A m \in Table("encrypted") : last \in Times /\ m.at <= last
        BY <3>3, <4>1, LatestIsNewest
      <4> QED BY <4>2 DEF Table, DirectRows
    <3>6. task[s].plain \in Times \cup {NoTime}
      BY <3>1 DEF MarkingEncrypted
    <3>7. /\ latest \in Times \cup {NoTime}
          /\ task[s].plain # NoTime => latest \in Times /\ task[s].plain <= latest
          /\ last # NoTime => latest \in Times /\ last <= latest
      BY <3>4, <3>5, <3>6, LatestTimestampIsNewer
    <3>8. NoTime \notin Times
      BY MessagesAssumption DEF Times
    <3>9. \A m \in D : m.at \in Times /\ (m.table = "plain" \/ m.table = "encrypted")
      BY DirectRowsFinite DEF DirectRows, Direct, Row
    <3>10. ASSUME NEW m \in D PROVE latest \in Times /\ m.at <= latest
      <4>1. CASE m.table = "plain"
        BY <3>2, <3>7, <3>8, <3>9, <4>1 DEF Times
      <4>2. CASE m.table = "encrypted"
        BY <3>5, <3>7, <3>8, <3>9, <4>2 DEF Times
      <4> QED BY <3>9, <4>1, <4>2
    <3>11. /\ task'[s].at = "mark_read" /\ task'[s].count = task[s].count
           /\ task'[s].to = IF latest = NoTime THEN now ELSE latest
      BY <2>0, <2>2, <3>3, <3>4 DEF MarkEncrypted, Continue
    <3>12. \A m \in D : m.at <= task'[s].to
      BY <3>8, <3>10, <3>11
    <3>13. D \in SUBSET DirectRows'
      BY DirectRowsGrow
    <3> QED BY <3>2, <3>11, <3>12, <3>13 DEF MarkOf
  <2>3. ASSUME MarkRead(s) PROVE MarkOf(s)'
    <3>1. /\ task'[s].at = "mark_write" /\ task'[s].count = task[s].count /\ task'[s].to = task[s].to
          /\ task[s].at = "mark_read"
      BY <2>0, <2>3 DEF MarkRead, Continue, At
    <3> QED BY <2>0, <3>1, DirectRowsGrow DEF MarkOf
  <2>4. ASSUME NEW h \in Hunters, NEW id \in ClientIds, NEW at \in Times,
               NEW t \in {"plain", "chat"}, Post(s, t, id, h, at)
        PROVE  MarkOf(s)'
    BY <2>4, MarksElsewhere DEF Post, Once, Idle
  <2>5. ASSUME RecipientKey(s) PROVE MarkOf(s)'
    <3>1. task[s] \in Looking
      BY <2>0, <2>5, TaskKinds DEF RecipientKey, At
    <3>2. task'[s].at \in {"encrypted_insert", "idle"}
      BY <2>0, <2>5, <3>1 DEF RecipientKey, Continue, Answer, Idle, Looking
    <3> QED BY <3>2, MarksElsewhere
  <2>6. ASSUME \/ \E h \in Hunters, id \in ClientIds : BeginEncrypted(s, id, h)
               \/ \E at \in Times : EncryptedInsert(s, at)
               \/ CapabilityRead(s) \/ CapabilityWrite(s)
               \/ \E h \in Hunters : BeginRegister(s, h) \/ BeginRevoke(s, h)
               \/ RegisterWrite(s) \/ RevokeWrite(s) \/ MarkWrite(s) \/ Drop(s)
        PROVE  MarkOf(s)'
    <3>1. task'[s].at \notin {"mark_encrypted", "mark_read", "mark_write"}
      BY <2>0, <2>6 DEF BeginEncrypted, EncryptedInsert, CapabilityRead, CapabilityWrite,
         BeginRegister, BeginRevoke, RegisterWrite, RevokeWrite, MarkWrite, Drop, Abandon,
         Begin, Continue, Answer, Idle
    <3> QED BY <3>1, MarksElsewhere
  <2> QED BY <1>1, <2>1, <2>2, <2>3, <2>4, <2>5, <2>6 DEF Acts
<1>2. \A s \in Slots : task'[s] = task[s] => MarkOf(s)'
  BY MarkStays DEF MarkInv
<1> QED BY <1>1, <1>2, OthersKeepTheirTask DEF MarkInv

\* A mark that has read as many rows as there are has read them all.
LEMMA MarkReadsAll ==
  ASSUME TypeInv, MarkInv, NEW s \in Slots, MarkWrite(s)
  PROVE  /\ task[s] \in MarkingWrite /\ task[s].count <= Cardinality(DirectRows)
         /\ task[s].count = Cardinality(DirectRows) => \A m \in DirectRows : m.at <= task[s].to
<1>1. task[s] \in MarkingWrite /\ task[s].at = "mark_write"
  BY TaskKinds DEF MarkWrite, At, TypeInv
<1>2. PICK D \in SUBSET DirectRows :
        Cardinality(D) = task[s].count /\ \A m \in D : m.at <= task[s].to
  BY <1>1 DEF MarkInv, MarkOf
<1>3. Cardinality(D) <= Cardinality(DirectRows)
      /\ (Cardinality(DirectRows) = Cardinality(D) => DirectRows = D)
  BY DirectRowsFinite, FS_Subset
<1> QED BY <1>1, <1>2, <1>3

\* Only a mark that is written moves a marker or settles a hunter.
LEMMA MarkersMove ==
  ASSUME TypeInv, [Next]_vars
  PROVE  \/ \E s \in Slots : MarkWrite(s)
         \/ marker' = marker /\ (settled' = settled \/ settled' = {})
<1>1. ASSUME NEW s \in Slots, Acts(s), ~MarkWrite(s)
      PROVE  marker' = marker /\ (settled' = settled \/ settled' = {})
  BY <1>1 DEF Acts, Post, InsertMessage, EncryptedInsert, BeginEncrypted, RecipientKey,
     CapabilityRead, CapabilityWrite, BeginRegister, BeginRevoke, RegisterWrite, RevokeWrite,
     BeginMark, MarkEncrypted, MarkRead, Drop
<1> QED BY <1>1, NextActs DEF Reads, FirstPage, NextPage, vars

\* A settled hunter stays without unread messages.
LEMMA ReadStep == TypeInv /\ MarkInv /\ MarkedIsRead /\ [Next]_vars => MarkedIsRead'
<1> SUFFICES ASSUME TypeInv, MarkInv, MarkedIsRead, [Next]_vars PROVE MarkedIsRead'
  OBVIOUS
<1>1. ASSUME NEW s \in Slots, MarkWrite(s) PROVE MarkedIsRead'
  <2>1. DirectRows' = DirectRows
    BY <1>1 DEF MarkWrite, DirectRows
  <2>2. CASE marker' = marker /\ settled' = settled
    BY <2>1, <2>2 DEF MarkedIsRead, Unread
  <2>3. CASE /\ marker' = [marker EXCEPT ![task[s].hunter] = task[s].to]
             /\ settled' = (settled \ {task[s].hunter})
                  \cup {h \in {task[s].hunter} : task[s].count = Cardinality(DirectRows)}
    <3>1. task[s].hunter \in Hunters /\ task[s].to \in Times /\ marker \in [Hunters -> Times \cup {NoTime}]
      BY <1>1, MarkReadsAll DEF MarkingWrite, TypeInv
    <3>2. ASSUME NEW h \in settled', h # task[s].hunter PROVE Unread(h)' = {}
      <4>1. h \in settled /\ marker'[h] = marker[h]
        BY <2>3, <3>1, <3>2 DEF TypeInv
      <4> QED BY <2>1, <4>1 DEF MarkedIsRead, Unread
    <3>3. ASSUME NEW h \in settled', h = task[s].hunter PROVE Unread(h)' = {}
      <4>1. \A m \in DirectRows : m.at <= task[s].to
        BY <1>1, <2>3, <3>3, MarkReadsAll
      <4>2. marker'[h] = task[s].to /\ task[s].to # NoTime
        BY <2>3, <3>1, <3>3, MessagesAssumption DEF Times
      <4>3. \A m \in DirectRows : ~(m.at > task[s].to)
        BY <3>1, <4>1, DirectRowsFinite DEF Row, Times
      <4> QED BY <2>1, <4>2, <4>3 DEF Unread
    <3> QED BY <3>2, <3>3 DEF MarkedIsRead
  <2> QED BY <1>1, <2>2, <2>3 DEF MarkWrite
<1>2. ASSUME marker' = marker, settled' = settled \/ settled' = {} PROVE MarkedIsRead'
  <2>1. CASE settled' = {}
    BY <2>1 DEF MarkedIsRead
  <2>2. CASE settled' = settled /\ rows' = rows
    BY <1>2, <2>2 DEF MarkedIsRead, Unread, DirectRows
  <2>3. ASSUME NEW m \in Row, NewRow(m), settled' = settled, settled' # {} PROVE MarkedIsRead'
    <3>1. DirectRows' = DirectRows
      BY <2>3 DEF NewRow, DirectRows
    <3> QED BY <1>2, <2>3, <3>1 DEF MarkedIsRead, Unread
  <2> QED BY <1>2, <2>1, <2>2, <2>3, RowsGrow DEF Grow
<1> QED BY <1>1, <1>2, MarkersMove

\* A hunter whose last mark had read all that is stored has nothing unread.
THEOREM MarksSettle == Spec => []MarkedIsRead
<1>1. Init => TypeInv /\ MarkInv /\ MarkedIsRead
  BY TypeInit, MarkInit DEF Init, MarkedIsRead
<1>2. TypeInv /\ MarkInv /\ MarkedIsRead /\ [Next]_vars => (TypeInv /\ MarkInv /\ MarkedIsRead)'
  BY TypeStep, MarkStep, ReadStep
<1> QED BY <1>1, <1>2, PTL DEF Spec

\* A marker moves back only for a mark that had read less, or from a clock time.
THEOREM MarkersMoveForward == Spec => MarkerForward
<1>1. Init => TypeInv /\ MarkInv
  BY TypeInit, MarkInit
<1>2. TypeInv /\ MarkInv /\ [Next]_vars => (TypeInv /\ MarkInv)'
  BY TypeStep, MarkStep
<1> DEFINE Back(h) == \/ \E s \in Slots : /\ At(s, "mark_write") /\ task[s].hunter = h
                                          /\ task[s].count < Cardinality(DirectRows)
                      \/ marker[h] \notin {m.at : m \in DirectRows}
<1>3. TypeInv /\ MarkInv /\ [Next]_vars =>
        [\A h \in Hunters : marker[h] # NoTime /\ marker'[h] < marker[h] => Back(h)]_vars
  <2> SUFFICES ASSUME TypeInv, MarkInv, [Next]_vars, NEW h \in Hunters,
                      marker[h] # NoTime, marker'[h] < marker[h]
               PROVE  Back(h)
    OBVIOUS
  <2>1. marker[h] \in Times
    BY DEF TypeInv
  <2>2. marker' # marker
    BY <2>1 DEF Times
  <2>3. PICK s \in Slots : MarkWrite(s)
    BY <2>2, MarkersMove
  <2>4. /\ task[s] \in MarkingWrite /\ task[s].count <= Cardinality(DirectRows)
        /\ task[s].count = Cardinality(DirectRows) => \A m \in DirectRows : m.at <= task[s].to
    BY <2>3, MarkReadsAll
  <2>5. marker' = [marker EXCEPT ![task[s].hunter] = task[s].to]
    BY <2>2, <2>3 DEF MarkWrite
  <2>6. task[s].hunter = h /\ marker'[h] = task[s].to
    <3>1. marker \in [Hunters -> Times \cup {NoTime}]
      BY DEF TypeInv
    <3>2. task[s].hunter # h => marker'[h] = marker[h]
      BY <2>5, <3>1
    <3>3. ~(marker[h] < marker[h])
      BY <2>1 DEF Times
    <3> QED BY <2>5, <3>1, <3>2, <3>3
  <2>7. CASE task[s].count < Cardinality(DirectRows)
    BY <2>3, <2>6, <2>7 DEF MarkWrite
  <2>8. CASE task[s].count = Cardinality(DirectRows)
    <3>1. task[s].to < marker[h] /\ task[s].to \in Times
      BY <2>4, <2>6 DEF MarkingWrite
    <3>2. \A m \in DirectRows : m.at # marker[h]
      BY <2>1, <2>4, <2>8, <3>1, DirectRowsFinite DEF Times, Row
    <3> QED BY <3>2
  <2>9. task[s].count \in Nat /\ Cardinality(DirectRows) \in Nat
    BY <2>4, DirectRowsFinite DEF MarkingWrite
  <2> HIDE DEF Back
  <2> QED BY <2>4, <2>7, <2>8, <2>9
<1> QED BY <1>1, <1>2, <1>3, PTL DEF Spec, MarkerForward

-------------------------------------------------------------------------------
(* Walks through a history.                                                *)

\* A message is still to come in a walk, or shares its millisecond with another.
ToCome(t, before, m) ==
  \/ m \in Before(t, before)
  \/ \E o \in Table(t) \ {m} : Millis(o.at) = Millis(m.at)

\* What a walk has not seen of what was there is to come.
WalkInv ==
  walk = NoWalk \/
    /\ walk.table \in Tables
    /\ walk = [table |-> walk.table, there |-> walk.there, seen |-> walk.seen,
               before |-> walk.before]
    /\ walk.before \in Nat
    /\ walk.there \subseteq Table(walk.table)
    /\ \A m \in walk.there \ walk.seen : ToCome(walk.table, walk.before, m)

\* A time is in its millisecond, and the times between its start and it are, too.
LEMMA MillisHolds ==
  ASSUME NEW a \in Nat
  PROVE  /\ Millis(a) \in Nat /\ 2 * Millis(a) <= a
         /\ \A x \in Nat : 2 * Millis(a) <= x /\ x <= a => Millis(x) = Millis(a)
BY DEF Millis

\* The rows of a table and those before a time are finitely many.
LEMMA BeforeFinite ==
  ASSUME TypeInv, NEW t, NEW before
  PROVE  /\ Table(t) \subseteq Row /\ Before(t, before) \subseteq Table(t)
         /\ IsFiniteSet(Before(t, before)) /\ Cardinality(Before(t, before)) \in Nat
<1>1. IsFiniteSet(rows) /\ Before(t, before) \in SUBSET rows
  BY DEF TypeInv, Before, Table
<1>2. IsFiniteSet(Before(t, before))
  BY <1>1, FS_Subset
<1>3. Cardinality(Before(t, before)) \in Nat
  BY <1>2, FS_CardinalityType
<1> QED BY <1>2, <1>3 DEF TypeInv, Before, Table

\* Only the page after the last row is empty.
LEMMA EmptyPageIsLast ==
  ASSUME TypeInv, NEW t, NEW before, {} \in Pages(t, before)
  PROVE  Before(t, before) = {}
<1>1. PICK n : n = Cardinality(Before(t, before))
  OBVIOUS
<1>2. n \in Nat
  BY <1>1, BeforeFinite
<1>3. Min({PageLimit, n}) = 0
  BY <1>1, FS_EmptySet DEF Pages
<1>4. {PageLimit, n} \in SUBSET Nat /\ {PageLimit, n} # {}
  BY <1>2, MessagesAssumption
<1>5. Min({PageLimit, n}) \in {PageLimit, n}
  BY <1>4, MinIsLeast
<1>6. n = 0
  BY <1>3, <1>5, MessagesAssumption
<1> QED BY <1>1, <1>6, BeforeFinite, FS_EmptySet

\* After a page, what was to come is on it, or is still to come.
LEMMA PageLeavesTheRest ==
  ASSUME TypeInv, NEW t, NEW before, NEW page \in Pages(t, before), page # {}
  PROVE  /\ Millis(Min({p.at : p \in page})) \in Nat
         /\ \A m \in Table(t) \ page :
              ToCome(t, before, m) => ToCome(t, Millis(Min({p.at : p \in page})), m)
<1>1. page \subseteq Before(t, before) /\ page \subseteq Table(t)
      /\ \A p \in page, o \in Before(t, before) \ page : o.at <= p.at
  BY BeforeFinite DEF Pages
<1>2. \A m \in Table(t) : m.at \in Nat
  BY BeforeFinite DEF Row, Times
<1>3. PICK a : a = Min({p.at : p \in page})
  OBVIOUS
<1>4. a \in {p.at : p \in page}
  <2>1. {p.at : p \in page} \in SUBSET Nat /\ {p.at : p \in page} # {}
    BY <1>1, <1>2
  <2> QED BY <1>3, <2>1, MinIsLeast
<1>5. PICK p \in page : p.at = a
  BY <1>4
<1>6. a \in Nat /\ p \in Table(t)
  BY <1>1, <1>2, <1>5
<1>7. Millis(a) \in Nat
  BY <1>6, MillisHolds
<1>8. ASSUME NEW m \in Table(t) \ page, ToCome(t, before, m) PROVE ToCome(t, Millis(a), m)
  <2>1. CASE \E o \in Table(t) \ {m} : Millis(o.at) = Millis(m.at)
    BY <2>1 DEF ToCome
  <2>2. CASE m \in Before(t, before)
    <3>1. m.at <= a /\ m.at \in Nat
      BY <1>1, <1>2, <1>5, <2>2
    <3>2. CASE m.at < 2 * Millis(a)
      BY <3>2 DEF ToCome, Before
    <3>3. CASE 2 * Millis(a) <= m.at
      <4>1. Millis(p.at) = Millis(m.at)
        BY <1>5, <1>6, <3>1, <3>3, MillisHolds
      <4>2. p \in Table(t) \ {m}
        BY <1>6, <1>8
      <4> QED BY <4>1, <4>2 DEF ToCome
    <3> QED BY <1>7, <3>1, <3>2, <3>3
  <2> QED BY <1>8, <2>1, <2>2 DEF ToCome
<1> QED BY <1>3, <1>7, <1>8

\* What is to come stays so when rows are stored.
LEMMA ToComeStays ==
  ASSUME TypeInv, [Next]_vars, NEW t, NEW before, NEW m, ToCome(t, before, m)
  PROVE  ToCome(t, before, m)'
<1>1. \A r \in rows : r \in rows'
  BY RowsGrow DEF Grow, NewRow
<1> QED BY <1>1 DEF ToCome, Before, Table

\* Only the reading client moves its walk.
LEMMA WalkMoves ==
  ASSUME [Next]_vars, walk' # walk
  PROVE  Reads /\ rows' = rows
<1>1. ASSUME NEW s \in Slots, Acts(s) PROVE walk' = walk
  BY <1>1 DEF Acts, Post, EncryptedInsert, BeginEncrypted, RecipientKey,
     CapabilityRead, CapabilityWrite, BeginRegister, BeginRevoke, RegisterWrite, RevokeWrite,
     BeginMark, MarkEncrypted, MarkRead, MarkWrite, Drop
<1> QED BY <1>1, NextActs DEF Reads, FirstPage, NextPage, vars

\* A walk goes on from a page that is not empty.
LEMMA OnwardKeeps ==
  ASSUME TypeInv, NEW t \in Tables, NEW there \in SUBSET Table(t), NEW seen, NEW before,
         NEW page \in Pages(t, before), page # {}, rows' = rows,
         \A m \in there \ seen : ToCome(t, before, m),
         walk' = Onward([table |-> t, there |-> there, seen |-> seen, before |-> before], page)
  PROVE  WalkInv'
<1>1. PICK b : b = Millis(Min({p.at : p \in page}))
  OBVIOUS
<1>2. b \in Nat /\ \A m \in Table(t) \ page : ToCome(t, before, m) => ToCome(t, b, m)
  BY <1>1, PageLeavesTheRest
<1>3. walk' = [table |-> t, there |-> there, seen |-> seen \cup page, before |-> b]
  BY <1>1 DEF Onward
<1>4. walk'.table = t /\ walk'.there = there /\ walk'.seen = seen \cup page /\ walk'.before = b
  BY <1>3
<1>5. \A m \in there \ (seen \cup page) : ToCome(t, b, m)
  BY <1>2
<1>6. \A m \in there \ (seen \cup page) : ToCome(t, b, m)'
  BY <1>5 DEF ToCome, Before, Table
<1>7. there \subseteq Table(t)'
  BY DEF Table
<1> QED BY <1>2, <1>3, <1>4, <1>6, <1>7 DEF WalkInv

\* Every step keeps what the walk has not seen to come.
LEMMA WalkStep == TypeInv /\ WalkInv /\ [Next]_vars => WalkInv'
<1> SUFFICES ASSUME TypeInv, WalkInv, [Next]_vars PROVE WalkInv'
  OBVIOUS
<1>1. CASE walk' = walk
  <2>1. \A t : Table(t) \subseteq Table(t)'
    BY RowsGrow DEF Grow, NewRow, Table
  <2>2. \A m \in walk.there \ walk.seen :
          ToCome(walk.table, walk.before, m) => ToCome(walk.table, walk.before, m)'
    <3>1. PICK t, b : t = walk.table /\ b = walk.before
      OBVIOUS
    <3>2. \A m : ToCome(t, b, m) => ToCome(t, b, m)'
      BY ToComeStays
    <3> QED BY <1>1, <3>1, <3>2 DEF ToCome, Before, Table
  <2> QED BY <1>1, <2>1, <2>2 DEF WalkInv
<1>2. ASSUME NEW t \in Tables, FirstPage(t) PROVE WalkInv'
  <2>1. PICK page \in Pages(t, NoTime) \ {{}} :
          walk' = Onward([table |-> t, there |-> Table(t), seen |-> {}, before |-> NoTime], page)
    BY <1>2 DEF FirstPage
  <2>2. \A m \in Table(t) \ {} : ToCome(t, NoTime, m)
    BY DEF ToCome, Before
  <2>3. rows' = rows
    BY <1>2 DEF FirstPage
  <2> QED BY <2>1, <2>2, <2>3, OnwardKeeps
<1>3. ASSUME NextPage PROVE WalkInv'
  <2>1. PICK page \in Pages(walk.table, walk.before) :
          walk' = IF page = {} THEN NoWalk ELSE Onward(walk, page)
    BY <1>3 DEF NextPage
  <2>2. CASE page = {}
    BY <2>1, <2>2 DEF WalkInv
  <2>3. CASE page # {}
    <3>1. PICK t, there, seen, before :
            t = walk.table /\ there = walk.there /\ seen = walk.seen /\ before = walk.before
      OBVIOUS
    <3>2. /\ walk = [table |-> t, there |-> there, seen |-> seen, before |-> before]
          /\ t \in Tables /\ there \in SUBSET Table(t)
          /\ \A m \in there \ seen : ToCome(t, before, m)
      BY <1>3, <3>1 DEF WalkInv, NextPage
    <3>3. walk' = Onward([table |-> t, there |-> there, seen |-> seen, before |-> before], page)
      BY <2>1, <2>3, <3>2
    <3>4. rows' = rows /\ page \in Pages(t, before)
      BY <1>3, <2>1, <3>1 DEF NextPage
    <3> QED BY <2>3, <3>2, <3>3, <3>4, OnwardKeeps
  <2> QED BY <2>2, <2>3
<1> QED BY <1>1, <1>2, <1>3, WalkMoves DEF Reads

\* A walk that has come to its end has seen what was there when it began.
THEOREM WalksAreComplete == Spec => PagesComplete
<1>1. Init => TypeInv /\ WalkInv
  BY TypeInit DEF Init, WalkInv
<1>2. TypeInv /\ WalkInv /\ [Next]_vars => (TypeInv /\ WalkInv)'
  BY TypeStep, WalkStep
<1> DEFINE Complete == walk # NoWalk /\ walk' = NoWalk =>
                         \A m \in walk.there \ walk.seen :
                           \E o \in Table(walk.table) \ {m} : Millis(o.at) = Millis(m.at)
<1>3. TypeInv /\ WalkInv /\ [Next]_vars => [Complete]_vars
  <2> SUFFICES ASSUME TypeInv, WalkInv, [Next]_vars, walk # NoWalk, walk' = NoWalk,
                      NEW m \in walk.there \ walk.seen
               PROVE  \E o \in Table(walk.table) \ {m} : Millis(o.at) = Millis(m.at)
    OBVIOUS
  <2>1. NextPage
    BY WalkMoves DEF Reads, FirstPage
  <2>2. PICK page \in Pages(walk.table, walk.before) :
          walk' = IF page = {} THEN NoWalk ELSE Onward(walk, page)
    BY <2>1 DEF NextPage
  <2>3. page = {}
    <3>1. ASSUME page # {} PROVE FALSE
      <4>1. walk.table \in Tables
        BY DEF WalkInv
      <4>2. walk = [table |-> walk.table, there |-> walk.there, seen |-> walk.seen,
                    before |-> walk.before]
        BY DEF WalkInv
      <4>3. Onward(walk, page).table = walk.table
        BY <4>2 DEF Onward
      <4>4. NoWalk.table = "none" /\ "none" \notin Tables
        BY DEF NoWalk, Tables
      <4> QED BY <2>2, <3>1, <4>1, <4>3, <4>4
    <3> QED BY <3>1
  <2>4. Before(walk.table, walk.before) = {}
    BY <2>2, <2>3, EmptyPageIsLast
  <2>5. ToCome(walk.table, walk.before, m)
    BY DEF WalkInv
  <2> QED BY <2>4, <2>5 DEF ToCome
<1> QED BY <1>1, <1>2, <1>3, PTL DEF Spec, PagesComplete

===============================================================================
