------------------------------- MODULE Messages --------------------------------
(***************************************************************************)
(* Direct messages between two friends, in plain text and end-to-end       *)
(* encrypted, and the chat room of their guild: the three message tables,  *)
(* the device keys an encrypted message is addressed to, the mode of the   *)
(* conversation and the read markers.  Each handler runs its statements    *)
(* one by one, outside a transaction.  Friendship lasts (there is no       *)
(* operation that ends it), so its check is no part of a handler here.     *)
(***************************************************************************)
EXTENDS Handlers, Integers, FiniteSets, FiniteSetsExt

CONSTANTS
  Hunters,      \* the two friends
  ClientIds,    \* client_message_id: drawn by the sender, kept when it tries again
  MaxTime,      \* bound: the last time, in half milliseconds
  MaxRows,      \* bound: messages stored
  PageLimit,    \* limit of a history query
  NoTime        \* no before_ms; no dm_thread_reads row; no message

ASSUME MessagesAssumption ==
  /\ Cardinality(Hunters) = 2
  /\ MaxTime \in Nat /\ MaxRows \in Nat /\ PageLimit \in Nat \ {0}
  /\ NoTime \notin Nat

VARIABLES
  rows,         \* direct_messages, dm_encrypted_messages and chat_messages
  key,          \* dm_device_keys: the state of each hunter's device
  capability,   \* dm_conversation_capabilities: its encryption_mode, or "none"
  marker,       \* dm_thread_reads: last_read_at of each hunter
  walk,         \* a client that reads the history of a table page by page
  answered,     \* history: client ids of encrypted messages that were answered
  settled,      \* history: hunters whose last mark had read all that is stored
  overtaken     \* history: sends that have looked up a key which was revoked since

vars == <<rows, key, capability, marker, walk, answered, settled, overtaken,
          handlerVars>>

-------------------------------------------------------------------------------
(* Time.  sent_at is sent_at_ms if the request has one (even times here), *)
(* else Utc::now(), which is finer; neither clock runs ahead of the other. *)

Times == 0 .. MaxTime

Millis(at) == at \div 2

-------------------------------------------------------------------------------
(* Tables.                                                                 *)

Tables == {"plain", "encrypted", "chat"}

Direct == {"plain", "encrypted"}

Table(t) == {m \in rows : m.table = t}

DirectRows == {m \in rows : m.table \in Direct}

\* The unique index on (conversation_key or room, client_message_id) of each table
Stored(t, id) == {m \in Table(t) : m.client_id = id}

\* mutant: ORDER BY sent_at ASC
Oldest(ms) == IF ms = {} THEN NoTime ELSE Min({m.at : m \in ms})

Latest(ms) == IF ms = {} THEN NoTime ELSE Max({m.at : m \in ms})

\* latest_message_timestamp_for_conversation, of what its two SELECTs found
LatestTimestamp(x, y) == IF x = NoTime THEN y ELSE IF y = NoTime THEN x ELSE Max({x, y})

\* load_unread_counts_for_threads, for the thread with the other hunter
Unread(h) ==
  {m \in DirectRows : m.from # h /\ (marker[h] = NoTime \/ m.at > marker[h])}

\* The rows a thread list may show last: ids, which break ties, are random
Previews ==
  {m \in DirectRows : \A o \in DirectRows : o.at <= m.at}

\* encryption_mode in a thread list: the capability's, else that of the last message
ThreadModes ==
  IF capability # "none"
    THEN {capability}
    ELSE {IF m.table = "encrypted" THEN "encrypted" ELSE "plaintext" : m \in Previews}

-------------------------------------------------------------------------------
(* Sending: POST /dm/messages, /dm/encrypted/messages, /chat/messages.     *)

Message(t, id, h, at) ==
  [table |-> t, client_id |-> id, from |-> h, at |-> at]

\* mutant: no unique index
InsertTwice(t, id, h, at) ==
  /\ rows' = rows \cup {Message(t, id, h, at)}
  /\ settled' = IF t \in Direct THEN {} ELSE settled

\* INSERT: the index keeps a client id that is there already from a second row
InsertMessage(t, id, h, at) ==
  IF Stored(t, id) = {}
    THEN /\ Cardinality(rows) < MaxRows
         /\ rows' = rows \cup {Message(t, id, h, at)}
         /\ settled' = IF t \in Direct THEN {} ELSE settled
    ELSE UNCHANGED <<rows, settled>>

\* persist_direct_message, persist_chat_message: INSERT and, after a conflict, a SELECT
\* of the row there is, which stays.
Post(s, t, id, h, at) ==
  /\ Once(s)
  /\ InsertMessage(t, id, h, at)
  /\ UNCHANGED <<key, capability, marker, walk, answered, overtaken>>

\* persist_encrypted_direct_message: the sender's device key is active ...
BeginEncrypted(s, id, h) ==
  /\ key[h] = "active"
  /\ Begin(s, [at |-> "recipient_key", id |-> id, from |-> h])
  /\ UNCHANGED <<rows, key, capability, marker, walk, answered, settled, overtaken>>

\* mutant: a key that was revoked is good enough
RecipientKeyOfAnyState(s) ==
  /\ At(s, "recipient_key")
  /\ Continue(s, [task[s] EXCEPT !.at = "encrypted_insert"])
  /\ UNCHANGED <<rows, key, capability, marker, walk, answered, settled, overtaken>>

\* ... and the recipient's, or the request is refused;
RecipientKey(s) ==
  /\ At(s, "recipient_key")
  /\ IF \A h \in Hunters \ {task[s].from} : key[h] = "active"
       THEN Continue(s, [task[s] EXCEPT !.at = "encrypted_insert"])
       ELSE Answer(s)
  /\ overtaken' = IF task'[s] = Idle THEN overtaken \ {s} ELSE overtaken
  /\ UNCHANGED <<rows, key, capability, marker, walk, answered, settled>>

\* INSERT or the row there is,
EncryptedInsert(s, at) ==
  LET t == task[s] IN
  /\ At(s, "encrypted_insert")
  /\ InsertMessage("encrypted", t.id, t.from, at)
  /\ Continue(s, [at |-> "capability_read", id |-> t.id])
  /\ overtaken' = overtaken \ {s}
  /\ UNCHANGED <<key, capability, marker, walk, answered>>

\* upsert_dm_conversation_capability: SELECT ...
CapabilityRead(s) ==
  /\ At(s, "capability_read")
  /\ Continue(s, [at |-> "capability_write", id |-> task[s].id, found |-> capability])
  /\ UNCHANGED <<rows, key, capability, marker, walk, answered, settled, overtaken>>

\* ... and UPDATE or INSERT, which fails if there is a row by now: the message is
\* stored and its sender is told of an error.
CapabilityWrite(s) ==
  LET fails == task[s].found = "none" /\ capability # "none" IN
  /\ At(s, "capability_write")
  /\ capability' = "encrypted"
  /\ answered' = IF fails THEN answered ELSE answered \cup {task[s].id}
  /\ Answer(s)
  /\ UNCHANGED <<rows, key, marker, walk, settled, overtaken>>

-------------------------------------------------------------------------------
(* Device keys: POST /dm/keys/register and /dm/keys/revoke.                *)

\* The send in slot o has found the key of h active and has not stored its message.
LookedUp(o, h) ==
  \/ At(o, "recipient_key") /\ task[o].from = h
  \/ At(o, "encrypted_insert")

BeginRegister(s, h) ==
  /\ Begin(s, [at |-> "register_write", hunter |-> h, found |-> key[h]])
  /\ UNCHANGED <<rows, key, capability, marker, walk, answered, settled, overtaken>>

\* UPDATE, or INSERT, which the unique index on (hunter, device) refuses if another
\* registration of the device came first.
RegisterWrite(s) ==
  LET t == task[s] IN
  /\ At(s, "register_write")
  /\ key' = IF t.found = "none" /\ key[t.hunter] # "none"
              THEN key
              ELSE [key EXCEPT ![t.hunter] = "active"]
  /\ Answer(s)
  /\ UNCHANGED <<rows, capability, marker, walk, answered, settled, overtaken>>

BeginRevoke(s, h) ==
  /\ key[h] # "none"
  /\ Begin(s, [at |-> "revoke_write", hunter |-> h])
  /\ UNCHANGED <<rows, key, capability, marker, walk, answered, settled, overtaken>>

RevokeWrite(s) ==
  LET h == task[s].hunter IN
  /\ At(s, "revoke_write")
  /\ key' = [key EXCEPT ![h] = "revoked"]
  /\ overtaken' = overtaken \cup {o \in Slots : LookedUp(o, h)}
  /\ Answer(s)
  /\ UNCHANGED <<rows, capability, marker, walk, answered, settled>>

-------------------------------------------------------------------------------
(* Reading: POST /dm/threads/{id}/read, GET histories.                     *)

\* mark_direct_message_thread_read: the newest plain message, ...
BeginMark(s, h) ==
  /\ Begin(s, [at |-> "mark_encrypted", hunter |-> h,
               plain |-> Latest(Table("plain")), count |-> Cardinality(DirectRows)])
  /\ UNCHANGED <<rows, key, capability, marker, walk, answered, settled, overtaken>>

\* ... the newest encrypted one (the time now if there is neither), ...
MarkEncrypted(s, now) ==
  LET t == task[s]
      latest == LatestTimestamp(t.plain, Latest(Table("encrypted")))
  IN
  /\ At(s, "mark_encrypted")
  /\ Continue(s, [at |-> "mark_read", hunter |-> t.hunter, count |-> t.count,
                  to |-> IF latest = NoTime THEN now ELSE latest])
  /\ UNCHANGED <<rows, key, capability, marker, walk, answered, settled, overtaken>>

\* ... the hunter's marker, ...
MarkRead(s) ==
  LET t == task[s] IN
  /\ At(s, "mark_read")
  /\ Continue(s, [at |-> "mark_write", hunter |-> t.hunter, count |-> t.count,
                  to |-> t.to, found |-> marker[t.hunter]])
  /\ UNCHANGED <<rows, key, capability, marker, walk, answered, settled, overtaken>>

\* mutant: the marker is only set where there is none
MarkWriteOnce(s) ==
  LET t == task[s] IN
  /\ At(s, "mark_write")
  /\ marker' = [marker EXCEPT ![t.hunter] = IF @ = NoTime THEN t.to ELSE @]
  /\ settled' = (settled \ {t.hunter}) \cup {h \in {t.hunter} : t.count = Cardinality(DirectRows)}
  /\ Answer(s)
  /\ UNCHANGED <<rows, key, capability, walk, answered, overtaken>>

\* ... and UPDATE, or INSERT, which the unique index on (hunter, conversation) refuses
\* if another mark came first.
MarkWrite(s) ==
  LET t == task[s]
      fails == t.found = NoTime /\ marker[t.hunter] # NoTime
  IN
  /\ At(s, "mark_write")
  /\ IF fails
       THEN UNCHANGED <<marker, settled>>
       ELSE /\ marker' = [marker EXCEPT ![t.hunter] = t.to]
            /\ settled' = (settled \ {t.hunter})
                            \cup {h \in {t.hunter} : t.count = Cardinality(DirectRows)}
  /\ Answer(s)
  /\ UNCHANGED <<rows, key, capability, walk, answered, overtaken>>

\* sent_at < before, where before_ms has lost what is finer than a millisecond
Before(t, before) ==
  {m \in Table(t) : before = NoTime \/ m.at < 2 * before}

\* mutant: ORDER BY sent_at ASC
OldestFirst(t, before) ==
  {page \in SUBSET Before(t, before) :
     /\ Cardinality(page) = Min({PageLimit, Cardinality(Before(t, before))})
     /\ \A m \in page, o \in Before(t, before) \ page : o.at >= m.at}

\* The pages a history query may answer with: the newest rows, and of those of the
\* same time the ones whose random ids are highest
Pages(t, before) ==
  {page \in SUBSET Before(t, before) :
     /\ Cardinality(page) = Min({PageLimit, Cardinality(Before(t, before))})
     /\ \A m \in page, o \in Before(t, before) \ page : o.at <= m.at}

NoWalk == [table |-> "none"]

\* A client's walk so far and one more page
Onward(w, page) ==
  [w EXCEPT !.seen = @ \cup page, !.before = Millis(Min({m.at : m \in page}))]

\* list_chat_history, list_direct_message_history, list_encrypted_direct_message_history:
\* a client asks for the newest page ...
FirstPage(t) ==
  /\ walk = NoWalk
  /\ \E page \in Pages(t, NoTime) \ {{}} :
       walk' = Onward([table |-> t, there |-> Table(t), seen |-> {}, before |-> NoTime], page)
  /\ UNCHANGED <<rows, key, capability, marker, answered, settled, overtaken, handlerVars>>

\* ... and for what is before the oldest message it has, until there is no more.
NextPage ==
  /\ walk # NoWalk
  /\ \E page \in Pages(walk.table, walk.before) :
       walk' = IF page = {} THEN NoWalk ELSE Onward(walk, page)
  /\ UNCHANGED <<rows, key, capability, marker, answered, settled, overtaken, handlerVars>>

Drop(s) ==
  /\ Abandon(s)
  /\ overtaken' = overtaken \ {s}
  /\ UNCHANGED <<rows, key, capability, marker, walk, answered, settled>>

-------------------------------------------------------------------------------

Init ==
  /\ rows = {}
  /\ key \in [Hunters -> {"none", "active"}]
  /\ capability = "none"
  /\ marker = [h \in Hunters |-> NoTime]
  /\ walk = NoWalk
  /\ answered = {}
  /\ settled = {}
  /\ overtaken = {}
  /\ HandlersInit

Next ==
  \/ \E t \in Tables : FirstPage(t)
  \/ NextPage
  \/ \E s \in Slots :
       \/ \E h \in Hunters, id \in ClientIds, at \in Times :
            \E t \in {"plain", "chat"} : Post(s, t, id, h, at)
       \/ \E h \in Hunters, id \in ClientIds : BeginEncrypted(s, id, h)
       \/ RecipientKey(s)
       \/ \E at \in Times : EncryptedInsert(s, at)
       \/ CapabilityRead(s) \/ CapabilityWrite(s)
       \/ \E h \in Hunters : BeginRegister(s, h) \/ BeginRevoke(s, h)
       \/ RegisterWrite(s) \/ RevokeWrite(s)
       \/ \E h \in Hunters : BeginMark(s, h)
       \/ \E now \in Times : MarkEncrypted(s, now)
       \/ MarkRead(s) \/ MarkWrite(s)
       \/ Drop(s)

Spec == Init /\ [][Next]_vars

-------------------------------------------------------------------------------
(* Properties.                                                             *)

\* A message that is sent again under its client id, by overlapping requests or after
\* a lost answer, is stored once; and once an encrypted one is answered, its
\* conversation is encrypted in every thread list.  (An encrypted message may be
\* stored and its sender told of an error, or of nothing.)
SendsOnce ==
  /\ \A m \in rows : Stored(m.table, m.client_id) = {m}
  /\ \A id \in answered : Stored("encrypted", id) # {} /\ ThreadModes = {"encrypted"}

\* A walk through a history that has come to its end has seen every message that was
\* stored when it began, whatever is stored meanwhile, except where two messages share
\* a millisecond, which before_ms cannot tell apart.
PagesComplete ==
  [][walk # NoWalk /\ walk' = NoWalk =>
       \A m \in walk.there \ walk.seen :
         \E o \in Table(walk.table) \ {m} : Millis(o.at) = Millis(m.at)]_vars

\* When the mark that wrote last had read all that is stored, nothing is unread: what
\* its answer says ("unread_count": 0) is what the thread list says.
MarkedIsRead == \A h \in settled : Unread(h) = {}

\* A read marker moves back only when a mark is written that had read before a newer
\* message was stored, or from the clock time that marks an empty conversation.
MarkerForward ==
  [][\A h \in Hunters :
       marker[h] # NoTime /\ marker'[h] < marker[h] =>
         \/ \E s \in Slots : /\ At(s, "mark_write") /\ task[s].hunter = h
                             /\ task[s].count < Cardinality(DirectRows)
         \/ marker[h] \notin {m.at : m \in DirectRows}]_vars

\* An encrypted message is stored for devices whose keys are active, unless a key was
\* revoked after the send had looked it up.
SentToActiveKeys ==
  [][rows' \ rows # {} /\ (\A m \in rows' \ rows : m.table = "encrypted") =>
       \/ \A h \in Hunters : key[h] = "active"
       \/ \E s \in overtaken : At(s, "encrypted_insert")]_vars
===============================================================================
