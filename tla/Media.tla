--------------------------------- MODULE Media ---------------------------------
(***************************************************************************)
(* Uploaded images: the photo vault, view-once deliveries between friends, *)
(* photo-dump exports and the proof images of habits.  A file is written   *)
(* before its row, and no handler uses a transaction: every statement      *)
(* commits on its own.  open_once_media and get_once_media_content read a  *)
(* delivery and later update it by primary key, setting only some columns. *)
(* The proof of a habit is shown to its guild, and hunters change guilds.  *)
(***************************************************************************)
EXTENDS Handlers, FiniteSets

CONSTANTS
  Hunters,      \* hunters of all guilds
  Guilds,
  HomeGuild,    \* HomeGuild[h]: the guild a hunter starts in
  Friend,       \* pairs <<a, b>> with a friend_links row (never removed)
  Media,        \* ids of images, each drawn once (Uuid::new_v4)
  NoRow,        \* no row
  Tokens,       \* access tokens: pairs of random UUIDs
  Null,         \* an access_token_hash that is not set
  OnceTtls,     \* ttl_seconds a sender may ask for, in ticks
  TokenTtl,     \* ONCE_OPEN_TOKEN_TTL_SECONDS, in ticks
  Movers,       \* bound: hunters who may change guild
  MaxTime       \* bound: the clock stops here

ASSUME MediaAssumption ==
  /\ HomeGuild \in [Hunters -> Guilds]
  /\ Movers \subseteq Hunters
  /\ OnceTtls \subseteq Nat \ {0}
  /\ TokenTtl \in Nat \ {0}
  /\ Null \notin Tokens
  /\ MaxTime \in Nat

VARIABLES
  now,          \* Utc::now()
  guild,        \* hunters.guild_id: a token of another guild is refused (AuthClaims)
  files,        \* images whose file is on disk
  assets,       \* media_asset rows, and quest_proof_media rows (mode "proof")
  deliveries,   \* media_once_delivery row of each image sent
  exports,      \* photo_dump_export rows
  served,       \* history: times the token route has served an image
  seenBy,       \* history: who, in which guild, has received the bytes of which image
  contested,    \* history: deliveries written by a handler that had read them
                \* unconsumed after another consumed them
  abandoned     \* history: images whose handler was dropped half-way

rowVars == <<files, assets, deliveries, exports>>
history == <<served, seenBy, contested, abandoned>>
vars == <<now, guild, rowVars, history, handlerVars>>

-------------------------------------------------------------------------------
(* Rows and helpers.                                                       *)

Asset == [owner : Hunters, guild : Guilds, mode : {"vault", "once", "proof"},
          ready : BOOLEAN]

\* consumed_at is set and remaining_views is 0 together
Delivery == [sender : Hunters, recipient : Hunters, opened : BOOLEAN,
             consumed : BOOLEAN, expires : Nat,
             token : Tokens \cup {Null}, tokenExpires : Nat]

Export == [owner : Hunters, assets : SUBSET Media]

ASSUME NoRowAssumption == NoRow \notin Asset /\ NoRow \notin Delivery

Exists(m) == assets[m] # NoRow
Sent(m) == deliveries[m] # NoRow

\* media id as good as new: no file, no row, no handler about to write one
Fresh(m) ==
  /\ m \notin files
  /\ ~Exists(m)
  /\ \A s \in Slots : "media" \in DOMAIN task[s] => task[s].media # m

\* build_once_access_token: a token no delivery has and no handler was given
NewToken(token) ==
  /\ \A m \in Media : Sent(m) => deliveries[m].token # token
  /\ \A s \in Slots : "token" \in DOMAIN task[s] => task[s].token # token

\* The delivery a handler is about to write was consumed after it read it.
Stale(s) == {m \in {task[s].media} : deliveries[m].consumed /\ ~task[s].consumed}

-------------------------------------------------------------------------------
(* Uploads: the file, then the row or rows.                                *)

PersistMediaFile(m) == files' = files \cup {m}

\* POST /media/vault
UploadVault(s, h, m, ready) ==
  /\ Fresh(m)
  /\ PersistMediaFile(m)
  /\ Begin(s, [at |-> "insert_asset", media |-> m,
               asset |-> [owner |-> h, guild |-> guild[h], mode |-> "vault", ready |-> ready]])
  /\ UNCHANGED <<now, guild, assets, deliveries, exports, history>>

\* POST /media/once: expires_at counts from here, before the file is written.
SendOnce(s, h, r, m, ttl) ==
  /\ Fresh(m)
  /\ r # h
  /\ <<h, r>> \in Friend
  /\ PersistMediaFile(m)
  /\ Begin(s, [at |-> "insert_asset", media |-> m,
               asset |-> [owner |-> h, guild |-> guild[h], mode |-> "once", ready |-> FALSE],
               recipient |-> r, expires |-> now + ttl])
  /\ UNCHANGED <<now, guild, assets, deliveries, exports, history>>

\* POST /quests/{id}/proof-media; the status of the quest it checks first is the
\* business of Habits, and a refused upload changes nothing.
UploadProof(s, h, m) ==
  /\ Fresh(m)
  /\ PersistMediaFile(m)
  /\ Begin(s, [at |-> "insert_proof", media |-> m,
               asset |-> [owner |-> h, guild |-> guild[h], mode |-> "proof", ready |-> FALSE]])
  /\ UNCHANGED <<now, guild, assets, deliveries, exports, history>>

\* The asset's row; a one-time image still needs its delivery.
InsertAsset(s) ==
  LET t == task[s] IN
  /\ At(s, "insert_asset")
  /\ assets' = [assets EXCEPT ![t.media] = t.asset]
  /\ IF t.asset.mode = "once" THEN Continue(s, [t EXCEPT !.at = "insert_delivery"])
                              ELSE Answer(s)
  /\ UNCHANGED <<now, guild, files, deliveries, exports, history>>

InsertDelivery(s) ==
  LET t == task[s] IN
  /\ At(s, "insert_delivery")
  /\ deliveries' = [deliveries EXCEPT ![t.media] =
        [sender |-> t.asset.owner, recipient |-> t.recipient, opened |-> FALSE,
         consumed |-> FALSE, expires |-> t.expires,
         token |-> Null, tokenExpires |-> 0]]
  /\ Answer(s)
  /\ UNCHANGED <<now, guild, files, assets, exports, history>>

InsertProof(s) ==
  LET t == task[s] IN
  /\ At(s, "insert_proof")
  /\ assets' = [assets EXCEPT ![t.media] = t.asset]
  /\ Answer(s)
  /\ UNCHANGED <<now, guild, files, deliveries, exports, history>>

\* mutant: the file of a refused proof stays
ProofRefusedKeepsFile(s) ==
  /\ At(s, "insert_proof")
  /\ Answer(s)
  /\ UNCHANGED <<now, guild, rowVars, history>>

\* The insert of a proof fails: its file is removed again.
ProofRefused(s) ==
  /\ At(s, "insert_proof")
  /\ files' = files \ {task[s].media}
  /\ Answer(s)
  /\ UNCHANGED <<now, guild, assets, deliveries, exports, history>>

-------------------------------------------------------------------------------
(* View-once: open for a token, then fetch with it.                        *)

\* mutant: a late open is not refused
BeginOpenExpired(s, m) ==
  /\ Sent(m)
  /\ ~deliveries[m].consumed
  /\ Begin(s, [at |-> "open_write", media |-> m, consumed |-> FALSE, time |-> now])
  /\ UNCHANGED <<now, guild, rowVars, history>>

\* POST /media/once/{id}/open: the recipient's row, read and checked
BeginOpen(s, m) ==
  /\ Sent(m)
  /\ deliveries[m].expires > now
  /\ ~deliveries[m].consumed
  /\ Begin(s, [at |-> "open_write", media |-> m, consumed |-> FALSE, time |-> now])
  /\ UNCHANGED <<now, guild, rowVars, history>>

\* UPDATE of opened_at and the token, whatever the row has become
OpenWrite(s, token) ==
  LET t == task[s] IN
  /\ At(s, "open_write")
  /\ NewToken(token)
  /\ deliveries' = [deliveries EXCEPT ![t.media] =
        [@ EXCEPT !.opened = TRUE, !.token = token,
                  !.tokenExpires = t.time + TokenTtl]]
  /\ contested' = contested \cup Stale(s)
  /\ Answer(s)
  /\ UNCHANGED <<now, guild, files, assets, exports, served, seenBy, abandoned>>

\* GET /media/once/{id}/content with the token the row holds; the image is read
\* from disk before the delivery is consumed.
BeginFetch(s, m) ==
  /\ Sent(m)
  /\ deliveries[m].token # Null
  /\ deliveries[m].tokenExpires > now
  /\ Exists(m) /\ m \in files
  /\ Begin(s, [at |-> "fetch_write", media |-> m, token |-> deliveries[m].token,
               consumed |-> deliveries[m].consumed, time |-> now])
  /\ UNCHANGED <<now, guild, rowVars, history>>

\* mutant: the token survives the fetch
FetchWriteKeepsToken(s) ==
  LET t == task[s] IN
  /\ At(s, "fetch_write")
  /\ deliveries' = [deliveries EXCEPT ![t.media] =
        [@ EXCEPT !.opened = TRUE, !.consumed = TRUE]]
  /\ contested' = contested \cup Stale(s)
  /\ Continue(s, [at |-> "fetch_serve", media |-> t.media])
  /\ UNCHANGED <<now, guild, files, assets, exports, served, seenBy, abandoned>>

\* UPDATE of the delivery as consumed
FetchWrite(s) ==
  LET t == task[s] IN
  /\ At(s, "fetch_write")
  /\ deliveries' = [deliveries EXCEPT ![t.media] =
        [@ EXCEPT !.opened = TRUE, !.consumed = TRUE,
                  !.token = Null, !.tokenExpires = 0]]
  /\ contested' = contested \cup Stale(s)
  /\ Continue(s, [at |-> "fetch_serve", media |-> t.media])
  /\ UNCHANGED <<now, guild, files, assets, exports, served, seenBy, abandoned>>

\* The bytes go out.
FetchServe(s) ==
  LET m == task[s].media IN
  /\ At(s, "fetch_serve")
  /\ served' = [served EXCEPT ![m] = @ + 1]
  /\ seenBy' = seenBy \cup
       {<<deliveries[m].recipient, guild[deliveries[m].recipient], m>>}
  /\ Answer(s)
  /\ UNCHANGED <<now, guild, rowVars, contested, abandoned>>

\* mutant: friends of the owner may read one-time images too
MayReadOnceAsset(h, m) ==
  \/ assets[m].owner = h
  \/ Sent(m) /\ h \in {deliveries[m].sender, deliveries[m].recipient}
  \/ <<assets[m].owner, h>> \in Friend

\* Who may read an asset through its own route: the owner, both ends of a
\* delivery of it, and for the vault the friends of the owner.
MayReadAsset(h, m) ==
  \/ assets[m].owner = h
  \/ Sent(m) /\ h \in {deliveries[m].sender, deliveries[m].recipient}
  \/ assets[m].mode = "vault" /\ <<assets[m].owner, h>> \in Friend

\* The bytes of m are read from disk and sent to h, in one step with the check
\* before it.
Send(s, h, m) ==
  /\ m \in files
  /\ seenBy' = seenBy \cup {<<h, guild[h], m>>}
  /\ Once(s)
  /\ UNCHANGED <<now, guild, rowVars, served, contested, abandoned>>

\* GET /media/assets/{id}/content
ReadAsset(s, h, m) ==
  /\ Exists(m) /\ assets[m].mode # "proof"
  /\ MayReadAsset(h, m)
  /\ Send(s, h, m)

\* GET /quests/proof-media/{id}/content: open to the whole guild of the quest
ReadProof(s, h, m) ==
  /\ Exists(m) /\ assets[m].mode = "proof"
  /\ assets[m].guild = guild[h]
  /\ Send(s, h, m)

ReadImage(s, h, m) == ReadAsset(s, h, m) \/ ReadProof(s, h, m)

-------------------------------------------------------------------------------
(* POST /media/exports                                                     *)

InVault(h, m) == Exists(m) /\ assets[m].owner = h /\ assets[m].mode = "vault"

\* the vault of h as its present guild shows it
VaultOf(h) == {m \in Media : InVault(h, m) /\ assets[m].guild = guild[h]}

\* The assets are found in the owner's vault and the export is inserted.
CreateExport(s, h, chosen) ==
  /\ chosen # {} /\ chosen \subseteq VaultOf(h)
  /\ exports' = exports \cup {[owner |-> h, assets |-> chosen]}
  /\ Begin(s, [at |-> "export_mark", todo |-> chosen])
  /\ UNCHANGED <<now, guild, files, assets, deliveries, history>>

\* mutant: the rest of the assets is left unmarked
ExportMarkOne(s, m) ==
  /\ At(s, "export_mark")
  /\ m \in task[s].todo
  /\ assets' = [assets EXCEPT ![m].ready = TRUE]
  /\ Answer(s)
  /\ UNCHANGED <<now, guild, files, deliveries, exports, history>>

\* The assets are marked one UPDATE at a time.
ExportMark(s, m) ==
  LET todo == task[s].todo \ {m} IN
  /\ At(s, "export_mark")
  /\ m \in task[s].todo
  /\ assets' = [assets EXCEPT ![m].ready = TRUE]
  /\ IF todo = {} THEN Answer(s) ELSE Continue(s, [task[s] EXCEPT !.todo = todo])
  /\ UNCHANGED <<now, guild, files, deliveries, exports, history>>

-------------------------------------------------------------------------------

\* Images a handler leaves unfinished.
Unfinished(s) ==
  CASE At(s, "insert_asset") \/ At(s, "insert_delivery") \/ At(s, "insert_proof")
         -> {task[s].media}
    [] At(s, "export_mark") -> task[s].todo
    [] OTHER -> {}

\* A statement fails or the client goes away: what is committed stays.
Drop(s) ==
  /\ Abandon(s)
  /\ abandoned' = abandoned \cup Unfinished(s)
  /\ UNCHANGED <<now, guild, rowVars, served, seenBy, contested>>

Tick ==
  /\ now < MaxTime
  /\ now' = now + 1
  /\ UNCHANGED <<guild, rowVars, history, handlerVars>>

\* A hunter accepts the invite of another guild (social.rs): its row moves there, its
\* images stay where they are.
ChangeGuild(h, g) ==
  /\ g # guild[h]
  /\ left > 0 /\ left' = left - 1
  /\ guild' = [guild EXCEPT ![h] = g]
  /\ UNCHANGED <<now, rowVars, history, task>>

Init ==
  /\ now = 1
  /\ guild = HomeGuild
  /\ files = {}
  /\ assets = [m \in Media |-> NoRow]
  /\ deliveries = [m \in Media |-> NoRow]
  /\ exports = {}
  /\ served = [m \in Media |-> 0]
  /\ seenBy = {}
  /\ contested = {}
  /\ abandoned = {}
  /\ HandlersInit

Next ==
  \/ Tick
  \/ \E h \in Movers, g \in Guilds : ChangeGuild(h, g)
  \/ \E s \in Slots :
       \/ \E h \in Hunters, m \in Media :
            \/ \E ready \in BOOLEAN : UploadVault(s, h, m, ready)
            \/ \E r \in Hunters, ttl \in OnceTtls : SendOnce(s, h, r, m, ttl)
            \/ UploadProof(s, h, m)
            \/ ReadImage(s, h, m)
       \/ InsertAsset(s) \/ InsertDelivery(s)
       \/ InsertProof(s) \/ ProofRefused(s)
       \/ \E m \in Media : BeginOpen(s, m) \/ BeginFetch(s, m) \/ ExportMark(s, m)
       \/ \E token \in Tokens : OpenWrite(s, token)
       \/ FetchWrite(s) \/ FetchServe(s)
       \/ \E h \in Hunters, chosen \in SUBSET Media : CreateExport(s, h, chosen)
       \/ Drop(s)

Spec == Init /\ [][Next]_vars

-------------------------------------------------------------------------------
(* Properties.                                                             *)

\* The rows and the history have their types, and a delivery has a token together
\* with its expiry or neither.
TypeOK ==
  /\ now \in 1 .. MaxTime
  /\ guild \in [Hunters -> Guilds]
  /\ files \subseteq Media
  /\ assets \in [Media -> Asset \cup {NoRow}]
  /\ deliveries \in [Media -> Delivery \cup {NoRow}]
  /\ \A m \in Media : Sent(m) => (deliveries[m].token = Null <=> deliveries[m].tokenExpires = 0)
  /\ exports \subseteq Export
  /\ served \in [Media -> Nat]
  /\ seenBy \subseteq Hunters \X Guilds \X Media
  /\ contested \subseteq Media /\ abandoned \subseteq Media

\* Some handler will still finish what is missing of m.
InHand(m) == \E s \in Slots : m \in Unfinished(s)

\* File, asset and delivery are three steps of an upload, and still a row always
\* has its file and a delivery its one-time asset; a file without a row, or a
\* one-time asset without a delivery, is being finished or was abandoned.
UploadsAccounted ==
  \A m \in Media :
    /\ Exists(m) => m \in files
    /\ Sent(m) => /\ Exists(m) /\ assets[m].mode = "once"
                  /\ deliveries[m].sender = assets[m].owner
    /\ m \in files /\ ~Exists(m) => InHand(m) \/ m \in abandoned
    /\ Exists(m) /\ assets[m].mode = "once" /\ ~Sent(m) => InHand(m) \/ m \in abandoned

Serving(m) == {s \in Slots : At(s, "fetch_serve") /\ task[s].media = m}

\* The token route serves an image once, and a consumed delivery is never armed
\* again, unless a handler that had read it unconsumed wrote it after another had
\* consumed it (open_once_media and get_once_media_content update by primary key).
ViewedOnce ==
  \A m \in Media \ contested :
    /\ served[m] + Cardinality(Serving(m)) <= 1
    /\ Sent(m) /\ deliveries[m].consumed => deliveries[m].token = Null

\* get_once_media_content does not look at expires_at: a view may start after it,
\* but no later than a token opened just before it lives.
NoViewAfterExpiry ==
  \A s \in Slots : At(s, "fetch_write") =>
    task[s].time < deliveries[task[s].media].expires + TokenTtl

\* Three routes serve images, each with a check of its own: a vault image reaches
\* only its owner and friends of its owner, a one-time image only its sender and the
\* friend it was sent to, and the proof of a habit only hunters who are, when they ask,
\* in the guild it was uploaded for, whatever guild its uploader has moved to.
OnlyEntitledSee ==
  \A h \in Hunters, g \in Guilds, m \in Media : <<h, g, m>> \in seenBy =>
    /\ Exists(m)
    /\ IF assets[m].mode = "proof"
       THEN assets[m].guild = g
       ELSE h # assets[m].owner =>
              /\ <<assets[m].owner, h>> \in Friend
              /\ assets[m].mode = "once" => Sent(m) /\ deliveries[m].recipient = h

\* An export lists vault images of its owner, all marked ready once the handler
\* that created it is through, unless it was abandoned between two updates.
ExportsMarked ==
  \A e \in exports : \A m \in e.assets :
    /\ InVault(e.owner, m)
    /\ assets[m].ready \/ InHand(m) \/ m \in abandoned
===============================================================================
