-------------------------------- MODULE Schema ---------------------------------
(***************************************************************************)
(* The database schema (apps/server/migration, apps/server/entity): what   *)
(* each migration's up and down do to the tables and to the rows it        *)
(* rewrites, and what the entities the handlers read expect to find.       *)
(*                                                                         *)
(* The catalogue has an entry for each table and each enum type.  A        *)
(* table's entry holds its columns, its indexes and what its columns use:  *)
(* the tables their foreign keys refer to and the types they are of.       *)
(* Widths, defaults and nullability are left out.                          *)
(***************************************************************************)
EXTENDS Integers, FiniteSets, Sequences, SequencesExt

CONSTANTS
  Guilds        \* guilds that may register; each has an owner of its own

(* The catalogue *)

\* columns: names.  uses: <<column, table or type>>.  indexes: <<name, columns>>.
Entry(columns, uses, indexes) == [columns |-> columns, uses |-> uses, indexes |-> indexes]

NoEntry == Entry({}, {}, {})

With(p, q) == Entry(p.columns \union q.columns, p.uses \union q.uses, p.indexes \union q.indexes)

\* A column goes with its foreign keys and with the indexes it is in.
WithoutColumn(p, c) ==
  Entry(p.columns \ {c}, {u \in p.uses : u[1] # c}, {i \in p.indexes : c \notin i[2]})

IndexNames(p) == {i[1] : i \in p.indexes}

Tables(d) == DOMAIN d.catalogue

(* Statements *)

CreateTable(t, cs, us) ==          \* IF NOT EXISTS
  [do |-> "create", name |-> t, entry |-> Entry(cs, us, {}), ifNotExists |-> TRUE]

CreateType(y) == CreateTable(y, {}, {})

DropTable(t) == [do |-> "drop", name |-> t, ifExists |-> FALSE]

DropTableIfExists(t) == [DropTable(t) EXCEPT !.ifExists = TRUE]

DropTypeIfExists(y) == DropTableIfExists(y)

Alter(t, cs, us, is) == [do |-> "alter", name |-> t, entry |-> Entry(cs, us, is), ifNotExists |-> FALSE]

AddColumns(t, cs, us) == Alter(t, cs, us, {})

AddReference(t, c, to) == Alter(t, {}, {<<c, to>>}, {})

CreateIndex(i, t, cs) == Alter(t, {}, {}, {<<i, cs>>})

IfNotExists(s) == [s EXCEPT !.ifNotExists = TRUE]

DropColumn(t, c) == [do |-> "dropColumn", name |-> t, part |-> c, ifExists |-> FALSE]

DropColumns(t, cs) == [i \in DOMAIN cs |-> DropColumn(t, cs[i])]

DropIndex(i, t) == [do |-> "dropIndex", name |-> t, part |-> i, ifExists |-> FALSE]

DropReference(t, c, to) == [do |-> "dropUse", name |-> t, part |-> <<c, to>>, ifExists |-> FALSE]

IfExists(s) == [s EXCEPT !.ifExists = TRUE]

Rewrite(what) == [do |-> "rewrite", what |-> what]

(* Rows: guilds and hunters, as far as a migration rewrites them *)

NoRole == "none"

Fresh(hunters) == Cardinality(hunters) + 1

Hunter(i, g, owner, role, pin, hashed) ==
  [id |-> i, guild |-> g, owner |-> owner, role |-> role, pin |-> pin, hashed |-> hashed]

\* pick_available_pin: compares the stored texts, so a hash occupies nothing; a guild in
\* which all 10,000 PINs are taken gets the last one again.
AvailablePin(hunters, g) ==
  LET last == 9999
      free(p) == \A h \in hunters : h.guild = g /\ ~h.hashed => h.pin # p
  IN IF \E p \in 0..last : free(p)
     THEN CHOOSE p \in 0..last : free(p) /\ \A q \in 0..(p - 1) : ~free(q)
     ELSE last

\* find_owner_hunter: the owner's row if there is one, else a master's.
OwnerHunters(hunters, g) ==
  LET mine == {h \in hunters : h.guild = g /\ h.owner}
  IN IF mine # {} THEN mine ELSE {h \in hunters : h.guild = g /\ h.role = "master"}

\* backfill_owner_hunters: one guild of its loop
BackfillOwner(hunters, g) ==
  LET found == OwnerHunters(hunters, g)
  IN IF found = {}
     THEN hunters \union
            {Hunter(Fresh(hunters), g, TRUE, "master", AvailablePin(hunters, g), FALSE)}
     ELSE LET h == CHOOSE h \in found : \A k \in found : h.id <= k.id
          IN (hunters \ {h}) \union {[h EXCEPT !.owner = TRUE, !.role = "master"]}

BackfillOwners(guilds, hunters) ==
  FoldSet(LAMBDA g, hs : BackfillOwner(hs, g), hunters, guilds)

Members(hunters) ==
  {[h EXCEPT !.role = IF @ = NoRole THEN "member" ELSE @] : h \in hunters}

HashPins(hunters) == {[h EXCEPT !.hashed = TRUE] : h \in hunters}

Rewritten(guilds, hunters, what) ==
  CASE what = "members" -> Members(hunters)
    [] what = "owners"  -> BackfillOwners(guilds, hunters)
    [] what = "hashed"  -> HashPins(hunters)

(* Running a statement, and a migration *)

Failed(d) == [d EXCEPT !.failed = TRUE]

\* The values a dropped table or column held are lost with it.
Conform(d) ==
  LET has(c) == c \in d.catalogue["hunters"].columns
  IN [d EXCEPT
        !.guilds  = IF "guilds" \in Tables(d) THEN @ ELSE {},
        !.hunters = IF "hunters" \notin Tables(d) THEN {}
                    ELSE {[h EXCEPT !.role  = IF has("guild_role") THEN @ ELSE NoRole,
                                    !.owner = @ /\ has("user_id")] : h \in @}]

CreateIn(d, s) ==
  IF s.name \in Tables(d) THEN IF s.ifNotExists THEN d ELSE Failed(d)
  ELSE IF \A u \in s.entry.uses : u[2] \in Tables(d)
  THEN [d EXCEPT !.catalogue =
          [t \in Tables(d) \union {s.name} |-> IF t = s.name THEN s.entry ELSE @[t]]]
  ELSE Failed(d)

\* What an ALTER or CREATE INDEX still has to add, when it says IF NOT EXISTS.
Missing(p, q) ==
  Entry(q.columns \ p.columns, {u \in q.uses : u[1] \notin p.columns},
        {i \in q.indexes : i[1] \notin IndexNames(p)})

AlterIn(d, s) ==
  LET p == d.catalogue[s.name]
      q == IF s.ifNotExists THEN Missing(p, s.entry) ELSE s.entry
      r == With(p, q)
  IN IF /\ s.name \in Tables(d)
        /\ q.columns \intersect p.columns = {}
        /\ q.uses \intersect p.uses = {}
        /\ IndexNames(q) \intersect IndexNames(p) = {}
        /\ \A i \in q.indexes : i[2] \subseteq r.columns
        /\ \A u \in q.uses : u[1] \in r.columns /\ u[2] \in Tables(d)
     THEN [d EXCEPT !.catalogue[s.name] = r]
     ELSE Failed(d)

\* Refused while another table uses it.
DropIn(d, s) ==
  IF s.name \notin Tables(d) THEN IF s.ifExists THEN d ELSE Failed(d)
  ELSE IF \E t \in Tables(d) \ {s.name} : \E u \in d.catalogue[t].uses : u[2] = s.name
  THEN Failed(d)
  ELSE Conform([d EXCEPT !.catalogue = [t \in Tables(d) \ {s.name} |-> @[t]]])

RemoveIn(d, s, there, after) ==
  IF s.name \in Tables(d) /\ there THEN Conform([d EXCEPT !.catalogue[s.name] = after])
  ELSE IF s.ifExists THEN d
  ELSE Failed(d)

Run(d, s) ==
  LET p == d.catalogue[s.name]
  IN CASE d.failed -> d
       [] ~d.failed /\ s.do = "create" -> CreateIn(d, s)
       [] ~d.failed /\ s.do = "alter" -> AlterIn(d, s)
       [] ~d.failed /\ s.do = "drop" -> DropIn(d, s)
       [] ~d.failed /\ s.do = "dropColumn" ->
            RemoveIn(d, s, s.part \in p.columns, WithoutColumn(p, s.part))
       [] ~d.failed /\ s.do = "dropUse" ->
            RemoveIn(d, s, s.part \in p.uses, [p EXCEPT !.uses = @ \ {s.part}])
       [] ~d.failed /\ s.do = "dropIndex" ->
            RemoveIn(d, s, s.part \in IndexNames(p),
                     [p EXCEPT !.indexes = {i \in @ : i[1] # s.part}])
       [] ~d.failed /\ s.do = "rewrite" -> [d EXCEPT !.hunters = Rewritten(d.guilds, @, s.what)]

(* The migrations *)

CoreTablesUp == <<>>
CoreTablesDown == <<>>

UsersAndGuildsUp == <<
  CreateTable("users", {"id", "email", "password_hash", "created_at"}, {}),
  CreateIndex("idx_users_email_unique", "users", {"email"}),
  CreateTable("guilds", {"id", "name", "owner_id", "invite_code"}, {<<"owner_id", "users">>}),
  CreateIndex("idx_guilds_owner_unique", "guilds", {"owner_id"}),
  CreateIndex("idx_guilds_invite_code_unique", "guilds", {"invite_code"}) >>

HuntersAndQuestsUp == <<
  CreateTable("hunters",
    {"id", "guild_id", "name", "avatar_type", "level", "xp", "coins", "pin_code"},
    {<<"guild_id", "guilds">>}),
  CreateIndex("idx_hunters_guild_pin_unique", "hunters", {"guild_id", "pin_code"}),
  CreateIndex("idx_hunters_guild_id", "hunters", {"guild_id"}),
  CreateTable("quests",
    {"id", "guild_id", "title", "description", "reward_xp", "reward_coins", "status"},
    {<<"guild_id", "guilds">>}),
  CreateIndex("idx_quests_guild_status", "quests", {"guild_id", "status"}) >>

GuildAuthDown == <<
  DropTable("quests"), DropTable("hunters"), DropTable("guilds"), DropTable("users") >>

PlayerIdsAndLinksUp == <<
  AddColumns("hunters", {"player_id"}, {}),
  CreateIndex("idx_hunters_player_id_unique", "hunters", {"player_id"}),
  CreateTable("friend_links", {"id", "player_id", "friend_id", "created_at"},
    {<<"player_id", "hunters">>, <<"friend_id", "hunters">>}),
  CreateIndex("idx_friend_links_pair_unique", "friend_links", {"player_id", "friend_id"}),
  CreateIndex("idx_friend_links_friend_id", "friend_links", {"friend_id"}) >>

GuildInvitesUp == <<
  CreateTable("guild_invites",
    {"id", "guild_id", "inviter_hunter_id", "invited_hunter_id", "status",
     "created_at", "responded_at"},
    {<<"guild_id", "guilds">>, <<"inviter_hunter_id", "hunters">>,
     <<"invited_hunter_id", "hunters">>}),
  CreateIndex("idx_guild_invites_invited_status", "guild_invites",
    {"invited_hunter_id", "status"}) >>

SocialDown == <<
  DropTable("guild_invites"), DropTable("friend_links"),
  DropIndex("idx_hunters_player_id_unique", "hunters"), DropColumn("hunters", "player_id") >>

UserTagsUp == <<
  AddColumns("users", {"hunter_tag"}, {}),
  AddColumns("users", {"current_role"}, {}),
  CreateIndex("idx_users_hunter_tag_unique", "users", {"hunter_tag"}),
  CreateTable("friend_requests",
    {"id", "requester_hunter_id", "target_hunter_id", "status", "created_at", "responded_at"},
    {<<"requester_hunter_id", "hunters">>, <<"target_hunter_id", "hunters">>}),
  CreateIndex("idx_friend_requests_pair_unique", "friend_requests",
    {"requester_hunter_id", "target_hunter_id"}),
  CreateIndex("idx_friend_requests_target_status", "friend_requests",
    {"target_hunter_id", "status"}) >>

UserTagsDown == <<
  DropTable("friend_requests"), DropIndex("idx_users_hunter_tag_unique", "users"),
  DropColumn("users", "hunter_tag"), DropColumn("users", "current_role") >>

OwnerRoleUpThen(last) == <<
  AddColumns("hunters", {"user_id"}, {}),
  AddColumns("hunters", {"guild_role"}, {}),
  Rewrite("members"),
  CreateIndex("idx_hunters_user_id_unique", "hunters", {"user_id"}),
  CreateIndex("idx_hunters_guild_role", "hunters", {"guild_id", "guild_role"}),
  AddReference("hunters", "user_id", "users") >> \o last

\* Mutant: the guilds that are there get no hunter for their owner.
OwnerRoleUpNoBackfill == OwnerRoleUpThen(<<>>)

OwnerRoleUp == OwnerRoleUpThen(<< Rewrite("owners") >>)

OwnerRoleDown == <<
  DropReference("hunters", "user_id", "users"),
  DropIndex("idx_hunters_guild_role", "hunters"), DropIndex("idx_hunters_user_id_unique", "hunters"),
  DropColumn("hunters", "guild_role"), DropColumn("hunters", "user_id") >>

MottoUp == << AddColumns("hunters", {"motto"}, {}) >>
MottoDown == << DropColumn("hunters", "motto") >>

StatCategoryUp == << AddColumns("quests", {"stat_category"}, {}) >>
StatCategoryDown == << DropColumn("quests", "stat_category") >>

\* The down keeps the wide column and the hashes.
HashPinsUp == << Rewrite("hashed") >>
HashPinsDown == <<>>

\* A column under a new name is filled, the old one dropped, the new one renamed.
StatEnumUp == <<
  CreateType("stat_category"),
  DropColumn("quests", "stat_category"),
  AddColumns("quests", {"stat_category"}, {<<"stat_category", "stat_category">>}) >>

StatEnumDown == <<
  DropColumn("quests", "stat_category"),
  AddColumns("quests", {"stat_category"}, {}),
  DropTypeIfExists("stat_category") >>

ChatUp == <<
  CreateTable("chat_messages",
    {"id", "guild_id", "sender_hunter_id", "room_id", "client_message_id", "content", "sent_at"},
    {<<"guild_id", "guilds">>, <<"sender_hunter_id", "hunters">>}),
  CreateIndex("idx_chat_messages_room_timeline", "chat_messages",
    {"guild_id", "room_id", "sent_at"}),
  CreateIndex("idx_chat_messages_room_client_unique", "chat_messages",
    {"guild_id", "room_id", "client_message_id"}) >>

ChatDown == << DropTable("chat_messages") >>

LedgerUp == <<
  CreateType("stat_category"),
  CreateTable("hunter_reward_ledger",
    {"id", "hunter_id", "quest_id", "stat_category", "gained_xp", "gained_coins", "created_at"},
    {<<"hunter_id", "hunters">>, <<"quest_id", "quests">>, <<"stat_category", "stat_category">>}),
  IfNotExists(CreateIndex("idx_hunter_reward_ledger_hunter_created_at", "hunter_reward_ledger",
               {"hunter_id", "created_at"})),
  IfNotExists(CreateIndex("idx_hunter_reward_ledger_hunter_stat", "hunter_reward_ledger",
               {"hunter_id", "stat_category"})) >>

LedgerDown == <<
  IfExists(DropIndex("idx_hunter_reward_ledger_hunter_stat", "hunter_reward_ledger")),
  IfExists(DropIndex("idx_hunter_reward_ledger_hunter_created_at", "hunter_reward_ledger")),
  DropTableIfExists("hunter_reward_ledger") >>

ShopUp == <<
  CreateType("ledger_event_type"),
  CreateTable("guild_items",
    {"id", "guild_id", "name", "description", "cost_coins", "icon_tag"},
    {<<"guild_id", "guilds">>}),
  IfNotExists(CreateIndex("idx_guild_items_guild_name_unique", "guild_items", {"guild_id", "name"})),
  IfNotExists(AddColumns("hunter_reward_ledger", {"event_type"}, {<<"event_type", "ledger_event_type">>})),
  IfNotExists(AddColumns("hunter_reward_ledger", {"item_id"}, {})),
  IfNotExists(AddColumns("hunter_reward_ledger", {"idempotency_key"}, {})),
  IfExists(DropReference("hunter_reward_ledger", "item_id", "guild_items")),
  AddReference("hunter_reward_ledger", "item_id", "guild_items"),
  IfNotExists(CreateIndex("idx_hunter_reward_ledger_hunter_idempotency", "hunter_reward_ledger",
               {"hunter_id", "idempotency_key"})),
  CreateTable("hunter_inventories", {"id", "hunter_id", "item_id", "quantity", "updated_at"},
    {<<"hunter_id", "hunters">>, <<"item_id", "guild_items">>}),
  IfNotExists(CreateIndex("idx_hunter_inventories_hunter_item_unique", "hunter_inventories",
               {"hunter_id", "item_id"})) >>

ShopDown == <<
  IfExists(DropIndex("idx_hunter_inventories_hunter_item_unique", "hunter_inventories")),
  DropTableIfExists("hunter_inventories"),
  IfExists(DropIndex("idx_hunter_reward_ledger_hunter_idempotency", "hunter_reward_ledger")),
  IfExists(DropReference("hunter_reward_ledger", "item_id", "guild_items")),
  IfExists(DropColumn("hunter_reward_ledger", "idempotency_key")),
  IfExists(DropColumn("hunter_reward_ledger", "item_id")),
  IfExists(DropColumn("hunter_reward_ledger", "event_type")),
  IfExists(DropIndex("idx_guild_items_guild_name_unique", "guild_items")),
  DropTableIfExists("guild_items"),
  DropTypeIfExists("ledger_event_type") >>

ActiveItemsUp == << IfNotExists(AddColumns("guild_items", {"is_active"}, {})) >>
ActiveItemsDown == << IfExists(DropColumn("guild_items", "is_active")) >>

HabitsUp == <<
  AddColumns("quests",
    {"category", "assigned_hunter_id", "created_by_hunter_id", "cadence", "streak_count",
     "best_streak", "completions_count", "proof_note", "proof_submitted_at",
     "last_completed_at", "last_review_note", "updated_at"},
    {<<"assigned_hunter_id", "hunters">>, <<"created_by_hunter_id", "hunters">>}),
  CreateIndex("idx_quests_guild_category", "quests", {"guild_id", "category"}),
  CreateIndex("idx_quests_assigned_status", "quests", {"assigned_hunter_id", "status"}) >>

HabitsDown == <<
  IfExists(DropIndex("idx_quests_assigned_status", "quests")),
  IfExists(DropIndex("idx_quests_guild_category", "quests")) >>
  \o DropColumns("quests",
       <<"updated_at", "last_review_note", "last_completed_at", "proof_submitted_at",
         "proof_note", "completions_count", "best_streak", "streak_count", "cadence",
         "created_by_hunter_id", "assigned_hunter_id", "category">>)

DirectMessagesUp == <<
  CreateTable("direct_messages",
    {"id", "sender_hunter_id", "recipient_hunter_id", "conversation_key",
     "client_message_id", "content", "sent_at"},
    {<<"sender_hunter_id", "hunters">>, <<"recipient_hunter_id", "hunters">>}),
  CreateIndex("idx_direct_messages_conversation_timeline", "direct_messages",
    {"conversation_key", "sent_at"}),
  CreateIndex("idx_direct_messages_hunter_timeline", "direct_messages",
    {"sender_hunter_id", "recipient_hunter_id", "sent_at"}),
  CreateIndex("idx_direct_messages_conversation_client_unique", "direct_messages",
    {"conversation_key", "client_message_id"}) >>

DirectMessagesDown == << DropTable("direct_messages") >>

DeviceKeysUp == <<
  CreateTable("dm_device_keys",
    {"id", "hunter_id", "device_id", "device_label", "signing_public_key",
     "encryption_public_key", "created_at", "last_seen_at", "revoked_at"},
    {<<"hunter_id", "hunters">>}),
  CreateIndex("idx_dm_device_keys_hunter_device_unique", "dm_device_keys",
    {"hunter_id", "device_id"}),
  CreateIndex("idx_dm_device_keys_hunter_active", "dm_device_keys",
    {"hunter_id", "revoked_at"}) >>

CapabilitiesUp == <<
  CreateTable("dm_conversation_capabilities",
    {"conversation_key", "left_hunter_id", "right_hunter_id", "encryption_mode",
     "upgraded_at", "last_handshake_at"},
    {<<"left_hunter_id", "hunters">>, <<"right_hunter_id", "hunters">>}),
  CreateIndex("idx_dm_capabilities_pair", "dm_conversation_capabilities",
    {"left_hunter_id", "right_hunter_id"}) >>

EncryptedMessagesUp == <<
  CreateTable("dm_encrypted_messages",
    {"id", "sender_hunter_id", "recipient_hunter_id", "conversation_key",
     "sender_device_id", "recipient_device_id", "client_message_id", "protocol_version",
     "ciphertext", "nonce", "sent_at"},
    {<<"sender_hunter_id", "hunters">>, <<"recipient_hunter_id", "hunters">>}),
  CreateIndex("idx_dm_encrypted_conversation_timeline", "dm_encrypted_messages",
    {"conversation_key", "sent_at"}),
  CreateIndex("idx_dm_encrypted_conversation_client_unique", "dm_encrypted_messages",
    {"conversation_key", "client_message_id"}) >>

EncryptionDown == <<
  DropTable("dm_encrypted_messages"), DropTable("dm_conversation_capabilities"),
  DropTable("dm_device_keys") >>

ThreadReadsUp == <<
  CreateTable("dm_thread_reads",
    {"id", "hunter_id", "conversation_key", "last_read_at", "updated_at"},
    {<<"hunter_id", "hunters">>}),
  CreateIndex("idx_dm_thread_reads_hunter_conversation_unique", "dm_thread_reads",
    {"hunter_id", "conversation_key"}),
  CreateIndex("idx_dm_thread_reads_hunter_updated", "dm_thread_reads",
    {"hunter_id", "updated_at"}) >>

ThreadReadsDown == << DropTable("dm_thread_reads") >>

ProofMediaUp == <<
  CreateTable("quest_proof_media",
    {"id", "quest_id", "guild_id", "uploaded_by_hunter_id", "storage_key",
     "original_filename", "mime_type", "byte_size", "created_at"},
    {<<"quest_id", "quests">>, <<"guild_id", "guilds">>,
     <<"uploaded_by_hunter_id", "hunters">>}),
  CreateIndex("idx_quest_proof_media_quest_created", "quest_proof_media",
    {"quest_id", "created_at"}),
  CreateIndex("idx_quest_proof_media_guild_created", "quest_proof_media",
    {"guild_id", "created_at"}),
  CreateIndex("idx_quest_proof_media_storage_key_unique", "quest_proof_media",
    {"storage_key"}) >>

ProofMediaDown == << DropTable("quest_proof_media") >>

MediaAssetsUp == <<
  CreateTable("media_assets",
    {"id", "guild_id", "owner_hunter_id", "mode", "storage_key", "original_filename",
     "mime_type", "byte_size", "caption", "is_photo_dump_ready", "created_at", "expires_at"},
    {<<"guild_id", "guilds">>, <<"owner_hunter_id", "hunters">>}),
  CreateIndex("idx_media_assets_storage_key_unique", "media_assets", {"storage_key"}),
  CreateIndex("idx_media_assets_owner_created", "media_assets",
    {"owner_hunter_id", "created_at"}) >>

OnceDeliveriesUp == <<
  CreateTable("media_once_deliveries",
    {"id", "media_asset_id", "guild_id", "sender_hunter_id", "recipient_hunter_id",
     "remaining_views", "opened_at", "consumed_at", "expires_at", "access_token_hash",
     "access_token_expires_at", "created_at"},
    {<<"media_asset_id", "media_assets">>, <<"guild_id", "guilds">>,
     <<"sender_hunter_id", "hunters">>, <<"recipient_hunter_id", "hunters">>}),
  CreateIndex("idx_media_once_delivery_recipient_created", "media_once_deliveries",
    {"recipient_hunter_id", "created_at"}),
  CreateIndex("idx_media_once_delivery_media_recipient_unique", "media_once_deliveries",
    {"media_asset_id", "recipient_hunter_id"}) >>

PhotoDumpsUp == <<
  CreateTable("photo_dump_exports",
    {"id", "guild_id", "owner_hunter_id", "title", "style", "asset_count",
     "asset_ids_json", "created_at"},
    {<<"guild_id", "guilds">>, <<"owner_hunter_id", "hunters">>}),
  CreateIndex("idx_photo_dump_exports_owner_created", "photo_dump_exports",
    {"owner_hunter_id", "created_at"}) >>

MediaDown == <<
  DropTable("photo_dump_exports"), DropTable("media_once_deliveries"), DropTable("media_assets") >>

OnceEncryptionUp == <<
  AddColumns("media_once_deliveries",
    {"encryption_mode", "protocol_version", "sender_device_id", "recipient_device_id",
     "encryption_nonce", "encryption_mac"}, {}) >>

OnceEncryptionDown == DropColumns("media_once_deliveries",
  <<"encryption_mac", "encryption_nonce", "recipient_device_id", "sender_device_id",
    "protocol_version", "encryption_mode">>)

TelemetryUp == <<
  CreateTable("telemetry_events",
    {"id", "guild_id", "hunter_id", "event_name", "status", "source", "platform", "locale",
     "app_version", "session_id", "properties_json", "occurred_at", "created_at"},
    {<<"guild_id", "guilds">>, <<"hunter_id", "hunters">>}),
  CreateIndex("idx_telemetry_events_occurred", "telemetry_events", {"occurred_at"}),
  CreateIndex("idx_telemetry_events_name_occurred", "telemetry_events",
    {"event_name", "occurred_at"}),
  CreateIndex("idx_telemetry_events_guild_occurred", "telemetry_events",
    {"guild_id", "occurred_at"}),
  CreateIndex("idx_telemetry_events_hunter_occurred", "telemetry_events",
    {"hunter_id", "occurred_at"}) >>

TelemetryDown == << DropTableIfExists("telemetry_events") >>

Migration(up, down) == [up |-> up, down |-> down]

\* Migrator::migrations
Migrations == <<
  Migration(CoreTablesUp, CoreTablesDown),
  Migration(UsersAndGuildsUp \o HuntersAndQuestsUp, GuildAuthDown),
  Migration(PlayerIdsAndLinksUp \o GuildInvitesUp, SocialDown),
  Migration(UserTagsUp, UserTagsDown),
  Migration(OwnerRoleUp, OwnerRoleDown),
  Migration(MottoUp, MottoDown),
  Migration(StatCategoryUp, StatCategoryDown),
  Migration(HashPinsUp, HashPinsDown),
  Migration(StatEnumUp, StatEnumDown),
  Migration(ChatUp, ChatDown),
  Migration(LedgerUp, LedgerDown),
  Migration(ShopUp, ShopDown),
  Migration(ActiveItemsUp, ActiveItemsDown),
  Migration(HabitsUp, HabitsDown),
  Migration(DirectMessagesUp, DirectMessagesDown),
  Migration(DeviceKeysUp \o CapabilitiesUp \o EncryptedMessagesUp, EncryptionDown),
  Migration(ThreadReadsUp, ThreadReadsDown),
  Migration(ProofMediaUp, ProofMediaDown),
  Migration(MediaAssetsUp \o OnceDeliveriesUp \o PhotoDumpsUp, MediaDown),
  Migration(OnceEncryptionUp, OnceEncryptionDown),
  Migration(TelemetryUp, TelemetryDown) >>

Versions == 1..Len(Migrations)

(* The migrator, over a transaction's view of the database *)

Empty == [catalogue |-> <<>>, applied |-> {}, guilds |-> {}, hunters |-> {}, failed |-> FALSE]

\* A migration's up or down, one statement after the other
RunAll(d, script) == FoldLeft(Run, d, script)

\* A migration and its row in seaql_migrations, whose key is the version.
ApplyUp(d, m) ==
  IF m \in d.applied THEN [d EXCEPT !.failed = TRUE]
  ELSE [RunAll(d, Migrations[m].up) EXCEPT !.applied = @ \union {m}]

ApplyDown(d, m) == [RunAll(d, Migrations[m].down) EXCEPT !.applied = @ \ {m}]

Ascending == [i \in Versions |-> i]

Descending == Reverse(Ascending)

\* The migrator goes through the migrations in turn and runs the up or down of those due.
Execute(d, m, due, way) ==
  IF m \notin due THEN d ELSE IF way = "up" THEN ApplyUp(d, m) ELSE ApplyDown(d, m)

Executed(d, order, due, way) ==
  FoldLeft(LAMBDA e, m : Execute(e, m, due, way), d, order)

\* The database once the pending migrations have run.
Migrated(d, pending) == Executed(d, Ascending, pending, "up")

\* Mutant: a roll-back takes the migrations that were applied first.
UndoneOldest(d, k) == {m \in d.applied : Cardinality({l \in d.applied : l <= m}) <= k}

\* The last k applied migrations
Undone(d, k) == {m \in d.applied : Cardinality({l \in d.applied : l >= m}) <= k}

\* The database once they are undone, the last one first.
RolledBack(d, k) == Executed(d, Descending, Undone(d, k), "down")

\* The database the first k migrations build from nothing.
SchemaAt == [k \in {0} \union Versions |-> Migrated(Empty, 1..k)]

(* The entities: the columns a query names and the rows they belong to *)

Entity(t, cs, us) == [table |-> t, entry |-> Entry(cs, us, {})]

UserEntity == Entity("users",
  {"id", "email", "password_hash", "hunter_tag", "current_role", "created_at"}, {})

GuildEntity == Entity("guilds", {"id", "name", "owner_id", "invite_code"},
  {<<"owner_id", "users">>})

HunterEntity == Entity("hunters",
  {"id", "guild_id", "user_id", "player_id", "name", "avatar_type", "level", "xp", "coins",
   "pin_code", "guild_role", "motto"},
  {<<"guild_id", "guilds">>, <<"user_id", "users">>})

QuestEntity == Entity("quests",
  {"id", "guild_id", "title", "description", "reward_xp", "reward_coins", "stat_category",
   "category", "assigned_hunter_id", "created_by_hunter_id", "cadence", "streak_count",
   "best_streak", "completions_count", "proof_note", "proof_submitted_at",
   "last_completed_at", "last_review_note", "updated_at", "status"},
  {<<"guild_id", "guilds">>, <<"assigned_hunter_id", "hunters">>,
   <<"created_by_hunter_id", "hunters">>})

FriendLinkEntity == Entity("friend_links", {"id", "player_id", "friend_id", "created_at"},
  {<<"player_id", "hunters">>, <<"friend_id", "hunters">>})

FriendRequestEntity == Entity("friend_requests",
  {"id", "requester_hunter_id", "target_hunter_id", "status", "created_at", "responded_at"},
  {<<"requester_hunter_id", "hunters">>, <<"target_hunter_id", "hunters">>})

GuildInviteEntity == Entity("guild_invites",
  {"id", "guild_id", "inviter_hunter_id", "invited_hunter_id", "status", "created_at",
   "responded_at"},
  {<<"guild_id", "guilds">>, <<"inviter_hunter_id", "hunters">>,
   <<"invited_hunter_id", "hunters">>})

ChatMessageEntity == Entity("chat_messages",
  {"id", "guild_id", "sender_hunter_id", "room_id", "client_message_id", "content", "sent_at"},
  {<<"guild_id", "guilds">>, <<"sender_hunter_id", "hunters">>})

LedgerEntity == Entity("hunter_reward_ledger",
  {"id", "hunter_id", "quest_id", "item_id", "idempotency_key", "event_type",
   "stat_category", "gained_xp", "gained_coins", "created_at"},
  {<<"hunter_id", "hunters">>, <<"quest_id", "quests">>, <<"item_id", "guild_items">>})

GuildItemEntity == Entity("guild_items",
  {"id", "guild_id", "name", "description", "cost_coins", "icon_tag", "is_active"},
  {<<"guild_id", "guilds">>})

InventoryEntity == Entity("hunter_inventories",
  {"id", "hunter_id", "item_id", "quantity", "updated_at"},
  {<<"hunter_id", "hunters">>, <<"item_id", "guild_items">>})

DirectMessageEntity == Entity("direct_messages",
  {"id", "sender_hunter_id", "recipient_hunter_id", "conversation_key", "client_message_id",
   "content", "sent_at"},
  {<<"sender_hunter_id", "hunters">>, <<"recipient_hunter_id", "hunters">>})

DeviceKeyEntity == Entity("dm_device_keys",
  {"id", "hunter_id", "device_id", "device_label", "signing_public_key",
   "encryption_public_key", "created_at", "last_seen_at", "revoked_at"},
  {<<"hunter_id", "hunters">>})

CapabilityEntity == Entity("dm_conversation_capabilities",
  {"conversation_key", "left_hunter_id", "right_hunter_id", "encryption_mode",
   "upgraded_at", "last_handshake_at"},
  {<<"left_hunter_id", "hunters">>, <<"right_hunter_id", "hunters">>})

EncryptedMessageEntity == Entity("dm_encrypted_messages",
  {"id", "sender_hunter_id", "recipient_hunter_id", "conversation_key", "sender_device_id",
   "recipient_device_id", "client_message_id", "protocol_version", "ciphertext", "nonce",
   "sent_at"},
  {<<"sender_hunter_id", "hunters">>, <<"recipient_hunter_id", "hunters">>})

ThreadReadEntity == Entity("dm_thread_reads",
  {"id", "hunter_id", "conversation_key", "last_read_at", "updated_at"},
  {<<"hunter_id", "hunters">>})

ProofMediaEntity == Entity("quest_proof_media",
  {"id", "quest_id", "guild_id", "uploaded_by_hunter_id", "storage_key",
   "original_filename", "mime_type", "byte_size", "created_at"},
  {<<"quest_id", "quests">>, <<"guild_id", "guilds">>, <<"uploaded_by_hunter_id", "hunters">>})

MediaAssetEntity == Entity("media_assets",
  {"id", "guild_id", "owner_hunter_id", "mode", "storage_key", "original_filename",
   "mime_type", "byte_size", "caption", "is_photo_dump_ready", "created_at", "expires_at"},
  {<<"guild_id", "guilds">>, <<"owner_hunter_id", "hunters">>})

OnceDeliveryEntity == Entity("media_once_deliveries",
  {"id", "media_asset_id", "guild_id", "sender_hunter_id", "recipient_hunter_id",
   "remaining_views", "opened_at", "consumed_at", "expires_at", "access_token_hash",
   "access_token_expires_at", "encryption_mode", "protocol_version", "sender_device_id",
   "recipient_device_id", "encryption_nonce", "encryption_mac", "created_at"},
  {<<"media_asset_id", "media_assets">>, <<"guild_id", "guilds">>,
   <<"sender_hunter_id", "hunters">>, <<"recipient_hunter_id", "hunters">>})

PhotoDumpEntity == Entity("photo_dump_exports",
  {"id", "guild_id", "owner_hunter_id", "title", "style", "asset_count", "asset_ids_json",
   "created_at"},
  {<<"guild_id", "guilds">>, <<"owner_hunter_id", "hunters">>})

TelemetryEntity == Entity("telemetry_events",
  {"id", "guild_id", "hunter_id", "event_name", "status", "source", "platform", "locale",
   "app_version", "session_id", "properties_json", "occurred_at", "created_at"},
  {<<"guild_id", "guilds">>, <<"hunter_id", "hunters">>})

Entities ==
  {UserEntity, GuildEntity, HunterEntity, QuestEntity, FriendLinkEntity, FriendRequestEntity,
   GuildInviteEntity, ChatMessageEntity, LedgerEntity, GuildItemEntity, InventoryEntity,
   DirectMessageEntity, DeviceKeyEntity, CapabilityEntity, EncryptedMessageEntity,
   ThreadReadEntity, ProofMediaEntity, MediaAssetEntity, OnceDeliveryEntity,
   PhotoDumpEntity, TelemetryEntity}

Serves(d, entity) ==
  /\ entity.table \in Tables(d)
  /\ entity.entry.columns \subseteq d.catalogue[entity.table].columns
  /\ entity.entry.uses \subseteq d.catalogue[entity.table].uses

(* The migrations are fixed, and so is the schema each of them leaves: TLC runs them all. *)

\* The rows of guilds and hunters have a place, and so have the roles and the owners.
KeepsOwners(d) ==
  /\ {"guilds", "hunters"} \subseteq Tables(d)
  /\ "columns" \in DOMAIN d.catalogue["hunters"]
  /\ {"guild_role", "user_id"} \subseteq d.catalogue["hunters"].columns

\* Run one after the other from nothing they succeed, a down that succeeds leaves the schema
\* its up found, and the last schema has what every entity names.  Guilds have a table from
\* version 2 on, roles and owners have their columns from version 5 on, and until then no
\* query of a hunter succeeds.
ASSUME MigrationsAssumption ==
  /\ \A k \in {0} \union Versions :
       /\ ~SchemaAt[k].failed
       /\ k >= 2 => "guilds" \in Tables(SchemaAt[k])
       /\ IF k >= 5 THEN KeepsOwners(SchemaAt[k]) ELSE ~Serves(SchemaAt[k], HunterEntity)
  /\ \A k \in Versions :
       LET d == ApplyDown(SchemaAt[k], k)
       IN ~d.failed => d.catalogue = SchemaAt[k - 1].catalogue
  /\ \A e \in Entities : Serves(SchemaAt[Len(Migrations)], e)
===============================================================================
