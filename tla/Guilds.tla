-------------------------------- MODULE Guilds ---------------------------------
(***************************************************************************)
(* Accounts, guilds and their hunters: registration, the logins that make  *)
(* up a missing guild or owner hunter as they go, hunters created by a     *)
(* guild master, PIN resets, and guild invites that move a hunter.  A      *)
(* guild is named by its owner (guilds.owner_id is unique) and a hunter by *)
(* its player_id (unique).  Only registration and the answer to an invite  *)
(* are transactions; everything else reads first and writes by primary key *)
(* later.                                                                  *)
(***************************************************************************)
EXTENDS Handlers, FiniteSets

CONSTANTS
  Users,        \* e-mail addresses, one per account
  Hunters,      \* player ids
  Pins,         \* PIN codes
  LastPin,      \* "9999", the PIN given out when a guild has none left
  Invites,      \* ids of guild invites
  NoRow,        \* no row
  NoUser        \* hunters.user_id is NULL

ASSUME GuildsAssumption == NoUser \notin Users /\ LastPin \in Pins

VARIABLES
  users,        \* accounts with a users row
  guilds,       \* accounts with a guild of their own
  hunter,       \* hunters row of each player id
  invite,       \* guild_invites rows
  home,         \* history: the guild a hunter was created in
  misplaced,    \* history: hunters a login made master after they had moved
  pinRace,      \* history: hunters whose PIN was written into a guild with a PIN it
                \* had not been checked against
  crowded,      \* history: hunters given LastPin because no PIN was left
  answeredTwice \* history: invites answered again by a handler that had read
                \* them pending

history == <<home, misplaced, pinRace, crowded, answeredTwice>>
vars == <<users, guilds, hunter, invite, history, handlerVars>>

-------------------------------------------------------------------------------
(* Rows and helpers.                                                       *)

Hunter == [guild : Users, user : Users \cup {NoUser}, master : BOOLEAN, pin : Pins]

Invite == [guild : Users, hunter : Hunters, status : {"pending", "accepted", "rejected"}]

ASSUME NoRowAssumption == NoRow \notin Hunter /\ NoRow \notin Invite

Exists(h) == hunter[h] # NoRow

HuntersOf(g) == {h \in Hunters : Exists(h) /\ hunter[h].guild = g}

\* The PINs of a guild, as the check of a new PIN for h sees them
PinsOf(g, h) == {hunter[x].pin : x \in HuntersOf(g) \ {h}}

HasMaster(g) == \E h \in HuntersOf(g) : hunter[h].master

\* hunters.user_id is unique: no other hunter may belong to the user
UserIsFree(u, h) == \A x \in Hunters \ {h} : Exists(x) => hunter[x].user # u

\* h is raced when its PIN is written into a guild with a PIN it was not checked
\* against.
Raced(h, g, checked) == {x \in {h} : ~(PinsOf(g, h) \subseteq checked)}

\* pick_available_pin_for_guild, generate_available_pin: a PIN that is not in use, and
\* LastPin when all of them are
Available(pin, used) == pin \notin used \/ (Pins \subseteq used /\ pin = LastPin)

Crowded(h, pin, used) == {x \in {h} : pin \in used}

\* The row of an invite is locked until its answer commits.
LocksInvite(s, i) == At(s, "invite_move") /\ task[s].invite = i

-------------------------------------------------------------------------------
(* POST /auth/register: user, guild and owner hunter in one transaction.   *)

Register(s, u, h, pin) ==
  /\ u \notin users
  /\ ~Exists(h)
  /\ users' = users \cup {u}
  /\ guilds' = guilds \cup {u}
  /\ hunter' = [hunter EXCEPT ![h] = [guild |-> u, user |-> u, master |-> TRUE, pin |-> pin]]
  /\ home' = [home EXCEPT ![h] = u]
  /\ Once(s)
  /\ UNCHANGED <<invite, misplaced, pinRace, crowded, answeredTwice>>

-------------------------------------------------------------------------------
(* Logins with an e-mail address: firebase_login makes what is missing.    *)

\* POST /auth/firebase or an e-mail login; profile: a name or avatar is to be set
BeginLogin(s, u, profile) ==
  /\ Begin(s, [at |-> IF u \in users THEN "login_guild" ELSE "login_user",
               user |-> u, profile |-> profile])
  /\ UNCHANGED <<users, guilds, hunter, invite, history>>

\* create_firebase_user: the unique e-mail turns away the second of two
LoginUser(s) ==
  LET t == task[s] IN
  /\ At(s, "login_user")
  /\ IF t.user \in users THEN Answer(s) ELSE Continue(s, [t EXCEPT !.at = "login_guild"])
  /\ users' = users \cup {t.user}
  /\ UNCHANGED <<guilds, hunter, invite, history>>

\* ensure_owner_guild_for_user looks for the guild ...
LoginGuild(s) ==
  LET t == task[s] IN
  /\ At(s, "login_guild")
  /\ Continue(s, [t EXCEPT !.at = IF t.user \in guilds THEN "login_hunter"
                                                       ELSE "guild_insert"])
  /\ UNCHANGED <<users, guilds, hunter, invite, history>>

\* ... and inserts it; a guild of this owner that came first is a plain error.
GuildInsert(s) ==
  LET t == task[s] IN
  /\ At(s, "guild_insert")
  /\ IF t.user \in guilds THEN Answer(s) ELSE Continue(s, [t EXCEPT !.at = "login_hunter"])
  /\ guilds' = guilds \cup {t.user}
  /\ UNCHANGED <<users, hunter, invite, history>>

\* ensure_owner_hunter_for_guild_with_profile: some hunter of the guild that belongs
\* to the user or is a master, to be made both; or none, and a PIN is picked.
LoginHunter(s) ==
  LET t == task[s]
      owners == {h \in HuntersOf(t.user) : hunter[h].user = t.user \/ hunter[h].master}
  IN
  /\ At(s, "login_hunter")
  /\ \/ \E h \in owners :
          IF hunter[h].user = t.user /\ hunter[h].master /\ ~t.profile
            THEN Answer(s)
            ELSE Continue(s, [at |-> "owner_update", user |-> t.user, hunter |-> h])
     \/ /\ owners = {}
        /\ Continue(s, [at |-> "hunter_insert", user |-> t.user,
                        pins |-> {hunter[x].pin : x \in HuntersOf(t.user)}])
  /\ UNCHANGED <<users, guilds, hunter, invite, history>>

\* UPDATE by primary key of user_id and role, wherever the hunter is by now
OwnerUpdate(s) ==
  LET u == task[s].user
      h == task[s].hunter
      free == UserIsFree(u, h)
  IN
  /\ At(s, "owner_update")
  /\ hunter' = IF free THEN [hunter EXCEPT ![h].user = u, ![h].master = TRUE] ELSE hunter
  /\ misplaced' = misplaced \cup {x \in {h} : free /\ hunter[x].guild # u}
  /\ Answer(s)
  /\ UNCHANGED <<users, guilds, invite, home, pinRace, crowded, answeredTwice>>

\* mutant: hunters.user_id without its unique index
HunterInsertUnindexed(s, h, pin) ==
  LET u == task[s].user IN
  /\ At(s, "hunter_insert")
  /\ ~Exists(h) /\ Available(pin, task[s].pins)
  /\ hunter' = [hunter EXCEPT ![h] = [guild |-> u, user |-> u, master |-> TRUE, pin |-> pin]]
  /\ home' = [home EXCEPT ![h] = u]
  /\ pinRace' = pinRace \cup Raced(h, u, task[s].pins)
  /\ crowded' = crowded \cup Crowded(h, pin, task[s].pins)
  /\ Answer(s)
  /\ UNCHANGED <<users, guilds, invite, misplaced, answeredTwice>>

\* INSERT of the owner hunter, refused when the user has one by now
HunterInsert(s, h, pin) ==
  LET u == task[s].user IN
  /\ At(s, "hunter_insert")
  /\ ~Exists(h) /\ Available(pin, task[s].pins)
  /\ \/ /\ UserIsFree(u, h)
        /\ hunter' = [hunter EXCEPT ![h] =
                        [guild |-> u, user |-> u, master |-> TRUE, pin |-> pin]]
        /\ home' = [home EXCEPT ![h] = u]
        /\ pinRace' = pinRace \cup Raced(h, u, task[s].pins)
        /\ crowded' = crowded \cup Crowded(h, pin, task[s].pins)
     \/ ~UserIsFree(u, h) /\ UNCHANGED <<hunter, home, pinRace, crowded>>
  /\ Answer(s)
  /\ UNCHANGED <<users, guilds, invite, misplaced, answeredTwice>>

-------------------------------------------------------------------------------
(* The guild master creates a hunter or resets a PIN.                      *)

\* POST /hunters: the PIN is checked against the guild ...
BeginCreate(s, g, h, pin) ==
  /\ HasMaster(g)
  /\ pin \notin PinsOf(g, h)
  /\ Begin(s, [at |-> "create_insert", guild |-> g, hunter |-> h, pin |-> pin,
               pins |-> PinsOf(g, h)])
  /\ UNCHANGED <<users, guilds, hunter, invite, history>>

\* ... and inserted later; only a taken player_id is refused.
CreateInsert(s) ==
  LET t == task[s] IN
  /\ At(s, "create_insert")
  /\ \/ /\ ~Exists(t.hunter)
        /\ hunter' = [hunter EXCEPT ![t.hunter] = [guild |-> t.guild, user |-> NoUser,
                                                   master |-> FALSE, pin |-> t.pin]]
        /\ home' = [home EXCEPT ![t.hunter] = t.guild]
        /\ pinRace' = pinRace \cup Raced(t.hunter, t.guild, t.pins)
     \/ Exists(t.hunter) /\ UNCHANGED <<hunter, home, pinRace>>
  /\ Answer(s)
  /\ UNCHANGED <<users, guilds, invite, misplaced, crowded, answeredTwice>>

\* mutant: the PIN is not checked against the other hunters
BeginResetUnchecked(s, g, h, pin) ==
  /\ HasMaster(g)
  /\ h \in HuntersOf(g)
  /\ Begin(s, [at |-> "reset_write", hunter |-> h, pin |-> pin, pins |-> PinsOf(g, h)])
  /\ UNCHANGED <<users, guilds, hunter, invite, history>>

\* POST /hunters/{id}/reset-pin
BeginReset(s, g, h, pin) ==
  /\ HasMaster(g)
  /\ h \in HuntersOf(g)
  /\ pin \notin PinsOf(g, h)
  /\ Begin(s, [at |-> "reset_write", hunter |-> h, pin |-> pin, pins |-> PinsOf(g, h)])
  /\ UNCHANGED <<users, guilds, hunter, invite, history>>

\* UPDATE by primary key: the hunter may have moved to another guild
ResetWrite(s) ==
  LET t == task[s] IN
  /\ At(s, "reset_write")
  /\ hunter' = [hunter EXCEPT ![t.hunter].pin = t.pin]
  /\ pinRace' = pinRace \cup Raced(t.hunter, hunter[t.hunter].guild, t.pins)
  /\ Answer(s)
  /\ UNCHANGED <<users, guilds, invite, home, misplaced, crowded, answeredTwice>>

-------------------------------------------------------------------------------
(* Guild invites.                                                          *)

Pending(g, h) == \E i \in Invites :
  invite[i] = [guild |-> g, hunter |-> h, status |-> "pending"]

\* POST /social/guild-invites: the inviter g's hunter is a friend of h
BeginInvite(s, g, h) ==
  /\ HuntersOf(g) # {}
  /\ Exists(h) /\ hunter[h].guild # g
  /\ ~Pending(g, h)
  /\ Begin(s, [at |-> "invite_insert", guild |-> g, hunter |-> h])
  /\ UNCHANGED <<users, guilds, hunter, invite, history>>

InviteInsert(s, i) ==
  LET t == task[s] IN
  /\ At(s, "invite_insert")
  /\ invite[i] = NoRow
  /\ invite' = [invite EXCEPT ![i] =
                  [guild |-> t.guild, hunter |-> t.hunter, status |-> "pending"]]
  /\ Answer(s)
  /\ UNCHANGED <<users, guilds, hunter, history>>

\* POST /social/guild-invites/{id}/respond, by the hunter invited
BeginAnswer(s, i, accept) ==
  /\ invite[i] # NoRow /\ invite[i].status = "pending"
  /\ Begin(s, [at |-> "invite_update", invite |-> i, accept |-> accept])
  /\ UNCHANGED <<users, guilds, hunter, invite, history>>

Again(i) == {x \in {i} : invite[x].status # "pending"}

\* UPDATE of the invite by primary key; an acceptance goes on to read the PINs of
\* the new guild, with the invite's row locked.
InviteUpdate(s) ==
  LET i == task[s].invite IN
  /\ At(s, "invite_update")
  /\ \A t \in Slots : ~LocksInvite(t, i)
  /\ \/ /\ ~task[s].accept
        /\ invite' = [invite EXCEPT ![i].status = "rejected"]
        /\ answeredTwice' = answeredTwice \cup Again(i)
        /\ Answer(s)
     \/ /\ task[s].accept
        /\ Continue(s, [at |-> "invite_move", invite |-> i,
                        pins |-> {hunter[x].pin : x \in HuntersOf(invite[i].guild)}])
        /\ UNCHANGED <<invite, answeredTwice>>
  /\ UNCHANGED <<users, guilds, hunter, home, misplaced, pinRace, crowded>>

\* mutant: the hunter moves and the invite's answer is lost
InviteMoveUnanswered(s, pin) ==
  LET i == task[s].invite
      g == invite[i].guild
      h == invite[i].hunter
  IN
  /\ At(s, "invite_move")
  /\ Available(pin, task[s].pins)
  /\ hunter' = [hunter EXCEPT ![h] =
                  [guild |-> g, user |-> NoUser, master |-> FALSE, pin |-> pin]]
  /\ pinRace' = pinRace \cup Raced(h, g, task[s].pins)
  /\ crowded' = crowded \cup Crowded(h, pin, task[s].pins)
  /\ Answer(s)
  /\ UNCHANGED <<users, guilds, invite, home, misplaced, answeredTwice>>

\* The hunter becomes a member of the new guild, without account and with a PIN
\* that was free, or LastPin, and the transaction commits.
InviteMove(s, pin) ==
  LET i == task[s].invite
      g == invite[i].guild
      h == invite[i].hunter
  IN
  /\ At(s, "invite_move")
  /\ Available(pin, task[s].pins)
  /\ invite' = [invite EXCEPT ![i].status = "accepted"]
  /\ hunter' = [hunter EXCEPT ![h] =
                  [guild |-> g, user |-> NoUser, master |-> FALSE, pin |-> pin]]
  /\ answeredTwice' = answeredTwice \cup Again(i)
  /\ pinRace' = pinRace \cup Raced(h, g, task[s].pins)
  /\ crowded' = crowded \cup Crowded(h, pin, task[s].pins)
  /\ Answer(s)
  /\ UNCHANGED <<users, guilds, home, misplaced>>

-------------------------------------------------------------------------------

\* The client goes away or a statement fails: what is committed stays.
Drop(s) == Abandon(s) /\ UNCHANGED <<users, guilds, hunter, invite, history>>

Init ==
  /\ users = {} /\ guilds = {}
  /\ hunter = [h \in Hunters |-> NoRow]
  /\ invite = [i \in Invites |-> NoRow]
  /\ home = [h \in Hunters |-> NoRow]
  /\ misplaced = {} /\ pinRace = {} /\ crowded = {} /\ answeredTwice = {}
  /\ HandlersInit

Next == \E s \in Slots :
  \/ \E u \in Users, h \in Hunters, pin \in Pins : Register(s, u, h, pin)
  \/ \E u \in Users, profile \in BOOLEAN : BeginLogin(s, u, profile)
  \/ LoginUser(s) \/ LoginGuild(s) \/ GuildInsert(s) \/ LoginHunter(s) \/ OwnerUpdate(s)
  \/ \E h \in Hunters, pin \in Pins : HunterInsert(s, h, pin)
  \/ \E g \in Users, h \in Hunters, pin \in Pins :
       BeginCreate(s, g, h, pin) \/ BeginReset(s, g, h, pin)
  \/ CreateInsert(s) \/ ResetWrite(s)
  \/ \E g \in Users, h \in Hunters : BeginInvite(s, g, h)
  \/ \E i \in Invites : InviteInsert(s, i) \/ \E accept \in BOOLEAN : BeginAnswer(s, i, accept)
  \/ InviteUpdate(s)
  \/ \E pin \in Pins : InviteMove(s, pin)
  \/ Drop(s)

Spec == Init /\ [][Next]_vars

-------------------------------------------------------------------------------
(* Properties.                                                             *)

\* Rows have their types, and refer to accounts and hunters that exist.
TypeOK ==
  /\ guilds \subseteq users /\ users \subseteq Users
  /\ hunter \in [Hunters -> Hunter \cup {NoRow}]
  /\ invite \in [Invites -> Invite \cup {NoRow}]
  /\ \A h \in Hunters : Exists(h) => hunter[h].guild \in guilds /\ home[h] \in guilds
  /\ misplaced \cup pinRace \cup crowded \subseteq Hunters
  /\ answeredTwice \subseteq Invites

\* A master belongs to the account that owns its guild, so that a guild has one
\* master and the owner can log in; except a hunter whom a login made master after
\* an invite had moved it, who then rules a guild its account does not own.
MastersOwnTheirGuild ==
  \A h \in Hunters : Exists(h) =>
    /\ hunter[h].master <=> hunter[h].user # NoUser
    /\ hunter[h].master /\ h \notin misplaced =>
         /\ hunter[h].user = hunter[h].guild
         /\ \A x \in HuntersOf(hunter[h].guild) \ {h} : hunter[x].master => x \in misplaced

\* Hunters of a guild have different PINs, unless one of the two was written into
\* the guild with a PIN checked before the other's was there (the unique index on
\* (guild_id, pin_code) sees salted hashes), or was given LastPin, and has it still,
\* because the guild had used up its PINs.
PinsDistinct ==
  \A g \in Users : \A x, y \in HuntersOf(g) :
    x # y /\ hunter[x].pin = hunter[y].pin =>
      \/ x \in pinRace \/ y \in pinRace
      \/ hunter[x].pin = LastPin /\ (x \in crowded \/ y \in crowded)

\* A hunter is in the guild it was created in or in one whose invite it accepted; an
\* invite that reads rejected moved nobody, unless two answers overlapped.
InvitesExplainMoves ==
  \A h \in Hunters : Exists(h) /\ hunter[h].guild # home[h] =>
    \E i \in Invites :
      /\ invite[i] # NoRow
      /\ invite[i].hunter = h /\ invite[i].guild = hunter[h].guild
      /\ invite[i].status = "accepted" \/ i \in answeredTwice
===============================================================================
