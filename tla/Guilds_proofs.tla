----------------------------- MODULE Guilds_proofs -----------------------------
(***************************************************************************)
(* Proofs about Guilds, for any number of accounts, hunters, PINs, invites *)
(* and requests in flight.                                                 *)
(***************************************************************************)
EXTENDS Guilds, TLAPS

-------------------------------------------------------------------------------
(* Types, and what the rows and the handlers refer to.                     *)

Login == [at : {"login_user", "login_guild", "guild_insert", "login_hunter"},
          user : Users, profile : BOOLEAN]

Owning == [at : {"owner_update"}, user : Users, hunter : Hunters]

Inserting == [at : {"hunter_insert"}, user : Users, pins : SUBSET Pins]

Creating == [at : {"create_insert"}, guild : Users, hunter : Hunters, pin : Pins,
             pins : SUBSET Pins]

Resetting == [at : {"reset_write"}, hunter : Hunters, pin : Pins, pins : SUBSET Pins]

Inviting == [at : {"invite_insert"}, guild : Users, hunter : Hunters]

Answering == [at : {"invite_update"}, invite : Invites, accept : BOOLEAN]

Moving == [at : {"invite_move"}, invite : Invites, pins : SUBSET Pins]

Task == Login \cup Owning \cup Inserting \cup Creating \cup Resetting \cup Inviting
          \cup Answering \cup Moving \cup {Idle}

\* What a handler refers to is there, and the PIN it brings is not one it has seen.
TaskRefers(s) ==
  LET t == task[s] IN
  /\ t.at \in {"login_guild", "guild_insert", "owner_update"} => t.user \in users
  /\ t.at \in {"login_hunter", "hunter_insert"} => t.user \in guilds
  /\ t.at = "create_insert" => t.guild \in guilds /\ t.pin \notin t.pins
  /\ t.at = "owner_update" => Exists(t.hunter)
  /\ t.at = "reset_write" => Exists(t.hunter) /\ t.pin \notin t.pins
  /\ t.at = "invite_insert" => t.guild \in guilds /\ Exists(t.hunter)
  /\ t.at \in {"invite_update", "invite_move"} => invite[t.invite] # NoRow

HunterRefers(h) ==
  Exists(h) => /\ hunter[h].guild \in guilds
               /\ hunter[h].user \in users \cup {NoUser}
               /\ home[h] \in guilds

InviteRefers(i) ==
  invite[i] # NoRow => invite[i].guild \in guilds /\ Exists(invite[i].hunter)

Types ==
  /\ users \subseteq Users /\ guilds \subseteq users
  /\ hunter \in [Hunters -> Hunter \cup {NoRow}]
  /\ invite \in [Invites -> Invite \cup {NoRow}]
  /\ home \in [Hunters -> Users \cup {NoRow}]
  /\ misplaced \subseteq Hunters /\ pinRace \subseteq Hunters /\ crowded \subseteq Hunters
  /\ answeredTwice \subseteq Invites
  /\ task \in [Slots -> Task]

TypeInv ==
  /\ Types
  /\ \A s \in Slots : TaskRefers(s)
  /\ \A h \in Hunters : HunterRefers(h)
  /\ \A i \in Invites : InviteRefers(i)

\* Where a task is says what it holds.
LEMMA TaskKinds ==
  ASSUME NEW t \in Task
  PROVE  /\ t.at \in {"login_user", "login_guild", "guild_insert", "login_hunter"} => t \in Login
         /\ t.at = "owner_update" => t \in Owning
         /\ t.at = "hunter_insert" => t \in Inserting
         /\ t.at = "create_insert" => t \in Creating
         /\ t.at = "reset_write" => t \in Resetting
         /\ t.at = "invite_insert" => t \in Inviting
         /\ t.at = "invite_update" => t \in Answering
         /\ t.at = "invite_move" => t \in Moving
<1>1. t \in Login => t.at \in {"login_user", "login_guild", "guild_insert", "login_hunter"}
  BY DEF Login
<1>2. t \in Owning => t.at = "owner_update"
  BY DEF Owning
<1>3. t \in Inserting => t.at = "hunter_insert"
  BY DEF Inserting
<1>4. t \in Creating => t.at = "create_insert"
  BY DEF Creating
<1>5. t \in Resetting => t.at = "reset_write"
  BY DEF Resetting
<1>6. t \in Inviting => t.at = "invite_insert"
  BY DEF Inviting
<1>7. t \in Answering => t.at = "invite_update"
  BY DEF Answering
<1>8. t \in Moving => t.at = "invite_move"
  BY DEF Moving
<1>9. t = Idle => t.at = "idle"
  BY DEF Idle
<1> QED BY <1>1, <1>2, <1>3, <1>4, <1>5, <1>6, <1>7, <1>8, <1>9 DEF Task

\* The rows of a hunter and of an invite
LEMMA RowTypes ==
  ASSUME Types
  PROVE  /\ \A h \in Hunters : Exists(h) => hunter[h] \in Hunter
         /\ \A i \in Invites : invite[i] # NoRow => invite[i] \in Invite
  BY DEF Types, Exists

\* What a handler may do next
Acts(s) ==
  \/ \E u \in Users, h \in Hunters, pin \in Pins : Register(s, u, h, pin)
  \/ \E u \in Users, profile \in BOOLEAN : BeginLogin(s, u, profile)
  \/ LoginUser(s) \/ LoginGuild(s) \/ GuildInsert(s) \/ LoginHunter(s) \/ OwnerUpdate(s)
  \/ \E h \in Hunters, pin \in Pins : HunterInsert(s, h, pin)
  \/ \E g \in Users, h \in Hunters, pin \in Pins :
       BeginCreate(s, g, h, pin) \/ BeginReset(s, g, h, pin)
  \/ CreateInsert(s) \/ ResetWrite(s)
  \/ \E g \in Users, h \in Hunters : BeginInvite(s, g, h)
  \/ \E i \in Invites : InviteInsert(s, i) \/ \E accept \in BOOLEAN : BeginAnswer(s, i, accept)
  \/ InviteUpdate(s)
  \/ \E pin \in Pins : InviteMove(s, pin)
  \/ Drop(s)

-------------------------------------------------------------------------------
(* How a step changes the row of a hunter.                                 *)

\* A PIN that was not raced, nor given out for want of another, is none of the others'
\* in the guild it is written into.
PinChecked(h) ==
  h \notin pinRace' /\ ~(h \in crowded' /\ hunter'[h].pin = LastPin) =>
    \A x \in HuntersOf(hunter'[h].guild) \ {h} : hunter[x].pin # hunter'[h].pin

\* The row is inserted, of the owner of a guild or of a hunter without account.
Created(h) ==
  /\ ~Exists(h)
  /\ hunter'[h] \in Hunter
  /\ hunter'[h].guild \in guilds' /\ home'[h] = hunter'[h].guild
  /\ \/ hunter'[h].master /\ hunter'[h].user = hunter'[h].guild /\ UserIsFree(hunter'[h].user, h)
     \/ ~hunter'[h].master /\ hunter'[h].user = NoUser
  /\ PinChecked(h)

\* A login makes a hunter its owner and master.
MadeMaster(h) ==
  /\ Exists(h)
  /\ \E u \in users : /\ hunter'[h] = [hunter[h] EXCEPT !.user = u, !.master = TRUE]
                      /\ UserIsFree(u, h)
                      /\ hunter[h].guild # u => h \in misplaced'
  /\ UNCHANGED home

\* The PIN is reset.
GivenPin(h) ==
  /\ Exists(h)
  /\ \E pin \in Pins : hunter'[h] = [hunter[h] EXCEPT !.pin = pin]
  /\ PinChecked(h)
  /\ UNCHANGED home

\* An accepted invite moves the hunter.
Moved(h) ==
  /\ Exists(h)
  /\ hunter'[h] \in Hunter /\ ~hunter'[h].master /\ hunter'[h].user = NoUser
  /\ \E i \in Invites : /\ invite[i] # NoRow /\ invite[i].hunter = h
                        /\ invite[i].guild = hunter'[h].guild
                        /\ invite' = [invite EXCEPT ![i].status = "accepted"]
  /\ PinChecked(h)
  /\ UNCHANGED home

\* Only the row of h is written.
OnlyOf(h) ==
  /\ hunter' = [hunter EXCEPT ![h] = hunter'[h]]
  /\ home' = [home EXCEPT ![h] = home'[h]]

\* A PIN that was picked among those not seen, or is LastPin, and is not raced is checked.
LEMMA NotRaced ==
  ASSUME NEW h \in Hunters, NEW g, NEW pin, NEW pins,
         pin \notin pins \/ (pin = LastPin /\ h \in crowded'),
         pinRace' = pinRace \cup Raced(h, g, pins),
         hunter'[h].guild = g, hunter'[h].pin = pin
  PROVE  PinChecked(h)
<1> SUFFICES ASSUME h \notin pinRace', pin \notin pins, NEW x \in HuntersOf(g) \ {h}
             PROVE  hunter[x].pin # pin
  BY DEF PinChecked
<1>1. PinsOf(g, h) \subseteq pins
  BY DEF Raced
<1>2. hunter[x].pin \in PinsOf(g, h)
  BY DEF PinsOf
<1> QED BY <1>1, <1>2

\* Registration brings a guild of its own.
LEMMA RegisterCreates ==
  ASSUME TypeInv, NEW s \in Slots, NEW u \in Users, NEW h \in Hunters, NEW pin \in Pins,
         Register(s, u, h, pin)
  PROVE  Created(h) /\ OnlyOf(h)
<1>1. hunter'[h] = [guild |-> u, user |-> u, master |-> TRUE, pin |-> pin]
  BY DEF Register, TypeInv, Types
<1>2. hunter'[h] \in Hunter /\ home'[h] = u /\ u \in guilds' /\ ~Exists(h) /\ OnlyOf(h)
  BY <1>1 DEF Register, Hunter, OnlyOf, TypeInv, Types
<1>3. HuntersOf(u) = {}
  BY DEF Register, HuntersOf, TypeInv, Types, HunterRefers
<1>4. UserIsFree(u, h)
  <2> SUFFICES ASSUME NEW x \in Hunters \ {h}, Exists(x), hunter[x].user = u PROVE FALSE
    BY DEF UserIsFree
  <2>1. u \notin users /\ u # NoUser
    BY GuildsAssumption DEF Register
  <2> QED BY <2>1 DEF TypeInv, HunterRefers
<1> QED BY <1>1, <1>2, <1>3, <1>4 DEF Created, PinChecked

\* So does a login, for a guild without owner hunter.
LEMMA LoginCreates ==
  ASSUME TypeInv, NEW s \in Slots, NEW h \in Hunters, NEW pin \in Pins, HunterInsert(s, h, pin)
  PROVE  UNCHANGED <<hunter, home>> \/ (Created(h) /\ OnlyOf(h))
<1>1. task[s] \in Inserting /\ task[s].user \in guilds
  BY TaskKinds DEF HunterInsert, At, TypeInv, Types, TaskRefers
<1>2. ASSUME UserIsFree(task[s].user, h),
             hunter' = [hunter EXCEPT ![h] =
               [guild |-> task[s].user, user |-> task[s].user, master |-> TRUE, pin |-> pin]],
             home' = [home EXCEPT ![h] = task[s].user],
             pinRace' = pinRace \cup Raced(h, task[s].user, task[s].pins),
             crowded' = crowded \cup Crowded(h, pin, task[s].pins)
      PROVE  Created(h) /\ OnlyOf(h)
  <2>1. hunter'[h] = [guild |-> task[s].user, user |-> task[s].user, master |-> TRUE, pin |-> pin]
    BY <1>2 DEF TypeInv, Types
  <2>2. hunter'[h] \in Hunter /\ home'[h] = task[s].user /\ OnlyOf(h)
    BY <1>1, <1>2, <2>1 DEF Hunter, OnlyOf, TypeInv, Types, Inserting
  <2>3. ~Exists(h) /\ Available(pin, task[s].pins) /\ task[s].user \in guilds'
    BY <1>1 DEF HunterInsert
  <2>5. pin \notin task[s].pins \/ (pin = LastPin /\ h \in crowded')
    BY <1>2, <2>3 DEF Available, Crowded
  <2>4. PinChecked(h)
    BY <1>2, <2>1, <2>5, NotRaced
  <2> QED BY <1>2, <2>1, <2>2, <2>3, <2>4 DEF Created
<1> QED BY <1>2 DEF HunterInsert

\* A guild master creates hunters without account.
LEMMA MasterCreates ==
  ASSUME TypeInv, NEW s \in Slots, CreateInsert(s)
  PROVE  UNCHANGED <<hunter, home>> \/ \E h \in Hunters : Created(h) /\ OnlyOf(h)
<1> DEFINE t == task[s]
<1>1. t \in Creating /\ t.guild \in guilds /\ t.pin \notin t.pins
  BY TaskKinds DEF CreateInsert, At, TypeInv, Types, TaskRefers
<1>2. ASSUME ~Exists(t.hunter),
             hunter' = [hunter EXCEPT ![t.hunter] =
               [guild |-> t.guild, user |-> NoUser, master |-> FALSE, pin |-> t.pin]],
             home' = [home EXCEPT ![t.hunter] = t.guild],
             pinRace' = pinRace \cup Raced(t.hunter, t.guild, t.pins)
      PROVE  Created(t.hunter) /\ OnlyOf(t.hunter)
  <2>0. t.hunter \in Hunters
    BY <1>1 DEF Creating
  <2>1. hunter'[t.hunter] =
          [guild |-> t.guild, user |-> NoUser, master |-> FALSE, pin |-> t.pin]
    BY <1>2, <2>0 DEF TypeInv, Types
  <2>2. hunter'[t.hunter] \in Hunter /\ home'[t.hunter] = t.guild /\ OnlyOf(t.hunter)
    BY <1>1, <1>2, <2>0, <2>1 DEF Hunter, OnlyOf, TypeInv, Types, Creating
  <2>3. t.guild \in guilds'
    BY <1>1 DEF CreateInsert
  <2>4. PinChecked(t.hunter)
    BY <1>1, <1>2, <2>0, <2>1, NotRaced
  <2> QED BY <1>2, <2>1, <2>2, <2>3, <2>4 DEF Created
<1>3. t.hunter \in Hunters
  BY <1>1 DEF Creating
<1> QED BY <1>2, <1>3 DEF CreateInsert

\* A login writes the hunter it has found, wherever that is.
LEMMA LoginMakesMaster ==
  ASSUME TypeInv, NEW s \in Slots, OwnerUpdate(s)
  PROVE  UNCHANGED <<hunter, home>> \/ \E h \in Hunters : MadeMaster(h) /\ OnlyOf(h)
<1> DEFINE h == task[s].hunter
           u == task[s].user
<1>1. task[s] \in Owning /\ Exists(h) /\ u \in users
  BY TaskKinds DEF OwnerUpdate, At, TypeInv, Types, TaskRefers
<1>2. h \in Hunters
  BY <1>1 DEF Owning
<1>3. CASE UserIsFree(u, h)
  <2>1. hunter' = [hunter EXCEPT ![h].user = u, ![h].master = TRUE] /\ home' = home
    BY <1>3 DEF OwnerUpdate
  <2>2. hunter'[h] = [hunter[h] EXCEPT !.user = u, !.master = TRUE]
    BY <1>1, <1>2, <2>1, RowTypes DEF TypeInv, Types, Hunter
  <2>3. OnlyOf(h)
    BY <1>2, <2>1 DEF OnlyOf, TypeInv, Types
  <2>4. hunter[h].guild # u => h \in misplaced'
    BY <1>2, <1>3 DEF OwnerUpdate
  <2> QED BY <1>1, <1>2, <1>3, <2>1, <2>2, <2>3, <2>4 DEF MadeMaster
<1>4. CASE ~UserIsFree(u, h)
  BY <1>4 DEF OwnerUpdate
<1> QED BY <1>3, <1>4

\* A reset writes a PIN, whatever guild the hunter is in by now.
LEMMA ResetGivesPin ==
  ASSUME TypeInv, NEW s \in Slots, ResetWrite(s)
  PROVE  \E h \in Hunters : GivenPin(h) /\ OnlyOf(h)
<1> DEFINE h == task[s].hunter
           pin == task[s].pin
<1>1. task[s] \in Resetting /\ Exists(h) /\ pin \notin task[s].pins
  BY TaskKinds DEF ResetWrite, At, TypeInv, Types, TaskRefers
<1>2. h \in Hunters /\ pin \in Pins
  BY <1>1 DEF Resetting
<1>3. hunter' = [hunter EXCEPT ![h].pin = pin] /\ home' = home
      /\ pinRace' = pinRace \cup Raced(h, hunter[h].guild, task[s].pins)
  BY DEF ResetWrite
<1>4. hunter[h] \in Hunter
  BY <1>1, <1>2, RowTypes DEF TypeInv
<1>5. hunter'[h] = [hunter[h] EXCEPT !.pin = pin]
  BY <1>2, <1>3 DEF TypeInv, Types
<1>6. hunter'[h].guild = hunter[h].guild /\ hunter'[h].pin = pin
  BY <1>4, <1>5 DEF Hunter
<1>7. OnlyOf(h)
  BY <1>2, <1>3 DEF OnlyOf, TypeInv, Types
<1>8. PinChecked(h)
  BY <1>1, <1>2, <1>3, <1>6, NotRaced
<1> QED BY <1>1, <1>2, <1>3, <1>5, <1>7, <1>8 DEF GivenPin

\* An accepted invite moves the hunter it is for.
LEMMA InviteMoves ==
  ASSUME TypeInv, NEW s \in Slots, NEW pin \in Pins, InviteMove(s, pin)
  PROVE  \E h \in Hunters : Moved(h) /\ OnlyOf(h)
<1> DEFINE i == task[s].invite
           h == invite[i].hunter
           g == invite[i].guild
<1>1. task[s] \in Moving /\ invite[i] # NoRow
  BY TaskKinds DEF InviteMove, At, TypeInv, Types, TaskRefers
<1>2. i \in Invites
  BY <1>1 DEF Moving
<1>3. invite[i] \in Invite /\ Exists(h)
  BY <1>1, <1>2, RowTypes DEF TypeInv, InviteRefers
<1>4. h \in Hunters /\ g \in Users
  BY <1>3 DEF Invite
<1>5. /\ hunter' = [hunter EXCEPT ![h] =
                     [guild |-> g, user |-> NoUser, master |-> FALSE, pin |-> pin]]
      /\ home' = home /\ Available(pin, task[s].pins)
      /\ crowded' = crowded \cup Crowded(h, pin, task[s].pins)
      /\ pinRace' = pinRace \cup Raced(h, g, task[s].pins)
      /\ invite' = [invite EXCEPT ![i].status = "accepted"]
  BY DEF InviteMove
<1>6. hunter'[h] = [guild |-> g, user |-> NoUser, master |-> FALSE, pin |-> pin]
  BY <1>4, <1>5 DEF TypeInv, Types
<1>7. hunter'[h] \in Hunter /\ OnlyOf(h)
  BY <1>4, <1>5, <1>6 DEF Hunter, OnlyOf, TypeInv, Types
<1>8. PinChecked(h)
  <2>1. pin \notin task[s].pins \/ (pin = LastPin /\ h \in crowded')
    BY <1>5 DEF Available, Crowded
  <2> QED BY <2>1, <1>4, <1>5, <1>6, NotRaced
<1>9. invite[i].hunter = h /\ invite[i].guild = hunter'[h].guild
  BY <1>6
<1>10. ~hunter'[h].master /\ hunter'[h].user = NoUser
  BY <1>6
<1> HIDE DEF i, h, g
<1>11. Moved(h)
  BY <1>1, <1>2, <1>3, <1>5, <1>7, <1>8, <1>9, <1>10 DEF Moved
<1> QED BY <1>4, <1>7, <1>11

-------------------------------------------------------------------------------
(* One step of the tables.                                                 *)

\* A handler that writes hunters writes one, in one of four ways.
LEMMA HunterChange ==
  ASSUME TypeInv, [Next]_vars
  PROVE  \/ UNCHANGED <<hunter, home>>
         \/ \E h \in Hunters : OnlyOf(h) /\ (Created(h) \/ MadeMaster(h) \/ GivenPin(h) \/ Moved(h))
<1>1. ASSUME NEW s \in Slots, Acts(s)
      PROVE  \/ UNCHANGED <<hunter, home>>
             \/ \E h \in Hunters : OnlyOf(h) /\ (Created(h) \/ MadeMaster(h) \/ GivenPin(h) \/ Moved(h))
  <2>1. ASSUME NEW u \in Users, NEW h \in Hunters, NEW pin \in Pins, Register(s, u, h, pin)
        PROVE  \E x \in Hunters : Created(x) /\ OnlyOf(x)
    BY <2>1, RegisterCreates
  <2>2. ASSUME NEW h \in Hunters, NEW pin \in Pins, HunterInsert(s, h, pin)
        PROVE  UNCHANGED <<hunter, home>> \/ \E x \in Hunters : Created(x) /\ OnlyOf(x)
    BY <2>2, LoginCreates
  <2>3. ASSUME NEW pin \in Pins, InviteMove(s, pin)
        PROVE  \E x \in Hunters : Moved(x) /\ OnlyOf(x)
    BY <2>3, InviteMoves
  <2>4. ASSUME LoginUser(s) \/ LoginGuild(s) \/ GuildInsert(s) \/ LoginHunter(s)
               \/ InviteUpdate(s) \/ Drop(s)
        PROVE  UNCHANGED <<hunter, home>>
    BY <2>4 DEF LoginUser, LoginGuild, GuildInsert, LoginHunter, InviteUpdate, Drop, history
  <2>5. ASSUME NEW u \in Users, NEW profile \in BOOLEAN, BeginLogin(s, u, profile)
        PROVE  UNCHANGED <<hunter, home>>
    BY <2>5 DEF BeginLogin, history
  <2>6. ASSUME NEW g \in Users, NEW h \in Hunters, NEW pin \in Pins,
               BeginCreate(s, g, h, pin) \/ BeginReset(s, g, h, pin)
        PROVE  UNCHANGED <<hunter, home>>
    BY <2>6 DEF BeginCreate, BeginReset, history
  <2>7. ASSUME NEW g \in Users, NEW h \in Hunters, BeginInvite(s, g, h)
        PROVE  UNCHANGED <<hunter, home>>
    BY <2>7 DEF BeginInvite, history
  <2>8. ASSUME NEW i \in Invites, InviteInsert(s, i) \/ \E accept \in BOOLEAN : BeginAnswer(s, i, accept)
        PROVE  UNCHANGED <<hunter, home>>
    BY <2>8 DEF InviteInsert, BeginAnswer, history
  <2>9. OwnerUpdate(s) => UNCHANGED <<hunter, home>> \/ \E x \in Hunters : MadeMaster(x) /\ OnlyOf(x)
    BY LoginMakesMaster
  <2>10. CreateInsert(s) => UNCHANGED <<hunter, home>> \/ \E x \in Hunters : Created(x) /\ OnlyOf(x)
    BY MasterCreates
  <2>11. ResetWrite(s) => \E x \in Hunters : GivenPin(x) /\ OnlyOf(x)
    BY ResetGivesPin
  <2> QED BY <1>1, <2>1, <2>2, <2>3, <2>4, <2>5, <2>6, <2>7, <2>8, <2>9, <2>10, <2>11 DEF Acts
<1>2. CASE UNCHANGED vars
  BY <1>2 DEF vars, history
<1> QED BY <1>1, <1>2 DEF Next, Acts

\* Accounts, guilds, what was misplaced, raced or answered twice only grow.
LEMMA HistoryGrows ==
  ASSUME TypeInv, [Next]_vars
  PROVE  /\ users \subseteq users' /\ guilds \subseteq guilds'
         /\ misplaced \subseteq misplaced' /\ pinRace \subseteq pinRace' /\ crowded \subseteq crowded'
         /\ answeredTwice \subseteq answeredTwice'
<1>1. ASSUME NEW s \in Slots, Acts(s)
      PROVE  /\ users \subseteq users' /\ guilds \subseteq guilds'
             /\ misplaced \subseteq misplaced' /\ pinRace \subseteq pinRace' /\ crowded \subseteq crowded'
             /\ answeredTwice \subseteq answeredTwice'
  <2>1. ASSUME NEW u \in Users, NEW h \in Hunters, NEW pin \in Pins,
               \/ Register(s, u, h, pin) \/ HunterInsert(s, h, pin) \/ InviteMove(s, pin)
               \/ BeginCreate(s, u, h, pin) \/ BeginReset(s, u, h, pin)
        PROVE  /\ users \subseteq users' /\ guilds \subseteq guilds'
               /\ misplaced \subseteq misplaced' /\ pinRace \subseteq pinRace' /\ crowded \subseteq crowded'
               /\ answeredTwice \subseteq answeredTwice'
    BY <2>1 DEF Register, HunterInsert, InviteMove, BeginCreate, BeginReset, history
  <2>2. ASSUME \/ LoginUser(s) \/ LoginGuild(s) \/ GuildInsert(s) \/ LoginHunter(s)
               \/ OwnerUpdate(s) \/ CreateInsert(s) \/ ResetWrite(s) \/ InviteUpdate(s) \/ Drop(s)
        PROVE  /\ users \subseteq users' /\ guilds \subseteq guilds'
               /\ misplaced \subseteq misplaced' /\ pinRace \subseteq pinRace' /\ crowded \subseteq crowded'
               /\ answeredTwice \subseteq answeredTwice'
    BY <2>2 DEF LoginUser, LoginGuild, GuildInsert, LoginHunter, OwnerUpdate, CreateInsert,
       ResetWrite, InviteUpdate, Drop, history
  <2>3. ASSUME \/ \E u \in Users, profile \in BOOLEAN : BeginLogin(s, u, profile)
               \/ \E g \in Users, h \in Hunters : BeginInvite(s, g, h)
               \/ \E i \in Invites : InviteInsert(s, i) \/ \E accept \in BOOLEAN : BeginAnswer(s, i, accept)
        PROVE  UNCHANGED <<users, guilds, misplaced, pinRace, crowded, answeredTwice>>
    BY <2>3 DEF BeginLogin, BeginInvite, InviteInsert, BeginAnswer, history
  <2>4. ASSUME NEW h \in Hunters, NEW pin \in Pins, HunterInsert(s, h, pin)
        PROVE  /\ users \subseteq users' /\ guilds \subseteq guilds'
               /\ misplaced \subseteq misplaced' /\ pinRace \subseteq pinRace' /\ crowded \subseteq crowded'
               /\ answeredTwice \subseteq answeredTwice'
    BY <2>4 DEF HunterInsert
  <2>5. ASSUME NEW pin \in Pins, InviteMove(s, pin)
        PROVE  /\ users \subseteq users' /\ guilds \subseteq guilds'
               /\ misplaced \subseteq misplaced' /\ pinRace \subseteq pinRace' /\ crowded \subseteq crowded'
               /\ answeredTwice \subseteq answeredTwice'
    BY <2>5 DEF InviteMove
  <2> QED BY <1>1, <2>1, <2>2, <2>3, <2>4, <2>5 DEF Acts
<1>2. CASE UNCHANGED vars
  BY <1>2 DEF vars, history
<1> QED BY <1>1, <1>2 DEF Next, Acts

\* Rows of hunters keep their type and their home, and stay.
LEMMA HuntersStay ==
  ASSUME TypeInv, [Next]_vars
  PROVE  /\ \A h \in Hunters : Exists(h) => Exists(h)' /\ home'[h] = home[h]
         /\ \A h \in Hunters : Exists(h)' => hunter'[h] \in Hunter
<1>1. ASSUME NEW x \in Hunters, OnlyOf(x),
             Created(x) \/ MadeMaster(x) \/ GivenPin(x) \/ Moved(x)
      PROVE  /\ hunter'[x] \in Hunter
             /\ Exists(x) => home'[x] = home[x]
  <2>1. CASE Created(x)
    BY <2>1 DEF Created
  <2>2. CASE MadeMaster(x)
    <3>1. hunter[x] \in Hunter
      BY <2>2, RowTypes DEF MadeMaster, TypeInv
    <3>2. PICK u \in users : hunter'[x] = [hunter[x] EXCEPT !.user = u, !.master = TRUE]
      BY <2>2 DEF MadeMaster
    <3>3. u \in Users
      BY DEF TypeInv, Types
    <3> QED BY <2>2, <3>1, <3>2, <3>3 DEF MadeMaster, Hunter
  <2>3. CASE GivenPin(x)
    <3>1. hunter[x] \in Hunter
      BY <2>3, RowTypes DEF GivenPin, TypeInv
    <3>2. PICK pin \in Pins : hunter'[x] = [hunter[x] EXCEPT !.pin = pin]
      BY <2>3 DEF GivenPin
    <3> QED BY <2>3, <3>1, <3>2 DEF GivenPin, Hunter
  <2>4. CASE Moved(x)
    BY <2>4 DEF Moved
  <2> QED BY <1>1, <2>1, <2>2, <2>3, <2>4
<1>2. ASSUME NEW h \in Hunters, hunter'[h] = hunter[h], home'[h] = home[h]
      PROVE  /\ Exists(h) => Exists(h)' /\ home'[h] = home[h]
             /\ Exists(h)' => hunter'[h] \in Hunter
  BY <1>2, RowTypes DEF Exists, TypeInv
<1>3. ASSUME NEW x \in Hunters, OnlyOf(x),
             Created(x) \/ MadeMaster(x) \/ GivenPin(x) \/ Moved(x), NEW h \in Hunters
      PROVE  /\ Exists(h) => Exists(h)' /\ home'[h] = home[h]
             /\ Exists(h)' => hunter'[h] \in Hunter
  <2>1. CASE h = x
    BY <1>1, <1>3, <2>1, NoRowAssumption DEF Exists
  <2>2. CASE h # x
    BY <1>2, <1>3, <2>2 DEF OnlyOf, TypeInv, Types
  <2> QED BY <2>1, <2>2
<1> QED BY <1>2, <1>3, HunterChange

\* Which statements write the invites
LEMMA InviteWrites ==
  ASSUME NEW s \in Slots, Acts(s)
  PROVE  \/ UNCHANGED invite
         \/ \E i \in Invites : InviteInsert(s, i)
         \/ InviteUpdate(s) \/ \E pin \in Pins : InviteMove(s, pin)
<1>1. ASSUME NEW u \in Users, NEW h \in Hunters, NEW pin \in Pins,
             \/ Register(s, u, h, pin) \/ BeginCreate(s, u, h, pin) \/ BeginReset(s, u, h, pin)
      PROVE  UNCHANGED invite
  BY <1>1 DEF Register, BeginCreate, BeginReset
<1>2. ASSUME NEW h \in Hunters, NEW pin \in Pins, HunterInsert(s, h, pin)
      PROVE  UNCHANGED invite
  BY <1>2 DEF HunterInsert
<1>3. ASSUME \/ LoginUser(s) \/ LoginGuild(s) \/ GuildInsert(s) \/ LoginHunter(s)
             \/ OwnerUpdate(s) \/ CreateInsert(s) \/ ResetWrite(s) \/ Drop(s)
      PROVE  UNCHANGED invite
  BY <1>3 DEF LoginUser, LoginGuild, GuildInsert, LoginHunter, OwnerUpdate, CreateInsert,
     ResetWrite, Drop
<1>4. ASSUME \/ \E u \in Users, profile \in BOOLEAN : BeginLogin(s, u, profile)
             \/ \E g \in Users, h \in Hunters : BeginInvite(s, g, h)
             \/ \E i \in Invites, accept \in BOOLEAN : BeginAnswer(s, i, accept)
      PROVE  UNCHANGED invite
  BY <1>4 DEF BeginLogin, BeginInvite, BeginAnswer
<1> QED BY <1>1, <1>2, <1>3, <1>4 DEF Acts

\* An invite keeps its guild and its hunter, and an answer to it stays, unless two answers
\* overlapped.
LEMMA InvitesStand ==
  ASSUME TypeInv, [Next]_vars, NEW j \in Invites, invite[j] # NoRow
  PROVE  /\ invite'[j] \in Invite
         /\ invite'[j].guild = invite[j].guild /\ invite'[j].hunter = invite[j].hunter
         /\ invite'[j].status = invite[j].status \/ invite[j].status = "pending"
              \/ j \in answeredTwice'
<1>0. invite[j] \in Invite
  BY RowTypes DEF TypeInv
<1>1. ASSUME NEW s \in Slots, NEW i \in Invites, InviteInsert(s, i) PROVE invite'[j] = invite[j]
  BY <1>1 DEF InviteInsert, TypeInv, Types
<1>2. ASSUME NEW i \in Invites, NEW status \in {"accepted", "rejected"},
             invite' = [invite EXCEPT ![i].status = status], Again(i) \subseteq answeredTwice'
      PROVE  /\ invite'[j] \in Invite
             /\ invite'[j].guild = invite[j].guild /\ invite'[j].hunter = invite[j].hunter
             /\ invite'[j].status = invite[j].status \/ invite[j].status = "pending"
                  \/ j \in answeredTwice'
  <2>1. CASE i = j
    <3>1. invite'[j] = [invite[j] EXCEPT !.status = status]
      BY <1>2, <2>1 DEF TypeInv, Types
    <3>2. invite[j].status = "pending" \/ j \in answeredTwice'
      BY <1>2, <2>1 DEF Again
    <3> QED BY <1>0, <3>1, <3>2 DEF Invite
  <2>2. CASE i # j
    <3>1. invite'[j] = invite[j]
      BY <1>2, <2>2 DEF TypeInv, Types
    <3> QED BY <1>0, <3>1
  <2> QED BY <2>1, <2>2
<1>3. ASSUME NEW s \in Slots, InviteUpdate(s)
      PROVE  \/ UNCHANGED invite
             \/ \E i \in Invites : /\ invite' = [invite EXCEPT ![i].status = "rejected"]
                                   /\ Again(i) \subseteq answeredTwice'
  <2>1. task[s] \in Answering
    BY <1>3, TaskKinds DEF InviteUpdate, At, TypeInv, Types
  <2>2. task[s].invite \in Invites
    BY <2>1 DEF Answering
  <2> QED BY <1>3, <2>2 DEF InviteUpdate
<1>4. ASSUME NEW s \in Slots, NEW pin \in Pins, InviteMove(s, pin)
      PROVE  \E i \in Invites : /\ invite' = [invite EXCEPT ![i].status = "accepted"]
                                /\ Again(i) \subseteq answeredTwice'
  <2>1. task[s] \in Moving
    BY <1>4, TaskKinds DEF InviteMove, At, TypeInv, Types
  <2>2. task[s].invite \in Invites
    BY <2>1 DEF Moving
  <2> QED BY <1>4, <2>2 DEF InviteMove
<1>6. CASE UNCHANGED invite
  BY <1>0, <1>6
<1>7. ASSUME NEW s \in Slots, Acts(s)
      PROVE  /\ invite'[j] \in Invite
             /\ invite'[j].guild = invite[j].guild /\ invite'[j].hunter = invite[j].hunter
             /\ invite'[j].status = invite[j].status \/ invite[j].status = "pending"
                  \/ j \in answeredTwice'
  BY <1>0, <1>1, <1>2, <1>3, <1>4, <1>6, <1>7, InviteWrites
<1> QED BY <1>6, <1>7 DEF Next, Acts, vars

\* What a handler goes on with is a task of the next state, and the others keep theirs.
LEMMA TaskStep ==
  ASSUME TypeInv, NEW s \in Slots, Acts(s)
  PROVE  /\ task' = [task EXCEPT ![s] = task'[s]]
         /\ task'[s] \in Task
<1>0. task \in [Slots -> Task] /\ task[s] \in Task
  BY DEF TypeInv, Types
<1>1. ASSUME NEW t \in Task, Begin(s, t) \/ Continue(s, t)
      PROVE  task' = [task EXCEPT ![s] = task'[s]] /\ task'[s] \in Task
  BY <1>0, <1>1 DEF Begin, Continue
<1>2. ASSUME Answer(s) PROVE task' = [task EXCEPT ![s] = task'[s]] /\ task'[s] \in Task
  <2>1. Idle \in Task
    BY DEF Task
  <2> QED BY <1>1, <1>2, <2>1 DEF Answer
<1>3. ASSUME Once(s) PROVE task' = [task EXCEPT ![s] = task'[s]] /\ task'[s] \in Task
  BY <1>0, <1>3 DEF Once
<1>4. ASSUME NEW u \in Users, NEW profile \in BOOLEAN, BeginLogin(s, u, profile)
      PROVE  \E t \in Task : Begin(s, t)
  <2>1. [at |-> IF u \in users THEN "login_guild" ELSE "login_user",
         user |-> u, profile |-> profile] \in Task
    BY DEF Task, Login
  <2> QED BY <1>4, <2>1 DEF BeginLogin
<1>5. ASSUME NEW at \in {"login_guild", "guild_insert", "login_hunter"}, task[s] \in Login
      PROVE  [task[s] EXCEPT !.at = at] \in Task
  <2>1. [task[s] EXCEPT !.at = at] \in Login
    BY <1>5 DEF Login
  <2> QED BY <2>1 DEF Task
<1>6. ASSUME LoginUser(s) \/ LoginGuild(s) \/ GuildInsert(s)
      PROVE  Answer(s) \/ \E t \in Task : Continue(s, t)
  <2>1. task[s] \in Login
    BY <1>0, <1>6, TaskKinds DEF LoginUser, LoginGuild, GuildInsert, At
  <2> QED BY <1>5, <1>6, <2>1 DEF LoginUser, LoginGuild, GuildInsert
<1>7. ASSUME LoginHunter(s) PROVE Answer(s) \/ \E t \in Task : Continue(s, t)
  <2>0. task[s].user \in Users
    <3>1. task[s] \in Login
      BY <1>0, <1>7, TaskKinds DEF LoginHunter, At
    <3> QED BY <3>1 DEF Login
  <2>1. \A h \in HuntersOf(task[s].user) :
          [at |-> "owner_update", user |-> task[s].user, hunter |-> h] \in Task
    BY <2>0 DEF Task, Owning, HuntersOf
  <2>2. \A h \in HuntersOf(task[s].user) : hunter[h].pin \in Pins
    BY RowTypes DEF HuntersOf, Hunter, TypeInv
  <2>3. [at |-> "hunter_insert", user |-> task[s].user,
         pins |-> {hunter[x].pin : x \in HuntersOf(task[s].user)}] \in Task
    BY <2>0, <2>2 DEF Task, Inserting
  <2> QED BY <1>7, <2>1, <2>3 DEF LoginHunter
<1>8. ASSUME NEW g, NEW h PROVE PinsOf(g, h) \subseteq Pins
  BY RowTypes DEF PinsOf, HuntersOf, Hunter, TypeInv
<1>9. ASSUME NEW g \in Users, NEW h \in Hunters, NEW pin \in Pins, BeginCreate(s, g, h, pin)
      PROVE  \E t \in Task : Begin(s, t)
  <2>1. [at |-> "create_insert", guild |-> g, hunter |-> h, pin |-> pin,
         pins |-> PinsOf(g, h)] \in Task
    BY <1>8 DEF Task, Creating
  <2> QED BY <1>9, <2>1 DEF BeginCreate
<1>10. ASSUME NEW g \in Users, NEW h \in Hunters, NEW pin \in Pins, BeginReset(s, g, h, pin)
       PROVE  \E t \in Task : Begin(s, t)
  <2>1. [at |-> "reset_write", hunter |-> h, pin |-> pin, pins |-> PinsOf(g, h)] \in Task
    BY <1>8 DEF Task, Resetting
  <2> QED BY <1>10, <2>1 DEF BeginReset
<1>11. ASSUME NEW g \in Users, NEW h \in Hunters, BeginInvite(s, g, h)
       PROVE  \E t \in Task : Begin(s, t)
  <2>1. [at |-> "invite_insert", guild |-> g, hunter |-> h] \in Task
    BY DEF Task, Inviting
  <2> QED BY <1>11, <2>1 DEF BeginInvite
<1>12. ASSUME NEW i \in Invites, NEW accept \in BOOLEAN, BeginAnswer(s, i, accept)
       PROVE  \E t \in Task : Begin(s, t)
  <2>1. [at |-> "invite_update", invite |-> i, accept |-> accept] \in Task
    BY DEF Task, Answering
  <2> QED BY <1>12, <2>1 DEF BeginAnswer
<1>13. ASSUME InviteUpdate(s) PROVE Answer(s) \/ \E t \in Task : Continue(s, t)
  <2>1. task[s] \in Answering
    BY <1>0, <1>13, TaskKinds DEF InviteUpdate, At
  <2>2. \A h \in HuntersOf(invite[task[s].invite].guild) : hunter[h].pin \in Pins
    BY RowTypes DEF HuntersOf, Hunter, TypeInv
  <2>3. [at |-> "invite_move", invite |-> task[s].invite,
         pins |-> {hunter[x].pin : x \in HuntersOf(invite[task[s].invite].guild)}] \in Task
    BY <2>1, <2>2 DEF Task, Moving, Answering
  <2> QED BY <1>13, <2>3 DEF InviteUpdate
<1>14. ASSUME NEW h \in Hunters, NEW pin \in Pins, HunterInsert(s, h, pin) PROVE Answer(s)
  BY <1>14 DEF HunterInsert
<1>15. ASSUME NEW pin \in Pins, InviteMove(s, pin) PROVE Answer(s)
  BY <1>15 DEF InviteMove
<1>16. ASSUME \/ OwnerUpdate(s) \/ CreateInsert(s) \/ ResetWrite(s) \/ Drop(s)
              \/ \E i \in Invites : InviteInsert(s, i)
       PROVE  Answer(s)
  BY <1>16 DEF OwnerUpdate, CreateInsert, ResetWrite, InviteInsert, Drop, Abandon
<1>17. ASSUME NEW u \in Users, NEW h \in Hunters, NEW pin \in Pins, Register(s, u, h, pin)
       PROVE  Once(s)
  BY <1>17 DEF Register
<1> QED BY <1>1, <1>2, <1>3, <1>4, <1>6, <1>7, <1>9, <1>10, <1>11, <1>12, <1>13, <1>14, <1>15,
           <1>16, <1>17 DEF Acts

\* The tables keep their types.
LEMMA TypesStep == TypeInv /\ [Next]_vars => Types'
<1> SUFFICES ASSUME TypeInv, [Next]_vars PROVE Types'
  OBVIOUS
<1>1. task' \in [Slots -> Task]
  <2>1. ASSUME NEW s \in Slots, Acts(s) PROVE task' \in [Slots -> Task]
    BY <2>1, TaskStep DEF TypeInv, Types
  <2>2. CASE UNCHANGED vars
    BY <2>2 DEF vars, handlerVars, TypeInv, Types
  <2> QED BY <2>1, <2>2 DEF Next, Acts
<1>2. hunter' \in [Hunters -> Hunter \cup {NoRow}] /\ home' \in [Hunters -> Users \cup {NoRow}]
  <2>1. CASE UNCHANGED <<hunter, home>>
    BY <2>1 DEF TypeInv, Types
  <2>2. ASSUME NEW h \in Hunters, OnlyOf(h),
               Created(h) \/ MadeMaster(h) \/ GivenPin(h) \/ Moved(h)
        PROVE  /\ hunter' \in [Hunters -> Hunter \cup {NoRow}]
               /\ home' \in [Hunters -> Users \cup {NoRow}]
    <3>1. hunter'[h] \in Hunter \cup {NoRow}
      BY HuntersStay DEF Exists
    <3>2. home'[h] \in Users \cup {NoRow}
      BY <2>2 DEF Created, MadeMaster, GivenPin, Moved, Hunter, TypeInv, Types
    <3>3. hunter' = [hunter EXCEPT ![h] = hunter'[h]] /\ home' = [home EXCEPT ![h] = home'[h]]
      BY <2>2 DEF OnlyOf
    <3> QED BY <3>1, <3>2, <3>3 DEF TypeInv, Types
  <2> QED BY <2>1, <2>2, HunterChange
<1>3. ASSUME NEW s \in Slots, Acts(s)
      PROVE  /\ users' \subseteq Users /\ guilds' \subseteq users'
             /\ invite' \in [Invites -> Invite \cup {NoRow}]
             /\ misplaced' \subseteq Hunters /\ pinRace' \subseteq Hunters /\ crowded' \subseteq Hunters
             /\ answeredTwice' \subseteq Invites
  <2> DEFINE Goal == /\ users' \subseteq Users /\ guilds' \subseteq users'
                     /\ invite' \in [Invites -> Invite \cup {NoRow}]
                     /\ misplaced' \subseteq Hunters /\ pinRace' \subseteq Hunters /\ crowded' \subseteq Hunters
                     /\ answeredTwice' \subseteq Invites
  <2>0. task[s] \in Task /\ Types
    BY DEF TypeInv, Types
  <2>1. ASSUME NEW u \in Users, NEW h \in Hunters, NEW pin \in Pins,
               \/ Register(s, u, h, pin) \/ BeginCreate(s, u, h, pin) \/ BeginReset(s, u, h, pin)
        PROVE  Goal
    BY <2>0, <2>1 DEF Register, BeginCreate, BeginReset, history, Types
  <2>2. ASSUME NEW h \in Hunters, NEW pin \in Pins, HunterInsert(s, h, pin)
        PROVE  Goal
    BY <2>0, <2>2 DEF HunterInsert, Types, Raced, Crowded
  <2>3. ASSUME NEW pin \in Pins, InviteMove(s, pin) PROVE Goal
    <3>1. task[s] \in Moving /\ invite[task[s].invite] # NoRow
      BY <2>0, <2>3, TaskKinds DEF InviteMove, At, TypeInv, TaskRefers
    <3>2. task[s].invite \in Invites
      BY <3>1 DEF Moving
    <3>3. invite[task[s].invite] \in Invite
      BY <2>0, <3>1, <3>2, RowTypes
    <3>4. invite[task[s].invite].hunter \in Hunters
          /\ [invite[task[s].invite] EXCEPT !.status = "accepted"] \in Invite
      BY <3>3 DEF Invite
    <3>5. invite' = [invite EXCEPT ![task[s].invite] =
                       [invite[task[s].invite] EXCEPT !.status = "accepted"]]
      BY <2>3 DEF InviteMove
    <3>6. /\ answeredTwice' = answeredTwice \cup Again(task[s].invite)
          /\ pinRace' = pinRace \cup Raced(invite[task[s].invite].hunter,
                                           invite[task[s].invite].guild, task[s].pins)
          /\ crowded' = crowded \cup Crowded(invite[task[s].invite].hunter, pin, task[s].pins)
          /\ UNCHANGED <<users, guilds, misplaced>>
      BY <2>3 DEF InviteMove
    <3> QED BY <2>0, <3>2, <3>4, <3>5, <3>6 DEF Types, Again, Raced, Crowded
  <2>4. ASSUME LoginUser(s) \/ LoginGuild(s) \/ GuildInsert(s) \/ LoginHunter(s) PROVE Goal
    <3>1. task[s] \in Login
      BY <2>0, <2>4, TaskKinds DEF LoginUser, LoginGuild, GuildInsert, LoginHunter, At
    <3>2. task[s].user \in Users /\ (GuildInsert(s) => task[s].user \in users)
      BY <3>1 DEF Login, GuildInsert, At, TypeInv, TaskRefers
    <3> QED BY <2>0, <2>4, <3>2 DEF LoginUser, LoginGuild, GuildInsert, LoginHunter, history, Types
  <2>5. ASSUME OwnerUpdate(s) \/ CreateInsert(s) \/ ResetWrite(s) PROVE Goal
    <3>1. task[s] \in Owning \cup Creating \cup Resetting
      BY <2>0, <2>5, TaskKinds DEF OwnerUpdate, CreateInsert, ResetWrite, At
    <3>2. task[s].hunter \in Hunters
      BY <3>1 DEF Owning, Creating, Resetting
    <3> QED BY <2>0, <2>5, <3>2 DEF OwnerUpdate, CreateInsert, ResetWrite, Types, Raced
  <2>6. ASSUME NEW i \in Invites, InviteInsert(s, i) PROVE Goal
    <3>1. task[s] \in Inviting
      BY <2>0, <2>6, TaskKinds DEF InviteInsert, At
    <3>2. [guild |-> task[s].guild, hunter |-> task[s].hunter, status |-> "pending"] \in Invite
      BY <3>1 DEF Inviting, Invite
    <3> QED BY <2>0, <2>6, <3>2 DEF InviteInsert, history, Types
  <2>7. ASSUME InviteUpdate(s) PROVE Goal
    <3>1. task[s] \in Answering /\ invite[task[s].invite] # NoRow
      BY <2>0, <2>7, TaskKinds DEF InviteUpdate, At, TypeInv, TaskRefers
    <3>2. task[s].invite \in Invites
      BY <3>1 DEF Answering
    <3>3. invite[task[s].invite] \in Invite
      BY <2>0, <3>1, <3>2, RowTypes
    <3>4. [invite[task[s].invite] EXCEPT !.status = "rejected"] \in Invite
      BY <3>3 DEF Invite
    <3>5. \/ invite' = [invite EXCEPT ![task[s].invite] =
                          [invite[task[s].invite] EXCEPT !.status = "rejected"]]
          \/ invite' = invite
      BY <2>7 DEF InviteUpdate
    <3> QED BY <2>0, <2>7, <3>2, <3>4, <3>5 DEF InviteUpdate, Types, Again
  <2>8. ASSUME \/ Drop(s)
               \/ \E u \in Users, profile \in BOOLEAN : BeginLogin(s, u, profile)
               \/ \E g \in Users, h \in Hunters : BeginInvite(s, g, h)
               \/ \E i \in Invites, accept \in BOOLEAN : BeginAnswer(s, i, accept)
        PROVE  Goal
    BY <2>0, <2>8 DEF Drop, BeginLogin, BeginInvite, BeginAnswer, history, Types
  <2> QED BY <1>3, <2>1, <2>2, <2>3, <2>4, <2>5, <2>6, <2>7, <2>8 DEF Acts
<1>4. CASE UNCHANGED vars
  BY <1>1, <1>4 DEF vars, history, TypeInv, Types
<1> QED BY <1>1, <1>2, <1>3, <1>4 DEF Next, Acts, Types

\* A hunter's guild and account, and the guild it was created in, are there.
LEMMA HunterRefersStep ==
  ASSUME TypeInv, [Next]_vars, NEW h \in Hunters
  PROVE  HunterRefers(h)'
<1>0. users \subseteq users' /\ guilds \subseteq guilds' /\ guilds' \subseteq users'
  BY HistoryGrows, TypesStep DEF Types
<1>1. ASSUME hunter'[h] = hunter[h], home'[h] = home[h] PROVE HunterRefers(h)'
  BY <1>0, <1>1 DEF TypeInv, HunterRefers, Exists
<1>2. CASE Created(h)
  BY <1>0, <1>2 DEF Created, HunterRefers
<1>3. CASE MadeMaster(h)
  <2>1. hunter[h] \in Hunter /\ HunterRefers(h)
    BY <1>3, RowTypes DEF MadeMaster, TypeInv
  <2>2. PICK u \in users : hunter'[h] = [hunter[h] EXCEPT !.user = u, !.master = TRUE]
    BY <1>3 DEF MadeMaster
  <2>3. hunter'[h].user = u /\ hunter'[h].guild = hunter[h].guild
    BY <2>1, <2>2 DEF Hunter
  <2> QED BY <1>0, <1>3, <2>1, <2>3 DEF MadeMaster, HunterRefers
<1>4. CASE GivenPin(h)
  <2>1. hunter[h] \in Hunter /\ HunterRefers(h)
    BY <1>4, RowTypes DEF GivenPin, TypeInv
  <2>2. PICK pin \in Pins : hunter'[h] = [hunter[h] EXCEPT !.pin = pin]
    BY <1>4 DEF GivenPin
  <2>3. hunter'[h].user = hunter[h].user /\ hunter'[h].guild = hunter[h].guild
    BY <2>1, <2>2 DEF Hunter
  <2> QED BY <1>0, <1>4, <2>1, <2>3 DEF GivenPin, HunterRefers
<1>5. CASE Moved(h)
  BY <1>0, <1>5 DEF Moved, HunterRefers, InviteRefers, TypeInv
<1>6. ASSUME NEW x \in Hunters, OnlyOf(x), x # h PROVE HunterRefers(h)'
  <2>1. hunter'[h] = hunter[h] /\ home'[h] = home[h]
    BY <1>6 DEF OnlyOf, TypeInv, Types
  <2> QED BY <1>1, <2>1
<1> QED BY <1>1, <1>2, <1>3, <1>4, <1>5, <1>6, HunterChange

\* An invite's guild and hunter are there.
LEMMA InviteRefersStep ==
  ASSUME TypeInv, [Next]_vars, NEW i \in Invites
  PROVE  InviteRefers(i)'
<1>1. CASE invite[i] # NoRow
  <2>1. invite'[i].guild = invite[i].guild /\ invite'[i].hunter = invite[i].hunter
    BY <1>1, InvitesStand
  <2>2. invite[i].guild \in guilds /\ Exists(invite[i].hunter) /\ invite[i].hunter \in Hunters
    BY <1>1, RowTypes DEF TypeInv, InviteRefers, Invite
  <2> QED BY <2>1, <2>2, HistoryGrows, HuntersStay DEF InviteRefers
<1>2. ASSUME invite[i] = NoRow, NEW s \in Slots, NEW j \in Invites, InviteInsert(s, j)
      PROVE  InviteRefers(i)'
  <2>1. task[s] \in Inviting /\ task[s].guild \in guilds /\ Exists(task[s].hunter)
    BY <1>2, TaskKinds DEF InviteInsert, At, TypeInv, Types, TaskRefers
  <2>2. task[s].hunter \in Hunters
    BY <2>1 DEF Inviting
  <2>3. CASE i = j
    <3>1. invite'[i] = [guild |-> task[s].guild, hunter |-> task[s].hunter, status |-> "pending"]
      BY <1>2, <2>3 DEF InviteInsert, TypeInv, Types
    <3> QED BY <2>1, <2>2, <3>1, HistoryGrows, HuntersStay DEF InviteRefers
  <2>4. CASE i # j
    <3>1. invite'[i] = NoRow
      BY <1>2, <2>4 DEF InviteInsert, TypeInv, Types
    <3> QED BY <3>1 DEF InviteRefers
  <2> QED BY <2>3, <2>4
<1>3. ASSUME NEW s \in Slots, InviteUpdate(s), invite[i] = NoRow PROVE invite'[i] = NoRow
  <2>1. task[s] \in Answering /\ invite[task[s].invite] # NoRow
    BY <1>3, TaskKinds DEF InviteUpdate, At, TypeInv, Types, TaskRefers
  <2> QED BY <1>3, <2>1 DEF InviteUpdate, TypeInv, Types
<1>4. ASSUME NEW s \in Slots, NEW pin \in Pins, InviteMove(s, pin), invite[i] = NoRow
      PROVE  invite'[i] = NoRow
  <2>1. task[s] \in Moving /\ invite[task[s].invite] # NoRow
    BY <1>4, TaskKinds DEF InviteMove, At, TypeInv, Types, TaskRefers
  <2> QED BY <1>4, <2>1 DEF InviteMove, TypeInv, Types
<1>5. CASE UNCHANGED invite /\ invite[i] = NoRow
  BY <1>5 DEF InviteRefers
<1>6. ASSUME invite'[i] = NoRow PROVE InviteRefers(i)'
  BY <1>6 DEF InviteRefers
<1> QED BY <1>1, <1>2, <1>3, <1>4, <1>5, <1>6, InviteWrites DEF Next, Acts, vars

\* What a handler has read is still there when it goes on, or ends.
LEMMA TaskRefersStep ==
  ASSUME TypeInv, [Next]_vars, NEW r \in Slots
  PROVE  TaskRefers(r)'
<1>0. task \in [Slots -> Task] /\ task[r] \in Task
  BY DEF TypeInv, Types
<1>g. users \subseteq users' /\ guilds \subseteq guilds'
  BY HistoryGrows
<1>1. CASE task'[r] = task[r]
  <2>1. /\ task[r].at \in {"owner_update", "reset_write", "invite_insert"} => task[r].hunter \in Hunters
        /\ task[r].at \in {"invite_update", "invite_move"} => task[r].invite \in Invites
    BY <1>0, TaskKinds DEF Owning, Resetting, Inviting, Answering, Moving
  <2>2. /\ \A h \in Hunters : Exists(h) => Exists(h)'
        /\ \A i \in Invites : invite[i] # NoRow => invite'[i] # NoRow
    BY HuntersStay, InvitesStand, NoRowAssumption
  <2> QED BY <1>1, <1>g, <2>1, <2>2 DEF TypeInv, TaskRefers
<1>2. CASE Acts(r)
  <2>i. ASSUME task'[r] = Idle PROVE TaskRefers(r)'
    BY <2>i DEF TaskRefers, Idle
  <2>a. ASSUME Answer(r) PROVE TaskRefers(r)'
    <3>1. task'[r] = Idle
      BY <1>0, <2>a DEF Answer, Continue
    <3> QED BY <2>i, <3>1
  <2>1. ASSUME NEW u \in Users, NEW h \in Hunters, NEW pin \in Pins, Register(r, u, h, pin)
        PROVE  TaskRefers(r)'
    <3>1. task'[r] = Idle
      BY <2>1 DEF Register, Once
    <3> QED BY <2>i, <3>1
  <2>2. ASSUME NEW u \in Users, NEW profile \in BOOLEAN, BeginLogin(r, u, profile)
        PROVE  TaskRefers(r)'
    <3>1. task'[r] = [at |-> IF u \in users THEN "login_guild" ELSE "login_user",
                      user |-> u, profile |-> profile]
      BY <1>0, <2>2 DEF BeginLogin, Begin
    <3> QED BY <1>g, <3>1 DEF TaskRefers
  <2>3. ASSUME LoginUser(r) \/ LoginGuild(r) \/ GuildInsert(r) PROVE TaskRefers(r)'
    <3>1. task[r] \in Login /\ TaskRefers(r)
      BY <1>0, <2>3, TaskKinds DEF LoginUser, LoginGuild, GuildInsert, At, TypeInv
    <3>2. CASE LoginUser(r)
      <4>1. task'[r] = [task[r] EXCEPT !.at = "login_guild"] \/ Answer(r)
        BY <1>0, <3>2 DEF LoginUser, Continue
      <4>2. task[r].user \in users'
        BY <3>2 DEF LoginUser
      <4>3. ASSUME task'[r] = [task[r] EXCEPT !.at = "login_guild"] PROVE TaskRefers(r)'
        <5>1. task'[r].at = "login_guild" /\ task'[r].user = task[r].user
          BY <3>1, <4>3 DEF Login
        <5> QED BY <4>2, <5>1 DEF TaskRefers
      <4> QED BY <2>a, <4>1, <4>3
    <3>3. CASE LoginGuild(r)
      <4>1. PICK at \in {"login_hunter", "guild_insert"} :
              /\ task'[r] = [task[r] EXCEPT !.at = at]
              /\ at = "login_hunter" => task[r].user \in guilds
        BY <1>0, <3>3 DEF LoginGuild, Continue
      <4>2. task[r].user \in users
        BY <3>1, <3>3 DEF LoginGuild, At, TaskRefers
      <4>3. task'[r].at = at /\ task'[r].user = task[r].user
        BY <3>1, <4>1 DEF Login
      <4> QED BY <1>g, <4>1, <4>2, <4>3 DEF TaskRefers
    <3>4. CASE GuildInsert(r)
      <4>1. task'[r] = [task[r] EXCEPT !.at = "login_hunter"] \/ Answer(r)
        BY <1>0, <3>4 DEF GuildInsert, Continue
      <4>2. task[r].user \in guilds'
        BY <3>4 DEF GuildInsert
      <4>3. ASSUME task'[r] = [task[r] EXCEPT !.at = "login_hunter"] PROVE TaskRefers(r)'
        <5>1. task'[r].at = "login_hunter" /\ task'[r].user = task[r].user
          BY <3>1, <4>3 DEF Login
        <5> QED BY <4>2, <5>1 DEF TaskRefers
      <4> QED BY <2>a, <4>1, <4>3
    <3> QED BY <2>3, <3>2, <3>3, <3>4
  <2>4. ASSUME LoginHunter(r) PROVE TaskRefers(r)'
    <3>1. task[r].user \in guilds /\ guilds \subseteq users
      BY <2>4 DEF LoginHunter, At, TypeInv, Types, TaskRefers
    <3>2. ASSUME NEW h \in HuntersOf(task[r].user),
                 task'[r] = [at |-> "owner_update", user |-> task[r].user, hunter |-> h]
          PROVE  TaskRefers(r)'
      <4>1. Exists(h)'
        BY HuntersStay DEF HuntersOf
      <4> QED BY <1>g, <3>1, <3>2, <4>1 DEF TaskRefers
    <3>3. ASSUME task'[r] = [at |-> "hunter_insert", user |-> task[r].user,
                             pins |-> {hunter[x].pin : x \in HuntersOf(task[r].user)}]
          PROVE  TaskRefers(r)'
      BY <1>g, <3>1, <3>3 DEF TaskRefers
    <3>4. \/ Answer(r)
          \/ \E h \in HuntersOf(task[r].user) :
               task'[r] = [at |-> "owner_update", user |-> task[r].user, hunter |-> h]
          \/ task'[r] = [at |-> "hunter_insert", user |-> task[r].user,
                         pins |-> {hunter[x].pin : x \in HuntersOf(task[r].user)}]
      BY <1>0, <2>4 DEF LoginHunter, Continue
    <3> QED BY <2>a, <3>2, <3>3, <3>4
  <2>5. ASSUME NEW g \in Users, NEW h \in Hunters, NEW pin \in Pins, BeginCreate(r, g, h, pin)
        PROVE  TaskRefers(r)'
    <3>1. task'[r] = [at |-> "create_insert", guild |-> g, hunter |-> h, pin |-> pin,
                      pins |-> PinsOf(g, h)]
      BY <1>0, <2>5 DEF BeginCreate, Begin
    <3>2. g \in guilds /\ pin \notin PinsOf(g, h)
      BY <2>5 DEF BeginCreate, HasMaster, HuntersOf, TypeInv, HunterRefers
    <3> QED BY <1>g, <3>1, <3>2 DEF TaskRefers
  <2>6. ASSUME NEW g \in Users, NEW h \in Hunters, NEW pin \in Pins, BeginReset(r, g, h, pin)
        PROVE  TaskRefers(r)'
    <3>1. task'[r] = [at |-> "reset_write", hunter |-> h, pin |-> pin, pins |-> PinsOf(g, h)]
      BY <1>0, <2>6 DEF BeginReset, Begin
    <3>2. Exists(h)' /\ pin \notin PinsOf(g, h)
      BY <2>6, HuntersStay DEF BeginReset, HuntersOf
    <3> QED BY <3>1, <3>2 DEF TaskRefers
  <2>7. ASSUME NEW g \in Users, NEW h \in Hunters, BeginInvite(r, g, h) PROVE TaskRefers(r)'
    <3>1. task'[r] = [at |-> "invite_insert", guild |-> g, hunter |-> h]
      BY <1>0, <2>7 DEF BeginInvite, Begin
    <3>2. PICK x \in Hunters : x \in HuntersOf(g)
      BY <2>7 DEF BeginInvite, HuntersOf
    <3>3. g \in guilds
      BY <3>2 DEF HuntersOf, TypeInv, HunterRefers
    <3>4. Exists(h)'
      BY <2>7, HuntersStay DEF BeginInvite
    <3> QED BY <1>g, <3>1, <3>3, <3>4 DEF TaskRefers
  <2>8. ASSUME NEW i \in Invites, NEW accept \in BOOLEAN, BeginAnswer(r, i, accept)
        PROVE  TaskRefers(r)'
    <3>1. task'[r] = [at |-> "invite_update", invite |-> i, accept |-> accept]
      BY <1>0, <2>8 DEF BeginAnswer, Begin
    <3>2. invite'[i] # NoRow
      BY <2>8, InvitesStand, NoRowAssumption DEF BeginAnswer
    <3> QED BY <3>1, <3>2 DEF TaskRefers
  <2>9. ASSUME InviteUpdate(r) PROVE TaskRefers(r)'
    <3>1. task[r] \in Answering /\ invite[task[r].invite] # NoRow
      BY <1>0, <2>9, TaskKinds DEF InviteUpdate, At, TypeInv, TaskRefers
    <3>2. task[r].invite \in Invites
      BY <3>1 DEF Answering
    <3>3. invite'[task[r].invite] # NoRow
      BY <3>1, <3>2, InvitesStand, NoRowAssumption
    <3>4. ASSUME ~Answer(r) PROVE task'[r].at = "invite_move" /\ task'[r].invite = task[r].invite
      BY <1>0, <2>9, <3>4 DEF InviteUpdate, Continue
    <3>5. ASSUME ~Answer(r) PROVE TaskRefers(r)'
      BY <3>3, <3>4, <3>5 DEF TaskRefers
    <3> QED BY <2>a, <3>5
  <2>10. ASSUME \/ \E h \in Hunters, pin \in Pins : HunterInsert(r, h, pin)
                \/ \E pin \in Pins : InviteMove(r, pin)
                \/ OwnerUpdate(r) \/ CreateInsert(r) \/ ResetWrite(r) \/ Drop(r)
                \/ \E i \in Invites : InviteInsert(r, i)
         PROVE  TaskRefers(r)'
    <3>1. Answer(r)
      BY <2>10 DEF HunterInsert, InviteMove, OwnerUpdate, CreateInsert, ResetWrite, InviteInsert,
         Drop, Abandon
    <3> QED BY <2>a, <3>1
  <2> QED BY <1>2, <2>1, <2>2, <2>3, <2>4, <2>5, <2>6, <2>7, <2>8, <2>9, <2>10 DEF Acts
<1>3. ASSUME NEW s \in Slots, Acts(s), s # r PROVE task'[r] = task[r]
  BY <1>0, <1>3, TaskStep
<1> QED BY <1>1, <1>2, <1>3 DEF Next, Acts, vars, handlerVars

\* Every step keeps the types and what they refer to.
LEMMA TypeStep == TypeInv /\ [Next]_vars => TypeInv'
BY TypesStep, HunterRefersStep, InviteRefersStep, TaskRefersStep DEF TypeInv

\* No accounts yet
LEMMA TypeInit == Init => TypeInv
<1> SUFFICES ASSUME Init PROVE TypeInv
  OBVIOUS
<1>1. task \in [Slots -> Task]
  BY DEF Init, HandlersInit, Task
<1>2. \A s \in Slots : TaskRefers(s)
  BY DEF Init, HandlersInit, TaskRefers, Idle
<1> QED BY <1>1, <1>2 DEF Init, TypeInv, Types, HunterRefers, InviteRefers, Exists

-------------------------------------------------------------------------------
(* What the one row that a step writes may become.                         *)

SameRow(h) == hunter'[h] = hunter[h] /\ home'[h] = home[h]

MasterNow(h) ==
  /\ Exists(h) /\ home'[h] = home[h]
  /\ hunter'[h].guild = hunter[h].guild /\ hunter'[h].pin = hunter[h].pin
  /\ hunter'[h].master
  /\ hunter'[h].user \in Users /\ UserIsFree(hunter'[h].user, h)
  /\ hunter'[h].user # hunter[h].guild => h \in misplaced'

PinNow(h) ==
  /\ Exists(h) /\ home'[h] = home[h]
  /\ hunter'[h].guild = hunter[h].guild /\ hunter'[h].user = hunter[h].user
  /\ hunter'[h].master = hunter[h].master
  /\ PinChecked(h)

\* The row of a hunter after a step, by what has become of it
LEMMA RowAfter ==
  ASSUME TypeInv, [Next]_vars
  PROVE  \/ \A x \in Hunters : SameRow(x)
         \/ \E h \in Hunters : /\ \A x \in Hunters \ {h} : SameRow(x)
                               /\ Created(h) \/ MasterNow(h) \/ PinNow(h) \/ Moved(h)
<1>1. ASSUME NEW h \in Hunters, OnlyOf(h)
      PROVE  \A x \in Hunters \ {h} : SameRow(x)
  BY <1>1 DEF OnlyOf, SameRow, TypeInv, Types
<1>2. ASSUME NEW h \in Hunters, MadeMaster(h)
      PROVE  MasterNow(h)
  <2>1. hunter[h] \in Hunter
    BY <1>2, RowTypes DEF MadeMaster, TypeInv
  <2>2. PICK u \in users : /\ hunter'[h] = [hunter[h] EXCEPT !.user = u, !.master = TRUE]
                           /\ UserIsFree(u, h)
                           /\ hunter[h].guild # u => h \in misplaced'
    BY <1>2 DEF MadeMaster
  <2>3. u \in Users
    BY DEF TypeInv, Types
  <2>4. /\ hunter'[h].user = u /\ hunter'[h].master
        /\ hunter'[h].guild = hunter[h].guild /\ hunter'[h].pin = hunter[h].pin
    BY <2>1, <2>2 DEF Hunter
  <2> QED BY <1>2, <2>2, <2>3, <2>4 DEF MadeMaster, MasterNow
<1>3. ASSUME NEW h \in Hunters, GivenPin(h)
      PROVE  PinNow(h)
  <2>1. hunter[h] \in Hunter
    BY <1>3, RowTypes DEF GivenPin, TypeInv
  <2>2. PICK pin \in Pins : hunter'[h] = [hunter[h] EXCEPT !.pin = pin]
    BY <1>3 DEF GivenPin
  <2>3. /\ hunter'[h].guild = hunter[h].guild /\ hunter'[h].user = hunter[h].user
        /\ hunter'[h].master = hunter[h].master
    BY <2>1, <2>2 DEF Hunter
  <2> QED BY <1>3, <2>3 DEF GivenPin, PinNow
<1>4. CASE UNCHANGED <<hunter, home>>
  BY <1>4 DEF SameRow
<1> QED BY <1>1, <1>2, <1>3, <1>4, HunterChange

-------------------------------------------------------------------------------
(* Masters.                                                                *)

\* Who is a master has an account of its own, which owns the guild unless misplaced.
MasterInv ==
  /\ \A h \in Hunters : Exists(h) =>
       /\ hunter[h].master <=> hunter[h].user # NoUser
       /\ hunter[h].master /\ h \notin misplaced => hunter[h].user = hunter[h].guild
  /\ \A x, y \in Hunters :
       x # y /\ Exists(x) /\ Exists(y) /\ hunter[x].user = hunter[y].user => hunter[x].user = NoUser

\* Every step keeps masters with their accounts.
LEMMA MasterStep == TypeInv /\ MasterInv /\ [Next]_vars => MasterInv'
<1> SUFFICES ASSUME TypeInv, MasterInv, [Next]_vars PROVE MasterInv'
  OBVIOUS
<1>0. misplaced \subseteq misplaced' /\ NoUser \notin Users
  BY HistoryGrows, GuildsAssumption
<1>1. ASSUME NEW h \in Hunters, hunter'[h] = hunter[h], Exists(h)'
      PROVE  /\ hunter'[h].master <=> hunter'[h].user # NoUser
             /\ hunter'[h].master /\ h \notin misplaced' => hunter'[h].user = hunter'[h].guild
  BY <1>0, <1>1 DEF MasterInv, Exists
<1>2. CASE \A x \in Hunters : SameRow(x)
  BY <1>0, <1>2 DEF MasterInv, Exists, SameRow
<1>3. ASSUME NEW h \in Hunters, \A x \in Hunters \ {h} : SameRow(x),
             Created(h) \/ MasterNow(h) \/ PinNow(h) \/ Moved(h)
      PROVE  MasterInv'
  <2>1. ASSUME Exists(h)'
        PROVE  /\ hunter'[h].master <=> hunter'[h].user # NoUser
               /\ hunter'[h].master /\ h \notin misplaced' => hunter'[h].user = hunter'[h].guild
    <3>1. CASE Created(h)
      BY <1>0, <3>1 DEF Created, Hunter
    <3>2. CASE Moved(h)
      BY <3>2 DEF Moved
    <3>3. CASE MasterNow(h)
      BY <1>0, <3>3 DEF MasterNow
    <3>4. CASE PinNow(h)
      BY <1>0, <3>4 DEF PinNow, MasterInv
    <3> QED BY <1>3, <3>1, <3>2, <3>3, <3>4
  <2>2. ASSUME NEW x \in Hunters \ {h}, Exists(x)', Exists(h)', hunter'[x].user = hunter'[h].user
        PROVE  hunter'[h].user = NoUser
    <3>0. hunter'[x] = hunter[x] /\ Exists(x)
      BY <1>3, <2>2 DEF Exists, SameRow
    <3>1. CASE Created(h)
      BY <2>2, <3>0, <3>1 DEF Created, UserIsFree
    <3>2. CASE Moved(h)
      BY <3>2 DEF Moved
    <3>3. CASE MasterNow(h)
      BY <2>2, <3>0, <3>3 DEF MasterNow, UserIsFree
    <3>4. CASE PinNow(h)
      BY <2>2, <3>0, <3>4 DEF PinNow, MasterInv
    <3> QED BY <1>3, <3>1, <3>2, <3>3, <3>4
  <2>3. ASSUME NEW x \in Hunters \ {h}, NEW y \in Hunters \ {h}, x # y, Exists(x)', Exists(y)',
               hunter'[x].user = hunter'[y].user
        PROVE  hunter'[x].user = NoUser
    BY <1>3, <2>3 DEF MasterInv, Exists, SameRow
  <2>4. ASSUME NEW x \in Hunters, Exists(x)'
        PROVE  /\ hunter'[x].master <=> hunter'[x].user # NoUser
               /\ hunter'[x].master /\ x \notin misplaced' => hunter'[x].user = hunter'[x].guild
    BY <1>1, <1>3, <2>1, <2>4 DEF SameRow
  <2>5. ASSUME NEW x \in Hunters, NEW y \in Hunters, x # y, Exists(x)', Exists(y)',
               hunter'[x].user = hunter'[y].user
        PROVE  hunter'[x].user = NoUser
    BY <2>2, <2>3, <2>5
  <2> QED BY <2>4, <2>5 DEF MasterInv
<1> QED BY <1>2, <1>3, RowAfter

\* A guild's master belongs to the account that owns the guild, and is the only one, except
\* for hunters made masters after an invite had moved them.
THEOREM MastersAreOwners == Spec => []MastersOwnTheirGuild
<1>1. Init => TypeInv /\ MasterInv
  BY TypeInit DEF Init, MasterInv, Exists
<1>2. TypeInv /\ MasterInv /\ [Next]_vars => (TypeInv /\ MasterInv)'
  BY TypeStep, MasterStep
<1>3. MasterInv => MastersOwnTheirGuild
  BY DEF MasterInv, MastersOwnTheirGuild, HuntersOf
<1> QED BY <1>1, <1>2, <1>3, PTL DEF Spec

-------------------------------------------------------------------------------
(* PINs.                                                                   *)

\* A row that is written keeps its guild and its PIN, or its PIN is checked.
LEMMA PinStep == TypeInv /\ PinsDistinct /\ [Next]_vars => PinsDistinct'
<1> SUFFICES ASSUME TypeInv, PinsDistinct, [Next]_vars PROVE PinsDistinct'
  OBVIOUS
<1>0. pinRace \subseteq pinRace' /\ crowded \subseteq crowded'
  BY HistoryGrows
<1>1. CASE \A x \in Hunters : SameRow(x)
  <2>1. \A g \in Users : HuntersOf(g)' = HuntersOf(g)
    BY <1>1 DEF HuntersOf, Exists, SameRow
  <2>2. \A x \in Hunters : hunter'[x].pin = hunter[x].pin
    BY <1>1 DEF SameRow
  <2>3. \A g \in Users : HuntersOf(g) \subseteq Hunters
    BY DEF HuntersOf
  <2> QED BY <1>0, <2>1, <2>2, <2>3 DEF PinsDistinct
<1>2. ASSUME NEW h \in Hunters, \A x \in Hunters \ {h} : SameRow(x),
             Created(h) \/ MasterNow(h) \/ PinNow(h) \/ Moved(h)
      PROVE  PinsDistinct'
  <2>1. ASSUME NEW g \in Users, NEW x \in Hunters \ {h}, x \in HuntersOf(g)', h \in HuntersOf(g)',
               hunter'[x].pin = hunter'[h].pin
        PROVE  \/ x \in pinRace' \/ h \in pinRace'
               \/ hunter'[x].pin = LastPin /\ (x \in crowded' \/ h \in crowded')
    <3>1. hunter'[x] = hunter[x] /\ x \in HuntersOf(g) /\ hunter'[h].guild = g
      BY <1>2, <2>1 DEF HuntersOf, Exists, SameRow
    <3>2. CASE PinChecked(h)
      BY <2>1, <3>1, <3>2 DEF PinChecked
    <3>3. CASE MasterNow(h)
      <4>1. h \in HuntersOf(g) /\ hunter'[h].pin = hunter[h].pin
        BY <3>1, <3>3 DEF HuntersOf, MasterNow
      <4> QED BY <1>0, <2>1, <3>1, <4>1 DEF PinsDistinct
    <3> QED BY <1>2, <3>2, <3>3 DEF Created, PinNow, Moved
  <2>2. ASSUME NEW g \in Users, NEW x \in Hunters \ {h}, NEW y \in Hunters \ {h},
               x \in HuntersOf(g)', y \in HuntersOf(g)', x # y, hunter'[x].pin = hunter'[y].pin
        PROVE  \/ x \in pinRace' \/ y \in pinRace'
               \/ hunter'[x].pin = LastPin /\ (x \in crowded' \/ y \in crowded')
    <3>1. x \in HuntersOf(g) /\ y \in HuntersOf(g) /\ hunter[x].pin = hunter[y].pin
          /\ hunter'[x].pin = hunter[x].pin
      BY <1>2, <2>2 DEF HuntersOf, Exists, SameRow
    <3> QED BY <1>0, <2>2, <3>1 DEF PinsDistinct
  <2>3. \A g \in Users : HuntersOf(g)' \subseteq Hunters
    BY DEF HuntersOf
  <2> QED BY <2>1, <2>2, <2>3 DEF PinsDistinct
<1> QED BY <1>1, <1>2, RowAfter

\* Hunters of a guild have different PINs, unless one was raced or was given LastPin when
\* no PIN was left (pick_available_pin_for_guild, generate_available_pin).
THEOREM PinsDiffer == Spec => []PinsDistinct
<1>1. Init => TypeInv /\ PinsDistinct
  BY TypeInit DEF Init, PinsDistinct, HuntersOf, Exists
<1>2. TypeInv /\ PinsDistinct /\ [Next]_vars => (TypeInv /\ PinsDistinct)'
  BY TypeStep, PinStep
<1> QED BY <1>1, <1>2, PTL DEF Spec

-------------------------------------------------------------------------------
(* Moves.                                                                  *)

\* Only the answer to an invite changes a hunter's guild, and its trace stays.
LEMMA MoveStep == TypeInv /\ InvitesExplainMoves /\ [Next]_vars => InvitesExplainMoves'
<1> SUFFICES ASSUME TypeInv, InvitesExplainMoves, [Next]_vars, NEW h \in Hunters,
                    Exists(h)', hunter'[h].guild # home'[h]
             PROVE  \E i \in Invites :
                      /\ invite'[i] # NoRow
                      /\ invite'[i].hunter = h /\ invite'[i].guild = hunter'[h].guild
                      /\ invite'[i].status = "accepted" \/ i \in answeredTwice'
  BY DEF InvitesExplainMoves
<1>1. ASSUME Exists(h), hunter'[h].guild = hunter[h].guild, home'[h] = home[h]
      PROVE  \E i \in Invites :
               /\ invite'[i] # NoRow
               /\ invite'[i].hunter = h /\ invite'[i].guild = hunter'[h].guild
               /\ invite'[i].status = "accepted" \/ i \in answeredTwice'
  <2>1. PICK i \in Invites : /\ invite[i] # NoRow
                             /\ invite[i].hunter = h /\ invite[i].guild = hunter[h].guild
                             /\ invite[i].status = "accepted" \/ i \in answeredTwice
    BY <1>1 DEF InvitesExplainMoves
  <2>2. invite'[i] # NoRow
    BY <2>1, InvitesStand, NoRowAssumption
  <2>3. invite'[i].status = "accepted" \/ i \in answeredTwice'
    BY <2>1, InvitesStand, HistoryGrows
  <2> QED BY <1>1, <2>1, <2>2, <2>3, InvitesStand
<1>2. CASE SameRow(h)
  BY <1>1, <1>2 DEF Exists, SameRow
<1>3. CASE Created(h)
  BY <1>3 DEF Created
<1>4. CASE Moved(h)
  <2>1. PICK i \in Invites : /\ invite[i] # NoRow /\ invite[i].hunter = h
                             /\ invite[i].guild = hunter'[h].guild
                             /\ invite' = [invite EXCEPT ![i].status = "accepted"]
    BY <1>4 DEF Moved
  <2>2. invite[i] \in Invite
    BY <2>1, RowTypes DEF TypeInv
  <2>3. invite'[i] = [invite[i] EXCEPT !.status = "accepted"]
    BY <2>1 DEF TypeInv, Types
  <2>4. invite'[i].status = "accepted"
    BY <2>2, <2>3 DEF Invite
  <2>5. invite'[i] # NoRow /\ invite'[i].hunter = h /\ invite'[i].guild = hunter'[h].guild
    BY <2>1, InvitesStand, NoRowAssumption
  <2> QED BY <2>4, <2>5
<1>5. CASE MasterNow(h) \/ PinNow(h)
  BY <1>1, <1>5 DEF MasterNow, PinNow
<1>6. SameRow(h) \/ Created(h) \/ MasterNow(h) \/ PinNow(h) \/ Moved(h)
  BY RowAfter
<1> QED BY <1>2, <1>3, <1>4, <1>5, <1>6

\* Who is in another guild than the one it was created in has accepted that guild's invite.
THEOREM MovesAreInvited == Spec => []InvitesExplainMoves
<1>1. Init => TypeInv /\ InvitesExplainMoves
  BY TypeInit DEF Init, InvitesExplainMoves, Exists
<1>2. TypeInv /\ InvitesExplainMoves /\ [Next]_vars => (TypeInv /\ InvitesExplainMoves)'
  BY TypeStep, MoveStep
<1> QED BY <1>1, <1>2, PTL DEF Spec
===============================================================================
