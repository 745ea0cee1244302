-------------------------------- MODULE Server ---------------------------------
(***************************************************************************)
(* Server processes over one database: a process migrates and serves, may  *)
(* stop at any moment and be started again, and an operator runs the       *)
(* migration command beside them (main.rs, config.rs, migration/main.rs).  *)
(* A serving process answers logins behind its throttle and registers      *)
(* guilds (auth.rs).                                                       *)
(***************************************************************************)
EXTENDS Schema, Throttle, Handlers

CONSTANTS
  DeployedVersions,   \* versions an earlier release may have left the database at
  RollBackSteps,      \* how many migrations the operator may undo at once
  MaxRuns             \* bound: processes started and migration commands run

ASSUME ServerAssumption ==
  /\ DeployedVersions \subseteq {0} \union Versions
  /\ RollBackSteps \subseteq Nat
  /\ MaxRuns \in Nat

VARIABLES
  db,           \* the committed database
  mode,         \* each process: "down", "migrating" or "serving"
  pending,      \* the migrations a migrating process found not applied
  current,      \* history: the process serves after a migration that no roll-back followed
  runs          \* bound: what is left of MaxRuns

serverVars == <<db, mode, pending, current, runs>>

vars == <<db, mode, pending, current, runs, now, attempts, failed, task, left>>

(* The database an earlier release leaves behind *)

FirstGuild == CHOOSE g \in Guilds : TRUE

\* A guild with a member, whose PIN was stored as typed before version 8, and with an
\* owner's hunter since version 5.
Deployed(k) ==
  LET hashed == k >= 8
      owner  == Hunter(2, FirstGuild, TRUE, "master", 1, hashed)
      member == Hunter(1, FirstGuild, FALSE, IF k >= 5 THEN "member" ELSE NoRole, 0, hashed)
  IN [SchemaAt[k] EXCEPT
        !.guilds  = IF k >= 2 THEN {FirstGuild} ELSE {},
        !.hunters = IF k >= 5 THEN {owner, member} ELSE IF k >= 2 THEN {member} ELSE {}]

Init ==
  /\ \E k \in DeployedVersions : db = Deployed(k)
  /\ mode = [n \in Nodes |-> "down"]
  /\ pending = [n \in Nodes |-> {}]
  /\ current = [n \in Nodes |-> FALSE]
  /\ runs = MaxRuns
  /\ ThrottleInit
  /\ HandlersInit

(* Processes *)

Spend == runs > 0 /\ runs' = runs - 1

\* Migrator::up opens its transaction and reads seaql_migrations.
StartMigrating(n) ==
  /\ mode[n] = "down"
  /\ Spend
  /\ mode' = [mode EXCEPT ![n] = "migrating"]
  /\ pending' = [pending EXCEPT ![n] = Versions \ db.applied]
  /\ UNCHANGED <<db, current, throttleVars, handlerVars>>

\* It runs what was pending and commits, waiting for the locks of a transaction that
\* commits before it; if a migration fails the transaction is rolled back and main returns.
FinishMigrating(n) ==
  LET after == Migrated(db, pending[n])
  IN /\ mode[n] = "migrating"
     /\ mode' = [mode EXCEPT ![n] = IF after.failed THEN "down" ELSE "serving"]
     /\ db' = IF after.failed THEN db ELSE after
     /\ current' = [current EXCEPT ![n] = ~after.failed]
     /\ pending' = [pending EXCEPT ![n] = {}]
     /\ UNCHANGED <<runs, throttleVars, handlerVars>>

\* AUTO_MIGRATE is off: the process serves whatever schema it finds.
ServeUnmigrated(n) ==
  /\ mode[n] = "down"
  /\ Spend
  /\ mode' = [mode EXCEPT ![n] = "serving"]
  /\ current' = [current EXCEPT ![n] = FALSE]
  /\ UNCHANGED <<db, pending, throttleVars, handlerVars>>

\* The process ends: its requests and its throttle with it, its transaction rolled back.
Stop(n) ==
  /\ mode[n] # "down"
  /\ mode' = [mode EXCEPT ![n] = "down"]
  /\ current' = [current EXCEPT ![n] = FALSE]
  /\ pending' = [pending EXCEPT ![n] = {}]
  /\ ForgetAttempts(n)
  /\ task' = [s \in Slots |-> IF task[s] # Idle /\ task[s].node = n THEN Idle ELSE task[s]]
  /\ UNCHANGED <<db, runs, left>>

\* `migration up`: every pending migration, in one transaction.
OperatorUp ==
  LET after == Migrated(db, Versions \ db.applied)
  IN /\ Spend
     /\ db' = IF after.failed THEN db ELSE after
     /\ UNCHANGED <<mode, pending, current, throttleVars, handlerVars>>

\* `migration down -n k`, which the operator runs while no process is migrating.
OperatorDown(k) ==
  LET after == RolledBack(db, k)
  IN /\ \A n \in Nodes : mode[n] # "migrating"
     /\ k <= Cardinality(db.applied)
     /\ Spend
     /\ db' = IF after.failed THEN db ELSE after
     /\ current' = [n \in Nodes |-> FALSE]
     /\ UNCHANGED <<mode, pending, throttleVars, handlerVars>>

(* Requests *)

Readable(d, entities) == \A e \in entities : Serves(d, e)

\* register_guild: the guild and its owner's hunter, whose PIN is stored hashed.
RegisterGuild(n, g) ==
  /\ mode[n] = "serving"
  /\ g \notin db.guilds
  /\ Readable(db, {UserEntity, GuildEntity, HunterEntity})
  /\ db' = [db EXCEPT
       !.guilds  = @ \union {g},
       !.hunters = @ \union {Hunter(Fresh(@), g, TRUE, "master", 0, TRUE)}]
  /\ UNCHANGED <<mode, pending, current, runs, throttleVars, handlerVars>>

\* unified_login: an account that is not blocked goes on to the check of its secret.
BeginLogin(s, n, a) ==
  /\ mode[n] = "serving"
  /\ BlockedSeconds(n, a) = 0
  /\ Begin(s, [at |-> "verify", node |-> n, account |-> a])
  /\ Look(n)
  /\ UNCHANGED serverVars

RefuseLogin(s, n, a) ==
  /\ mode[n] = "serving"
  /\ BlockedSeconds(n, a) > 0
  /\ Once(s)
  /\ Look(n)
  /\ UNCHANGED serverVars

LoginReads == {UserEntity, GuildEntity, HunterEntity}

LoginSucceeds(s) ==
  /\ At(s, "verify")
  /\ Readable(db, LoginReads)
  /\ RecordSuccess(task[s].node, task[s].account)
  /\ Answer(s)
  /\ UNCHANGED serverVars

LoginUnauthorized(s) ==
  /\ At(s, "verify")
  /\ Readable(db, LoginReads)
  /\ RecordFailure(task[s].node, task[s].account)
  /\ Answer(s)
  /\ UNCHANGED serverVars

\* A database error is not Unauthorized and is not counted; so is a dropped request.
LoginBreaksOff(s) ==
  /\ Abandon(s)
  /\ UNCHANGED <<serverVars, throttleVars>>

Passes == Tick /\ UNCHANGED <<serverVars, handlerVars>>

Next ==
  \/ \E n \in Nodes : StartMigrating(n) \/ FinishMigrating(n) \/ ServeUnmigrated(n) \/ Stop(n)
  \/ OperatorUp
  \/ \E k \in RollBackSteps : OperatorDown(k)
  \/ \E n \in Nodes, g \in Guilds : RegisterGuild(n, g)
  \/ \E s \in Slots, n \in Nodes, a \in Accounts : BeginLogin(s, n, a) \/ RefuseLogin(s, n, a)
  \/ \E s \in Slots : LoginSucceeds(s) \/ LoginUnauthorized(s) \/ LoginBreaksOff(s)
  \/ Passes

Spec == Init /\ [][Next]_vars

(* Properties *)

\* The list of applied migrations explains the schema: it is a prefix of the migrations, and
\* the tables, columns, indexes, foreign keys and types are those the prefix builds from
\* nothing, however processes that boot at once, failures and roll-backs have interleaved.
HistoryExplainsSchema ==
  \E k \in {0} \union Versions :
    db.applied = 1..k /\ db.catalogue = SchemaAt[k].catalogue

OwnersHaveHunters(d) ==
  \A g \in d.guilds :
    Cardinality({h \in d.hunters : h.guild = g /\ h.owner /\ h.role = "master"}) = 1

PinsAreHashed(d) == \A h \in d.hunters : h.hashed

\* A process that migrated when it started, and that no roll-back has overtaken, serves a
\* database with every column and foreign key its entities name, in which every guild's owner
\* has one hunter, its master, and every PIN is a hash.
ServesWhatItNeeds ==
  (\E n \in Nodes : mode[n] = "serving" /\ current[n]) =>
    Readable(db, Entities) /\ OwnersHaveHunters(db) /\ PinsAreHashed(db)

\* A login that a process lets through does not fall into the lock that the failures it has
\* counted by then call for: only logins let through before the last of them may still follow.
LocksAreServed ==
  [][\A s \in Slots :
       task[s] = Idle /\ task'[s] # Idle => ~Deserved(task'[s].node, task'[s].account)]_vars
===============================================================================
