----------------------------- MODULE ServerStart -----------------------------
(***************************************************************************)
(* The start of the server: the world configuration, the admin interface,  *)
(* the database and the TLS identity as they are configured, the listeners *)
(* and the creatures of the world, and the creatures' first ticks.         *)
(* Places and directions are left out: they are what the physics makes of  *)
(* the velocities wander_ai writes.                                         *)
(***************************************************************************)
EXTENDS Naturals, Sequences

CONSTANTS
  Worlds,       \* world configurations a program may be built with
  MinTicks, MaxTicks,   \* DIRECTION_CHANGE_MIN_TICKS and _MAX_TICKS
  None

\* A position or a centre is "inside" the arena or not.
ResourceConfigs ==
  [id : Nat, count : Nat, yield : Nat, respawn : Nat, inside : Seq(BOOLEAN)]
CreatureConfigs == [id : Nat, radius : Nat, inside : BOOLEAN]

ASSUME ServerStartAssumption ==
  /\ Worlds \subseteq [resources : Seq(ResourceConfigs), creatures : Seq(CreatureConfigs)]
  /\ None \notin Worlds /\ None \notin {"self-signed", "production"}
  /\ MinTicks \in Nat /\ MaxTicks \in Nat /\ MinTicks <= MaxTicks

Certificates == {"absent", "no certificate", "broken", "good"}
PrivateKeys == {"absent", "none", "pkcs1", "pkcs8"}

\* What an operator may have configured, by a field of the configuration or by the
\* environment variable behind it.
Settings ==
  [adminUser : BOOLEAN, adminHash : {None, "malformed", "argon2"},
   database : {None, "unreachable", "sqlite"},
   cert : Certificates \cup {None}, key : PrivateKeys \cup {None}]

VARIABLES
  step,        \* where the start is; "failed" after a panic
  settings,
  asset,       \* the embedded world.ron
  world,       \* WorldConfigResource
  admin,       \* the admin thread runs
  database,    \* PersistenceResource exists
  identity,    \* TlsIdentity
  listening,   \* the listeners started
  nodes,       \* resource nodes spawned, for each resource
  startup,     \* systems of PostStartup still to come
  spawning,    \* creatures whose spawn is still a command
  creatures    \* creature entities: [id, physical, cooldown]

given == <<settings, asset>>
serverStart == <<step, given, world, admin, database, identity, listening, nodes,
                 startup, spawning, creatures>>

Distinct(list) == \A i, j \in DOMAIN list : list[i].id = list[j].id => i = j

ValidResource(r) ==
  /\ r.count # 0 /\ r.yield # 0 /\ r.respawn # 0
  /\ r.count = Len(r.inside)
  /\ \A i \in DOMAIN r.inside : r.inside[i]

ValidCreature(c) == c.radius # 0 /\ c.inside

\* WorldConfig::validate
Valid(w) ==
  /\ Distinct(w.resources) /\ Distinct(w.creatures)
  /\ \A i \in DOMAIN w.resources : ValidResource(w.resources[i])
  /\ \A i \in DOMAIN w.creatures : ValidCreature(w.creatures[i])

ServerStartInit ==
  /\ step = "logic" /\ settings \in Settings /\ asset \in Worlds
  /\ world = None /\ admin = FALSE /\ database = FALSE /\ identity = None
  /\ listening = FALSE /\ nodes = <<>> /\ startup = {} /\ spawning = <<>> /\ creatures = <<>>

\* A configuration that does not parse is only logged.
BuildGameLogic ==
  /\ step = "logic" /\ step' = "admin"
  /\ world' = IF Valid(asset) THEN asset ELSE None
  /\ UNCHANGED <<given, admin, database, identity, listening, nodes, startup, spawning,
                 creatures>>

BuildAdminApi ==
  /\ step = "admin" /\ step' = "database"
  /\ admin' = (settings.adminUser /\ settings.adminHash = "argon2")
  /\ UNCHANGED <<given, world, database, identity, listening, nodes, startup, spawning,
                 creatures>>

\* A database that cannot be opened or migrated is only logged.
SpawnPersistence ==
  /\ step = "database" /\ step' = "tls"
  /\ database' = (settings.database = "sqlite")
  /\ UNCHANGED <<given, world, admin, identity, listening, nodes, startup, spawning,
                 creatures>>

\* Both files, or a certificate the server signs itself.
LoadTlsIdentity ==
  /\ step = "tls"
  /\ \/ /\ settings.cert = None \/ settings.key = None
        /\ identity' = "self-signed" /\ step' = "startup"
     \/ /\ settings.cert = "good" /\ settings.key = "pkcs8"
        /\ identity' = "production" /\ step' = "startup"
     \/ /\ None \notin {settings.cert, settings.key}
        /\ settings.cert # "good" \/ settings.key # "pkcs8"
        /\ step' = "failed" /\ UNCHANGED identity
  /\ startup' = {"setup_world", "spawn_resource_nodes", "setup_server"}
  /\ UNCHANGED <<given, world, admin, database, listening, nodes, spawning, creatures>>

\* pick_new_direction: the ticks until a creature picks its next direction.  The
\* generator divides 31 random bits by the largest 32-bit number: it stops at a half.
\* Mutant: the generator goes past the range.
DirectionTicksBeyond == MinTicks..(MaxTicks + 1)
DirectionTicks == MinTicks..(MinTicks + (MaxTicks - MinTicks) \div 2)

Runs(system) ==
  /\ step = "startup" /\ system \in startup
  /\ startup' = startup \ {system}

\* The creatures are spawned by commands, so the query for the creatures added finds
\* those of earlier frames: none.
SetupWorld ==
  /\ Runs("setup_world")
  /\ spawning' = IF world = None THEN <<>> ELSE world.creatures
  /\ creatures' = [i \in DOMAIN creatures |-> [creatures[i] EXCEPT !.physical = TRUE]]
  /\ UNCHANGED <<step, given, world, admin, database, identity, listening, nodes>>

\* A missing configuration is a missing resource: the system's parameters panic.
SpawnResourceNodes ==
  /\ Runs("spawn_resource_nodes")
  /\ IF world = None THEN step' = "failed" /\ UNCHANGED nodes
     ELSE /\ nodes' = [r \in DOMAIN world.resources |-> Len(world.resources[r].inside)]
          /\ UNCHANGED step
  /\ UNCHANGED <<given, world, admin, database, identity, listening, spawning, creatures>>

SetupServer ==
  /\ Runs("setup_server")
  /\ listening' = TRUE
  /\ UNCHANGED <<step, given, world, admin, database, identity, nodes, spawning,
                 creatures>>

\* The commands of the systems are applied: the creatures appear, each with its first
\* direction picked.
Spawn ==
  /\ step = "startup" /\ startup = {} /\ step' = "running"
  /\ \E ticks \in [DOMAIN spawning -> DirectionTicks] :
       creatures' = creatures \o
         [i \in DOMAIN spawning |-> [id |-> spawning[i].id, physical |-> FALSE,
                                     cooldown |-> ticks[i]]]
  /\ spawning' = <<>>
  /\ UNCHANGED <<given, world, admin, database, identity, listening, nodes, startup>>

\* Every creature with a velocity counts down to a new direction.
WanderAi ==
  /\ step = "running"
  /\ \E ticks \in [DOMAIN creatures -> DirectionTicks] :
       creatures' = [i \in DOMAIN creatures |->
         [creatures[i] EXCEPT !.cooldown =
            IF ~creatures[i].physical THEN @ ELSE IF @ > 0 THEN @ - 1 ELSE ticks[i]]]
  /\ UNCHANGED <<step, given, world, admin, database, identity, listening, nodes,
                 startup, spawning>>

ServerStartNext ==
  \/ BuildGameLogic \/ BuildAdminApi \/ SpawnPersistence \/ LoadTlsIdentity
  \/ SetupWorld \/ SpawnResourceNodes \/ SetupServer \/ Spawn \/ WanderAi

ServerStartSpec == ServerStartInit /\ [][ServerStartNext]_serverStart

-----------------------------------------------------------------------------
ServerStartTypeOK ==
  /\ step \in {"logic", "admin", "database", "tls", "startup", "running", "failed"}
  /\ settings \in Settings
  /\ world \in {None, asset} /\ nodes \in Seq(Nat)
  /\ {admin, database, listening} \subseteq BOOLEAN
  /\ identity \in {None, "self-signed", "production"}
  /\ creatures \in Seq([id : Nat, physical : BOOLEAN, cooldown : 0..MaxTicks])

\* A server that runs has started whole: the world is the embedded one and it is valid,
\* every resource has its nodes and every creature its entity, in the order of the
\* configuration, and it listens with an identity.
StartsWhole ==
  step = "running" =>
    /\ world = asset /\ Valid(world)
    /\ nodes = [r \in DOMAIN world.resources |-> world.resources[r].count]
    /\ [i \in DOMAIN creatures |-> creatures[i].id]
         = [i \in DOMAIN world.creatures |-> world.creatures[i].id]
    /\ listening /\ identity # None

\* "We add colliders here so that Avian sees them before the first physics tick": when
\* the ticks begin every creature has its rigid body, and with it the velocity that
\* wander_ai writes.
CreaturesHaveBodies ==
  step = "running" => \A i \in DOMAIN creatures : creatures[i].physical
=============================================================================
