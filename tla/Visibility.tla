------------------------------ MODULE Visibility ------------------------------
(***************************************************************************)
(* Spatial interest management, game_server/src/systems/visibility.rs: a   *)
(* few times a second every client is told which entities it sees, and a   *)
(* cache of what it was told saves repeating it.  Distances are abstracted *)
(* to whether an entity is in sight of a client's player.                  *)
(***************************************************************************)
EXTENDS Naturals, FiniteSets

CONSTANTS
  Watcher,        \* client links
  Thing,          \* entities clients may see, their own players among them
  OwnThing,       \* the player entity each client controls
  TickInterval    \* tick_interval

ASSUME VisibilityAssumption ==
  /\ OwnThing \in [Watcher -> Thing]
  /\ TickInterval \in Nat \ {0}

VARIABLES
  counter,     \* InterestSettings.counter, modulo tick_interval
  watching,    \* per link: "away", "bodiless" or "playing"
  here,        \* the entities that exist
  inSight,     \* pairs of a client and an entity in SIGHT_RANGE of its player
  cache,       \* VisibilityCache: pairs to what the backend was told last
  visible      \* pairs the replication backend shows

visibility == <<counter, watching, here, inSight, cache, visible>>

Pairs == Watcher \X Thing

VisibilityInit ==
  /\ counter = 0
  /\ watching = [w \in Watcher |-> "away"]
  /\ here = {}
  /\ inSight = {} /\ visible = {}
  /\ cache = [p \in {} |-> FALSE]

\* Entities are never used twice: a name of the model that has been used stands for a
\* new entity only when nothing is remembered of the old one.
NewLink(w) == \A t \in Thing : <<w, t>> \notin DOMAIN cache
NewThing(t) == t \notin here /\ \A w \in Watcher : <<w, t>> \notin DOMAIN cache

\* A client authenticates: its player entity appears.
Watch(w) ==
  /\ watching[w] = "away" /\ NewLink(w) /\ NewThing(OwnThing[w])
  /\ watching' = [watching EXCEPT ![w] = "playing"]
  /\ here' = here \cup {OwnThing[w]}
  /\ UNCHANGED <<counter, inSight, cache, visible>>

\* A creature, a resource node or a decoration appears.
Appear(t) ==
  /\ NewThing(t) /\ \A w \in Watcher : t # OwnThing[w]
  /\ here' = here \cup {t}
  /\ UNCHANGED <<counter, watching, inSight, cache, visible>>

\* An entity goes, and with it what the backend knows of it.  The player of a client
\* may go before the client does.
Vanish(t) ==
  /\ t \in here
  /\ here' = here \ {t}
  /\ inSight' = {p \in inSight : p[2] # t}
  /\ visible' = {p \in visible : p[2] # t}
  /\ watching' = [w \in Watcher |-> IF OwnThing[w] = t /\ watching[w] = "playing"
                                    THEN "bodiless" ELSE watching[w]]
  /\ UNCHANGED <<counter, cache>>

Unwatch(w) ==
  /\ watching[w] # "away"
  /\ watching' = [watching EXCEPT ![w] = "away"]
  /\ inSight' = {p \in inSight : p[1] # w}
  /\ visible' = {p \in visible : p[1] # w}
  /\ UNCHANGED <<counter, here, cache>>

\* Something walks into sight of a player, or out of it.
Walk(w, t) ==
  /\ watching[w] = "playing" /\ t \in here
  /\ inSight' = IF <<w, t>> \in inSight THEN inSight \ {<<w, t>>} ELSE inSight \cup {<<w, t>>}
  /\ UNCHANGED <<counter, watching, here, cache, visible>>

SeesNow(w, t) == t = OwnThing[w] \/ <<w, t>> \in inSight

\* The pairs of an update: every client with a player entity, every entity.
Considered == {p \in Pairs : watching[p[1]] = "playing" /\ p[2] \in here}

\* set_visibility: the backend is told what the cache does not hold already.
\* Mutant: what the cache holds is never told again.
ToldOnce == {p \in Considered : p \notin DOMAIN cache}
Told == {p \in Considered : p \notin DOMAIN cache \/ cache[p] # SeesNow(p[1], p[2])}
SetVisibility ==
  visible' = {p \in visible : p \notin Told} \cup {p \in Told : SeesNow(p[1], p[2])}

\* Entries of clients that are gone are dropped; those of entities that are gone stay.
CacheAfter ==
  [p \in {q \in DOMAIN cache \cup Told : watching[q[1]] # "away"} |->
     IF p \in Told THEN SeesNow(p[1], p[2]) ELSE cache[p]]

UpdateSpatialVisibility ==
  /\ counter' = (counter + 1) % TickInterval
  /\ IF counter' = 0 THEN SetVisibility /\ cache' = CacheAfter
     ELSE UNCHANGED <<cache, visible>>
  /\ UNCHANGED <<watching, here, inSight>>

VisibilityNext ==
  \/ UpdateSpatialVisibility
  \/ \E w \in Watcher : Watch(w) \/ Unwatch(w) \/ \E t \in Thing : Walk(w, t)
  \/ \E t \in Thing : Appear(t) \/ Vanish(t)

VisibilitySpec == VisibilityInit /\ [][VisibilityNext]_visibility

-----------------------------------------------------------------------------
VisibilityTypeOK ==
  /\ counter \in 0..(TickInterval - 1)
  /\ watching \in [Watcher -> {"away", "bodiless", "playing"}]
  /\ here \subseteq Thing /\ inSight \subseteq Pairs /\ visible \subseteq Pairs
  /\ DOMAIN cache \subseteq Pairs

\* After an update every client is shown exactly what is in sight of its player and
\* the player itself, whatever the cache has made the update skip.
UpdateShowsWhatIsInSight ==
  [][counter' = 0 /\ counter # counter' =>
       \A w \in Watcher, t \in Thing :
         watching[w] = "playing" /\ t \in here => (<<w, t>> \in visible' <=> SeesNow(w, t))
    ]_visibility
=============================================================================
