------------------------------- MODULE Loading -------------------------------
(***************************************************************************)
(* The loading screen: the world configuration becomes a queue of models   *)
(* and animations, which are loaded one at a time; the first failure stops  *)
(* the queue; when all are there the typed resources of the game are made   *)
(* from the same paths and the menu opens.                                  *)
(***************************************************************************)
EXTENDS Naturals, Sequences

CONSTANTS
  ArenaModels,    \* paths of the arena's models, as a sequence
  FoxPaths,       \* the fox's rig and its animations, as a sequence
  WorldFiles,     \* parsed world.ron: [resources, creatures] of paths and kinds
  Invalid         \* a world.ron that does not parse

Kinds == {"Fluffball", "Glimmerwing"}    \* CreatureKind: those the game draws

ASSUME LoadingAssumption ==
  /\ ArenaModels \in Seq(STRING) /\ FoxPaths \in Seq(STRING) /\ FoxPaths # <<>>
  /\ \A c \in WorldFiles :
       /\ c.resources \in Seq(STRING)
       /\ c.creatures \in Seq([kind : Kinds, path : STRING])
  /\ Invalid \notin WorldFiles

VARIABLES
  world,      \* WorldConfigResource, or Invalid
  appFlow,    \* AppFlow
  entered,    \* systems of OnEnter(Loading) that have run
  queue,      \* SeqLoader.queue: paths still to load
  active,     \* SeqLoader.active, as a sequence of at most one path
  completed,  \* SeqLoader.completed: paths whose handles it keeps
  total,      \* SeqLoader.total
  failing,    \* SeqLoader.failing_path is set
  loadError,  \* LoadingError: "none" or what it says
  asset,      \* load state at the asset server of the paths ever requested
  typed,      \* paths in ArenaAssets, CreatureAssets, FoxAssets
  text        \* what the loading screen says

loader == <<queue, active, completed, total, failing>>
loadingVars == <<world, appFlow, entered, loader, loadError, asset, typed, text>>

Elements(s) == {s[i] : i \in DOMAIN s}
Paths(creatures) == [i \in DOMAIN creatures |-> creatures[i].path]

\* Mutant: the creatures' models are not queued.
FromResources(c) == ArenaModels \o <<FoxPaths[1]>> \o c.resources \o Tail(FoxPaths)
FromConfig(c) == ArenaModels \o <<FoxPaths[1]>> \o c.resources \o Paths(c.creatures)
                   \o Tail(FoxPaths)

LoadingInit ==
  /\ world \in WorldFiles \cup {Invalid}
  /\ appFlow = "Loading" /\ entered = 0
  /\ queue = <<>> /\ active = <<>> /\ completed = <<>> /\ total = 0 /\ failing = FALSE
  /\ loadError = "none" /\ asset = [p \in {} |-> "loading"] /\ typed = {}
  /\ text = "preparing"

Enters(n) == appFlow = "Loading" /\ entered = n /\ entered' = n + 1

\* The first system parses the file, the second makes the queue: without a
\* configuration it replaces the error of the first by its own.
LoadWorldConfig ==
  /\ Enters(0)
  /\ loadError' = IF world = Invalid THEN "does not parse" ELSE loadError
  /\ UNCHANGED <<world, appFlow, loader, asset, typed, text>>

CreateLoadingQueue ==
  /\ Enters(1)
  /\ IF world = Invalid
     THEN loadError' = "not parsed before the queue" /\ UNCHANGED loader
     ELSE /\ queue' = FromConfig(world) /\ total' = Len(queue')
          /\ UNCHANGED <<active, completed, failing, loadError>>
  /\ UNCHANGED <<world, appFlow, asset, typed, text>>

HasLoader == entered = 2 /\ world # Invalid /\ appFlow = "Loading"

\* A path that is requested again while its handle is kept does not load again.
Requested(paths) ==
  [p \in DOMAIN asset \cup paths |->
     IF p \in DOMAIN asset /\ asset[p] # "failed" THEN asset[p] ELSE "loading"]

\* Nothing to poll, or the active load is there: the next one starts.
TryStartNext ==
  /\ queue # <<>>
  /\ active' = <<Head(queue)>> /\ queue' = Tail(queue)
  /\ asset' = Requested({Head(queue)})
  /\ UNCHANGED <<appFlow, total, failing, loadError, typed>>

PathsOfKind(k) ==
  {world.creatures[i].path : i \in {j \in DOMAIN world.creatures :
     world.creatures[j].kind = k /\ \A h \in 1..(j - 1) : world.creatures[h].kind # k}}

\* The queue is done: a kind without a creature stops here, otherwise the game's
\* resources are made and the menu opens.
Finalize ==
  /\ queue = <<>> /\ Len(completed') = total
  /\ active' = <<>>
  /\ IF \E k \in Kinds : PathsOfKind(k) = {}
     THEN /\ failing' = TRUE /\ loadError' = "creature not found"
          /\ UNCHANGED <<appFlow, asset, typed>>
     ELSE /\ typed' = Elements(ArenaModels) \cup Elements(FoxPaths)
                        \cup UNION {PathsOfKind(k) : k \in Kinds}
          /\ asset' = Requested(typed')
          /\ appFlow' = "Menu"
          /\ UNCHANGED <<failing, loadError>>
  /\ UNCHANGED <<queue, total>>

\* poll_active finds the load there or failed; without one there is nothing to find.
ActiveLoaded ==
  /\ \A p \in Elements(active) : asset[p] = "loaded"
  /\ completed' = completed \o active

ActiveFails ==
  /\ \E p \in Elements(active) : asset[p] = "failed"
  /\ active' = <<>> /\ failing' = TRUE
  /\ UNCHANGED <<appFlow, queue, completed, total, loadError, asset, typed>>

\* One frame: poll the active load, then start the next or finalize.
PollAndFinalize ==
  /\ HasLoader /\ ~failing
  /\ (ActiveLoaded /\ (TryStartNext \/ Finalize)) \/ ActiveFails
  /\ UNCHANGED <<world, entered, text>>

UpdateLoadingProgress ==
  /\ appFlow = "Loading" /\ entered = 2
  /\ text' = IF loadError # "none" THEN loadError
             ELSE IF failing THEN "failed to load" ELSE "loading"
  /\ UNCHANGED <<world, appFlow, entered, loader, loadError, asset, typed>>

\* The asset server: a load ends.
LoadEnds ==
  /\ \E p \in DOMAIN asset, outcome \in {"loaded", "failed"} :
       /\ asset[p] = "loading"
       /\ asset' = [asset EXCEPT ![p] = outcome]
  /\ UNCHANGED <<world, appFlow, entered, loader, loadError, typed, text>>

LoadingNext ==
  \/ LoadWorldConfig \/ CreateLoadingQueue
  \/ PollAndFinalize \/ UpdateLoadingProgress \/ LoadEnds

\* Frames go on, and every load ends one way or the other.
LoadingFairness ==
  /\ WF_loadingVars(LoadWorldConfig) /\ WF_loadingVars(CreateLoadingQueue)
  /\ WF_loadingVars(PollAndFinalize) /\ WF_loadingVars(UpdateLoadingProgress)
  /\ WF_loadingVars(LoadEnds)

LoadingSpec == LoadingInit /\ [][LoadingNext]_loadingVars /\ LoadingFairness

-----------------------------------------------------------------------------
LoadingTypeOK ==
  /\ world \in WorldFiles \cup {Invalid} /\ appFlow \in {"Loading", "Menu"}
  /\ entered \in 0..2 /\ queue \in Seq(STRING)
  /\ active \in Seq(STRING) /\ Len(active) <= 1
  /\ completed \in Seq(STRING) /\ total \in Nat /\ failing \in BOOLEAN
  /\ \A p \in DOMAIN asset : asset[p] \in {"loading", "loaded", "failed"}
  /\ loadError \in {"none", "does not parse", "not parsed before the queue",
                    "creature not found"}
  /\ text \in {"preparing", "loading", "failed to load", "does not parse",
               "not parsed before the queue", "creature not found"}

\* "so no cold second wave occurs": in the menu every asset the game uses is there.
NoSecondWave ==
  appFlow = "Menu" => typed # {} /\ \A p \in typed : p \in DOMAIN asset /\ asset[p] = "loaded"

\* The loader drops nothing and loads nothing twice: what is done, what is being loaded
\* and what is to come are the configuration's paths, in their order; what is done is
\* there, and what is being loaded was asked for.
NothingForgotten ==
  HasLoader /\ ~failing =>
    /\ completed \o active \o queue = FromConfig(world)
    /\ total = Len(FromConfig(world))
    /\ \A p \in Elements(completed) : p \in DOMAIN asset /\ asset[p] = "loaded"
    /\ Elements(active) \subseteq DOMAIN asset

\* Once it has started, loading never hangs: it ends in the menu, with every asset the
\* game uses loaded "so no cold second wave occurs", or with the problem on the screen
\* for good.
LoadingSettles ==
  <>(entered > 0) =>
    \/ <>[](appFlow = "Menu" /\ \A p \in typed : asset[p] = "loaded")
    \/ <>[](appFlow = "Loading" /\ text \notin {"preparing", "loading"})
=============================================================================
