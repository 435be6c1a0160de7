------------------------------- MODULE Housing -------------------------------
(***************************************************************************)
(* The housing plots of features/housing: a fixed number of plots, each    *)
(* shared by the players whose id maps to it, that a player may decorate   *)
(* and clear.  What stands on the plots is held twice, in the resource and *)
(* as entities of the world, and is shown to the clients in snapshots.     *)
(***************************************************************************)
EXTENDS Naturals, FiniteSets

CONSTANTS
  Resident,       \* player ids, numbers
  PlotCount,      \* HOUSING_PLOT_COUNT
  BuildTicks,     \* the half second between two attempts on a plot, in ticks
  Viewer,         \* client links
  Entities,       \* bound: decoration entities ever spawned
  Vacant, Absent

ASSUME HousingAssumption ==
  /\ Resident \subseteq Nat
  /\ PlotCount \in Nat \ {0}
  /\ BuildTicks \in Nat
  /\ Entities \in Nat
  /\ Vacant \notin Nat /\ Absent \notin Nat /\ Vacant # Absent

Plot == 0..(PlotCount - 1)

VARIABLES
  decorations,    \* who decorated each plot
  decorationOf,   \* the entity that stands there
  rest,           \* ticks until last_build_time is half a second ago
  spawned,        \* entities spawned so far, numbered
  standing,       \* decoration entities in the world: entity -> plot
  residentOf,     \* per link: Absent, Vacant before it authenticates, its player
  shown           \* the last snapshot each link was sent

housing == <<decorations, decorationOf, rest, spawned, standing, residentOf, shown>>

SlotForPlayer(p) == p % PlotCount

Snapshot(d) == [s \in {t \in Plot : d[t] # Vacant} |-> d[s]]

HousingInit ==
  /\ decorations = [s \in Plot |-> Vacant]
  /\ decorationOf = [s \in Plot |-> Vacant]
  /\ rest = [s \in Plot |-> BuildTicks]        \* the clock and all times start at zero
  /\ spawned = 0
  /\ standing = [e \in {} |-> 0]
  /\ residentOf = [v \in Viewer |-> Absent]
  /\ shown = [v \in Viewer |-> Vacant]

\* Links come and go; the plots stay as they are.
Arrive(v) ==
  /\ residentOf[v] = Absent
  /\ residentOf' = [residentOf EXCEPT ![v] = Vacant]
  /\ UNCHANGED <<decorations, decorationOf, rest, spawned, standing, shown>>

Depart(v) ==
  /\ residentOf[v] # Absent
  /\ residentOf' = [residentOf EXCEPT ![v] = Absent]
  /\ shown' = [shown EXCEPT ![v] = Vacant]
  /\ UNCHANGED <<decorations, decorationOf, rest, spawned, standing>>

\* A link that authenticates becomes a HousingPlayer; it is sent no snapshot.
AttachHousingPlayer(v) ==
  /\ residentOf[v] = Vacant
  /\ \E p \in Resident : residentOf' = [residentOf EXCEPT ![v] = p]
  /\ UNCHANGED <<decorations, decorationOf, rest, spawned, standing, shown>>

\* Every attempt that comes late enough restarts the wait, even one that is refused.
MayTry(v) == residentOf[v] \in Resident /\ rest[SlotForPlayer(residentOf[v])] = 0
Wait(s) == rest' = [rest EXCEPT ![s] = BuildTicks]

\* Mutant: the snapshot is taken before the change.
BroadcastTooEarly ==
  shown' = [v \in Viewer |-> IF residentOf[v] # Absent THEN Snapshot(decorations)
                             ELSE shown[v]]
BroadcastPlotSnapshot ==
  shown' = [v \in Viewer |-> IF residentOf[v] # Absent THEN Snapshot(decorations')
                             ELSE shown[v]]

HandlePlotBuildIntent(v) ==
  LET p == residentOf[v]
      s == SlotForPlayer(p)
      e == spawned + 1
  IN
  /\ MayTry(v) /\ Wait(s)
  /\ \/ /\ decorations[s] # Vacant
        /\ UNCHANGED <<decorations, decorationOf, spawned, standing, shown>>
     \/ /\ decorations[s] = Vacant
        /\ spawned < Entities /\ spawned' = e
        /\ decorations' = [decorations EXCEPT ![s] = p]
        /\ decorationOf' = [decorationOf EXCEPT ![s] = e]
        /\ standing' = [d \in DOMAIN standing \cup {e} |-> IF d = e THEN s ELSE standing[d]]
        /\ BroadcastPlotSnapshot
  /\ UNCHANGED residentOf

HandlePlotRemoveIntent(v) ==
  LET p == residentOf[v]
      s == SlotForPlayer(p)
  IN
  /\ MayTry(v) /\ Wait(s)
  /\ \/ /\ decorations[s] # p
        /\ UNCHANGED <<decorations, decorationOf, standing, shown>>
     \/ /\ decorations[s] = p
        /\ decorations' = [decorations EXCEPT ![s] = Vacant]
        /\ decorationOf' = [decorationOf EXCEPT ![s] = Vacant]
        /\ standing' = [d \in DOMAIN standing \ {decorationOf[s]} |-> standing[d]]
        /\ BroadcastPlotSnapshot
  /\ UNCHANGED <<residentOf, spawned>>

HousingTick ==
  /\ rest' = [s \in Plot |-> IF rest[s] > 0 THEN rest[s] - 1 ELSE 0]
  /\ UNCHANGED <<decorations, decorationOf, spawned, standing, residentOf, shown>>

HousingNext == HousingTick \/ \E v \in Viewer :
  Arrive(v) \/ Depart(v) \/ AttachHousingPlayer(v)
    \/ HandlePlotBuildIntent(v) \/ HandlePlotRemoveIntent(v)

HousingSpec == HousingInit /\ [][HousingNext]_housing

-----------------------------------------------------------------------------
HousingTypeOK ==
  /\ decorations \in [Plot -> Resident \cup {Vacant}]
  /\ decorationOf \in [Plot -> (1..Entities) \cup {Vacant}]
  /\ rest \in [Plot -> 0..BuildTicks]
  /\ spawned \in 0..Entities
  /\ DOMAIN standing \subseteq 1..spawned
  /\ residentOf \in [Viewer -> Resident \cup {Vacant, Absent}]

\* What the resource says of the plots is what stands in the world, one decoration on
\* each plot that is taken and none elsewhere, and the players whose id maps to it;
\* and every client that has been sent a snapshot was sent one of the plots as
\* they are now.
PlotsAsShown ==
  /\ \A s \in Plot :
       /\ {e \in DOMAIN standing : standing[e] = s} = {decorationOf[s]} \ {Vacant}
       /\ decorations[s] = Vacant <=> decorationOf[s] = Vacant
       /\ decorations[s] # Vacant => SlotForPlayer(decorations[s]) = s
  /\ \A v \in Viewer : shown[v] # Vacant => shown[v] = Snapshot(decorations)
=============================================================================
