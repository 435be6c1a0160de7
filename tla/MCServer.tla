------------------------------- MODULE MCServer -------------------------------
(***************************************************************************)
(* The components around the server that share no state of the models, for *)
(* TLC in one run: a behaviour is one of the component named by part, the   *)
(* others stay as they were, so that the state spaces add up.               *)
(***************************************************************************)
EXTENDS Session, Housing, GameState, Visibility, Movement, ServerStart,
  Kept

CONSTANTS Parts, t1, p1, p2, w1, a1, a2, Berry, Wood

ASSUME PartsAssumption ==
  Parts \subseteq {"session", "housing", "game", "visibility", "movement", "start", "records",
                   "tasks"}

VARIABLE part

MCIdentityOf == [t \in Token |-> IF t = t1 THEN p1 ELSE p2]

MCOwnThing == [w \in Watcher |-> IF w = w1 THEN a1 ELSE a2]

MCKindOrder == <<Berry, Wood>>
MCResources == << [kind |-> Berry, count |-> 1, yield |-> 2, respawn |-> 1],
                  [kind |-> Wood, count |-> 1, yield |-> 1, respawn |-> 2] >>
MCFoodOf == [c \in CreatureId |-> Berry]

\* The worlds: a good one, two creatures of one id, positions that do not match.
GoodWorld ==
  [resources |-> << [id |-> 1, count |-> 2, yield |-> 1, respawn |-> 1,
                     inside |-> <<TRUE, TRUE>>] >>,
   creatures |-> << [id |-> 1, radius |-> 1, inside |-> TRUE],
                    [id |-> 2, radius |-> 1, inside |-> TRUE] >>]
MCWorlds == {GoodWorld, [GoodWorld EXCEPT !.creatures[2].id = 1],
             [GoodWorld EXCEPT !.resources[1].count = 1]}

\* Only the component that runs starts in all its initial states.
ServerInit ==
  /\ part \in Parts
  /\ SessionInit /\ HousingInit /\ GameInit /\ VisibilityInit /\ MovementInit
  /\ ServerStartInit /\ RecordsInit /\ TasksInit
  /\ part # "session" => issued = {}
  /\ part # "tasks" => installed = Programs
  /\ part # "start" =>
       /\ asset = GoodWorld
       /\ settings = [adminUser |-> FALSE, adminHash |-> None, database |-> None,
                      cert |-> None, key |-> None]

ServerNext ==
  /\ UNCHANGED part
  /\ IF part = "session" THEN SessionNext ELSE UNCHANGED session
  /\ IF part = "housing" THEN HousingNext ELSE UNCHANGED housing
  /\ IF part = "game" THEN GameNext ELSE UNCHANGED gameState
  /\ IF part = "visibility" THEN VisibilityNext ELSE UNCHANGED visibility
  /\ IF part = "movement" THEN MovementNext ELSE UNCHANGED movementVars
  /\ IF part = "start" THEN ServerStartNext ELSE UNCHANGED serverStart
  /\ IF part = "records" THEN RecordsNext ELSE UNCHANGED records
  /\ IF part = "tasks" THEN TasksNext ELSE UNCHANGED tasks

ServerSpec ==
  ServerInit /\ [][ServerNext]_<<part, session, housing, gameState, visibility,
                                 movementVars, serverStart, records, tasks>>

\* What each component keeps: its types, and of the start that it is whole.
ServerSafety ==
  CASE part = "session" -> SessionTypeOK
    [] part = "housing" -> HousingTypeOK
    [] part = "game" -> GameTypeOK
    [] part = "visibility" -> VisibilityTypeOK
    [] part = "movement" -> MovementTypeOK
    [] part = "start" -> ServerStartTypeOK /\ StartsWhole
    [] part = "records" -> RecordsTypeOK
    [] part = "tasks" -> TasksTypeOK
=============================================================================
