------------------------------- MODULE MCClient -------------------------------
(***************************************************************************)
(* The components of the client and of the dashboard that share no state   *)
(* of the models, for TLC in one run: a behaviour is one of the component  *)
(* named by part, under its fairness; the others stay as they were, so     *)
(* that the state spaces add up.                                           *)
(***************************************************************************)
EXTENDS AdminApi, ClientConnection, Loading, Controls, Fox, Hud

CONSTANTS Parts, own

ASSUME PartsAssumption ==
  Parts \subseteq {"admin", "connection", "loading", "controls", "fox", "hud"}

VARIABLE part

MCArenaModels == <<"portal">>
MCFoxPaths == <<"rig", "idle">>
Fluffball(path) == [kind |-> "Fluffball", path |-> path]
Glimmerwing(path) == [kind |-> "Glimmerwing", path |-> path]

\* A usual configuration, one without a Glimmerwing, one whose models are the same file.
MCWorldFiles ==
  {[resources |-> <<"tree">>, creatures |-> creatures] :
     creatures \in {<<Fluffball("fluff"), Glimmerwing("wing")>>, <<Fluffball("fluff")>>,
                    <<Fluffball("tree"), Glimmerwing("tree")>>}}

\* Only the component that runs starts in all its initial states.
MCInit ==
  /\ part \in Parts
  /\ AdminInit /\ ClientInit /\ LoadingInit /\ ControlsInit /\ FoxInit
  /\ HudInit
  /\ part # "connection" => native /\ usable = {} /\ ~identityToken
  /\ part # "loading" => world = Invalid

MCNext ==
  /\ UNCHANGED part
  /\ IF part = "admin" THEN AdminNext ELSE UNCHANGED admin
  /\ IF part = "connection" THEN ClientNext ELSE UNCHANGED clientVars
  /\ IF part = "loading" THEN LoadingNext ELSE UNCHANGED loadingVars
  /\ IF part = "controls" THEN ControlsNext ELSE UNCHANGED controls
  /\ IF part = "fox" THEN FoxNext ELSE UNCHANGED foxVars
  /\ IF part = "hud" THEN HudNext ELSE UNCHANGED hudVars

\* Each component is scheduled when it is the one that runs.
MCFairness ==
  \/ part = "admin" /\ AdminFairness
  \/ part = "connection" /\ ClientFairness
  \/ part = "loading" /\ LoadingFairness
  \/ part = "controls" /\ ControlsFairness
  \/ part = "fox" /\ FoxFairness
  \/ part = "hud"

MCSpec ==
  MCInit /\ [][MCNext]_<<part, admin, clientVars, loadingVars, controls, foxVars,
                      hudVars>>
    /\ MCFairness

\* What each component keeps: its types, and what its promises rest on.
ClientSafety ==
  CASE part = "admin" -> AdminTypeOK /\ DashboardIsHonest
    [] part = "connection" -> ClientTypeOK
    [] part = "loading" -> LoadingTypeOK /\ NoSecondWave /\ NothingForgotten
    [] part = "controls" -> ControlsTypeOK /\ NothingStaysPressed
    [] part = "fox" -> FoxTypeOK /\ ClipFits
    [] part = "hud" -> HudTypeOK /\ OneOutline

\* The two halves of standing still: what is sent to the prediction does not outlive
\* the keys and the finger, and the fox does not outlive what is sent.
ComesToRest == LetGoStops /\ StillFoxIdles
=============================================================================
