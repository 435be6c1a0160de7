-------------------------------- MODULE MCCore --------------------------------
(***************************************************************************)
(* What the pipeline is made of, each by itself: the command channel, and   *)
(* gathering without a database.  They share no state; a behaviour is one  *)
(* of the component named by part, under its fairness, and the other stays *)
(* as it was.                                                              *)
(*                                                                         *)
(* Two nodes of different kinds; yields of more than half a stack, so that *)
(* stacks overflow into the second slot and the inventory fills up; one    *)
(* creature eating what one node yields.                                   *)
(***************************************************************************)
EXTENDS CommandChannel, Gathering

CONSTANTS Parts, Berry, Wood, bush, tree, fox

ASSUME PartsAssumption == Parts \subseteq {"channel", "gathering"}

VARIABLE part

MCKindOrder == <<Berry, Wood>>
MCNodeKind == (bush :> Berry) @@ (tree :> Wood)
MCYield == (bush :> 2) @@ (tree :> 3)
MCFoodKind == fox :> Berry

CoreInit == part \in Parts /\ Init /\ GatheringInit

CoreNext ==
  /\ UNCHANGED part
  /\ IF part = "channel" THEN Next ELSE UNCHANGED channelVars
  /\ IF part = "gathering" THEN GatheringNext ELSE UNCHANGED gatheringVars

CoreFairness ==
  \/ part = "channel" /\ Fairness
  \/ part = "gathering" /\ GatheringFairness

CoreSpec ==
  CoreInit /\ [][CoreNext]_<<part, channelVars, gatheringVars>> /\ CoreFairness
=============================================================================
