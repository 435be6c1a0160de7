------------------------------ MODULE MCPipeline ------------------------------
(***************************************************************************)
(* CollectPipeline for TLC: nodes of two kinds, one creature.  The runs    *)
(* differ in their bounds; the cfg files say how many players, commands,   *)
(* faults and crashes each has.                                            *)
(***************************************************************************)
EXTENDS CollectPipeline

CONSTANTS Berry, Wood, bush, tree, fox,
  Amount   \* what every node yields

MCKindOrder == <<Berry, Wood>>
MCNodeKind == [n \in Node |-> IF n = bush THEN Berry ELSE Wood]
MCYield == [n \in Node |-> Amount]
MCFoodKind == [c \in Creature |-> Berry]
MCRowLists == {}
=============================================================================
