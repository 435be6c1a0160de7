---------------------------- MODULE MCPersistence ----------------------------
(***************************************************************************)
(* Persistence for TLC: two resource kinds, saves of two rows, and saves   *)
(* of two stacks of one kind (which break the primary key).                *)
(***************************************************************************)
EXTENDS Persistence

CONSTANTS Berry, Wood

MCKindOrder == <<Berry, Wood>>

MCRowLists ==
  { <<[kind |-> Wood, quantity |-> 2], [kind |-> Berry, quantity |-> 1]>>,
    <<[kind |-> Wood, quantity |-> 2], [kind |-> Wood, quantity |-> 1]>> }
=============================================================================
