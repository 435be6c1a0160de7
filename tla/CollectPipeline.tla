--------------------------- MODULE CollectPipeline ---------------------------
(***************************************************************************)
(* Gathering with a database: the transactional path.  A collect is only   *)
(* validated and sent to persistence (handle_action_collect); the change   *)
(* to the world waits in PersistenceCoordinator until the save is answered *)
(* and process_pending_transactions applies it.  Players join with the     *)
(* inventory the database holds for them (handle_identity_hello).          *)
(*                                                                         *)
(* The game thread runs one system at a time.  Inside one it may wait for  *)
(* the worker (join) or poll one response after the other (the loop of     *)
(* process_pending_transactions), and the worker goes on meanwhile.  The   *)
(* entities a join spawns and despawns are commands that are applied after *)
(* other systems of the same tick may have run.                            *)
(***************************************************************************)
EXTENDS Gathering, Persistence

CONSTANT MaxJoins   \* bound of the model: entities spawned for one player

ASSUME PipelineAssumption == Player = PlayerIds /\ MaxJoins \in Nat

VARIABLES
  entity,     \* entity[p]: number of the latest entity spawned for p
  loadOf,     \* history: the load command that entity's inventory came from
  pending,    \* PersistenceCoordinator.pending
  poll,       \* index the polling loop is at, 0 outside of it
  completed,  \* indices it has found answered
  joining     \* the join in progress: its stage, and what it knows so far

pipelineVars ==
  <<gatheringVars, persistenceVars, entity, loadOf, pending, poll, completed, joining>>

NotJoining == [stage |-> "idle", player |-> 0, load |-> 0, rows |-> <<>>]

PendingOp ==
  [id: Nat, player: Player, entity: Nat, node: Node, rows: Seq(Row), sequence: Nat]

PipelineTypeOK ==
  /\ GatheringTypeOK
  /\ PersistenceTypeOK
  /\ entity \in [Player -> 0..MaxJoins]
  /\ loadOf \in [Player -> Nat]
  /\ pending \in Seq(PendingOp)
  /\ poll \in 0..(Len(pending) + 1)
  /\ completed \in Seq(1..Len(pending))
  /\ joining \in [stage: {"idle", "resolve", "load", "flush"}, player: Player \cup {0},
                  load: Nat, rows: Seq(Row)]

ServerInit ==
  /\ entity = [p \in Player |-> 0]
  /\ loadOf = [p \in Player |-> 0]
  /\ pending = <<>>
  /\ poll = 0
  /\ completed = <<>>
  /\ joining = NotJoining

PipelineInit == GatheringInit /\ PersistenceInit /\ ServerInit

coordinatorVars == <<pending, poll, completed>>
joinVars == <<entity, loadOf, joining>>

\* The game thread is between two systems.
BetweenSystems == blocked = 0 /\ poll = 0 /\ joining.stage \in {"idle", "flush"}

-----------------------------------------------------------------------------
(* Joining: handle_identity_hello, with its two blocking calls.            *)

\* A call the channel refuses (full or closed) rejects the client.  The bounds
\* of the model leave room for the second call.
Hello(t) ==
  /\ BetweenSystems
  /\ joining = NotJoining
  /\ Len(log) + 2 <= MaxCommands
  /\ \A p \in Player : entity[p] < MaxJoins
  /\ ResolveIdentity(t)
  /\ joining' = [joining EXCEPT !.stage = "resolve"]
  /\ UNCHANGED <<gatheringVars, coordinatorVars, entity, loadOf>>

Answered(stage) == joining.stage = stage /\ blocked = 0
LastReply == reply[Len(reply)]

IdentityRefused ==
  /\ Answered("resolve")
  /\ LastReply \in {Failed, Closed}
  /\ joining' = NotJoining
  /\ UNCHANGED <<gatheringVars, persistenceVars, coordinatorVars, entity, loadOf>>

IdentityResolved ==
  /\ Answered("resolve")
  /\ LastReply \notin {Failed, Closed}
  /\ LoadInventory(LastReply.player)
  /\ joining' = [joining EXCEPT !.stage = "load", !.player = LastReply.player,
                                !.load = Len(log) + 1]
  /\ UNCHANGED <<gatheringVars, coordinatorVars, entity, loadOf>>

\* load_inventory(..).ok().unwrap_or_default(): no answer is no rows.
InventoryLoaded ==
  /\ Answered("load")
  /\ joining' = [joining EXCEPT !.stage = "flush",
                   !.rows = IF LastReply \in {Failed, Closed} THEN <<>> ELSE LastReply.rows]
  /\ UNCHANGED <<gatheringVars, persistenceVars, coordinatorVars, entity, loadOf>>

\* load_inventory refused at once: the worker has died since the identity was
\* resolved.  (The channel was just drained, so it is not full.)
LoadRefused ==
  /\ Answered("resolve")
  /\ LastReply \notin {Failed, Closed}
  /\ Channel!ChannelClosed
  /\ joining' = [joining EXCEPT !.stage = "flush", !.player = LastReply.player]
  /\ UNCHANGED <<gatheringVars, persistenceVars, coordinatorVars, entity, loadOf>>

\* The commands are applied: the stale entity of the player goes, the new one
\* comes with what was loaded.
ApplyJoin ==
  /\ BetweenSystems
  /\ joining.stage = "flush"
  /\ SpawnBody(joining.player, RowsToInventory(joining.rows))
  /\ entity' = [entity EXCEPT ![joining.player] = @ + 1]
  /\ loadOf' = [loadOf EXCEPT ![joining.player] = joining.load]
  /\ joining' = NotJoining
  /\ UNCHANGED <<persistenceVars, coordinatorVars, nodeVars, feedWait>>

-----------------------------------------------------------------------------
(* Collecting.                                                             *)

\* handle_action_collect: the rows to save are computed from the inventory as
\* it is now; nothing else changes.  A refused send is answered with
\* ActionRejected and changes nothing.
Collect(p, n, sequence) ==
  /\ BetweenSystems
  /\ body[p] # "absent"
  /\ ValidCollect(p, n, sequence)
  /\ LET rows == InventoryToRows(Add(inv[p], NodeKind[n], Yield[n]))
     IN  /\ SaveAsync(p, rows)
         /\ pending' = Append(pending,
              [id |-> Len(log) + 1, player |-> p, entity |-> entity[p], node |-> n,
               rows |-> rows, sequence |-> sequence])
  /\ UNCHANGED <<gatheringVars, joinVars, poll, completed>>

-----------------------------------------------------------------------------
(* process_pending_transactions.                                           *)

StartPolling ==
  /\ BetweenSystems
  /\ pending # <<>>
  /\ poll' = 1
  /\ UNCHANGED <<gatheringVars, persistenceVars, joinVars, pending, completed>>

\* Mutant: whichever entity the player has now.
EntityLivesAgain(op) == body[op.player] # "absent"

\* The entity an operation was sent for still exists.
EntityLives(op) == body[op.player] # "absent" /\ entity[op.player] = op.entity

ApplySaved(op) ==
  /\ Deplete(op.node)
  /\ IF EntityLives(op)
     THEN /\ inv' = IF HasInventory(op.player)
                    THEN [inv EXCEPT ![op.player] = RowsToInventory(op.rows)] ELSE inv
          /\ StartCooldown(op.player)
          /\ RecordSequence(op.player, op.sequence)
     ELSE UNCHANGED <<inv, wait, lastSeq>>
  /\ UNCHANGED <<body, timer, feedWait>>

\* Mutant: any answer is taken for a success.
PollOpUnchecked ==
  /\ poll \in 1..Len(pending)
  /\ LET answer == reply[pending[poll].id]
     IN  IF answer = Waiting THEN UNCHANGED <<completed, gatheringVars>>
         ELSE completed' = Append(completed, poll) /\ ApplySaved(pending[poll])
  /\ poll' = poll + 1
  /\ UNCHANGED <<persistenceVars, joinVars, pending>>

\* Mutant: a response channel that is closed counts as empty.
PollOpForever ==
  /\ poll \in 1..Len(pending)
  /\ LET answer == reply[pending[poll].id]
     IN  /\ completed' = IF answer \in {Waiting, Closed} THEN completed
                         ELSE Append(completed, poll)
         /\ IF answer = Saved THEN ApplySaved(pending[poll]) ELSE UNCHANGED gatheringVars
  /\ poll' = poll + 1
  /\ UNCHANGED <<persistenceVars, joinVars, pending>>

\* One turn of the loop: an operation without an answer is skipped, an error is
\* passed on to the client, a saved one is applied.
PollOp ==
  /\ poll \in 1..Len(pending)
  /\ LET answer == reply[pending[poll].id]
     IN  /\ completed' = IF answer = Waiting THEN completed ELSE Append(completed, poll)
         /\ IF answer = Saved THEN ApplySaved(pending[poll]) ELSE UNCHANGED gatheringVars
  /\ poll' = poll + 1
  /\ UNCHANGED <<persistenceVars, joinVars, pending>>

\* Vec::swap_remove: the last element takes the place of the removed one.
SwapRemove(seq, i) == SubSeq([seq EXCEPT ![i] = seq[Len(seq)]], 1, Len(seq) - 1)

\* Mutant: the lowest index first.
FinishPollingAscending ==
  /\ poll = Len(pending) + 1
  /\ pending' = FoldLeft(LAMBDA rest, i : SwapRemove(rest, i), pending, completed)
  /\ poll' = 0
  /\ completed' = <<>>
  /\ UNCHANGED <<gatheringVars, persistenceVars, joinVars>>

\* Mutant: the list of answered indices is kept for the next loop.
FinishPollingKeeps ==
  /\ poll = Len(pending) + 1
  /\ pending' = FoldRight(LAMBDA i, rest : SwapRemove(rest, i), completed, pending)
  /\ poll' = 0
  /\ UNCHANGED <<gatheringVars, persistenceVars, joinVars, completed>>

\* The operations left when those at the indices are removed, the last index first.
RemoveAll(ops, indices) ==
  LET left[k \in 1..(Len(indices) + 1)] ==
        IF k > Len(indices) THEN ops ELSE SwapRemove(left[k + 1], indices[k])
  IN  left[1]

\* The answered operations are removed, the highest index first.
FinishPolling ==
  /\ poll = Len(pending) + 1
  /\ pending' = RemoveAll(pending, completed)
  /\ poll' = 0
  /\ completed' = <<>>
  /\ UNCHANGED <<gatheringVars, persistenceVars, joinVars>>

-----------------------------------------------------------------------------

\* A step of Gathering that does not touch persistence.
World(action) ==
  /\ BetweenSystems
  /\ action
  /\ UNCHANGED <<persistenceVars, coordinatorVars, joinVars>>

\* A step of the persistence service that does not touch the world.
Database(action) == action /\ UNCHANGED <<gatheringVars, coordinatorVars, joinVars>>

\* The process crashes and starts again: only the database is left.
Restart ==
  /\ Crash
  /\ body' = [p \in Player |-> "absent"]
  /\ inv' = [p \in Player |-> EmptyInventory]
  /\ wait' = [p \in Player |-> 0]
  /\ lastSeq' = [p \in Player |-> 0]
  /\ depleted' = [n \in Node |-> FALSE]
  /\ timer' = [n \in Node |-> 0]
  /\ feedWait' = [c \in Creature |-> 0]
  /\ entity' = [p \in Player |-> 0]
  /\ loadOf' = [p \in Player |-> 0]
  /\ pending' = <<>>
  /\ poll' = 0
  /\ completed' = <<>>
  /\ joining' = NotJoining

JoinStep == IdentityRefused \/ IdentityResolved \/ InventoryLoaded \/ LoadRefused \/ ApplyJoin

PollStep == StartPolling \/ PollOp \/ FinishPolling

PipelineNext ==
  \/ \E t \in Token : Hello(t)
  \/ JoinStep
  \/ \E p \in Player : World(Leave(p))
  \/ \E p \in Player, n \in Node, s \in 1..MaxSequence : Collect(p, n, s)
  \/ PollStep
  \/ \E p \in Player, c \in Creature : World(Feed(p, c))
  \/ World(Ticks)
  \/ Database(DispatchReturn)
  \/ Database(WorkerStep)
  \/ Database(StatementFails)
  \/ Database(WorkerExit)
  \/ Restart

PipelineSafety == PipelineInit /\ [][PipelineNext]_pipelineVars

\* process_pending_transactions runs in every fixed tick, a system that has
\* started goes on, and the worker thread is scheduled.
PipelineSpec ==
  /\ PipelineSafety
  /\ WF_pipelineVars(PollStep)
  /\ WF_pipelineVars(JoinStep)
  /\ WF_pipelineVars(Database(DispatchReturn))
  /\ WF_pipelineVars(Database(WorkerStep))

-----------------------------------------------------------------------------
(* Properties.                                                             *)

\* The step is a turn of the polling loop.
Polled == poll # 0 /\ poll' = poll + 1

PendingIds == {pending[k].id : k \in 1..Len(pending)}

\* The rows this process was given for a player: saves answered Saved, loads.
GivenRows(p) ==
  {log[i].rows : i \in {j \in Channel!Ids :
     log[j].op = "save" /\ log[j].player = p /\ reply[j] = Saved}}
  \cup
  {reply[i].rows : i \in {j \in Channel!Ids :
     log[j].op = "load" /\ log[j].player = p /\ reply[j] \notin {Waiting, Closed, Failed}}}

\* "Collect actions only apply ECS mutations after persistence acknowledges"
\* (tests/persistence_tx.rs): a player never holds more of anything than some
\* rows the database acknowledged or returned for it.
NothingUnsaved ==
  \A p \in Player : inv[p] = EmptyInventory \/
    \E rows \in GivenRows(p) : \A k \in Kinds :
      CountKind(inv[p], k) <= CountKind(RowsToInventory(rows), k)

\* The coordinator tracks its transactions: a polling loop removes exactly the
\* operations it found answered, though swap_remove moves others while it does.
PendingTracked ==
  [][poll > 0 /\ poll' = 0 /\ crashes' = crashes =>
       PendingIds' = PendingIds \ {pending[i].id : i \in Range(completed)}]_pipelineVars

\* The acknowledgement of a save accepted before a player's inventory was loaded
\* never overwrites the loaded inventory: it belongs to the entity of an
\* earlier connection.
NoForeignAck ==
  [][\A p \in Player :
       (inv'[p] # inv[p] /\ Polled) => pending[poll].id > loadOf[p]]_pipelineVars

\* Every collect that was accepted is resolved, one way or the other: when
\* players send no more of them, the coordinator runs empty.
PendingDrains == pending # <<>> ~> pending = <<>>

-----------------------------------------------------------------------------
(* What the documentation says of this path, and the code does not do.     *)

\* yield_amount is the "Amount given per successful collect": the answer to a
\* collect adds the yield to the inventory of the player.
AcknowledgedGainsYield ==
  [][(Polled /\ reply[pending[poll].id] = Saved /\ EntityLives(pending[poll])
        /\ HasInventory(pending[poll].player))
       => Gained(pending[poll].player, pending[poll].node)]_pipelineVars

\* process_pending_transactions applies "the persisted inventory state": when a
\* polling loop of a server whose worker lives has found all its operations saved
\* and no other is under way, an inventory it set is the one in the database.
AppliedIsStored ==
  (/\ poll = Len(pending) + 1
   /\ alive
   /\ Channel!Unanswered = 0
   /\ \A k \in 1..Len(pending) : k \in Range(completed) /\ reply[pending[k].id] = Saved)
  => \A k \in 1..Len(pending) :
       LET p == pending[k].player
       IN  EntityLives(pending[k]) /\ HasInventory(p)
             => \A kind \in Kinds : CountKind(inv[p], kind) =
                  CountKind(RowsToInventory(StoredRows(p)), kind)

\* save_inventory is "a full-replace operation": while no statement fails for
\* another reason, a save of whatever inventory is not refused.
SaveReplaces ==
  faults = 0 => \A i \in Channel!Ids : log[i].op = "save" => reply[i] # Failed
=============================================================================
