----------------------------- MODULE Persistence -----------------------------
(***************************************************************************)
(* The persistence service of game_persistence as the game server uses it: *)
(* the command channel, the worker executing one SQL statement at a time   *)
(* (repository/), and the database.  No transaction is opened anywhere in  *)
(* repository/, so every statement commits on its own: a save is a DELETE  *)
(* and one INSERT per row, and a failure or a crash may fall between any   *)
(* two of them.                                                            *)
(*                                                                         *)
(* The game thread saves with send_async and resolves identities and loads *)
(* inventories with the blocking dispatch, as systems/collect.rs and       *)
(* systems/auth.rs do.  Statements are atomic; one that fails has changed  *)
(* nothing.                                                                *)
(***************************************************************************)
EXTENDS Inventory

CONSTANTS
  Token,        \* identity tokens (their hashes)
  RowLists,     \* row lists a caller may save
  Waiting, Closed, Capacity, MaxCommands,   \* see CommandChannel
  MaxFaults,    \* bound of the model: statements that fail
  MaxCrashes    \* bound of the model: crashes of the process

ASSUME PersistenceAssumption ==
  /\ IsFiniteSet(Token)
  /\ RowLists \subseteq Seq(Row)
  /\ MaxFaults \in Nat
  /\ MaxCrashes \in Nat

\* Player ids: resolve_identity hands out 1, 2, ...
PlayerIds == 1..Cardinality(Token)

Commands ==
  [op: {"save"}, player: PlayerIds, rows: Seq(Row)]
    \cup [op: {"load"}, player: PlayerIds]
    \cup [op: {"resolve"}, token: Token]

Saved == [answer |-> "saved"]
Failed == [answer |-> "error"]
Loaded(rows) == [answer |-> "inventory", rows |-> rows]
Identity(player) == [answer |-> "identity", player |-> player]

Answers ==
  {Saved, Failed} \cup {Identity(p) : p \in PlayerIds}
    \cup [answer: {"inventory"}, rows: Seq(Row)]

\* What the channel asks of its constants.
ASSUME ChannelParameters ==
  /\ Capacity \in Nat \ {0}
  /\ MaxCommands \in Nat
  /\ Waiting # Closed
  /\ Waiting \notin Answers
  /\ Closed \notin Answers

VARIABLES
  log, queue, current, reply, blocked, alive,   \* see CommandChannel
  step,        \* statements of the current command that have changed something
  table,       \* inventory table: [player -> [kind -> quantity]], 0 is no row
  identities,  \* identities table: [token -> player id], 0 is no row
  begun,       \* history: per player, the rows of the last save whose DELETE
               \* was executed, and whether it was answered Saved
  faults, crashes

Channel == INSTANCE CommandChannel WITH Command <- Commands, Result <- Answers

storeVars == <<table, identities, begun>>
persistenceVars ==
  <<log, queue, current, reply, blocked, alive, step, table, identities, begun,
    faults, crashes>>

NoRows == [k \in Kinds |-> 0]

PersistenceTypeOK ==
  /\ Channel!TypeOK
  /\ step \in Nat
  /\ table \in [PlayerIds -> [Kinds -> Nat]]
  /\ identities \in [Token -> {0} \cup PlayerIds]
  /\ begun \in [PlayerIds -> [rows: Seq(Row), done: BOOLEAN]]
  /\ faults \in 0..MaxFaults
  /\ crashes \in 0..MaxCrashes

PersistenceInit ==
  /\ Channel!Init
  /\ step = 0
  /\ table = [p \in PlayerIds |-> NoRows]
  /\ identities = [t \in Token |-> 0]
  /\ begun = [p \in PlayerIds |-> [rows |-> <<>>, done |-> TRUE]]
  /\ faults = 0
  /\ crashes = 0

-----------------------------------------------------------------------------
(* The game thread.                                                        *)

SaveAsync(player, rows) ==
  /\ Channel!SendAsync([op |-> "save", player |-> player, rows |-> rows])
  /\ UNCHANGED <<storeVars, step, faults, crashes>>

LoadInventory(player) ==
  /\ Channel!Dispatch([op |-> "load", player |-> player])
  /\ UNCHANGED <<storeVars, step, faults, crashes>>

ResolveIdentity(token) ==
  /\ Channel!Dispatch([op |-> "resolve", token |-> token])
  /\ UNCHANGED <<storeVars, step, faults, crashes>>

DispatchReturn ==
  /\ Channel!DispatchReturn
  /\ UNCHANGED <<storeVars, step, faults, crashes>>

-----------------------------------------------------------------------------
(* The worker: the statements of repository/.                              *)

WorkerReceive ==
  /\ Channel!WorkerReceive
  /\ step' = 0
  /\ UNCHANGED <<storeVars, faults, crashes>>

Serving(op) == alive /\ current # 0 /\ log[current].op = op

Respond(answer) ==
  /\ Channel!WorkerReply(answer)
  /\ step' = 0
  /\ UNCHANGED crashes

\* Mutant: DELETE without its WHERE clause.
DeleteAllRows ==
  /\ Serving("save")
  /\ step = 0
  /\ step' = 1
  /\ table' = [p \in PlayerIds |-> NoRows]
  /\ begun' = [begun EXCEPT ![log[current].player] =
                 [rows |-> log[current].rows, done |-> FALSE]]
  /\ UNCHANGED <<log, queue, current, reply, blocked, alive, identities, faults, crashes>>

\* Mutant: no DELETE before the INSERTs.
DeleteNothing ==
  /\ Serving("save")
  /\ step = 0
  /\ step' = 1
  /\ begun' = [begun EXCEPT ![log[current].player] =
                 [rows |-> log[current].rows, done |-> FALSE]]
  /\ UNCHANGED <<log, queue, current, reply, blocked, alive, table, identities,
                 faults, crashes>>

DeleteRows ==
  /\ Serving("save")
  /\ step = 0
  /\ step' = 1
  /\ table' = [table EXCEPT ![log[current].player] = NoRows]
  /\ begun' = [begun EXCEPT ![log[current].player] =
                 [rows |-> log[current].rows, done |-> FALSE]]
  /\ UNCHANGED <<log, queue, current, reply, blocked, alive, identities, faults, crashes>>

\* The row the next INSERT of the save writes, and whether its primary key
\* (player_id, resource_kind) is taken.
Inserting == Serving("save") /\ step \in 1..Len(log[current].rows)
NextRow == log[current].rows[step]
KeyTaken == table[log[current].player][NextRow.kind] # 0

InsertRow ==
  /\ Inserting
  /\ ~ KeyTaken
  /\ step' = step + 1
  /\ table' = [table EXCEPT ![log[current].player][NextRow.kind] = NextRow.quantity]
  /\ UNCHANGED <<log, queue, current, reply, blocked, alive, identities, begun, faults, crashes>>

\* The INSERT violates the primary key: the save stops there with an error.
InsertConflict ==
  /\ Inserting
  /\ KeyTaken
  /\ Respond(Failed)
  /\ UNCHANGED <<storeVars, faults>>

\* Mutant: answered before the last row is inserted.
SaveDoneEarly ==
  /\ Serving("save")
  /\ step = Len(log[current].rows)
  /\ Respond(Saved)
  /\ begun' = [begun EXCEPT ![log[current].player].done = TRUE]
  /\ UNCHANGED <<table, identities, faults>>

SaveDone ==
  /\ Serving("save")
  /\ step = Len(log[current].rows) + 1
  /\ Respond(Saved)
  /\ begun' = [begun EXCEPT ![log[current].player].done = TRUE]
  /\ UNCHANGED <<table, identities, faults>>

\* SELECT ... WHERE player_id = $1 ORDER BY resource_kind.
StoredRows(player) ==
  LET held == {i \in DOMAIN KindOrder : table[player][KindOrder[i]] > 0}
      kind(n) == KindOrder[Nth(held, n)]
  IN  [n \in 1..Cardinality(held) |->
         [kind |-> kind(n), quantity |-> table[player][kind(n)]]]

ServeLoad ==
  /\ Serving("load")
  /\ Respond(Loaded(StoredRows(log[current].player)))
  /\ UNCHANGED <<storeVars, faults>>

\* Mutant: an id is skipped.
NewIdSkips ==
  2 + CHOOSE n \in Range(identities) \cup {0} : \A t \in Token : identities[t] <= n

\* SELECT COALESCE(MAX(player_id), 0) + 1.
NewId ==
  1 + CHOOSE n \in Range(identities) \cup {0} : \A t \in Token : identities[t] <= n

\* Mutant: the token is not looked up first.
InsertIdentityAnew ==
  /\ Serving("resolve")
  /\ step = 0
  /\ step' = 1
  /\ identities' = [identities EXCEPT ![log[current].token] = NewId]
  /\ UNCHANGED <<log, queue, current, reply, blocked, alive, table, begun, faults, crashes>>

\* A token that is not found is inserted with a new id.
InsertIdentity ==
  /\ Serving("resolve")
  /\ identities[log[current].token] = 0
  /\ step' = 1
  /\ identities' = [identities EXCEPT ![log[current].token] = NewId]
  /\ UNCHANGED <<log, queue, current, reply, blocked, alive, table, begun, faults, crashes>>

\* Mutant: the new identity is answered but not inserted.
ServeResolveUnstored ==
  /\ Serving("resolve")
  /\ LET token == log[current].token
     IN  Respond(Identity(IF identities[token] # 0 THEN identities[token] ELSE NewId))
  /\ UNCHANGED <<storeVars, faults>>

\* The token's id, found or just inserted, is answered.
ServeResolve ==
  /\ Serving("resolve")
  /\ LET player == identities[log[current].token]
     IN  player # 0 /\ Respond(Identity(player))
  /\ UNCHANGED <<storeVars, faults>>

\* A statement fails (I/O, lost connection): the command ends with an error and
\* what its earlier statements did stays.
StatementFails ==
  /\ faults < MaxFaults
  /\ faults' = faults + 1
  /\ current # 0
  /\ Serving("save") => step <= Len(log[current].rows)
  /\ Serving("resolve") => step = 0
  /\ Respond(Failed)
  /\ UNCHANGED storeVars

WorkerExit ==
  /\ Channel!WorkerExit
  /\ step' = 0
  /\ UNCHANGED <<storeVars, faults, crashes>>

\* The process dies and is started again: the channel and its commands are
\* gone, the database stays (migrate creates only what does not exist).
ResetChannel ==
  /\ log' = <<>>
  /\ queue' = <<>>
  /\ current' = 0
  /\ reply' = <<>>
  /\ blocked' = 0
  /\ alive' = TRUE
  /\ step' = 0

Crash ==
  /\ crashes < MaxCrashes
  /\ crashes' = crashes + 1
  /\ ResetChannel
  /\ UNCHANGED <<storeVars, faults>>

WorkerStep ==
  \/ WorkerReceive
  \/ DeleteRows
  \/ InsertRow
  \/ InsertConflict
  \/ SaveDone
  \/ ServeLoad
  \/ InsertIdentity
  \/ ServeResolve

\* The server saves and loads for the players whose identity it has resolved.
Known == Range(identities) \ {0}

PersistenceNext ==
  \/ \E p \in Known, rows \in RowLists : SaveAsync(p, rows)
  \/ \E p \in Known : LoadInventory(p)
  \/ \E t \in Token : ResolveIdentity(t)
  \/ DispatchReturn
  \/ WorkerStep
  \/ StatementFails
  \/ WorkerExit
  \/ Crash

\* The worker thread runs whenever it has something to do, and a recv() that
\* can return does.
PersistenceSpec ==
  /\ PersistenceInit
  /\ [][PersistenceNext]_persistenceVars
  /\ WF_persistenceVars(WorkerStep)
  /\ WF_persistenceVars(DispatchReturn)

-----------------------------------------------------------------------------
(* Properties.                                                             *)

\* The last save of the player accepted before command i, 0 if there is none.
LastSave(player, i) ==
  LET saves == {j \in 1..(i - 1) : log[j].op = "save" /\ log[j].player = player}
  IN  IF saves = {} THEN 0 ELSE CHOOSE j \in saves : \A other \in saves : other <= j

\* A load sees the last save sent before it, even one nobody had heard about
\* when the load was sent: if that save succeeded, the rows returned are its
\* rows.  handle_identity_hello loads inventories this way while saves of the
\* same player may still be in flight.
LoadReturnsLastSave ==
  \A i \in Channel!Ids :
    LET save == LastSave(log[i].player, i)
    IN  (log[i].op = "load" /\ reply[i] \notin {Waiting, Closed, Failed})
          => (save # 0 /\ reply[save] = Saved
                => Range(reply[i].rows) = Range(log[save].rows))

\* What an acknowledged save stored stays stored, through faults, the death of
\* the worker and crashes, until a later save of the same player begins.
AcknowledgedStays ==
  \A p \in PlayerIds :
    begun[p].done => Range(StoredRows(p)) = Range(begun[p].rows)

\* The statements of a save are not a transaction, but they never mix two
\* saves: whatever interrupts them, the table holds a prefix of the rows of
\* the last save that began.
NeverMixed ==
  \A p \in PlayerIds : \E n \in 0..Len(begun[p].rows) :
    Range(StoredRows(p)) = Range(SubSeq(begun[p].rows, 1, n))

\* Two tokens never share a player id, and every answer given for a token names
\* the id stored for it.
IdentitiesUnique ==
  /\ \A t, u \in Token : identities[t] = identities[u] => t = u \/ identities[t] = 0
  /\ \A i \in Channel!Ids :
       (log[i].op = "resolve" /\ reply[i] \notin {Waiting, Closed, Failed})
         => reply[i].player = identities[log[i].token]

\* A token keeps the player id it was first given, across restarts.
IdentityStable ==
  [][\A t \in Token : identities[t] # 0 => identities'[t] = identities[t]]_persistenceVars
=============================================================================
