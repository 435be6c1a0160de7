-------------------------------- MODULE Records --------------------------------
(***************************************************************************)
(* The commands of the persistence service that the game does not send     *)
(* yet: creature bonds, plots and decorations, identities with a given      *)
(* player, and the migration.  CommandChannel has the channel; here the     *)
(* worker takes a command any caller may have sent and executes it one SQL  *)
(* statement at a time, and a statement may fail or the process die         *)
(* between any two.                                                         *)
(***************************************************************************)
EXTENDS Naturals, FiniteSets, Sequences

CONSTANTS
  Owner,        \* player ids
  Species, Levels,      \* creature kinds, bond levels
  PlotSlots,
  Ornaments, Spots,     \* decoration ids, where they are put
  Hashes,       \* token hashes
  NoRow,
  MaxFailures   \* bound of the model: statements that fail and crashes

ASSUME RecordsAssumption ==
  /\ Owner \subseteq Nat \ {0} /\ IsFiniteSet(Owner) /\ MaxFailures \in Nat
  /\ NoRow \notin Levels \cup Spots \cup Owner

Tables == <<"identities", "inventory", "creature_bond", "plot_assignment", "plot_decoration">>

\* The rows of a table by primary key.
Keys == [creature_bond |-> Owner \X Species, plot_decoration |-> Owner \X Ornaments,
         plot_assignment |-> PlotSlots, identities |-> Hashes]
Values == [creature_bond |-> Levels, plot_decoration |-> Spots,
           plot_assignment |-> Owner, identities |-> Owner]

Requests ==
  (UNION {[op : {"save"}, table : {t}, key : Keys[t], value : Values[t]] :
            t \in {"creature_bond", "plot_decoration", "plot_assignment"}})
  \cup [op : {"load"}, table : {"creature_bond"}, key : Keys.creature_bond]
  \cup [op : {"load"}, table : {"plot_assignment", "plot_decoration"}, player : Owner]
  \cup [op : {"create"}, table : {"identities"}, key : Hashes, value : Owner]
  \cup [op : {"migrate"}]

VARIABLES
  request,    \* the command in the worker's hands, NoRow between commands
  statement,  \* its statements executed
  created,    \* tables that exist, in the order of the migration
  rows,       \* [table -> [primary key -> the rest of the row]]
  outcome,    \* the answer to the last command, until the next one
  known,      \* history: what the last write of each row that was answered made it
  doubts,     \* history: writes after it whose answer was lost
  failures    \* statements that failed, and restarts

store == <<created, rows>>
history == <<known, doubts>>
records == <<request, statement, store, outcome, history, failures>>

RecordsInit ==
  /\ request = NoRow /\ statement = 0 /\ created = 0 /\ outcome = NoRow /\ failures = 0
  /\ rows = [t \in DOMAIN Keys |-> [k \in Keys[t] |-> NoRow]]
  /\ known = rows /\ doubts = {}

Done == [answer |-> "done"]
Refused == [answer |-> "constraint"]
Broken == [answer |-> "database"]
Found(what) == [answer |-> "rows", rows |-> what]

Writes(r) == r # NoRow /\ r.op \in {"save", "create"}

Receive(r) ==
  /\ request = NoRow
  /\ request' = r /\ statement' = 0 /\ outcome' = NoRow
  /\ UNCHANGED <<store, history, failures>>

SameRow(a, b) == a.table = b.table /\ a.key = b.key

Answer(o) ==
  /\ request' = NoRow /\ statement' = 0 /\ outcome' = o
  /\ IF o = Done /\ Writes(request)
     THEN /\ known' = [known EXCEPT ![request.table][request.key] = request.value]
          /\ doubts' = {d \in doubts : ~SameRow(d, request)}
     ELSE UNCHANGED history

Exists(table) == \E i \in 1..created : Tables[i] = table
Serving(ops) == request # NoRow /\ request.op \in ops /\ Exists(request.table)
CurrentRow == rows[request.table][request.key]

\* Mutant: without UNIQUE (player_id) for the plots.
FreeToWrite == TRUE
\* UNIQUE (player_id) for the plots: no other row has the player.
Allowed ==
  request.table = "plot_assignment" =>
    \A slot \in PlotSlots \ {request.key} : rows.plot_assignment[slot] # request.value

\* The statement writes the row, or the constraint refuses it.
Write ==
  IF Allowed
  THEN /\ rows' = [rows EXCEPT ![request.table][request.key] = request.value]
       /\ statement' = 2
       /\ UNCHANGED <<request, outcome, history>>
  ELSE Answer(Refused) /\ UNCHANGED rows

\* UPDATE ... WHERE the primary key: INSERT is next when there is no such row.
UpdateRow ==
  /\ Serving({"save"}) /\ statement = 0
  /\ IF CurrentRow # NoRow THEN Write
     ELSE statement' = 1 /\ UNCHANGED <<request, rows, outcome, history>>
  /\ UNCHANGED <<created, failures>>

InsertNewRow ==
  /\ Serving({"save"}) /\ statement = 1
  /\ Write
  /\ UNCHANGED <<created, failures>>

\* create_identity: one INSERT, refused when the token has a row.
CreateIdentity ==
  /\ Serving({"create"}) /\ statement = 0
  /\ IF CurrentRow = NoRow THEN Write ELSE Answer(Refused) /\ UNCHANGED rows
  /\ UNCHANGED <<created, failures>>

Written ==
  /\ Serving({"save", "create"}) /\ statement = 2
  /\ Answer(Done)
  /\ UNCHANGED <<store, failures>>

LoadCreatureBond == rows.creature_bond[request.key]
LoadPlotAssignment == {slot \in PlotSlots : rows.plot_assignment[slot] = request.player}
LoadPlotDecorations ==
  [d \in {o \in Ornaments : rows.plot_decoration[<<request.player, o>>] # NoRow} |->
     rows.plot_decoration[<<request.player, d>>]]

ServeQuery ==
  /\ Serving({"load"})
  /\ Answer(Found(CASE request.table = "creature_bond" -> LoadCreatureBond
                    [] request.table = "plot_assignment" -> LoadPlotAssignment
                    [] request.table = "plot_decoration" -> LoadPlotDecorations))
  /\ UNCHANGED <<store, failures>>

\* CREATE TABLE IF NOT EXISTS for each table in turn, and no transaction.
Migrate ==
  /\ request # NoRow /\ request.op = "migrate"
  /\ IF statement = Len(Tables) THEN Answer(Done) /\ UNCHANGED created
     ELSE /\ statement' = statement + 1
          /\ created' = IF created = statement THEN statement + 1 ELSE created
          /\ UNCHANGED <<request, outcome, history>>
  /\ UNCHANGED <<rows, failures>>

\* A table that no migration has created.
NoTable ==
  /\ request # NoRow /\ request.op # "migrate" /\ ~Exists(request.table)
  /\ Answer(Broken)
  /\ UNCHANGED <<store, failures>>

Fail ==
  /\ request # NoRow /\ failures < MaxFailures
  /\ Writes(request) => statement # 2
  /\ request.op = "migrate" => statement < Len(Tables)
  /\ failures' = failures + 1
  /\ Answer(Broken)
  /\ UNCHANGED store

\* The process dies and is started again; nobody hears the answer.
Restart ==
  /\ request # NoRow /\ failures < MaxFailures
  /\ failures' = failures + 1
  /\ request' = NoRow /\ statement' = 0 /\ outcome' = NoRow
  /\ doubts' = IF Writes(request) THEN doubts \cup {request} ELSE doubts
  /\ UNCHANGED <<store, known>>

RecordsNext ==
  \/ \E r \in Requests : Receive(r)
  \/ UpdateRow \/ InsertNewRow \/ CreateIdentity \/ Written \/ ServeQuery \/ Migrate
  \/ NoTable \/ Fail \/ Restart

RecordsSpec == RecordsInit /\ [][RecordsNext]_records

-----------------------------------------------------------------------------
RecordsTypeOK ==
  /\ request \in Requests \cup {NoRow} /\ statement \in 0..Len(Tables)
  /\ created \in 0..Len(Tables) /\ failures \in 0..MaxFailures
  /\ \A t \in DOMAIN Keys : rows[t] \in [Keys[t] -> Values[t] \cup {NoRow}]

\* What was answered is what is stored: a row is what its last acknowledged write made
\* it, or what a later one means whose answer is still to come or was lost in a restart,
\* and never what was answered with an error; and a load finds at most one plot for a
\* player, whichever plots were saved for whom.
RowsAsAnswered ==
  /\ \A t \in DOMAIN Keys : \A k \in Keys[t] :
       \/ rows[t][k] = known[t][k]
       \/ \E w \in doubts \cup {request} :
            Writes(w) /\ w.table = t /\ w.key = k /\ w.value = rows[t][k]
  /\ \A p \in Owner : Cardinality({s \in PlotSlots : rows.plot_assignment[s] = p}) <= 1
=============================================================================
