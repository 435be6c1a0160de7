-------------------------- MODULE PersistenceProofs --------------------------
(***************************************************************************)
(* Proofs about Persistence, for any number of tokens, kinds, commands,    *)
(* faults and crashes: identities, and what saves leave and loads return.  *)
(* The invariant of the channel comes from CommandChannelProofs; to it are *)
(* added the ids given out so far, how far the last save of each player    *)
(* got, and which save that is.                                            *)
(***************************************************************************)
EXTENDS Persistence, InventoryProofs

-----------------------------------------------------------------------------
(* What a load returns. *)

TableOK == table \in [PlayerIds -> [Kinds -> Nat]]

\* KindOrder lists the kinds.
LEMMA KindsOfOrder ==
  /\ KindOrder \in [1..Len(KindOrder) -> Kinds] /\ Len(KindOrder) \in Nat
  /\ DOMAIN KindOrder = 1..Len(KindOrder)
  /\ \A k \in Kinds : \E i \in 1..Len(KindOrder) : KindOrder[i] = k
<1>1. KindOrder \in Seq(Kinds)
  BY InventoryAssumption DEF Kinds
<1>2. DOMAIN KindOrder = 1..Len(KindOrder) /\ Len(KindOrder) \in Nat
  BY <1>1
<1> QED
  BY <1>1, <1>2 DEF Kinds, Range

\* A load returns one row for each kind of which the table holds some.
LEMMA StoredAreHeld ==
  ASSUME TableOK, NEW p \in PlayerIds
  PROVE  /\ StoredRows(p) \in Seq(Row)
         /\ Range(StoredRows(p)) =
              {[kind |-> k, quantity |-> table[p][k]] : k \in {x \in Kinds : table[p][x] > 0}}
<1> DEFINE held == {i \in DOMAIN KindOrder : table[p][KindOrder[i]] > 0}
           row(k) == [kind |-> k, quantity |-> table[p][k]]
<1>1. held \subseteq 1..Len(KindOrder) /\ Len(KindOrder) \in Nat
  BY KindsOfOrder
<1>2. \A i \in held : KindOrder[i] \in Kinds /\ table[p][KindOrder[i]] > 0
  BY KindsOfOrder
<1>3. \A k \in Kinds : table[p][k] \in Nat
  BY DEF TableOK
<1>4. \A k \in {x \in Kinds : table[p][x] > 0} : row(k) \in Row
  BY <1>3 DEF Row
<1>5. StoredRows(p) = [n \in 1..Cardinality(held) |-> row(KindOrder[Nth(held, n)])]
  BY DEF StoredRows
<1>6. \A k \in {x \in Kinds : table[p][x] > 0} : \E i \in held : KindOrder[i] = k
  BY KindsOfOrder
<1> HIDE DEF held, row
<1>7. /\ Cardinality(held) \in Nat
      /\ \A n \in 1..Cardinality(held) : Nth(held, n) \in held
      /\ \A i \in held : Rank(held, i) \in 1..Cardinality(held) /\ Nth(held, Rank(held, i)) = i
  BY <1>1, NthIsRanked
<1>8. \A n \in 1..Cardinality(held) : row(KindOrder[Nth(held, n)]) \in Row
  BY <1>2, <1>4, <1>7
<1>9. StoredRows(p) \in Seq(Row)
  BY <1>5, <1>7, <1>8
<1>10. Range(StoredRows(p)) = {row(KindOrder[Nth(held, n)]) : n \in 1..Cardinality(held)}
  BY <1>5 DEF Range
<1>11. {row(KindOrder[Nth(held, n)]) : n \in 1..Cardinality(held)}
         = {row(k) : k \in {x \in Kinds : table[p][x] > 0}}
  <2>1. \A n \in 1..Cardinality(held) : KindOrder[Nth(held, n)] \in {x \in Kinds : table[p][x] > 0}
    BY <1>2, <1>7
  <2>2. ASSUME NEW k \in {x \in Kinds : table[p][x] > 0}
        PROVE  \E n \in 1..Cardinality(held) : KindOrder[Nth(held, n)] = k
    <3>1. PICK i \in held : KindOrder[i] = k
      BY <1>6
    <3> QED
      BY <1>7, <3>1
  <2> QED
    BY <2>1, <2>2
<1> QED
  BY <1>9, <1>10, <1>11 DEF row

-----------------------------------------------------------------------------
(* The channel underneath. *)

Chan == INSTANCE CommandChannelProofs WITH Command <- Commands, Result <- Answers

ChannelInv == Chan!ChannelInv

\* What the proofs below use of the channel: every command before the current one is
\* answered, every other one is not.
LEMMA ChannelFacts ==
  ASSUME ChannelInv
  PROVE  /\ Len(log) \in Nat /\ Len(reply) = Len(log)
         /\ log \in Seq(Commands) /\ reply \in Seq(Answers \cup {Waiting, Closed})
         /\ \A i \in 1..Len(log) : log[i] \in Commands
         /\ \A i \in 1..Len(log) : reply[i] \in Answers \cup {Waiting, Closed}
         /\ current \in 0..Len(log)
         /\ current # 0 => \A i \in 1..Len(log) : reply[i] = Waiting <=> i >= current
         /\ Channel!TypeOK
<1>1. Channel!TypeOK
  BY DEF ChannelInv, Chan!ChannelInv, Chan!TypeOK, Channel!TypeOK
<1>2. ASSUME current # 0, NEW i \in 1..Len(log) PROVE reply[i] = Waiting <=> i >= current
  <2>1. /\ Chan!Unanswered = Len(queue) + 1
        /\ current = Len(log) - Len(queue)
        /\ reply[i] = Waiting <=> i > Len(log) - Chan!Unanswered
        /\ Len(queue) \in Nat /\ Len(log) \in Nat
    BY <1>1, <1>2
       DEF ChannelInv, Chan!ChannelInv, Chan!InOrder, Chan!Ids, Chan!Unanswered,
           Channel!TypeOK
  <2> QED
    BY <2>1
<1> QED
  BY <1>1, <1>2 DEF Channel!TypeOK

\* The channel is empty at the start.
LEMMA ChannelStarts == PersistenceInit => ChannelInv
<1>1. ASSUME Channel!Init PROVE Chan!Init
  BY <1>1 DEF Channel!Init, Chan!Init
<1> QED
  BY <1>1, Chan!InitEstablishes, ChannelParameters
     DEF PersistenceInit, ChannelInv, Chan!ChannelAssumption

\* A step of the persistence service, for whatever rows the server saves.
PersistenceStep ==
  \/ \E p \in PlayerIds, rows \in Seq(Row) : SaveAsync(p, rows)
  \/ \E p \in PlayerIds : LoadInventory(p)
  \/ \E t \in Token : ResolveIdentity(t)
  \/ DispatchReturn
  \/ WorkerStep
  \/ StatementFails
  \/ WorkerExit
  \/ Crash

\* What a step does to commands and answers.
Sends(c) ==
  /\ c \in Commands
  /\ log' = Append(log, c) /\ reply' = Append(reply, Waiting)
  /\ current' = current

Replies(answer) ==
  /\ answer \in Answers /\ current # 0
  /\ log' = log /\ reply' = [reply EXCEPT ![current] = answer]
  /\ current' = 0

SameCalls == log' = log /\ reply' = reply

\* A restart empties the channel, as at the start.
LEMMA ResetIsInit == ResetChannel => ChannelInv'
<1> SUFFICES ASSUME ResetChannel PROVE ChannelInv'
  OBVIOUS
<1>1. /\ log' = <<>> /\ queue' = <<>> /\ current' = 0
      /\ reply' = <<>> /\ blocked' = 0 /\ alive' = TRUE
  BY DEF ResetChannel
<1>2. Chan!TypeOK'
  BY <1>1 DEF Chan!TypeOK
<1>3. Chan!InOrder'
  BY <1>1 DEF Chan!InOrder, Chan!Unanswered, Chan!Ids
<1>4. Len(queue') <= Capacity
  BY <1>1, ChannelParameters
<1>5. Chan!BlockedIsLast' /\ Chan!DeadWorkerHoldsNothing'
  BY <1>1 DEF Chan!BlockedIsLast, Chan!DeadWorkerHoldsNothing
<1> QED
  BY <1>2, <1>3, <1>4, <1>5 DEF ChannelInv, Chan!ChannelInv

\* A step of the channel, or one that leaves it alone.
ChannelMove ==
  \/ \E c \in Commands : Channel!SendAsync(c) \/ Channel!Dispatch(c)
  \/ Channel!DispatchReturn
  \/ Channel!WorkerReceive
  \/ \E r \in Answers : Channel!WorkerReply(r)
  \/ Channel!WorkerExit
  \/ UNCHANGED <<log, queue, current, reply, blocked, alive>>

\* A step of the channel in terms of the proofs about it.
LEMMA ChannelMoves ==
  ASSUME ChannelInv, ChannelMove
  PROVE  ChannelInv'
<1>1. [Chan!Next]_(Chan!channelVars)
  <2>1. ASSUME NEW c \in Commands, Channel!SendAsync(c) PROVE Chan!SendAsync(c)
    BY <2>1 DEF Channel!SendAsync, Chan!SendAsync, Channel!TrySend, Chan!TrySend, Channel!QueueFull,
                Chan!QueueFull, Channel!ChannelClosed, Chan!ChannelClosed
  <2>2. ASSUME NEW c \in Commands, Channel!Dispatch(c) PROVE Chan!Dispatch(c)
    BY <2>2 DEF Channel!Dispatch, Chan!Dispatch, Channel!TrySend, Chan!TrySend, Channel!QueueFull,
                Chan!QueueFull, Channel!ChannelClosed, Chan!ChannelClosed
  <2>3. Channel!DispatchReturn => Chan!DispatchReturn
    BY DEF Channel!DispatchReturn, Chan!DispatchReturn
  <2>4. Channel!WorkerReceive => Chan!WorkerReceive
    BY DEF Channel!WorkerReceive, Chan!WorkerReceive
  <2>5. ASSUME NEW r \in Answers, Channel!WorkerReply(r) PROVE Chan!WorkerReply(r)
    BY <2>5 DEF Channel!WorkerReply, Chan!WorkerReply
  <2>6. Channel!WorkerExit => Chan!WorkerExit
    BY DEF Channel!WorkerExit, Chan!WorkerExit, Channel!Ids, Chan!Ids
  <2> QED
    BY <2>1, <2>2, <2>3, <2>4, <2>5, <2>6 DEF ChannelMove, Chan!Next, Chan!channelVars
<1> QED
  BY <1>1, Chan!StepPreserves, ChannelParameters DEF ChannelInv, Chan!ChannelAssumption

\* The commands and the answers are what they should be.
LEMMA Calls ==
  /\ \A p \in PlayerIds, rows \in Seq(Row) :
       [op |-> "save", player |-> p, rows |-> rows] \in Commands
  /\ \A p \in PlayerIds : [op |-> "load", player |-> p] \in Commands
  /\ \A t \in Token : [op |-> "resolve", token |-> t] \in Commands
  /\ \A c \in Commands : /\ c.op = "save" => c.player \in PlayerIds /\ c.rows \in Seq(Row)
                         /\ c.op = "load" => c.player \in PlayerIds
                         /\ c.op = "resolve" => c.token \in Token
                         /\ c.op \in {"save", "load", "resolve"}
BY DEF Commands

\* An answer can be told from the others and from none.
LEMMA AnswersDiffer ==
  /\ Saved \in Answers /\ Failed \in Answers
  /\ \A p \in PlayerIds : Identity(p) \in Answers /\ Identity(p).player = p
  /\ \A rows \in Seq(Row) : Loaded(rows) \in Answers /\ Loaded(rows).rows = rows
  /\ Saved # Failed
  /\ Saved # Waiting /\ Saved # Closed /\ Failed # Waiting /\ Failed # Closed
  /\ \A p \in PlayerIds : Identity(p) # Saved /\ Identity(p) # Failed
  /\ \A rows \in Seq(Row) : Loaded(rows) # Saved /\ Loaded(rows) # Failed
<1>1. Saved \in Answers /\ Failed \in Answers
  BY DEF Answers
<1>2. \A p \in PlayerIds : Identity(p) \in Answers /\ Identity(p).player = p
  BY DEF Answers, Identity
<1>3. \A rows \in Seq(Row) : Loaded(rows) \in Answers /\ Loaded(rows).rows = rows
  BY DEF Answers, Loaded
<1>4. Saved.answer = "saved" /\ Failed.answer = "error"
  BY DEF Saved, Failed
<1>5. \A p \in PlayerIds : Identity(p).answer = "identity"
  BY DEF Identity
<1>6. \A rows \in Seq(Row) : Loaded(rows).answer = "inventory"
  BY DEF Loaded
<1>7. Saved # Waiting /\ Saved # Closed /\ Failed # Waiting /\ Failed # Closed
  BY <1>1, ChannelParameters
<1> QED
  BY <1>1, <1>2, <1>3, <1>4, <1>5, <1>6, <1>7

-----------------------------------------------------------------------------
(* Identities: the ids given out are 1, 2, ... m, each to one token. *)

Numbered(m) ==
  /\ identities \in [Token -> 0..m]
  /\ \A n \in 1..m : \E t \in Token : identities[t] = n
  /\ \A t, u \in Token : identities[t] = identities[u] => t = u \/ identities[t] = 0

IdentityInv == \E m \in 0..Cardinality(Token) : Numbered(m)

\* There are finitely many tokens.
LEMMA TokensAreFinite == IsFiniteSet(Token) /\ Cardinality(Token) \in Nat
BY PersistenceAssumption, FS_CardinalityType

\* MAX(player_id) + 1 is the next number.
LEMMA NewIdIsNext ==
  ASSUME NEW m \in Nat, Numbered(m)
  PROVE  NewId = m + 1
<1>1. \A t \in Token : identities[t] \in 0..m
  BY DEF Numbered
<1>2. Range(identities) \cup {0} \subseteq 0..m
  BY <1>1 DEF Range, Numbered
<1>3. m \in Range(identities) \cup {0}
  <2>1. CASE m = 0
    BY <2>1
  <2>2. CASE m # 0
    <3>1. m \in 1..m
      BY <2>2
    <3>2. PICK t \in Token : identities[t] = m
      BY <3>1 DEF Numbered
    <3>3. t \in DOMAIN identities
      BY DEF Numbered
    <3> QED
      BY <3>2, <3>3 DEF Range
  <2> QED
    BY <2>1, <2>2
<1>4. ASSUME NEW n \in Range(identities) \cup {0}, \A t \in Token : identities[t] <= n
      PROVE  n = m
  <2>1. n \in 0..m
    BY <1>2
  <2>2. CASE m = 0
    BY <2>1, <2>2
  <2>3. CASE m # 0
    <3>1. m \in 1..m
      BY <2>3
    <3>2. PICK t \in Token : identities[t] = m
      BY <3>1 DEF Numbered
    <3> QED
      BY <1>4, <2>1, <3>2
  <2> QED
    BY <2>2, <2>3
<1>5. \A t \in Token : identities[t] <= m
  BY <1>1
<1>6. (CHOOSE n \in Range(identities) \cup {0} : \A t \in Token : identities[t] <= n) = m
  BY <1>3, <1>4, <1>5
<1>7. NewId = 1 + m
  BY <1>6, Zenon DEF NewId
<1> QED
  BY <1>7

\* While a token has no id, fewer ids are given out than there are tokens.
LEMMA RoomForOne ==
  ASSUME NEW m \in Nat, Numbered(m), NEW t \in Token, identities[t] = 0
  PROVE  m + 1 \in 1..Cardinality(Token)
<1> DEFINE f == [n \in 1..m |-> CHOOSE u \in Token : identities[u] = n]
<1>1. \A n \in 1..m : f[n] \in Token \ {t} /\ identities[f[n]] = n
  <2> SUFFICES ASSUME NEW n \in 1..m
               PROVE  f[n] \in Token \ {t} /\ identities[f[n]] = n
    OBVIOUS
  <2>1. \E u \in Token : identities[u] = n
    BY DEF Numbered
  <2>2. f[n] \in Token /\ identities[f[n]] = n
    BY <2>1
  <2> QED
    BY <2>2
<1>2. f \in Injection(1..m, Token \ {t})
  <2>1. f \in [1..m -> Token \ {t}]
    BY <1>1
  <2>2. \A i, j \in 1..m : f[i] = f[j] => i = j
    BY <1>1
  <2> HIDE DEF f
  <2> QED
    BY <2>1, <2>2 DEF Injection, IsInjective
<1> HIDE DEF f
<1>3. IsFiniteSet(Token \ {t}) /\ Cardinality(Token \ {t}) = Cardinality(Token) - 1
  BY TokensAreFinite, FS_RemoveElement
<1>4. Cardinality(1..m) <= Cardinality(Token \ {t})
  BY <1>2, <1>3, FS_Injection
<1>5. Cardinality(1..m) = m
  BY FS_Interval
<1> QED
  BY <1>3, <1>4, <1>5, TokensAreFinite

\* Looking a token up, or giving it the next id, leaves them numbered.
LEMMA ResolveNumbers ==
  ASSUME IdentityInv, NEW t \in Token, NEW player,
         player = IF identities[t] # 0 THEN identities[t] ELSE NewId,
         identities' = [identities EXCEPT ![t] = player]
  PROVE  /\ IdentityInv' /\ player \in PlayerIds
         /\ identities'[t] = player
         /\ \A u \in Token : identities[u] # 0 => identities'[u] = identities[u]
<1>1. PICK m \in 0..Cardinality(Token) : Numbered(m)
  BY DEF IdentityInv
<1>2. m \in Nat /\ identities \in [Token -> 0..m] /\ Cardinality(Token) \in Nat
  BY <1>1, TokensAreFinite DEF Numbered
<1>3. CASE identities[t] # 0
  <2>1. player = identities[t] /\ identities' = identities
    BY <1>2, <1>3
  <2>2. Numbered(m)'
    BY <1>1, <2>1 DEF Numbered
  <2> QED
    BY <1>2, <1>3, <2>1, <2>2 DEF IdentityInv, PlayerIds
<1>4. CASE identities[t] = 0
  <2>1. player = m + 1
    BY <1>1, <1>2, <1>4, NewIdIsNext
  <2>2. m + 1 \in 1..Cardinality(Token)
    BY <1>1, <1>2, <1>4, RoomForOne
  <2>3. /\ identities' \in [Token -> 0..(m + 1)]
        /\ identities'[t] = m + 1 /\ \A u \in Token : u # t => identities'[u] = identities[u]
    BY <1>2, <2>1
  <2>4. \A n \in 1..(m + 1) : \E u \in Token : identities'[u] = n
    <3> SUFFICES ASSUME NEW n \in 1..(m + 1) PROVE \E u \in Token : identities'[u] = n
      OBVIOUS
    <3>1. CASE n = m + 1
      BY <2>3, <3>1
    <3>2. CASE n # m + 1
      <4>1. n \in 1..m
        BY <1>2, <3>2
      <4>2. PICK u \in Token : identities[u] = n
        BY <1>1, <4>1 DEF Numbered
      <4> QED
        BY <1>4, <2>3, <4>1, <4>2
    <3> QED
      BY <3>1, <3>2
  <2>5. \A u, v \in Token : identities'[u] = identities'[v] => u = v \/ identities'[u] = 0
    <3>1. \A u \in Token : identities[u] # m + 1
      BY <1>2
    <3>2. \A u, v \in Token : identities[u] = identities[v] => u = v \/ identities[u] = 0
      BY <1>1 DEF Numbered
    <3> QED
      BY <2>3, <3>1, <3>2
  <2>6. Numbered(m + 1)'
    BY <2>3, <2>4, <2>5 DEF Numbered
  <2>7. m + 1 \in 0..Cardinality(Token)
    BY <1>2, <2>2
  <2> QED
    BY <1>4, <2>1, <2>2, <2>3, <2>6, <2>7 DEF IdentityInv, PlayerIds
<1> QED
  BY <1>3, <1>4

-----------------------------------------------------------------------------
(* Steps, by what they do to commands, answers and tables. *)

StoreTypes ==
  /\ step \in Nat
  /\ TableOK
  /\ begun \in [PlayerIds -> [rows: Seq(Row), done: BOOLEAN]]
  /\ faults \in 0..MaxFaults
  /\ crashes \in 0..MaxCrashes

Stays == table' = table /\ identities' = identities /\ begun' = begun

Sent == \E c : Sends(c) /\ step' = step /\ Stays

Waits ==
  /\ SameCalls /\ Stays
  /\ \/ current' = current /\ step' = step
     \/ current = 0 /\ step' = 0

Refused == Replies(Failed) /\ step' = 0 /\ Stays

Exited ==
  /\ log' = log
  /\ reply' = [i \in 1..Len(log) |-> IF reply[i] = Waiting THEN Closed ELSE reply[i]]
  /\ current' = 0 /\ step' = 0 /\ Stays

Emptied ==
  /\ log' = <<>> /\ reply' = <<>> /\ current' = 0 /\ step' = 0 /\ Stays
  /\ crashes' = crashes + 1

\* InsertIdentity answers nothing, and the token it numbers has one of the ids.
LEMMA DuringResolve ==
  ASSUME ChannelInv, IdentityInv, InsertIdentity
  PROVE  /\ log' = log /\ reply' = reply /\ current' = current
         /\ table' = table /\ begun' = begun /\ step' = 1
         /\ current \in 1..Len(log) /\ log[current].op = "resolve"
         /\ IdentityInv'
         /\ \A t \in Token : identities[t] # 0 => identities'[t] = identities[t]
<1>1. current \in 1..Len(log) /\ log[current].op = "resolve"
  BY ChannelFacts DEF InsertIdentity, Serving
<1>2. PICK t, player :
        /\ t = log[current].token /\ identities[t] = 0 /\ player = NewId
        /\ identities' = [identities EXCEPT ![t] = player]
  BY DEF InsertIdentity
<1>3. t \in Token
  BY <1>1, <1>2, ChannelFacts, Calls
<1>4. IdentityInv' /\ \A u \in Token : identities[u] # 0 => identities'[u] = identities[u]
  BY <1>2, <1>3, ResolveNumbers
<1> QED
  BY <1>1, <1>4 DEF InsertIdentity

\* ServeResolve answers with an id, the one stored for the token.
LEMMA AnswersStored ==
  ASSUME ChannelInv, IdentityInv, ServeResolve
  PROVE  /\ current \in 1..Len(log) /\ log[current].op = "resolve"
         /\ log[current].token \in Token
         /\ identities[log[current].token] \in PlayerIds
         /\ Respond(Identity(identities[log[current].token]))
<1>1. current \in 1..Len(log) /\ log[current].op = "resolve"
  BY ChannelFacts DEF ServeResolve, Serving
<1>2. log[current].token \in Token
  BY <1>1, ChannelFacts, Calls
<1>3. PICK m \in 0..Cardinality(Token) : Numbered(m)
  BY DEF IdentityInv
<1>4. PICK player : /\ player = identities[log[current].token] /\ player # 0
                    /\ Respond(Identity(player))
  BY DEF ServeResolve
<1>5. player \in PlayerIds
  BY <1>2, <1>3, <1>4, TokensAreFinite DEF Numbered, PlayerIds
<1> QED
  BY <1>1, <1>2, <1>4, <1>5

\* What each step does to commands, answers and tables.
LEMMA StepShapes ==
  ASSUME ChannelInv, StoreTypes, IdentityInv, PersistenceStep \/ UNCHANGED persistenceVars
  PROVE  \/ Sent \/ Waits \/ Refused \/ Exited \/ Emptied
         \/ DeleteRows
         \/ InsertRow
         \/ SaveDone /\ Replies(Saved)
         \/ ServeLoad /\ Replies(Loaded(StoredRows(log[current].player)))
         \/ InsertIdentity
         \/ ServeResolve /\ \E p \in PlayerIds :
              Replies(Identity(p)) /\ identities'[log[current].token] = p
<1> USE DEF storeVars, Stays
<1>1. ASSUME NEW p \in PlayerIds, NEW rows \in Seq(Row), SaveAsync(p, rows) PROVE Sent
  BY <1>1, Calls DEF SaveAsync, Channel!SendAsync, Channel!TrySend, Sent, Sends
<1>2. ASSUME NEW p \in PlayerIds, LoadInventory(p) PROVE Sent
  BY <1>2, Calls DEF LoadInventory, Channel!Dispatch, Channel!TrySend, Sent, Sends
<1>3. ASSUME NEW t \in Token, ResolveIdentity(t) PROVE Sent
  BY <1>3, Calls DEF ResolveIdentity, Channel!Dispatch, Channel!TrySend, Sent, Sends
<1>4. CASE DispatchReturn
  BY <1>4 DEF DispatchReturn, Channel!DispatchReturn, Waits, SameCalls
<1>5. CASE WorkerReceive
  BY <1>5 DEF WorkerReceive, Channel!WorkerReceive, Waits, SameCalls
<1>6. ASSUME NEW a \in Answers, Respond(a) PROVE Replies(a) /\ step' = 0
  BY <1>6 DEF Respond, Channel!WorkerReply, Replies
<1>7. CASE InsertConflict
  BY <1>6, <1>7, AnswersDiffer DEF InsertConflict, Refused
<1>8. CASE SaveDone
  BY <1>6, <1>8, AnswersDiffer DEF SaveDone
<1>9. CASE ServeLoad
  <2>1. log[current].player \in PlayerIds
    <3>1. current \in 1..Len(log) /\ log[current].op = "load"
      BY <1>9, ChannelFacts DEF ServeLoad, Serving
    <3> QED
      BY <3>1, ChannelFacts, Calls
  <2>2. Loaded(StoredRows(log[current].player)) \in Answers
    BY <2>1, StoredAreHeld, AnswersDiffer DEF StoreTypes
  <2> QED
    BY <1>6, <1>9, <2>2 DEF ServeLoad
<1>10. CASE ServeResolve
  <2>1. PICK player \in PlayerIds :
          player = identities[log[current].token] /\ Respond(Identity(player))
    BY <1>10, AnswersStored
  <2>2. Replies(Identity(player))
    BY <1>6, <2>1, AnswersDiffer
  <2> QED
    BY <1>10, <2>1, <2>2 DEF ServeResolve
<1>11. CASE StatementFails
  BY <1>6, <1>11, AnswersDiffer DEF StatementFails, Refused
<1>12. CASE WorkerExit
  BY <1>12 DEF WorkerExit, Channel!WorkerExit, Channel!Ids, Exited
<1>13. CASE Crash
  BY <1>13 DEF Crash, ResetChannel, Emptied
<1>14. CASE UNCHANGED persistenceVars
  BY <1>14 DEF persistenceVars, Waits, SameCalls
<1> QED
  BY <1>1, <1>2, <1>3, <1>4, <1>5, <1>7, <1>8, <1>9, <1>10, <1>11, <1>12, <1>13, <1>14
     DEF PersistenceStep, WorkerStep

-----------------------------------------------------------------------------
(* The strengthened invariant. *)

\* Every answered look-up named the id stored for its token.
AnswerInv ==
  \A i \in 1..Len(log) :
    log[i].op = "resolve" /\ reply[i] \notin {Waiting, Closed, Failed} =>
      identities[log[i].token] # 0 /\ reply[i] = Identity(identities[log[i].token])

\* The table holds the first n rows of the last save of player p that began.
Holds(p, n) ==
  /\ n \in 0..Len(begun[p].rows)
  /\ \A j \in 1..n : table[p][begun[p].rows[j].kind] = begun[p].rows[j].quantity
  /\ \A k \in Kinds : table[p][k] # 0 => \E j \in 1..n : begun[p].rows[j].kind = k

Saving == current # 0 /\ log[current].op = "save" /\ step # 0

PrefixInv ==
  /\ \A p \in PlayerIds : \E n \in Nat : Holds(p, n)
  /\ \A p \in PlayerIds : begun[p].done => Holds(p, Len(begun[p].rows))
  /\ Saving => LET c == log[current] IN
                 /\ begun[c.player] = [rows |-> c.rows, done |-> FALSE]
                 /\ Holds(c.player, step - 1)

IsSave(i, p) == log[i].op = "save" /\ log[i].player = p

\* An answered save is the last one begun of its player, unless a later one has begun.
DoneInv ==
  \A j \in 1..Len(log) :
    /\ log[j].op = "save" /\ reply[j] = Saved
    /\ \A k \in 1..Len(log) : k > j /\ IsSave(k, log[j].player) =>
         reply[k] = Waiting /\ ~ (k = current /\ step # 0)
    => begun[log[j].player] = [rows |-> log[j].rows, done |-> TRUE]

\* Save j is the last one of the player of load i before it.
LastBefore(j, i) ==
  /\ j < i /\ IsSave(j, log[i].player)
  /\ \A k \in 1..Len(log) : j < k /\ k < i => ~ IsSave(k, log[i].player)

LoadInv ==
  \A i, j \in 1..Len(log) :
    /\ log[i].op = "load" /\ reply[i] \notin {Waiting, Closed, Failed}
    /\ LastBefore(j, i) /\ reply[j] = Saved
    => Range(reply[i].rows) = Range(log[j].rows)

StoreInv ==
  /\ ChannelInv /\ StoreTypes /\ IdentityInv
  /\ AnswerInv /\ PrefixInv /\ DoneInv /\ LoadInv

\* A send adds a command without an answer.
LEMMA AfterSend ==
  ASSUME ChannelInv, NEW c, Sends(c)
  PROVE  /\ Len(log) \in Nat /\ Len(log') = Len(log) + 1 /\ c \in Commands
         /\ current' = current /\ current \in 0..Len(log)
         /\ \A i \in 1..Len(log) : log'[i] = log[i] /\ reply'[i] = reply[i]
         /\ log'[Len(log) + 1] = c /\ reply'[Len(log) + 1] = Waiting
         /\ \A i \in 1..Len(log') : i \in 1..Len(log) \/ i = Len(log) + 1
         /\ \A i \in 1..Len(log) : i \in 1..Len(log')
BY ChannelFacts DEF Sends

\* A reply answers the oldest unanswered command.
LEMMA AfterReply ==
  ASSUME ChannelInv, NEW a, Replies(a)
  PROVE  /\ Len(log) \in Nat /\ log' = log /\ a \in Answers
         /\ current' = 0 /\ current \in 1..Len(log)
         /\ reply'[current] = a
         /\ \A i \in 1..Len(log) : i # current => reply'[i] = reply[i]
         /\ \A i \in 1..Len(log) : reply[i] = Waiting <=> i >= current
BY ChannelFacts DEF Replies

\* The death of the worker leaves no command without an answer.
LEMMA AfterExit ==
  ASSUME ChannelInv, Exited
  PROVE  /\ Len(log) \in Nat /\ log' = log /\ current' = 0
         /\ \A i \in 1..Len(log) : reply'[i] = IF reply[i] = Waiting THEN Closed ELSE reply[i]
BY ChannelFacts DEF Exited

\* DeleteRows and InsertRow answer nothing.
LEMMA DuringSave ==
  ASSUME ChannelInv, DeleteRows \/ InsertRow
  PROVE  /\ log' = log /\ reply' = reply /\ current' = current /\ identities' = identities
         /\ current \in 1..Len(log) /\ log[current].op = "save"
         /\ log[current].player \in PlayerIds /\ log[current].rows \in Seq(Row)
         /\ \A i \in 1..Len(log) : reply[i] = Waiting <=> i >= current
BY ChannelFacts, Calls DEF DeleteRows, InsertRow, Inserting, Serving

\* Every step of the service is one of the channel or a restart, which makes a new one.
LEMMA ChannelUse ==
  ASSUME ChannelInv, StoreTypes, IdentityInv, PersistenceStep \/ UNCHANGED persistenceVars
  PROVE  ChannelMove \/ ResetChannel
<1>1. ASSUME NEW p \in PlayerIds, NEW rows \in Seq(Row), SaveAsync(p, rows) PROVE ChannelMove
  BY <1>1, Calls DEF ChannelMove, SaveAsync
<1>2. ASSUME NEW p \in PlayerIds, LoadInventory(p) PROVE ChannelMove
  BY <1>2, Calls DEF ChannelMove, LoadInventory
<1>3. ASSUME NEW t \in Token, ResolveIdentity(t) PROVE ChannelMove
  BY <1>3, Calls DEF ChannelMove, ResolveIdentity
<1>4. CASE DispatchReturn
  BY <1>4 DEF ChannelMove, DispatchReturn
<1>5. CASE WorkerReceive
  BY <1>5 DEF ChannelMove, WorkerReceive
<1>6. ASSUME NEW a, Respond(a), Replies(a) PROVE ChannelMove
  BY <1>6 DEF ChannelMove, Respond, Replies
<1>7. CASE WorkerExit
  BY <1>7 DEF ChannelMove, WorkerExit
<1>8. CASE Crash
  BY <1>8 DEF Crash
<1>9. CASE UNCHANGED persistenceVars
  BY <1>9 DEF ChannelMove, persistenceVars
<1>10. CASE DeleteRows \/ InsertRow \/ InsertIdentity
  BY <1>10 DEF ChannelMove, DeleteRows, InsertRow, InsertIdentity
<1>11. CASE InsertConflict \/ StatementFails \/ SaveDone
  <2>1. ASSUME NEW a \in Answers, Respond(a) PROVE Replies(a)
    BY <2>1 DEF Respond, Channel!WorkerReply, Replies
  <2> QED
    BY <1>6, <1>11, <2>1, AnswersDiffer DEF InsertConflict, StatementFails, SaveDone
<1>12. CASE ServeLoad
  <2>1. Respond(Loaded(StoredRows(log[current].player)))
    BY <1>12 DEF ServeLoad
  <2>2. current \in 1..Len(log) /\ log[current].op = "load"
    BY <1>12, ChannelFacts DEF ServeLoad, Serving
  <2>3. log[current].player \in PlayerIds
    BY <2>2, ChannelFacts, Calls
  <2>4. Loaded(StoredRows(log[current].player)) \in Answers
    BY <2>3, StoredAreHeld, AnswersDiffer DEF StoreTypes
  <2> QED
    BY <2>1, <2>4 DEF ChannelMove, Respond
<1>13. CASE ServeResolve
  <2>1. PICK player \in PlayerIds : Respond(Identity(player))
    BY <1>13, AnswersStored
  <2> QED
    BY <2>1, AnswersDiffer DEF ChannelMove, Respond
<1> QED
  BY <1>1, <1>2, <1>3, <1>4, <1>5, <1>7, <1>8, <1>9, <1>10, <1>11, <1>12, <1>13
     DEF PersistenceStep, WorkerStep

\* So every step keeps the invariant of the channel.
LEMMA ChannelStep ==
  ASSUME ChannelInv, StoreTypes, IdentityInv, PersistenceStep \/ UNCHANGED persistenceVars
  PROVE  ChannelInv'
BY ChannelUse, ChannelMoves, ResetIsInit

-----------------------------------------------------------------------------
(* Every step keeps the invariant. *)

\* Types: the rows a save writes have their quantities, and no counter leaves its range.
LEMMA TypesStep ==
  ASSUME ChannelInv, StoreTypes, IdentityInv, PersistenceStep \/ UNCHANGED persistenceVars
  PROVE  StoreTypes'
<1>1. step' \in Nat
  <2>1. CASE Sent \/ Waits \/ Refused \/ Exited \/ Emptied
    BY <2>1 DEF Sent, Waits, Refused, Exited, Emptied, StoreTypes
  <2>2. CASE DeleteRows \/ InsertRow \/ InsertIdentity
    BY <2>2 DEF DeleteRows, InsertRow, InsertIdentity, StoreTypes
  <2>3. CASE SaveDone \/ ServeLoad \/ ServeResolve
    BY <2>3 DEF SaveDone, ServeLoad, ServeResolve, Respond
  <2> QED
    BY <2>1, <2>2, <2>3, StepShapes
<1>2. TableOK' /\ begun' \in [PlayerIds -> [rows: Seq(Row), done: BOOLEAN]]
  <2>1. CASE Sent \/ Waits \/ Refused \/ Exited \/ Emptied
    BY <2>1 DEF Sent, Waits, Refused, Exited, Emptied, Stays, StoreTypes, TableOK
  <2>2. CASE DeleteRows
    <3>1. log[current].player \in PlayerIds /\ log[current].rows \in Seq(Row)
      BY <2>2, DuringSave
    <3>2. NoRows \in [Kinds -> Nat]
      BY DEF NoRows
    <3>3. TableOK'
      BY <2>2, <3>1, <3>2 DEF DeleteRows, StoreTypes, TableOK
    <3>4. [rows |-> log[current].rows, done |-> FALSE] \in [rows: Seq(Row), done: BOOLEAN]
      BY <3>1
    <3> QED
      BY <2>2, <3>1, <3>3, <3>4 DEF DeleteRows, StoreTypes
  <2>3. CASE InsertRow
    <3>1. log[current].player \in PlayerIds /\ log[current].rows \in Seq(Row)
      BY <2>3, DuringSave
    <3>2. NextRow \in Row
      BY <2>3, <3>1 DEF InsertRow, Inserting, NextRow
    <3>3. NextRow.kind \in Kinds /\ NextRow.quantity \in Nat
      BY <3>2 DEF Row
    <3> QED
      BY <2>3, <3>1, <3>3 DEF InsertRow, StoreTypes, TableOK
  <2>4. CASE SaveDone
    <3>1. log[current].player \in PlayerIds
      BY <2>4, ChannelFacts, Calls DEF SaveDone, Serving
    <3> QED
      BY <2>4, <3>1 DEF SaveDone, StoreTypes, TableOK
  <2>5. CASE InsertIdentity \/ ServeLoad \/ ServeResolve
    BY <2>5 DEF InsertIdentity, ServeLoad, ServeResolve, storeVars, StoreTypes, TableOK
  <2> QED
    BY <2>1, <2>2, <2>3, <2>4, <2>5, StepShapes
<1>3. faults' \in 0..MaxFaults /\ crashes' \in 0..MaxCrashes
  <2>1. faults' = faults \/ (faults < MaxFaults /\ faults' = faults + 1)
    BY DEF PersistenceStep, WorkerStep, SaveAsync, LoadInventory, ResolveIdentity, DispatchReturn,
           WorkerReceive, DeleteRows, InsertRow, InsertConflict, SaveDone, ServeLoad,
           InsertIdentity, ServeResolve, StatementFails, WorkerExit, Crash, persistenceVars
  <2>2. crashes' = crashes \/ (crashes < MaxCrashes /\ crashes' = crashes + 1)
    BY DEF PersistenceStep, WorkerStep, SaveAsync, LoadInventory, ResolveIdentity, DispatchReturn,
           WorkerReceive, DeleteRows, InsertRow, InsertConflict, SaveDone, ServeLoad,
           InsertIdentity, ServeResolve, StatementFails, WorkerExit, Crash, persistenceVars, Respond
  <2> QED
    BY <2>1, <2>2, PersistenceAssumption DEF StoreTypes
<1> QED
  BY <1>1, <1>2, <1>3 DEF StoreTypes

\* Identities are given out and never taken back.
LEMMA IdentityStep ==
  ASSUME ChannelInv, StoreTypes, IdentityInv, PersistenceStep \/ UNCHANGED persistenceVars
  PROVE  /\ IdentityInv'
         /\ \A t \in Token : identities[t] # 0 => identities'[t] = identities[t]
<1>1. ASSUME identities' = identities
      PROVE  /\ IdentityInv'
             /\ \A t \in Token : identities[t] # 0 => identities'[t] = identities[t]
  BY <1>1 DEF IdentityInv, Numbered
<1>2. CASE InsertIdentity
  BY <1>2, DuringResolve
<1>3. identities' = identities \/ InsertIdentity
  BY StepShapes DEF Sent, Waits, Refused, Exited, Emptied, Stays, DeleteRows, InsertRow, SaveDone,
                    ServeLoad, ServeResolve, storeVars
<1> QED
  BY <1>1, <1>2, <1>3

\* An answered look-up stays true: only its own token's id could make it false.
LEMMA AnswerStep ==
  ASSUME StoreInv, PersistenceStep \/ UNCHANGED persistenceVars
  PROVE  AnswerInv'
<1> USE DEF StoreInv
<1> SUFFICES ASSUME NEW i \in 1..Len(log'), log'[i].op = "resolve",
                    reply'[i] \notin {Waiting, Closed, Failed}
             PROVE  /\ identities'[log'[i].token] # 0
                    /\ reply'[i] = Identity(identities'[log'[i].token])
  BY DEF AnswerInv
<1>1. ASSUME i \in 1..Len(log), log'[i] = log[i], reply'[i] = reply[i]
      PROVE  /\ identities'[log'[i].token] # 0
             /\ reply'[i] = Identity(identities'[log'[i].token])
  <2>1. log[i].token \in Token
    BY <1>1, ChannelFacts, Calls
  <2>2. identities[log[i].token] # 0 /\ reply[i] = Identity(identities[log[i].token])
    BY <1>1 DEF AnswerInv
  <2> QED
    BY <1>1, <2>1, <2>2, IdentityStep
<1>2. CASE Sent
  BY <1>1, <1>2, AfterSend DEF Sent
<1>3. CASE Waits
  BY <1>1, <1>3 DEF Waits, SameCalls
<1>4. CASE DeleteRows \/ InsertRow \/ InsertIdentity
  BY <1>1, <1>4, DuringSave, DuringResolve
<1>5. ASSUME NEW a, Replies(a), log[current].op = "resolve" => a = Failed
      PROVE  /\ identities'[log'[i].token] # 0
             /\ reply'[i] = Identity(identities'[log'[i].token])
  BY <1>1, <1>5, AfterReply
<1>6. CASE Refused
  BY <1>5, <1>6 DEF Refused
<1>7. CASE SaveDone /\ Replies(Saved)
  BY <1>5, <1>7 DEF SaveDone, Serving
<1>8. CASE ServeLoad /\ Replies(Loaded(StoredRows(log[current].player)))
  BY <1>5, <1>8 DEF ServeLoad, Serving
<1>9. CASE ServeResolve /\ \E p \in PlayerIds :
             Replies(Identity(p)) /\ identities'[log[current].token] = p
  <2>1. PICK p \in PlayerIds : Replies(Identity(p)) /\ identities'[log[current].token] = p
    BY <1>9
  <2>2. p # 0
    BY DEF PlayerIds
  <2> QED
    BY <1>1, <2>1, <2>2, AfterReply
<1>10. CASE Exited
  BY <1>1, <1>10, AfterExit
<1>11. CASE Emptied
  BY <1>11 DEF Emptied
<1> QED
  BY <1>2, <1>3, <1>4, <1>6, <1>7, <1>8, <1>9, <1>10, <1>11, StepShapes

\* The table of a player after a step that leaves it and its history alone.
LEMMA SameHolds ==
  ASSUME NEW p, NEW n, table'[p] = table[p], begun'[p].rows = begun[p].rows, Holds(p, n)
  PROVE  Holds(p, n)'
BY DEF Holds

\* After the DELETE the table of the player holds none of the rows of the save.
LEMMA DeletePrefix ==
  ASSUME StoreInv, DeleteRows
  PROVE  PrefixInv'
<1>0. PICK p0 : p0 = log[current].player
  OBVIOUS
<1> DEFINE c == log[current]
<1>1. /\ p0 \in PlayerIds /\ c.rows \in Seq(Row) /\ log' = log /\ current' = current
      /\ step' = 1
  BY <1>0, DuringSave DEF StoreInv, DeleteRows
<1>2. /\ begun'[p0] = [rows |-> c.rows, done |-> FALSE]
      /\ \A p \in PlayerIds : p # p0 => begun'[p] = begun[p] /\ table'[p] = table[p]
      /\ table'[p0] = NoRows
  BY <1>0, <1>1 DEF StoreInv, StoreTypes, TableOK, DeleteRows
<1> HIDE DEF c
<1>3. \A k \in Kinds : table'[p0][k] = 0
  BY <1>2 DEF NoRows
<1>4. Holds(p0, 0)'
  <2>1. 0 \in 0..Len(begun'[p0].rows)
    BY <1>1, <1>2
  <2> QED
    BY <1>3, <2>1 DEF Holds
<1>5. ASSUME NEW p \in PlayerIds PROVE \E n \in Nat : Holds(p, n)'
  <2>1. CASE p = p0
    BY <1>4, <2>1
  <2>2. CASE p # p0
    <3>1. PICK n \in Nat : Holds(p, n)
      BY DEF StoreInv, PrefixInv
    <3> QED
      BY <1>2, <2>2, <3>1, SameHolds
  <2> QED
    BY <2>1, <2>2
<1>6. ASSUME NEW p \in PlayerIds, begun'[p].done PROVE Holds(p, Len(begun[p].rows))'
  <2>1. p # p0
    BY <1>2, <1>6
  <2>2. begun'[p] = begun[p] /\ Holds(p, Len(begun[p].rows))
    BY <1>2, <1>6, <2>1 DEF StoreInv, PrefixInv
  <2> QED
    BY <1>2, <2>1, <2>2 DEF Holds
<1>7. Saving' => /\ begun'[log'[current'].player] = [rows |-> log'[current'].rows, done |-> FALSE]
                 /\ Holds(log[current].player, step - 1)'
  <2>1. step' - 1 = 0 /\ log'[current'].player = p0
    BY <1>0, <1>1
  <2> QED
    BY <1>0, <1>1, <1>2, <1>4, <2>1 DEF c, Holds
<1> QED
  BY <1>5, <1>6, <1>7 DEF PrefixInv

\* An INSERT adds the next row of the save; those before it keep their keys.
LEMMA InsertPrefix ==
  ASSUME StoreInv, InsertRow
  PROVE  PrefixInv'
<1>0. PICK p0, m : p0 = log[current].player /\ m = step
  OBVIOUS
<1> DEFINE c == log[current]
<1>1. /\ p0 \in PlayerIds /\ c.rows \in Seq(Row) /\ log' = log /\ current' = current
      /\ step' = m + 1 /\ m \in 1..Len(c.rows) /\ Len(c.rows) \in Nat /\ begun' = begun
  BY <1>0, DuringSave DEF StoreInv, InsertRow, Inserting
<1>2. /\ begun[p0] = [rows |-> c.rows, done |-> FALSE]
      /\ Holds(p0, m - 1)
  <2>1. Saving
    BY <1>0, <1>1, DuringSave DEF StoreInv, Saving
  <2> QED
    BY <1>0, <2>1 DEF StoreInv, PrefixInv
<1>3. /\ NextRow = c.rows[m] /\ NextRow \in Row
      /\ NextRow.kind \in Kinds /\ NextRow.quantity \in Nat \ {0}
  <2>1. NextRow = c.rows[m]
    BY <1>0 DEF NextRow
  <2>2. NextRow \in Row
    BY <1>1, <2>1
  <2> QED
    BY <2>1, <2>2 DEF Row
<1>4. /\ \A p \in PlayerIds : p # p0 => table'[p] = table[p]
      /\ table'[p0][NextRow.kind] = NextRow.quantity
      /\ \A k \in Kinds : k # NextRow.kind => table'[p0][k] = table[p0][k]
      /\ table[p0][NextRow.kind] = 0
  BY <1>0, <1>1, <1>3 DEF StoreInv, StoreTypes, TableOK, InsertRow, KeyTaken
<1> HIDE DEF c, NextRow
<1>5. Holds(p0, m)'
  <2>0. begun'[p0].rows = c.rows /\ begun[p0].rows = c.rows
    BY <1>1, <1>2
  <2>1. m \in 0..Len(c.rows) /\ m - 1 \in Nat
    BY <1>1
  <2>2. \A j \in 1..(m - 1) : table[p0][c.rows[j].kind] = c.rows[j].quantity
    BY <1>2, <2>0 DEF Holds
  <2>3. \A j \in 1..(m - 1) : c.rows[j].kind \in Kinds /\ c.rows[j].quantity # 0
    <3> SUFFICES ASSUME NEW j \in 1..(m - 1) PROVE c.rows[j] \in Row
      BY DEF Row
    <3>1. j \in 1..Len(c.rows)
      BY <1>1
    <3> QED
      BY <1>1, <3>1
  <2>4. ASSUME NEW j \in 1..m PROVE table'[p0][c.rows[j].kind] = c.rows[j].quantity
    <3>1. CASE j = m
      BY <1>3, <1>4, <3>1
    <3>2. CASE j # m
      <4>1. j \in 1..(m - 1)
        BY <1>1, <3>2
      <4> QED
        BY <1>4, <2>2, <2>3, <4>1
    <3> QED
      BY <3>1, <3>2
  <2>5. ASSUME NEW k \in Kinds, table'[p0][k] # 0 PROVE \E j \in 1..m : c.rows[j].kind = k
    <3>1. CASE k = NextRow.kind
      <4>1. m \in 1..m
        BY <1>1
      <4> QED
        BY <1>3, <3>1, <4>1
    <3>2. CASE k # NextRow.kind
      <4>1. PICK j \in 1..(m - 1) : c.rows[j].kind = k
        BY <1>2, <1>4, <2>0, <2>5, <3>2 DEF Holds
      <4>2. j \in 1..m
        BY <1>1
      <4> QED
        BY <4>1, <4>2
    <3> QED
      BY <3>1, <3>2
  <2> QED
    BY <2>0, <2>1, <2>4, <2>5 DEF Holds
<1>6. ASSUME NEW p \in PlayerIds PROVE \E n \in Nat : Holds(p, n)'
  <2>1. CASE p = p0
    BY <1>1, <1>5, <2>1
  <2>2. CASE p # p0
    <3>1. PICK n \in Nat : Holds(p, n)
      BY DEF StoreInv, PrefixInv
    <3> QED
      BY <1>1, <1>4, <2>2, <3>1, SameHolds
  <2> QED
    BY <2>1, <2>2
<1>7. ASSUME NEW p \in PlayerIds, begun'[p].done PROVE Holds(p, Len(begun[p].rows))'
  <2>1. p # p0
    BY <1>1, <1>2, <1>7
  <2>2. begun'[p] = begun[p] /\ Holds(p, Len(begun[p].rows))
    BY <1>1, <1>7, <2>1 DEF StoreInv, PrefixInv
  <2> QED
    BY <1>4, <2>1, <2>2 DEF Holds
<1>8. /\ begun'[log'[current'].player] = [rows |-> log'[current'].rows, done |-> FALSE]
      /\ Holds(log[current].player, step - 1)'
  <2>1. step' - 1 = m /\ log'[current'].player = p0
    BY <1>0, <1>1
  <2> QED
    BY <1>0, <1>1, <1>2, <1>5, <2>1 DEF c, Holds
<1> QED
  BY <1>6, <1>7, <1>8 DEF PrefixInv

\* Nothing but the two statements changes how many rows of a save a table holds.
LEMMA PrefixStep ==
  ASSUME StoreInv, PersistenceStep \/ UNCHANGED persistenceVars
  PROVE  PrefixInv'
<1> USE DEF StoreInv
<1>1. ASSUME table' = table, begun' = begun,
             Saving' => Saving /\ log'[current'] = log[current] /\ step' = step
      PROVE  PrefixInv'
  <2>1. \A p \in PlayerIds : \E n \in Nat : Holds(p, n)'
    BY <1>1, SameHolds DEF PrefixInv
  <2>2. \A p \in PlayerIds : begun'[p].done => Holds(p, Len(begun[p].rows))'
    <3>1. ASSUME NEW p \in PlayerIds, begun'[p].done
          PROVE  Holds(p, Len(begun[p].rows))'
      <4>1. Holds(p, Len(begun[p].rows))
        BY <1>1, <3>1 DEF PrefixInv
      <4> QED
        BY <1>1, <4>1 DEF Holds
    <3> QED
      BY <3>1
  <2>3. Saving' => /\ begun'[log'[current'].player] = [rows |-> log'[current'].rows, done |-> FALSE]
                   /\ Holds(log[current].player, step - 1)'
    <3>1. ASSUME Saving' PROVE Holds(log[current].player, step - 1)'
      <4>1. PICK p0, m : p0 = log[current].player /\ m = step
        OBVIOUS
      <4>2. Holds(p0, m - 1)
        BY <1>1, <3>1, <4>1 DEF PrefixInv
      <4>3. log'[current'].player = p0 /\ step' = m
        BY <1>1, <3>1, <4>1
      <4>4. Holds(p0, m - 1)'
        BY <1>1, <4>2, SameHolds
      <4> QED
        BY <4>3, <4>4 DEF Holds
    <3> QED
      BY <1>1, <3>1 DEF PrefixInv
  <2> QED
    BY <2>1, <2>2, <2>3 DEF PrefixInv
<1>2. CASE Sent
  <2>1. PICK c : Sends(c) /\ step' = step /\ Stays
    BY <1>2 DEF Sent
  <2>2. current # 0 => log'[current'] = log[current]
    BY <2>1, AfterSend
  <2> QED
    BY <1>1, <2>1, <2>2, AfterSend DEF Stays, Saving
<1>3. CASE Waits
  BY <1>1, <1>3 DEF Waits, SameCalls, Stays, Saving
<1>4. CASE Refused \/ Exited \/ Emptied
  BY <1>1, <1>4 DEF Refused, Exited, Emptied, Stays, Saving
<1>5. CASE DeleteRows
  BY <1>5, DeletePrefix
<1>6. CASE InsertRow
  BY <1>6, InsertPrefix
<1>7. CASE SaveDone /\ Replies(Saved)
  <2> DEFINE c == log[current]
  <2>1. /\ current \in 1..Len(log) /\ c.op = "save" /\ step = Len(c.rows) + 1
        /\ table' = table /\ begun' = [begun EXCEPT ![c.player].done = TRUE] /\ step' = 0
    BY <1>7, AfterReply DEF SaveDone, Serving, Respond
  <2>2. c.player \in PlayerIds /\ c.rows \in Seq(Row) /\ Len(c.rows) \in Nat
    BY <2>1, ChannelFacts, Calls
  <2>3. Saving
    BY <2>1, <2>2 DEF Saving
  <2>4. /\ begun[c.player] = [rows |-> c.rows, done |-> FALSE]
        /\ Holds(c.player, Len(c.rows))
    <3>1. step - 1 = Len(c.rows)
      BY <2>1, <2>2
    <3> QED
      BY <2>3, <3>1 DEF PrefixInv
  <2>5. /\ begun'[c.player].rows = c.rows
        /\ \A p \in PlayerIds : begun'[p].rows = begun[p].rows
        /\ \A p \in PlayerIds : p # c.player => begun'[p].done = begun[p].done
    BY <2>1, <2>2, <2>4 DEF StoreTypes
  <2> HIDE DEF c
  <2>6. \A p \in PlayerIds : \E n \in Nat : Holds(p, n)'
    BY <2>1, <2>5, SameHolds DEF PrefixInv
  <2>7. ASSUME NEW p \in PlayerIds, begun'[p].done PROVE Holds(p, Len(begun[p].rows))'
    <3>1. Holds(p, Len(begun[p].rows))
      BY <2>4, <2>5, <2>7 DEF PrefixInv
    <3> QED
      BY <2>1, <2>5, <3>1 DEF Holds
  <2>8. ~ Saving'
    BY <2>1 DEF Saving
  <2> QED
    BY <2>6, <2>7, <2>8 DEF PrefixInv
<1>8. CASE ServeLoad \/ ServeResolve
  <2>1. step' = 0 /\ table' = table /\ begun' = begun
    BY <1>8 DEF ServeLoad, ServeResolve, Respond, storeVars
  <2> QED
    BY <1>1, <2>1 DEF Saving
<1>9. CASE InsertIdentity
  BY <1>1, <1>9, DuringResolve DEF Saving
<1> QED
  BY <1>2, <1>3, <1>4, <1>5, <1>6, <1>7, <1>8, <1>9, StepShapes

\* A save that was answered stays the last one until a statement of a later one is executed.
LEMMA DoneStep ==
  ASSUME StoreInv, PersistenceStep \/ UNCHANGED persistenceVars
  PROVE  DoneInv'
<1> USE DEF StoreInv
<1> SUFFICES ASSUME NEW j \in 1..Len(log'), log'[j].op = "save", reply'[j] = Saved,
                    \A k \in 1..Len(log') : k > j /\ IsSave(k, log[j].player)' =>
                      reply'[k] = Waiting /\ ~ (k = current' /\ step' # 0)
             PROVE  begun'[log'[j].player] = [rows |-> log'[j].rows, done |-> TRUE]
  BY DEF DoneInv
<1>1. Saved # Waiting /\ Saved # Closed /\ Saved # Failed
  BY AnswersDiffer
\* The save was answered before, and no other of its player has begun since.
<1>2. ASSUME j \in 1..Len(log), log'[j] = log[j], reply[j] = Saved,
             \A k \in 1..Len(log) : k > j =>
               /\ k \in 1..Len(log') /\ log'[k] = log[k]
               /\ reply'[k] = Waiting => reply[k] = Waiting
               /\ k = current /\ step # 0 /\ reply'[k] = Waiting => k = current' /\ step' # 0,
             begun'[log[j].player] = begun[log[j].player]
      PROVE  begun'[log'[j].player] = [rows |-> log'[j].rows, done |-> TRUE]
  <2>1. \A k \in 1..Len(log) : k > j /\ IsSave(k, log[j].player) =>
          reply[k] = Waiting /\ ~ (k = current /\ step # 0)
    BY <1>2 DEF IsSave
  <2> QED
    BY <1>2, <2>1 DEF DoneInv
<1>3. CASE Sent
  <2>1. PICK c : Sends(c) /\ step' = step /\ Stays
    BY <1>3 DEF Sent
  <2>2. j # Len(log) + 1
    BY <1>1, <2>1, AfterSend
  <2> QED
    BY <1>2, <2>1, <2>2, AfterSend DEF Stays
<1>4. CASE Waits
  <2>1. \A k \in 1..Len(log) : k = current /\ step # 0 => k = current' /\ step' # 0
    BY <1>4 DEF Waits
  <2> QED
    BY <1>2, <1>4, <2>1 DEF Waits, SameCalls, Stays
<1>5. ASSUME NEW a, Replies(a), begun' = begun, a # Saved
      PROVE  begun'[log'[j].player] = [rows |-> log'[j].rows, done |-> TRUE]
  <2>1. j # current
    BY <1>5, AfterReply
  <2>2. \A k \in 1..Len(log) : reply'[k] = Waiting => k # current
    BY <1>5, AfterReply, ChannelParameters
  <2> QED
    BY <1>2, <1>5, <2>1, <2>2, AfterReply
<1>6. CASE Refused
  BY <1>1, <1>5, <1>6 DEF Refused, Stays
<1>7. CASE ServeLoad /\ Replies(Loaded(StoredRows(log[current].player)))
  <2>1. log[current].player \in PlayerIds
    BY <1>7, AfterReply, ChannelFacts, Calls DEF ServeLoad, Serving
  <2> QED
    BY <1>5, <1>7, <2>1, StoredAreHeld, AnswersDiffer DEF ServeLoad, storeVars, StoreTypes
<1>8. CASE ServeResolve /\ \E p \in PlayerIds :
             Replies(Identity(p)) /\ identities'[log[current].token] = p
  BY <1>5, <1>8, AnswersDiffer DEF ServeResolve, storeVars
<1>9. CASE DeleteRows
  <2>1. /\ reply[j] = Saved /\ log'[j] = log[j] /\ j \in 1..Len(log) /\ step' = 1
        /\ log' = log /\ reply' = reply /\ current' = current
    BY <1>9, DuringSave DEF DeleteRows
  <2>2. j < current /\ current \in 1..Len(log)
    BY <1>1, <1>9, <2>1, DuringSave
  <2>3. log[current].player # log[j].player
    <3>1. ~ IsSave(current, log[j].player)
      BY <2>1, <2>2 DEF IsSave
    <3> QED
      BY <1>9, <3>1, DuringSave DEF IsSave
  <2>4. begun'[log[j].player] = begun[log[j].player]
    BY <1>9, <2>1, <2>3, ChannelFacts, Calls DEF DeleteRows, StoreTypes
  <2> QED
    BY <1>2, <2>1, <2>4
<1>10. CASE InsertRow
  <2>1. /\ log' = log /\ reply' = reply /\ current' = current /\ begun' = begun /\ step' = step + 1
        /\ step + 1 # 0
    BY <1>10, DuringSave DEF InsertRow, StoreTypes
  <2> QED
    BY <1>2, <2>1
<1>11. CASE SaveDone /\ Replies(Saved)
  <2>1. /\ current \in 1..Len(log) /\ log[current].op = "save" /\ log' = log
        /\ step = Len(log[current].rows) + 1
        /\ begun' = [begun EXCEPT ![log[current].player].done = TRUE]
        /\ reply'[current] = Saved
    BY <1>11, AfterReply DEF SaveDone, Serving
  <2>2. /\ log[current].player \in PlayerIds /\ log[current].rows \in Seq(Row)
        /\ log[j].player \in PlayerIds
    BY <2>1, ChannelFacts, Calls
  <2>3. CASE j = current
    <3>1. Saving
      BY <2>1, <2>2 DEF Saving
    <3>2. begun[log[current].player] = [rows |-> log[current].rows, done |-> FALSE]
      BY <3>1 DEF PrefixInv
    <3>3. /\ begun'[log[current].player].rows = log[current].rows
          /\ begun'[log[current].player].done = TRUE
      BY <2>1, <2>2, <3>2 DEF StoreTypes
    <3>4. begun'[log[current].player] = [rows |-> log[current].rows, done |-> TRUE]
      <4>1. begun'[log[current].player] \in [rows: Seq(Row), done: BOOLEAN]
        BY <2>2, TypesStep DEF StoreTypes
      <4> QED
        BY <3>3, <4>1
    <3> QED
      BY <2>1, <2>3, <3>4
  <2>4. CASE j # current
    <3>1. reply[j] = Saved /\ j < current
      BY <1>1, <1>11, <2>1, <2>4, AfterReply
    <3>2. ~ IsSave(current, log[j].player)
      BY <1>1, <2>1, <3>1 DEF IsSave
    <3>3. log[current].player # log[j].player
      BY <2>1, <3>2 DEF IsSave
    <3>4. begun'[log[j].player] = begun[log[j].player]
      BY <2>1, <2>2, <3>3 DEF StoreTypes
    <3>5. \A k \in 1..Len(log) : reply'[k] = Waiting => reply[k] = Waiting /\ k # current
      BY <1>1, <1>11, <2>1, AfterReply
    <3> QED
      BY <1>2, <2>1, <3>1, <3>4, <3>5
  <2> QED
    BY <2>3, <2>4
<1>12. CASE Exited
  <2>1. reply[j] = Saved
    BY <1>1, <1>12, AfterExit
  <2>2. \A k \in 1..Len(log) : reply'[k] # Waiting
    BY <1>12, AfterExit, ChannelParameters
  <2> QED
    BY <1>2, <1>12, <2>1, <2>2, AfterExit DEF Exited, Stays
<1>13. CASE Emptied
  BY <1>13 DEF Emptied
<1>14. CASE InsertIdentity
  BY <1>2, <1>14, DuringResolve
<1> QED
  BY <1>3, <1>4, <1>6, <1>7, <1>8, <1>9, <1>10, <1>11, <1>12, <1>13, <1>14, StepShapes

\* The rows a table holds are the first rows of the save.
LEMMA HeldIsPrefix ==
  ASSUME StoreTypes, NEW p \in PlayerIds, NEW n \in Nat, Holds(p, n)
  PROVE  Range(StoredRows(p)) = {begun[p].rows[j] : j \in 1..n}
<1>1. /\ begun[p].rows \in Seq(Row) /\ n \in 0..Len(begun[p].rows)
      /\ \A k \in Kinds : table[p][k] \in Nat
  BY DEF StoreTypes, TableOK, Holds
<1>2. \A j \in 1..n : begun[p].rows[j] \in Row
  BY <1>1
<1>3. Range(StoredRows(p)) =
        {[kind |-> k, quantity |-> table[p][k]] : k \in {x \in Kinds : table[p][x] > 0}}
  BY StoredAreHeld DEF StoreTypes
<1>4. ASSUME NEW j \in 1..n
      PROVE  \E k \in {x \in Kinds : table[p][x] > 0} :
               begun[p].rows[j] = [kind |-> k, quantity |-> table[p][k]]
  <2> DEFINE r == begun[p].rows[j]
  <2>1. r \in Row /\ table[p][r.kind] = r.quantity
    BY <1>2 DEF Holds
  <2> HIDE DEF r
  <2>2. r = [kind |-> r.kind, quantity |-> table[p][r.kind]] /\ r.kind \in Kinds /\ r.quantity > 0
    BY <2>1 DEF Row
  <2>3. r.kind \in {x \in Kinds : table[p][x] > 0}
    BY <2>1, <2>2
  <2> QED
    BY <2>2, <2>3 DEF r
<1>5. ASSUME NEW k \in {x \in Kinds : table[p][x] > 0}
      PROVE  \E j \in 1..n : begun[p].rows[j] = [kind |-> k, quantity |-> table[p][k]]
  <2>1. PICK j \in 1..n : begun[p].rows[j].kind = k
    BY <1>1 DEF Holds
  <2>2. begun[p].rows[j] \in Row /\ table[p][k] = begun[p].rows[j].quantity
    BY <1>2, <2>1 DEF Holds
  <2> QED
    BY <2>1, <2>2 DEF Row
<1> DEFINE row(k) == [kind |-> k, quantity |-> table[p][k]]
           held == {x \in Kinds : table[p][x] > 0}
<1>6. \A j \in 1..n : \E k \in held : begun[p].rows[j] = row(k)
  BY <1>4
<1>7. \A k \in held : \E j \in 1..n : begun[p].rows[j] = row(k)
  BY <1>5
<1>8. Range(StoredRows(p)) = {row(k) : k \in held}
  BY <1>3
<1> HIDE DEF row, held
<1> QED
  BY <1>6, <1>7, <1>8

\* The range of a sequence.
LEMMA RangeOfAll ==
  ASSUME NEW S, NEW s \in Seq(S)
  PROVE  Range(s) = {s[j] : j \in 1..Len(s)}
BY DEF Range

\* A load is served when every save before it is answered and none after it has begun.
LEMMA LoadStep ==
  ASSUME StoreInv, PersistenceStep \/ UNCHANGED persistenceVars
  PROVE  LoadInv'
<1> USE DEF StoreInv
<1> SUFFICES ASSUME NEW i \in 1..Len(log'), NEW j \in 1..Len(log'),
                    log'[i].op = "load", reply'[i] \notin {Waiting, Closed, Failed},
                    LastBefore(j, i)', reply'[j] = Saved
             PROVE  Range(reply'[i].rows) = Range(log'[j].rows)
  BY DEF LoadInv
<1>1. Saved # Waiting /\ Saved # Closed /\ Saved # Failed
  BY AnswersDiffer
<1>2. j < i
  BY DEF LastBefore
<1>3. ASSUME i \in 1..Len(log), j \in 1..Len(log), reply'[i] = reply[i], reply'[j] = reply[j],
             \A k \in 1..Len(log) : log'[k] = log[k] /\ k \in 1..Len(log')
      PROVE  Range(reply'[i].rows) = Range(log'[j].rows)
  <2>1. LastBefore(j, i)
    BY <1>3 DEF LastBefore, IsSave
  <2> QED
    BY <1>3, <2>1 DEF LoadInv
<1>4. CASE Sent
  <2>1. PICK c : Sends(c) /\ step' = step /\ Stays
    BY <1>4 DEF Sent
  <2>2. i # Len(log) + 1 /\ j # Len(log) + 1
    BY <1>1, <2>1, AfterSend
  <2> QED
    BY <1>3, <2>1, <2>2, AfterSend
<1>5. CASE Waits
  BY <1>3, <1>5 DEF Waits, SameCalls
<1>6. CASE DeleteRows \/ InsertRow \/ InsertIdentity
  BY <1>3, <1>6, DuringSave, DuringResolve
<1>7. ASSUME NEW a, Replies(a), log[current].op = "load" => a = Failed
      PROVE  Range(reply'[i].rows) = Range(log'[j].rows)
  <2>1. i # current
    BY <1>7, AfterReply
  <2>2. reply[i] # Waiting
    BY <1>7, <2>1, AfterReply
  <2>3. i < current
    BY <1>7, <2>2, AfterReply
  <2>4. j # current
    BY <1>2, <1>7, <2>3, AfterReply
  <2> QED
    BY <1>3, <1>7, <2>1, <2>4, AfterReply
<1>8. CASE Refused
  BY <1>7, <1>8 DEF Refused
<1>9. CASE SaveDone /\ Replies(Saved)
  BY <1>7, <1>9 DEF SaveDone, Serving
<1>10. CASE ServeResolve /\ \E p \in PlayerIds :
             Replies(Identity(p)) /\ identities'[log[current].token] = p
  BY <1>7, <1>10 DEF ServeResolve, Serving
<1>11. CASE ServeLoad /\ Replies(Loaded(StoredRows(log[current].player)))
  <2> DEFINE p == log[current].player
             a == Loaded(StoredRows(p))
  <2>1. /\ log' = log /\ current \in 1..Len(log) /\ reply'[current] = a
        /\ \A k \in 1..Len(log) : k # current => reply'[k] = reply[k]
        /\ \A k \in 1..Len(log) : reply[k] = Waiting <=> k >= current
        /\ log[current].op = "load"
    BY <1>11, AfterReply DEF ServeLoad, Serving
  <2>2. p \in PlayerIds
    BY <2>1, ChannelFacts, Calls
  <2>3. a # Saved /\ a.rows = StoredRows(p)
    BY <2>2, StoredAreHeld, AnswersDiffer DEF StoreTypes
  <2>4. j # current /\ reply[j] = Saved
    BY <2>1, <2>3
  <2>5. CASE i # current
    BY <1>3, <2>1, <2>4, <2>5
  <2>6. CASE i = current
    <3>1. /\ j < current /\ IsSave(j, p)
          /\ \A k \in 1..Len(log) : j < k /\ k < current => ~ IsSave(k, p)
      BY <2>1, <2>6 DEF LastBefore, IsSave
    <3>2. \A k \in 1..Len(log) : k > j /\ IsSave(k, log[j].player) =>
            reply[k] = Waiting /\ ~ (k = current /\ step # 0)
      BY <2>1, <3>1 DEF IsSave
    <3>3. begun[p] = [rows |-> log[j].rows, done |-> TRUE]
      BY <2>1, <2>4, <3>1, <3>2 DEF DoneInv, IsSave
    <3>4. log[j].rows \in Seq(Row) /\ Len(log[j].rows) \in Nat
      BY <2>1, <3>1, ChannelFacts, Calls DEF IsSave
    <3>5. Holds(p, Len(log[j].rows))
      BY <2>2, <3>3 DEF PrefixInv
    <3>6. Range(StoredRows(p)) = {log[j].rows[k] : k \in 1..Len(log[j].rows)}
      <4>1. PICK n \in Nat : n = Len(log[j].rows)
        BY <3>4
      <4>2. StoreTypes /\ Holds(p, n)
        BY <3>5, <4>1
      <4>3. Range(StoredRows(p)) = {begun[p].rows[k] : k \in 1..n}
        BY <2>2, <4>2, HeldIsPrefix, Zenon
      <4>4. begun[p].rows = log[j].rows
        BY <3>3
      <4> QED
        BY <4>1, <4>3, <4>4
    <3> QED
      BY <2>1, <2>3, <2>6, <3>4, <3>6, RangeOfAll
  <2> QED
    BY <2>5, <2>6
<1>12. CASE Exited
  <2>1. reply'[i] = reply[i] /\ reply'[j] = reply[j]
    BY <1>1, <1>12, AfterExit
  <2> QED
    BY <1>3, <1>12, <2>1, AfterExit
<1>13. CASE Emptied
  BY <1>13 DEF Emptied
<1> QED
  BY <1>4, <1>5, <1>6, <1>8, <1>9, <1>10, <1>11, <1>12, <1>13, StepShapes

\* The invariant is inductive.
LEMMA StoreStep ==
  ASSUME StoreInv, PersistenceStep \/ UNCHANGED persistenceVars
  PROVE  StoreInv'
BY ChannelStep, TypesStep, IdentityStep, AnswerStep, PrefixStep, DoneStep, LoadStep DEF StoreInv

\* It holds at the start.
LEMMA StoreStarts == PersistenceInit => StoreInv
<1> SUFFICES ASSUME PersistenceInit PROVE StoreInv
  OBVIOUS
<1>1. /\ log = <<>> /\ current = 0 /\ step = 0 /\ table = [p \in PlayerIds |-> NoRows]
      /\ identities = [t \in Token |-> 0] /\ faults = 0 /\ crashes = 0
      /\ begun = [p \in PlayerIds |-> [rows |-> <<>>, done |-> TRUE]]
  BY DEF PersistenceInit, Channel!Init
<1>2. StoreTypes
  <2>1. [rows |-> <<>>, done |-> TRUE] \in [rows: Seq(Row), done: BOOLEAN]
    OBVIOUS
  <2>2. NoRows \in [Kinds -> Nat]
    BY DEF NoRows
  <2>3. TableOK
    BY <1>1, <2>2 DEF TableOK
  <2>4. begun \in [PlayerIds -> [rows: Seq(Row), done: BOOLEAN]]
    BY <1>1, <2>1
  <2> QED
    BY <1>1, <2>3, <2>4, PersistenceAssumption DEF StoreTypes
<1>3. IdentityInv
  <2>1. Numbered(0)
    BY <1>1 DEF Numbered
  <2> QED
    BY <2>1, TokensAreFinite DEF IdentityInv
<1>4. \A p \in PlayerIds : Holds(p, 0) /\ Len(begun[p].rows) = 0
  BY <1>1 DEF Holds, NoRows
<1>5. AnswerInv /\ DoneInv /\ LoadInv
  BY <1>1 DEF AnswerInv, DoneInv, LoadInv
<1>6. PrefixInv
  BY <1>1, <1>4 DEF PrefixInv, Saving
<1> QED
  BY <1>2, <1>3, <1>5, <1>6, ChannelStarts DEF StoreInv

\* The server saves for players it knows, rows it has.
LEMMA ServerSteps ==
  ASSUME StoreInv, PersistenceNext
  PROVE  PersistenceStep
<1>1. Known \subseteq PlayerIds
  <2>1. PICK m \in 0..Cardinality(Token) : Numbered(m)
    BY DEF StoreInv, IdentityInv
  <2>2. \A t \in Token : identities[t] \in 0..Cardinality(Token)
    BY <2>1, TokensAreFinite DEF Numbered
  <2> QED
    BY <2>1, <2>2, TokensAreFinite DEF Known, Range, Numbered, PlayerIds
<1> QED
  BY <1>1, PersistenceAssumption DEF PersistenceNext, PersistenceStep

\* The invariant holds in every reachable state.
THEOREM StoreInvariant == PersistenceSpec => []StoreInv
<1>1. StoreInv /\ [PersistenceNext]_persistenceVars => StoreInv'
  BY StoreStep, ServerSteps
<1> QED
  BY <1>1, StoreStarts, PTL DEF PersistenceSpec

\* The service is the channel with commands that have content: between two restarts of the
\* process each of its steps is one of CommandChannel, or one on the tables alone.
THEOREM PersistenceUsesChannel ==
  PersistenceSpec =>
    Channel!Init /\ [][Channel!Next \/ ResetChannel]_<<log, queue, current, reply, blocked, alive>>
<1>1. ASSUME StoreInv, PersistenceNext
      PROVE  \/ Channel!Next \/ ResetChannel
             \/ UNCHANGED <<log, queue, current, reply, blocked, alive>>
  <2>1. ChannelMove \/ ResetChannel
    BY <1>1, ServerSteps, ChannelUse DEF StoreInv
  <2> QED
    BY <2>1, Zenon DEF ChannelMove, Channel!Next
<1>2. StoreInv /\ [PersistenceNext]_persistenceVars =>
        [Channel!Next \/ ResetChannel]_<<log, queue, current, reply, blocked, alive>>
  BY <1>1 DEF persistenceVars
<1>3. PersistenceInit => Channel!Init
  BY DEF PersistenceInit
<1> QED
  BY <1>2, <1>3, StoreInvariant, PTL DEF PersistenceSpec

\* What the channel promises holds of it inside the service, saves, faults and restarts around
\* it: answers in order, a bounded buffer, calls that are barriers and that are served.
THEOREM ChannelPromisesKept ==
  PersistenceSpec =>
    [](Channel!InOrder /\ Channel!Bounded /\ Channel!DispatchIsBarrier /\ Chan!CallIsServed)
<1>1. ASSUME StoreInv
      PROVE  Chan!InOrder /\ Chan!Bounded /\ Chan!DispatchIsBarrier /\ Chan!CallIsServed
  <2>1. Chan!ChannelInv /\ Chan!ChannelAssumption
    BY <1>1, ChannelParameters DEF StoreInv, ChannelInv, Chan!ChannelAssumption
  <2>2. Chan!Bounded /\ Chan!DispatchIsBarrier /\ Chan!CallIsServed
    BY <2>1, Chan!InvKeepsPromises
  <2> QED
    BY <2>1, <2>2 DEF Chan!ChannelInv
<1>2. Chan!InOrder => Channel!InOrder
  BY DEF Chan!InOrder, Channel!InOrder, Chan!Unanswered, Channel!Unanswered, Chan!Ids, Channel!Ids
<1>3. Chan!Bounded => Channel!Bounded
  BY DEF Chan!Bounded, Channel!Bounded, Chan!Unanswered, Channel!Unanswered
<1>4. Chan!DispatchIsBarrier => Channel!DispatchIsBarrier
  BY DEF Chan!DispatchIsBarrier, Channel!DispatchIsBarrier, Chan!Unanswered, Channel!Unanswered
<1> QED
  BY <1>1, <1>2, <1>3, <1>4, StoreInvariant, PTL

\* The invariant gives the types.
LEMMA StoreHasTypes == StoreInv => PersistenceTypeOK
<1> SUFFICES ASSUME StoreInv PROVE PersistenceTypeOK
  OBVIOUS
<1>1. identities \in [Token -> {0} \cup PlayerIds]
  <2>1. PICK m \in 0..Cardinality(Token) : Numbered(m)
    BY DEF StoreInv, IdentityInv
  <2>2. \A n \in 0..m : n \in {0} \cup PlayerIds
    BY TokensAreFinite DEF PlayerIds
  <2> QED
    BY <2>1, <2>2 DEF Numbered
<1> QED
  BY <1>1, ChannelFacts DEF StoreInv, StoreTypes, TableOK, PersistenceTypeOK

\* Type correctness of the service: MAX + 1 never leaves the ids there is a token for.
THEOREM PersistenceTypes == PersistenceSpec => []PersistenceTypeOK
BY StoreHasTypes, StoreInvariant, PTL

\* It gives every player id to one token.
LEMMA StoreUnique == StoreInv => IdentitiesUnique
<1> SUFFICES ASSUME StoreInv PROVE IdentitiesUnique
  OBVIOUS
<1>1. \A t, u \in Token : identities[t] = identities[u] => t = u \/ identities[t] = 0
  BY DEF StoreInv, IdentityInv, Numbered
<1>2. ASSUME NEW i \in Channel!Ids, log[i].op = "resolve",
             reply[i] \notin {Waiting, Closed, Failed}
      PROVE  reply[i].player = identities[log[i].token]
  <2>1. reply[i] = Identity(identities[log[i].token])
    BY <1>2 DEF StoreInv, AnswerInv, Channel!Ids
  <2> QED
    BY <2>1 DEF Identity
<1> QED
  BY <1>1, <1>2 DEF IdentitiesUnique

\* No two tokens share an id (resolve_identity takes MAX + 1), and a look-up
\* is answered with the id that is stored.
THEOREM IdentitiesAreUnique == PersistenceSpec => []IdentitiesUnique
BY StoreUnique, StoreInvariant, PTL

\* No statement, fault, death of the worker or restart changes the id of a token.
THEOREM IdentitiesAreKept == PersistenceSpec => IdentityStable
<1>1. StoreInv /\ [PersistenceNext]_persistenceVars
        => [\A t \in Token : identities[t] # 0 => identities'[t] = identities[t]]_persistenceVars
  BY ServerSteps, IdentityStep DEF StoreInv
<1> QED
  BY <1>1, StoreInvariant, PTL DEF PersistenceSpec, IdentityStable

\* It leaves a prefix of one save in the table of a player.
LEMMA StoreUnmixed == StoreInv => NeverMixed
<1> SUFFICES ASSUME StoreInv, NEW p \in PlayerIds
             PROVE  \E n \in 0..Len(begun[p].rows) :
                      Range(StoredRows(p)) = Range(SubSeq(begun[p].rows, 1, n))
  BY DEF NeverMixed
<1>1. PICK n \in Nat : Holds(p, n)
  BY DEF StoreInv, PrefixInv
<1>2. begun[p].rows \in Seq(Row) /\ n \in 0..Len(begun[p].rows)
  BY <1>1 DEF StoreInv, StoreTypes, Holds
<1>3. /\ SubSeq(begun[p].rows, 1, n) \in Seq(Row) /\ Len(SubSeq(begun[p].rows, 1, n)) = n
      /\ \A j \in 1..n : SubSeq(begun[p].rows, 1, n)[j] = begun[p].rows[j]
  BY <1>2
<1>4. Range(SubSeq(begun[p].rows, 1, n)) = {begun[p].rows[j] : j \in 1..n}
  <2> DEFINE first == SubSeq(begun[p].rows, 1, n)
  <2>1. /\ first \in Seq(Row) /\ Len(first) = n
        /\ \A j \in 1..n : first[j] = begun[p].rows[j]
    BY <1>3
  <2> HIDE DEF first
  <2>2. Range(first) = {first[j] : j \in 1..n}
    BY <2>1, RangeOfAll
  <2>3. Range(first) = {begun[p].rows[j] : j \in 1..n}
    BY <2>1, <2>2
  <2> QED
    BY <2>3 DEF first
<1>5. Range(StoredRows(p)) = {begun[p].rows[j] : j \in 1..n}
  BY <1>1, HeldIsPrefix DEF StoreInv
<1> QED
  BY <1>2, <1>4, <1>5

\* The table of a player holds a prefix of one save, whatever interrupts save_inventory.
THEOREM SavesDoNotMix == PersistenceSpec => []NeverMixed
BY StoreUnmixed, StoreInvariant, PTL

\* It keeps an acknowledged save whole in the table.
LEMMA StoreStays == StoreInv => AcknowledgedStays
<1> SUFFICES ASSUME StoreInv, NEW p \in PlayerIds, begun[p].done
             PROVE  Range(StoredRows(p)) = Range(begun[p].rows)
  BY DEF AcknowledgedStays
<1>1. begun[p].rows \in Seq(Row) /\ Len(begun[p].rows) \in Nat
  BY DEF StoreInv, StoreTypes
<1>2. Holds(p, Len(begun[p].rows))
  BY DEF StoreInv, PrefixInv
<1>3. Range(StoredRows(p)) = {begun[p].rows[j] : j \in 1..Len(begun[p].rows)}
  BY <1>1, <1>2, HeldIsPrefix DEF StoreInv
<1> QED
  BY <1>1, <1>3, RangeOfAll

\* The rows of an acknowledged save are those in the table until a later save begins.
THEOREM SavesStay == PersistenceSpec => []AcknowledgedStays
BY StoreStays, StoreInvariant, PTL

\* The last save before a command, as LastSave chooses it.
LEMMA LastSaveIsLast ==
  ASSUME ChannelInv, NEW i \in 1..Len(log), NEW p
  PROVE  LET j == LastSave(p, i)
         IN  j # 0 => /\ j \in 1..Len(log) /\ j < i /\ IsSave(j, p)
                      /\ \A k \in 1..Len(log) : j < k /\ k < i => ~ IsSave(k, p)
<1> DEFINE saves == {k \in 1..(i - 1) : log[k].op = "save" /\ log[k].player = p}
<1>1. Len(log) \in Nat /\ i \in Nat
  BY ChannelFacts
<1>2. CASE saves = {}
  BY <1>2 DEF LastSave
<1>3. CASE saves # {}
  <2>1. saves \subseteq 0..i
    BY <1>1
  <2>2. \E m \in saves : \A k \in saves : k <= m
    <3> HIDE DEF saves
    <3> QED
      BY <1>1, <1>3, <2>1, GreatestNatural
  <2>3. LastSave(p, i) = CHOOSE j \in saves : \A other \in saves : other <= j
    BY <1>3 DEF LastSave
  <2>4. LastSave(p, i) \in saves /\ \A k \in saves : k <= LastSave(p, i)
    <3> HIDE DEF saves
    <3> QED
      BY <2>2, <2>3
  <2>5. \A k \in 1..Len(log) : LastSave(p, i) < k /\ k < i => ~ IsSave(k, p)
    <3> SUFFICES ASSUME NEW k \in 1..Len(log), LastSave(p, i) < k, k < i, IsSave(k, p)
                 PROVE  FALSE
      OBVIOUS
    <3>1. k \in saves
      BY <1>1 DEF IsSave
    <3>2. k <= LastSave(p, i) /\ LastSave(p, i) \in Nat
      BY <2>4, <3>1
    <3> QED
      BY <3>2
  <2> QED
    BY <1>1, <2>4, <2>5 DEF IsSave
<1> QED
  BY <1>2, <1>3

\* It lets every answered load return the save before it.
LEMMA StoreLoads == StoreInv => LoadReturnsLastSave
<1> SUFFICES ASSUME StoreInv, NEW i \in 1..Len(log), log[i].op = "load",
                    reply[i] \notin {Waiting, Closed, Failed},
                    NEW j, j = LastSave(log[i].player, i), j # 0, reply[j] = Saved
             PROVE  Range(reply[i].rows) = Range(log[j].rows)
  BY DEF LoadReturnsLastSave, Channel!Ids
<1>1. /\ j \in 1..Len(log) /\ j < i /\ IsSave(j, log[i].player)
      /\ \A k \in 1..Len(log) : j < k /\ k < i => ~ IsSave(k, log[i].player)
  BY LastSaveIsLast DEF StoreInv
<1> QED
  BY <1>1 DEF StoreInv, LoadInv, LastBefore

\* A load of handle_identity_hello returns the rows of the last save sent before it.
THEOREM LoadsSeeSaves == PersistenceSpec => []LoadReturnsLastSave
BY StoreLoads, StoreInvariant, PTL
=============================================================================
