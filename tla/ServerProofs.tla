---------------------------- MODULE ServerProofs ----------------------------
(***************************************************************************)
(* Proofs about the server and what it keeps: sessions and their answers   *)
(* agree, the server never holds more players than its capacity, and the   *)
(* map leads from a player to the link of its body; the rows of the tables *)
(* and the certificate outlast what fails around them; a server that runs  *)
(* has the whole of a valid world; and all of it, with what WorldProofs    *)
(* says of the world, holds of the server that MCServer puts together.     *)
(***************************************************************************)
EXTENDS MCServer, WorldProofs

\* Everything a client has been or will be told.
ToldIn(from, waiting, l) == from[l] \o waiting[l]
Heard(l) == ToldIn(received, outbox, l)

\* A command after which a link is no longer a pending session.
Settles(c, l) ==
  \/ c.op = "despawn" /\ l \in c.links
  \/ c.op = "join" /\ l = c.link

-----------------------------------------------------------------------------
(* Session: the answers. *)

AnswersInv ==
  /\ \A l \in Link : Len(Heard(l)) <= 1
  /\ \A l \in left : Heard(l) = <<>> /\ l \in Pending
  /\ \A l \in Link : link[l].entity = "unused" => Heard(l) = <<>>
  /\ \A l \in Pending : Heard(l) # <<>> => \E i \in 1..Len(cmds) : Settles(cmds[i], l)
  /\ "hello" \in todo => cmds = <<>> /\ left = {}
  /\ \A p \in Player : clientOf[p] # NoLink => Heard(clientOf[p]) = <<"welcome">>
  /\ \A l \in cheered : Heard(l) = <<"welcome">>

(* The number of players *)

Spawning == {b \in Body : body[b].state = "spawning"}
InWorld == {b \in Body : body[b].state \in {"spawning", "live"}}
Join(i) == i \in 1..Len(cmds) /\ cmds[i].op = "join"

CountInv ==
  /\ Cardinality(Spawning) + Cardinality(left) <= pendingAtStart
  /\ \A b \in Spawning : \E i \in 1..Len(cmds) : Join(i) /\ cmds[i].body = b
  /\ \A i \in 1..Len(cmds) : Join(i) => cmds[i].body \in Spawning
  /\ \A i, j \in 1..Len(cmds) :
       Join(i) /\ Join(j) /\ cmds[i].body = cmds[j].body => i = j
  /\ Capacity

(* The delivery of the answers: a run has its sending still to come, who stands and is
   not pending was welcomed, and between two runs no link that stands has an answer left
   in its sender. *)

DeliveryInv ==
  /\ todo # {} \/ left # {} \/ cmds # <<>> => "send" \in todo
  /\ \A l \in Link : Present(l) /\ ~link[l].pending => Heard(l) = <<"welcome">>
  /\ todo = {} => \A l \in Link : Present(l) => outbox[l] = <<>>

(* Who plays what *)

\* The link plays the player, and no command is left that would end it.
Plays(l, p) ==
  /\ link[l].player = p
  /\ link[l].body \in Body
  /\ body[link[l].body] = [state |-> "live", id |-> p, owner |-> l]
  /\ \A i \in 1..Len(cmds) :
       /\ ~Settles(cmds[i], l)
       /\ cmds[i].op = "despawn" => link[l].body \notin cmds[i].bodies

\* The command at i will make it play, and none after it will end that.
WillPlay(l, p, i) ==
  /\ Join(i) /\ cmds[i].link = l
  /\ body[cmds[i].body] = [state |-> "spawning", id |-> p, owner |-> l]
  /\ \A j \in 1..Len(cmds) :
       /\ j > i => ~Settles(cmds[j], l)
       /\ j > i /\ cmds[j].op = "despawn" => cmds[i].body \notin cmds[j].bodies
       /\ j # i /\ Join(j) => cmds[j].link # l

Mapped(l, p) == Plays(l, p) \/ \E i \in 1..Len(cmds) : WillPlay(l, p, i)

MapInv ==
  /\ \A p, q \in Player : clientOf[p] = clientOf[q] /\ clientOf[p] # NoLink => p = q
  /\ \A i \in 1..Len(cmds) : Join(i) => Heard(cmds[i].link) = <<"welcome">>
  /\ \A p \in Player, l \in Link :
       clientOf[p] = l /\ link[l].entity = "connected" => Mapped(l, p)

SessionInv == SessionTypeOK /\ AnswersInv /\ CountInv /\ MapInv /\ DeliveryInv

USE SessionAssumption DEF SessionAssumption, entities, social, run, messages, Heard

-----------------------------------------------------------------------------
(* Session: types. *)

\* The components of a link, one changed.
LEMMA LinkWith ==
  ASSUME NEW s \in LinkStates
  PROVE  /\ s.entity \in {"unused", "connected", "disconnected", "despawned"}
         /\ s.player \in Player \cup {NoPlayer} /\ s.body \in Body \cup {NoBody}
         /\ \A e \in {"unused", "connected", "disconnected", "despawned"} :
              [s EXCEPT !.entity = e] \in LinkStates
         /\ [s EXCEPT !.entity = "connected", !.pending = TRUE] \in LinkStates
         /\ \A p \in Player \cup {NoPlayer}, b \in Body \cup {NoBody} :
              [s EXCEPT !.pending = FALSE, !.player = p, !.body = b] \in LinkStates
BY DEF LinkStates

\* The components of a player entity, one changed.
LEMMA BodyWith ==
  ASSUME NEW s \in BodyStates
  PROVE  /\ s.state \in {"unused", "spawning", "live", "despawned"}
         /\ s.id \in Player \cup {NoPlayer} /\ s.owner \in Link \cup {NoLink}
         /\ \A st \in {"unused", "spawning", "live", "despawned"} :
              [s EXCEPT !.state = st] \in BodyStates
BY DEF BodyStates

\* The player entity a welcome spawns.
LEMMA NewBody ==
  ASSUME NEW p \in Player, NEW l \in Link
  PROVE  [state |-> "spawning", id |-> p, owner |-> l] \in BodyStates
BY DEF BodyStates

\* The commands the handshake queues.
LEMMA NewCommands ==
  /\ \A B \in SUBSET Body, L \in SUBSET Link :
       [op |-> "despawn", bodies |-> B, links |-> L] \in Commands
  /\ \A l \in Link, b \in Body : [op |-> "join", link |-> l, body |-> b] \in Commands
  /\ \A c \in Commands : c.op = "despawn" => c.bodies \subseteq Body /\ c.links \subseteq Link
  /\ \A c \in Commands : c.op = "join" => c.link \in Link /\ c.body \in Body
  /\ \A c \in Commands : c.op \in {"despawn", "join"}
BY DEF Commands

\* What Welcome does for a token and a body.
Welcomes(l, t, b) ==
  LET p == IdentityOf[t] IN
  /\ t \in Token /\ b \in Body /\ p \in Player
  /\ body[b].state = "unused"
  /\ issued' = issued \cup {t}
  /\ body' = [body EXCEPT ![b] = [state |-> "spawning", id |-> p, owner |-> l]]
  /\ cmds' = cmds \o
       << [op |-> "despawn", bodies |-> StaleBodies(p), links |-> StaleLinks(p, l)],
          [op |-> "join", link |-> l, body |-> b] >>
  /\ roster' = roster \cup {p}
  /\ clientOf' = [clientOf EXCEPT ![p] = l]
  /\ outbox' = [outbox EXCEPT ![l] = Append(@, "welcome")]
  /\ l \in left /\ left' = left \ {l} /\ ~Full
  /\ UNCHANGED <<link, removed, todo, pendingAtStart, applying, received, cheered, faults>>

\* A welcome with its token and its player entity named.
LEMMA WelcomeWelcomes ==
  ASSUME SessionTypeOK, NEW l \in Link, NEW h \in Hellos, Welcome(l, h)
  PROVE  \E t \in Token, b \in Body : Welcomes(l, t, b)
<1>1. PICK t \in TokensFor(h), b \in Body :
        LET p == IdentityOf[t] IN
        /\ body[b].state = "unused" /\ IsNextBody(b)
        /\ issued' = issued \cup {t}
        /\ body' = [body EXCEPT ![b] = [state |-> "spawning", id |-> p, owner |-> l]]
        /\ cmds' = cmds \o
             << [op |-> "despawn", bodies |-> StaleBodies(p), links |-> StaleLinks(p, l)],
                [op |-> "join", link |-> l, body |-> b] >>
        /\ roster' = roster \cup {p}
        /\ clientOf' = [clientOf EXCEPT ![p] = l]
  BY DEF Welcome
<1>2. t \in Token
  BY DEF Welcome, Taking, TokensFor, Hellos, SessionTypeOK
<1>3. IdentityOf[t] \in Player
  BY <1>2
<1>4. Welcomes(l, t, b)
  BY <1>1, <1>2, <1>3 DEF Welcome, Taking, Welcomes
<1> QED
  BY <1>2, <1>4

\* What the three refusals have in common.
Refuses(l) ==
  /\ l \in left /\ left' = left \ {l}
  /\ \E reason \in Answers : outbox' = [outbox EXCEPT ![l] = Append(@, reason)]
  /\ cmds' = Append(cmds, [op |-> "despawn", bodies |-> {}, links |-> {l}])
  /\ faults' \in {faults, faults + 1} /\ (faults' # faults => faults < MaxFaults)
  /\ UNCHANGED <<link, body, issued, roster, clientOf, removed, todo, pendingAtStart, applying,
                 received, cheered>>

\* The three refusals are one kind of step: an answer, and a command to despawn the link.
LEMMA RejectRefuses ==
  ASSUME NEW l \in Link, NEW h,
         RejectProtocol(l, h) \/ RejectFull(l, h) \/ RejectIdentity(l, h)
  PROVE  Refuses(l)
BY DEF RejectProtocol, RejectFull, RejectIdentity, Reject, Taking, Refuses, Answers

\* The links that any query returns can be counted.
LEMMA SubsetIsFinite ==
  ASSUME SessionTypeOK, NEW S \in SUBSET Link
  PROVE  IsFiniteSet(S) /\ Cardinality(S) \in Nat
BY FS_Subset, FS_CardinalityType

\* One answer more in the senders of one link.
LEMMA SaysMore ==
  ASSUME NEW box \in [Link -> Seq(Answers)], NEW l \in Link, NEW a \in Answers
  PROVE  /\ [box EXCEPT ![l] = Append(@, a)] \in [Link -> Seq(Answers)]
         /\ \A k \in Link : [box EXCEPT ![l] = Append(@, a)][k] =
              IF k = l THEN Append(box[l], a) ELSE box[k]
<1>1. Append(box[l], a) \in Seq(Answers)
  BY AppendProperties
<1> QED
  BY <1>1

\* Every step of the network, of the systems and of a synchronisation point keeps the
\* entities, the resources and the queue of commands typed.
LEMMA SessionTypeStep ==
  ASSUME SessionTypeOK, [SessionNext]_session
  PROVE  SessionTypeOK'
<1> USE DEF SessionTypeOK
<1>1. ASSUME NEW l \in Link, OnClientConnected(l)
      PROVE  SessionTypeOK'
  <2>1. link' \in [Link -> LinkStates]
    BY <1>1, LinkWith DEF OnClientConnected
  <2> QED
    BY <1>1, <2>1 DEF OnClientConnected
<1>2. ASSUME NEW l \in Link, Disconnect(l)
      PROVE  SessionTypeOK'
  <2>1. link' \in [Link -> LinkStates]
    BY <1>2, LinkWith DEF Disconnect
  <2>2. body' \in [Body -> BodyStates]
    BY <1>2, BodyWith DEF Disconnect
  <2> QED
    BY <1>2, <2>1, <2>2 DEF Disconnect
<1>3. ASSUME NEW l \in Link, DespawnDisconnected(l)
      PROVE  SessionTypeOK'
  <2>1. link' \in [Link -> LinkStates]
    BY <1>3, LinkWith DEF DespawnDisconnected
  <2> QED
    BY <1>3, <2>1 DEF DespawnDisconnected
<1>4. ASSUME NEW l \in Link, RemovalExpires(l)
      PROVE  SessionTypeOK'
  BY <1>4 DEF RemovalExpires
<1>5. CASE FixedUpdate
  BY <1>5 DEF FixedUpdate
<1>6. CASE HelloStarts
  <2>1. Pending \subseteq Link
    BY DEF Pending
  <2> QED
    BY <1>6, <2>1, SubsetIsFinite DEF HelloStarts
<1>7. ASSUME NEW l \in Link, Refuses(l)
      PROVE  SessionTypeOK'
  <2>1. cmds' \in Seq(Commands)
    <3>1. {} \in SUBSET Body /\ {l} \in SUBSET Link
      OBVIOUS
    <3>2. [op |-> "despawn", bodies |-> {}, links |-> {l}] \in Commands
      BY <3>1, NewCommands
    <3> QED
      BY <1>7, <3>2, AppendProperties DEF Refuses
  <2>2. outbox' \in [Link -> Seq(Answers)]
    BY <1>7, SaysMore DEF Refuses
  <2>3. faults' \in 0..MaxFaults
    BY <1>7 DEF Refuses
  <2> QED
    BY <1>7, <2>1, <2>2, <2>3 DEF Refuses
<1>8. ASSUME NEW l \in Link, NEW t \in Token, NEW b \in Body, Welcomes(l, t, b)
      PROVE  SessionTypeOK'
  <2> DEFINE p == IdentityOf[t]
             d == [op |-> "despawn", bodies |-> StaleBodies(p), links |-> StaleLinks(p, l)]
             j == [op |-> "join", link |-> l, body |-> b]
  <2>1. p \in Player
    OBVIOUS
  <2>2. d \in Commands /\ j \in Commands
    <3>1. StaleBodies(p) \subseteq Body /\ StaleLinks(p, l) \subseteq Link
      BY <2>1 DEF StaleBodies, Players, StaleLinks
    <3> QED
      BY <3>1, NewCommands
  <2>3. cmds' \in Seq(Commands)
    <3>1. cmds' = cmds \o <<d, j>>
      BY <1>8 DEF Welcomes
    <3> HIDE DEF d, j
    <3>2. <<d, j>> \in Seq(Commands)
      BY <2>2
    <3> QED
      BY <3>1, <3>2, ConcatProperties
  <2>4. outbox' \in [Link -> Seq(Answers)]
    BY <1>8, SaysMore DEF Welcomes, Answers
  <2>5. body' \in [Body -> BodyStates]
    BY <1>8, <2>1, NewBody DEF Welcomes
  <2>6. /\ issued' \subseteq Token /\ roster' \subseteq Player
        /\ clientOf' \in [Player -> Link \cup {NoLink}]
    BY <1>8, <2>1 DEF Welcomes
  <2> QED
    BY <1>8, <2>3, <2>4, <2>5, <2>6 DEF Welcomes
<1>9. CASE Apply
  <2>1. cmds # <<>> /\ Head(cmds) \in Commands /\ cmds' \in Seq(Commands) /\ applying' \in BOOLEAN
    BY <1>9, HeadTailProperties DEF Apply
  <2>2. CASE Head(cmds).op = "despawn" /\ Despawn(Head(cmds))
    <3>1. link' \in [Link -> LinkStates]
      BY <2>2, LinkWith DEF Despawn
    <3>2. body' \in [Body -> BodyStates]
      <4>1. PICK gone :
              body' = [b \in Body |-> IF b \in gone /\ body[b].state = "live"
                                      THEN [body[b] EXCEPT !.state = "despawned"] ELSE body[b]]
        BY <2>2 DEF Despawn
      <4>2. \A b \in Body : [body[b] EXCEPT !.state = "despawned"] \in BodyStates
        BY BodyWith
      <4> QED
        BY <4>1, <4>2
    <3>3. removed' \subseteq Link
      BY <2>1, <2>2, NewCommands DEF Despawn
    <3> QED
      BY <1>9, <2>1, <3>1, <3>2, <3>3 DEF Apply
  <2>3. CASE Head(cmds).op = "join" /\ JoinWorld(Head(cmds))
    <3> DEFINE c == Head(cmds)
    <3>1. c.link \in Link /\ c.body \in Body
      BY <2>1, <2>3, NewCommands
    <3>2. link' \in [Link -> LinkStates]
      <4>1. body[c.body].id \in Player \cup {NoPlayer}
        BY <3>1, BodyWith
      <4>2. link' = [link EXCEPT ![c.link].pending = FALSE,
                                 ![c.link].player = body[c.body].id,
                                 ![c.link].body = c.body]
        BY <2>3 DEF JoinWorld
      <4>3. link' = [link EXCEPT ![c.link] =
                       [link[c.link] EXCEPT !.pending = FALSE, !.player = body[c.body].id,
                                            !.body = c.body]]
        BY <3>1, <4>2
      <4> QED
        BY <3>1, <4>1, <4>3, LinkWith
    <3>3. body' \in [Body -> BodyStates]
      BY <2>3, <3>1, BodyWith DEF JoinWorld
    <3> QED
      BY <1>9, <2>1, <2>3, <3>2, <3>3 DEF Apply, JoinWorld
  <2> QED
    BY <1>9, <2>2, <2>3 DEF Apply
<1>10. CASE Cleanup
  <2>1. roster' \subseteq Player /\ clientOf' \in [Player -> Link \cup {NoLink}]
    BY <1>10 DEF Cleanup
  <2> QED
    BY <1>10, <2>1 DEF Cleanup
<1>11. CASE HandleEmotes
  BY <1>11 DEF HandleEmotes
<1>12. CASE Transmit
  <2>1. received' \in [Link -> Seq(Answers)] /\ outbox' \in [Link -> Seq(Answers)]
    BY <1>12, ConcatProperties DEF Transmit
  <2> QED
    BY <1>12, <2>1 DEF Transmit
<1>13. CASE UNCHANGED session
  BY <1>13 DEF session
<1> QED
  BY <1>1, <1>2, <1>3, <1>4, <1>5, <1>6, <1>7, <1>8, <1>9, <1>10, <1>11, <1>12, <1>13,
     RejectRefuses, WelcomeWelcomes DEF SessionNext, Network, RunStep, HelloStep

-----------------------------------------------------------------------------
(* Session: the queue of commands and the answers, action by action. *)

\* What a refusal queues.
LEMMA RefusalQueued ==
  ASSUME SessionTypeOK, NEW l \in Link, Refuses(l)
  PROVE  /\ Len(cmds) \in Nat /\ Len(cmds') = Len(cmds) + 1
         /\ \A i \in 1..Len(cmds) : cmds'[i] = cmds[i]
         /\ cmds'[Len(cmds) + 1] = [op |-> "despawn", bodies |-> {}, links |-> {l}]
<1> DEFINE d == [op |-> "despawn", bodies |-> {}, links |-> {l}]
<1>1. {} \in SUBSET Body /\ {l} \in SUBSET Link
  OBVIOUS
<1>2. d \in Commands
  BY <1>1, NewCommands
<1>3. cmds' = Append(cmds, d) /\ cmds \in Seq(Commands)
  BY DEF Refuses, SessionTypeOK
<1> HIDE DEF d
<1>4. /\ Len(cmds) \in Nat /\ Len(cmds') = Len(cmds) + 1
      /\ \A i \in 1..Len(cmds) : cmds'[i] = cmds[i]
      /\ cmds'[Len(cmds) + 1] = d
  BY <1>2, <1>3, AppendProperties, LenProperties
<1> QED
  BY <1>4 DEF d

\* What a welcome queues: the stale session goes before the new one joins.
LEMMA WelcomeQueued ==
  ASSUME SessionTypeOK, NEW l \in Link, NEW t \in Token, NEW b \in Body, Welcomes(l, t, b)
  PROVE  LET p == IdentityOf[t] IN
         /\ Len(cmds) \in Nat /\ Len(cmds') = Len(cmds) + 2
         /\ \A i \in 1..Len(cmds) : cmds'[i] = cmds[i]
         /\ cmds'[Len(cmds) + 1] =
              [op |-> "despawn", bodies |-> StaleBodies(p), links |-> StaleLinks(p, l)]
         /\ cmds'[Len(cmds) + 2] = [op |-> "join", link |-> l, body |-> b]
<1> DEFINE p == IdentityOf[t]
           d == [op |-> "despawn", bodies |-> StaleBodies(p), links |-> StaleLinks(p, l)]
           j == [op |-> "join", link |-> l, body |-> b]
<1>1. StaleBodies(p) \subseteq Body /\ StaleLinks(p, l) \subseteq Link
  BY DEF StaleBodies, Players, StaleLinks, SessionTypeOK
<1>2. d \in Commands /\ j \in Commands
  BY <1>1, NewCommands
<1>3. cmds' = cmds \o <<d, j>> /\ cmds \in Seq(Commands)
  BY DEF Welcomes, SessionTypeOK
<1> HIDE DEF d, j
<1>4. <<d, j>> \in Seq(Commands) /\ Len(<<d, j>>) = 2 /\ <<d, j>>[1] = d /\ <<d, j>>[2] = j
  BY <1>2
<1>5. /\ Len(cmds) \in Nat /\ Len(cmds') = Len(cmds) + 2
      /\ \A i \in 1..Len(cmds) + 2 :
           cmds'[i] = IF i <= Len(cmds) THEN cmds[i] ELSE <<d, j>>[i - Len(cmds)]
  BY <1>3, <1>4, ConcatProperties, LenProperties
<1>6. /\ \A i \in 1..Len(cmds) : cmds'[i] = cmds[i]
      /\ cmds'[Len(cmds) + 1] = d /\ cmds'[Len(cmds) + 2] = j
  BY <1>4, <1>5
<1> QED
  BY <1>5, <1>6 DEF d, j

\* The synchronisation point takes the first command.
LEMMA AppliedGone ==
  ASSUME SessionTypeOK, Apply
  PROVE  /\ 1 \in 1..Len(cmds) /\ Len(cmds) \in Nat /\ Len(cmds') = Len(cmds) - 1
         /\ \A i \in 1..Len(cmds') : cmds'[i] = cmds[i + 1] /\ i + 1 \in 1..Len(cmds)
         /\ \A i \in 1..Len(cmds) : i # 1 => i - 1 \in 1..Len(cmds') /\ cmds'[i - 1] = cmds[i]
         /\ Head(cmds) = cmds[1] /\ cmds[1] \in Commands
<1>1. /\ cmds # <<>> /\ cmds' = Tail(cmds) /\ cmds \in Seq(Commands) /\ Len(cmds) \in Nat
  BY LenProperties DEF Apply, SessionTypeOK
<1>2. Len(cmds) # 0
  BY <1>1, EmptySeq
<1>3. /\ Len(cmds') = Len(cmds) - 1
      /\ \A i \in 1..Len(cmds') : cmds'[i] = cmds[i + 1]
  BY <1>1, HeadTailProperties
<1>4. 1 \in 1..Len(cmds) /\ cmds[1] \in Commands /\ Head(cmds) = cmds[1]
  BY <1>1, <1>2, ElementOfSeq
<1> QED
  BY <1>1, <1>2, <1>3, <1>4

\* What a client hears is a sequence of answers.
LEMMA HeardType ==
  ASSUME SessionTypeOK, NEW l \in Link
  PROVE  Heard(l) \in Seq(Answers)
BY ConcatProperties DEF ToldIn, SessionTypeOK

\* The first answer of a link.
LEMMA FirstAnswer ==
  ASSUME SessionTypeOK, NEW l \in Link, NEW a \in Answers, Heard(l) = <<>>,
         received' = received, outbox' = [outbox EXCEPT ![l] = Append(@, a)]
  PROVE  \A k \in Link : Heard(k)' = IF k = l THEN <<a>> ELSE Heard(k)
<1>1. received[l] = <<>> /\ outbox[l] = <<>>
  BY ConcatEqualIffEmpty DEF ToldIn, SessionTypeOK
<1>2. \A k \in Link : outbox'[k] = IF k = l THEN Append(<<>>, a) ELSE outbox[k]
  BY <1>1, SaysMore DEF SessionTypeOK
<1>3. received[l] \o outbox'[l] = <<a>>
  BY <1>1, <1>2
<1> SUFFICES ASSUME NEW k \in Link
             PROVE  received'[k] \o outbox'[k] = IF k = l THEN <<a>> ELSE received[k] \o outbox[k]
  BY DEF ToldIn
<1>4. CASE k = l
  BY <1>3, <1>4
<1>5. CASE k # l
  <2>1. outbox'[k] = outbox[k] /\ received'[k] = received[k]
    BY <1>2, <1>5
  <2>2. received'[k] \o outbox'[k] = received[k] \o outbox[k]
    BY <2>1, Zenon
  <2> QED
    BY <1>5, <2>2, Zenon
<1> QED
  BY <1>4, <1>5

\* Transmitting moves the answers, and loses none.
LEMMA TransmitKeepsHeard ==
  ASSUME SessionTypeOK, Transmit, NEW l \in Link
  PROVE  Heard(l)' = Heard(l)
<1>1. CASE Present(l)
  <2>1. received'[l] = received[l] \o outbox[l] /\ outbox'[l] = <<>>
    BY <1>1 DEF Transmit
  <2>2. Heard(l) \in Seq(Answers)
    BY HeardType
  <2> QED
    BY <2>1, <2>2, ConcatEmptySeq DEF ToldIn
<1>2. CASE ~Present(l)
  BY <1>2 DEF Transmit, ToldIn
<1> QED
  BY <1>1, <1>2

\* One answer is one.
LEMMA OneLong ==
  ASSUME NEW a, NEW s, s = <<a>>
  PROVE  Len(s) <= 1
OBVIOUS

\* A link that handle_identity_hello still visits has heard nothing, is nobody's in the map,
\* and gets its only answer now.
LEMMA AnsweredOnce ==
  ASSUME SessionTypeOK, AnswersInv, NEW l \in left, NEW a \in Answers,
         received' = received, outbox' = [outbox EXCEPT ![l] = Append(@, a)]
  PROVE  /\ l \in Link
         /\ \A k \in Link : Heard(k)' = IF k = l THEN <<a>> ELSE Heard(k)
         /\ \A k \in Link : Len(Heard(k)') <= 1
         /\ \A p \in Player : clientOf[p] # NoLink => clientOf[p] # l
         /\ l \notin cheered
<1>1. l \in Link /\ Heard(l) = <<>>
  BY DEF AnswersInv, SessionTypeOK
<1>2. \A k \in Link : Heard(k)' = IF k = l THEN <<a>> ELSE Heard(k)
  BY <1>1, FirstAnswer
<1>3. <<"welcome">> # <<>> /\ Len(<<a>>) = 1
  OBVIOUS
<1>4. \A k \in Link : Len(Heard(k)') <= 1
  <2> SUFFICES ASSUME NEW k \in Link
               PROVE  Len(Heard(k)') <= 1
    OBVIOUS
  <2>1. CASE k = l
    <3>1. Heard(k)' = <<a>>
      BY <1>2, <2>1
    <3> QED
      BY <3>1, OneLong, Zenon
  <2>2. CASE k # l
    <3>1. Heard(k)' = Heard(k)
      BY <1>2, <2>2
    <3> QED
      BY <3>1 DEF AnswersInv
  <2> QED
    BY <2>1, <2>2
<1>5. \A p \in Player : clientOf[p] # NoLink => clientOf[p] # l
  BY <1>1, <1>3 DEF AnswersInv
<1>6. l \notin cheered
  BY <1>1, <1>3 DEF AnswersInv
<1> QED
  BY <1>1, <1>2, <1>4, <1>5, <1>6

\* The steps that touch neither the answers nor what they depend on.
LEMMA SameAnswers ==
  ASSUME AnswersInv,
         outbox' = outbox, received' = received,
         \A k \in left' : k \in left /\ k \in Pending',
         \A k \in Link : link'[k].entity = "unused" => link[k].entity = "unused",
         \A k \in Pending' : k \in Pending
           /\ ((\E i \in 1..Len(cmds) : Settles(cmds[i], k)) =>
                 \E i \in 1..Len(cmds') : Settles(cmds'[i], k)),
         "hello" \in todo' => cmds' = <<>> /\ left' = {},
         \A p \in Player : clientOf'[p] # NoLink => clientOf'[p] = clientOf[p],
         \A k \in cheered' : k \in cheered \/ \E p \in Player : k = clientOf[p] /\ k # NoLink
  PROVE  AnswersInv'
BY DEF AnswersInv

\* The link that got an answer has a command that ends its pending session.
LEMMA OneMoreAnswer ==
  ASSUME SessionTypeOK, AnswersInv, NEW l \in left, NEW a \in Answers,
         received' = received, outbox' = [outbox EXCEPT ![l] = Append(@, a)],
         left' = left \ {l}, link' = link, cheered' = cheered, todo' = todo,
         Len(cmds) \in Nat, Len(cmds') \in Nat, Len(cmds') > Len(cmds),
         \A i \in 1..Len(cmds) : cmds'[i] = cmds[i],
         Settles(cmds'[Len(cmds')], l),
         \A p \in Player : clientOf'[p] = clientOf[p] \/ (clientOf'[p] = l /\ a = "welcome")
  PROVE  AnswersInv'
<1> USE DEF AnswersInv
<1>1. /\ l \in Link
      /\ \A k \in Link : Heard(k)' = IF k = l THEN <<a>> ELSE Heard(k)
      /\ \A k \in Link : Len(Heard(k)') <= 1
      /\ \A p \in Player : clientOf[p] # NoLink => clientOf[p] # l
      /\ l \notin cheered
  BY AnsweredOnce
<1>2. Pending' = Pending /\ l \in Pending
  BY DEF Pending, Present
<1>3. \A k \in left' : Heard(k)' = <<>> /\ k \in Pending'
  BY <1>1, <1>2 DEF SessionTypeOK
<1>4. \A k \in Link : link'[k].entity = "unused" => Heard(k)' = <<>>
  BY <1>1, <1>2 DEF Pending, Present
<1>5. \A k \in Pending' : Heard(k)' # <<>> => \E i \in 1..Len(cmds') : Settles(cmds'[i], k)
  <2> SUFFICES ASSUME NEW k \in Pending', Heard(k)' # <<>>
               PROVE  \E i \in 1..Len(cmds') : Settles(cmds'[i], k)
    OBVIOUS
  <2>1. CASE k = l
    BY <2>1
  <2>2. CASE k # l
    <3>1. k \in Pending /\ Heard(k) # <<>>
      BY <1>1, <1>2, <2>2 DEF Pending
    <3>2. PICK i \in 1..Len(cmds) : Settles(cmds[i], k)
      BY <3>1
    <3>3. i \in 1..Len(cmds') /\ cmds'[i] = cmds[i]
      BY <3>2
    <3> QED
      BY <3>2, <3>3
  <2> QED
    BY <2>1, <2>2
<1>6. "hello" \notin todo'
  OBVIOUS
<1>7. \A p \in Player :
        clientOf'[p] # NoLink => ToldIn(received', outbox', clientOf'[p]) = <<"welcome">>
  <2> SUFFICES ASSUME NEW p \in Player, clientOf'[p] # NoLink
               PROVE  ToldIn(received', outbox', clientOf'[p]) = <<"welcome">>
    OBVIOUS
  <2>1. CASE clientOf'[p] = l /\ a = "welcome"
    BY <1>1, <2>1
  <2>2. CASE clientOf'[p] = clientOf[p]
    <3>1. clientOf[p] \in Link /\ clientOf[p] # l /\ Heard(clientOf[p]) = <<"welcome">>
      BY <1>1, <2>2 DEF SessionTypeOK
    <3> QED
      BY <1>1, <2>2, <3>1
  <2> QED
    BY <2>1, <2>2
<1>8. \A k \in cheered' : Heard(k)' = <<"welcome">>
  BY <1>1 DEF SessionTypeOK
<1> QED
  BY <1>1, <1>3, <1>4, <1>5, <1>6, <1>7, <1>8

\* A link is answered at most once: it stays a pending session until the command queued with
\* its answer is applied, and before that no system visits it again.
LEMMA AnswersStep ==
  ASSUME SessionTypeOK, AnswersInv, [SessionNext]_session
  PROVE  AnswersInv'
<1>t. SessionTypeOK'
  BY SessionTypeStep
<1>1. ASSUME NEW l \in Link, OnClientConnected(l)
      PROVE  AnswersInv'
  <2>1. left = {} /\ todo = {} /\ cmds = <<>> /\ left' = left /\ todo' = todo /\ cmds' = cmds
        /\ outbox' = outbox /\ received' = received /\ clientOf' = clientOf /\ cheered' = cheered
    BY <1>1 DEF OnClientConnected, Quiet
  <2>2. Heard(l) = <<>>
    BY <1>1 DEF OnClientConnected, AnswersInv
  <2>3. \A k \in Link : k # l => link'[k] = link[k]
    BY <1>1 DEF OnClientConnected, SessionTypeOK
  <2>4. link'[l].entity = "connected"
    BY <1>1 DEF OnClientConnected, SessionTypeOK, LinkStates
  <2>5. \A k \in Pending' : Heard(k) = <<>>
    <3>1. \A k \in Pending : Heard(k) = <<>>
      BY <2>1 DEF AnswersInv
    <3> QED
      BY <2>2, <2>3, <3>1 DEF Pending, Present
  <2> QED
    BY <2>1, <2>3, <2>4, <2>5 DEF AnswersInv
<1>2. ASSUME NEW l \in Link, Disconnect(l) \/ DespawnDisconnected(l)
      PROVE  AnswersInv'
  <2>1. left = {} /\ todo = {} /\ left' = left /\ todo' = todo /\ cmds' = cmds
        /\ outbox' = outbox /\ received' = received /\ clientOf' = clientOf /\ cheered' = cheered
    BY <1>2 DEF Disconnect, DespawnDisconnected, Quiet
  <2>2. \A k \in Link : k # l => link'[k] = link[k]
    BY <1>2 DEF Disconnect, DespawnDisconnected, SessionTypeOK
  <2>3. /\ link'[l].entity \in {"disconnected", "despawned"} /\ Present(l)
        /\ link'[l].pending = link[l].pending
    BY <1>2 DEF Disconnect, DespawnDisconnected, SessionTypeOK, LinkStates, Present
  <2>4. \A k \in Pending' : k \in Pending
    BY <2>2, <2>3 DEF Pending, Present
  <2> QED
    BY <2>1, <2>2, <2>3, <2>4, SameAnswers
<1>3. ASSUME NEW l \in Link, RemovalExpires(l)
      PROVE  AnswersInv'
  BY <1>3, SameAnswers DEF RemovalExpires, Quiet, Pending, Present
<1>4. CASE FixedUpdate
  BY <1>4, SameAnswers DEF FixedUpdate, Quiet, Pending, Present
<1>5. CASE HelloStarts
  <2>1. /\ "hello" \in todo /\ "hello" \notin todo' /\ cmds' = cmds /\ left' \subseteq Pending
        /\ outbox' = outbox /\ received' = received /\ clientOf' = clientOf /\ cheered' = cheered
        /\ link' = link
    BY <1>5 DEF HelloStarts, Turn
  <2>2. cmds = <<>> /\ \A k \in Pending : Heard(k) = <<>>
    BY <2>1 DEF AnswersInv
  <2>3. Pending' = Pending
    BY <2>1 DEF Pending, Present
  <2> QED
    BY <2>1, <2>2, <2>3 DEF AnswersInv
<1>6. ASSUME NEW l \in Link, Refuses(l)
      PROVE  AnswersInv'
  <2>1. PICK a \in Answers : outbox' = [outbox EXCEPT ![l] = Append(@, a)]
    BY <1>6 DEF Refuses
  <2>2. /\ Len(cmds) \in Nat /\ Len(cmds') \in Nat /\ Len(cmds') > Len(cmds)
        /\ \A i \in 1..Len(cmds) : cmds'[i] = cmds[i]
        /\ cmds'[Len(cmds')] = [op |-> "despawn", bodies |-> {}, links |-> {l}]
    BY <1>6, RefusalQueued
  <2>3. Settles(cmds'[Len(cmds')], l)
    BY <2>2 DEF Settles
  <2>4. /\ l \in left /\ left' = left \ {l} /\ received' = received
        /\ link' = link /\ cheered' = cheered /\ todo' = todo /\ clientOf' = clientOf
    BY <1>6 DEF Refuses
  <2> QED
    BY <2>1, <2>2, <2>3, <2>4, OneMoreAnswer
<1>7. ASSUME NEW l \in Link, NEW t \in Token, NEW b \in Body, Welcomes(l, t, b)
      PROVE  AnswersInv'
  <2>1. "welcome" \in Answers
    BY DEF Answers
  <2>2. Settles(cmds'[Len(cmds')], l)
    <3>1. cmds'[Len(cmds')] = [op |-> "join", link |-> l, body |-> b]
      BY <1>7, WelcomeQueued
    <3> QED
      BY <3>1 DEF Settles
  <2>3. \A p \in Player : clientOf'[p] = clientOf[p] \/ clientOf'[p] = l
    BY <1>7 DEF Welcomes, SessionTypeOK
  <2>4. /\ Len(cmds) \in Nat /\ Len(cmds') \in Nat /\ Len(cmds') > Len(cmds)
        /\ \A i \in 1..Len(cmds) : cmds'[i] = cmds[i]
    <3>1. Len(cmds) \in Nat /\ Len(cmds') = Len(cmds) + 2
      BY <1>7, WelcomeQueued
    <3>2. \A i \in 1..Len(cmds) : cmds'[i] = cmds[i]
      BY <1>7, WelcomeQueued
    <3> QED
      BY <3>1, <3>2
  <2>5. /\ l \in left /\ received' = received
        /\ outbox' = [outbox EXCEPT ![l] = Append(@, "welcome")]
        /\ left' = left \ {l} /\ link' = link /\ cheered' = cheered /\ todo' = todo
    BY <1>7 DEF Welcomes
  <2> QED
    BY <2>1, <2>2, <2>3, <2>4, <2>5, OneMoreAnswer
<1>8. CASE Apply
  <2>1. /\ left = {} /\ left' = left /\ todo' = todo /\ cmds # <<>>
        /\ outbox' = outbox /\ received' = received /\ clientOf' = clientOf /\ cheered' = cheered
    BY <1>8 DEF Apply
  <2>2. "hello" \notin todo
    BY <2>1 DEF AnswersInv
  <2>3. \A k \in Link :
          /\ link'[k].entity = "unused" => link[k].entity = "unused"
          /\ k \in Pending' => k \in Pending /\ ~Settles(cmds[1], k)
    <3>1. CASE Head(cmds).op = "despawn" /\ Despawn(Head(cmds))
      <4>1. \A k \in Link : link'[k] = IF k \in Head(cmds).links /\ Present(k)
                             THEN [link[k] EXCEPT !.entity = "despawned"] ELSE link[k]
        BY <3>1 DEF Despawn
      <4>2. ASSUME NEW k \in Link, k \in Head(cmds).links /\ Present(k)
            PROVE  link'[k].entity = "despawned" /\ ~Present(k)'
        BY <4>1, <4>2 DEF SessionTypeOK, LinkStates, Present
      <4>3. ASSUME NEW k \in Link, ~(k \in Head(cmds).links /\ Present(k))
            PROVE  link'[k] = link[k]
        BY <4>1, <4>3
      <4>4. Head(cmds) = cmds[1]
        BY <1>8, AppliedGone
      <4> QED
        BY <3>1, <4>2, <4>3, <4>4 DEF Pending, Present, Settles
    <3>2. CASE Head(cmds).op = "join" /\ JoinWorld(Head(cmds))
      <4> DEFINE c == Head(cmds)
      <4>1. c = cmds[1] /\ c.link \in Link
        BY <1>8, <3>2, AppliedGone, NewCommands
      <4>2. link' = [link EXCEPT ![c.link].pending = FALSE,
                                 ![c.link].player = body[c.body].id,
                                 ![c.link].body = c.body]
        BY <3>2 DEF JoinWorld
      <4>3. \A k \in Link : k # c.link => link'[k] = link[k]
        BY <4>1, <4>2 DEF SessionTypeOK
      <4>4. link'[c.link].pending = FALSE /\ link'[c.link].entity = link[c.link].entity
        BY <4>1, <4>2 DEF SessionTypeOK, LinkStates
      <4>5. c.link \notin Pending'
        BY <4>4 DEF Pending
      <4> QED
        BY <3>2, <4>1, <4>3, <4>4, <4>5 DEF Pending, Present, Settles
    <3> QED
      BY <1>8, <3>1, <3>2 DEF Apply
  <2>4. ASSUME NEW k \in Pending', NEW i \in 1..Len(cmds), Settles(cmds[i], k)
        PROVE  \E j \in 1..Len(cmds') : Settles(cmds'[j], k)
    <3>1. k \in Link /\ i # 1
      BY <2>3, <2>4 DEF Pending
    <3>2. i - 1 \in 1..Len(cmds') /\ cmds'[i - 1] = cmds[i]
      BY <1>8, <3>1, AppliedGone
    <3> QED
      BY <2>4, <3>2
  <2>5. \A k \in Pending' : k \in Pending
    BY <2>3 DEF Pending
  <2> QED
    BY <2>1, <2>2, <2>3, <2>4, <2>5, SameAnswers
<1>9. CASE Cleanup
  <2>1. \A p \in Player : clientOf'[p] # NoLink => clientOf'[p] = clientOf[p]
    BY <1>9 DEF Cleanup
  <2> QED
    BY <1>9, <2>1, SameAnswers DEF Cleanup, Turn, AnswersInv, Pending, Present
<1>10. CASE HandleEmotes
  <2>1. \A k \in cheered' : k \in cheered \/ \E p \in Player : k = clientOf[p] /\ k # NoLink
    BY <1>10 DEF HandleEmotes, SessionTypeOK
  <2> QED
    BY <1>10, <2>1, SameAnswers DEF HandleEmotes, Turn, AnswersInv, Pending, Present
<1>11. CASE Transmit
  <2>1. \A k \in Link : Heard(k)' = Heard(k)
    BY <1>11, TransmitKeepsHeard
  <2>2. /\ link' = link /\ cmds' = cmds /\ left' = left /\ left = {} /\ todo' = {}
        /\ clientOf' = clientOf /\ cheered' = {}
    BY <1>11 DEF Transmit
  <2>3. Pending' = Pending
    BY <2>2 DEF Pending, Present
  <2>4. \A p \in Player : clientOf[p] # NoLink => clientOf[p] \in Link
    BY DEF SessionTypeOK
  <2> QED
    BY <2>1, <2>2, <2>3, <2>4 DEF AnswersInv, Pending
<1>12. CASE UNCHANGED session
  BY <1>12, SameAnswers DEF session, AnswersInv, Pending, Present
<1> QED
  BY <1>1, <1>2, <1>3, <1>4, <1>5, <1>6, <1>7, <1>8, <1>9, <1>10, <1>11, <1>12,
     RejectRefuses, WelcomeWelcomes DEF SessionNext, Network, RunStep, HelloStep

\* The steps between two runs and those of the systems that answer nothing: no sender changes.
LEMMA SameDelivery ==
  ASSUME DeliveryInv, outbox' = outbox, received' = received,
         todo' # {} \/ left' # {} \/ cmds' # <<>> => "send" \in todo',
         todo' = {} => todo = {},
         \A k \in Link : Present(k)' => Heard(k) = <<>> \/ Present(k),
         \A k \in Link : Present(k)' /\ ~link'[k].pending =>
           Heard(k) = <<"welcome">> \/ (Present(k) /\ ~link[k].pending),
         \A k \in Link : Heard(k) = <<>> => outbox[k] = <<>>
  PROVE  DeliveryInv'
BY DEF DeliveryInv, ToldIn

\* A link that hello visits is answered while the sending of the run is still to come.
LEMMA AnswerWaits ==
  ASSUME SessionTypeOK, AnswersInv, DeliveryInv, NEW l \in left, NEW a \in Answers,
         received' = received, outbox' = [outbox EXCEPT ![l] = Append(@, a)],
         link' = link, todo' = todo
  PROVE  DeliveryInv'
<1>1. l \in Pending /\ "send" \in todo
  BY DEF AnswersInv, DeliveryInv
<1>2. \A k \in Link : k # l => Heard(k)' = Heard(k)
  BY AnsweredOnce
<1>3. \A k \in Link : Present(k)' /\ ~link'[k].pending => Heard(k)' = <<"welcome">>
  BY <1>1, <1>2 DEF DeliveryInv, Present, Pending
<1> QED
  BY <1>1, <1>3 DEF DeliveryInv

\* An answer leaves its sender in the run it is given in, unless its link is despawned first.
LEMMA DeliveryStep ==
  ASSUME SessionTypeOK, AnswersInv, MapInv, DeliveryInv, [SessionNext]_session
  PROVE  DeliveryInv'
<1>0. \A k \in Link : Heard(k) = <<>> => outbox[k] = <<>>
  <2> SUFFICES ASSUME NEW k \in Link, Heard(k) = <<>> PROVE outbox[k] = <<>>
    OBVIOUS
  <2>1. outbox[k] \in Seq(Answers) /\ received[k] \in Seq(Answers)
    BY DEF SessionTypeOK
  <2> QED
    BY <2>1 DEF ToldIn
<1>1. ASSUME NEW l \in Link, OnClientConnected(l)
      PROVE  DeliveryInv'
  <2>1. /\ left = {} /\ todo = {} /\ cmds = <<>> /\ left' = left /\ todo' = todo /\ cmds' = cmds
        /\ outbox' = outbox /\ received' = received
    BY <1>1 DEF OnClientConnected, Quiet
  <2>2. Heard(l) = <<>>
    BY <1>1 DEF OnClientConnected, AnswersInv
  <2>3. \A k \in Link : k # l => link'[k] = link[k]
    BY <1>1 DEF OnClientConnected, SessionTypeOK
  <2>4. link'[l].pending
    BY <1>1 DEF OnClientConnected, SessionTypeOK, LinkStates
  <2> QED
    BY <1>0, <2>1, <2>2, <2>3, <2>4, SameDelivery DEF Present
<1>2. ASSUME NEW l \in Link, Disconnect(l) \/ DespawnDisconnected(l)
      PROVE  DeliveryInv'
  <2>1. /\ left = {} /\ todo = {} /\ cmds = <<>> /\ left' = left /\ todo' = todo /\ cmds' = cmds
        /\ outbox' = outbox /\ received' = received
    BY <1>2 DEF Disconnect, DespawnDisconnected, Quiet
  <2>2. \A k \in Link : k # l => link'[k] = link[k]
    BY <1>2 DEF Disconnect, DespawnDisconnected, SessionTypeOK
  <2>3. Present(l) /\ link'[l].pending = link[l].pending
    BY <1>2 DEF Disconnect, DespawnDisconnected, SessionTypeOK, LinkStates, Present
  <2> QED
    BY <1>0, <2>1, <2>2, <2>3, SameDelivery DEF Present
<1>3. ASSUME NEW l \in Link, RemovalExpires(l)
      PROVE  DeliveryInv'
  BY <1>0, <1>3, SameDelivery DEF RemovalExpires, Quiet, Present
<1>4. CASE FixedUpdate
  BY <1>0, <1>4, SameDelivery DEF FixedUpdate, Quiet, Present, Systems
<1>5. CASE HelloStarts
  BY <1>0, <1>5, SameDelivery DEF HelloStarts, Turn, Present, DeliveryInv
<1>6. ASSUME NEW l \in Link, Refuses(l)
      PROVE  DeliveryInv'
  BY <1>6, AnswerWaits DEF Refuses
<1>7. ASSUME NEW l \in Link, NEW t \in Token, NEW b \in Body, Welcomes(l, t, b)
      PROVE  DeliveryInv'
  <2>1. "welcome" \in Answers
    BY DEF Answers
  <2> QED
    BY <1>7, <2>1, AnswerWaits DEF Welcomes
<1>8. CASE Apply
  <2>1. /\ todo' = todo /\ left' = left /\ outbox' = outbox /\ received' = received
        /\ "send" \in todo
    BY <1>8 DEF Apply, DeliveryInv
  <2>2. CASE Head(cmds).op = "despawn" /\ Despawn(Head(cmds))
    <3>1. \A k \in Link : link'[k] = IF k \in Head(cmds).links /\ Present(k)
                           THEN [link[k] EXCEPT !.entity = "despawned"] ELSE link[k]
      BY <2>2 DEF Despawn
    <3>2. \A k \in Link : Present(k)' => Present(k) /\ link'[k] = link[k]
      BY <3>1 DEF SessionTypeOK, LinkStates, Present
    <3> QED
      BY <1>0, <2>1, <3>2, SameDelivery
  <2>3. CASE Head(cmds).op = "join" /\ JoinWorld(Head(cmds))
    <3> DEFINE c == Head(cmds)
    <3>1. c = cmds[1] /\ c.link \in Link /\ 1 \in 1..Len(cmds)
      BY <1>8, <2>3, AppliedGone, NewCommands
    <3>2. Heard(c.link) = <<"welcome">>
      BY <2>3, <3>1 DEF MapInv, Join
    <3>3. link' = [link EXCEPT ![c.link].pending = FALSE,
                               ![c.link].player = body[c.body].id,
                               ![c.link].body = c.body]
      BY <2>3 DEF JoinWorld
    <3>4. \A k \in Link : k # c.link => link'[k] = link[k]
      BY <3>1, <3>3 DEF SessionTypeOK
    <3>5. Present(c.link)
      BY <2>3 DEF JoinWorld
    <3>6. \A k \in Link : Present(k)' => Present(k)
      BY <3>4, <3>5 DEF Present
    <3> HIDE DEF c
    <3> QED
      BY <1>0, <2>1, <3>2, <3>4, <3>6, SameDelivery
  <2> QED
    BY <1>8, <2>2, <2>3 DEF Apply
<1>9. CASE Cleanup
  BY <1>0, <1>9, SameDelivery DEF Cleanup, Turn, Present, DeliveryInv
<1>10. CASE HandleEmotes
  BY <1>0, <1>10, SameDelivery DEF HandleEmotes, Turn, Present, DeliveryInv
<1>11. CASE Transmit
  <2>1. \A k \in Link : Heard(k)' = Heard(k)
    BY <1>11, TransmitKeepsHeard
  <2>2. /\ link' = link /\ cmds' = <<>> /\ left' = {} /\ todo' = {}
        /\ \A k \in Link : Present(k) => outbox'[k] = <<>>
    BY <1>11 DEF Transmit
  <2> QED
    BY <2>1, <2>2 DEF DeliveryInv, Present
<1>12. CASE UNCHANGED session
  BY <1>0, <1>12, SameDelivery DEF session, Present, DeliveryInv
<1> QED
  BY <1>1, <1>2, <1>3, <1>4, <1>5, <1>6, <1>7, <1>8, <1>9, <1>10, <1>11, <1>12,
     RejectRefuses, WelcomeWelcomes DEF SessionNext, Network, RunStep, HelloStep

-----------------------------------------------------------------------------
(* Session: the number of players, action by action. *)

\* The player entities can be counted.
LEMMA BodiesAreFinite ==
  ASSUME NEW S \in SUBSET Body
  PROVE  IsFiniteSet(S) /\ Cardinality(S) \in Nat
BY FS_Subset, FS_CardinalityType

\* The steps that spawn nobody and queue no command that would.
LEMMA SameCount ==
  ASSUME SessionTypeOK, CountInv, SessionTypeOK',
         Spawning' = Spawning, InWorld' \subseteq InWorld,
         left' \subseteq left, pendingAtStart' = pendingAtStart,
         \A i \in 1..Len(cmds) : Join(i) => \E j \in 1..Len(cmds') : Join(j)' /\ cmds'[j] = cmds[i],
         \A j \in 1..Len(cmds') : Join(j)' => \E i \in 1..Len(cmds) : Join(i) /\ cmds'[j] = cmds[i],
         \A i, j \in 1..Len(cmds') :
           Join(i)' /\ Join(j)' /\ cmds'[i].body = cmds'[j].body => i = j
  PROVE  CountInv'
<1>1. /\ Cardinality(left') <= Cardinality(left)
      /\ Cardinality(left') \in Nat /\ Cardinality(left) \in Nat
  <2>1. left \in SUBSET Link
    BY DEF SessionTypeOK
  <2> QED
    BY <2>1, SubsetIsFinite, FS_Subset
<1>2. Cardinality(Spawning) \in Nat /\ pendingAtStart \in Nat
  BY BodiesAreFinite DEF Spawning, SessionTypeOK
<1>3. Cardinality(Spawning') + Cardinality(left') <= pendingAtStart'
  BY <1>1, <1>2 DEF CountInv
<1>4. Capacity'
  <2>1. InWorld \in SUBSET Body /\ Capacity
    BY DEF InWorld, CountInv
  <2>2. IsFiniteSet(InWorld) /\ Cardinality(InWorld) \in Nat
    BY <2>1, BodiesAreFinite
  <2>3. Cardinality(InWorld') <= Cardinality(InWorld) /\ Cardinality(InWorld') \in Nat
    BY <2>2, FS_Subset, FS_CardinalityType
  <2>4. Cardinality(InWorld') <= MaxPlayers
    BY <2>1, <2>2, <2>3 DEF Capacity, InWorld
  <2> QED
    BY <2>4 DEF Capacity, InWorld
<1>5. \A b \in Spawning' : \E i \in 1..Len(cmds') : Join(i)' /\ cmds'[i].body = b
  <2> SUFFICES ASSUME NEW b \in Spawning
               PROVE  \E i \in 1..Len(cmds') : Join(i)' /\ cmds'[i].body = b
    OBVIOUS
  <2>1. PICK i \in 1..Len(cmds) : Join(i) /\ cmds[i].body = b
    BY DEF CountInv
  <2> QED
    BY <2>1
<1>6. \A i \in 1..Len(cmds') : Join(i)' => cmds'[i].body \in Spawning'
  BY DEF CountInv
<1> QED
  BY <1>3, <1>4, <1>5, <1>6 DEF CountInv

\* A step that queues nothing, admits nobody and leaves the count of the start as it is.
LEMMA SameCommands ==
  ASSUME SessionTypeOK, CountInv, SessionTypeOK',
         Spawning' = Spawning, InWorld' \subseteq InWorld,
         left' \subseteq left, pendingAtStart' = pendingAtStart, cmds' = cmds
  PROVE  CountInv'
<1>1. \A i : Join(i)' <=> Join(i)
  BY DEF Join
<1>2. \A i, j \in 1..Len(cmds') :
        Join(i)' /\ Join(j)' /\ cmds'[i].body = cmds'[j].body => i = j
  BY <1>1 DEF CountInv
<1> QED
  BY <1>1, <1>2, SameCount

\* A welcome: with the pending sessions of the start all counted there is room for one more.
LEMMA WelcomeHasRoom ==
  ASSUME SessionTypeOK, CountInv, NEW l \in Link, NEW t \in Token, NEW b \in Body,
         Welcomes(l, t, b)
  PROVE  /\ Spawning' = Spawning \cup {b} /\ b \notin InWorld
         /\ Cardinality(Spawning') + Cardinality(left') <= pendingAtStart'
         /\ Capacity'
<1>1. /\ \A c \in Body : c # b => body'[c] = body[c]
      /\ body'[b].state = "spawning" /\ body[b].state = "unused"
  BY DEF Welcomes, SessionTypeOK
<1>2. /\ Spawning' = Spawning \cup {b} /\ InWorld' = InWorld \cup {b} /\ Players' = Players
      /\ b \notin Spawning /\ b \notin InWorld
  BY <1>1 DEF Spawning, InWorld, Players
<1>3. /\ Spawning \in SUBSET Body /\ Players \in SUBSET Body /\ left \in SUBSET Link
      /\ Spawning \cap Players = {} /\ InWorld = Spawning \cup Players
      /\ Spawning' \in SUBSET Body
  BY <1>2 DEF Spawning, Players, InWorld, SessionTypeOK
<1>4. Cardinality(Spawning') = Cardinality(Spawning) + 1
  BY <1>2, <1>3, BodiesAreFinite, FS_AddElement
<1>5. Cardinality(left') = Cardinality(left) - 1
  BY <1>3, SubsetIsFinite, FS_RemoveElement DEF Welcomes
<1>6. /\ Cardinality(Spawning) \in Nat /\ Cardinality(left) \in Nat /\ Cardinality(Players) \in Nat
      /\ Cardinality(Spawning) + Cardinality(left) <= pendingAtStart
      /\ pendingAtStart \in Nat /\ pendingAtStart' = pendingAtStart
  BY <1>3, BodiesAreFinite, SubsetIsFinite DEF CountInv, Welcomes, SessionTypeOK
<1>7. Cardinality(Spawning') + Cardinality(left') <= pendingAtStart'
  BY <1>4, <1>5, <1>6
<1>8. Cardinality(left') \in Nat
  BY <1>3, SubsetIsFinite DEF Welcomes
<1>9. Cardinality(InWorld') = Cardinality(Spawning') + Cardinality(Players)
  <2>1. Spawning' \cap Players = {} /\ InWorld' = Spawning' \cup Players
    BY <1>1, <1>2, <1>3 DEF Players
  <2>2. IsFiniteSet(Spawning') /\ IsFiniteSet(Players)
    BY <1>3, BodiesAreFinite
  <2>3. Cardinality(Spawning' \cup Players)
          = Cardinality(Spawning') + Cardinality(Players) - Cardinality(Spawning' \cap Players)
    BY <2>2, FS_Union
  <2>4. Cardinality(Spawning' \cap Players) = 0
    BY <2>1, FS_EmptySet
  <2>5. Cardinality(Spawning') \in Nat
    BY <1>3, BodiesAreFinite
  <2> QED
    BY <1>6, <2>1, <2>3, <2>4, <2>5
<1>10. Cardinality(Players) + (pendingAtStart - 1) < MaxPlayers
  BY <1>6 DEF Welcomes, Full, TotalSessions
<1>11. Cardinality(InWorld') <= MaxPlayers
  BY <1>4, <1>6, <1>7, <1>8, <1>9, <1>10
<1> QED
  BY <1>2, <1>7, <1>11 DEF Capacity, InWorld

\* The players alive, those being spawned and the sessions not yet visited never exceed what
\* the capacity check counted.
LEMMA CountStep ==
  ASSUME SessionTypeOK, AnswersInv, CountInv, [SessionNext]_session
  PROVE  CountInv'
<1>t. SessionTypeOK'
  BY SessionTypeStep
<1>1. ASSUME NEW l \in Link, Disconnect(l)
      PROVE  CountInv'
  <2>1. \A b \in Body : body'[b].state = body[b].state
                        \/ (body[b].state = "live" /\ body'[b].state = "despawned")
    BY <1>1 DEF Disconnect, SessionTypeOK, BodyStates
  <2>2. Spawning' = Spawning /\ InWorld' \subseteq InWorld
    BY <2>1 DEF Spawning, InWorld
  <2> QED
    BY <1>1, <1>t, <2>2, SameCommands DEF Disconnect
<1>2. ASSUME body' = body, left' = left, pendingAtStart' = pendingAtStart, cmds' = cmds
      PROVE  CountInv'
  BY <1>2, <1>t, SameCommands DEF Spawning, InWorld
<1>3. CASE HelloStarts
  <2>1. cmds = <<>> /\ cmds' = cmds /\ body' = body /\ left' \subseteq Pending
        /\ pendingAtStart' = Cardinality(Pending)
    BY <1>3 DEF HelloStarts, Turn, AnswersInv
  <2>2. Spawning = {} /\ Spawning' = {}
    BY <2>1 DEF CountInv, Spawning
  <2>3. Pending \in SUBSET Link
    BY DEF Pending
  <2>4. Cardinality(left') <= Cardinality(Pending) /\ Cardinality(left') \in Nat
    BY <2>1, <2>3, SubsetIsFinite, FS_Subset, FS_CardinalityType
  <2>5. Cardinality(Spawning') + Cardinality(left') <= pendingAtStart'
    BY <2>1, <2>2, <2>4, FS_EmptySet
  <2>6. Capacity'
    BY <2>1 DEF CountInv, Capacity
  <2> QED
    BY <2>1, <2>2, <2>5, <2>6 DEF CountInv
<1>4. ASSUME NEW l \in Link, Refuses(l)
      PROVE  CountInv'
  <2>1. /\ Len(cmds) \in Nat /\ Len(cmds') = Len(cmds) + 1
        /\ \A i \in 1..Len(cmds) : cmds'[i] = cmds[i]
        /\ cmds'[Len(cmds) + 1].op = "despawn"
    <3>1. cmds'[Len(cmds) + 1] = [op |-> "despawn", bodies |-> {}, links |-> {l}]
      BY <1>4, RefusalQueued
    <3>2. cmds'[Len(cmds) + 1].op = "despawn"
      BY <3>1
    <3> QED
      BY <1>4, <3>2, RefusalQueued
  <2>2. \A i : Join(i)' <=> Join(i)
    BY <2>1 DEF Join
  <2>3. \A i : Join(i) => i \in 1..Len(cmds) /\ i \in 1..Len(cmds') /\ cmds'[i] = cmds[i]
    BY <2>1 DEF Join
  <2>4. Spawning' = Spawning /\ InWorld' = InWorld /\ left' \subseteq left
        /\ pendingAtStart' = pendingAtStart
    BY <1>4 DEF Refuses, Spawning, InWorld
  <2>5. \A i, j \in 1..Len(cmds') :
          Join(i)' /\ Join(j)' /\ cmds'[i].body = cmds'[j].body => i = j
    BY <2>2, <2>3 DEF CountInv
  <2> QED
    BY <1>t, <2>2, <2>3, <2>4, <2>5, SameCount
<1>5. ASSUME NEW l \in Link, NEW t \in Token, NEW b \in Body, Welcomes(l, t, b)
      PROVE  CountInv'
  <2> DEFINE n == Len(cmds)
  <2>1. /\ n \in Nat /\ Len(cmds') = n + 2
        /\ \A i \in 1..n : cmds'[i] = cmds[i]
        /\ cmds'[n + 1].op = "despawn"
        /\ cmds'[n + 2].op = "join" /\ cmds'[n + 2].body = b
    <3>1. cmds'[n + 1] = [op |-> "despawn", bodies |-> StaleBodies(IdentityOf[t]),
                          links |-> StaleLinks(IdentityOf[t], l)]
      BY <1>5, WelcomeQueued
    <3>2. cmds'[n + 2] = [op |-> "join", link |-> l, body |-> b]
      BY <1>5, WelcomeQueued
    <3>3. /\ cmds'[n + 1].op = "despawn"
          /\ cmds'[n + 2].op = "join" /\ cmds'[n + 2].body = b
      BY <3>1, <3>2
    <3> QED
      BY <1>5, <3>3, WelcomeQueued
  <2>2. \A i : Join(i)' <=> Join(i) \/ i = n + 2
    BY <2>1 DEF Join
  <2>3. \A i : Join(i) => i \in 1..n /\ i \in 1..Len(cmds') /\ cmds'[i] = cmds[i] /\ i # n + 2
    BY <2>1 DEF Join
  <2>4. /\ Spawning' = Spawning \cup {b} /\ b \notin InWorld
        /\ Cardinality(Spawning') + Cardinality(left') <= pendingAtStart' /\ Capacity'
    BY <1>5, WelcomeHasRoom
  <2>5. b \notin Spawning /\ \A i : Join(i) => cmds[i].body # b
    BY <2>3, <2>4 DEF CountInv, Spawning, InWorld
  <2>6. n + 2 \in 1..Len(cmds')
    BY <2>1
  <2>7. \A c \in Spawning' : \E i \in 1..Len(cmds') : Join(i)' /\ cmds'[i].body = c
    BY <2>1, <2>2, <2>3, <2>4, <2>6 DEF CountInv
  <2>8. \A i \in 1..Len(cmds') : Join(i)' => cmds'[i].body \in Spawning'
    BY <2>1, <2>2, <2>3, <2>4 DEF CountInv
  <2>9. \A i, j \in 1..Len(cmds') :
          Join(i)' /\ Join(j)' /\ cmds'[i].body = cmds'[j].body => i = j
    BY <2>1, <2>2, <2>3, <2>5 DEF CountInv
  <2> QED
    BY <2>4, <2>7, <2>8, <2>9 DEF CountInv
<1>6. CASE Apply
  <2>1. /\ 1 \in 1..Len(cmds) /\ Len(cmds) \in Nat /\ Len(cmds') = Len(cmds) - 1
        /\ \A i \in 1..Len(cmds') : cmds'[i] = cmds[i + 1] /\ i + 1 \in 1..Len(cmds)
        /\ \A i \in 1..Len(cmds) : i # 1 => i - 1 \in 1..Len(cmds') /\ cmds'[i - 1] = cmds[i]
        /\ Head(cmds) = cmds[1] /\ cmds[1] \in Commands
    BY <1>6, AppliedGone
  <2>2. left' = left /\ pendingAtStart' = pendingAtStart
    BY <1>6 DEF Apply
  <2>3. \A j : Join(j)' => Join(j + 1) /\ j \in 1..Len(cmds') /\ cmds'[j] = cmds[j + 1]
                           /\ j + 1 \in 1..Len(cmds) /\ j + 1 # 1
    BY <2>1 DEF Join
  <2>4. \A i : Join(i) /\ i # 1 => Join(i - 1)' /\ i - 1 \in 1..Len(cmds') /\ cmds'[i - 1] = cmds[i]
    BY <2>1 DEF Join
  <2>5. \A i, j \in 1..Len(cmds') :
          Join(i)' /\ Join(j)' /\ cmds'[i].body = cmds'[j].body => i = j
    <3> SUFFICES ASSUME NEW i \in 1..Len(cmds'), NEW j \in 1..Len(cmds'),
                        Join(i)', Join(j)', cmds'[i].body = cmds'[j].body
                 PROVE  i = j
      OBVIOUS
    <3>1. i + 1 = j + 1
      BY <2>3 DEF CountInv
    <3> QED
      BY <3>1
  <2>6. CASE Head(cmds).op = "despawn" /\ Despawn(Head(cmds))
    <3>1. \A b \in Body : body'[b].state = body[b].state
                          \/ (body[b].state = "live" /\ body'[b].state = "despawned")
      BY <2>6 DEF Despawn, SessionTypeOK, BodyStates
    <3>2. Spawning' = Spawning /\ InWorld' \subseteq InWorld
      BY <3>1 DEF Spawning, InWorld
    <3>3. ~Join(1)
      BY <2>1, <2>6 DEF Join
    <3>4. \A i \in 1..Len(cmds) : Join(i) => \E j \in 1..Len(cmds') : Join(j)' /\ cmds'[j] = cmds[i]
      BY <2>4, <3>3
    <3>5. \A j \in 1..Len(cmds') : Join(j)' => \E i \in 1..Len(cmds) : Join(i) /\ cmds'[j] = cmds[i]
      BY <2>3
    <3> QED
      BY <1>t, <2>2, <2>5, <3>2, <3>4, <3>5, SameCount
  <2>7. CASE Head(cmds).op = "join" /\ JoinWorld(Head(cmds))
    <3> DEFINE c == cmds[1]
    <3>1. Join(1) /\ c.body \in Spawning /\ c.body \in Body
      BY <2>1, <2>7 DEF Join, CountInv, Spawning
    <3>2. /\ \A b \in Body : b # c.body => body'[b] = body[b]
          /\ body'[c.body].state = "live"
      BY <2>1, <2>7, <3>1 DEF JoinWorld, SessionTypeOK, BodyStates
    <3>3. Spawning' = Spawning \ {c.body} /\ InWorld' = InWorld
      BY <3>1, <3>2 DEF Spawning, InWorld
    <3>4. Capacity'
      BY <3>3 DEF CountInv, Capacity, InWorld
    <3>5. Cardinality(Spawning') <= Cardinality(Spawning) /\ Cardinality(Spawning') \in Nat
          /\ Cardinality(Spawning) \in Nat
      <4>1. Spawning \in SUBSET Body /\ Spawning' \subseteq Spawning
        BY <3>3 DEF Spawning
      <4> QED
        BY <4>1, BodiesAreFinite, FS_Subset, FS_CardinalityType
    <3>6. Cardinality(left) \in Nat
      BY SubsetIsFinite DEF SessionTypeOK
    <3>7. Cardinality(Spawning') + Cardinality(left') <= pendingAtStart'
      BY <2>2, <3>5, <3>6 DEF CountInv, SessionTypeOK
    <3>8. \A b \in Spawning' : \E i \in 1..Len(cmds') : Join(i)' /\ cmds'[i].body = b
      <4> SUFFICES ASSUME NEW b \in Spawning, b # c.body
                   PROVE  \E i \in 1..Len(cmds') : Join(i)' /\ cmds'[i].body = b
        BY <3>3
      <4>1. PICK i \in 1..Len(cmds) : Join(i) /\ cmds[i].body = b
        BY DEF CountInv
      <4> QED
        BY <2>4, <4>1
    <3>9. \A i \in 1..Len(cmds') : Join(i)' => cmds'[i].body \in Spawning'
      <4> SUFFICES ASSUME NEW i \in 1..Len(cmds'), Join(i)'
                   PROVE  cmds'[i].body \in Spawning /\ cmds'[i].body # c.body
        BY <3>3
      <4>1. Join(i + 1) /\ cmds'[i] = cmds[i + 1] /\ i + 1 \in 1..Len(cmds) /\ i + 1 # 1
        BY <2>3
      <4> QED
        BY <2>1, <3>1, <4>1 DEF CountInv
    <3> QED
      BY <2>5, <3>4, <3>7, <3>8, <3>9 DEF CountInv
  <2> QED
    BY <1>6, <2>6, <2>7 DEF Apply
<1>7. ASSUME NEW l \in Link, OnClientConnected(l) \/ DespawnDisconnected(l) \/ RemovalExpires(l)
      PROVE  CountInv'
  BY <1>2, <1>7 DEF OnClientConnected, DespawnDisconnected, RemovalExpires
<1>8. CASE FixedUpdate \/ Cleanup \/ HandleEmotes \/ Transmit \/ UNCHANGED session
  BY <1>2, <1>8 DEF FixedUpdate, Cleanup, HandleEmotes, Transmit, session
<1> QED
  BY <1>1, <1>3, <1>4, <1>5, <1>6, <1>7, <1>8,
     RejectRefuses, WelcomeWelcomes DEF SessionNext, Network, RunStep, HelloStep
-----------------------------------------------------------------------------
(* Session: who plays what, action by action. *)

\* The steps that leave the commands alone.
LEMMA SameMap ==
  ASSUME SessionTypeOK, MapInv, cmds' = cmds,
         \A k \in Link : Heard(k)' = Heard(k),
         \A p \in Player : clientOf'[p] # NoLink => clientOf'[p] = clientOf[p],
         \A k \in Link : link'[k].entity = "connected" =>
           /\ link[k].entity = "connected"
           /\ link'[k] = link[k]
           /\ \A b \in Body : body[b].owner = k => body'[b] = body[b]
  PROVE  MapInv'
<1>1. \A i : Join(i)' <=> Join(i)
  BY DEF Join
<1>2. \A i \in 1..Len(cmds') : Join(i)' => ToldIn(received', outbox', cmds'[i].link) = <<"welcome">>
  <2>1. \A i \in 1..Len(cmds) : Join(i) => cmds[i].link \in Link
    BY ElementOfSeq, NewCommands DEF Join, SessionTypeOK
  <2> QED
    BY <1>1, <2>1 DEF MapInv
<1>3. ASSUME NEW p \in Player, NEW k \in Link, clientOf'[p] = k, link'[k].entity = "connected"
      PROVE  Mapped(k, p)'
  <2>1. Mapped(k, p)
    BY <1>3 DEF MapInv
  <2>2. /\ link'[k] = link[k]
        /\ \A b \in Body : body[b].owner = k => body'[b] = body[b]
    BY <1>3
  <2>3. CASE Plays(k, p)
    <3>1. body[link[k].body].owner = k /\ link[k].body \in Body
      BY <2>3 DEF Plays
    <3>2. body'[link'[k].body] = body[link[k].body]
      BY <2>2, <3>1
    <3>3. Plays(k, p)'
      BY <2>2, <2>3, <3>2 DEF Plays, Settles
    <3> QED
      BY <3>3 DEF Mapped
  <2>4. CASE \E i \in 1..Len(cmds) : WillPlay(k, p, i)
    <3>1. PICK i \in 1..Len(cmds) : WillPlay(k, p, i)
      BY <2>4
    <3>2. cmds[i].body \in Body
      BY <3>1, ElementOfSeq, NewCommands DEF WillPlay, Join, SessionTypeOK
    <3>3. body[cmds[i].body].owner = k
      BY <3>1 DEF WillPlay
    <3>4. body'[cmds[i].body] = body[cmds[i].body]
      BY <2>2, <3>2, <3>3
    <3>5. WillPlay(k, p, i)'
      BY <1>1, <3>1, <3>4 DEF WillPlay, Settles
    <3> QED
      BY <3>5 DEF Mapped
  <2> QED
    BY <2>1, <2>3, <2>4 DEF Mapped
<1> QED
  BY <1>2, <1>3 DEF MapInv

\* More commands that neither settle the link nor take its body away.
LEMMA StillMapped ==
  ASSUME SessionTypeOK, NEW k \in Link, NEW p \in Player, Mapped(k, p),
         link'[k] = link[k],
         \A b \in Body : body[b].owner = k /\ body[b].state # "unused" => body'[b] = body[b],
         Len(cmds) \in Nat, Len(cmds') \in Nat, Len(cmds') >= Len(cmds),
         \A i \in 1..Len(cmds) : cmds'[i] = cmds[i],
         \A i \in 1..Len(cmds') : i > Len(cmds) =>
           /\ ~Settles(cmds'[i], k)
           /\ cmds'[i].op = "join" => cmds'[i].link # k
           /\ cmds'[i].op = "despawn" =>
                \A b \in cmds'[i].bodies : body[b].state = "live" /\ body[b].id # p
  PROVE  Mapped(k, p)'
<1>1. \A i \in 1..Len(cmds) : i \in 1..Len(cmds') /\ (Join(i)' <=> Join(i))
  BY DEF Join
<1>2. CASE Plays(k, p)
  <2>1. link[k].body \in Body /\ body[link[k].body] = [state |-> "live", id |-> p, owner |-> k]
    BY <1>2 DEF Plays
  <2>2. body'[link'[k].body] = [state |-> "live", id |-> p, owner |-> k] /\ link'[k].player = p
    BY <1>2, <2>1 DEF Plays
  <2>3. ASSUME NEW i \in 1..Len(cmds')
        PROVE  /\ ~Settles(cmds'[i], k)
               /\ cmds'[i].op = "despawn" => link[k].body \notin cmds'[i].bodies
    <3>1. CASE i \in 1..Len(cmds)
      BY <1>2, <3>1 DEF Plays
    <3>2. CASE i > Len(cmds)
      BY <2>1, <3>2
    <3> QED
      BY <3>1, <3>2
  <2>4. Plays(k, p)'
    BY <2>1, <2>2, <2>3 DEF Plays, Settles
  <2> QED
    BY <2>4 DEF Mapped
<1>3. CASE \E i \in 1..Len(cmds) : WillPlay(k, p, i)
  <2>1. PICK i \in 1..Len(cmds) : WillPlay(k, p, i)
    BY <1>3
  <2>2. cmds[i].body \in Body
    BY <2>1, ElementOfSeq, NewCommands DEF WillPlay, Join, SessionTypeOK
  <2>3. body[cmds[i].body] = [state |-> "spawning", id |-> p, owner |-> k]
    BY <2>1 DEF WillPlay
  <2>4. body'[cmds'[i].body] = [state |-> "spawning", id |-> p, owner |-> k]
        /\ cmds'[i].body = cmds[i].body
    BY <2>2, <2>3
  <2>5. Join(i)' /\ cmds'[i].link = k
    BY <1>1, <2>1 DEF WillPlay
  <2>6. ASSUME NEW j \in 1..Len(cmds')
        PROVE  /\ j > i => ~Settles(cmds'[j], k)
               /\ j > i /\ cmds'[j].op = "despawn" => cmds[i].body \notin cmds'[j].bodies
               /\ j # i /\ Join(j)' => cmds'[j].link # k
    <3>1. CASE j \in 1..Len(cmds)
      BY <1>1, <2>1, <3>1 DEF WillPlay
    <3>2. CASE j > Len(cmds)
      BY <2>3, <3>2 DEF Join
    <3> QED
      BY <3>1, <3>2
  <2>7. WillPlay(k, p, i)'
    BY <2>4, <2>5, <2>6 DEF WillPlay, Settles
  <2> QED
    BY <1>1, <2>7 DEF Mapped
<1> QED
  BY <1>2, <1>3 DEF Mapped

\* The first command goes: it neither settles the link nor takes its body away.
LEMMA MappedAfterDespawn ==
  ASSUME SessionTypeOK, NEW k \in Link, NEW p \in Player, Mapped(k, p),
         Apply, Head(cmds).op = "despawn", Despawn(Head(cmds)), link'[k].entity = "connected"
  PROVE  Mapped(k, p)'
<1>1. /\ 1 \in 1..Len(cmds) /\ Len(cmds) \in Nat /\ Len(cmds') = Len(cmds) - 1
      /\ \A i \in 1..Len(cmds') : cmds'[i] = cmds[i + 1] /\ i + 1 \in 1..Len(cmds)
      /\ \A i \in 1..Len(cmds) : i # 1 => i - 1 \in 1..Len(cmds') /\ cmds'[i - 1] = cmds[i]
      /\ Head(cmds) = cmds[1] /\ cmds[1] \in Commands
  BY AppliedGone
<1>2. link'[k] = link[k] /\ k \notin cmds[1].links
  <2>1. link'[k] = IF k \in cmds[1].links /\ Present(k)
                   THEN [link[k] EXCEPT !.entity = "despawned"] ELSE link[k]
    BY <1>1 DEF Despawn
  <2>2. k \in cmds[1].links /\ Present(k) => link'[k].entity = "despawned"
    BY <2>1 DEF SessionTypeOK, LinkStates
  <2>3. Present(k)
    BY <2>1, <2>2 DEF Present
  <2> QED
    BY <2>1, <2>2, <2>3
<1>3. PICK gone \in { cmds[1].bodies,
                      cmds[1].bodies \cup {b \in Players : body[b].owner \in cmds[1].links} } :
        body' = [b \in Body |-> IF b \in gone /\ body[b].state = "live"
                                THEN [body[b] EXCEPT !.state = "despawned"] ELSE body[b]]
  BY <1>1 DEF Despawn
<1>4. CASE Plays(k, p)
  <2>1. link[k].body \in Body /\ body[link[k].body] = [state |-> "live", id |-> p, owner |-> k]
        /\ link[k].body \notin cmds[1].bodies
    BY <1>1, <1>4 DEF Plays
  <2>2. link[k].body \notin gone
    BY <1>2, <1>3, <2>1
  <2>3. body'[link'[k].body] = body[link[k].body]
    BY <1>2, <1>3, <2>1, <2>2
  <2>4. ASSUME NEW i \in 1..Len(cmds')
        PROVE  /\ ~Settles(cmds'[i], k)
               /\ cmds'[i].op = "despawn" => link[k].body \notin cmds'[i].bodies
    BY <1>1, <1>4 DEF Plays
  <2>5. Plays(k, p)'
    BY <1>2, <1>4, <2>1, <2>3, <2>4 DEF Plays, Settles
  <2> QED
    BY <2>5 DEF Mapped
<1>5. CASE \E i \in 1..Len(cmds) : WillPlay(k, p, i)
  <2>1. PICK i \in 1..Len(cmds) : WillPlay(k, p, i)
    BY <1>5
  <2>2. i # 1 /\ cmds[i].body \in Body /\ cmds[i].op = "join"
    BY <1>1, <2>1, ElementOfSeq, NewCommands DEF WillPlay, Join, SessionTypeOK
  <2> DEFINE h == i - 1
  <2>3. h \in 1..Len(cmds') /\ cmds'[h] = cmds[i]
    BY <1>1, <2>2
  <2>4. body[cmds[i].body] = [state |-> "spawning", id |-> p, owner |-> k]
    BY <2>1 DEF WillPlay
  <2>5. body'[cmds[i].body] = body[cmds[i].body]
    BY <1>3, <2>2, <2>4
  <2>6. ASSUME NEW j \in 1..Len(cmds')
        PROVE  /\ j > h => ~Settles(cmds'[j], k)
               /\ j > h /\ cmds'[j].op = "despawn" => cmds[i].body \notin cmds'[j].bodies
               /\ j # h /\ Join(j)' => cmds'[j].link # k
    <3>1. cmds'[j] = cmds[j + 1] /\ j + 1 \in 1..Len(cmds) /\ (Join(j)' => Join(j + 1))
      BY <1>1 DEF Join
    <3>2. (j > h => j + 1 > i) /\ (j # h => j + 1 # i)
      OBVIOUS
    <3> QED
      BY <2>1, <3>1, <3>2 DEF WillPlay
  <2>7. Join(h)' /\ cmds'[h].link = k
    BY <2>1, <2>2, <2>3 DEF WillPlay, Join
  <2>8. WillPlay(k, p, h)'
    BY <2>3, <2>4, <2>5, <2>6, <2>7 DEF WillPlay, Settles
  <2> QED
    BY <2>3, <2>8 DEF Mapped
<1> QED
  BY <1>4, <1>5 DEF Mapped

\* A join that is applied keeps the entry of every player that is mapped to its own link.
LEMMA MappedAfterJoin ==
  ASSUME SessionTypeOK, CountInv, NEW k \in Link, NEW p \in Player, Mapped(k, p),
         Apply, Head(cmds).op = "join", JoinWorld(Head(cmds))
  PROVE  Mapped(k, p)'
<1> DEFINE c == cmds[1]
<1>1. /\ 1 \in 1..Len(cmds) /\ Len(cmds) \in Nat /\ Len(cmds') = Len(cmds) - 1
      /\ \A i \in 1..Len(cmds') : cmds'[i] = cmds[i + 1] /\ i + 1 \in 1..Len(cmds)
      /\ \A i \in 1..Len(cmds) : i # 1 => i - 1 \in 1..Len(cmds') /\ cmds'[i - 1] = cmds[i]
      /\ Head(cmds) = c /\ c \in Commands
  BY AppliedGone
<1>2. /\ Join(1) /\ c.op = "join" /\ c.link \in Link /\ c.body \in Body
      /\ body[c.body].state = "spawning"
  BY <1>1, NewCommands DEF Join, CountInv, Spawning
<1>3. /\ link' = [link EXCEPT ![c.link].pending = FALSE,
                              ![c.link].player = body[c.body].id,
                              ![c.link].body = c.body]
      /\ body' = [body EXCEPT ![c.body].state = "live"]
  BY <1>1 DEF JoinWorld
<1>4. /\ \A b \in Body : b # c.body => body'[b] = body[b]
      /\ body'[c.body] = [body[c.body] EXCEPT !.state = "live"]
  BY <1>2, <1>3 DEF SessionTypeOK
<1>5. /\ \A m \in Link : m # c.link => link'[m] = link[m]
      /\ link'[c.link].player = body[c.body].id /\ link'[c.link].body = c.body
  BY <1>2, <1>3 DEF SessionTypeOK, LinkStates
<1>6. CASE Plays(k, p)
  <2>1. link[k].body \in Body /\ body[link[k].body] = [state |-> "live", id |-> p, owner |-> k]
        /\ ~Settles(c, k)
    BY <1>1, <1>6 DEF Plays
  <2>2. k # c.link /\ link[k].body # c.body
    BY <1>2, <2>1 DEF Settles
  <2>3. link'[k] = link[k] /\ body'[link[k].body] = body[link[k].body]
    BY <1>4, <1>5, <2>1, <2>2
  <2>4. ASSUME NEW i \in 1..Len(cmds')
        PROVE  /\ ~Settles(cmds'[i], k)
               /\ cmds'[i].op = "despawn" => link[k].body \notin cmds'[i].bodies
    BY <1>1, <1>6 DEF Plays
  <2>5. Plays(k, p)'
    BY <1>6, <2>1, <2>3, <2>4 DEF Plays, Settles
  <2> QED
    BY <2>5 DEF Mapped
<1>7. CASE WillPlay(k, p, 1)
  <2>1. c.link = k /\ body[c.body] = [state |-> "spawning", id |-> p, owner |-> k]
    BY <1>7 DEF WillPlay
  <2>2. body'[c.body] = [state |-> "live", id |-> p, owner |-> k]
    BY <1>4, <2>1
  <2>3. link'[k].player = p /\ link'[k].body = c.body
    BY <1>5, <2>1
  <2>4. ASSUME NEW i \in 1..Len(cmds')
        PROVE  /\ ~Settles(cmds'[i], k)
               /\ cmds'[i].op = "despawn" => c.body \notin cmds'[i].bodies
    <3>1. cmds'[i] = cmds[i + 1] /\ i + 1 \in 1..Len(cmds) /\ i + 1 > 1
      BY <1>1
    <3> QED
      BY <1>7, <3>1 DEF WillPlay
  <2>5. Plays(k, p)'
    BY <1>2, <2>2, <2>3, <2>4 DEF Plays, Settles
  <2> QED
    BY <2>5 DEF Mapped
<1>8. ASSUME NEW i \in 1..Len(cmds), i # 1, WillPlay(k, p, i)
      PROVE  Mapped(k, p)'
  <2> DEFINE h == i - 1
  <2>1. h \in 1..Len(cmds') /\ cmds'[h] = cmds[i] /\ Join(i)
    BY <1>1, <1>8 DEF WillPlay
  <2>2. cmds[i].body \in Body /\ cmds[i].body # c.body
    BY <1>1, <1>2, <1>8, <2>1 DEF CountInv, Spawning
  <2>3. body[cmds[i].body] = [state |-> "spawning", id |-> p, owner |-> k]
        /\ body'[cmds[i].body] = body[cmds[i].body]
    BY <1>4, <1>8, <2>2 DEF WillPlay
  <2>4. ASSUME NEW j \in 1..Len(cmds')
        PROVE  /\ j > h => ~Settles(cmds'[j], k)
               /\ j > h /\ cmds'[j].op = "despawn" => cmds[i].body \notin cmds'[j].bodies
               /\ j # h /\ Join(j)' => cmds'[j].link # k
    <3>1. cmds'[j] = cmds[j + 1] /\ j + 1 \in 1..Len(cmds) /\ (Join(j)' => Join(j + 1))
      BY <1>1 DEF Join
    <3>2. (j > h => j + 1 > i) /\ (j # h => j + 1 # i)
      OBVIOUS
    <3> QED
      BY <1>8, <3>1, <3>2 DEF WillPlay
  <2>5. Join(h)' /\ cmds'[h].link = k
    BY <1>8, <2>1 DEF WillPlay, Join
  <2>6. WillPlay(k, p, h)'
    BY <2>1, <2>3, <2>4, <2>5 DEF WillPlay, Settles
  <2> QED
    BY <2>1, <2>6 DEF Mapped
<1> QED
  BY <1>6, <1>7, <1>8 DEF Mapped

\* What PlayerClientMap says becomes true when the commands are applied: each mapped link plays
\* its player, or a command that will make it play is queued behind all that would undo it.
LEMMA MapStep ==
  ASSUME SessionTypeOK, AnswersInv, CountInv, MapInv, [SessionNext]_session
  PROVE  MapInv'
<1>t. SessionTypeOK' /\ AnswersInv'
  BY SessionTypeStep, AnswersStep
<1>j. \A i \in 1..Len(cmds) : Join(i) => cmds[i].link \in Link
  BY ElementOfSeq, NewCommands DEF Join, SessionTypeOK
<1>1. ASSUME NEW l \in Link, OnClientConnected(l)
      PROVE  MapInv'
  <2>1. /\ cmds' = cmds /\ clientOf' = clientOf /\ body' = body
        /\ outbox' = outbox /\ received' = received
        /\ \A k \in Link : k # l => link'[k] = link[k]
    BY <1>1 DEF OnClientConnected, SessionTypeOK
  <2>2. Heard(l) = <<>>
    BY <1>1 DEF OnClientConnected, AnswersInv
  <2>3. <<"welcome">> # <<>>
    OBVIOUS
  <2>4. \A p \in Player : clientOf[p] # l
    BY <2>2, <2>3 DEF AnswersInv, SessionTypeOK
  <2>5. \A i : Join(i)' <=> Join(i)
    BY <2>1 DEF Join
  <2>6. ASSUME NEW p \in Player, NEW k \in Link, clientOf'[p] = k, link'[k].entity = "connected"
        PROVE  Mapped(k, p)'
    <3>1. k # l /\ link'[k] = link[k] /\ Mapped(k, p)
      BY <2>1, <2>4, <2>6 DEF MapInv
    <3> QED
      BY <2>1, <2>5, <3>1 DEF Mapped, Plays, WillPlay, Settles
  <2> QED
    BY <2>1, <2>5, <2>6 DEF MapInv
<1>2. ASSUME NEW l \in Link, Disconnect(l)
      PROVE  MapInv'
  <2>1. \A k \in Link : k # l => link'[k] = link[k]
    BY <1>2 DEF Disconnect, SessionTypeOK
  <2>2. link'[l].entity = "disconnected"
    BY <1>2 DEF Disconnect, SessionTypeOK, LinkStates
  <2>3. \A b \in Body : body[b].owner # l => body'[b] = body[b]
    BY <1>2 DEF Disconnect
  <2> QED
    BY <1>2, <2>1, <2>2, <2>3, SameMap DEF Disconnect
<1>3. ASSUME NEW l \in Link, DespawnDisconnected(l)
      PROVE  MapInv'
  <2>1. \A k \in Link : k # l => link'[k] = link[k]
    BY <1>3 DEF DespawnDisconnected, SessionTypeOK
  <2>2. link'[l].entity = "despawned"
    BY <1>3 DEF DespawnDisconnected, SessionTypeOK, LinkStates
  <2> QED
    BY <1>3, <2>1, <2>2, SameMap DEF DespawnDisconnected
<1>4. ASSUME NEW l \in Link, RemovalExpires(l)
      PROVE  MapInv'
  BY <1>4, SameMap DEF RemovalExpires
<1>5. CASE FixedUpdate \/ HelloStarts \/ HandleEmotes \/ UNCHANGED session
  BY <1>5, SameMap DEF FixedUpdate, HelloStarts, HandleEmotes, session
<1>6. CASE Cleanup
  BY <1>6, SameMap DEF Cleanup
<1>7. CASE Transmit
  <2>1. \A k \in Link : Heard(k)' = Heard(k)
    BY <1>7, TransmitKeepsHeard
  <2> QED
    BY <1>7, <2>1, SameMap DEF Transmit
<1>8. ASSUME NEW l \in Link, Refuses(l)
      PROVE  MapInv'
  <2>1. PICK a \in Answers : outbox' = [outbox EXCEPT ![l] = Append(@, a)]
    BY <1>8 DEF Refuses
  <2>2. l \in left /\ received' = received /\ clientOf' = clientOf /\ link' = link /\ body' = body
    BY <1>8 DEF Refuses
  <2>3. /\ \A k \in Link : Heard(k)' = IF k = l THEN <<a>> ELSE Heard(k)
        /\ \A p \in Player : clientOf[p] # NoLink => clientOf[p] # l
    BY <2>1, <2>2, AnsweredOnce
  <2>4. /\ Len(cmds) \in Nat /\ Len(cmds') = Len(cmds) + 1
        /\ \A i \in 1..Len(cmds) : cmds'[i] = cmds[i]
    BY <1>8, RefusalQueued
  <2>5. cmds'[Len(cmds) + 1] = [op |-> "despawn", bodies |-> {}, links |-> {l}]
    BY <1>8, RefusalQueued
  <2>6. \A i \in 1..Len(cmds') : Join(i)' => i \in 1..Len(cmds) /\ Join(i) /\ cmds'[i] = cmds[i]
    BY <2>4, <2>5 DEF Join
  <2>7. Heard(l) = <<>> /\ <<"welcome">> # <<>>
    BY <2>2 DEF AnswersInv
  <2>8. \A i \in 1..Len(cmds') :
          Join(i)' => ToldIn(received', outbox', cmds'[i].link) = <<"welcome">>
    <3> SUFFICES ASSUME NEW i \in 1..Len(cmds'), Join(i)'
                 PROVE  ToldIn(received', outbox', cmds'[i].link) = <<"welcome">>
      OBVIOUS
    <3>1. cmds'[i].link \in Link /\ Heard(cmds[i].link) = <<"welcome">> /\ cmds'[i] = cmds[i]
      BY <1>j, <2>6 DEF MapInv
    <3> QED
      BY <2>3, <2>7, <3>1
  <2>9. ASSUME NEW p \in Player, NEW k \in Link, clientOf'[p] = k, link'[k].entity = "connected"
        PROVE  Mapped(k, p)'
    <3>1. Mapped(k, p) /\ k # l
      BY <2>2, <2>3, <2>9 DEF MapInv
    <3>2. \A i \in 1..Len(cmds') : i > Len(cmds) =>
            /\ ~Settles(cmds'[i], k)
            /\ cmds'[i].op = "join" => cmds'[i].link # k
            /\ cmds'[i].op = "despawn" =>
                 \A b \in cmds'[i].bodies : body[b].state = "live" /\ body[b].id # p
      <4> SUFFICES ASSUME NEW i \in 1..Len(cmds'), i > Len(cmds)
                   PROVE  /\ ~Settles(cmds'[i], k)
                          /\ cmds'[i].op = "join" => cmds'[i].link # k
                          /\ cmds'[i].op = "despawn" =>
                               \A b \in cmds'[i].bodies : body[b].state = "live" /\ body[b].id # p
        OBVIOUS
      <4>1. cmds'[i] = [op |-> "despawn", bodies |-> {}, links |-> {l}]
        BY <2>4, <2>5
      <4> QED
        BY <3>1, <4>1 DEF Settles
    <3> QED
      BY <2>2, <2>4, <3>1, <3>2, StillMapped
  <2> QED
    BY <2>2, <2>8, <2>9 DEF MapInv
<1>9. ASSUME NEW l \in Link, NEW t \in Token, NEW b \in Body, Welcomes(l, t, b)
      PROVE  MapInv'
  <2> DEFINE q == IdentityOf[t]
             n == Len(cmds)
  <2>1. /\ l \in left /\ received' = received /\ link' = link /\ q \in Player
        /\ outbox' = [outbox EXCEPT ![l] = Append(@, "welcome")]
        /\ clientOf' = [clientOf EXCEPT ![q] = l] /\ body[b].state = "unused"
        /\ body' = [body EXCEPT ![b] = [state |-> "spawning", id |-> q, owner |-> l]]
    BY <1>9 DEF Welcomes
  <2>2. /\ \A k \in Link : Heard(k)' = IF k = l THEN <<"welcome">> ELSE Heard(k)
        /\ \A p \in Player : clientOf[p] # NoLink => clientOf[p] # l
    BY <2>1, AnsweredOnce DEF Answers
  <2>3. /\ n \in Nat /\ Len(cmds') = n + 2
        /\ \A i \in 1..n : cmds'[i] = cmds[i]
    BY <1>9, WelcomeQueued
  <2>4. cmds'[n + 1] = [op |-> "despawn", bodies |-> StaleBodies(q), links |-> StaleLinks(q, l)]
    BY <1>9, WelcomeQueued
  <2>5. cmds'[n + 2] = [op |-> "join", link |-> l, body |-> b]
    BY <1>9, WelcomeQueued
  <2>6. \A i \in 1..Len(cmds') : Join(i)' =>
           (i \in 1..n /\ Join(i) /\ cmds'[i] = cmds[i]) \/ i = n + 2
    BY <2>3, <2>4 DEF Join
  <2>7. \A i \in 1..n : Join(i) => cmds[i].link # l
    <3>1. Heard(l) = <<>> /\ <<"welcome">> # <<>>
      BY <2>1 DEF AnswersInv
    <3> QED
      BY <3>1 DEF MapInv
  <2>8. \A i \in 1..Len(cmds') :
          Join(i)' => ToldIn(received', outbox', cmds'[i].link) = <<"welcome">>
    <3> SUFFICES ASSUME NEW i \in 1..Len(cmds'), Join(i)'
                 PROVE  ToldIn(received', outbox', cmds'[i].link) = <<"welcome">>
      OBVIOUS
    <3>1. CASE i \in 1..n /\ Join(i) /\ cmds'[i] = cmds[i]
      <4>1. cmds'[i].link \in Link /\ Heard(cmds'[i].link) = <<"welcome">>
        BY <1>j, <3>1 DEF MapInv
      <4> QED
        BY <2>2, <4>1
    <3>2. CASE i = n + 2
      <4>1. cmds'[i].link = l
        BY <2>5, <3>2
      <4> QED
        BY <2>2, <4>1
    <3> QED
      BY <2>6, <3>1, <3>2
  <2>9. /\ \A p \in Player : p # q => clientOf'[p] = clientOf[p]
        /\ clientOf'[q] = l
    BY <2>1 DEF SessionTypeOK
  <2>10. \A p, r \in Player : clientOf'[p] = clientOf'[r] /\ clientOf'[p] # NoLink => p = r
    <3> SUFFICES ASSUME NEW p \in Player, NEW r \in Player,
                        clientOf'[p] = clientOf'[r], clientOf'[p] # NoLink
                 PROVE  p = r
      OBVIOUS
    <3> QED
      BY <2>2, <2>9 DEF MapInv
  <2>11. ASSUME NEW p \in Player, NEW k \in Link, clientOf'[p] = k, link'[k].entity = "connected"
         PROVE  Mapped(k, p)'
    <3>1. CASE p = q
      <4>1. k = l
        BY <2>9, <2>11, <3>1
      <4>2. body'[b] = [state |-> "spawning", id |-> p, owner |-> k]
        BY <2>1, <3>1, <4>1 DEF SessionTypeOK
      <4>3. PICK m \in 1..Len(cmds') : m = n + 2
        BY <2>3
      <4>4. Join(m)' /\ cmds'[m].link = k /\ cmds'[m].body = b
        <5>1. cmds'[m] = [op |-> "join", link |-> l, body |-> b]
          BY <2>5, <4>3
        <5> QED
          BY <4>1, <4>3, <5>1 DEF Join
      <4>5. \A j \in 1..Len(cmds') : ~(j > m) /\ (j # m /\ Join(j)' => cmds'[j].link # k)
        BY <2>3, <2>6, <2>7, <4>1, <4>3
      <4>6. WillPlay(k, p, m)'
        BY <4>2, <4>4, <4>5 DEF WillPlay
      <4> QED
        BY <4>3, <4>6 DEF Mapped
    <3>2. CASE p # q
      <4>1. clientOf[p] = k /\ k # l /\ Mapped(k, p) /\ k # clientOf[q]
        BY <2>1, <2>2, <2>9, <2>11, <3>2 DEF MapInv
      <4>2. \A i \in 1..Len(cmds') : i > Len(cmds) =>
              /\ ~Settles(cmds'[i], k)
              /\ cmds'[i].op = "join" => cmds'[i].link # k
              /\ cmds'[i].op = "despawn" =>
                   \A c \in cmds'[i].bodies : body[c].state = "live" /\ body[c].id # p
        <5> SUFFICES ASSUME NEW i \in 1..Len(cmds'), i > Len(cmds)
                     PROVE  /\ ~Settles(cmds'[i], k)
                            /\ cmds'[i].op = "join" => cmds'[i].link # k
                            /\ cmds'[i].op = "despawn" =>
                                 \A c \in cmds'[i].bodies : body[c].state = "live" /\ body[c].id # p
          OBVIOUS
        <5>1. CASE i = n + 1
          <6>1. cmds'[i] = [op |-> "despawn", bodies |-> StaleBodies(q), links |-> StaleLinks(q, l)]
            BY <2>4, <5>1
          <6>2. k \notin StaleLinks(q, l)
            BY <4>1 DEF StaleLinks
          <6>3. \A c \in StaleBodies(q) : body[c].state = "live" /\ body[c].id # p
            BY <3>2 DEF StaleBodies, Players
          <6> QED
            BY <6>1, <6>2, <6>3 DEF Settles
        <5>2. CASE i = n + 2
          <6>1. cmds'[i] = [op |-> "join", link |-> l, body |-> b]
            BY <2>5, <5>2
          <6> QED
            BY <4>1, <6>1 DEF Settles
        <5> QED
          BY <2>3, <5>1, <5>2
      <4>3. \A c \in Body : body[c].owner = k /\ body[c].state # "unused" => body'[c] = body[c]
        BY <2>1 DEF SessionTypeOK
      <4>4. Len(cmds') \in Nat /\ Len(cmds') >= Len(cmds) /\ link'[k] = link[k]
        BY <2>1, <2>3
      <4> QED
        BY <2>3, <4>1, <4>2, <4>3, <4>4, StillMapped
    <3> QED
      BY <3>1, <3>2
  <2> QED
    BY <2>8, <2>10, <2>11 DEF MapInv
<1>10. CASE Apply
  <2>1. /\ clientOf' = clientOf /\ outbox' = outbox /\ received' = received
        /\ \A i \in 1..Len(cmds') : cmds'[i] = cmds[i + 1] /\ i + 1 \in 1..Len(cmds)
    BY <1>10, AppliedGone DEF Apply
  <2>2. \A i \in 1..Len(cmds') :
          Join(i)' => ToldIn(received', outbox', cmds'[i].link) = <<"welcome">>
    BY <2>1 DEF Join, MapInv
  <2>3. ASSUME NEW p \in Player, NEW k \in Link, clientOf'[p] = k, link'[k].entity = "connected"
        PROVE  Mapped(k, p)'
    <3>1. CASE Head(cmds).op = "despawn" /\ Despawn(Head(cmds))
      <4>1. link'[k] = IF k \in Head(cmds).links /\ Present(k)
                       THEN [link[k] EXCEPT !.entity = "despawned"] ELSE link[k]
        BY <3>1 DEF Despawn
      <4>2. link[k].entity = "connected"
        BY <2>3, <4>1 DEF Present, SessionTypeOK, LinkStates
      <4>3. Mapped(k, p)
        BY <2>1, <2>3, <4>2 DEF MapInv
      <4> QED
        BY <1>10, <2>3, <3>1, <4>3, MappedAfterDespawn
    <3>2. CASE Head(cmds).op = "join" /\ JoinWorld(Head(cmds))
      <4> DEFINE c == Head(cmds)
      <4>1. c.link \in Link
        BY <1>10, <3>2, AppliedGone, NewCommands
      <4>2. link' = [link EXCEPT ![c.link].pending = FALSE,
                                 ![c.link].player = body[c.body].id,
                                 ![c.link].body = c.body]
        BY <3>2 DEF JoinWorld
      <4>3. link'[k].entity = link[k].entity
        BY <4>1, <4>2 DEF SessionTypeOK, LinkStates
      <4>4. Mapped(k, p)
        BY <2>1, <2>3, <4>3 DEF MapInv
      <4> QED
        BY <1>10, <3>2, <4>4, MappedAfterJoin
    <3> QED
      BY <1>10, <3>1, <3>2 DEF Apply
  <2> QED
    BY <2>1, <2>2, <2>3 DEF MapInv
<1> QED
  BY <1>1, <1>2, <1>3, <1>4, <1>5, <1>6, <1>7, <1>8, <1>9, <1>10,
     RejectRefuses, WelcomeWelcomes DEF SessionNext, Network, RunStep, HelloStep

-----------------------------------------------------------------------------
(* Session: all of it. *)

\* A server that starts has no links, no players and no commands.
LEMMA SessionStarts == SessionInit => SessionInv
<1> SUFFICES ASSUME SessionInit
             PROVE  SessionInv
  OBVIOUS
<1> USE DEF SessionInit
<1>1. SessionTypeOK
  <2>1. link \in [Link -> LinkStates]
    BY DEF LinkStates
  <2>2. body \in [Body -> BodyStates]
    BY DEF BodyStates
  <2>3. cmds \in Seq(Commands) /\ outbox \in [Link -> Seq(Answers)]
        /\ received \in [Link -> Seq(Answers)]
    <3>1. <<>> \in Seq(Commands) /\ <<>> \in Seq(Answers)
      BY EmptySeq
    <3> QED
      BY <3>1
  <2>4. /\ issued \subseteq Token /\ roster \subseteq Player
        /\ removed \subseteq Link /\ todo \subseteq Systems /\ left \subseteq Link
        /\ cheered \subseteq Link
    BY Zenon
  <2>6. pendingAtStart \in Nat /\ faults \in 0..MaxFaults
    OBVIOUS
  <2>7. applying \in BOOLEAN
    OBVIOUS
  <2>5. clientOf \in [Player -> Link \cup {NoLink}]
    OBVIOUS
  <2> HIDE DEF SessionInit
  <2> QED
    BY <2>1, <2>2, <2>3, <2>4, <2>5, <2>6, <2>7 DEF SessionTypeOK
<1>2. Len(cmds) = 0 /\ \A i \in 1..Len(cmds) : FALSE
  OBVIOUS
<1>3. \A l \in Link : Heard(l) = <<>>
  BY DEF ToldIn
<1>4. Pending = {} /\ Spawning = {} /\ InWorld = {}
  BY DEF Pending, Present, Spawning, InWorld
<1>5. AnswersInv
  BY <1>3, <1>4, EmptySeq DEF AnswersInv
<1>6. Capacity
  <2>1. Cardinality(InWorld) = 0
    BY <1>4, FS_EmptySet
  <2> QED
    BY <2>1 DEF Capacity, InWorld
<1>7. CountInv
  BY <1>2, <1>4, <1>6, FS_EmptySet DEF CountInv
<1>8. MapInv
  BY <1>2 DEF MapInv
<1>9. DeliveryInv
  BY DEF DeliveryInv, Present
<1> QED
  BY <1>1, <1>5, <1>7, <1>8, <1>9 DEF SessionInv

\* The five parts of the invariant hold in every state of the server.
THEOREM SessionIsInv == SessionSpec => []SessionInv
<1>1. SessionInv /\ [SessionNext]_session => SessionInv'
  BY SessionTypeStep, AnswersStep, CountStep, MapStep, DeliveryStep DEF SessionInv
<1> QED
  BY <1>1, SessionStarts, PTL DEF SessionSpec

\* For any number of clients and tokens, any capacity and whatever order the systems of a run
\* have: no link is answered twice; between two runs a link that stands is pending and was
\* answered nothing, or is a player's and has received its welcome; emotes go to the welcomed.
THEOREM AnswersFitSessions == SessionSpec => []AnswerFitsSession
<1> SUFFICES SessionInv => AnswerFitsSession
  BY SessionIsInv, PTL
<1> SUFFICES ASSUME SessionInv, NEW l \in Link
             PROVE  /\ Len(Heard(l)) <= 1
                    /\ l \in cheered => Heard(l) = <<"welcome">>
                    /\ Quiet /\ ~applying /\ link[l].entity = "connected" =>
                         IF link[l].pending THEN Heard(l) = <<>> ELSE received[l] = <<"welcome">>
  BY DEF AnswerFitsSession, ToldIn
<1>1. Len(Heard(l)) <= 1 /\ (l \in cheered => Heard(l) = <<"welcome">>)
  BY DEF SessionInv, AnswersInv
<1>2. ASSUME Quiet, link[l].entity = "connected", link[l].pending
      PROVE  Heard(l) = <<>>
  <2>1. l \in Pending /\ Len(cmds) = 0
    BY <1>2 DEF Pending, Present, Quiet
  <2> QED
    BY <2>1 DEF SessionInv, AnswersInv
<1>3. ASSUME Quiet, link[l].entity = "connected", ~link[l].pending
      PROVE  received[l] = <<"welcome">>
  <2>1. Heard(l) = <<"welcome">> /\ outbox[l] = <<>>
    BY <1>3 DEF Present, Quiet, SessionInv, DeliveryInv
  <2>2. received[l] \in Seq(Answers)
    BY DEF SessionInv, SessionTypeOK
  <2> QED
    BY <2>1, <2>2, ConcatEmptySeq DEF ToldIn
<1> QED
  BY <1>1, <1>2, <1>3

\* For every max_players and any number of pending sessions, all of which may say hello in one
\* run: there are never more players in the world, spawning ones included, than the server admits.
THEOREM NeverOverfull == SessionSpec => []Capacity
<1>1. SessionInv => Capacity
  BY DEF SessionInv, CountInv
<1> QED
  BY <1>1, SessionIsInv, PTL

\* Between two runs the link PlayerClientMap names for a player plays it, and the entity it
\* owns is alive, however often the player has come back over a new link before the old one
\* was cleaned up.
THEOREM MapIsTrue == SessionSpec => []MappedOwnsBody
<1>1. SessionInv => MappedOwnsBody
  <2> SUFFICES ASSUME SessionInv, cmds = <<>>, NEW p \in Player, NEW l \in Link, clientOf[p] = l,
                      link[l].entity = "connected"
               PROVE  /\ link[l].player = p
                      /\ body[link[l].body] = [state |-> "live", id |-> p, owner |-> l]
    BY DEF MappedOwnsBody, Quiet, SessionInv, SessionTypeOK
  <2>1. Mapped(l, p)
    BY DEF SessionInv, MapInv
  <2>2. \A i \in 1..Len(cmds) : FALSE
    OBVIOUS
  <2> QED
    BY <2>1, <2>2 DEF Mapped, Plays
<1> QED
  BY <1>1, SessionIsInv, PTL

HIDE SessionAssumption DEF SessionAssumption, entities, social, run, messages, Heard

-----------------------------------------------------------------------------
(* Records: rows and answers. *)

TableNames == DOMAIN Keys

\* A function from tables to rows by primary key.
Filled(f) ==
  /\ f = [t \in TableNames |-> f[t]]
  /\ \A t \in TableNames : f[t] \in [Keys[t] -> Values[t] \cup {NoRow}]

Makes(w, t, k) == Writes(w) /\ w.table = t /\ w.key = k /\ w.value = rows[t][k]

\* The request in hand accounts for a row only once its statement has been executed.
Accounted ==
  \A t \in TableNames : \A k \in Keys[t] :
    \/ rows[t][k] = known[t][k]
    \/ \E w \in doubts : Makes(w, t, k)
    \/ statement = 2 /\ Makes(request, t, k)

Executed ==
  Writes(request) /\ statement = 2 =>
    Exists(request.table) /\ rows[request.table][request.key] = request.value

OnePlotEach ==
  \A p \in Owner : \A a, b \in PlotSlots :
    rows["plot_assignment"][a] = p /\ rows["plot_assignment"][b] = p => a = b

RecordsShape == RecordsTypeOK /\ Filled(rows) /\ Filled(known)
RecordsInv == RecordsShape /\ Accounted /\ Executed /\ OnePlotEach

USE RecordsAssumption DEF RecordsAssumption

\* The tables the migration makes.
LEMMA FourTables ==
  /\ TableNames = {"creature_bond", "plot_decoration", "plot_assignment", "identities"}
  /\ Keys["plot_assignment"] = PlotSlots /\ Values["plot_assignment"] = Owner
  /\ Keys["identities"] = Hashes /\ Values["identities"] = Owner
BY DEF TableNames, Keys, Values

\* The number of its statements.
LEMMA FiveStatements == Len(Tables) = 5
BY DEF Tables

\* A write names a table, a key of it and a value it can hold.
LEMMA WriteTarget ==
  ASSUME NEW r \in Requests, Writes(r)
  PROVE  r.table \in TableNames /\ r.key \in Keys[r.table] /\ r.value \in Values[r.table]
<1>1. CASE \E t \in {"creature_bond", "plot_decoration", "plot_assignment"} :
             r \in [op : {"save"}, table : {t}, key : Keys[t], value : Values[t]]
  BY <1>1, FourTables
<1>2. CASE r \in [op : {"create"}, table : {"identities"}, key : Hashes, value : Owner]
  BY <1>2, FourTables
<1>3. CASE r.op \in {"load", "migrate"}
  BY <1>3 DEF Writes
<1>4. \/ \E t \in {"creature_bond", "plot_decoration", "plot_assignment"} :
           r \in [op : {"save"}, table : {t}, key : Keys[t], value : Values[t]]
      \/ r \in [op : {"create"}, table : {"identities"}, key : Hashes, value : Owner]
      \/ r \in [op : {"load"}, table : {"creature_bond"}, key : Keys.creature_bond]
      \/ r \in [op : {"load"}, table : {"plot_assignment", "plot_decoration"}, player : Owner]
      \/ r \in [op : {"migrate"}]
  BY DEF Requests
<1> QED
  BY <1>1, <1>2, <1>3, <1>4

\* Setting one row leaves the others as they were.
LEMMA OneRow ==
  ASSUME NEW f, Filled(f), NEW t \in TableNames, NEW k \in Keys[t], NEW v \in Values[t],
         NEW g, g = [f EXCEPT ![t][k] = v]
  PROVE  /\ Filled(g)
         /\ g[t][k] = v
         /\ \A u \in TableNames : \A j \in Keys[u] :
              u # t \/ j # k => g[u][j] = f[u][j]
BY DEF Filled

\* What the caller knows after an answer is one row more.
LEMMA AnswerShape ==
  ASSUME RecordsShape, NEW o, Answer(o)
  PROVE  request' = NoRow /\ statement' = 0 /\ Filled(known')
<1>1. CASE o = Done /\ Writes(request)
  <2>1. request \in Requests
    BY <1>1 DEF RecordsShape, RecordsTypeOK, Writes
  <2> QED
    BY <1>1, <2>1, WriteTarget, OneRow DEF Answer, RecordsShape
<1>2. CASE ~(o = Done /\ Writes(request))
  BY <1>2 DEF Answer, RecordsShape, history, Filled
<1> QED
  BY <1>1, <1>2

\* What a statement leaves behind is again rows by primary key.
LEMMA WriteShape ==
  ASSUME RecordsShape, Write, Writes(request)
  PROVE  /\ Filled(rows') /\ Filled(known')
         /\ request' \in Requests \cup {NoRow} /\ statement' \in 0..Len(Tables)
<1>1. request \in Requests
  BY DEF RecordsShape, RecordsTypeOK, Writes
<1>2. CASE Allowed
  <2>1. /\ rows' = [rows EXCEPT ![request.table][request.key] = request.value]
        /\ statement' = 2 /\ request' = request /\ known' = known
    BY <1>2 DEF Write, history
  <2>2. Filled(rows')
    BY <1>1, <2>1, WriteTarget, OneRow DEF RecordsShape
  <2> QED
    BY <1>1, <2>1, <2>2, FiveStatements DEF RecordsShape
<1>3. CASE ~Allowed
  BY <1>3, AnswerShape, FiveStatements DEF Write, RecordsShape
<1> QED
  BY <1>2, <1>3

\* Every step keeps the tables filled with rows of their kinds.
LEMMA ShapeStep ==
  ASSUME RecordsShape, [RecordsNext]_records
  PROVE  RecordsShape'
<1>t. /\ RecordsTypeOK /\ Filled(rows) /\ Filled(known)
      /\ request \in Requests \cup {NoRow} /\ statement \in 0..5
      /\ created \in 0..5 /\ failures \in 0..MaxFailures
  BY FiveStatements DEF RecordsShape, RecordsTypeOK
<1> SUFFICES /\ request' \in Requests \cup {NoRow} /\ statement' \in 0..5
             /\ created' \in 0..5 /\ failures' \in 0..MaxFailures
             /\ Filled(rows') /\ Filled(known')
  BY FiveStatements DEF RecordsShape, RecordsTypeOK, Filled, TableNames
<1>1. ASSUME NEW r \in Requests, Receive(r)
      PROVE  /\ request' \in Requests \cup {NoRow} /\ statement' \in 0..5
             /\ created' \in 0..5 /\ failures' \in 0..MaxFailures
             /\ Filled(rows') /\ Filled(known')
  BY <1>1, <1>t DEF Receive, store, history
<1>2. CASE UpdateRow \/ InsertNewRow \/ CreateIdentity
  <2>1. Writes(request)
    BY <1>2 DEF UpdateRow, InsertNewRow, CreateIdentity, Serving, Writes
  <2>2. created' = created /\ failures' = failures
    BY <1>2 DEF UpdateRow, InsertNewRow, CreateIdentity
  <2>3. CASE Write
    BY <1>t, <2>1, <2>2, <2>3, WriteShape, FiveStatements
  <2>4. CASE statement' = 1 /\ UNCHANGED <<request, rows, outcome, history>>
    BY <1>t, <2>2, <2>4 DEF history
  <2>5. CASE Answer(Refused) /\ UNCHANGED rows
    BY <1>t, <2>2, <2>5, AnswerShape
  <2> QED
    BY <1>2, <2>3, <2>4, <2>5 DEF UpdateRow, InsertNewRow, CreateIdentity
<1>3. CASE Written \/ ServeQuery \/ NoTable
  <2>1. \E o : Answer(o)
    BY <1>3 DEF Written, ServeQuery, NoTable
  <2>2. UNCHANGED <<created, rows, failures>>
    BY <1>3 DEF Written, ServeQuery, NoTable, store
  <2> QED
    BY <1>t, <2>1, <2>2, AnswerShape
<1>4. CASE Migrate
  <2>1. CASE statement = 5
    BY <1>4, <1>t, <2>1, AnswerShape, FiveStatements DEF Migrate
  <2>2. CASE statement # 5
    BY <1>4, <1>t, <2>2, FiveStatements DEF Migrate, history
  <2> QED
    BY <2>1, <2>2
<1>5. CASE Fail
  BY <1>5, <1>t, AnswerShape DEF Fail, store
<1>6. CASE Restart
  BY <1>6, <1>t DEF Restart, store
<1>7. CASE UNCHANGED records
  BY <1>7, <1>t DEF records, store, history
<1> QED
  BY <1>1, <1>2, <1>3, <1>4, <1>5, <1>6, <1>7 DEF RecordsNext

\* No request is no write.
LEMMA NobodyWrites == ~Writes(NoRow)
BY DEF Writes

\* An answer moves a row from the request in hand to what is known.
LEMMA AnswerKeepsAccount ==
  ASSUME RecordsInv, NEW o, Answer(o), rows' = rows,
         Writes(request) => (o = Done <=> statement = 2)
  PROVE  Accounted' /\ Executed' /\ OnePlotEach'
<1>0. request' = NoRow /\ OnePlotEach' /\ Executed'
  BY NobodyWrites DEF Answer, RecordsInv, Executed, OnePlotEach
<1>1. CASE o = Done /\ Writes(request)
  <2>1. request \in Requests
    BY <1>1 DEF RecordsInv, RecordsShape, RecordsTypeOK, Writes
  <2>2. /\ known' = [known EXCEPT ![request.table][request.key] = request.value]
        /\ doubts' = {d \in doubts : ~SameRow(d, request)}
    BY <1>1 DEF Answer
  <2>3. request.table \in TableNames /\ request.key \in Keys[request.table]
    BY <1>1, <2>1, WriteTarget
  <2>4. /\ known'[request.table][request.key] = request.value
        /\ \A t \in TableNames : \A k \in Keys[t] :
             t # request.table \/ k # request.key => known'[t][k] = known[t][k]
    <3>1. Filled(known) /\ request.value \in Values[request.table]
      BY <1>1, <2>1, WriteTarget DEF RecordsInv, RecordsShape
    <3> QED
      BY <2>2, <2>3, <3>1 DEF Filled
  <2>5. rows[request.table][request.key] = request.value
    BY <1>1 DEF RecordsInv, Executed
  <2>6. ASSUME NEW t \in TableNames, NEW k \in Keys[t]
        PROVE  rows'[t][k] = known'[t][k] \/ \E w \in doubts' : Makes(w, t, k)'
    <3>1. CASE t = request.table /\ k = request.key
      BY <3>1, <2>4, <2>5
    <3>2. CASE t # request.table \/ k # request.key
      <4>1. rows[t][k] = known[t][k] \/ \E w \in doubts : Makes(w, t, k)
        BY <3>2 DEF RecordsInv, Accounted, Makes
      <4>2. ASSUME NEW w \in doubts, Makes(w, t, k)
            PROVE  w \in doubts' /\ Makes(w, t, k)'
        BY <2>2, <3>2, <4>2 DEF Makes, SameRow
      <4> QED
        BY <2>4, <3>2, <4>1, <4>2
    <3> QED
      BY <3>1, <3>2
  <2> QED
    BY <1>0, <2>6 DEF Accounted
<1>2. CASE ~(o = Done /\ Writes(request))
  <2>1. known' = known /\ doubts' = doubts
    BY <1>2 DEF Answer, history
  <2>2. \A t \in TableNames : \A k \in Keys[t] :
          rows[t][k] = known[t][k] \/ \E w \in doubts : Makes(w, t, k)
    BY <1>2 DEF RecordsInv, Accounted, Makes
  <2> QED
    BY <1>0, <2>1, <2>2 DEF Accounted, Makes
<1> QED
  BY <1>1, <1>2

\* A statement that changes a row makes the request in hand account for it.
LEMMA WriteKeepsAccount ==
  ASSUME RecordsInv, Write, Allowed, Writes(request), Exists(request.table),
         created' = created
  PROVE  Accounted' /\ Executed' /\ OnePlotEach'
<1>0. /\ rows' = [rows EXCEPT ![request.table][request.key] = request.value]
      /\ statement' = 2 /\ request' = request /\ known' = known /\ doubts' = doubts
  BY DEF Write, history
<1>1. request \in Requests
  BY DEF RecordsInv, RecordsShape, RecordsTypeOK, Writes
<1>2. /\ request.table \in TableNames /\ request.key \in Keys[request.table]
      /\ request.value \in Values[request.table]
  BY <1>1, WriteTarget
<1>3. /\ rows'[request.table][request.key] = request.value
      /\ \A t \in TableNames : \A k \in Keys[t] :
           t # request.table \/ k # request.key => rows'[t][k] = rows[t][k]
  <2>1. Filled(rows)
    BY DEF RecordsInv, RecordsShape
  <2> QED
    BY <1>0, <1>2, <2>1 DEF Filled
<1>4. ASSUME NEW t \in TableNames, NEW k \in Keys[t]
      PROVE  \/ rows'[t][k] = known'[t][k]
             \/ \E w \in doubts' : Makes(w, t, k)'
             \/ statement' = 2 /\ Makes(request, t, k)'
  <2>1. CASE t = request.table /\ k = request.key
    BY <1>0, <1>3, <2>1 DEF Makes
  <2>2. CASE t # request.table \/ k # request.key
    <3>1. rows[t][k] = known[t][k] \/ \E w \in doubts : Makes(w, t, k)
      BY <2>2 DEF RecordsInv, Accounted, Makes
    <3> QED
      BY <1>0, <1>3, <2>2, <3>1 DEF Makes
  <2> QED
    BY <2>1, <2>2
<1>5. Executed'
  BY <1>0, <1>3 DEF Executed, Exists
<1>6. OnePlotEach'
  <2>1. "plot_assignment" \in TableNames
    BY FourTables
  <2>2. CASE request.table # "plot_assignment"
    BY <1>3, <2>1, <2>2, FourTables DEF RecordsInv, OnePlotEach
  <2>3. CASE request.table = "plot_assignment"
    <3>1. \A slot \in PlotSlots \ {request.key} : rows["plot_assignment"][slot] # request.value
      BY <2>3 DEF Allowed
    <3> QED
      BY <1>2, <1>3, <2>1, <2>3, <3>1, FourTables DEF RecordsInv, OnePlotEach
  <2> QED
    BY <2>2, <2>3
<1> QED
  BY <1>4, <1>5, <1>6 DEF Accounted

\* Every row is accounted for: by an answer, by a lost answer or by the request in hand,
\* through failing statements and restarts.
LEMMA AccountStep ==
  ASSUME RecordsInv, [RecordsNext]_records
  PROVE  Accounted' /\ Executed' /\ OnePlotEach'
<1>i. Accounted /\ Executed /\ OnePlotEach /\ RecordsTypeOK
  BY DEF RecordsInv, RecordsShape
<1>1. ASSUME NEW r \in Requests, Receive(r)
      PROVE  Accounted' /\ Executed' /\ OnePlotEach'
  <2>1. /\ request = NoRow /\ statement' = 0
        /\ rows' = rows /\ known' = known /\ doubts' = doubts
    BY <1>1 DEF Receive, store, history
  <2>2. \A t \in TableNames : \A k \in Keys[t] :
          rows[t][k] = known[t][k] \/ \E w \in doubts : Makes(w, t, k)
    BY <1>i, <2>1, NobodyWrites DEF Accounted, Makes
  <2> QED
    BY <1>i, <2>1, <2>2 DEF Accounted, Makes, Executed, OnePlotEach
<1>2. CASE UpdateRow \/ InsertNewRow \/ CreateIdentity
  <2>1. Writes(request) /\ Exists(request.table) /\ created' = created
    BY <1>2 DEF UpdateRow, InsertNewRow, CreateIdentity, Serving, Writes
  <2>2. statement # 2
    BY <1>2 DEF UpdateRow, InsertNewRow, CreateIdentity
  <2>3. Refused # Done
    BY DEF Refused, Done
  <2>4. CASE Write /\ Allowed
    BY <2>1, <2>4, WriteKeepsAccount
  <2>5. CASE Answer(Refused) /\ UNCHANGED rows
    BY <2>2, <2>3, <2>5, AnswerKeepsAccount
  <2>6. CASE statement' = 1 /\ UNCHANGED <<request, rows, outcome, history>>
    <3>1. \A t \in TableNames : \A k \in Keys[t] :
            rows[t][k] = known[t][k] \/ \E w \in doubts : Makes(w, t, k)
      BY <1>i, <2>2 DEF Accounted
    <3> QED
      BY <1>i, <2>6, <3>1 DEF Accounted, Makes, Executed, OnePlotEach, history
  <2> QED
    BY <1>2, <2>4, <2>5, <2>6 DEF UpdateRow, InsertNewRow, CreateIdentity, Write
<1>3. CASE Written
  BY <1>3, AnswerKeepsAccount DEF Written, store
<1>4. CASE ServeQuery
  <2>1. ~Writes(request) /\ rows' = rows
    BY <1>4 DEF ServeQuery, Serving, Writes, store
  <2> QED
    BY <1>4, <2>1, AnswerKeepsAccount DEF ServeQuery
<1>5. CASE Migrate
  <2>1. ~Writes(request) /\ rows' = rows
    BY <1>5 DEF Migrate, Writes
  <2>2. CASE \E o : Answer(o)
    BY <2>1, <2>2, AnswerKeepsAccount
  <2>3. CASE UNCHANGED <<request, outcome, history>>
    BY <1>i, <2>1, <2>3 DEF Accounted, Makes, Executed, OnePlotEach, history
  <2> QED
    BY <1>5, <2>2, <2>3 DEF Migrate
<1>6. CASE NoTable \/ Fail
  <2>1. Answer(Broken) /\ rows' = rows
    BY <1>6 DEF NoTable, Fail, store
  <2>2. Writes(request) => statement # 2
    BY <1>6, <1>i DEF NoTable, Fail, Executed
  <2>3. Broken # Done
    BY DEF Broken, Done
  <2> QED
    BY <2>1, <2>2, <2>3, AnswerKeepsAccount
<1>7. CASE Restart
  <2>1. /\ request' = NoRow /\ rows' = rows /\ known' = known
        /\ doubts' = IF Writes(request) THEN doubts \cup {request} ELSE doubts
    BY <1>7 DEF Restart, store
  <2>2. ASSUME NEW t \in TableNames, NEW k \in Keys[t]
        PROVE  rows[t][k] = known[t][k] \/ \E w \in doubts' : Makes(w, t, k)
    BY <1>i, <2>1 DEF Accounted, Makes
  <2> QED
    BY <1>i, <2>1, <2>2, NobodyWrites DEF Accounted, Makes, Executed, OnePlotEach
<1>8. CASE UNCHANGED records
  BY <1>8, <1>i DEF records, store, history, Accounted, Makes, Executed, Exists, OnePlotEach
<1> QED
  BY <1>1, <1>2, <1>3, <1>4, <1>5, <1>6, <1>7, <1>8 DEF RecordsNext

\* For every set of keys and values, and however often statements fail or the process is
\* restarted: what the repository answered is what its tables hold, and no player owns two
\* plots in them.
THEOREM AnswersStand == RecordsSpec => [](RecordsTypeOK /\ RowsAsAnswered)
<1>1. RecordsInit => RecordsInv
  <2> SUFFICES ASSUME RecordsInit PROVE RecordsInv
    OBVIOUS
  <2>1. Filled(rows) /\ \A t \in TableNames : \A k \in Keys[t] : rows[t][k] = NoRow
    BY DEF RecordsInit, Filled, TableNames
  <2>2. RecordsTypeOK
    BY <2>1, FiveStatements DEF RecordsInit, RecordsTypeOK, Filled, TableNames
  <2>3. known = rows /\ request = NoRow
    BY DEF RecordsInit
  <2>4. OnePlotEach
    BY <2>1, FourTables DEF OnePlotEach
  <2> QED
    BY <2>1, <2>2, <2>3, <2>4, NobodyWrites DEF RecordsInv, RecordsShape, Accounted, Executed
<1>2. RecordsInv /\ [RecordsNext]_records => RecordsInv'
  BY ShapeStep, AccountStep DEF RecordsInv
<1>3. ASSUME RecordsInv PROVE RowsAsAnswered
  <2>1. ASSUME NEW p \in Owner
        PROVE  Cardinality({s \in PlotSlots : rows.plot_assignment[s] = p}) <= 1
    <3> DEFINE S == {s \in PlotSlots : rows["plot_assignment"][s] = p}
    <3>1. CASE S = {}
      BY <3>1, FS_EmptySet
    <3>2. CASE S # {}
      <4>1. PICK s : s \in S
        BY <3>2
      <4>2. S = {s}
        BY <1>3, <4>1 DEF RecordsInv, OnePlotEach
      <4>3. Cardinality({s}) = 1
        BY FS_Singleton
      <4> QED
        BY <4>2, <4>3
    <3> QED
      BY <3>1, <3>2
  <2> QED
    BY <1>3, <2>1 DEF RecordsInv, Accounted, Makes, RowsAsAnswered, TableNames
<1>4. RecordsInv => RecordsTypeOK
  BY DEF RecordsInv, RecordsShape
<1> QED
  BY <1>1, <1>2, <1>3, <1>4, PTL DEF RecordsSpec

HIDE RecordsAssumption DEF RecordsAssumption

-----------------------------------------------------------------------------
(* Tasks: the certificate. *)

\* A cert task is one step, whose failure counts: it makes the certificate, or there
\* was nothing to do.
CertTask ==
  task = "cert" =>
    /\ Len(plan) = 1 /\ Head(plan).ignoreFailure = FALSE
    /\ Head(plan).makes = "certificate" \/ certificate.age <= FreshDays

CertInv == TasksTypeOK /\ CertTask /\ CertificateLasts

USE TasksAssumption DEF TasksAssumption

\* build_plan of the cert task: one step that makes the certificate, or one that has nothing
\* to do because it is fresh.
LEMMA CertPlanIsOneStep ==
  ASSUME NEW force \in BOOLEAN
  PROVE  /\ CertPlan(force) # <<>> /\ Len(CertPlan(force)) = 1
         /\ Head(CertPlan(force)).ignoreFailure = FALSE
         /\ \/ Head(CertPlan(force)).makes = "certificate"
            \/ certificate.age # NoFile /\ ~(certificate.age > FreshDays)
<1>1. Making("cargo", "certificate").makes = "certificate"
      /\ Making("cargo", "certificate").ignoreFailure = FALSE
  BY DEF Making, ExecStep
<1>2. ExecStep("echo").ignoreFailure = FALSE
  BY DEF ExecStep
<1>3. CASE force \/ Stale(certificate)
  BY <1>1, <1>3 DEF CertPlan
<1>4. CASE ~(force \/ Stale(certificate))
  BY <1>2, <1>4 DEF CertPlan, Stale
<1> QED
  BY <1>3, <1>4

CertificateStates == [age : Ages, key : BOOLEAN, digest : BOOLEAN]
Viewers == [age : Ages, whole : BOOLEAN]

\* A day makes a file a day older, up to the last age that matters.
LEMMA AgesGrow ==
  ASSUME NEW age \in Ages
  PROVE  Older(age) \in Ages /\ age \in Nat
           /\ (Older(age) = age + 1 \/ (Older(age) = age /\ age >= MaxDays))
BY DEF Older, Ages, NoFile

\* A file that was just made is of today.
LEMMA NewFiles ==
  ASSUME NEW key \in BOOLEAN, NEW digest \in BOOLEAN
  PROVE  /\ [age |-> 0, key |-> key, digest |-> digest] \in CertificateStates
         /\ [age |-> 0, whole |-> key] \in Viewers
BY DEF CertificateStates, Viewers, Ages, NoFile

\* A step of a task leaves the certificate as it was or makes it anew.
LEMMA StepFiles ==
  ASSUME TasksTypeOK, StepSucceeds \/ StepFails
  PROVE  /\ certificate' \in CertificateStates /\ viewer' \in Viewers /\ installed' = installed
         /\ certificate' = certificate \/ certificate'.age = 0
<1>t. certificate \in CertificateStates /\ viewer \in Viewers
  BY DEF TasksTypeOK, CertificateStates, Viewers
<1>1. CASE StepSucceeds
  <2>1. certificate' = certificate \/ certificate' = [age |-> 0, key |-> TRUE, digest |-> TRUE]
    BY <1>1 DEF StepSucceeds
  <2>2. viewer' = viewer \/ viewer' = [age |-> 0, whole |-> TRUE]
    BY <1>1 DEF StepSucceeds
  <2> QED
    BY <1>1, <1>t, <2>1, <2>2, NewFiles DEF StepSucceeds
<1>2. CASE StepFails
  <2>1. \/ certificate' = certificate
        \/ \E key \in BOOLEAN : certificate' = [age |-> 0, key |-> key, digest |-> FALSE]
    BY <1>2 DEF StepFails, HalfMade, files
  <2>3. certificate' \in CertificateStates /\ (certificate' = certificate \/ certificate'.age = 0)
    <3>1. CASE certificate' = certificate
      BY <1>t, <3>1
    <3>2. ASSUME NEW key \in BOOLEAN,
                 certificate' = [age |-> 0, key |-> key, digest |-> FALSE]
          PROVE  certificate' \in CertificateStates /\ certificate'.age = 0
      BY <3>2, NewFiles
    <3> QED
      BY <2>1, <3>1, <3>2
  <2>2. viewer' = viewer \/ viewer' = [age |-> 0, whole |-> FALSE]
    BY <1>2 DEF StepFails, HalfMade, files
  <2> QED
    BY <1>2, <1>t, <2>2, <2>3, NewFiles DEF StepFails
<1> QED
  BY <1>1, <1>2

\* A step ends the task, or leaves its remaining steps.
LEMMA EndsOrGoesOn ==
  ASSUME TasksTypeOK, StepSucceeds \/ StepFails \/ CannotStart
  PROVE  /\ task' \in {"none", task} /\ success' \in BOOLEAN
         /\ sinceCert' = sinceCert
              \/ (sinceCert' = 0 /\ task = "cert" /\ success' = TRUE /\ task' = "none")
BY DEF StepSucceeds, StepFails, CannotStart, Ends, Continue, TasksTypeOK

\* A cert task that ends well leaves a certificate that is fresh, and every other end of a
\* task leaves it no older than it was.
LEMMA CertStep ==
  ASSUME CertInv, [TasksNext]_tasks
  PROVE  CertInv'
<1>t. /\ TasksTypeOK /\ CertTask /\ CertificateLasts
      /\ certificate \in CertificateStates /\ viewer \in Viewers /\ sinceCert \in Ages
      /\ certificate.age \in Ages
  BY DEF CertInv, TasksTypeOK, CertificateStates, Viewers
<1>n. 0 \in Ages /\ sinceCert \in Nat /\ certificate.age \in Nat
  BY <1>t DEF Ages, NoFile
<1>1. ASSUME NEW t \in {"cert", "other"}, NEW steps, Start(t, steps),
             t = "cert" => \E force \in BOOLEAN : steps = CertPlan(force)
      PROVE  CertInv'
  <2>1. /\ task' \in {"none", t} /\ plan' = steps /\ success' = TRUE
        /\ installed' = installed /\ certificate' = certificate /\ viewer' = viewer
        /\ sinceCert' = sinceCert
    BY <1>1 DEF Start, files
  <2>2. CertTask'
    <3>1. CASE t = "cert"
      <4>1. PICK force \in BOOLEAN : plan' = CertPlan(force)
        BY <1>1, <2>1, <3>1
      <4>2. certificate.age # NoFile /\ ~(certificate.age > FreshDays)
              => certificate.age <= FreshDays
        BY <1>n
      <4> QED
        BY <2>1, <4>1, <4>2, CertPlanIsOneStep DEF CertTask
    <3>2. CASE t # "cert"
      BY <1>1, <2>1, <3>2 DEF CertTask
    <3> QED
      BY <3>1, <3>2
  <2> QED
    BY <1>t, <2>1, <2>2 DEF CertInv, TasksTypeOK, CertificateLasts
<1>2. CASE StepSucceeds \/ StepFails \/ CannotStart
  <2>1. /\ certificate' \in CertificateStates /\ viewer' \in Viewers /\ installed' = installed
        /\ certificate' = certificate \/ certificate'.age = 0
    BY <1>2, <1>t, StepFiles DEF CannotStart, files
  <2>2. /\ task' \in {"none", task} /\ success' \in BOOLEAN
        /\ sinceCert' = sinceCert
             \/ (sinceCert' = 0 /\ task = "cert" /\ success' = TRUE /\ task' = "none")
    BY <1>2, <1>t, EndsOrGoesOn
  <2>3. task' \in {"none", "cert", "other"} /\ sinceCert' \in Ages
    BY <1>t, <1>n, <2>2 DEF TasksTypeOK
  <2>4. TasksTypeOK'
    BY <1>t, <2>1, <2>2, <2>3 DEF TasksTypeOK, CertificateStates, Viewers
  <2>5. task = "cert" => task' = "none"
    BY <1>2, <1>t DEF CertTask, StepSucceeds, StepFails, CannotStart, Ends, Continue
  <2>6. CertTask'
    BY <2>2, <2>5 DEF CertTask
  <2>7. ASSUME sinceCert' = sinceCert PROVE CertificateLasts'
    <3>1. certificate'.age = certificate.age \/ certificate'.age = 0
      BY <2>1
    <3>2. 0 <= FreshDays + sinceCert
      BY <1>n
    <3> QED
      BY <1>t, <2>7, <3>1, <3>2 DEF CertificateLasts
  <2>8. ASSUME sinceCert' = 0, task = "cert", success' = TRUE
        PROVE  CertificateLasts'
    <3>1. StepSucceeds
      BY <1>2, <1>t, <2>8 DEF StepFails, CannotStart, Ends, CertTask
    <3>2. certificate'.age <= FreshDays
      BY <1>n, <1>t, <2>8, <3>1 DEF StepSucceeds, CertTask
    <3> QED
      <4>1. FreshDays + sinceCert' = FreshDays
        BY <2>8
      <4> QED
        BY <3>2, <4>1 DEF CertificateLasts
  <2> QED
    BY <2>2, <2>4, <2>6, <2>7, <2>8 DEF CertInv
<1>3. CASE DayPasses
  <2>1. certificate'.age = Older(certificate.age) /\ sinceCert' = Older(sinceCert)
    BY <1>3, <1>t DEF DayPasses, CertificateStates
  <2>2. certificate' \in CertificateStates /\ viewer' \in Viewers
    BY <1>3, <1>t, AgesGrow DEF DayPasses, CertificateStates, Viewers
  <2>3. TasksTypeOK'
    BY <1>3, <1>t, <2>1, <2>2, AgesGrow DEF DayPasses, TasksTypeOK, CertificateStates, Viewers
  <2>4. CertTask'
    BY <1>3 DEF DayPasses, Running, CertTask
  <2>5. CertificateLasts'
    BY <1>t, <1>n, <2>1, AgesGrow DEF CertificateLasts
  <2> QED
    BY <2>3, <2>4, <2>5 DEF CertInv
<1>4. CASE UNCHANGED tasks
  BY <1>4, <1>t DEF tasks, files, CertInv, TasksTypeOK, CertTask, CertificateLasts
<1> QED
  BY <1>1, <1>2, <1>3, <1>4 DEF TasksNext

\* Whatever tasks are run, fail or are aborted around it, and for any term: the certificate
\* has not expired as long as a cert task was successful recently enough.
THEOREM CertificateIsKept == TasksSpec => [](TasksTypeOK /\ CertificateLasts)
<1>1. TasksInit => CertInv
  <2> SUFFICES ASSUME TasksInit PROVE CertInv
    OBVIOUS
  <2>1. sinceCert = MaxDays + 1 /\ task = "none"
    BY DEF TasksInit, NoFile
  <2>2. TasksTypeOK
    BY DEF TasksInit, TasksTypeOK, Ages, NoFile
  <2> QED
    BY <2>1, <2>2 DEF CertInv, CertTask, CertificateLasts
<1>2. CertInv /\ [TasksNext]_tasks => CertInv'
  BY CertStep
<1>3. CertInv => TasksTypeOK /\ CertificateLasts
  BY DEF CertInv
<1> QED
  BY <1>1, <1>2, <1>3, PTL DEF TasksSpec

HIDE TasksAssumption DEF TasksAssumption

-----------------------------------------------------------------------------
(* Records and Tasks: the disk. *)

\* What is on disk is what was answered, and a certificate that lasts.
THEOREM DiskKeeps == RecordsSpec /\ TasksSpec => []KeptOnDisk
<1>1. RowsAsAnswered /\ CertificateLasts => KeptOnDisk
  BY DEF KeptOnDisk
<1> QED
  BY <1>1, AnswersStand, CertificateIsKept, PTL

-----------------------------------------------------------------------------
(* ServerStart: what a server has when it runs. *)

Early == {"logic", "admin", "database", "tls"}
StartSystems == {"setup_world", "spawn_resource_nodes", "setup_server"}
CreatureEntities == [id : Nat, physical : BOOLEAN, cooldown : 0..MaxTicks]
NodesOf(w) == [r \in DOMAIN w.resources |-> Len(w.resources[r].inside)]
CreaturesOf(w) == IF w = None THEN <<>> ELSE w.creatures
IdsOf(list) == [i \in DOMAIN list |-> list[i].id]

NoBodies == \A i \in DOMAIN creatures : ~ creatures[i].physical

\* What the systems of the start that have run leave behind.
StartedSoFar ==
  /\ startup \subseteq StartSystems
  /\ identity # None
  /\ "setup_world" \notin startup => spawning = CreaturesOf(world)
  /\ "spawn_resource_nodes" \notin startup => world # None /\ nodes = NodesOf(world)
  /\ "setup_server" \notin startup => listening

StartInv ==
  /\ ServerStartTypeOK /\ asset \in Worlds /\ spawning \in Seq(CreatureConfigs)
  /\ world # None => Valid(world)
  /\ step # "running" => creatures = <<>>
  /\ step = "startup" => StartedSoFar
  /\ StartsWhole /\ NoBodies

\* The ticks until a creature picks its next direction are in the configured range.
LEMMA DirectionTicksInRange == DirectionTicks \subseteq 0..MaxTicks
<1> DEFINE d == MaxTicks - MinTicks
<1>1. d \in Nat /\ MinTicks \in Nat /\ MaxTicks \in Nat /\ MinTicks + d = MaxTicks
  BY ServerStartAssumption
<1> HIDE DEF d
<1>2. d \div 2 \in Nat /\ d \div 2 <= d
  BY <1>1
<1>3. DirectionTicks = MinTicks..(MinTicks + d \div 2)
  BY DEF DirectionTicks, d
<1> QED
  BY <1>1, <1>2, <1>3

\* A world has lists of resources and of creatures; None is no world.
LEMMA WorldsHaveLists ==
  /\ None \notin Worlds
  /\ \A w \in Worlds :
       /\ w.creatures \in Seq(CreatureConfigs) /\ w.resources \in Seq(ResourceConfigs)
       /\ NodesOf(w) \in Seq(Nat)
       /\ Valid(w) => NodesOf(w) = [r \in DOMAIN w.resources |-> w.resources[r].count]
<1>1. ASSUME NEW w \in Worlds
      PROVE  w.creatures \in Seq(CreatureConfigs) /\ w.resources \in Seq(ResourceConfigs)
  BY ServerStartAssumption
<1>2. ASSUME NEW w \in Worlds
      PROVE  NodesOf(w) \in Seq(Nat)
  <2>1. DOMAIN w.resources = 1..Len(w.resources) /\ Len(w.resources) \in Nat
    BY <1>1
  <2>2. ASSUME NEW r \in 1..Len(w.resources)
        PROVE  Len(w.resources[r].inside) \in Nat
    <3>1. w.resources[r] \in ResourceConfigs
      BY <1>1, ElementOfSeq
    <3>2. w.resources[r].inside \in Seq(BOOLEAN)
      BY <3>1 DEF ResourceConfigs
    <3> QED
      BY <3>2
  <2>3. NodesOf(w) \in [1..Len(w.resources) -> Nat]
    BY <2>1, <2>2 DEF NodesOf
  <2> QED
    BY <2>1, <2>3, SeqDef
<1>3. ASSUME NEW w \in Worlds, Valid(w)
      PROVE  NodesOf(w) = [r \in DOMAIN w.resources |-> w.resources[r].count]
  BY <1>3 DEF NodesOf, Valid, ValidResource
<1> QED
  BY <1>1, <1>2, <1>3, ServerStartAssumption

\* The creatures appear when the commands of the start are applied, each with its own id and
\* without a body.
LEMMA SpawnStartsWhole ==
  ASSUME StartInv, Spawn
  PROVE  StartInv'
<1>1. /\ step = "startup" /\ step' = "running" /\ startup = {} /\ spawning' = <<>>
      /\ UNCHANGED <<settings, asset, world, admin, database, identity, listening, nodes>>
  BY DEF Spawn, given
<1>2. /\ world = asset /\ asset \in Worlds /\ Valid(world) /\ world # None
      /\ nodes = NodesOf(world) /\ spawning = world.creatures /\ creatures = <<>>
      /\ identity # None /\ listening /\ spawning \in Seq(CreatureConfigs)
  BY <1>1 DEF StartInv, StartedSoFar, ServerStartTypeOK, CreaturesOf
<1>3. PICK ticks \in [DOMAIN spawning -> DirectionTicks] :
        creatures' = creatures \o
          [i \in DOMAIN spawning |-> [id |-> spawning[i].id, physical |-> FALSE,
                                      cooldown |-> ticks[i]]]
  BY DEF Spawn
<1> DEFINE new == [i \in DOMAIN spawning |-> [id |-> spawning[i].id, physical |-> FALSE,
                                              cooldown |-> ticks[i]]]
<1>4. new \in Seq(CreatureEntities) /\ DOMAIN new = DOMAIN spawning
  <2>1. DOMAIN spawning = 1..Len(spawning) /\ Len(spawning) \in Nat
    BY <1>2
  <2>2. ASSUME NEW i \in 1..Len(spawning)
        PROVE  new[i] \in CreatureEntities
    <3>1. spawning[i] \in CreatureConfigs
      BY <1>2, ElementOfSeq
    <3>2. spawning[i].id \in Nat
      BY <3>1 DEF CreatureConfigs
    <3>3. ticks[i] \in 0..MaxTicks
      BY <1>3, <2>1, DirectionTicksInRange
    <3> QED
      BY <2>1, <3>2, <3>3 DEF CreatureEntities
  <2>3. DOMAIN new = 1..Len(spawning)
    BY <2>1
  <2> HIDE DEF new
  <2>4. new \in [1..Len(spawning) -> CreatureEntities]
    <3>1. new = [i \in 1..Len(spawning) |-> new[i]]
      BY <2>1 DEF new
    <3> QED
      BY <2>2, <3>1
  <2> QED
    BY <2>1, <2>3, <2>4, SeqDef
<1>5. creatures' = new
  BY <1>2, <1>3, <1>4
<1> HIDE DEF new
<1>6. NoBodies' /\ IdsOf(creatures') = IdsOf(world.creatures)
  BY <1>2, <1>4, <1>5 DEF new, NoBodies, IdsOf
<1>7. ServerStartTypeOK'
  BY <1>1, <1>4, <1>5 DEF StartInv, ServerStartTypeOK, CreatureEntities
<1>8. spawning' \in Seq(CreatureConfigs)
  BY <1>1
<1>9. StartsWhole'
  BY <1>1, <1>2, <1>6, WorldsHaveLists DEF StartsWhole, IdsOf
<1> QED
  BY <1>1, <1>2, <1>6, <1>7, <1>8, <1>9 DEF StartInv

\* A tick of the creatures changes their cooldowns, and nothing else.
LEMMA WanderKeepsWhole ==
  ASSUME StartInv, WanderAi
  PROVE  StartInv'
<1>1. PICK ticks \in [DOMAIN creatures -> DirectionTicks] :
        creatures' = [i \in DOMAIN creatures |->
          [creatures[i] EXCEPT !.cooldown =
             IF ~creatures[i].physical THEN @ ELSE IF @ > 0 THEN @ - 1 ELSE ticks[i]]]
  BY DEF WanderAi
<1>2. creatures \in Seq(CreatureEntities) /\ NoBodies /\ StartsWhole /\ step = "running"
  BY DEF StartInv, ServerStartTypeOK, CreatureEntities, WanderAi
<1>3. \A i \in DOMAIN creatures : creatures[i] \in CreatureEntities
  BY <1>2
<1>4. creatures' = creatures
  <2>1. \A i \in DOMAIN creatures :
          [creatures[i] EXCEPT !.cooldown =
             IF ~creatures[i].physical THEN @ ELSE IF @ > 0 THEN @ - 1 ELSE ticks[i]]
          = creatures[i]
    BY <1>2, <1>3 DEF NoBodies, CreatureEntities
  <2>2. creatures = [i \in DOMAIN creatures |-> creatures[i]]
    BY <1>2
  <2> QED
    BY <1>1, <2>1, <2>2
<1> QED
  BY <1>2, <1>4 DEF StartInv, WanderAi, given, ServerStartTypeOK, StartsWhole, NoBodies

\* The start keeps what it promises, system by system.
LEMMA StartStep == StartInv /\ [ServerStartNext]_serverStart => StartInv'
<1> SUFFICES ASSUME StartInv, [ServerStartNext]_serverStart PROVE StartInv'
  OBVIOUS
<1> USE DEF given
<1>0. ServerStartTypeOK /\ asset \in Worlds /\ spawning \in Seq(CreatureConfigs)
  BY DEF StartInv
<1>n. None \notin {"self-signed", "production"}
  BY ServerStartAssumption
<1>1. CASE BuildGameLogic
  BY <1>0, <1>1 DEF BuildGameLogic, StartInv, ServerStartTypeOK, StartsWhole, NoBodies
<1>2. CASE BuildAdminApi \/ SpawnPersistence
  BY <1>0, <1>2 DEF BuildAdminApi, SpawnPersistence, StartInv, ServerStartTypeOK,
                    StartsWhole, NoBodies
<1>3. CASE LoadTlsIdentity
  <2>1. ServerStartTypeOK' /\ step' \in {"startup", "failed"} /\ startup' = StartSystems
    BY <1>0, <1>3 DEF LoadTlsIdentity, ServerStartTypeOK, StartSystems
  <2>2. step' = "startup" => identity' # None
    BY <1>3, <1>n DEF LoadTlsIdentity
  <2> QED
    BY <1>0, <1>3, <2>1, <2>2 DEF LoadTlsIdentity, StartInv, StartedSoFar, StartSystems,
                                  StartsWhole, NoBodies
<1>4. CASE SetupWorld
  <2>1. step = "startup" /\ creatures = <<>> /\ StartedSoFar
    BY <1>4 DEF SetupWorld, Runs, StartInv
  <2>2. creatures' = <<>>
    <3>1. DOMAIN creatures = {}
      BY <2>1
    <3>2. creatures' = [i \in {} |-> [creatures[i] EXCEPT !.physical = TRUE]]
      BY <1>4, <3>1 DEF SetupWorld
    <3> QED
      BY <3>2
  <2>3. spawning' = CreaturesOf(world) /\ spawning' \in Seq(CreatureConfigs)
    BY <1>0, <1>4, WorldsHaveLists DEF SetupWorld, CreaturesOf, ServerStartTypeOK
  <2>4. ServerStartTypeOK' /\ NoBodies'
    BY <1>0, <1>4, <2>2 DEF SetupWorld, ServerStartTypeOK, NoBodies
  <2>5. StartedSoFar'
    BY <1>4, <2>1, <2>3 DEF SetupWorld, Runs, StartedSoFar
  <2> QED
    BY <1>4, <2>1, <2>2, <2>3, <2>4, <2>5 DEF SetupWorld, StartInv, StartsWhole
<1>5. CASE SpawnResourceNodes
  <2>1. step = "startup" /\ creatures = <<>> /\ StartedSoFar
    BY <1>5 DEF SpawnResourceNodes, Runs, StartInv
  <2>2. CASE world = None
    BY <1>0, <1>5, <2>1, <2>2 DEF SpawnResourceNodes, StartInv, ServerStartTypeOK,
                                  StartsWhole, NoBodies
  <2>3. CASE world # None
    <3>1. nodes' = NodesOf(world) /\ step' = step /\ creatures' = creatures
      BY <1>5, <2>3 DEF SpawnResourceNodes, NodesOf
    <3>2. nodes' \in Seq(Nat)
      BY <1>0, <2>3, <3>1, WorldsHaveLists DEF ServerStartTypeOK
    <3>3. ServerStartTypeOK'
      BY <1>0, <1>5, <3>1, <3>2 DEF SpawnResourceNodes, ServerStartTypeOK
    <3>4. StartedSoFar'
      BY <1>5, <2>1, <2>3, <3>1 DEF SpawnResourceNodes, Runs, StartedSoFar
    <3> QED
      BY <1>5, <2>1, <3>1, <3>3, <3>4 DEF SpawnResourceNodes, StartInv, StartsWhole, NoBodies
  <2> QED
    BY <2>2, <2>3
<1>6. CASE SetupServer
  <2>1. step = "startup" /\ StartedSoFar
    BY <1>6 DEF SetupServer, Runs, StartInv
  <2>2. StartedSoFar' /\ ServerStartTypeOK'
    BY <1>0, <1>6, <2>1 DEF SetupServer, Runs, StartedSoFar, ServerStartTypeOK
  <2> QED
    BY <1>6, <2>1, <2>2 DEF SetupServer, StartInv, StartsWhole, NoBodies
<1>7. CASE UNCHANGED serverStart
  BY <1>7 DEF serverStart, StartInv, ServerStartTypeOK, StartsWhole, NoBodies, StartedSoFar
<1> QED
  BY <1>1, <1>2, <1>3, <1>4, <1>5, <1>6, <1>7, SpawnStartsWhole, WanderKeepsWhole
  DEF ServerStartNext

\* Before anything has started nothing is there.
LEMMA StartBegins == ServerStartInit => StartInv
<1> SUFFICES ASSUME ServerStartInit PROVE StartInv
  OBVIOUS
<1>1. creatures = <<>> /\ spawning = <<>> /\ nodes = <<>>
  BY DEF ServerStartInit
<1>2. creatures \in Seq(CreatureEntities) /\ spawning \in Seq(CreatureConfigs) /\ nodes \in Seq(Nat)
  BY <1>1
<1>3. ServerStartTypeOK
  BY <1>2 DEF ServerStartInit, ServerStartTypeOK, CreatureEntities
<1> QED
  BY <1>1, <1>2, <1>3 DEF ServerStartInit, StartInv, StartsWhole, NoBodies

\* For every embedded world, every operator's configuration and every order of the systems of
\* PostStartup: a server that runs has the whole of a valid world, listens and has an identity.
THEOREM ServerStartsWhole == ServerStartSpec => [](ServerStartTypeOK /\ StartsWhole)
<1>1. StartInv => ServerStartTypeOK /\ StartsWhole
  BY DEF StartInv
<1> QED
  BY <1>1, StartBegins, StartStep, PTL DEF ServerStartSpec

\* In whatever order the systems of PostStartup run, no creature ever gets a rigid body, and no
\* cooldown ever counts down: setup_world looks for creatures whose spawn is still a command.
THEOREM CreaturesStayFrozen ==
  ServerStartSpec => [](\A i \in DOMAIN creatures : ~ creatures[i].physical)
<1>1. StartInv => \A i \in DOMAIN creatures : ~ creatures[i].physical
  BY DEF StartInv, NoBodies
<1> QED
  BY <1>1, StartBegins, StartStep, PTL DEF ServerStartSpec

-----------------------------------------------------------------------------
(* The server: its parts together. *)

\* A behaviour of the server is one of each of its parts: what is proved of a part holds there.
LEMMA ServerIsItsParts ==
  ServerSpec =>
    /\ SessionSpec /\ HousingSpec /\ GameSpec /\ VisibilitySpec /\ MovementSpec
    /\ ServerStartSpec /\ RecordsSpec /\ TasksSpec
    /\ [](part \in Parts)
<1>1. ServerInit => /\ SessionInit /\ HousingInit /\ GameInit /\ VisibilityInit /\ MovementInit
                    /\ ServerStartInit /\ RecordsInit /\ TasksInit /\ part \in Parts
  BY DEF ServerInit
<1>2. [ServerNext]_<<part, session, housing, gameState, visibility, movementVars, serverStart,
                     records, tasks>> =>
        /\ [SessionNext]_session /\ [HousingNext]_housing /\ [GameNext]_gameState
        /\ [VisibilityNext]_visibility /\ [MovementNext]_movementVars
        /\ [ServerStartNext]_serverStart /\ [RecordsNext]_records /\ [TasksNext]_tasks
        /\ UNCHANGED part
  BY DEF ServerNext
<1>3. part \in Parts /\ UNCHANGED part => (part \in Parts)'
  OBVIOUS
<1> QED
  BY <1>1, <1>2, <1>3, PTL DEF ServerSpec, SessionSpec, HousingSpec, GameSpec, VisibilitySpec,
    MovementSpec, ServerStartSpec, RecordsSpec, TasksSpec

\* What the run of the server checks on a small instance, for every value of the constants.
THEOREM ServerIsSafe ==
  ServerSpec =>
    /\ [](ServerSafety /\ Capacity /\ MappedOwnsBody /\ AnswerFitsSession /\ PlotsAsShown
            /\ ChecksumOrderFree /\ NothingLost /\ SilentStandsStill /\ KeptOnDisk)
    /\ UpdateShowsWhatIsInSight /\ OneJumpPerPress
<1>1. SessionTypeOK /\ HousingTypeOK /\ GameTypeOK /\ VisibilityTypeOK /\ MovementTypeOK
        /\ ServerStartTypeOK /\ StartsWhole /\ RecordsTypeOK /\ TasksTypeOK /\ part \in Parts
        => ServerSafety
  BY PartsAssumption DEF ServerSafety
<1>2. SessionInv => SessionTypeOK
  BY DEF SessionInv
<1> QED
  BY <1>1, <1>2, ServerIsItsParts, SessionIsInv, AnswersFitSessions, NeverOverfull, MapIsTrue,
    PlotsShown, CollectedIsNotLost,
    ChecksumSeesNoOrder, UpdatesShowSight, StandsStill, OneJump,
    ServerStartsWhole, AnswersStand, CertificateIsKept, DiskKeeps, PTL

=============================================================================
