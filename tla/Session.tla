------------------------------- MODULE Session -------------------------------
(***************************************************************************)
(* From connection to player entity and back: the links of the clients,    *)
(* the handshake that turns a pending session into a player, the roster    *)
(* and the map from players to links that the social systems keep, and     *)
(* the clean-up when a connection ends.                                     *)
(*                                                                          *)
(* The systems run one after the other in an order the schedule leaves     *)
(* open; their resources change at once, their commands (spawn, insert,    *)
(* despawn) only at a synchronisation point after the system.  Connections *)
(* come and go, and messages arrive and leave, between two runs.            *)
(***************************************************************************)
EXTENDS Naturals, Sequences, FiniteSets

CONSTANTS
  Link,         \* entities of connections, each used once
  Body,         \* entities of players, each used once
  Player,       \* identities
  Token,        \* identity tokens
  IdentityOf,   \* the identity a token resolves to
  MaxPlayers,   \* max_players of the server's configuration
  MaxFaults,    \* bound: identity look-ups that fail
  NoPlayer, NoLink, NoBody, NoToken

ASSUME SessionAssumption ==
  /\ IdentityOf \in [Token -> Player]
  /\ MaxPlayers \in Nat /\ MaxFaults \in Nat
  /\ NoPlayer \notin Player /\ NoLink \notin Link
  /\ NoBody \notin Body /\ NoToken \notin Token
  /\ IsFiniteSet(Link) /\ IsFiniteSet(Body)

Old == "old protocol"                \* a hello with another PROTOCOL_ID
Systems == {"hello", "cleanup", "emote", "send"}   \* "send" is always the last
Answers == {"welcome", "protocol mismatch", "server full", "invalid identity"}

VARIABLES
  link,      \* per link: its entity and the components the handshake uses
  body,      \* per player entity: whether it lives, whose it is, its owner
  issued,    \* tokens that exist: given to a client, now or in an earlier run
  roster,    \* ConnectedRoster
  clientOf,  \* PlayerClientMap
  removed,   \* links whose lost Connected component no system has read yet
  todo,      \* systems of this run of FixedUpdate still to come
  left,      \* links handle_identity_hello still visits
  pendingAtStart,  \* its count of pending sessions
  cmds,      \* its deferred commands
  applying,  \* a synchronisation point is applying them
  outbox,    \* answers in a link's message senders, not yet transmitted
  received,  \* answers the client has received
  cheered,   \* links with an emote in their senders
  faults     \* identity look-ups that have failed

entities == <<link, body>>
social == <<roster, clientOf, removed>>
run == <<todo, left, pendingAtStart, cmds, applying>>
messages == <<outbox, received, cheered>>
session == <<link, body, issued, roster, clientOf, removed, todo, left, pendingAtStart,
             cmds, applying, outbox, received, cheered, faults>>

LinkStates ==
  [entity  : {"unused", "connected", "disconnected", "despawned"},
   pending : BOOLEAN,
   player  : Player \cup {NoPlayer},
   body    : Body \cup {NoBody}]

BodyStates ==
  [state : {"unused", "spawning", "live", "despawned"},
   id    : Player \cup {NoPlayer},
   owner : Link \cup {NoLink}]

Commands ==
  [op : {"despawn"}, bodies : SUBSET Body, links : SUBSET Link]
    \cup [op : {"join"}, link : Link, body : Body]

Present(l) == link[l].entity \in {"connected", "disconnected"}
\* Mutant: a query of every client.
PendingOfAll == {l \in Link : Present(l)}
Pending == {l \in Link : Present(l) /\ link[l].pending}
Players == {b \in Body : body[b].state = "live"}
Quiet == todo = {} /\ left = {} /\ cmds = <<>>   \* between two runs

SessionInit ==
  /\ link = [l \in Link |-> [entity |-> "unused", pending |-> FALSE,
                             player |-> NoPlayer, body |-> NoBody]]
  /\ body = [b \in Body |-> [state |-> "unused", id |-> NoPlayer, owner |-> NoLink]]
  /\ issued \in SUBSET Token
  /\ roster = {} /\ clientOf = [p \in Player |-> NoLink] /\ removed = {}
  /\ todo = {} /\ left = {} /\ pendingAtStart = 0 /\ cmds = <<>> /\ applying = FALSE
  /\ outbox = [l \in Link |-> <<>>] /\ received = [l \in Link |-> <<>>]
  /\ cheered = {} /\ faults = 0

\* Entities are allocated in some order.
IsNextLink(l) == l = CHOOSE k \in Link : link[k].entity = "unused"
IsNextBody(b) == b = CHOOSE c \in Body : body[c].state = "unused"

-----------------------------------------------------------------------------
(* Between two runs: the network *)

\* A client connects: the observer marks the link as a pending session, whatever
\* the number of players.
OnClientConnected(l) ==
  /\ Quiet
  /\ link[l].entity = "unused" /\ IsNextLink(l)
  /\ link' = [link EXCEPT ![l].entity = "connected", ![l].pending = TRUE]
  /\ UNCHANGED <<body, issued, social, run, messages, faults>>

\* The connection ends: Connected goes, and with it the session's entities.
Disconnect(l) ==
  /\ Quiet
  /\ link[l].entity = "connected"
  /\ link' = [link EXCEPT ![l].entity = "disconnected"]
  /\ body' = [b \in Body |-> IF body[b].owner = l /\ body[b].state = "live"
                             THEN [body[b] EXCEPT !.state = "despawned"] ELSE body[b]]
  /\ removed' = removed \cup {l}
  /\ UNCHANGED <<issued, roster, clientOf, run, messages, faults>>

\* The network layer despawns the entity of a connection that ended.
DespawnDisconnected(l) ==
  /\ Quiet
  /\ link[l].entity = "disconnected"
  /\ link' = [link EXCEPT ![l].entity = "despawned"]
  /\ UNCHANGED <<body, issued, social, run, messages, faults>>

\* The record of a removed component lasts two frames: it is lost when no
\* FixedUpdate ran in them.
RemovalExpires(l) ==
  /\ Quiet
  /\ l \in removed
  /\ removed' = removed \ {l}
  /\ UNCHANGED <<entities, issued, roster, clientOf, run, messages, faults>>

-----------------------------------------------------------------------------
(* A run of FixedUpdate *)

FixedUpdate ==
  /\ Quiet
  /\ todo' = Systems
  /\ UNCHANGED <<entities, issued, social, left, pendingAtStart, cmds, applying,
                 messages, faults>>

Turn(system) == system \in todo /\ left = {} /\ ~applying

\* handle_identity_hello starts: it counts the pending sessions once, and visits
\* those whose hello has arrived.
HelloStarts ==
  /\ Turn("hello")
  /\ todo' = todo \ {"hello"}
  /\ left' \in SUBSET Pending
  /\ pendingAtStart' = Cardinality(Pending)
  /\ UNCHANGED <<entities, issued, social, cmds, applying, messages, faults>>

\* The sessions the capacity check sees: the players of the start of the run and
\* every other pending session.
\* Mutant: the other pending sessions are forgotten.
TotalOfPlayers == Cardinality(Players)
TotalSessions == Cardinality(Players) + (pendingAtStart - 1)
Full == TotalSessions >= MaxPlayers

\* The first hello of a link is taken, the others are dropped with it: one of
\* another protocol, with a token that was issued, or without one.
Hellos == Token \cup {NoToken, Old}
Taking(l, h) ==
  /\ l \in left
  /\ h \in issued \cup {NoToken, Old}
  /\ left' = left \ {l}

\* The answer waits in the link's sender when the command to despawn it is queued.
Reject(l, reason) ==
  /\ outbox' = [outbox EXCEPT ![l] = Append(@, reason)]
  /\ cmds' = Append(cmds, [op |-> "despawn", bodies |-> {}, links |-> {l}])
  /\ UNCHANGED <<entities, issued, social, todo, pendingAtStart, applying, received,
                 cheered>>

RejectProtocol(l, h) ==
  /\ Taking(l, h) /\ h = Old
  /\ Reject(l, "protocol mismatch")
  /\ UNCHANGED faults

RejectFull(l, h) ==
  /\ Taking(l, h) /\ h # Old /\ Full
  /\ Reject(l, "server full")
  /\ UNCHANGED faults

\* The identity cannot be resolved: the database, or the channel to it, fails.
RejectIdentity(l, h) ==
  /\ Taking(l, h) /\ h # Old /\ ~Full
  /\ faults < MaxFaults /\ faults' = faults + 1
  /\ Reject(l, "invalid identity")

\* The token of the hello, or a generated one when it is empty.
TokensFor(h) == IF h = NoToken THEN Token \ issued ELSE {h}

\* The other player entities of an identity the query still sees, and its link.
\* Mutant: the player entities of every identity.
StaleOfAll(p) == Players
StaleBodies(p) == {b \in Players : body[b].id = p}
StaleLinks(p, l) == {clientOf[p]} \ {NoLink, l}

\* The player entity, its components and the link's are commands; the roster and
\* the map change now.
Welcome(l, h) ==
  /\ Taking(l, h) /\ h # Old /\ ~Full
  /\ \E t \in TokensFor(h), b \in Body :
       LET p == IdentityOf[t] IN
       /\ body[b].state = "unused" /\ IsNextBody(b)
       /\ issued' = issued \cup {t}
       /\ body' = [body EXCEPT ![b] = [state |-> "spawning", id |-> p, owner |-> l]]
       /\ cmds' = cmds \o
            << [op |-> "despawn", bodies |-> StaleBodies(p), links |-> StaleLinks(p, l)],
               [op |-> "join", link |-> l, body |-> b] >>
       /\ roster' = roster \cup {p}
       /\ clientOf' = [clientOf EXCEPT ![p] = l]
  /\ outbox' = [outbox EXCEPT ![l] = Append(@, "welcome")]
  /\ UNCHANGED <<link, removed, todo, pendingAtStart, applying, received, cheered,
                 faults>>

\* Despawning what is gone already is no error.  A despawned link loses Connected
\* like any other component; whether the network layer then takes the entities of
\* the session along is not this code's to say.
Despawn(c) ==
  /\ \E gone \in { c.bodies,
                   c.bodies \cup {b \in Players : body[b].owner \in c.links} } :
       body' = [b \in Body |-> IF b \in gone /\ body[b].state = "live"
                               THEN [body[b] EXCEPT !.state = "despawned"] ELSE body[b]]
  /\ link' = [l \in Link |-> IF l \in c.links /\ Present(l)
                             THEN [link[l] EXCEPT !.entity = "despawned"] ELSE link[l]]
  /\ removed' = removed \cup {l \in c.links : link[l].entity = "connected"}

\* ClientPlayer and SocialClientPlayer are inserted, PendingSession is removed,
\* the player entity appears with its owner.
JoinWorld(c) ==
  /\ Present(c.link)
  /\ link' = [link EXCEPT ![c.link].pending = FALSE,
                          ![c.link].player = body[c.body].id,
                          ![c.link].body = c.body]
  /\ body' = [body EXCEPT ![c.body].state = "live"]
  /\ UNCHANGED removed

\* A synchronisation point applies the commands in order and without a pause.
Apply ==
  /\ left = {} /\ cmds # <<>>
  /\ \/ Head(cmds).op = "despawn" /\ Despawn(Head(cmds))
     \/ Head(cmds).op = "join" /\ JoinWorld(Head(cmds))
  /\ cmds' = Tail(cmds)
  /\ applying' = (Tail(cmds) # <<>>)
  /\ UNCHANGED <<issued, roster, clientOf, todo, left, pendingAtStart, messages, faults>>

\* cleanup_disconnected_player: a link that has been despawned has no
\* SocialClientPlayer left to say whose entries go.
Cleanup ==
  /\ Turn("cleanup")
  /\ todo' = todo \ {"cleanup"}
  /\ LET gone == {link[l].player : l \in {k \in removed : Present(k)}} \ {NoPlayer} IN
       /\ roster' = roster \ gone
       /\ clientOf' = [p \in Player |-> IF p \in gone THEN NoLink ELSE clientOf[p]]
  /\ removed' = {}
  /\ UNCHANGED <<entities, issued, left, pendingAtStart, cmds, applying, messages,
                 faults>>

\* handle_emote_intent: if some have arrived, the emote of a listed player goes to the
\* link of every listed player.
HandleEmotes ==
  /\ Turn("emote")
  /\ todo' = todo \ {"emote"}
  /\ \/ UNCHANGED cheered
     \/ /\ \E l \in Link : Present(l) /\ link[l].player \in roster
        /\ cheered' = {l \in {clientOf[p] : p \in roster} \ {NoLink} : Present(l)}
  /\ UNCHANGED <<entities, issued, social, left, pendingAtStart, cmds, applying, outbox,
                 received, faults>>

\* After the run the messages in the senders of the links that exist go out.
Transmit ==
  /\ todo = {"send"} /\ left = {} /\ cmds = <<>>
  /\ todo' = {}
  /\ received' = [l \in Link |-> IF Present(l) THEN received[l] \o outbox[l]
                                 ELSE received[l]]
  /\ outbox' = [l \in Link |-> IF Present(l) THEN <<>> ELSE outbox[l]]
  /\ cheered' = {}
  /\ UNCHANGED <<entities, issued, social, left, pendingAtStart, cmds, applying,
                 faults>>

-----------------------------------------------------------------------------
HelloStep == HelloStarts \/ \E l \in Link, h \in Hellos :
  RejectProtocol(l, h) \/ RejectFull(l, h) \/ RejectIdentity(l, h) \/ Welcome(l, h)
RunStep == HelloStep \/ Apply \/ Cleanup \/ HandleEmotes \/ Transmit
Network == \E l \in Link :
  \/ OnClientConnected(l) \/ Disconnect(l) \/ DespawnDisconnected(l) \/ RemovalExpires(l)

SessionNext == Network \/ FixedUpdate \/ RunStep

SessionSpec == SessionInit /\ [][SessionNext]_session

-----------------------------------------------------------------------------
SessionTypeOK ==
  /\ link \in [Link -> LinkStates]
  /\ body \in [Body -> BodyStates]
  /\ issued \subseteq Token
  /\ roster \subseteq Player /\ clientOf \in [Player -> Link \cup {NoLink}]
  /\ removed \subseteq Link
  /\ todo \subseteq Systems /\ left \subseteq Link /\ pendingAtStart \in Nat
  /\ cmds \in Seq(Commands) /\ applying \in BOOLEAN
  /\ outbox \in [Link -> Seq(Answers)] /\ received \in [Link -> Seq(Answers)]
  /\ cheered \subseteq Link
  /\ faults \in 0..MaxFaults

\* The players in the world, those being spawned included, are never more than
\* max_players: however many sessions are pending and however many of them say
\* hello in one run, whose spawns the capacity check does not see.
Capacity == Cardinality({b \in Body : body[b].state \in {"spawning", "live"}}) <= MaxPlayers

\* The link the map names for a player plays it: if the connection still stands, its
\* entity is the one alive in the world and the link owns it.  No replacement of a
\* stale session leaves the new one without its entity.
MappedOwnsBody ==
  (Quiet /\ ~applying) => \A p \in Player : clientOf[p] # NoLink =>
    LET l == clientOf[p] IN
    link[l].entity = "connected" =>
      /\ link[l].player = p
      /\ body[link[l].body] = [state |-> "live", id |-> p, owner |-> l]

\* No link is answered twice, however many hellos it sends, and between two runs a link
\* that stands is in one of two conditions: pending and without an answer, or a player's
\* whose one welcome has been delivered.  Emotes go to links that were welcomed only.
\* What a refused client gets is not said here, but by RefusedAreTold.
AnswerFitsSession ==
  \A l \in Link : LET answers == received[l] \o outbox[l] IN
    /\ Len(answers) <= 1
    /\ l \in cheered => answers = <<"welcome">>
    /\ Quiet /\ ~applying /\ link[l].entity = "connected" =>
         IF link[l].pending THEN answers = <<>> ELSE received[l] = <<"welcome">>

-----------------------------------------------------------------------------
(* What the documentation says and the code does not do *)

\* handle_identity_hello sends a refused client the reason: when the run is over, no
\* refusal is left unsent in the sender of a link that stood when it was refused (and
\* whose lost connection is therefore still to be read).
RefusedAreTold ==
  Quiet /\ ~applying => \A l \in removed : outbox[l] \in {<<>>, <<"welcome">>}
=============================================================================
