------------------------------ MODULE AdminApi ------------------------------
(***************************************************************************)
(* The admin API of the server and one dashboard that watches it.  Every   *)
(* tick a system compares the players with those of the tick before and    *)
(* broadcasts the difference, now and then the whole list; the REST        *)
(* endpoint answers from a snapshot.  The dashboard replaces its list by    *)
(* whichever arrives, holds a session token that a restart or the time to   *)
(* live ends at the server, and learns of that only from a REST answer.     *)
(***************************************************************************)
EXTENDS Naturals, Sequences, FiniteSets, SequencesExt

CONSTANTS
  Online,         \* players that may be online
  Session,        \* session tokens, each minted once
  BroadcastEvery, \* TICK_BROADCAST_INTERVAL
  ChannelSize,    \* capacity of the broadcast channel
  Requests,       \* bound: REST requests in flight
  Mishaps,        \* bound: restarts, broken sockets, failed requests, reloads
  NoSession

ASSUME AdminApiAssumption ==
  /\ IsFiniteSet(Online)
  /\ BroadcastEvery \in Nat \ {0} /\ ChannelSize \in Nat \ {0}
  /\ Requests \in Nat \ {0} /\ Mishaps \in Nat
  /\ NoSession \notin Session

VARIABLES
  online,    \* players with an entity: what the other systems give this one
  known,     \* known_ids of the previous tick
  phase,     \* its tick, modulo BroadcastEvery
  snapshot,  \* players of the REST snapshot
  sessions,  \* SessionStore: tokens neither expired nor revoked
  minted,    \* tokens that were ever issued
  token,     \* the dashboard's token, NoSession: the login form
  shown,     \* players the dashboard lists
  socket,    \* its live connection
  feed,      \* events in the server's receiver for that connection
  wire,      \* events sent over it
  answers,   \* REST answers on their way to the dashboard
  mishaps    \* restarts and network failures so far

server == <<online, known, phase, snapshot, sessions, minted>>
stream == <<socket, feed, wire>>
admin == <<server, token, shown, stream, answers, mishaps>>

Event == [type : {"joined", "left"}, player : Online]
           \cup [type : {"snapshot", "tick"}, players : SUBSET Online]
NoAnswer == [session |-> NoSession, ok |-> FALSE, players |-> {}]

AdminTypeOK ==
  /\ online \subseteq Online /\ known \subseteq Online /\ snapshot \subseteq Online
  /\ phase \in 0..(BroadcastEvery - 1)
  /\ minted \subseteq Session /\ sessions \subseteq minted
  /\ token \in minted \cup {NoSession} /\ shown \subseteq Online
  /\ socket \in {"none", "closed", "opening", "greeted", "live"}
  /\ feed \in Seq(Event) /\ Len(feed) <= ChannelSize
  /\ wire \in Seq(Event) /\ Len(wire) <= 1
  /\ answers \in [1..Requests -> [session : minted \cup {NoSession}, ok : BOOLEAN,
                                  players : SUBSET Online]]
  /\ mishaps \in 0..Mishaps

NoRequests == [i \in 1..Requests |-> NoAnswer]

AdminInit ==
  /\ online = {} /\ known = {} /\ phase = 0 /\ snapshot = {}
  /\ sessions = {} /\ minted = {} /\ token = NoSession /\ shown = {}
  /\ socket = "none" /\ feed = <<>> /\ wire = <<>>
  /\ answers = NoRequests /\ mishaps = 0

-----------------------------------------------------------------------------
(* The server *)

\* A player's entity appears or goes.
ComeOrGo(p) ==
  /\ online' = IF p \in online THEN online \ {p} ELSE online \cup {p}
  /\ UNCHANGED <<known, phase, snapshot, sessions, minted, token, shown, stream,
                 answers, mishaps>>

\* The events about single players, in the order the loops send them: the
\* players that joined, then those that left.
EventsOf(type, players) ==
  [i \in 1..Cardinality(players) |-> [type |-> type, player |-> SetToSeq(players)[i]]]

Differences == EventsOf("joined", online \ known) \o EventsOf("left", known \ online)

\* A broadcast channel that is full overwrites its oldest events: the receiver
\* is told that it lagged, and continues with those that are left.
Broadcast(events) ==
  LET all == feed \o events
  IN IF Len(all) <= ChannelSize THEN all
     ELSE SubSeq(all, Len(all) - ChannelSize + 1, Len(all))

\* Mutant: players that left stay in it.
SnapshotGrows == snapshot \cup online
SnapshotAfterTick == online

SyncAdminSnapshot ==
  LET tick == phase = BroadcastEvery - 1
      events == Differences \o (IF tick THEN <<[type |-> "tick", players |-> online]>>
                                ELSE <<>>)
  IN /\ phase' = (phase + 1) % BroadcastEvery
     /\ known' = online
     /\ snapshot' = SnapshotAfterTick
     /\ feed' = IF socket = "live" THEN Broadcast(events) ELSE feed
     /\ UNCHANGED <<online, sessions, minted, token, shown, socket, wire, answers,
                    mishaps>>

\* The session store: what login adds, what a request asks, what logout removes.
Issue(t) == minted' = minted \cup {t} /\ sessions' = sessions \cup {t}
IsValid(t) == t \in sessions
Revoke(t) == sessions' = sessions \ {t} /\ UNCHANGED minted

\* The time to live of a session ends.
Expire(t) ==
  /\ IsValid(t) /\ Revoke(t)
  /\ UNCHANGED <<online, known, phase, snapshot, token, shown, stream, answers, mishaps>>

Mishap == mishaps < Mishaps /\ mishaps' = mishaps + 1

\* A restart, a deployment for instance, loses the sessions and every socket.
Restart ==
  /\ Mishap
  /\ online' = {} /\ known' = {} /\ phase' = 0 /\ snapshot' = {} /\ sessions' = {}
  /\ socket' = IF socket = "none" THEN "none" ELSE "closed"
  /\ feed' = <<>> /\ wire' = <<>>
  /\ UNCHANGED <<minted, token, shown, answers>>

-----------------------------------------------------------------------------
(* The live socket: from connect() to its close *)

\* The token is checked when the socket is opened, and never again.
LiveWs ==
  /\ socket = "opening"
  /\ IF IsValid(token)
     THEN socket' = "greeted" /\ wire' = <<[type |-> "snapshot", players |-> snapshot]>>
     ELSE socket' = "closed" /\ wire' = wire
  /\ UNCHANGED <<server, token, shown, feed, answers, mishaps>>

\* It subscribes when the snapshot is sent: what was broadcast since is missed.
Subscribe ==
  /\ socket = "greeted"
  /\ socket' = "live"
  /\ UNCHANGED <<server, token, shown, feed, wire, answers, mishaps>>

Forward ==
  /\ socket = "live" /\ feed # <<>> /\ wire = <<>>
  /\ wire' = <<Head(feed)>> /\ feed' = Tail(feed)
  /\ UNCHANGED <<server, token, shown, socket, answers, mishaps>>

BreakSocket ==
  /\ Mishap
  /\ socket \in {"opening", "greeted", "live"}
  /\ socket' = "closed" /\ feed' = <<>> /\ wire' = <<>>
  /\ UNCHANGED <<server, token, shown, answers>>

\* onclose sets a timer that opens the socket again.
Reopen ==
  /\ socket = "closed"
  /\ socket' = "opening"
  /\ UNCHANGED <<server, token, shown, feed, wire, answers, mishaps>>

ShownAfter(e) ==
  CASE e.type \in {"snapshot", "tick"} -> e.players
    [] e.type = "joined" -> shown \cup {e.player}
    [] e.type = "left" -> shown \ {e.player}

OnMessage ==
  /\ wire # <<>>
  /\ shown' = ShownAfter(Head(wire))
  /\ wire' = Tail(wire)
  /\ UNCHANGED <<server, token, socket, feed, answers, mishaps>>

-----------------------------------------------------------------------------
(* The dashboard: login, the session check, logout *)

\* The dashboard is mounted: it connects, and its first check starts.
Mount(t) == token' = t /\ shown' = {} /\ socket' = "opening" /\ feed' = <<>> /\ wire' = <<>>

\* It is not any more.
Unmount ==
  token' = NoSession /\ shown' = {} /\ socket' = "none" /\ feed' = <<>> /\ wire' = <<>>

\* The right password: the server mints a token.
Login(t) ==
  /\ token = NoSession
  /\ t \in Session \ minted
  /\ Issue(t) /\ Mount(t)
  /\ UNCHANGED <<online, known, phase, snapshot, answers, mishaps>>

\* A reload of the page takes the token from the session storage; answers to the
\* old page are lost.
Reload ==
  /\ Mishap
  /\ token # NoSession
  /\ Mount(token) /\ answers' = NoRequests
  /\ UNCHANGED server

\* A request, at the first render and every SESSION_CHECK_INTERVAL_MS, and the
\* server's answer to it.
CheckSession(i) ==
  /\ token # NoSession /\ answers[i] = NoAnswer
  /\ LET valid == IsValid(token)
     IN answers' = [answers EXCEPT ![i] =
          [session |-> token, ok |-> valid, players |-> IF valid THEN snapshot ELSE {}]]
  /\ UNCHANGED <<server, token, shown, stream, mishaps>>

\* Mutant: a refusal is taken for a network error.
GetAnswerMildly(i) ==
  /\ answers[i] # NoAnswer
  /\ answers' = [answers EXCEPT ![i] = NoAnswer]
  /\ shown' = IF answers[i].ok /\ answers[i].session = token THEN answers[i].players
              ELSE shown
  /\ UNCHANGED <<token, stream, server, mishaps>>
\* An answer counts only while its dashboard is mounted, a refusal at any time.
GetAnswer(i) ==
  /\ answers[i] # NoAnswer
  /\ answers' = [answers EXCEPT ![i] = NoAnswer]
  /\ IF ~ answers[i].ok THEN Unmount
     ELSE /\ shown' = IF answers[i].session = token THEN answers[i].players ELSE shown
          /\ UNCHANGED <<token, stream>>
  /\ UNCHANGED <<server, mishaps>>

\* A network error is no refusal.
RequestFails(i) ==
  /\ Mishap
  /\ answers[i] # NoAnswer
  /\ answers' = [answers EXCEPT ![i] = NoAnswer]
  /\ UNCHANGED <<server, token, shown, stream>>

\* The token is revoked if the server can be reached, forgotten in any case.
Logout ==
  /\ token # NoSession
  /\ \/ Revoke(token) /\ UNCHANGED mishaps
     \/ Mishap /\ UNCHANGED <<sessions, minted>>
  /\ Unmount /\ answers' = NoRequests
  /\ UNCHANGED <<online, known, phase, snapshot>>

ServerStep == SyncAdminSnapshot \/ Restart \/ \E t \in Session : Expire(t)
SocketStep == LiveWs \/ Subscribe \/ Forward \/ BreakSocket \/ Reopen \/ OnMessage
AdminNext ==
  \/ \E p \in Online : ComeOrGo(p)
  \/ ServerStep \/ SocketStep
  \/ \E t \in Session : Login(t)
  \/ Reload \/ Logout
  \/ \E i \in 1..Requests : CheckSession(i) \/ GetAnswer(i) \/ RequestFails(i)

\* Ticks go on, the browser's timers fire, what was sent arrives.
AdminFairness ==
  /\ WF_admin(SyncAdminSnapshot)
  /\ WF_admin(LiveWs) /\ WF_admin(Subscribe) /\ WF_admin(Forward)
  /\ WF_admin(Reopen) /\ WF_admin(OnMessage)
  /\ \A i \in 1..Requests : WF_admin(CheckSession(i)) /\ WF_admin(GetAnswer(i))

AdminSpec == AdminInit /\ [][AdminNext]_admin /\ AdminFairness

-----------------------------------------------------------------------------
\* Whoever is not logged in is shown no player and has no socket.
LoginFormIsEmpty ==
  /\ token = NoSession <=> socket = "none"
  /\ token = NoSession => shown = {}

\* What arrives was sent over the socket that is open: nothing of an earlier connection,
\* of an earlier page or of an earlier login.
NothingStale ==
  /\ feed # <<>> => socket = "live"
  /\ wire # <<>> => socket \in {"greeted", "live"}

\* Whatever the channel overwrote, the last event about a player that is still in it says
\* of him what the last tick saw.
Tells(e, p) == e.type \in {"joined", "left"} => e.player = p
FeedIsTrue ==
  \A p \in Online, i \in DOMAIN feed :
    Tells(feed[i], p) /\ (\A j \in DOMAIN feed : j > i => ~Tells(feed[j], p))
      => (p \in ShownAfter(feed[i]) <=> p \in known)

DashboardIsHonest == LoginFormIsEmpty /\ NothingStale /\ FeedIsTrue

\* A dashboard whose session has ended at the server, by a restart or by its
\* time to live, always ends at the login form instead of connecting for ever.
DeadSessionBounces ==
  \A t \in Session : (token = t /\ t \notin sessions) ~> token # t

\* Whatever is missed - events before the subscription, events lost to a full channel,
\* answers older than the events they arrive with - a player that is online for good
\* ends up on every dashboard that stays, and one that is gone does not.
DashboardCatchesUp ==
  \A p \in Online :
    /\ <>[](p \in online /\ token # NoSession) => <>[](p \in shown)
    /\ <>[](p \notin online /\ token # NoSession) => <>[](p \notin shown)
=============================================================================
