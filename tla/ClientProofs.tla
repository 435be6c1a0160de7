---------------------------- MODULE ClientProofs ----------------------------
(***************************************************************************)
(* Proofs about the client and the dashboard: what the dashboard is told   *)
(* is true, a connection falls back only when it has waited, the menu      *)
(* opens with everything loaded, nothing stays pressed, the clip of a fox  *)
(* fits it, and the outline is on the focus; and all of it holds of the    *)
(* client that MCClient puts together.                                     *)
(***************************************************************************)
EXTENDS MCClient, FiniteSetTheorems, SequenceTheorems, TLAPS

-----------------------------------------------------------------------------
(* Sequences. *)

\* The elements of a sequence are values, and those of two sequences in a row are theirs.
LEMMA ElementsOfTwo ==
  ASSUME NEW S, NEW s \in Seq(S), NEW t \in Seq(S)
  PROVE  /\ s \o t \in Seq(S)
         /\ Elements(s \o t) = Elements(s) \cup Elements(t)
<1>1. s \o t \in Seq(S) /\ Len(s \o t) = Len(s) + Len(t)
  OBVIOUS
<1>2. ASSUME NEW i \in DOMAIN (s \o t)
      PROVE  (s \o t)[i] \in Elements(s) \cup Elements(t)
  <2>1. CASE i <= Len(s)
    BY <1>2, <2>1 DEF Elements
  <2>2. CASE i > Len(s)
    <3>1. (s \o t)[i] = t[i - Len(s)] /\ i - Len(s) \in DOMAIN t
      BY <1>1, <1>2, <2>2
    <3> QED
      BY <3>1 DEF Elements
  <2> QED
    BY <1>1, <1>2, <2>1, <2>2
<1>3. ASSUME NEW i \in DOMAIN s
      PROVE  s[i] \in Elements(s \o t)
  <2>1. i \in DOMAIN (s \o t) /\ (s \o t)[i] = s[i]
    BY <1>1, <1>3
  <2> QED
    BY <2>1 DEF Elements
<1>4. ASSUME NEW i \in DOMAIN t
      PROVE  t[i] \in Elements(s \o t)
  <2>1. Len(s) + i \in DOMAIN (s \o t) /\ (s \o t)[Len(s) + i] = t[i]
    BY <1>1, <1>4
  <2> QED
    BY <2>1 DEF Elements
<1> QED
  BY <1>1, <1>2, <1>3, <1>4 DEF Elements

\* What is taken from a queue is its first and the others.
LEMMA HeadAndTail ==
  ASSUME NEW S, NEW s \in Seq(S), s # <<>>
  PROVE  /\ Head(s) \in S /\ Tail(s) \in Seq(S) /\ <<Head(s)>> \in Seq(S)
         /\ <<Head(s)>> \o Tail(s) = s /\ s[1] = Head(s) /\ 1 \in DOMAIN s
<1>1. Head(s) \in S /\ Tail(s) \in Seq(S) /\ <<Head(s)>> \in Seq(S) /\ Len(s) >= 1
  OBVIOUS
<1>2. Len(Tail(s)) = Len(s) - 1 /\ \A i \in 1..(Len(s) - 1) : Tail(s)[i] = s[i + 1]
  OBVIOUS
<1>3. PICK r \in Seq(S) : r = <<Head(s)>> \o Tail(s)
  BY <1>1
<1>4. Len(r) = Len(s)
  BY <1>1, <1>2, <1>3
<1>5. ASSUME NEW i \in 1..Len(s)
      PROVE  r[i] = s[i]
  <2>1. CASE i = 1
    BY <1>1, <1>3, <2>1
  <2>2. CASE i # 1
    <3>1. i - 1 \in 1..(Len(s) - 1) /\ (i - 1) + 1 = i
      BY <1>1, <1>5, <2>2
    <3>2. r[i] = Tail(s)[i - 1]
      BY <1>1, <1>2, <1>3, <1>4, <3>1
    <3> QED
      BY <1>2, <3>1, <3>2
  <2> QED
    BY <2>1, <2>2
<1>6. r = s
  BY <1>3, <1>4, <1>5, SeqEqual
<1> QED
  BY <1>1, <1>3, <1>6

-----------------------------------------------------------------------------
(* AdminApi: what the dashboard is told. *)

\* What an event says of the player it is about.
Claims(e, p) == e.type = "joined" \/ (e.type \in {"snapshot", "tick"} /\ p \in e.players)

\* The last event about a player says whether he is one of the players.
TrueOf(q, players) ==
  \A p \in Online, i \in DOMAIN q :
    Tells(q[i], p) /\ (\A j \in DOMAIN q : j > i => ~ Tells(q[j], p))
      => (Claims(q[i], p) <=> p \in players)

\* Events that tell every difference between what was before and what is now, and nothing else.
Explains(events, before, now) ==
  /\ \A e \in Elements(events) : \A p \in Online : Tells(e, p) => (Claims(e, p) <=> p \in now)
  /\ \A p \in Online : \/ p \in before <=> p \in now
                       \/ \E e \in Elements(events) : Tells(e, p)

AnswersName == \A i \in 1..Requests : answers[i] # NoAnswer => answers[i].session # NoSession

AdminInv ==
  AdminTypeOK /\ LoginFormIsEmpty /\ NothingStale /\ TrueOf(feed, known) /\ AnswersName

\* Events about a player, and about all.
LEMMA KindsOfEvents ==
  /\ \A p \in Online : \A type \in {"joined", "left"} : [type |-> type, player |-> p] \in Event
  /\ \A players \in SUBSET Online : \A type \in {"snapshot", "tick"} :
       [type |-> type, players |-> players] \in Event
  /\ \A e \in Event : \/ e.type \in {"joined", "left"} /\ e.player \in Online
                      \/ e.type \in {"snapshot", "tick"} /\ e.players \subseteq Online
BY DEF Event

\* What the dashboard makes of an event is what the event says, whatever it showed before.
LEMMA ShownIsClaimed ==
  ASSUME NEW e \in Event, NEW p \in Online, Tells(e, p)
  PROVE  p \in ShownAfter(e) <=> Claims(e, p)
<1>1. CASE e.type = "joined"
  <2>1. ShownAfter(e) = shown \cup {e.player} /\ e.player = p
    BY <1>1 DEF ShownAfter, Tells
  <2> QED
    BY <1>1, <2>1 DEF Claims
<1>2. CASE e.type = "left"
  <2>1. ShownAfter(e) = shown \ {e.player} /\ e.player = p
    BY <1>2 DEF ShownAfter, Tells
  <2> QED
    BY <1>2, <2>1 DEF Claims
<1>3. CASE e.type \in {"snapshot", "tick"}
  <2>1. ShownAfter(e) = e.players
    BY <1>3 DEF ShownAfter
  <2> QED
    BY <1>3, <2>1 DEF Claims
<1> QED
  BY <1>1, <1>2, <1>3, KindsOfEvents

\* A set that is put in a sequence has all its elements there, and the sequence no others.
LEMMA SeqOfSet ==
  ASSUME NEW S, IsFiniteSet(S)
  PROVE  /\ Cardinality(S) \in Nat
         /\ \A i \in 1..Cardinality(S) : SetToSeq(S)[i] \in S
         /\ \A x \in S : \E i \in 1..Cardinality(S) : SetToSeq(S)[i] = x
<1>1. Cardinality(S) \in Nat /\ ExistsBijection(1..Cardinality(S), S)
  BY FS_CardinalityType
<1>2. PICK g \in Bijection(1..Cardinality(S), S) : TRUE
  BY <1>1 DEF ExistsBijection
<1>3. g \in [1..Cardinality(S) -> S] /\ IsInjective(g)
  BY <1>2 DEF Bijection, Injection
<1>4. PICK f : f = SetToSeq(S)
  OBVIOUS
<1>5. f \in [1..Cardinality(S) -> S] /\ IsInjective(f)
  BY <1>3, <1>4, Zenon DEF SetToSeq
<1>6. f \in Injection(1..Cardinality(S), S)
  BY <1>5 DEF Injection
<1>7. Cardinality(1..Cardinality(S)) = Cardinality(S)
  BY <1>1, FS_Interval
<1>8. f \in Surjection(1..Cardinality(S), S)
  BY <1>6, <1>7, FS_Injection
<1>9. \A x \in S : \E i \in 1..Cardinality(S) : f[i] = x
  BY <1>8 DEF Surjection
<1> QED
  BY <1>1, <1>4, <1>5, <1>9

\* The loop over some players sends an event about each of them.
LEMMA EventsAbout ==
  ASSUME NEW players, players \subseteq Online, NEW type \in {"joined", "left"}
  PROVE  /\ EventsOf(type, players) \in Seq(Event)
         /\ Elements(EventsOf(type, players)) = {[type |-> type, player |-> p] : p \in players}
<1>1. IsFiniteSet(players)
  BY AdminApiAssumption, FS_Subset
<1>2. PICK n \in Nat : n = Cardinality(players)
  BY <1>1, SeqOfSet
<1>3. PICK f : f = SetToSeq(players)
  OBVIOUS
<1>4. /\ \A i \in 1..n : f[i] \in players
      /\ \A x \in players : \E i \in 1..n : f[i] = x
  BY <1>1, <1>2, <1>3, SeqOfSet
<1>5. EventsOf(type, players) = [i \in 1..n |-> [type |-> type, player |-> f[i]]]
  BY <1>2, <1>3 DEF EventsOf
<1>6. PICK s : s = EventsOf(type, players)
  OBVIOUS
<1>7. /\ DOMAIN s = 1..n
      /\ \A i \in 1..n : s[i] = [type |-> type, player |-> f[i]]
  BY <1>5, <1>6
<1>8. s \in [1..n -> Event]
  <2>1. \A i \in 1..n : [type |-> type, player |-> f[i]] \in Event
    BY <1>4, KindsOfEvents
  <2> QED
    BY <1>5, <1>6, <2>1
<1>9. s \in Seq(Event)
  BY <1>2, <1>8, SeqDef
<1>10. Elements(s) = {[type |-> type, player |-> p] : p \in players}
  BY <1>4, <1>7 DEF Elements
<1> QED
  BY <1>6, <1>9, <1>10

\* What is broadcast in a tick explains the difference between two ticks.
LEMMA TickExplains ==
  ASSUME AdminTypeOK,
         NEW tick, tick = <<>> \/ tick = <<[type |-> "tick", players |-> online]>>
  PROVE  /\ Differences \o tick \in Seq(Event)
         /\ Explains(Differences \o tick, known, online)
<1> DEFINE came == EventsOf("joined", online \ known)
           went == EventsOf("left", known \ online)
<1>1. online \subseteq Online /\ known \subseteq Online
  BY DEF AdminTypeOK
<1>2. /\ came \in Seq(Event)
      /\ Elements(came) = {[type |-> "joined", player |-> p] : p \in online \ known}
  BY <1>1, EventsAbout
<1>3. /\ went \in Seq(Event)
      /\ Elements(went) = {[type |-> "left", player |-> p] : p \in known \ online}
  BY <1>1, EventsAbout
<1>4. Differences = came \o went
  BY DEF Differences
<1> HIDE DEF came, went
<1>5. Differences \in Seq(Event) /\ Elements(Differences) = Elements(came) \cup Elements(went)
  BY <1>2, <1>3, <1>4, ElementsOfTwo
<1>6. /\ tick \in Seq(Event)
      /\ \A e \in Elements(tick) : e = [type |-> "tick", players |-> online]
  <2>1. [type |-> "tick", players |-> online] \in Event
    BY <1>1, KindsOfEvents
  <2>2. PICK e : e = [type |-> "tick", players |-> online]
    OBVIOUS
  <2>3. CASE tick = <<>>
    BY <2>3 DEF Elements
  <2>4. CASE tick = <<e>>
    BY <2>1, <2>2, <2>4 DEF Elements
  <2> QED
    BY <2>2, <2>3, <2>4
<1>7. PICK all : all = Differences \o tick
  OBVIOUS
<1>8. all \in Seq(Event) /\ Elements(all) = Elements(came) \cup Elements(went) \cup Elements(tick)
  BY <1>5, <1>6, <1>7, ElementsOfTwo
<1>9. ASSUME NEW e \in Elements(all), NEW p \in Online, Tells(e, p)
      PROVE  Claims(e, p) <=> p \in online
  <2>1. CASE e \in Elements(came)
    <3>1. e.type = "joined" /\ e.player \in online
      BY <1>2, <2>1
    <3> QED
      BY <1>9, <3>1 DEF Claims, Tells
  <2>2. CASE e \in Elements(went)
    <3>1. e.type = "left" /\ e.player \notin online
      BY <1>3, <2>2
    <3> QED
      BY <1>9, <3>1 DEF Claims, Tells
  <2>3. CASE e \in Elements(tick)
    <3>1. e.type = "tick" /\ e.players = online
      BY <1>6, <2>3
    <3> QED
      BY <3>1 DEF Claims
  <2> QED
    BY <1>8, <2>1, <2>2, <2>3
<1>10. ASSUME NEW p \in Online, ~ (p \in known <=> p \in online)
       PROVE  \E e \in Elements(all) : Tells(e, p)
  <2>1. CASE p \in online \ known
    <3>1. PICK e : e = [type |-> "joined", player |-> p]
      OBVIOUS
    <3>2. e \in Elements(all) /\ e.type = "joined" /\ e.player = p
      BY <1>2, <1>8, <2>1, <3>1
    <3> QED
      BY <3>2 DEF Tells
  <2>2. CASE p \in known \ online
    <3>1. PICK e : e = [type |-> "left", player |-> p]
      OBVIOUS
    <3>2. e \in Elements(all) /\ e.type = "left" /\ e.player = p
      BY <1>3, <1>8, <2>2, <3>1
    <3> QED
      BY <3>2 DEF Tells
  <2> QED
    BY <1>10, <2>1, <2>2
<1>11. Explains(all, known, online)
  BY <1>9, <1>10 DEF Explains
<1> QED
  BY <1>7, <1>8, <1>11

\* Events that explain a difference make a true feed true again.
LEMMA ExplainedIsTrue ==
  ASSUME NEW q \in Seq(Event), NEW r \in Seq(Event), NEW before, NEW now,
         TrueOf(q, before), Explains(r, before, now)
  PROVE  TrueOf(q \o r, now)
<1>1. PICK a \in Seq(Event) : a = q \o r
  BY ConcatProperties, Zenon
<1>2. PICK m \in Nat, n \in Nat : m = Len(q) /\ n = Len(r)
  OBVIOUS
<1>3. /\ DOMAIN q = 1..m /\ DOMAIN r = 1..n /\ DOMAIN a = 1..(m + n)
      /\ \A i \in 1..m : a[i] = q[i]
      /\ \A i \in 1..n : a[m + i] = r[i] /\ m + i \in 1..(m + n)
  BY <1>1, <1>2
<1>4. ASSUME NEW p \in Online, NEW i \in 1..(m + n), Tells(a[i], p),
             \A j \in 1..(m + n) : j > i => ~ Tells(a[j], p)
      PROVE  Claims(a[i], p) <=> p \in now
  <2>1. CASE i \in 1..m
    <3>1. ASSUME NEW k \in 1..n PROVE ~ Tells(r[k], p)
      <4>1. m + k \in 1..(m + n) /\ m + k > i /\ a[m + k] = r[k]
        BY <1>3, <2>1
      <4> QED
        BY <1>4, <4>1
    <3>2. p \in before <=> p \in now
      BY <1>3, <3>1 DEF Explains, Elements
    <3>3. ASSUME NEW j \in 1..m, j > i PROVE ~ Tells(q[j], p)
      <4>1. j \in 1..(m + n) /\ a[j] = q[j]
        BY <1>3
      <4> QED
        BY <1>4, <3>3, <4>1
    <3>4. a[i] = q[i] /\ Tells(q[i], p)
      BY <1>3, <1>4, <2>1
    <3>5. Claims(q[i], p) <=> p \in before
      BY <1>3, <2>1, <3>3, <3>4 DEF TrueOf
    <3> QED
      BY <3>2, <3>4, <3>5
  <2>2. CASE i \notin 1..m
    <3>1. PICK k \in 1..n : i = m + k
      <4>1. i - m \in 1..n /\ i = m + (i - m)
        BY <2>2
      <4> QED
        BY <4>1
    <3>2. a[i] = r[k] /\ r[k] \in Elements(r)
      BY <1>3, <3>1 DEF Elements
    <3> QED
      BY <1>4, <3>2 DEF Explains
  <2> QED
    BY <2>1, <2>2
<1> QED
  BY <1>1, <1>3, <1>4 DEF TrueOf

\* What is left of a true feed when its oldest events are taken or lost is true.
LEMMA LateIsTrue ==
  ASSUME NEW q \in Seq(Event), NEW r \in Seq(Event), NEW k \in Nat, NEW players,
         Len(q) = Len(r) + k, \A i \in 1..Len(r) : r[i] = q[i + k],
         TrueOf(q, players)
  PROVE  TrueOf(r, players)
<1>1. PICK n \in Nat : n = Len(r)
  OBVIOUS
<1>2. DOMAIN r = 1..n /\ DOMAIN q = 1..(n + k) /\ \A i \in 1..n : r[i] = q[i + k]
  BY <1>1
<1>3. ASSUME NEW p \in Online, NEW i \in 1..n, Tells(r[i], p),
             \A j \in 1..n : j > i => ~ Tells(r[j], p)
      PROVE  Claims(r[i], p) <=> p \in players
  <2>1. i + k \in 1..(n + k) /\ r[i] = q[i + k]
    BY <1>2
  <2>2. ASSUME NEW j \in 1..(n + k), j > i + k PROVE ~ Tells(q[j], p)
    <3>1. PICK h \in 1..n : h = j - k /\ j = h + k /\ h > i
      <4>1. j - k \in 1..n /\ j = (j - k) + k /\ j - k > i
        BY <2>2
      <4> QED
        BY <4>1
    <3>2. r[h] = q[j]
      BY <1>2, <3>1
    <3> QED
      BY <1>3, <3>1, <3>2
  <2> QED
    BY <1>2, <1>3, <2>1, <2>2 DEF TrueOf
<1> QED
  BY <1>2, <1>3 DEF TrueOf

\* A broadcast that overwrites the oldest events leaves a feed that is true of this tick.
LEMMA BroadcastIsTrue ==
  ASSUME AdminInv, NEW events \in Seq(Event), Explains(events, known, online)
  PROVE  /\ Broadcast(events) \in Seq(Event) /\ Len(Broadcast(events)) <= ChannelSize
         /\ TrueOf(Broadcast(events), online)
<1>1. feed \in Seq(Event) /\ TrueOf(feed, known) /\ ChannelSize \in Nat /\ ChannelSize # 0
  BY AdminApiAssumption DEF AdminInv, AdminTypeOK
<1>2. PICK all \in Seq(Event) : all = feed \o events
  BY <1>1, ConcatProperties, Zenon
<1>3. TrueOf(all, online)
  BY <1>1, <1>2, ExplainedIsTrue
<1>4. Broadcast(events) = IF Len(all) <= ChannelSize THEN all
                          ELSE SubSeq(all, Len(all) - ChannelSize + 1, Len(all))
  BY <1>2 DEF Broadcast
<1>5. CASE Len(all) <= ChannelSize
  BY <1>3, <1>4, <1>5
<1>6. CASE Len(all) > ChannelSize
  <2>0. PICK n \in Nat : n = Len(all)
    BY <1>2, LenProperties, Zenon
  <2>1. PICK k \in Nat : k = Len(all) - ChannelSize
    <3>1. n - ChannelSize \in Nat
      BY <1>1, <1>6, <2>0
    <3> QED
      BY <2>0, <3>1
  <2>2. PICK r : r = SubSeq(all, k + 1, Len(all))
    OBVIOUS
  <2>3. k + 1 \in 1..(Len(all) + 1) /\ Len(all) = ChannelSize + k /\ Len(all) \in 0..Len(all)
    BY <1>1, <1>6, <2>1
  <2>4. r \in Seq(Event) /\ Len(r) = ChannelSize /\ \A i \in 1..ChannelSize : r[i] = all[i + k]
    BY <1>1, <2>2, <2>3
  <2>5. Broadcast(events) = r
    BY <1>1, <1>4, <1>6, <2>1, <2>2
  <2>6. TrueOf(r, online)
    BY <1>3, <2>3, <2>4, LateIsTrue
  <2> QED
    BY <2>4, <2>5, <2>6, <1>1
<1> QED
  BY <1>1, <1>5, <1>6

\* The list of answers, one replaced.
Answer(m) == [session : m \cup {NoSession}, ok : BOOLEAN, players : SUBSET Online]

\* A list of answers stays one when an answer is replaced and when more tokens were issued.
LEMMA AnswersWith ==
  ASSUME AdminTypeOK, NEW m, minted \subseteq m
  PROVE  /\ answers \in [1..Requests -> Answer(m)] /\ NoAnswer \in Answer(m)
         /\ NoRequests \in [1..Requests -> Answer(m)]
         /\ \A i \in 1..Requests : answers[i] \in Answer(m)
         /\ \A i \in 1..Requests : \A a \in Answer(m) :
              [answers EXCEPT ![i] = a] \in [1..Requests -> Answer(m)]
<1>1. answers \in [1..Requests -> Answer(minted)]
  BY DEF AdminTypeOK, Answer
<1>2. \A a \in Answer(minted) : a \in Answer(m)
  BY DEF Answer
<1>3. answers \in [1..Requests -> Answer(m)]
  BY <1>1, <1>2
<1>4. NoAnswer \in Answer(m)
  BY DEF NoAnswer, Answer
<1> QED
  BY <1>3, <1>4 DEF NoRequests

\* An empty feed says nothing, and is one.
LEMMA EmptyFeed ==
  \A s : s = <<>> => /\ s \in Seq(Event) /\ Len(s) <= 1 /\ Len(s) <= ChannelSize
                    /\ \A players : TrueOf(s, players)
<1>1. ChannelSize \in Nat
  BY AdminApiAssumption
<1>2. \A s : s = <<>> => s \in Seq(Event) /\ Len(s) <= 1 /\ Len(s) <= ChannelSize
  BY <1>1
<1> QED
  BY <1>2 DEF TrueOf

\* Before anybody has logged in.
LEMMA AdminStarts == AdminInit => AdminInv
<1> SUFFICES ASSUME AdminInit PROVE AdminInv
  OBVIOUS
<1>1. 0 \in 0..(BroadcastEvery - 1) /\ 0 \in 0..Mishaps
  BY AdminApiAssumption
<1>2. /\ feed \in Seq(Event) /\ Len(feed) <= ChannelSize
      /\ wire \in Seq(Event) /\ Len(wire) <= 1 /\ TrueOf(feed, known)
  BY EmptyFeed DEF AdminInit
<1>3. /\ answers \in [1..Requests -> [session : minted \cup {NoSession}, ok : BOOLEAN,
                                     players : SUBSET Online]]
      /\ AnswersName
  BY DEF AdminInit, NoRequests, NoAnswer, AnswersName
<1>4. AdminTypeOK
  BY <1>1, <1>2, <1>3 DEF AdminInit, AdminTypeOK
<1> QED
  BY <1>2, <1>3, <1>4 DEF AdminInit, AdminInv, LoginFormIsEmpty, NothingStale

\* A tick of the server.
LEMMA SyncStep ==
  ASSUME AdminInv, SyncAdminSnapshot
  PROVE  AdminInv'
<1>0. AdminTypeOK
  BY DEF AdminInv
<1>1. PICK tick : /\ tick = (IF phase = BroadcastEvery - 1
                             THEN <<[type |-> "tick", players |-> online]>> ELSE <<>>)
                  /\ tick = <<>> \/ tick = <<[type |-> "tick", players |-> online]>>
  OBVIOUS
<1>2. PICK events : events = Differences \o tick
  OBVIOUS
<1>3. events \in Seq(Event) /\ Explains(events, known, online)
  BY <1>0, <1>1, <1>2, TickExplains
<1>4. /\ phase' = (phase + 1) % BroadcastEvery /\ known' = online /\ snapshot' = online
      /\ feed' = IF socket = "live" THEN Broadcast(events) ELSE feed
      /\ UNCHANGED <<online, sessions, minted, token, shown, socket, wire, answers, mishaps>>
  BY <1>1, <1>2, Zenon DEF SyncAdminSnapshot, SnapshotAfterTick
<1>5. phase' \in 0..(BroadcastEvery - 1)
  BY <1>0, <1>4, AdminApiAssumption DEF AdminTypeOK
<1>6. /\ feed' \in Seq(Event) /\ Len(feed') <= ChannelSize /\ TrueOf(feed', online)
      /\ feed' # <<>> => socket = "live"
  <2>1. CASE socket = "live"
    BY <1>3, <1>4, <2>1, BroadcastIsTrue
  <2>2. CASE socket # "live"
    <3>1. feed = <<>> /\ feed' = feed
      BY <1>4, <2>2 DEF AdminInv, NothingStale
    <3> QED
      BY <3>1, EmptyFeed
  <2> QED
    BY <2>1, <2>2
<1>7. AdminTypeOK'
  BY <1>0, <1>4, <1>5, <1>6 DEF AdminTypeOK
<1>8. TrueOf(feed', known')
  BY <1>4, <1>6
<1> QED
  BY <1>4, <1>6, <1>7, <1>8 DEF AdminInv, LoginFormIsEmpty, NothingStale, AnswersName

\* The other steps of the server and of the players.
LEMMA ServerStepKeeps ==
  ASSUME AdminInv,
         Restart \/ (\E t \in Session : Expire(t)) \/ \E p \in Online : ComeOrGo(p)
  PROVE  AdminInv'
<1>0. AdminTypeOK
  BY DEF AdminInv
<1>1. CASE Restart
  <2>1. /\ mishaps < Mishaps /\ mishaps' = mishaps + 1
        /\ online' = {} /\ known' = {} /\ phase' = 0 /\ snapshot' = {} /\ sessions' = {}
        /\ socket' = IF socket = "none" THEN "none" ELSE "closed"
        /\ feed' = <<>> /\ wire' = <<>>
        /\ UNCHANGED <<minted, token, shown, answers>>
    BY <1>1 DEF Restart, Mishap
  <2>2. mishaps' \in 0..Mishaps /\ phase' \in 0..(BroadcastEvery - 1)
    BY <1>0, <2>1, AdminApiAssumption DEF AdminTypeOK
  <2>3. /\ feed' \in Seq(Event) /\ Len(feed') <= ChannelSize /\ TrueOf(feed', known')
        /\ wire' \in Seq(Event) /\ Len(wire') <= 1
    BY <2>1, EmptyFeed
  <2>4. AdminTypeOK'
    BY <1>0, <2>1, <2>2, <2>3 DEF AdminTypeOK
  <2> QED
    BY <2>1, <2>3, <2>4 DEF AdminInv, LoginFormIsEmpty, NothingStale, AnswersName
<1>2. ASSUME NEW t \in Session, Expire(t)
      PROVE  AdminInv'
  BY <1>0, <1>2 DEF Expire, IsValid, Revoke, AdminInv, AdminTypeOK, LoginFormIsEmpty,
                    NothingStale, AnswersName, stream
<1>3. ASSUME NEW p \in Online, ComeOrGo(p)
      PROVE  AdminInv'
  BY <1>0, <1>3 DEF ComeOrGo, AdminInv, AdminTypeOK, LoginFormIsEmpty, NothingStale,
                    AnswersName, stream
<1> QED
  BY <1>1, <1>2, <1>3

\* The live socket.
LEMMA SocketStepKeeps ==
  ASSUME AdminInv, SocketStep
  PROVE  AdminInv'
<1>0. AdminTypeOK /\ feed \in Seq(Event) /\ TrueOf(feed, known) /\ snapshot \subseteq Online
  BY DEF AdminInv, AdminTypeOK
<1> USE DEF server
<1>1. CASE LiveWs
  <2>1. socket = "opening" /\ wire = <<>> /\ feed = <<>>
    BY <1>1 DEF LiveWs, AdminInv, NothingStale
  <2>2. PICK e \in Event : e = [type |-> "snapshot", players |-> snapshot]
    BY <1>0, KindsOfEvents
  <2>3. /\ \/ socket' = "greeted" /\ wire' = <<e>>
           \/ socket' = "closed" /\ wire' = <<>>
        /\ UNCHANGED <<server, token, shown, feed, answers, mishaps>>
    BY <1>1, <2>1, <2>2 DEF LiveWs
  <2>4. wire' \in Seq(Event) /\ Len(wire') <= 1
    <3>1. \A s : s = <<e>> => s \in Seq(Event) /\ Len(s) <= 1
      OBVIOUS
    <3> QED
      BY <2>3, <3>1, EmptyFeed
  <2>5. AdminTypeOK'
    BY <1>0, <2>3, <2>4 DEF AdminTypeOK
  <2>6. NothingStale' /\ LoginFormIsEmpty'
    BY <2>1, <2>3 DEF AdminInv, NothingStale, LoginFormIsEmpty
  <2> QED
    BY <1>0, <2>3, <2>5, <2>6 DEF AdminInv, AnswersName
<1>2. CASE Subscribe \/ Reopen
  BY <1>0, <1>2 DEF Subscribe, Reopen, AdminInv, AdminTypeOK, NothingStale, LoginFormIsEmpty,
                    AnswersName
<1>3. CASE Forward
  <2>1. /\ socket = "live" /\ feed # <<>> /\ wire' = <<Head(feed)>> /\ feed' = Tail(feed)
        /\ UNCHANGED <<server, token, shown, socket, answers, mishaps>>
    BY <1>3 DEF Forward
  <2>2. Head(feed) \in Event /\ Tail(feed) \in Seq(Event) /\ <<Head(feed)>> \in Seq(Event)
    BY <1>0, <2>1, HeadAndTail
  <2>3. PICK r \in Seq(Event) : r = Tail(feed)
    BY <2>2
  <2>4. Len(feed) = Len(r) + 1 /\ \A i \in 1..Len(r) : r[i] = feed[i + 1]
    BY <1>0, <2>1, <2>3
  <2>5. TrueOf(r, known)
    BY <1>0, <2>4, LateIsTrue
  <2>6. Len(r) <= ChannelSize /\ Len(<<Head(feed)>>) = 1
    BY <1>0, <2>4, AdminApiAssumption DEF AdminTypeOK
  <2>7. /\ feed' \in Seq(Event) /\ Len(feed') <= ChannelSize /\ TrueOf(feed', known')
        /\ wire' \in Seq(Event) /\ Len(wire') <= 1
    BY <2>1, <2>2, <2>3, <2>5, <2>6
  <2>8. AdminTypeOK'
    BY <1>0, <2>1, <2>7 DEF AdminTypeOK
  <2> QED
    BY <2>1, <2>7, <2>8 DEF AdminInv, NothingStale, LoginFormIsEmpty, AnswersName
<1>4. CASE BreakSocket
  <2>1. /\ mishaps < Mishaps /\ mishaps' = mishaps + 1 /\ socket # "none" /\ socket' = "closed"
        /\ feed' = <<>> /\ wire' = <<>> /\ UNCHANGED <<server, token, shown, answers>>
    BY <1>4 DEF BreakSocket, Mishap
  <2>2. mishaps' \in 0..Mishaps
    BY <1>0, <2>1, AdminApiAssumption DEF AdminTypeOK
  <2>3. /\ feed' \in Seq(Event) /\ Len(feed') <= ChannelSize /\ TrueOf(feed', known')
        /\ wire' \in Seq(Event) /\ Len(wire') <= 1
    BY <2>1, EmptyFeed
  <2>4. AdminTypeOK'
    BY <1>0, <2>1, <2>2, <2>3 DEF AdminTypeOK
  <2> QED
    BY <2>1, <2>3, <2>4 DEF AdminInv, LoginFormIsEmpty, NothingStale, AnswersName
<1>5. CASE OnMessage
  <2>1. /\ wire # <<>> /\ shown' = ShownAfter(Head(wire)) /\ wire' = Tail(wire)
        /\ UNCHANGED <<server, token, socket, feed, answers, mishaps>>
    BY <1>5 DEF OnMessage
  <2>2. wire \in Seq(Event) /\ Len(wire) <= 1
    BY <1>0 DEF AdminTypeOK
  <2>3. PICK e \in Event : e = Head(wire)
    BY <2>1, <2>2, HeadAndTail
  <2>4. wire' \in Seq(Event) /\ Len(wire') <= 1
    BY <2>1, <2>2
  <2>5. shown' \subseteq Online
    <3>1. CASE e.type \in {"snapshot", "tick"}
      BY <2>1, <2>3, <3>1, KindsOfEvents DEF ShownAfter
    <3>2. CASE e.type = "joined"
      <4>1. shown' = shown \cup {e.player} /\ e.player \in Online
        BY <2>1, <2>3, <3>2, KindsOfEvents DEF ShownAfter
      <4> QED
        BY <1>0, <4>1 DEF AdminTypeOK
    <3>3. CASE e.type = "left"
      <4>1. shown' = shown \ {e.player}
        BY <2>1, <2>3, <3>3 DEF ShownAfter
      <4> QED
        BY <1>0, <4>1 DEF AdminTypeOK
    <3> QED
      BY <3>1, <3>2, <3>3, KindsOfEvents
  <2>6. AdminTypeOK'
    BY <1>0, <2>1, <2>4, <2>5 DEF AdminTypeOK
  <2>7. socket \in {"greeted", "live"} /\ token # NoSession
    BY <2>1 DEF AdminInv, NothingStale, LoginFormIsEmpty
  <2> QED
    BY <1>0, <2>1, <2>6, <2>7 DEF AdminInv, LoginFormIsEmpty, NothingStale, AnswersName
<1> QED
  BY <1>1, <1>2, <1>3, <1>4, <1>5 DEF SocketStep

\* The dashboard: what it shows goes with its token.
LEMMA DashboardStepKeeps ==
  ASSUME AdminInv,
         \/ \E t \in Session : Login(t)
         \/ Reload \/ Logout
         \/ \E i \in 1..Requests : CheckSession(i) \/ GetAnswer(i) \/ RequestFails(i)
  PROVE  AdminInv'
<1>0. AdminTypeOK /\ feed \in Seq(Event) /\ snapshot \subseteq Online /\ NoSession \notin Session
  BY AdminApiAssumption DEF AdminInv, AdminTypeOK
<1>n. answers \in [1..Requests -> Answer(minted)]
  BY <1>0, AnswersWith
<1> USE DEF server, stream
<1>e. ASSUME feed' = <<>>, wire' = <<>>
      PROVE  /\ feed' \in Seq(Event) /\ Len(feed') <= ChannelSize /\ TrueOf(feed', known')
             /\ wire' \in Seq(Event) /\ Len(wire') <= 1
  BY <1>e, EmptyFeed
<1>1. ASSUME NEW t \in Session, Login(t)
      PROVE  AdminInv'
  <2>1. /\ t \notin minted /\ minted' = minted \cup {t} /\ sessions' = sessions \cup {t}
        /\ token' = t /\ shown' = {} /\ socket' = "opening" /\ feed' = <<>> /\ wire' = <<>>
        /\ UNCHANGED <<online, known, phase, snapshot, answers, mishaps>>
    BY <1>1 DEF Login, Issue, Mount
  <2>2. answers' \in [1..Requests -> Answer(minted')]
    BY <1>0, <2>1, AnswersWith
  <2>3. AdminTypeOK'
    BY <1>0, <1>e, <2>1, <2>2 DEF AdminTypeOK, Answer
  <2> QED
    BY <1>0, <1>e, <2>1, <2>3 DEF AdminInv, LoginFormIsEmpty, NothingStale, AnswersName
<1>2. CASE Reload
  <2>1. /\ mishaps < Mishaps /\ mishaps' = mishaps + 1 /\ token # NoSession /\ token' = token
        /\ shown' = {} /\ socket' = "opening" /\ feed' = <<>> /\ wire' = <<>>
        /\ answers' = NoRequests /\ UNCHANGED server
    BY <1>2 DEF Reload, Mishap, Mount
  <2>2. mishaps' \in 0..Mishaps
    BY <1>0, <2>1, AdminApiAssumption DEF AdminTypeOK
  <2>3. answers' \in [1..Requests -> Answer(minted')] /\ AnswersName'
    BY <1>0, <2>1, AnswersWith DEF NoRequests, AnswersName
  <2>4. AdminTypeOK'
    BY <1>0, <1>e, <2>1, <2>2, <2>3 DEF AdminTypeOK, Answer
  <2> QED
    BY <1>e, <2>1, <2>3, <2>4 DEF AdminInv, LoginFormIsEmpty, NothingStale
<1>3. CASE Logout
  <2>1. /\ token # NoSession /\ token' = NoSession /\ shown' = {} /\ socket' = "none"
        /\ feed' = <<>> /\ wire' = <<>> /\ answers' = NoRequests
        /\ UNCHANGED <<online, known, phase, snapshot, minted>>
    BY <1>3 DEF Logout, Unmount, Revoke
  <2>2. sessions' \subseteq sessions /\ mishaps' \in 0..Mishaps
    <3>1. CASE Revoke(token) /\ UNCHANGED mishaps
      BY <1>0, <3>1 DEF Revoke, AdminTypeOK
    <3>2. CASE Mishap /\ UNCHANGED <<sessions, minted>>
      BY <1>0, <3>2, AdminApiAssumption DEF Mishap, AdminTypeOK
    <3> QED
      BY <1>3, <3>1, <3>2 DEF Logout
  <2>3. answers' \in [1..Requests -> Answer(minted')] /\ AnswersName'
    BY <1>0, <2>1, AnswersWith DEF NoRequests, AnswersName
  <2>4. AdminTypeOK'
    BY <1>0, <1>e, <2>1, <2>2, <2>3 DEF AdminTypeOK, Answer
  <2> QED
    BY <1>e, <2>1, <2>3, <2>4 DEF AdminInv, LoginFormIsEmpty, NothingStale
<1>4. ASSUME NEW i \in 1..Requests, CheckSession(i)
      PROVE  AdminInv'
  <2>1. PICK a : a = [session |-> token, ok |-> IsValid(token),
                      players |-> IF IsValid(token) THEN snapshot ELSE {}]
    OBVIOUS
  <2>2. /\ token # NoSession /\ answers' = [answers EXCEPT ![i] = a]
        /\ UNCHANGED <<server, token, shown, stream, mishaps>>
    BY <1>4, <2>1, Zenon DEF CheckSession
  <2>3. a \in Answer(minted) /\ a.session = token
    <3>1. IsValid(token) \in BOOLEAN
      BY DEF IsValid
    <3> QED
      BY <1>0, <2>1, <3>1 DEF Answer, AdminTypeOK
  <2>4. answers' \in [1..Requests -> Answer(minted)]
    BY <1>0, <2>2, <2>3, AnswersWith
  <2>5. AnswersName'
    BY <1>n, <2>2, <2>3 DEF AdminInv, AnswersName
  <2>6. AdminTypeOK'
    BY <1>0, <2>2, <2>4 DEF AdminTypeOK, Answer
  <2> QED
    BY <1>0, <2>2, <2>5, <2>6 DEF AdminInv, LoginFormIsEmpty, NothingStale
<1>5. ASSUME NEW i \in 1..Requests, GetAnswer(i)
      PROVE  AdminInv'
  <2>1. answers[i] # NoAnswer /\ answers' = [answers EXCEPT ![i] = NoAnswer]
        /\ UNCHANGED <<server, mishaps>>
    BY <1>5 DEF GetAnswer
  <2>2. answers' \in [1..Requests -> Answer(minted)] /\ answers[i] \in Answer(minted)
    BY <1>0, <2>1, AnswersWith
  <2>3. AnswersName'
    BY <1>n, <2>1 DEF AdminInv, AnswersName
  <2>4. CASE ~ answers[i].ok
    <3>1. /\ token' = NoSession /\ shown' = {} /\ socket' = "none"
          /\ feed' = <<>> /\ wire' = <<>>
      BY <1>5, <2>4 DEF GetAnswer, Unmount
    <3>2. AdminTypeOK'
      BY <1>0, <1>e, <2>1, <2>2, <3>1 DEF AdminTypeOK, Answer
    <3> QED
      BY <1>e, <2>3, <3>1, <3>2 DEF AdminInv, LoginFormIsEmpty, NothingStale
  <2>5. CASE answers[i].ok
    <3>1. /\ shown' = IF answers[i].session = token THEN answers[i].players ELSE shown
          /\ UNCHANGED <<token, stream>>
      BY <1>5, <2>5 DEF GetAnswer
    <3>2. shown' \subseteq Online
      BY <1>0, <2>2, <3>1 DEF Answer, AdminTypeOK
    <3>3. token = NoSession => shown' = shown
      BY <2>1, <3>1 DEF AdminInv, AnswersName
    <3>4. AdminTypeOK'
      BY <1>0, <2>1, <2>2, <3>1, <3>2 DEF AdminTypeOK, Answer
    <3> QED
      BY <1>0, <2>1, <2>3, <3>1, <3>3, <3>4 DEF AdminInv, LoginFormIsEmpty, NothingStale
  <2> QED
    BY <2>4, <2>5
<1>6. ASSUME NEW i \in 1..Requests, RequestFails(i)
      PROVE  AdminInv'
  <2>1. /\ mishaps < Mishaps /\ mishaps' = mishaps + 1
        /\ answers' = [answers EXCEPT ![i] = NoAnswer]
        /\ UNCHANGED <<server, token, shown, stream>>
    BY <1>6 DEF RequestFails, Mishap
  <2>2. mishaps' \in 0..Mishaps
    BY <1>0, <2>1, AdminApiAssumption DEF AdminTypeOK
  <2>3. answers' \in [1..Requests -> Answer(minted)]
    BY <1>0, <2>1, AnswersWith
  <2>4. AnswersName'
    BY <1>n, <2>1 DEF AdminInv, AnswersName
  <2>5. AdminTypeOK'
    BY <1>0, <2>1, <2>2, <2>3 DEF AdminTypeOK, Answer
  <2> QED
    BY <1>0, <2>1, <2>4, <2>5 DEF AdminInv, LoginFormIsEmpty, NothingStale
<1> QED
  BY <1>1, <1>2, <1>3, <1>4, <1>5, <1>6

\* Every step keeps it.
LEMMA AdminStep == AdminInv /\ [AdminNext]_admin => AdminInv'
<1>1. ASSUME AdminInv, UNCHANGED admin
      PROVE  AdminInv'
  BY <1>1 DEF admin, server, stream, AdminInv, AdminTypeOK, LoginFormIsEmpty, NothingStale,
              AnswersName
<1>2. ASSUME AdminInv, AdminNext
      PROVE  AdminInv'
  <2>1. CASE SyncAdminSnapshot
    BY <1>2, <2>1, SyncStep
  <2>2. CASE Restart \/ (\E t \in Session : Expire(t)) \/ \E p \in Online : ComeOrGo(p)
    BY <1>2, <2>2, ServerStepKeeps
  <2>3. CASE SocketStep
    BY <1>2, <2>3, SocketStepKeeps
  <2>4. CASE \/ \E t \in Session : Login(t)
             \/ Reload \/ Logout
             \/ \E i \in 1..Requests : CheckSession(i) \/ GetAnswer(i) \/ RequestFails(i)
    BY <1>2, <2>4, DashboardStepKeeps
  <2> QED
    BY <1>2, <2>1, <2>2, <2>3, <2>4, Zenon DEF AdminNext, ServerStep
<1> QED
  BY <1>1, <1>2

\* What is promised follows.
LEMMA AdminIsSafe == AdminInv => AdminTypeOK /\ DashboardIsHonest
<1> SUFFICES ASSUME AdminInv PROVE FeedIsTrue
  BY DEF AdminInv, DashboardIsHonest
<1>1. feed \in Seq(Event) /\ TrueOf(feed, known)
  BY DEF AdminInv, AdminTypeOK
<1>2. ASSUME NEW p \in Online, NEW i \in DOMAIN feed, Tells(feed[i], p)
      PROVE  p \in ShownAfter(feed[i]) <=> Claims(feed[i], p)
  <2>1. feed[i] \in Event
    BY <1>1
  <2> QED
    BY <1>2, <2>1, ShownIsClaimed
<1> QED
  BY <1>1, <1>2 DEF FeedIsTrue, TrueOf

\* For every interleaving of ticks, sockets, answers, restarts, expiries and reloads, and every
\* capacity of the channel: the login form shows nobody, an open socket brings nothing of an
\* earlier one, and the last event about a player that the channel has not overwritten is true.
THEOREM DashboardHonest == AdminSpec => [](AdminTypeOK /\ DashboardIsHonest)
BY AdminStarts, AdminStep, AdminIsSafe, PTL DEF AdminSpec

-----------------------------------------------------------------------------
(* ClientConnection: what may be unread, and how long the fallback waits. *)

\* There is no entity in the menu, and nobody has answered who was not asked.
NoneInMenu == flow = "Menu" => io = "none"
NothingUnread == session \in {"pending", "asked"} => inbox = <<>>

\* The start time the fallback goes by is that of this attempt.
StartIsKnown ==
  io = "WebTransport" /\ conn # "connected" /\ wtAge # Unset => wtAge <= waiting

ClientInv == ClientTypeOK /\ NoneInMenu /\ NothingUnread /\ StartIsKnown

\* An inbox may be empty.
LEMMA EmptyInbox ==
  \A box : box = <<>> => box \in Seq(Reasons \cup {"welcome"}) /\ Len(box) <= 1
OBVIOUS

\* Unset is no number, and ages stop at the bound.
LEMMA Constants ==
  /\ Unset \notin Nat /\ Backoff \in Nat /\ Backoff # 0 /\ WtTimeout \in Nat
  /\ \A n \in 0..(WtTimeout + 1) :
       /\ AtMostOne(n) \in 0..(WtTimeout + 1)
       /\ \A m \in 0..n : AtMostOne(m) <= AtMostOne(n)
<1>2. ASSUME NEW n \in 0..(WtTimeout + 1)
      PROVE  /\ AtMostOne(n) \in 0..(WtTimeout + 1)
             /\ \A m \in 0..n : AtMostOne(m) <= AtMostOne(n)
  BY ClientConnectionAssumption DEF AtMostOne
<1>3. \A n \in Nat : n # Unset
  BY ClientConnectionAssumption
<1> QED
  BY <1>2, <1>3, ClientConnectionAssumption

\* A client starts in the menu.
LEMMA ClientStarts == ClientInit => ClientInv
<1> SUFFICES ASSUME ClientInit PROVE ClientInv
  OBVIOUS
<1>1. native \in BOOLEAN /\ mode \in {"WebTransport", "WebSocket"}
  BY DEF ClientInit, Detect, SelectTransportMode
<1>2. usable \subseteq Transports
  BY DEF ClientInit, Transports
<1>3. 0 \in 0..(WtTimeout + 1) /\ 0 \in 0..(Backoff - 1)
  BY Constants
<1>4. inbox \in Seq(Reasons \cup {"welcome"}) /\ Len(inbox) <= 1
  BY EmptyInbox, Zenon DEF ClientInit
<1>5. /\ native \in BOOLEAN /\ mode \in {"WebTransport", "WebSocket"} /\ wtAge = Unset
      /\ reason = Unset /\ flow = "Menu" /\ stage = TRUE /\ modal = FALSE /\ io = "none"
      /\ conn = "none" /\ session = "none" /\ inbox = <<>> /\ localId = FALSE
      /\ identityToken \in BOOLEAN /\ visible = TRUE /\ pageEvent = Unset
      /\ sinceRetry = 0 /\ todo = {} /\ waiting = 0
  BY <1>1 DEF ClientInit
<1>6. ClientTypeOK
  BY <1>2, <1>3, <1>4, <1>5 DEF ClientTypeOK
<1> QED
  BY <1>5, <1>6 DEF ClientInv, NoneInMenu, NothingUnread, StartIsKnown

\* A new entity is of a configured transport, or there is none.
LEMMA SpawnsOne ==
  ASSUME NEW t \in Transports, SpawnClient(t)
  PROVE  /\ waiting' = 0 /\ session' = "none"
         /\ io' \in {t, "none"} /\ conn' \in {"connecting", "none"}
         /\ io' = t <=> conn' = "connecting"
BY DEF SpawnClient, Transports

\* The play button starts an attempt, and with it the time.
LEMMA PlayKeeps == ClientInv /\ PlayButton => ClientInv'
<1> SUFFICES ASSUME ClientInv, PlayButton PROVE ClientInv'
  OBVIOUS
<1> USE Constants DEF PlayButton, ClientInv, ClientTypeOK, NoneInMenu, NothingUnread,
        StartIsKnown, environment, transport, link, page
<1>1. CASE UNCHANGED <<transport, link, waiting>>
  BY <1>1
<1>2. CASE StartConnection
  <2>1. {"UDP", "WebTransport", "WebSocket"} \subseteq Transports
    BY DEF Transports
  <2>2. CASE SpawnClient("UDP") /\ UNCHANGED transport
    BY <2>1, <2>2, SpawnsOne
  <2>3. CASE SpawnClient("WebSocket") /\ UNCHANGED transport
    BY <2>1, <2>3, SpawnsOne
  <2>4. CASE SpawnClient("WebTransport") /\ wtAge' = 0 /\ UNCHANGED <<mode, reason>>
    BY <2>1, <2>4, SpawnsOne
  <2>5. CASE SpawnClient("WebSocket") /\ mode' = "WebSocket" /\ UNCHANGED <<wtAge, reason>>
    BY <2>1, <2>5, SpawnsOne
  <2> QED
    BY <1>2, <2>2, <2>3, <2>4, <2>5 DEF StartConnection, SpawnWsClient
<1> QED
  BY <1>1, <1>2

\* What the network does: an answer finds nothing unread.
LEMMA NetworkKeeps == ClientInv /\ Network => ClientInv'
<1> SUFFICES ASSUME ClientInv, Network PROVE ClientInv'
  OBVIOUS
<1> USE Constants DEF ClientInv, ClientTypeOK, NoneInMenu, NothingUnread,
        StartIsKnown, environment, transport, ui, link, page, timing
<1>1. CASE Establish
  BY <1>1 DEF Establish
<1>2. CASE Lose
  <2>1. inbox' = inbox \/ inbox' = <<>>
    BY <1>2 DEF Lose
  <2>2. inbox' \in Seq(Reasons \cup {"welcome"}) /\ Len(inbox') <= 1
    BY <2>1, EmptyInbox, Zenon
  <2> QED
    BY <1>2, <2>2 DEF Lose
<1>3. CASE ServerAnswers
  <2>1. inbox = <<>>
    BY <1>3 DEF ServerAnswers
  <2>2. PICK word \in Reasons \cup {"welcome"} : inbox' = Append(inbox, word)
    BY <1>3 DEF ServerAnswers
  <2>3. inbox' = <<word>> /\ Len(inbox') = 1
    BY <2>1, <2>2
  <2> QED
    BY <1>3, <2>2, <2>3 DEF ServerAnswers
<1> QED
  BY <1>1, <1>2, <1>3 DEF Network

\* What the systems of a frame do.
LEMMA FramesKeep == ClientInv /\ FrameSystems => ClientInv'
<1> SUFFICES ASSUME ClientInv, FrameSystems PROVE ClientInv'
  OBVIOUS
<1> USE Constants DEF ClientInv, ClientTypeOK, NoneInMenu, NothingUnread,
        StartIsKnown, environment, transport, ui, link, page, timing
<1>1. CASE SendIdentityHello
  BY <1>1 DEF SendIdentityHello
<1>2. CASE HandleWelcome
  BY <1>2 DEF HandleWelcome
<1>3. CASE HandleConnectionRejected
  BY <1>3 DEF HandleConnectionRejected
<1>4. CASE SyncRejectionModal
  BY <1>4 DEF SyncRejectionModal
<1>5. CASE HandlePageVisibility
  BY <1>5 DEF HandlePageVisibility
<1> QED
  BY <1>1, <1>2, <1>3, <1>4, <1>5 DEF FrameSystems

\* What time does: both ages grow together, and the fallback starts anew.
LEMMA TimeKeeps ==
  ClientInv /\ (Tick \/ RetryConnect \/ HandleTransportFallback) => ClientInv'
<1> SUFFICES ASSUME ClientInv, Tick \/ RetryConnect \/ HandleTransportFallback
             PROVE  ClientInv'
  OBVIOUS
<1> USE Constants DEF ClientInv, ClientTypeOK, NoneInMenu, NothingUnread,
        StartIsKnown, environment, transport, ui, link, page, timing
<1>1. CASE Tick
  BY <1>1 DEF Tick
<1>2. CASE RetryConnect
  <2>1. (sinceRetry + 1) % Backoff \in 0..(Backoff - 1)
    OBVIOUS
  <2> QED
    BY <1>2, <2>1 DEF RetryConnect
<1>3. CASE HandleTransportFallback
  <2>1. CASE UNCHANGED <<transport, link, waiting>>
    BY <1>3, <2>1 DEF HandleTransportFallback
  <2>2. CASE wtAge' = Unset /\ UNCHANGED <<mode, reason, link, waiting>>
    BY <1>3, <2>2 DEF HandleTransportFallback
  <2>3. CASE /\ io = "WebTransport"
             /\ mode' = "WebSocket" /\ wtAge' = Unset /\ SpawnWsClient /\ UNCHANGED reason
    <3>1. "WebSocket" \in Transports
      BY DEF Transports
    <3>2. /\ waiting' = 0 /\ session' = "none"
          /\ io' \in {"WebSocket", "none"} /\ conn' \in {"connecting", "none"}
      BY <2>3, <3>1, SpawnsOne DEF SpawnWsClient
    <3>3. ClientTypeOK'
      BY <1>3, <2>3, <3>1, <3>2 DEF HandleTransportFallback
    <3>4. NoneInMenu' /\ NothingUnread' /\ StartIsKnown'
      BY <1>3, <2>3, <3>2 DEF HandleTransportFallback
    <3> QED
      BY <3>3, <3>4
  <2>4. CASE /\ wtAge' = IF wtAge = Unset THEN 0 ELSE wtAge
             /\ UNCHANGED <<mode, link, waiting, reason>>
    BY <1>3, <2>4 DEF HandleTransportFallback
  <2> QED
    BY <1>3, <2>1, <2>2, <2>3, <2>4 DEF HandleTransportFallback
<1> QED
  BY <1>1, <1>2, <1>3

\* Every step keeps the invariant.
LEMMA ClientStepKeeps == ClientInv /\ [ClientNext]_clientVars => ClientInv'
<1> SUFFICES ASSUME ClientInv, [ClientNext]_clientVars PROVE ClientInv'
  OBVIOUS
<1> USE Constants DEF ClientInv, ClientTypeOK, NoneInMenu, NothingUnread,
        StartIsKnown, environment, transport, ui, link, page, timing
<1>1. CASE UNCHANGED clientVars
  BY <1>1 DEF clientVars
<1>2. CASE DismissRejectionModal
  <2>1. stage' \in BOOLEAN /\ identityToken' \in BOOLEAN
    BY <1>2 DEF DismissRejectionModal
  <2>2. inbox' \in Seq(Reasons \cup {"welcome"}) /\ Len(inbox') <= 1
    BY <1>2, EmptyInbox, Zenon DEF DismissRejectionModal
  <2>3. /\ modal' \in BOOLEAN /\ reason' = Unset /\ flow' = "Menu"
        /\ io' = "none" /\ conn' = "none" /\ session' = "none"
    BY <1>2 DEF DismissRejectionModal
  <2>4. UNCHANGED <<environment, mode, wtAge, localId, page, timing>>
    BY <1>2 DEF DismissRejectionModal
  <2> QED
    BY <2>1, <2>2, <2>3, <2>4
<1>3. CASE ReconnectButton
  BY <1>3 DEF ReconnectButton
<1>4. ASSUME NEW event \in {"hidden", "visible"}, VisibilityChange(event) PROVE ClientInv'
  BY <1>4 DEF VisibilityChange
<1> QED
  BY <1>1, <1>2, <1>3, <1>4, PlayKeeps, NetworkKeeps, FramesKeep, TimeKeeps
     DEF ClientNext, Buttons

\* The types of the client's connection.
THEOREM ClientTypes == ClientSpec => []ClientTypeOK
<1>1. ClientInv => ClientTypeOK
  BY DEF ClientInv
<1> QED
  BY <1>1, ClientStarts, ClientStepKeeps, PTL DEF ClientSpec

\* Only a fallback that is due leaves WebTransport.
LEMMA WaitsWithoutFairness ==
  ClientInit /\ [][ClientNext]_clientVars => FallbackNeedsTimeout
<1> DEFINE Waited == mode = "WebTransport" /\ mode' = "WebSocket" /\ io # "none"
                       => conn # "connected" /\ waiting > WtTimeout /\ reason = Unset
<1>1. ClientInv /\ [ClientNext]_clientVars => [Waited]_clientVars
  <2> SUFFICES ASSUME ClientInv, ClientNext, mode # mode' PROVE Waited
    BY DEF clientVars, transport
  <2> USE Constants DEF ClientInv, ClientTypeOK, NoneInMenu, StartIsKnown, transport
  <2>1. CASE PlayButton
    BY <2>1 DEF PlayButton
  <2>2. CASE HandleTransportFallback
    <3>1. WtTimedOut /\ reason = Unset /\ io = "WebTransport" /\ conn # "connected"
      BY <2>2 DEF HandleTransportFallback
    <3> QED
      BY <3>1 DEF WtTimedOut
  <2>3. CASE ~ PlayButton /\ ~ HandleTransportFallback
    BY <2>3 DEF ClientNext, Network, FrameSystems, Buttons, Establish, Lose, ServerAnswers,
       SendIdentityHello, HandleWelcome, HandleConnectionRejected, SyncRejectionModal,
       HandlePageVisibility, DismissRejectionModal, ReconnectButton, VisibilityChange, Tick,
       RetryConnect
  <2> QED
    BY <2>1, <2>2, <2>3
<1> QED
  BY <1>1, ClientStarts, ClientStepKeeps, PTL DEF FallbackNeedsTimeout

\* A WebTransport connection is given up for WebSocket only when this attempt has been waited for
\* as long as the timeout says, and no rejection is there (handle_transport_fallback).
THEOREM FallbackWaits == ClientSpec => FallbackNeedsTimeout
BY WaitsWithoutFairness, PTL DEF ClientSpec

-----------------------------------------------------------------------------
(* Loading: the queue and what is there in the menu. *)

\* Before the queue is made there is nothing to load.
NothingYet ==
  entered < 2 =>
    /\ appFlow = "Loading" /\ ~ failing
    /\ queue = <<>> /\ active = <<>> /\ completed = <<>>

LoadingInv == LoadingTypeOK /\ NothingYet /\ NoSecondWave /\ NothingForgotten

\* A path that is there.
Loaded(p) == p \in DOMAIN asset /\ asset[p] = "loaded"

\* An empty sequence of paths.
LEMMA NoPaths == \A s : s = <<>> => s \in Seq(STRING) /\ Len(s) <= 1 /\ Elements(s) = {}
BY DEF Elements

\* The configuration's paths: each of them is text, and the typed resources are made of them.
LEMMA ConfigHasAll ==
  ASSUME world \in WorldFiles
  PROVE  /\ FromConfig(world) \in Seq(STRING)
         /\ Elements(ArenaModels) \cup Elements(FoxPaths)
              \cup UNION {PathsOfKind(k) : k \in Kinds} \subseteq Elements(FromConfig(world))
         /\ Elements(FoxPaths) # {}
<1> DEFINE c == world.creatures
           paths == Paths(c)
           rig == <<FoxPaths[1]>>
           start == ArenaModels \o rig
           models == start \o world.resources
           all == models \o paths
<1>1. /\ ArenaModels \in Seq(STRING) /\ FoxPaths \in Seq(STRING) /\ FoxPaths # <<>>
      /\ world.resources \in Seq(STRING)
      /\ c \in Seq([kind : Kinds, path : STRING])
  BY LoadingAssumption
<1>2. paths \in Seq(STRING) /\ Elements(paths) = {c[i].path : i \in DOMAIN c}
  <2>1. DOMAIN c = 1..Len(c) /\ Len(c) \in Nat
    BY <1>1
  <2>2. ASSUME NEW i \in 1..Len(c)
        PROVE  c[i].path \in STRING
    <3>1. c[i] \in [kind : Kinds, path : STRING]
      BY <1>1, ElementOfSeq
    <3> QED
      BY <3>1
  <2>3. paths \in [1..Len(c) -> STRING] /\ \A i \in DOMAIN c : paths[i] = c[i].path
    BY <2>1, <2>2 DEF Paths
  <2>4. paths \in Seq(STRING) /\ DOMAIN paths = DOMAIN c
    BY <2>1, <2>3, IsASeq
  <2> QED
    BY <2>3, <2>4 DEF Elements
<1>3. /\ rig \in Seq(STRING) /\ Tail(FoxPaths) \in Seq(STRING)
      /\ Elements(FoxPaths) = Elements(rig) \cup Elements(Tail(FoxPaths))
      /\ Elements(FoxPaths) # {}
  <2>1. /\ Head(FoxPaths) = FoxPaths[1] /\ <<Head(FoxPaths)>> \in Seq(STRING)
        /\ Tail(FoxPaths) \in Seq(STRING) /\ 1 \in DOMAIN FoxPaths
        /\ <<Head(FoxPaths)>> \o Tail(FoxPaths) = FoxPaths
    BY <1>1, HeadAndTail
  <2>2. rig \o Tail(FoxPaths) = FoxPaths /\ rig \in Seq(STRING)
    BY <2>1
  <2>3. FoxPaths[1] \in Elements(FoxPaths)
    BY <2>1 DEF Elements
  <2> HIDE DEF rig
  <2>4. Elements(rig \o Tail(FoxPaths)) = Elements(rig) \cup Elements(Tail(FoxPaths))
    <3>1. Tail(FoxPaths) \in Seq(STRING)
      BY <2>1
    <3> QED
      BY <2>2, <3>1, ElementsOfTwo, Zenon
  <2> QED
    BY <2>1, <2>2, <2>3, <2>4
<1> HIDE DEF rig, paths
<1>4. start \in Seq(STRING) /\ Elements(start) = Elements(ArenaModels) \cup Elements(rig)
  BY <1>1, <1>3, ElementsOfTwo
<1> HIDE DEF start
<1>5. models \in Seq(STRING) /\ Elements(models) = Elements(start) \cup Elements(world.resources)
  BY <1>1, <1>4, ElementsOfTwo
<1> HIDE DEF models
<1>6. all \in Seq(STRING) /\ Elements(all) = Elements(models) \cup Elements(paths)
  BY <1>2, <1>5, ElementsOfTwo
<1> HIDE DEF all
<1> DEFINE rest == Tail(FoxPaths)
<1>7. FromConfig(world) = all \o rest /\ rest \in Seq(STRING) /\ rest = Tail(FoxPaths)
  BY <1>3 DEF FromConfig, all, models, start, rig, paths
<1> HIDE DEF rest
<1>8. /\ FromConfig(world) \in Seq(STRING)
      /\ Elements(FromConfig(world)) = Elements(all) \cup Elements(Tail(FoxPaths))
  <2>1. /\ all \o rest \in Seq(STRING)
        /\ Elements(all \o rest) = Elements(all) \cup Elements(rest)
    <3>1. all \in Seq(STRING) /\ rest \in Seq(STRING)
      BY <1>6, <1>7
    <3> QED
      BY <3>1, ElementsOfTwo, Zenon
  <2> QED
    BY <1>7, <2>1
<1>9. ASSUME NEW k \in Kinds
      PROVE  PathsOfKind(k) \subseteq Elements(paths)
  BY <1>2 DEF PathsOfKind
<1> HIDE DEF c
<1> QED
  BY <1>3, <1>4, <1>5, <1>6, <1>8, <1>9

\* A request loads what is not there, and leaves what is there.
LEMMA RequestKeeps ==
  ASSUME LoadingTypeOK, NEW paths, asset' = Requested(paths)
  PROVE  /\ DOMAIN asset' = DOMAIN asset \cup paths
         /\ \A p \in DOMAIN asset' : asset'[p] \in {"loading", "loaded", "failed"}
         /\ \A p : Loaded(p) => p \in DOMAIN asset' /\ asset'[p] = "loaded"
BY DEF Requested, LoadingTypeOK, Loaded

\* The active load is there: it is done, and nothing else changes place.
LEMMA DoneIsThere ==
  ASSUME LoadingInv, HasLoader, ~ failing, ActiveLoaded
  PROVE  /\ completed' = completed \o active /\ completed' \in Seq(STRING)
         /\ completed' \o queue = FromConfig(world)
         /\ \A p \in Elements(completed') : Loaded(p)
<1>1. /\ completed \in Seq(STRING) /\ active \in Seq(STRING) /\ queue \in Seq(STRING)
      /\ completed \o active \o queue = FromConfig(world)
      /\ \A p \in Elements(completed) : Loaded(p)
      /\ Elements(active) \subseteq DOMAIN asset
  BY DEF LoadingInv, LoadingTypeOK, NothingForgotten, Loaded
<1>2. completed' = completed \o active /\ \A p \in Elements(active) : asset[p] = "loaded"
  BY DEF ActiveLoaded
<1>3. /\ completed' \in Seq(STRING)
      /\ Elements(completed') = Elements(completed) \cup Elements(active)
  BY <1>1, <1>2, ElementsOfTwo
<1>4. \A p \in Elements(completed') : Loaded(p)
  BY <1>1, <1>2, <1>3 DEF Loaded
<1> QED
  BY <1>1, <1>2, <1>3, <1>4

\* The next load is taken from the queue, and asked for.
LEMMA StartNextStep ==
  ASSUME LoadingInv, HasLoader, ~ failing, ActiveLoaded, TryStartNext,
         UNCHANGED <<world, entered, text>>
  PROVE  LoadingInv'
<1>1. /\ completed' \in Seq(STRING) /\ completed' \o queue = FromConfig(world)
      /\ \A p \in Elements(completed') : Loaded(p)
  BY DoneIsThere
<1>2. queue \in Seq(STRING) /\ queue # <<>> /\ entered = 2 /\ LoadingTypeOK
  BY DEF LoadingInv, LoadingTypeOK, TryStartNext, HasLoader
<1>3. /\ active' = <<Head(queue)>> /\ queue' = Tail(queue)
      /\ active' \in Seq(STRING) /\ queue' \in Seq(STRING) /\ active' \o queue' = queue
      /\ Elements(active') = {Head(queue)} /\ Len(active') <= 1
  <2>1. active' = <<Head(queue)>> /\ queue' = Tail(queue)
    BY DEF TryStartNext
  <2>2. <<Head(queue)>> \in Seq(STRING) /\ Tail(queue) \in Seq(STRING)
        /\ <<Head(queue)>> \o Tail(queue) = queue
    BY <1>2, HeadAndTail
  <2>3. Elements(<<Head(queue)>>) = {Head(queue)} /\ Len(<<Head(queue)>>) = 1
    BY DEF Elements
  <2> QED
    BY <2>1, <2>2, <2>3
<1>4. completed' \o active' \o queue' = FromConfig(world)
  <2>1. (completed' \o active') \o queue' = completed' \o (active' \o queue')
    BY <1>1, <1>3, ConcatAssociative
  <2> QED
    BY <1>1, <1>3, <2>1
<1>5. asset' = Requested({Head(queue)}) /\ UNCHANGED <<world, entered, text>>
  BY DEF TryStartNext
<1>6. /\ DOMAIN asset' = DOMAIN asset \cup {Head(queue)}
      /\ \A p \in DOMAIN asset' : asset'[p] \in {"loading", "loaded", "failed"}
      /\ \A p : Loaded(p) => p \in DOMAIN asset' /\ asset'[p] = "loaded"
  BY <1>2, <1>5, RequestKeeps
<1>7. LoadingTypeOK'
  BY <1>1, <1>2, <1>3, <1>5, <1>6 DEF LoadingTypeOK, TryStartNext
<1>8. NothingForgotten'
  BY <1>1, <1>3, <1>4, <1>5, <1>6
  DEF NothingForgotten, TryStartNext, FromConfig, Paths, LoadingInv, HasLoader
<1>9. NoSecondWave' /\ NothingYet'
  BY <1>2, <1>5 DEF NoSecondWave, NothingYet, TryStartNext, HasLoader
<1> QED
  BY <1>7, <1>8, <1>9 DEF LoadingInv

\* The last load is done: what the typed resources are made of is there.
LEMMA FinalizeStep ==
  ASSUME LoadingInv, HasLoader, ~ failing, ActiveLoaded, Finalize,
         UNCHANGED <<world, entered, text>>
  PROVE  LoadingInv'
<1>1. /\ completed' \in Seq(STRING) /\ completed' \o queue = FromConfig(world)
      /\ \A p \in Elements(completed') : Loaded(p)
  BY DoneIsThere
<1>2. LoadingTypeOK /\ entered = 2 /\ world \in WorldFiles /\ queue = <<>> /\ active' = <<>>
      /\ queue' = queue /\ total' = total /\ UNCHANGED <<world, entered, text>>
  BY DEF LoadingInv, LoadingTypeOK, HasLoader, Finalize
<1>3. completed' = FromConfig(world)
  BY <1>1, <1>2, ConcatEmptySeq
<1>4. active' \in Seq(STRING) /\ Len(active') <= 1 /\ queue' \in Seq(STRING)
  BY <1>2, NoPaths
<1>5. NothingYet'
  BY <1>2 DEF NothingYet
<1>6. CASE \E k \in Kinds : PathsOfKind(k) = {}
  <2>1. failing' = TRUE /\ loadError' = "creature not found" /\ UNCHANGED <<appFlow, asset, typed>>
    BY <1>6 DEF Finalize
  <2>2. LoadingTypeOK'
    BY <1>1, <1>2, <1>4, <2>1 DEF LoadingTypeOK
  <2> QED
    BY <1>2, <1>5, <2>1, <2>2 DEF LoadingInv, NoSecondWave, NothingForgotten, HasLoader
<1>7. CASE ~ \E k \in Kinds : PathsOfKind(k) = {}
  <2>1. /\ typed' = Elements(ArenaModels) \cup Elements(FoxPaths)
                      \cup UNION {PathsOfKind(k) : k \in Kinds}
        /\ asset' = Requested(typed') /\ appFlow' = "Menu" /\ UNCHANGED <<failing, loadError>>
    BY <1>7 DEF Finalize
  <2>2. typed' \subseteq Elements(completed') /\ typed' # {}
    BY <1>2, <1>3, <2>1, ConfigHasAll
  <2>3. /\ DOMAIN asset' = DOMAIN asset \cup typed'
        /\ \A p \in DOMAIN asset' : asset'[p] \in {"loading", "loaded", "failed"}
        /\ \A p : Loaded(p) => p \in DOMAIN asset' /\ asset'[p] = "loaded"
    <3>1. PICK paths : paths = typed'
      OBVIOUS
    <3>2. asset' = Requested(paths)
      BY <2>1, <3>1
    <3> QED
      BY <1>2, <3>1, <3>2, RequestKeeps
  <2>4. LoadingTypeOK'
    BY <1>1, <1>2, <1>4, <2>1, <2>3 DEF LoadingTypeOK
  <2>5. NoSecondWave'
    BY <1>1, <2>2, <2>3 DEF NoSecondWave
  <2>6. NothingForgotten'
    BY <2>1 DEF NothingForgotten, HasLoader
  <2> QED
    BY <1>5, <2>4, <2>5, <2>6 DEF LoadingInv
<1> QED
  BY <1>6, <1>7

\* Every step of the loading screen.
LEMMA LoadingStep == LoadingInv /\ [LoadingNext]_loadingVars => LoadingInv'
<1> SUFFICES ASSUME LoadingInv, [LoadingNext]_loadingVars PROVE LoadingInv'
  OBVIOUS
<1>0. LoadingTypeOK
  BY DEF LoadingInv
<1>1. CASE LoadWorldConfig
  <2>e. Enters(0) /\ UNCHANGED <<world, appFlow, loader, asset, typed, text>>
    BY <1>1 DEF LoadWorldConfig
  <2>n. entered = 0 /\ entered' = 1 /\ appFlow = "Loading"
    BY <2>e DEF Enters
  <2>1. /\ entered = 0 /\ entered' \in 0..2 /\ entered' # 2 /\ entered # 2 /\ entered < 2
        /\ appFlow = "Loading"
        /\ UNCHANGED <<world, appFlow, queue, active, completed, total, failing, asset, typed,
                       text>>
    BY <2>e, <2>n DEF loader
  <2>2. loadError' \in {"none", "does not parse", "not parsed before the queue",
                       "creature not found"}
    BY <1>0, <1>1 DEF LoadWorldConfig, LoadingTypeOK
  <2>3. LoadingTypeOK'
    BY <1>0, <2>1, <2>2 DEF LoadingTypeOK
  <2>4. NothingYet'
    BY <2>1 DEF NothingYet, LoadingInv
  <2> QED
    BY <2>1, <2>3, <2>4 DEF LoadingInv, NoSecondWave, NothingForgotten, HasLoader
<1>2. CASE CreateLoadingQueue
  <2>1. /\ appFlow = "Loading" /\ entered = 1 /\ entered' = 2 /\ ~ failing
        /\ queue = <<>> /\ active = <<>> /\ completed = <<>>
        /\ UNCHANGED <<world, appFlow, asset, typed, text>>
    <3>1. Enters(1) /\ UNCHANGED <<world, appFlow, asset, typed, text>>
      BY <1>2 DEF CreateLoadingQueue
    <3>2. appFlow = "Loading" /\ entered = 1 /\ entered' = 2 /\ entered < 2
      BY <3>1 DEF Enters
    <3>3. ~ failing /\ queue = <<>> /\ active = <<>> /\ completed = <<>>
      BY <3>2 DEF LoadingInv, NothingYet
    <3> QED
      BY <3>1, <3>2, <3>3
  <2>r. entered' \in 0..2 /\ ~ (entered' < 2) /\ entered # 2
    BY <2>1
  <2>2. CASE world = Invalid
    <3>1. /\ loadError' = "not parsed before the queue"
          /\ UNCHANGED <<queue, active, completed, total, failing>>
      BY <1>2, <2>2 DEF CreateLoadingQueue, loader
    <3>2. LoadingTypeOK'
      BY <1>0, <2>1, <2>r, <3>1 DEF LoadingTypeOK
    <3> QED
      BY <2>1, <2>r, <2>2, <3>1, <3>2
      DEF LoadingInv, NothingYet, NoSecondWave, NothingForgotten, HasLoader
  <2>3. CASE world # Invalid
    <3>1. queue' = FromConfig(world) /\ total' = Len(queue')
          /\ UNCHANGED <<active, completed, failing, loadError>>
      BY <1>2, <2>3 DEF CreateLoadingQueue
    <3>2. FromConfig(world) \in Seq(STRING) /\ total' \in Nat
      <4>1. FromConfig(world) \in Seq(STRING)
        BY <1>0, <2>3, ConfigHasAll DEF LoadingTypeOK
      <4> QED
        BY <3>1, <4>1
    <3>3. completed \o active \o queue' = FromConfig(world)
      <4>1. \A s \in Seq(STRING) : <<>> \o <<>> \o s = s
        BY ConcatEmptySeq
      <4> QED
        BY <2>1, <3>1, <3>2, <4>1
    <3>4. Elements(completed) = {} /\ Elements(active) = {}
      BY <2>1 DEF Elements
    <3>5. LoadingTypeOK'
      <4>1. queue' \in Seq(STRING) /\ active' \in Seq(STRING) /\ Len(active') <= 1
              /\ completed' \in Seq(STRING)
        BY <2>1, <3>1, <3>2, NoPaths
      <4> QED
        BY <1>0, <2>1, <2>r, <3>1, <3>2, <4>1 DEF LoadingTypeOK
    <3>6. FromConfig(world') = FromConfig(world)
      BY <2>1
    <3>7. NothingForgotten'
      BY <2>1, <3>1, <3>3, <3>4, <3>6 DEF NothingForgotten
    <3> QED
      BY <2>1, <2>r, <3>5, <3>7 DEF LoadingInv, NothingYet, NoSecondWave
  <2> QED
    BY <2>2, <2>3
<1>3. CASE PollAndFinalize
  <2>1. HasLoader /\ ~ failing /\ UNCHANGED <<world, entered, text>>
    BY <1>3 DEF PollAndFinalize
  <2>2. CASE ActiveLoaded /\ TryStartNext
    BY <2>1, <2>2, StartNextStep
  <2>3. CASE ActiveLoaded /\ Finalize
    BY <2>1, <2>3, FinalizeStep
  <2>4. CASE ActiveFails
    <3>1. failing' = TRUE /\ active' = <<>> /\ entered' = 2 /\ appFlow' = "Loading"
          /\ UNCHANGED <<appFlow, queue, completed, total, loadError, asset, typed>>
      BY <2>1, <2>4 DEF ActiveFails, HasLoader
    <3>2. active' \in Seq(STRING) /\ Len(active') <= 1
      BY <3>1
    <3>3. LoadingTypeOK'
      BY <1>0, <2>1, <3>1, <3>2 DEF LoadingTypeOK
    <3> QED
      BY <3>1, <3>3 DEF LoadingInv, NothingYet, NoSecondWave, NothingForgotten
  <2> QED
    BY <1>3, <2>2, <2>3, <2>4 DEF PollAndFinalize
<1>4. CASE UpdateLoadingProgress
  <2>1. text' \in {"preparing", "loading", "failed to load", "does not parse",
                   "not parsed before the queue", "creature not found"}
    BY <1>0, <1>4 DEF UpdateLoadingProgress, LoadingTypeOK
  <2> QED
    BY <1>0, <1>4, <2>1 DEF UpdateLoadingProgress, loader, LoadingInv, LoadingTypeOK, NothingYet,
      NoSecondWave, NothingForgotten, HasLoader
<1>5. CASE LoadEnds
  <2>1. PICK p \in DOMAIN asset, outcome \in {"loaded", "failed"} :
          asset[p] = "loading" /\ asset' = [asset EXCEPT ![p] = outcome]
    BY <1>5 DEF LoadEnds
  <2>2. DOMAIN asset' = DOMAIN asset
    BY <2>1
  <2>3. \A q \in DOMAIN asset : asset[q] = "loaded" => asset'[q] = "loaded"
    BY <2>1
  <2>4. \A q \in DOMAIN asset' : asset'[q] \in {"loading", "loaded", "failed"}
    BY <1>0, <2>1 DEF LoadingTypeOK
  <2> QED
    BY <1>0, <1>5, <2>2, <2>3, <2>4 DEF LoadEnds, loader, LoadingInv, LoadingTypeOK, NothingYet,
      NoSecondWave, NothingForgotten, HasLoader
<1>6. CASE UNCHANGED loadingVars
  BY <1>0, <1>6 DEF loadingVars, loader, LoadingInv, LoadingTypeOK, NothingYet,
    NoSecondWave, NothingForgotten, HasLoader
<1> QED
  BY <1>1, <1>2, <1>3, <1>4, <1>5, <1>6 DEF LoadingNext

\* Nothing is queued before the systems of the loading screen have run.
LEMMA LoadingStarts == LoadingInit => LoadingInv
<1> SUFFICES ASSUME LoadingInit PROVE LoadingInv
  OBVIOUS
<1>1. /\ queue \in Seq(STRING) /\ active \in Seq(STRING) /\ Len(active) <= 1
      /\ completed \in Seq(STRING)
  BY NoPaths DEF LoadingInit
<1>2. LoadingTypeOK
  <2>1. DOMAIN asset = {}
    BY DEF LoadingInit
  <2> QED
    <3>1. entered \in 0..2 /\ total \in Nat
      BY DEF LoadingInit
    <3>2. /\ world \in WorldFiles \cup {Invalid} /\ appFlow = "Loading" /\ failing = FALSE
          /\ loadError = "none" /\ text = "preparing"
      BY DEF LoadingInit
    <3> QED
      BY <1>1, <2>1, <3>1, <3>2 DEF LoadingTypeOK
<1> QED
  BY <1>2 DEF LoadingInit, LoadingInv, NothingYet, NoSecondWave, NothingForgotten, HasLoader

\* For every configuration, every order in which loads end and every failure: the loader takes
\* the paths of the configuration one after the other and drops none, so that the menu opens
\* with every asset of the typed resources loaded, "so no cold second wave occurs".
THEOREM NoSecondWaveOccurs ==
  LoadingSpec => [](LoadingTypeOK /\ NoSecondWave /\ NothingForgotten)
<1>1. LoadingInv => LoadingTypeOK /\ NoSecondWave /\ NothingForgotten
  BY DEF LoadingInv
<1> QED
  BY <1>1, LoadingStarts, LoadingStep, PTL DEF LoadingSpec

-----------------------------------------------------------------------------
(* Controls: what the client believes is pressed. *)

ControlsInv == ControlsTypeOK /\ NothingStaysPressed

\* The camera stays between its bounds.
LEMMA ClampInRange == \A r \in Int : Clamp(r) \in 0..MaxRadius
BY ControlsAssumption DEF Clamp

\* Nothing is pressed in the beginning, and the camera is half-way out.
LEMMA ControlsStart == ControlsInit => ControlsInv
<1> SUFFICES ASSUME ControlsInit PROVE ControlsInv
  OBVIOUS
<1>1. MaxRadius \div 2 \in 0..MaxRadius
  BY ControlsAssumption
<1>2. ControlsTypeOK
  BY <1>1 DEF ControlsInit, ControlsTypeOK, Touches
<1> QED
  BY <1>2 DEF ControlsInit, ControlsInv, NothingStaysPressed

\* What the player and the browser do: whatever is missed while the page is hidden is still
\* behind an event that a frame will read.
LEMMA PlayerStep ==
  ASSUME ControlsInv, Player
  PROVE  ControlsInv'
<1> USE DEF ControlsInv, ControlsTypeOK, NothingStaysPressed, camera, believed
<1>1. ASSUME NEW k \in Keys, KeyDown(k) \/ KeyUp(k)
      PROVE  ControlsInv'
  BY <1>1 DEF KeyDown, KeyUp
<1>2. ASSUME NEW a \in Areas, TouchDown(a)
      PROVE  ControlsInv'
  BY <1>2 DEF TouchDown, Areas, Touches, Drags
<1>3. ASSUME NEW d \in Drags, Drag(d)
      PROVE  ControlsInv'
  BY <1>3 DEF Drag, Touches
<1>4. CASE TouchUp
  BY <1>4 DEF TouchUp, Touches
<1>5. CASE PageTurns
  BY <1>5 DEF PageTurns
<1> QED
  BY <1>1, <1>2, <1>3, <1>4, <1>5 DEF Player

\* What the systems of a frame do: they believe less, never more.
LEMMA InputSystemsStep ==
  ASSUME ControlsInv, InputSystems
  PROVE  ControlsInv'
<1> USE DEF ControlsInv, ControlsTypeOK, NothingStaysPressed, camera, device
<1>1. CASE ResetInput
  BY <1>1 DEF ResetInput, Touches
<1>2. CASE DetectTouch
  BY <1>2 DEF DetectTouch
<1>3. CASE JumpButtonInput
  BY <1>3 DEF JumpButtonInput
<1>4. CASE GatherInput
  <2>1. PICK moving \in BOOLEAN, running \in BOOLEAN, jump \in BOOLEAN :
          sent' = [moving |-> moving, running |-> running, jump |-> jump]
    <3>1. ("move" \in pressed) \in BOOLEAN /\ ("run" \in pressed) \in BOOLEAN
            /\ (touch = "run") \in BOOLEAN /\ ("space" \in pressed \/ touchJump) \in BOOLEAN
      OBVIOUS
    <3>2. CASE "move" \notin pressed /\ touch \in {"walk", "run"}
      <4>1. sent' = [moving |-> TRUE, running |-> touch = "run",
                     jump |-> "space" \in pressed \/ touchJump]
        BY <1>4, <3>2 DEF GatherInput, SwipeDirection
      <4> QED
        BY <3>1, <4>1
    <3>3. CASE ~ ("move" \notin pressed /\ touch \in {"walk", "run"})
      <4>1. sent' = [moving |-> "move" \in pressed, running |-> "run" \in pressed,
                     jump |-> "space" \in pressed \/ touchJump]
        BY <1>4, <3>3 DEF GatherInput
      <4> QED
        BY <3>1, <4>1
    <3> QED
      BY <3>2, <3>3
  <2> QED
    BY <1>4, <2>1 DEF GatherInput, believed
<1>5. CASE ZoomCamera \/ TouchCamera
  <2>1. radius - 1 \in Int /\ radius + 1 \in Int /\ radius - (-1) \in Int
    BY ControlsAssumption
  <2>2. radius' \in 0..MaxRadius
    BY <1>5, <2>1, ClampInRange DEF ZoomCamera, TouchCamera
  <2>3. dragging' \in BOOLEAN
    BY <1>5 DEF ZoomCamera, TouchCamera
  <2> QED
    BY <1>5, <2>2, <2>3 DEF ZoomCamera, TouchCamera, believed
<1> QED
  BY <1>1, <1>2, <1>3, <1>4, <1>5 DEF InputSystems

\* Every step keeps it.
LEMMA ControlsStep == ControlsInv /\ [ControlsNext]_controls => ControlsInv'
<1>1. ASSUME ControlsInv, UNCHANGED controls
      PROVE  ControlsInv'
  BY <1>1
  DEF controls, device, believed, camera, ControlsInv, ControlsTypeOK, NothingStaysPressed
<1> QED
  BY <1>1, PlayerStep, InputSystemsStep DEF ControlsNext

\* handle_page_visibility: on a visible page whose events have been read nothing is believed
\* pressed that is not, whatever keys and touches went while the page was hidden, and even
\* if the listener overwrote an event that no frame had read.
THEOREM NothingStays ==
  ControlsInit /\ [][ControlsNext]_controls => [](ControlsTypeOK /\ NothingStaysPressed)
<1>1. ControlsInv => ControlsTypeOK /\ NothingStaysPressed
  BY DEF ControlsInv
<1> QED
  BY <1>1, ControlsStart, ControlsStep, PTL

-----------------------------------------------------------------------------
(* Fox: the clip on the screen. *)

\* The clip of one fox fits its speed and its wave.
Fits(f) ==
  /\ ~ f.visual => f.clip = "Idle" /\ f.wave = 0
  /\ f.clip = "Wave" => f.wave > 0
  /\ f.clip = "Idle" => f.speed <= 2
  /\ f.clip = "Run" => f.speed >= 4

FoxInv ==
  /\ FoxTypeOK
  /\ \A c \in Character : Fits(fox[c]) /\ (fox[c].local => c = Own)

\* The components of a fox, and one changed.
LEMMA FoxParts ==
  ASSUME NEW f \in FoxStates
  PROVE  /\ f.entity \in BOOLEAN /\ f.visual \in BOOLEAN /\ f.local \in BOOLEAN
         /\ f.clip \in Clips /\ f.speed \in Speed /\ f.wave \in 0..WaveTime
         /\ f.animator \in {"none", "spawned", "linked"}
         /\ [f EXCEPT !.entity = TRUE] \in FoxStates
         /\ [f EXCEPT !.local = TRUE] \in FoxStates
         /\ [f EXCEPT !.animator = "spawned"] \in FoxStates
         /\ [f EXCEPT !.animator = "linked"] \in FoxStates
         /\ [f EXCEPT !.wave = WaveTime] \in FoxStates
<1>1. WaveTime \in 0..WaveTime /\ TRUE \in BOOLEAN
  BY FoxAssumption
<1>2. [f EXCEPT !.wave = WaveTime] \in FoxStates
  BY <1>1 DEF FoxStates
<1>3. [f EXCEPT !.entity = TRUE] \in FoxStates /\ [f EXCEPT !.local = TRUE] \in FoxStates
  BY <1>1 DEF FoxStates
<1>4. /\ [f EXCEPT !.animator = "spawned"] \in FoxStates
      /\ [f EXCEPT !.animator = "linked"] \in FoxStates
  BY DEF FoxStates
<1>5. /\ f.entity \in BOOLEAN /\ f.visual \in BOOLEAN /\ f.local \in BOOLEAN
      /\ f.clip \in Clips /\ f.speed \in Speed /\ f.wave \in 0..WaveTime
      /\ f.animator \in {"none", "spawned", "linked"}
  BY DEF FoxStates
<1> QED
  BY <1>2, <1>3, <1>4, <1>5

\* The next clip fits the next speed, from every clip: the bands of the two thresholds are
\* wide enough that a fox stands when it is slow and runs when it is fast.
LEMMA ClipFollowsSpeed ==
  ASSUME NEW clip \in Clips, NEW speed \in Speed
  PROVE  /\ ClipBySpeed(clip, speed) \in {"Idle", "Walk", "Run"}
         /\ ClipBySpeed(clip, speed) = "Idle" => speed <= 2
         /\ ClipBySpeed(clip, speed) = "Run" => speed >= 4
<1> USE DEF Speed
<1>1. CASE clip = "Wave"
  <2>1. ClipBySpeed(clip, speed)
          = IF speed > 4 THEN "Run" ELSE IF speed > 1 THEN "Walk" ELSE "Idle"
    BY <1>1 DEF ClipBySpeed
  <2> QED
    BY <2>1
<1>2. CASE clip = "Idle"
  <2>1. ClipBySpeed(clip, speed) = IF speed > 2 THEN "Walk" ELSE "Idle"
    BY <1>2 DEF ClipBySpeed
  <2> QED
    BY <2>1
<1>3. CASE clip = "Walk"
  <2>1. ClipBySpeed(clip, speed)
          = IF speed < 1 THEN "Idle" ELSE IF speed > 5 THEN "Run" ELSE "Walk"
    BY <1>3 DEF ClipBySpeed
  <2> QED
    BY <2>1
<1>4. CASE clip = "Run"
  <2>1. ClipBySpeed(clip, speed) = IF speed < 4 THEN "Walk" ELSE "Run"
    BY <1>4 DEF ClipBySpeed
  <2> QED
    BY <2>1
<1> QED
  BY <1>1, <1>2, <1>3, <1>4 DEF Clips

\* A frame of a fox that is drawn.
LEMMA AnimatedFits ==
  ASSUME NEW f \in FoxStates, f.visual, NEW speed \in Speed
  PROVE  /\ Animated(f, speed) \in FoxStates /\ Fits(Animated(f, speed))
         /\ Animated(f, speed).local = f.local /\ Animated(f, speed).visual
<1> DEFINE wave == IF f.wave > 0 THEN f.wave - 1 ELSE 0
           clip == IF wave > 0 THEN "Wave" ELSE ClipBySpeed(f.clip, speed)
<1>1. f.wave \in 0..WaveTime /\ f.clip \in Clips /\ WaveTime \in Nat
  BY FoxParts, FoxAssumption
<1>2. wave \in 0..WaveTime
  BY <1>1
<1>3. ClipBySpeed(f.clip, speed) \in {"Idle", "Walk", "Run"}
  BY <1>1, ClipFollowsSpeed
<1>4. /\ clip \in Clips
      /\ clip = "Wave" => wave > 0
      /\ clip = "Idle" => speed <= 2
      /\ clip = "Run" => speed >= 4
  <2>1. CASE wave > 0
    BY <2>1 DEF Clips
  <2>2. CASE ~ (wave > 0)
    <3>1. clip = ClipBySpeed(f.clip, speed)
      BY <2>2
    <3> HIDE DEF clip, wave
    <3> QED
      BY <1>1, <1>3, <3>1, ClipFollowsSpeed DEF Clips
  <2> QED
    BY <2>1, <2>2
<1>5. Animated(f, speed) = [f EXCEPT !.speed = speed, !.wave = wave, !.clip = clip]
  BY DEF Animated
<1> HIDE DEF wave, clip
<1> QED
  BY <1>2, <1>4, <1>5 DEF FoxStates, Fits

\* The speed goes towards what the frame asks for, and stays one of the speeds.
LEMMA FrameFits ==
  ASSUME FoxInv, NEW c \in Character, fox[c].visual, NEW speed \in Speed,
         fox' = [fox EXCEPT ![c] = Animated(@, speed)]
  PROVE  /\ fox' \in [Character -> FoxStates]
         /\ \A d \in Character : Fits(fox'[d]) /\ (fox'[d].local => d = Own)
<1>1. fox \in [Character -> FoxStates] /\ fox[c] \in FoxStates
  BY DEF FoxInv, FoxTypeOK
<1>2. PICK g : g = Animated(fox[c], speed)
  OBVIOUS
<1>3. g \in FoxStates /\ Fits(g) /\ g.local = fox[c].local
  BY <1>1, <1>2, AnimatedFits
<1>4. fox' = [fox EXCEPT ![c] = g]
  BY <1>2
<1> QED
  BY <1>1, <1>3, <1>4 DEF FoxInv

\* The local character: however far the server's position is, the distance stays a number the
\* snap bounds.
LEMMA PredictStep ==
  ASSUME FoxInv, PredictLocalMovement, fox[Own].visual
  PROVE  /\ drift' \in 0..(SnapDistance + 1)
         /\ fox' \in [Character -> FoxStates]
         /\ \A d \in Character : Fits(fox'[d]) /\ (fox'[d].local => d = Own)
<1>1. drift \in 0..(SnapDistance + 1) /\ SnapDistance \in Nat /\ Own \in Character
  BY FoxAssumption DEF FoxInv, FoxTypeOK
<1> DEFINE apart == Abs((IF input # "still" THEN 1 ELSE 0) - (IF Own \in going THEN 1 ELSE 0))
<1>2. apart \in 0..1
  BY DEF Abs
<1>3. drift' \in IF drift > SnapDistance THEN {apart}
                 ELSE IF apart = 0 THEN {IF drift > 0 THEN drift - 1 ELSE 0}
                 ELSE {drift, drift + 1}
  BY DEF PredictLocalMovement
<1>4. \E speed \in Speed : fox' = [fox EXCEPT ![Own] = Animated(@, speed)]
  BY DEF PredictLocalMovement
<1> HIDE DEF apart
<1>5. drift' \in 0..(SnapDistance + 1)
  BY <1>1, <1>2, <1>3
<1> QED
  BY <1>1, <1>4, <1>5, FrameFits

\* Nobody is drawn at first.
LEMMA FoxStarts == FoxInit => FoxInv
<1> SUFFICES ASSUME FoxInit PROVE FoxInv
  OBVIOUS
<1>1. NoFox \in FoxStates /\ Fits(NoFox) /\ ~ NoFox.local
  BY FoxAssumption DEF NoFox, FoxStates, Clips, Speed, Fits
<1>2. fox = [c \in Character |-> NoFox]
  BY DEF FoxInit
<1>3. \A s : s = <<>> => s \in Seq(Character) /\ Len(s) <= 1
  OBVIOUS
<1>4. drift \in 0..(SnapDistance + 1) /\ emotes \in 0..MaxEmotes
  BY FoxAssumption DEF FoxInit
<1>5. FoxTypeOK
  <2>1. fox \in [Character -> FoxStates]
    BY <1>1, <1>2
  <2> QED
    BY <2>1, <1>3, <1>4 DEF FoxInit, FoxTypeOK
<1> QED
  BY <1>1, <1>2, <1>5 DEF FoxInv

\* What one fox becomes, when the others stay as they are.
LEMMA OneFoxChanges ==
  ASSUME FoxInv, NEW c \in Character, NEW g \in FoxStates, Fits(g), g.local => c = Own,
         fox' = [fox EXCEPT ![c] = g]
  PROVE  /\ fox' \in [Character -> FoxStates]
         /\ \A d \in Character : Fits(fox'[d]) /\ (fox'[d].local => d = Own)
BY DEF FoxInv, FoxTypeOK

\* The systems of a frame.
LEMMA FoxSystemsStep ==
  ASSUME FoxInv, FoxSystems
  PROVE  FoxInv'
<1>0. /\ FoxTypeOK /\ fox \in [Character -> FoxStates] /\ Own \in Character
      /\ \A c \in Character : /\ fox[c] \in FoxStates /\ Fits(fox[c])
                              /\ fox[c].local => c = Own
  BY FoxAssumption DEF FoxInv, FoxTypeOK
<1>1. ASSUME NEW c \in Character, AttachPlayerVisuals(c)
      PROVE  FoxInv'
  <2>1. PICK mark \in BOOLEAN : mark = (fox[c].local \/ (welcomed /\ c = Own))
    OBVIOUS
  <2>2. PICK g : g = [fox[c] EXCEPT !.visual = TRUE, !.clip = "Idle", !.speed = 0,
                                    !.local = mark]
    OBVIOUS
  <2>3. fox' = [fox EXCEPT ![c] = g]
    <3>1. fox' = [fox EXCEPT ![c] = [fox[c] EXCEPT !.visual = TRUE, !.clip = "Idle", !.speed = 0,
                                       !.local = fox[c].local \/ (welcomed /\ c = Own)]]
      BY <1>1, Zenon DEF AttachPlayerVisuals
    <3> QED
      BY <2>1, <2>2, <3>1
  <2>4. mark => c = Own
    BY <1>0, <2>1
  <2>5. ~ fox[c].visual
    BY <1>1 DEF AttachPlayerVisuals
  <2>6. fox[c].wave = 0
    BY <1>0, <2>5 DEF Fits
  <2>7. g \in FoxStates
    <3>1. "Idle" \in Clips /\ 0 \in Speed /\ TRUE \in BOOLEAN
      BY DEF Clips, Speed
    <3> QED
      BY <1>0, <2>2, <3>1 DEF FoxStates
  <2>8. g.visual /\ g.clip = "Idle" /\ g.speed = 0 /\ g.local = mark
    BY <1>0, <2>2 DEF FoxStates
  <2>9. Fits(g)
    BY <2>8 DEF Fits
  <2> QED
    BY <1>0, <1>1, <2>3, <2>4, <2>7, <2>8, <2>9, OneFoxChanges
    DEF AttachPlayerVisuals, FoxInv, FoxTypeOK
<1>2. ASSUME NEW c \in Character, SetupFoxAnimators(c)
      PROVE  FoxInv'
  <2>1. PICK g : g = [fox[c] EXCEPT !.animator = "linked"]
    OBVIOUS
  <2>2. fox' = [fox EXCEPT ![c] = g]
    BY <1>2, <2>1 DEF SetupFoxAnimators
  <2>3. g \in FoxStates
    BY <1>0, <2>1, FoxParts
  <2>4. /\ g.visual = fox[c].visual /\ g.local = fox[c].local /\ g.clip = fox[c].clip
        /\ g.wave = fox[c].wave /\ g.speed = fox[c].speed
    BY <1>0, <2>1 DEF FoxStates
  <2>5. Fits(g)
    BY <1>0, <2>4 DEF Fits
  <2> QED
    BY <1>0, <2>4, <2>5, <1>2, <2>2, <2>3, OneFoxChanges DEF SetupFoxAnimators, FoxInv, FoxTypeOK
<1>3. ASSUME NEW c \in Character, AnimateFox(c)
      PROVE  FoxInv'
  <2>1. CASE c = Own
    BY <1>0, <1>3, <2>1, PredictStep DEF AnimateFox, FoxInv, FoxTypeOK
  <2>2. CASE c # Own
    <3>1. SyncPosition(c) /\ fox[c].visual
      BY <1>3, <2>2 DEF AnimateFox
    <3>2. \E speed \in Speed : fox' = [fox EXCEPT ![c] = Animated(@, speed)]
      BY <3>1 DEF SyncPosition
    <3>3. drift' = drift
      BY <3>1 DEF SyncPosition
    <3> QED
      BY <1>0, <1>3, <3>1, <3>2, <3>3, FrameFits DEF AnimateFox, FoxInv, FoxTypeOK
  <2> QED
    BY <2>1, <2>2
<1>4. CASE MarkLocalPlayerVisuals
  <2>1. \A c \in Character : fox'[c] = fox[c]
    BY <1>0, <1>4 DEF MarkLocalPlayerVisuals, Marker
  <2>2. fox' = fox
    BY <1>0, <1>4, <2>1 DEF MarkLocalPlayerVisuals
  <2> QED
    BY <1>0, <1>4, <2>2 DEF MarkLocalPlayerVisuals, FoxInv, FoxTypeOK
<1>5. CASE ReceiveEmoteBroadcast
  <2>1. broadcasts \in Seq(Character) /\ broadcasts # <<>>
    BY <1>0, <1>5 DEF FoxTypeOK, ReceiveEmoteBroadcast
  <2>2. broadcasts[Len(broadcasts)] \in Character
    BY <2>1
  <2>3. wanted' \in Seq(Character) /\ Len(wanted') <= 1 /\ broadcasts' \in Seq(Character)
    BY <1>5, <2>2 DEF ReceiveEmoteBroadcast
  <2> QED
    BY <1>0, <1>5, <2>3 DEF ReceiveEmoteBroadcast, FoxInv, FoxTypeOK
<1>6. CASE TriggerWave
  <2>1. Head(wanted) \in Character
    BY <1>0, <1>6 DEF FoxTypeOK, TriggerWave
  <2>2. wanted' \in Seq(Character) /\ Len(wanted') <= 1
    BY <1>6 DEF TriggerWave
  <2>3. PICK c \in Character : c = Head(wanted)
    BY <2>1
  <2>4. /\ fox' \in [Character -> FoxStates]
        /\ \A d \in Character : Fits(fox'[d]) /\ (fox'[d].local => d = Own)
    <3>1. CASE ~ fox[c].visual
      BY <1>0, <1>6, <2>3, <3>1 DEF TriggerWave
    <3>2. CASE fox[c].visual
      <4>1. PICK g : g = [fox[c] EXCEPT !.wave = WaveTime]
        OBVIOUS
      <4>2. fox' = [fox EXCEPT ![c] = g]
        BY <1>6, <2>3, <3>2, <4>1 DEF TriggerWave
      <4>3. g \in FoxStates
        BY <1>0, <4>1, FoxParts
      <4>4. WaveTime > 0
        BY FoxAssumption
      <4>5. Fits(g) /\ g.local = fox[c].local
        BY <1>0, <3>2, <4>1, <4>4 DEF FoxStates, Fits
      <4> QED
        BY <1>0, <4>2, <4>3, <4>5, OneFoxChanges
    <3> QED
      BY <3>1, <3>2
  <2> QED
    BY <1>0, <1>6, <2>2, <2>4 DEF TriggerWave, FoxInv, FoxTypeOK
<1> QED
  BY <1>1, <1>2, <1>3, <1>4, <1>5, <1>6 DEF FoxSystems

\* The server, the player and the asset loader.
LEMMA FoxWorldStep ==
  ASSUME FoxInv, FoxWorld
  PROVE  FoxInv'
<1>0. /\ FoxTypeOK /\ fox \in [Character -> FoxStates] /\ Own \in Character
      /\ \A c \in Character : /\ fox[c] \in FoxStates /\ Fits(fox[c])
                              /\ fox[c].local => c = Own
  BY FoxAssumption DEF FoxInv, FoxTypeOK
<1>1. ASSUME NEW c \in Character, Replicate(c)
      PROVE  FoxInv'
  <2>1. PICK g : g = [fox[c] EXCEPT !.entity = TRUE]
    OBVIOUS
  <2>2. fox' = [fox EXCEPT ![c] = g]
    BY <1>1, <2>1 DEF Replicate
  <2>3. g \in FoxStates
    BY <1>0, <2>1, FoxParts
  <2>4. /\ g.visual = fox[c].visual /\ g.local = fox[c].local /\ g.clip = fox[c].clip
        /\ g.wave = fox[c].wave /\ g.speed = fox[c].speed
    BY <1>0, <2>1 DEF FoxStates
  <2>5. Fits(g)
    BY <1>0, <2>4 DEF Fits
  <2> QED
    BY <1>0, <2>4, <2>5, <1>1, <2>2, <2>3, OneFoxChanges DEF Replicate, FoxInv, FoxTypeOK
<1>2. ASSUME NEW c \in Character, SceneSpawns(c)
      PROVE  FoxInv'
  <2>1. PICK g : g = [fox[c] EXCEPT !.animator = "spawned"]
    OBVIOUS
  <2>2. fox' = [fox EXCEPT ![c] = g]
    BY <1>2, <2>1 DEF SceneSpawns
  <2>3. g \in FoxStates
    BY <1>0, <2>1, FoxParts
  <2>4. /\ g.visual = fox[c].visual /\ g.local = fox[c].local /\ g.clip = fox[c].clip
        /\ g.wave = fox[c].wave /\ g.speed = fox[c].speed
    BY <1>0, <2>1 DEF FoxStates
  <2>5. Fits(g)
    BY <1>0, <2>4 DEF Fits
  <2> QED
    BY <1>0, <2>4, <2>5, <1>2, <2>2, <2>3, OneFoxChanges DEF SceneSpawns, FoxInv, FoxTypeOK
<1>3. ASSUME NEW c \in Character, ServerMoves(c)
      PROVE  FoxInv'
  BY <1>0, <1>3 DEF ServerMoves, FoxInv, FoxTypeOK
<1>4. ASSUME NEW c \in Character, EmoteArrives(c)
      PROVE  FoxInv'
  <2>1. broadcasts' \in Seq(Character)
    BY <1>0, <1>4 DEF EmoteArrives, FoxTypeOK
  <2>2. emotes' \in 0..MaxEmotes
    BY <1>0, <1>4, FoxAssumption DEF EmoteArrives, FoxTypeOK
  <2> QED
    BY <1>0, <1>4, <2>1, <2>2 DEF EmoteArrives, FoxInv, FoxTypeOK
<1>5. CASE Welcomed \/ GatherMovement
  BY <1>0, <1>5 DEF Welcomed, GatherMovement, FoxInv, FoxTypeOK
<1> QED
  BY <1>1, <1>2, <1>3, <1>4, <1>5 DEF FoxWorld

\* Every step keeps it.
LEMMA FoxStep == FoxInv /\ [FoxNext]_foxVars => FoxInv'
<1>1. ASSUME FoxInv, UNCHANGED foxVars
      PROVE  FoxInv'
  BY <1>1 DEF foxVars, FoxInv, FoxTypeOK
<1> QED
  BY <1>1, FoxSystemsStep, FoxWorldStep DEF FoxNext

\* The invariant says what the property does.
LEMMA FoxIsSafe == FoxInv => FoxTypeOK /\ ClipFits
BY DEF FoxInv, ClipFits, Fits, Followed

\* For any number of characters, in whatever order entity, scene, animation player and Welcome
\* arrive: only the own fox is followed by the camera, and the clip of every fox fits it.
THEOREM ClipsFit == FoxSpec => [](FoxTypeOK /\ ClipFits)
BY FoxStarts, FoxStep, FoxIsSafe, PTL DEF FoxSpec

-----------------------------------------------------------------------------
(* Hud: at most one button has an outline, the one in focus. *)

\* A focus is on a button there is, on none, or on one that is no more: never on a number
\* that a later button will have.
HudInv == HudTypeOK /\ OneOutline /\ focused \in buttons \cup {0, -1}

\* The first and the last of some buttons are among them.
LEMMA FirstAndLast ==
  ASSUME NEW S, S \subseteq 1..6, S # {}
  PROVE  /\ (CHOOSE c \in S : \A d \in S : c <= d) \in S
         /\ (CHOOSE c \in S : \A d \in S : d <= c) \in S
<1>0. S \subseteq {1, 2, 3, 4, 5, 6} /\ S # {}
  OBVIOUS
<1>1. \E c \in S : \A d \in S : c <= d
  <2>1. CASE 1 \in S
    BY <1>0, <2>1
  <2>2. CASE 2 \in S /\ S \cap {1} = {}
    BY <1>0, <2>2
  <2>3. CASE 3 \in S /\ S \cap {1, 2} = {}
    BY <1>0, <2>3
  <2>4. CASE 4 \in S /\ S \cap {1, 2, 3} = {}
    BY <1>0, <2>4
  <2>5. CASE 5 \in S /\ S \cap {1, 2, 3, 4} = {}
    BY <1>0, <2>5
  <2>6. CASE 6 \in S /\ S \cap {1, 2, 3, 4, 5} = {}
    BY <1>0, <2>6
  <2> QED
    BY <1>0, <2>1, <2>2, <2>3, <2>4, <2>5, <2>6
<1>2. \E c \in S : \A d \in S : d <= c
  <2>1. CASE 6 \in S
    BY <1>0, <2>1
  <2>2. CASE 5 \in S /\ S \cap {6} = {}
    BY <1>0, <2>2
  <2>3. CASE 4 \in S /\ S \cap {6, 5} = {}
    BY <1>0, <2>3
  <2>4. CASE 3 \in S /\ S \cap {6, 5, 4} = {}
    BY <1>0, <2>4
  <2>5. CASE 2 \in S /\ S \cap {6, 5, 4, 3} = {}
    BY <1>0, <2>5
  <2>6. CASE 1 \in S /\ S \cap {6, 5, 4, 3, 2} = {}
    BY <1>0, <2>6
  <2> QED
    BY <1>0, <2>1, <2>2, <2>3, <2>4, <2>5, <2>6
<1> QED
  BY <1>1, <1>2

\* Tab goes to a button there is.
LEMMA FocusMovesToButton ==
  ASSUME HudTypeOK, ManageFocus
  PROVE  focused' \in buttons
<1>1. buttons \subseteq 1..6 /\ buttons # {}
  BY DEF HudTypeOK, AnyButton, HudButtons, MenuButtons, BarButtons, ManageFocus
<1>2. NextOf(focused) \in buttons
  <2> DEFINE after == {c \in buttons : c > focused}
             S == IF after # {} THEN after ELSE buttons
  <2>1. S \subseteq buttons /\ S # {}
    BY <1>1
  <2>2. NextOf(focused) = CHOOSE c \in S : \A d \in S : c <= d
    BY DEF NextOf
  <2> HIDE DEF S
  <2> QED
    BY <1>1, <2>1, <2>2, FirstAndLast
<1>3. PreviousOf(focused) \in buttons
  <2> DEFINE before == {c \in buttons : c < focused}
             S == IF before # {} THEN before ELSE buttons
  <2>1. S \subseteq buttons /\ S # {}
    BY <1>1
  <2>2. PreviousOf(focused) = CHOOSE c \in S : \A d \in S : d <= c
    BY DEF PreviousOf
  <2> HIDE DEF S
  <2> QED
    BY <1>1, <2>1, <2>2, FirstAndLast
<1> QED
  BY <1>2, <1>3 DEF ManageFocus

\* Buttons that go take focus and outline along, and those that come have neither.
LEMMA ReplacedKeepOutline ==
  ASSUME HudInv, NEW gone, NEW new \in SUBSET AnyButton, ReplaceButtons(gone, new)
  PROVE  /\ buttons' \subseteq AnyButton /\ focused' \in AnyButton \cup {0, -1}
         /\ outlined' = {focused'} \cap buttons'
         /\ focused' \in buttons' \cup {0, -1}
<1>1. buttons' = (buttons \ gone) \cup new /\ outlined' = outlined \ gone
  BY DEF ReplaceButtons
<1>2. 0 \notin AnyButton /\ -1 \notin AnyButton
  BY DEF AnyButton, HudButtons, MenuButtons, BarButtons
<1>3. CASE focused \in gone
  <2>1. focused' = -1
    BY <1>3 DEF ReplaceButtons
  <2> QED
    BY <1>1, <1>2, <1>3, <2>1 DEF HudInv, HudTypeOK, OneOutline
<1>4. CASE focused \notin gone
  <2>1. focused' = focused
    BY <1>4 DEF ReplaceButtons
  <2> QED
    BY <1>1, <1>2, <1>4, <2>1 DEF HudInv, HudTypeOK, OneOutline
<1> QED
  BY <1>3, <1>4

\* Every step of the screen keeps the outline on the focus.
LEMMA HudStepKeeps == HudInv /\ [HudNext]_hudVars => HudInv'
<1> SUFFICES ASSUME HudInv, [HudNext]_hudVars PROVE HudInv'
  OBVIOUS
<1>0. HudTypeOK /\ HudButtons \subseteq AnyButton /\ MenuButtons \subseteq AnyButton
        /\ BarButtons \subseteq AnyButton
  BY DEF HudInv, AnyButton
<1> DEFINE Rest == /\ screen' \in {"Menu", "InGame"}
                   /\ {scene', building', panels', refusals', feedback'} \subseteq BOOLEAN
                   /\ quality' \in {"High", "Low"}
                   /\ {label', look'} \subseteq {"High", "Low", "none"}
                   /\ {bonds', display'} \subseteq Bonds
           Exchanged == \E gone : \E new \in SUBSET AnyButton : ReplaceButtons(gone, new)
<1>1. ASSUME Rest, Exchanged PROVE HudInv'
  BY <1>1, ReplacedKeepOutline DEF HudInv, HudTypeOK, OneOutline
<1>2. ASSUME Rest, UNCHANGED <<buttons, focused, outlined>> PROVE HudInv'
  BY <1>2 DEF HudInv, HudTypeOK, OneOutline
<1> USE DEF graphics, focus, bondVars, refusalVars
<1>3. CASE EnterGame
  <2>1. Exchanged
    BY <1>0, <1>3 DEF EnterGame
  <2>2. Rest
    BY <1>0, <1>3 DEF EnterGame, HudTypeOK
  <2> QED
    BY <1>1, <2>1, <2>2
<1>4. CASE LeaveGame
  <2>1. Exchanged
    BY <1>0, <1>4 DEF LeaveGame
  <2>2. Rest
    BY <1>0, <1>4 DEF LeaveGame, HudTypeOK, Bonds
  <2> QED
    BY <1>1, <2>1, <2>2
<1>5. CASE BuildControlsUi
  <2>1. Exchanged
    BY <1>0, <1>5 DEF BuildControlsUi
  <2>2. Rest
    BY <1>0, <1>5 DEF BuildControlsUi, HudTypeOK
  <2> QED
    BY <1>1, <2>1, <2>2
<1>6. CASE ManageFocus
  <2>1. Rest /\ buttons' = buttons
    BY <1>0, <1>6 DEF ManageFocus, HudTypeOK
  <2>2. focused' \in buttons /\ outlined' = (outlined \ {focused}) \cup {focused'}
    BY <1>0, <1>6, FocusMovesToButton DEF ManageFocus
  <2> QED
    BY <2>1, <2>2 DEF HudInv, HudTypeOK, OneOutline
<1>7. CASE ClearStaleFocus
  <2>1. Rest /\ buttons' = buttons /\ outlined' = outlined /\ focused' = 0
    BY <1>0, <1>7 DEF ClearStaleFocus, HudTypeOK
  <2>2. outlined = {}
    BY <1>7 DEF ClearStaleFocus, HudInv, OneOutline
  <2>3. 0 \notin buttons
    BY <1>0 DEF HudTypeOK, AnyButton, HudButtons, MenuButtons, BarButtons
  <2> QED
    BY <2>1, <2>2, <2>3 DEF HudInv, HudTypeOK, OneOutline
<1>8. CASE \/ GraphicsToggleButton \/ ApplyGraphicsQuality \/ ToggleGameplayPanels
           \/ ToggleBuildMode \/ HandleBondSnapshot
  <2>1. UNCHANGED <<buttons, focused, outlined>>
    BY <1>8 DEF GraphicsToggleButton, ApplyGraphicsQuality, ToggleGameplayPanels,
                ToggleBuildMode, HandleBondSnapshot
  <2>2. Rest
    BY <1>0, <1>8 DEF GraphicsToggleButton, ApplyGraphicsQuality, ToggleGameplayPanels,
                      ToggleBuildMode, HandleBondSnapshot, HudTypeOK
  <2> QED
    BY <1>2, <2>1, <2>2
<1>9. CASE \/ ShowBondDisplay \/ ActionRejected \/ HandleActionRejected
           \/ ReceiveActionRejected \/ ClearActionFeedback
  <2>1. UNCHANGED <<buttons, focused, outlined>>
    BY <1>9 DEF ShowBondDisplay, ActionRejected, HandleActionRejected, ReceiveActionRejected,
                ClearActionFeedback
  <2>2. Rest
    BY <1>0, <1>9 DEF ShowBondDisplay, ActionRejected, HandleActionRejected,
                      ReceiveActionRejected, ClearActionFeedback, HudTypeOK
  <2> QED
    BY <1>2, <2>1, <2>2
<1>10. CASE UNCHANGED hudVars
  <2>1. Rest /\ UNCHANGED <<buttons, focused, outlined>>
    BY <1>0, <1>10 DEF hudVars, HudTypeOK
  <2> QED
    BY <1>2, <2>1
<1> QED
  BY <1>3, <1>4, <1>5, <1>6, <1>7, <1>8, <1>9, <1>10 DEF HudNext

\* The menu has its outline from the start.
LEMMA HudStarts == HudInit => HudInv
<1> SUFFICES ASSUME HudInit PROVE HudInv
  OBVIOUS
<1>1. HudTypeOK
  BY DEF HudInit, HudTypeOK, AnyButton, Bonds
<1> QED
  BY <1>1 DEF HudInit, HudInv, OneOutline, HudButtons, MenuButtons

\* The outline keyboard users steer by is on the button in focus and on no other, through
\* every menu, bar and panel that comes and goes (ui/focus.rs).
THEOREM OutlineIsFocus == HudSpec => [](HudTypeOK /\ OneOutline)
<1>1. HudInv => HudTypeOK /\ OneOutline
  BY DEF HudInv
<1> QED
  BY <1>1, HudStarts, HudStepKeeps, PTL DEF HudSpec

-----------------------------------------------------------------------------
(* The client: its parts together. *)

\* Each part keeps its own invariant, also while another part runs.
ClientPartsInv ==
  part \in Parts /\ AdminInv /\ ClientInv /\ LoadingInv /\ ControlsInv /\ FoxInv /\ HudInv

\* The parts start together.
LEMMA PartsStart == MCInit => ClientPartsInv
BY AdminStarts, ClientStarts, LoadingStarts, ControlsStart, FoxStarts, HudStarts
DEF MCInit, ClientPartsInv

\* A step is one of the part that runs, and leaves the others as they were.
LEMMA StepOfAPart ==
  [MCNext]_<<part, admin, clientVars, loadingVars, controls, foxVars, hudVars>> =>
    /\ [AdminNext]_admin /\ [ClientNext]_clientVars /\ [LoadingNext]_loadingVars
    /\ [ControlsNext]_controls /\ [FoxNext]_foxVars /\ [HudNext]_hudVars
    /\ UNCHANGED part
BY DEF MCNext

\* Every step keeps the invariants of all parts.
LEMMA PartsStep ==
  ClientPartsInv /\ [MCNext]_<<part, admin, clientVars, loadingVars, controls, foxVars, hudVars>>
    => ClientPartsInv'
BY StepOfAPart, AdminStep, ClientStepKeeps, LoadingStep, ControlsStep, FoxStep, HudStepKeeps
DEF ClientPartsInv

\* What is promised of each part follows.
LEMMA PartsAreSafe == ClientPartsInv => ClientSafety
<1> SUFFICES ASSUME ClientPartsInv PROVE ClientSafety
  OBVIOUS
<1>1. AdminTypeOK /\ DashboardIsHonest
  BY AdminIsSafe DEF ClientPartsInv
<1>2. ClientTypeOK
  BY DEF ClientPartsInv, ClientInv
<1>3. LoadingTypeOK /\ NoSecondWave /\ NothingForgotten
  BY DEF ClientPartsInv, LoadingInv
<1>4. ControlsTypeOK /\ NothingStaysPressed
  BY DEF ClientPartsInv, ControlsInv
<1>5. FoxTypeOK /\ ClipFits
  BY FoxIsSafe DEF ClientPartsInv
<1>6. HudTypeOK /\ OneOutline
  BY DEF ClientPartsInv, HudInv
<1>7. part \in {"admin", "connection", "loading", "controls", "fox", "hud"}
  BY PartsAssumption DEF ClientPartsInv
<1> QED
  BY <1>1, <1>2, <1>3, <1>4, <1>5, <1>6, <1>7 DEF ClientSafety

\* What the run of the client checks on a small instance, for every value of the constants and
\* without any fairness: what each part keeps, and that a fallback waits for its timeout.
THEOREM ClientIsSafe == MCSpec => []ClientSafety /\ FallbackNeedsTimeout
BY PartsStart, PartsStep, PartsAreSafe, StepOfAPart, WaitsWithoutFairness, PTL
DEF MCSpec, MCInit
=============================================================================
