--------------------------- MODULE ClientConnection ---------------------------
(***************************************************************************)
(* The client's side of a connection: the play button, the retries, the    *)
(* fallback from WebTransport to WebSocket, the hello and its answer, the   *)
(* rejection modal, and the page that is hidden and shown.  The systems     *)
(* run in every frame in an order the schedule leaves open; the two that    *)
(* measure time run once per unit of it.  What the network and the server   *)
(* do is external.                                                          *)
(***************************************************************************)
EXTENDS Naturals, Sequences

CONSTANTS
  Backoff,      \* RECONNECT_BACKOFF_S in units of time
  WtTimeout,    \* WT_TIMEOUT in units of time
  Unset         \* Option::None

ASSUME ClientConnectionAssumption ==
  Backoff \in Nat \ {0} /\ WtTimeout \in Nat /\ Unset \notin Nat \cup STRING

Transports == {"UDP", "WebTransport", "WebSocket"}
Reasons == {"server full", "protocol mismatch", "invalid identity"}
Pages == [local : BOOLEAN, https : BOOLEAN, wtAvailable : BOOLEAN, wsOverride : BOOLEAN]

VARIABLES
  native,    \* a native build: UDP, and the fallback is a no-op
  usable,    \* transports whose configured address parses
  mode,      \* TransportState.mode
  wtAge,     \* time since wt_start, Unset without one
  reason,    \* rejection_reason, set exactly while rejection_received
  flow,      \* AppFlow, once loading is done
  stage,     \* what Startup spawned - camera, window, HUD - exists
  io,        \* transport of the Client entity, "none" without an entity
  conn,      \* its connection
  session,   \* what the server knows of this connection
  inbox,     \* answers received and not yet read
  localId,   \* LocalPlayerId is set
  identityToken,     \* IdentityToken is not empty
  modal,     \* the rejection modal is there
  visible, pageEvent,   \* PageLifecycle and PAGE_EVENT
  sinceRetry,           \* elapsed time of the retry timer
  todo,      \* time systems still to run in this unit
  waiting    \* history: time the WebTransport entity has not been connected

environment == <<native, usable>>
transport == <<mode, wtAge, reason>>
ui == <<flow, stage, modal>>
link == <<io, conn, session>>
page == <<visible, pageEvent>>
timing == <<sinceRetry, todo, waiting>>
clientVars == <<environment, transport, ui, link, inbox, localId, identityToken, page,
                timing>>

\* WebTransport needs a literal address, which only a local page has.
SelectTransportMode(p) ==
  IF p.wsOverride \/ ~p.wtAvailable \/ ~p.local THEN "WebSocket" ELSE "WebTransport"

\* The default of native builds, or what the browser says.
Detect ==
  \/ native = TRUE /\ mode = "WebTransport"
  \/ native = FALSE /\ \E p \in Pages : mode = SelectTransportMode(p)

ClientInit ==
  /\ Detect
  /\ usable \in SUBSET (IF native THEN {"UDP"} ELSE {"WebTransport", "WebSocket"})
  /\ wtAge = Unset /\ reason = Unset
  /\ flow = "Menu" /\ stage = TRUE /\ modal = FALSE
  /\ io = "none" /\ conn = "none" /\ session = "none" /\ inbox = <<>>
  /\ localId = FALSE /\ identityToken \in BOOLEAN
  /\ visible = TRUE /\ pageEvent = Unset
  /\ sinceRetry = 0 /\ todo = {} /\ waiting = 0

-----------------------------------------------------------------------------
(* The connection entity *)

\* A new entity with its Connect triggered, or none if the address does not parse.
SpawnClient(t) ==
  /\ waiting' = 0 /\ session' = "none"
  /\ IF t \in usable THEN io' = t /\ conn' = "connecting"
     ELSE io' = "none" /\ conn' = "none"

SpawnWsClient == SpawnClient("WebSocket")

\* A page built for one address of the server (YUME_SERVER_WS_URL), which only ever makes a
\* WebSocket client, is left out.
StartConnection ==
  IF native THEN SpawnClient("UDP") /\ UNCHANGED transport
  ELSE IF mode = "WebSocket" THEN SpawnWsClient /\ UNCHANGED transport
  ELSE IF "WebTransport" \in usable
       THEN SpawnClient("WebTransport") /\ wtAge' = 0 /\ UNCHANGED <<mode, reason>>
       ELSE SpawnWsClient /\ mode' = "WebSocket" /\ UNCHANGED <<wtAge, reason>>

\* The random client id may be refused: then there is no entity at all.
PlayButton ==
  /\ flow = "Menu" /\ stage
  /\ flow' = "InGame"
  /\ \/ StartConnection
     \/ ~native /\ UNCHANGED <<transport, link, waiting>>
  /\ UNCHANGED <<environment, stage, modal, inbox, localId, identityToken, page,
                 sinceRetry, todo>>

-----------------------------------------------------------------------------
(* The network and the server *)

\* A handshake takes longer than a frame: what came before is read by then.
Establish ==
  /\ conn = "connecting" /\ inbox = <<>>
  /\ conn' = "connected" /\ session' = "pending" /\ waiting' = 0
  /\ UNCHANGED <<environment, transport, ui, io, inbox, localId, identityToken, page,
                 sinceRetry, todo>>

\* A connection lives longer than a frame, so the fallback has seen it; what has not
\* been read may be lost with it.
Lose ==
  /\ conn \in {"connecting", "connected"}
  /\ conn = "connected" /\ io = "WebTransport" => wtAge = Unset
  /\ conn' = "disconnected" /\ session' = "none"
  /\ inbox' \in {inbox, <<>>}
  /\ UNCHANGED <<environment, transport, ui, io, localId, identityToken, page, timing>>

ServerAnswers ==
  /\ conn = "connected" /\ session = "asked"
  /\ \/ session' = "player" /\ inbox' = Append(inbox, "welcome")
     \/ \E r \in Reasons : session' = "rejected" /\ inbox' = Append(inbox, r)
  /\ UNCHANGED <<environment, transport, ui, io, conn, localId, identityToken, page,
                 timing>>

-----------------------------------------------------------------------------
(* Systems of every frame *)

\* A hello in every frame without a local player; the server ignores repetitions.
SendIdentityHello ==
  /\ ~localId
  /\ conn = "connected" /\ session = "pending"
  /\ session' = "asked"
  /\ UNCHANGED <<environment, transport, ui, io, conn, inbox, localId, identityToken,
                 page, timing>>

HandleWelcome ==
  /\ inbox # <<>> /\ Head(inbox) = "welcome"
  /\ localId' = TRUE /\ identityToken' = TRUE /\ inbox' = Tail(inbox)
  /\ UNCHANGED <<environment, transport, ui, link, page, timing>>

HandleConnectionRejected ==
  /\ inbox # <<>> /\ Head(inbox) \in Reasons
  /\ reason' = Head(inbox) /\ wtAge' = Unset /\ inbox' = Tail(inbox)
  /\ UNCHANGED <<environment, mode, ui, link, localId, identityToken, page, timing>>

SyncRejectionModal ==
  /\ reason # Unset /\ ~modal
  /\ modal' = TRUE
  /\ UNCHANGED <<environment, transport, flow, stage, link, inbox, localId,
                 identityToken, page, timing>>

\* The entity goes and the menu comes; leaving the game despawns every entity but
\* the loading screen, the camera among them.
DismissRejectionModal ==
  /\ modal /\ stage
  /\ identityToken' = (identityToken /\ reason # "invalid identity")
  /\ modal' = FALSE /\ reason' = Unset /\ flow' = "Menu"
  /\ stage' = IF flow = "InGame" THEN FALSE ELSE stage
  /\ io' = "none" /\ conn' = "none" /\ session' = "none" /\ inbox' = <<>>
  /\ UNCHANGED <<environment, mode, wtAge, localId, page, timing>>

\* The button of the HUD connects again, and leaves the local player as it is.
ReconnectButton ==
  /\ stage /\ conn = "disconnected"
  /\ conn' = "connecting"
  /\ UNCHANGED <<environment, transport, ui, io, session, inbox, localId, identityToken,
                 page, timing>>

\* The browser's listener keeps only the latest event.
VisibilityChange(event) ==
  /\ pageEvent' = event
  /\ UNCHANGED <<environment, transport, ui, link, inbox, localId, identityToken,
                 visible, timing>>

HandlePageVisibility ==
  /\ pageEvent # Unset
  /\ visible' = (pageEvent = "visible") /\ pageEvent' = Unset
  /\ UNCHANGED <<environment, transport, ui, link, inbox, localId, identityToken, timing>>

-----------------------------------------------------------------------------
(* Systems that measure time *)

AtMostOne(n) == IF n > WtTimeout THEN n ELSE n + 1

\* A unit of time passes: every system has run in between, so nothing is unread.
Tick ==
  /\ todo = {} /\ inbox = <<>>
  /\ wtAge' = IF wtAge = Unset THEN Unset ELSE AtMostOne(wtAge)
  /\ waiting' = IF io = "WebTransport" /\ conn # "connected" THEN AtMostOne(waiting) ELSE 0
  /\ todo' = {"retry", "fallback"}
  /\ UNCHANGED <<environment, mode, reason, ui, link, inbox, localId, identityToken, page,
                 sinceRetry>>

\* Mutant: only before the first welcome.
RetryRunsOnce == reason = Unset /\ visible /\ ~localId
RetryRuns == reason = Unset /\ visible

\* A repeating timer, which stops while the page is hidden or a rejection is shown.
RetryConnect ==
  /\ "retry" \in todo
  /\ todo' = todo \ {"retry"}
  /\ LET fires == RetryRuns /\ sinceRetry + 1 = Backoff /\ conn = "disconnected"
     IN /\ sinceRetry' = IF RetryRuns THEN (sinceRetry + 1) % Backoff ELSE sinceRetry
        /\ localId' = (localId /\ ~fires)
        /\ conn' = IF fires THEN "connecting" ELSE conn
  /\ UNCHANGED <<environment, transport, ui, io, session, inbox, identityToken, page,
                 waiting>>

\* Mutant: >= instead of >.
WtTimedOutEarly == wtAge # Unset /\ wtAge >= WtTimeout
WtTimedOut == wtAge # Unset /\ wtAge > WtTimeout

\* The WebTransport entity that fails to connect in time is replaced for good.  It
\* runs at least once per unit.
HandleTransportFallback ==
  /\ todo' = todo \ {"fallback"}
  /\ \/ /\ mode = "WebSocket" \/ (reason = Unset /\ io # "WebTransport")
        /\ UNCHANGED <<transport, link, waiting>>
     \/ /\ mode = "WebTransport"
        /\ reason # Unset \/ (io = "WebTransport" /\ conn = "connected")
        /\ wtAge' = Unset
        /\ UNCHANGED <<mode, reason, link, waiting>>
     \/ /\ mode = "WebTransport" /\ reason = Unset
        /\ io = "WebTransport" /\ conn # "connected"
        /\ IF WtTimedOut
           THEN mode' = "WebSocket" /\ wtAge' = Unset /\ SpawnWsClient
           ELSE /\ wtAge' = IF wtAge = Unset THEN 0 ELSE wtAge
                /\ UNCHANGED <<mode, link, waiting>>
        /\ UNCHANGED reason
  /\ UNCHANGED <<environment, ui, inbox, localId, identityToken, page, sinceRetry>>

Network == Establish \/ Lose \/ ServerAnswers
FrameSystems ==
  \/ SendIdentityHello \/ HandleWelcome \/ HandleConnectionRejected
  \/ SyncRejectionModal \/ HandlePageVisibility
Buttons == PlayButton \/ DismissRejectionModal \/ ReconnectButton
ClientNext ==
  \/ Network \/ FrameSystems \/ Buttons
  \/ \E event \in {"hidden", "visible"} : VisibilityChange(event)
  \/ Tick \/ RetryConnect \/ HandleTransportFallback

\* Frames go on, and each runs every system; the server reads what it is sent.
ClientFairness ==
  /\ WF_clientVars(SendIdentityHello) /\ WF_clientVars(HandleWelcome)
  /\ WF_clientVars(HandleConnectionRejected) /\ WF_clientVars(SyncRejectionModal)
  /\ WF_clientVars(HandlePageVisibility) /\ WF_clientVars(ServerAnswers)
  /\ WF_clientVars(Tick) /\ WF_clientVars(RetryConnect)
  /\ WF_clientVars(HandleTransportFallback)

ClientSpec == ClientInit /\ [][ClientNext]_clientVars /\ ClientFairness

-----------------------------------------------------------------------------
ClientTypeOK ==
  /\ native \in BOOLEAN /\ usable \subseteq Transports
  /\ mode \in {"WebTransport", "WebSocket"} /\ wtAge \in (0..(WtTimeout + 1)) \cup {Unset}
  /\ reason \in Reasons \cup {Unset}
  /\ flow \in {"Menu", "InGame"}
  /\ {stage, modal, localId, identityToken, visible} \subseteq BOOLEAN
  /\ io \in Transports \cup {"none"}
  /\ conn \in {"none", "connecting", "connected", "disconnected"}
  /\ session \in {"none", "pending", "asked", "player", "rejected"}
  /\ inbox \in Seq(Reasons \cup {"welcome"}) /\ Len(inbox) <= 1
  /\ pageEvent \in {"hidden", "visible", Unset}
  /\ sinceRetry \in 0..(Backoff - 1) /\ todo \subseteq {"retry", "fallback"}
  /\ waiting \in 0..(WtTimeout + 1)

\* "A single failed attempt must not be final": a client that stays in the game with
\* a visible page and no rejection never stays disconnected, over either transport
\* and across the fallback.
KeepsTrying ==
  <>[](io # "none" /\ visible /\ pageEvent = Unset /\ reason = Unset)
    => []<>(conn # "disconnected")

\* The fallback replaces a WebTransport entity only after it went unconnected for
\* the whole timeout since it was spawned or last connected: no start time of an
\* earlier attempt counts, and never while a rejection is unread or shown.
FallbackNeedsTimeout ==
  [][mode = "WebTransport" /\ mode' = "WebSocket" /\ io # "none"
       => conn # "connected" /\ waiting > WtTimeout /\ reason = Unset]_clientVars

\* "Sends IdentityHello every frame while connected but not yet authenticated (i.e.,
\* until LocalPlayerId is set by Welcome)": as long as the server has not heard of
\* this connection's identity, the client is going to tell it.
HelloWhileUnauthenticated ==
  conn = "connected" /\ session = "pending" => ~localId
=============================================================================
