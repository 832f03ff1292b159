------------------------------ MODULE BridgeHost ------------------------------
(***************************************************************************)
(* The server of bin/code-bridge-host.js: WebSocket connections of bridges *)
(* and consumers, HTTP bridge sessions, the routing of events to           *)
(* consumers and the round trip of control requests.                       *)
(*                                                                         *)
(* One action per handler, endpoint or timer callback.  The host is one    *)
(* JavaScript thread, so handlers are atomic; which client's frame or      *)
(* request comes next is nondeterministic.  Frames that only acknowledge   *)
(* (auth_success, hello_ack, subscribe_ack, control_forwarded, pong,       *)
(* rate_limit_notice) change nothing here and are left out.                *)
(***************************************************************************)
EXTENDS Subscriptions, Sequences, FiniteSets

CONSTANTS
  Socket,         \* WebSocket clients, each with one connection at a time
  Session,        \* HTTP sessions; an identifier is never used twice
  Request,        \* control requests the clients make
  Id,             \* values of their id field
  IdOf,           \* IdOf[r]: the id of request r
  RoleOf,         \* RoleOf[s]: the role its client asks for in auth
  Capabilities,   \* capability sets that bridges advertise
  Subscribes,     \* subscriptions that consumers make
  Messages,       \* events that bridges send
  AuthTimeout,    \* time to authenticate
  StaleAfter,     \* HEARTBEAT_STALE_MS
  ShotLimit,      \* SCREENSHOT_RATE_LIMIT_MS
  WindowLength,   \* WINDOW_MS
  WindowLimit,    \* WINDOW_LIMIT
  None            \* no socket

ASSUME ConstantsAssumption ==
  /\ IsFiniteSet(Socket) /\ Socket \cap Session = {} /\ None \notin Socket \cup Session
  /\ IdOf \in [Request -> Id] /\ None \notin Request
  /\ RoleOf \in [Socket -> {"bridge", "consumer", "other"}]
  /\ Capabilities \subseteq SUBSET Gated
  /\ Subscribes \subseteq Subscription
  /\ Messages \subseteq [type : EventType, level : LogLevel, valid : BOOLEAN]
  /\ {AuthTimeout, StaleAfter, ShotLimit, WindowLength} \subseteq Nat \ {0}
  /\ WindowLimit \in Nat

VARIABLES
  readyState,             \* of each socket: "none", "open" or "closing"
  isAuthenticated, role,  \* of each connection handler
  authIn,                 \* time left on each authTimeout
  bridges, consumers,
  bridgeCapabilities,     \* {} for a bridge without an entry
  greeted,                \* bridges with an entry in bridgeCapabilities
  consumerSubscriptions,  \* the defaults for a consumer without an entry
  subscribed,             \* consumers with an entry in consumerSubscriptions
  session,                \* of each HTTP session: "new", "live" or "removed"
  queue,                  \* of each session: control requests to be polled
  lastSeen,               \* of each session: time since its last request
  pruneIn,                \* time to the next run of httpPruneTimer
  pendingControl,         \* of each id: the socket to reply to, or None
  bridgeLastScreenshot,   \* of each bridge: time since its last accepted screenshot
  windowAge, windowCount, \* time since windowStart, and windowCount
  \* What the clients do with control requests, and a record of what was sent.
  asker,                  \* of each request: the socket that made it, or None
  held,                   \* pairs of a request and a client that has yet to answer it
  results,                \* results sent: of which request, to which socket
  routed,                 \* the event the last step routed: from, message, to
  arrived,                \* events and requests of bridges in the current window
  sinceShot,              \* of each socket: time since a screenshot of its was routed
  tooSoon                 \* sockets that had one routed within ShotLimit of the last

socketVars  == <<readyState, isAuthenticated, role, authIn>>
memberVars  == <<bridges, consumers, bridgeCapabilities, greeted,
                 consumerSubscriptions, subscribed>>
sessionVars == <<session, queue, lastSeen>>
rateVars    == <<bridgeLastScreenshot, windowAge, windowCount, arrived,
                 sinceShot, tooSoon>>
controlVars == <<pendingControl, asker, held, results>>
vars == <<socketVars, memberVars, sessionVars, pruneIn, rateVars, controlVars, routed>>

Off    == -1
Bridge == Socket \cup Session

Init ==
  /\ readyState = [s \in Socket |-> "none"]
  /\ isAuthenticated = [s \in Socket |-> FALSE]
  /\ role = [s \in Socket |-> "none"]
  /\ authIn = [s \in Socket |-> Off]
  /\ bridges = {} /\ consumers = {} /\ greeted = {} /\ subscribed = {}
  /\ bridgeCapabilities = [b \in Bridge |-> {}]
  /\ consumerSubscriptions = [s \in Socket |-> DefaultSubscription]
  /\ session = [h \in Session |-> "new"]
  /\ queue = [h \in Session |-> <<>>]
  /\ lastSeen = [h \in Session |-> 0]
  /\ pruneIn = StaleAfter
  /\ pendingControl = [id \in Id |-> None]
  /\ bridgeLastScreenshot = [b \in Bridge |-> ShotLimit]
  /\ windowAge = 0 /\ windowCount = 0 /\ arrived = 0
  /\ sinceShot = [s \in Socket |-> ShotLimit] /\ tooSoon = {}
  /\ asker = [r \in Request |-> None]
  /\ held = {} /\ results = <<>> /\ routed = None

Capped(n, limit) == IF n < limit THEN n ELSE limit

-----------------------------------------------------------------------------
(* Connections.                                                            *)

\* ws.close(): the connection is gone once the other side has answered.
StartClosing(s) ==
  readyState' = [readyState EXCEPT ![s] = IF @ = "open" THEN "closing" ELSE @]

Connect(s) ==
  /\ readyState[s] = "none"
  /\ readyState' = [readyState EXCEPT ![s] = "open"]
  /\ authIn' = [authIn EXCEPT ![s] = AuthTimeout]
  /\ UNCHANGED <<isAuthenticated, role, memberVars, sessionVars, pruneIn, rateVars,
                 controlVars>>
  /\ routed' = None

\* Faulty: the timeout does not close the connection.
AuthTimeoutIgnored(s) ==
  /\ authIn[s] = 0
  /\ authIn' = [authIn EXCEPT ![s] = Off]
  /\ UNCHANGED <<readyState, isAuthenticated, role, memberVars, sessionVars, pruneIn,
                 rateVars, controlVars>>
  /\ routed' = None

AuthTimeoutFires(s) ==
  /\ authIn[s] = 0
  /\ authIn' = [authIn EXCEPT ![s] = Off]
  /\ IF isAuthenticated[s] THEN UNCHANGED readyState ELSE StartClosing(s)
  /\ UNCHANGED <<isAuthenticated, role, memberVars, sessionVars, pruneIn, rateVars,
                 controlVars>>
  /\ routed' = None

\* auth with the right secret.  Frames that were on their way when the host closed
\* the connection are still handled, auth among them.
Authenticate(s) ==
  /\ readyState[s] # "none" /\ ~isAuthenticated[s]
  /\ isAuthenticated' = [isAuthenticated EXCEPT ![s] = TRUE]
  /\ role' = [role EXCEPT ![s] = RoleOf[s]]
  /\ authIn' = [authIn EXCEPT ![s] = Off]
  /\ bridges' = IF RoleOf[s] = "bridge" THEN bridges \cup {s} ELSE bridges
  /\ consumers' = IF RoleOf[s] = "consumer" THEN consumers \cup {s} ELSE consumers
  /\ IF RoleOf[s] = "other" THEN StartClosing(s) ELSE UNCHANGED readyState
  /\ UNCHANGED <<bridgeCapabilities, greeted, consumerSubscriptions, subscribed,
                 sessionVars, pruneIn, rateVars, controlVars>>
  /\ routed' = None

\* Another first frame, or auth with another secret; at any time, a frame that does not
\* parse or that its handler cannot read: the catch handler closes the connection.
RefuseFrame(s) ==
  /\ readyState[s] # "none"
  /\ StartClosing(s)
  /\ UNCHANGED <<isAuthenticated, role, authIn, memberVars, sessionVars, pruneIn,
                 rateVars, controlVars>>
  /\ routed' = None

Speaks(s, r) == isAuthenticated[s] /\ role[s] = r

Hello(s, caps) ==
  /\ Speaks(s, "bridge")
  /\ bridgeCapabilities' = [bridgeCapabilities EXCEPT ![s] = caps]
  /\ greeted' = greeted \cup {s}
  /\ UNCHANGED <<socketVars, bridges, consumers, consumerSubscriptions, subscribed,
                 sessionVars, pruneIn, rateVars, controlVars>>
  /\ routed' = None

Subscribe(s, sub) ==
  /\ Speaks(s, "consumer")
  /\ consumerSubscriptions' = [consumerSubscriptions EXCEPT ![s] = sub]
  /\ subscribed' = subscribed \cup {s}
  /\ UNCHANGED <<socketVars, bridges, consumers, bridgeCapabilities, greeted,
                 sessionVars, pruneIn, rateVars, controlVars>>
  /\ routed' = None

\* Faulty: the entries stay.
KeepPending(s) == pendingControl' = pendingControl

\* Entries of pendingControl that would reply to s.
DropPending(s) ==
  pendingControl' = [id \in Id |-> IF pendingControl[id] = s THEN None
                                                             ELSE pendingControl[id]]

\* Faulty: entries of bridgeCapabilities stay.
KeepCapabilities(gone) ==
  /\ bridges' = bridges \ gone
  /\ bridgeLastScreenshot' =
       [b \in Bridge |-> IF b \in gone THEN ShotLimit ELSE bridgeLastScreenshot[b]]
  /\ UNCHANGED <<bridgeCapabilities, greeted, sinceShot, windowAge, windowCount, arrived,
                 tooSoon>>

\* What the sets and maps keyed by bridges forget when some are gone.
ForgetBridges(gone) ==
  /\ bridges' = bridges \ gone
  /\ bridgeCapabilities' = [b \in Bridge |-> IF b \in gone THEN {} ELSE bridgeCapabilities[b]]
  /\ greeted' = greeted \ gone
  /\ bridgeLastScreenshot' =
       [b \in Bridge |-> IF b \in gone THEN ShotLimit ELSE bridgeLastScreenshot[b]]
  /\ sinceShot' = [s \in Socket |-> IF s \in gone THEN ShotLimit ELSE sinceShot[s]]
  /\ UNCHANGED <<windowAge, windowCount, arrived, tooSoon>>

\* The close event of a connection, from either side or of a broken transport.
Close(s) ==
  /\ readyState[s] # "none"
  /\ readyState' = [readyState EXCEPT ![s] = "none"]
  /\ isAuthenticated' = [isAuthenticated EXCEPT ![s] = FALSE]
  /\ role' = [role EXCEPT ![s] = "none"]
  /\ authIn' = [authIn EXCEPT ![s] = Off]
  /\ ForgetBridges(IF role[s] = "bridge" THEN {s} ELSE {})
  /\ IF role[s] = "consumer"
       THEN /\ consumers' = consumers \ {s}
            /\ consumerSubscriptions' =
                 [consumerSubscriptions EXCEPT ![s] = DefaultSubscription]
            /\ subscribed' = subscribed \ {s}
       ELSE UNCHANGED <<consumers, consumerSubscriptions, subscribed>>
  /\ DropPending(s)
  /\ UNCHANGED <<sessionVars, pruneIn, asker, held, results>>
  /\ routed' = None

-----------------------------------------------------------------------------
(* Routing of events.                                                      *)

Open == {c \in consumers : readyState[c] = "open"}

\* Consumers for which the overload guard counts an event; consumers is iterated in
\* an order that the guard can tell apart.
Counted   == Open \cap subscribed
Orders    == {order \in [Counted -> 1 .. Cardinality(Counted)] :
                \A c, d \in Counted : order[c] = order[d] => c = d}
NewWindow == windowAge > WindowLength /\ Counted # {}
\* Faulty: a new window goes on counting.
CountGoesOn == windowCount

CountBase == IF NewWindow THEN 0 ELSE windowCount

Overloaded(c, order) == c \in Counted /\ CountBase + order[c] > WindowLimit

Recipients(b, m, order) ==
  {c \in Open : ShouldRoute(consumerSubscriptions[c], m, bridgeCapabilities[b],
                            Overloaded(c, order))}

\* What routing one frame does to the window; only the part of the count that the
\* guard looks at is kept.
CountFrame ==
  /\ windowAge' = IF NewWindow THEN 0 ELSE windowAge
  /\ windowCount' = Capped(CountBase + Cardinality(Counted), WindowLimit + 1)
  /\ arrived' = Capped(IF NewWindow THEN 1 ELSE arrived + 1, WindowLimit + 1)

Routed(b, m, to) == routed' = [from |-> b, message |-> m, to |-> to]

NoteShot(s, to) ==
  IF to # {}
    THEN /\ sinceShot' = [sinceShot EXCEPT ![s] = 0]
         /\ tooSoon' = IF sinceShot[s] < ShotLimit THEN tooSoon \cup {s} ELSE tooSoon
    ELSE UNCHANGED <<sinceShot, tooSoon>>

\* An event of a WebSocket bridge.
Event(s, m) ==
  /\ Speaks(s, "bridge") /\ m.type # "screenshot"
  /\ \E order \in Orders : Routed(s, m, Recipients(s, m, order))
  /\ CountFrame
  /\ UNCHANGED <<socketVars, memberVars, sessionVars, pruneIn, bridgeLastScreenshot,
                 sinceShot, tooSoon, controlVars>>

\* Faulty: one unit too early.
RateLimitedShort(s) == bridgeLastScreenshot[s] + 1 < ShotLimit

\* The bridge's last screenshot was accepted less than ShotLimit ago.
RateLimited(s) == bridgeLastScreenshot[s] < ShotLimit

\* A screenshot of a WebSocket bridge: with the capability, not too soon after the last
\* one, and for somebody.  A malformed one is stamped and then dropped.
Screenshot(s, m) ==
  /\ Speaks(s, "bridge") /\ m.type = "screenshot"
  /\ BridgeHasCapability(bridgeCapabilities[s], "screenshot")
  /\ ~RateLimited(s)
  /\ \E order \in Orders :
       LET to == Recipients(s, m, order) IN
         /\ bridgeLastScreenshot' =
              IF to # {} THEN [bridgeLastScreenshot EXCEPT ![s] = 0] ELSE bridgeLastScreenshot
         /\ IF m.valid THEN Routed(s, m, to) /\ NoteShot(s, to)
                       ELSE routed' = None /\ UNCHANGED <<sinceShot, tooSoon>>
  /\ CountFrame
  /\ UNCHANGED <<socketVars, memberVars, sessionVars, pruneIn, controlVars>>

-----------------------------------------------------------------------------
(* Control requests.                                                       *)

\* A bridge asks every consumer that its request is routed to, as an info frame.
BridgeRequest(s, r) ==
  /\ Speaks(s, "bridge") /\ asker[r] = None
  /\ asker' = [asker EXCEPT ![r] = s]
  /\ \E order \in Orders :
       LET to == Recipients(s, [type |-> "log", level |-> "info"], order) IN
         /\ held' = held \cup {<<r, c>> : c \in to}
         /\ pendingControl' = IF to # {} THEN [pendingControl EXCEPT ![IdOf[r]] = s]
                                         ELSE pendingControl
         /\ results' = IF to = {} THEN Append(results, [request |-> r, to |-> s])
                                  ELSE results
  /\ CountFrame
  /\ UNCHANGED <<socketVars, memberVars, sessionVars, pruneIn, bridgeLastScreenshot,
                 sinceShot, tooSoon>>
  /\ routed' = None

\* The bridges a consumer's request is forwarded to.
Targets == {b \in bridges : /\ b \in Socket => readyState[b] = "open"
                            /\ BridgeHasCapability(bridgeCapabilities[b], "control")}

\* A consumer asks every bridge that has the control capability.
ConsumerRequest(s, r) ==
  /\ Speaks(s, "consumer") /\ asker[r] = None
  /\ asker' = [asker EXCEPT ![r] = s]
  /\ IF Targets = {}
       THEN /\ results' = Append(results, [request |-> r, to |-> s])
            /\ UNCHANGED <<pendingControl, held, queue>>
       ELSE /\ pendingControl' = [pendingControl EXCEPT ![IdOf[r]] = s]
            /\ held' = held \cup {<<r, b>> : b \in Targets \cap Socket}
            /\ queue' = [h \in Session |-> IF h \in Targets THEN Append(queue[h], r)
                                                            ELSE queue[h]]
            /\ results' = results
  /\ UNCHANGED <<socketVars, memberVars, session, lastSeen, pruneIn, rateVars>>
  /\ routed' = None

\* Faulty: replyTo is not checked.
ReplyUnchecked(r, client) ==
  /\ held' = held \ {<<r, client>>}
  /\ results' = Append(results, [request |-> r, to |-> pendingControl[IdOf[r]]])
  /\ pendingControl' = [pendingControl EXCEPT ![IdOf[r]] = None]
  /\ asker' = asker

\* Faulty: the result goes back to the client that sent it.
ReplyToSender(r, client) ==
  /\ held' = held \ {<<r, client>>}
  /\ results' = Append(results, [request |-> r, to |-> client])
  /\ UNCHANGED <<pendingControl, asker>>

\* Faulty: the entry is not deleted.
ReplyAndKeep(r, client) ==
  LET replyTo == pendingControl[IdOf[r]] IN
    /\ held' = held \ {<<r, client>>}
    /\ results' = IF replyTo # None /\ readyState[replyTo] = "open"
                    THEN Append(results, [request |-> r, to |-> replyTo]) ELSE results
    /\ UNCHANGED <<pendingControl, asker>>

\* A client's result for request r goes to whoever is pending under the id of r.
Reply(r, client) ==
  LET replyTo == pendingControl[IdOf[r]] IN
    /\ held' = held \ {<<r, client>>}
    /\ IF replyTo # None /\ readyState[replyTo] = "open"
         THEN /\ results' = Append(results, [request |-> r, to |-> replyTo])
              /\ pendingControl' = [pendingControl EXCEPT ![IdOf[r]] = None]
         ELSE UNCHANGED <<results, pendingControl>>
    /\ asker' = asker

\* control_result of a WebSocket client, a bridge or a consumer.
ControlResult(s, r) ==
  /\ isAuthenticated[s] /\ role[s] \in {"bridge", "consumer"}
  /\ <<r, s>> \in held
  /\ Reply(r, s)
  /\ UNCHANGED <<socketVars, memberVars, sessionVars, pruneIn, rateVars>>
  /\ routed' = None

-----------------------------------------------------------------------------
(* HTTP sessions.                                                          *)

Live == {h \in Session : session[h] = "live"}
Seen(h) == lastSeen' = [lastSeen EXCEPT ![h] = 0]

HttpConnect(h) ==
  /\ session[h] = "new"
  /\ session' = [session EXCEPT ![h] = "live"]
  /\ queue' = [queue EXCEPT ![h] = <<>>]
  /\ Seen(h)
  /\ bridges' = bridges \cup {h}
  /\ UNCHANGED <<socketVars, consumers, bridgeCapabilities, greeted,
                 consumerSubscriptions, subscribed, pruneIn, rateVars, controlVars>>
  /\ routed' = None

HttpHello(h, caps) ==
  /\ h \in Live /\ Seen(h)
  /\ bridgeCapabilities' = [bridgeCapabilities EXCEPT ![h] = caps]
  /\ greeted' = greeted \cup {h}
  /\ UNCHANGED <<socketVars, bridges, consumers, consumerSubscriptions, subscribed,
                 session, queue, pruneIn, rateVars, controlVars>>
  /\ routed' = None

\* One event of a batch; a missing level becomes info.
HttpEvents(h, m) ==
  /\ h \in Live /\ Seen(h)
  /\ LET msg == [m EXCEPT !.level = IF @ = "none" THEN "info" ELSE @] IN
       \E order \in Orders : Routed(h, msg, Recipients(h, msg, order))
  /\ CountFrame
  /\ UNCHANGED <<socketVars, memberVars, session, queue, pruneIn, bridgeLastScreenshot,
                 sinceShot, tooSoon, controlVars>>

HttpControlResult(h, r) ==
  /\ h \in Live /\ Seen(h)
  /\ <<r, h>> \in held
  /\ Reply(r, h)
  /\ UNCHANGED <<socketVars, memberVars, session, queue, pruneIn, rateVars>>
  /\ routed' = None

\* Faulty: slice instead of splice.
HttpPollSlice(h) ==
  /\ h \in Live /\ Seen(h)
  /\ held' = held \cup {<<queue[h][i], h>> : i \in DOMAIN queue[h]}
  /\ UNCHANGED <<socketVars, memberVars, session, queue, pruneIn, rateVars,
                 pendingControl, asker, results>>
  /\ routed' = None

\* The session takes every queued command.
HttpPoll(h) ==
  /\ h \in Live /\ Seen(h)
  /\ held' = held \cup {<<queue[h][i], h>> : i \in DOMAIN queue[h]}
  /\ queue' = [queue EXCEPT ![h] = <<>>]
  /\ UNCHANGED <<socketVars, memberVars, session, pruneIn, rateVars, pendingControl,
                 asker, results>>
  /\ routed' = None

HttpHeartbeat(h) ==
  /\ h \in Live /\ Seen(h)
  /\ UNCHANGED <<socketVars, memberVars, session, queue, pruneIn, rateVars,
                 controlVars>>
  /\ routed' = None

\* Faulty: httpBridgeSessions keeps the session.
RemoveBridgesOnly(gone) ==
  /\ ForgetBridges(gone)
  /\ UNCHANGED <<session, queue, socketVars, consumers, consumerSubscriptions,
                 subscribed, lastSeen, controlVars>>
  /\ routed' = None

\* removeHttpSession, for a set of sessions.  pendingControl keeps what they were asked.
RemoveSessions(gone) ==
  /\ session' = [h \in Session |-> IF h \in gone THEN "removed" ELSE session[h]]
  /\ queue' = [h \in Session |-> IF h \in gone THEN <<>> ELSE queue[h]]
  /\ ForgetBridges(gone)
  /\ UNCHANGED <<socketVars, consumers, consumerSubscriptions, subscribed, lastSeen,
                 controlVars>>
  /\ routed' = None

HttpDisconnect(h) == h \in Live /\ RemoveSessions({h}) /\ pruneIn' = pruneIn

\* httpPruneTimer.
Prune ==
  /\ pruneIn = 0
  /\ pruneIn' = StaleAfter
  /\ RemoveSessions({h \in Live : lastSeen[h] > StaleAfter})

\* One unit of time, once every expired timer has run.
Tick ==
  /\ pruneIn # 0 /\ \A s \in Socket : authIn[s] # 0
  /\ pruneIn' = pruneIn - 1
  /\ authIn' = [s \in Socket |-> IF authIn[s] = Off THEN Off ELSE authIn[s] - 1]
  /\ lastSeen' = [h \in Session |->
                    IF h \in Live THEN Capped(lastSeen[h] + 1, StaleAfter + 1) ELSE lastSeen[h]]
  /\ bridgeLastScreenshot' = [b \in Bridge |-> Capped(bridgeLastScreenshot[b] + 1, ShotLimit)]
  /\ sinceShot' = [s \in Socket |-> Capped(sinceShot[s] + 1, ShotLimit)]
  /\ windowAge' = Capped(windowAge + 1, WindowLength + 1)
  /\ UNCHANGED <<readyState, isAuthenticated, role, memberVars, session, queue,
                 windowCount, arrived, tooSoon, controlVars>>
  /\ routed' = None

SocketNext(s) ==
  \/ Connect(s) \/ AuthTimeoutFires(s) \/ Authenticate(s) \/ RefuseFrame(s) \/ Close(s)
  \/ \E caps \in Capabilities : Hello(s, caps)
  \/ \E sub \in Subscribes : Subscribe(s, sub)
  \/ \E m \in Messages : Event(s, m) \/ Screenshot(s, m)
  \/ \E r \in Request : BridgeRequest(s, r) \/ ConsumerRequest(s, r) \/ ControlResult(s, r)

SessionNext(h) ==
  \/ HttpConnect(h) \/ HttpPoll(h) \/ HttpHeartbeat(h) \/ HttpDisconnect(h)
  \/ \E caps \in Capabilities : HttpHello(h, caps)
  \/ \E m \in Messages : HttpEvents(h, m)
  \/ \E r \in Request : HttpControlResult(h, r)

Next ==
  \/ \E s \in Socket : SocketNext(s)
  \/ \E h \in Session : SessionNext(h)
  \/ Prune \/ Tick

Spec == Init /\ [][Next]_vars

\* Time passes, expired timers run, and the ws package ends a close handshake that the
\* other side does not answer.
Fairness ==
  /\ WF_vars(Tick) /\ WF_vars(Prune)
  /\ \A s \in Socket : /\ WF_vars(AuthTimeoutFires(s))
                       /\ WF_vars(readyState[s] = "closing" /\ Close(s))
FairSpec == Spec /\ Fairness

-----------------------------------------------------------------------------
(* Properties.                                                             *)

SocketTypes ==
  /\ readyState \in [Socket -> {"none", "open", "closing"}]
  /\ isAuthenticated \in [Socket -> BOOLEAN]
  /\ role \in [Socket -> {"none", "bridge", "consumer", "other"}]
  /\ authIn \in [Socket -> {Off} \cup 0 .. AuthTimeout]

MemberTypes ==
  /\ bridges \subseteq Bridge /\ greeted \subseteq Bridge
  /\ consumers \subseteq Socket /\ subscribed \subseteq Socket
  /\ bridgeCapabilities \in [Bridge -> SUBSET Gated]
  /\ consumerSubscriptions \in [Socket -> Subscription]

SessionTypes ==
  /\ session \in [Session -> {"new", "live", "removed"}]
  /\ queue \in [Session -> Seq(Request)]
  /\ lastSeen \in [Session -> 0 .. StaleAfter + 1]

RateTypes ==
  /\ bridgeLastScreenshot \in [Bridge -> 0 .. ShotLimit]
  /\ windowAge \in 0 .. WindowLength + 1
  /\ windowCount \in 0 .. WindowLimit + 1 /\ arrived \in 0 .. WindowLimit + 1
  /\ sinceShot \in [Socket -> 0 .. ShotLimit] /\ tooSoon \subseteq Socket

ControlTypes ==
  /\ pendingControl \in [Id -> Socket \cup {None}]
  /\ asker \in [Request -> Socket \cup {None}]
  /\ held \subseteq Request \X Bridge
  /\ results \in Seq([request : Request, to : Socket])

\* Every variable has its type.
TypeOK ==
  /\ SocketTypes /\ MemberTypes /\ SessionTypes /\ RateTypes /\ ControlTypes
  /\ pruneIn \in 0 .. StaleAfter

\* The sets and maps hold exactly the authenticated connections and the live sessions:
\* nobody is in them before auth, and whatever the order of late frames, timeouts,
\* closes and pruning, "connection close cleans up subscription and capability state".
MembersConnected ==
  /\ \A s \in Socket :
       /\ s \in bridges <=> isAuthenticated[s] /\ role[s] = "bridge"
       /\ s \in consumers <=> isAuthenticated[s] /\ role[s] = "consumer"
       /\ isAuthenticated[s] => readyState[s] # "none"
  /\ bridges \cap Session = Live
  /\ greeted \subseteq bridges /\ subscribed \subseteq consumers
  /\ \A b \in Bridge : bridgeLastScreenshot[b] < ShotLimit => b \in bridges

\* pendingControl never keeps an entry that would reply to a closed connection.
PendingRepliesConnected ==
  \A id \in Id : pendingControl[id] # None => isAuthenticated[pendingControl[id]]

\* The result of a control request goes to the client that made the request.
ResultToAsker ==
  \A i \in 1 .. Len(results) : results[i].to = asker[results[i].request]

\* A client gets at most one result for a request, however many others it was sent to.
OneResult ==
  \A i, j \in 1 .. Len(results) : results[i].request = results[j].request => i = j

\* Both, for every order of answers, closes, polls and repeated requests.
RoundTrip == ResultToAsker /\ OneResult

\* An HTTP bridge polls each command once.
PolledOnce ==
  \A h \in Session : \A i \in 1 .. Len(queue[h]) :
    /\ <<queue[h][i], h>> \notin held
    /\ \A j \in 1 .. Len(queue[h]) : queue[h][i] = queue[h][j] => i = j

\* Screenshots of one WebSocket connection are routed at least ShotLimit apart.
SocketScreenshotsSpaced == tooSoon = {}

\* The overload guard counts a frame once per consumer, events and control requests
\* alike; so while the frames of the window, times the consumers there can be, stay
\* within the limit, it withholds nothing that would otherwise be routed, whatever
\* connects, subscribes and closes in between; and it never withholds an error.
ConsumerSockets == {s \in Socket : RoleOf[s] = "consumer"}
GuardWithinBounds ==
  [][/\ routed' # None
     /\ \/ arrived' * Cardinality(ConsumerSockets) <= WindowLimit
        \/ routed'.message.level = "error"
     => \A c \in Open :
          ShouldRoute(consumerSubscriptions[c], routed'.message,
                      bridgeCapabilities[routed'.from], FALSE)
            => c \in routed'.to]_vars

\* A connection that does not authenticate is closed.
AuthDeadline ==
  \A s \in Socket :
    readyState[s] # "none" /\ ~isAuthenticated[s]
      ~> readyState[s] = "none" \/ isAuthenticated[s]

\* An HTTP session that falls silent is removed.
SilentSessionsRemoved ==
  \A h \in Session : h \in Live /\ lastSeen[h] > 0 ~> h \notin Live \/ lastSeen[h] = 0

\* Clients that never authenticate, or fall silent in their session, do not stay.
SilentClientsLeave == AuthDeadline /\ SilentSessionsRemoved

=============================================================================
