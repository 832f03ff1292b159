--------------------------- MODULE BridgeWebSocket ---------------------------
(***************************************************************************)
(* The connection of the JavaScript bridge client: class BridgeWebSocket   *)
(* of src/websocket.ts, with the sockets it constructs and as much of the  *)
(* host as answers them.                                                   *)
(*                                                                         *)
(* One action per handler, timer or method.  Handlers run to completion on *)
(* the JavaScript thread; the network, the host and the application choose *)
(* when sockets open, fail and close, when frames arrive and when events   *)
(* are sent.  Timers count down in Tick, and a timer that has reached zero *)
(* runs before time goes on.                                               *)
(***************************************************************************)
EXTENDS Integers, Sequences, FiniteSets

CONSTANTS
  Sock,          \* socket objects; a closed one that the host has left is reused
  Platform,      \* "node", or "web" for browsers and React Native
  BufferLimit,   \* BUFFER_LIMIT
  HbInterval,    \* HEARTBEAT_INTERVAL_MS
  HbTimeout,     \* HEARTBEAT_TIMEOUT_MS
  InitialDelay,  \* RECONNECT_INITIAL_DELAY_MS
  MaxDelay,      \* RECONNECT_MAX_DELAY_MS
  MaxEvents,     \* bound: events the application sends
  None           \* this.ws = null

ASSUME ConstantsAssumption ==
  /\ None \notin Sock
  /\ Platform \in {"node", "web"}
  /\ BufferLimit \in Nat \ {0}
  /\ {HbInterval, HbTimeout, InitialDelay, MaxDelay} \subseteq Nat \ {0}
  /\ InitialDelay <= MaxDelay
  /\ MaxEvents \in Nat

VARIABLES
  phase,        \* "new", then "started" by startBridge, then "stopped" by disconnect
  cur,          \* this.ws
  state,        \* state[s]: readyState of socket s
  retry,        \* the connect() in progress was called by the reconnect timer
  reconnectIn,  \* time left on reconnectTimeout
  delay,        \* reconnectDelay
  pingIn,       \* time left on heartbeatInterval
  timeoutIn,    \* time left on heartbeatTimeout
  buffer,       \* events not yet handed to a socket
  dropped,      \* events evicted from the buffer and not yet reported
  sent,         \* number of events the application has sent
  log,          \* event and notice frames handed to sockets, in order
  wire,         \* wire[s]: frames written to s that the host has not read
  host,         \* host[s]: what the host makes of s
  delivered,    \* event frames the host has accepted
  secretValid,  \* whether the host accepts this client's secret
  mayThrow,     \* whether the WebSocket constructor can throw
  silent        \* sockets whose peer has vanished without closing

clientVars == <<phase, cur, state, retry>>
timerVars  == <<reconnectIn, delay, pingIn, timeoutIn>>
queueVars  == <<buffer, dropped, sent, log>>
envVars    == <<secretValid, mayThrow>>   \* never change
netVars    == <<wire, host, delivered, envVars, silent>>
vars       == <<clientVars, timerVars, queueVars, netVars>>

\* Timer values: null, or the handle of a timeout that has run.
Off   == -1
Fired == -2

Live == {"connecting", "aborting", "open", "closing"}

Auth      == [kind |-> "auth", n |-> 0]
Hello     == [kind |-> "hello", n |-> 0]
Event(i)  == [kind |-> "event", n |-> i]
Notice(k) == [kind |-> "notice", n |-> k]
Frame     == [kind : {"auth", "hello", "event", "notice"}, n : Nat]

Init ==
  /\ phase = "new" /\ cur = None /\ retry = FALSE
  /\ state = [s \in Sock |-> "closed"]
  /\ reconnectIn = Off /\ delay = InitialDelay
  /\ pingIn = Off /\ timeoutIn = Off
  /\ buffer = <<>> /\ dropped = 0 /\ sent = 0 /\ log = <<>>
  /\ wire = [s \in Sock |-> <<>>]
  /\ host = [s \in Sock |-> "gone"]
  /\ delivered = <<>>
  /\ secretValid \in BOOLEAN /\ mayThrow \in BOOLEAN
  /\ silent = {}

-----------------------------------------------------------------------------
(* Helpers of the class.                                                   *)

\* this.ws?.readyState === 1
IsOpen == cur # None /\ state[cur] = "open"

\* Faulty: without Math.min.
DoubledUncapped(d) == d * 2

Doubled(d) == IF d * 2 < MaxDelay THEN d * 2 ELSE MaxDelay

\* Faulty: clears the interval only.
StopInterval == pingIn' = Off /\ timeoutIn' = timeoutIn

StopHeartbeat == pingIn' = Off /\ timeoutIn' = Off

\* Faulty: gives up at the maximal delay.
ReconnectUnlessMax(d) == reconnectIn' = IF d = MaxDelay THEN Off ELSE d

\* scheduleReconnect with a reconnectDelay of d: one timer at a time.
ScheduleReconnect(d) == reconnectIn' = IF reconnectIn # Off THEN reconnectIn ELSE d

\* Faulty: beyond the limit the new event is dropped.
EnqueueOrDrop(ev) ==
  IF Len(buffer) >= BufferLimit
    THEN buffer' = buffer /\ dropped' = dropped + 1
    ELSE buffer' = Append(buffer, ev) /\ dropped' = dropped

\* enqueue: beyond the limit the oldest event gives way and is counted.
Enqueue(ev) ==
  IF Len(buffer) >= BufferLimit
    THEN buffer' = Append(Tail(buffer), ev) /\ dropped' = dropped + 1
    ELSE buffer' = Append(buffer, ev) /\ dropped' = dropped

\* Faulty: hello before auth.
HelloFirst == <<Hello, Auth>>

\* What onopen writes before the buffer.
Greeting == <<Auth, Hello>>

DropNotice == IF dropped > 0 THEN <<Notice(dropped)>> ELSE <<>>

\* Faulty: pop() instead of shift().
FlushedBackwards == [i \in 1 .. Len(buffer) |-> buffer[Len(buffer) + 1 - i]] \o DropNotice

\* What flushBuffer writes: the buffered events, then the number of dropped ones.
Flushed == buffer \o DropNotice

\* ws.send of some frames on the open socket s; without a host they go nowhere.
Write(s, frames) ==
  wire' = IF host[s] = "gone" THEN wire ELSE [wire EXCEPT ![s] = @ \o frames]

\* Effect of ws.close() on a readyState.
Closing(r) == CASE r = "connecting" -> "aborting" [] r = "open" -> "closing" [] OTHER -> r

CloseCurrent ==
  state' = IF cur = None THEN state ELSE [state EXCEPT ![cur] = Closing(@)]

-----------------------------------------------------------------------------
(* connect().                                                              *)

\* The constructor succeeds: this.ws is socket s, connecting.
Construct(s) ==
  /\ state[s] = "closed" /\ host[s] = "gone" /\ wire[s] = <<>>
  /\ cur' = s
  /\ state' = [state EXCEPT ![s] = "connecting"]
  /\ silent' = silent \ {s}

\* startBridge calls connect(); a failure is only logged.
StartBridge ==
  /\ phase = "new"
  /\ phase' = "started"
  /\ \/ \E s \in Sock : Construct(s)
     \/ mayThrow /\ UNCHANGED <<cur, state, silent>>
  /\ UNCHANGED <<retry, timerVars, queueVars, wire, host, delivered, envVars>>

\* Faulty: an interval instead of a timeout.
ReconnectRepeats ==
  /\ reconnectIn = 0
  /\ reconnectIn' = delay
  /\ \E s \in Sock : Construct(s) /\ retry' = TRUE /\ delay' = delay
  /\ UNCHANGED <<phase, pingIn, timeoutIn, queueVars, wire, host, delivered, envVars>>

\* The reconnect timer: the rejection of a constructor that throws doubles the
\* delay, but nothing schedules another attempt.
ReconnectFires ==
  /\ reconnectIn = 0
  /\ reconnectIn' = Off
  /\ \/ \E s \in Sock : Construct(s) /\ retry' = TRUE /\ delay' = delay
     \/ mayThrow /\ delay' = Doubled(delay) /\ UNCHANGED <<cur, state, silent, retry>>
  /\ UNCHANGED <<phase, pingIn, timeoutIn, queueVars, wire, host, delivered, envVars>>

\* onopen: auth, hello and the buffer are written at once; auth_success is not awaited.
OnOpen(s) ==
  /\ state[s] = "connecting" /\ cur = s
  /\ state' = [state EXCEPT ![s] = "open"]
  /\ host' = [host EXCEPT ![s] = "unauthenticated"]
  /\ delay' = InitialDelay
  /\ pingIn' = HbInterval /\ timeoutIn' = Off
  /\ wire' = [wire EXCEPT ![s] = @ \o Greeting \o Flushed]
  /\ log' = log \o Flushed
  /\ buffer' = <<>> /\ dropped' = 0
  /\ UNCHANGED <<phase, cur, retry, reconnectIn, sent, delivered, envVars, silent>>

\* onerror and onclose of a socket that never opened.  With the ws package both
\* run before the rejected promise's handler doubles the delay; in a browser the
\* handler runs between them.
OnConnectFailure(s) ==
  /\ state[s] \in {"connecting", "aborting"}
  /\ state' = [state EXCEPT ![s] = "closed"]
  /\ delay' = IF retry THEN Doubled(delay) ELSE delay
  /\ StopHeartbeat
  /\ ScheduleReconnect(IF Platform = "node" THEN delay ELSE delay')
  /\ UNCHANGED <<phase, cur, retry, queueVars, netVars>>

\* onclose of a socket that was open, after a close handshake or an error.
OnClose(s) ==
  /\ state[s] \in {"open", "closing"}
  /\ state' = [state EXCEPT ![s] = "closed"]
  /\ StopHeartbeat
  /\ ScheduleReconnect(delay)
  /\ UNCHANGED <<phase, cur, retry, delay, queueVars, netVars>>

-----------------------------------------------------------------------------
(* Methods the application calls.                                          *)

\* Faulty: events are buffered for a retry even when they were written.
SendAndKeep ==
  /\ sent < MaxEvents
  /\ sent' = sent + 1
  /\ IF IsOpen THEN Write(cur, <<Event(sent + 1)>>) ELSE wire' = wire
  /\ Enqueue(Event(sent + 1))
  /\ UNCHANGED <<clientVars, timerVars, log, host, delivered, envVars, silent>>

Send ==
  /\ sent < MaxEvents
  /\ sent' = sent + 1
  /\ IF IsOpen
       THEN /\ Write(cur, <<Event(sent + 1)>>)
            /\ log' = Append(log, Event(sent + 1))
            /\ UNCHANGED <<buffer, dropped>>
       ELSE Enqueue(Event(sent + 1)) /\ UNCHANGED <<wire, log>>
  /\ UNCHANGED <<clientVars, timerVars, host, delivered, envVars, silent>>

Disconnect ==
  /\ phase # "new"
  /\ phase' = "stopped"
  /\ reconnectIn' = Off
  /\ StopHeartbeat
  /\ CloseCurrent
  /\ cur' = None
  /\ UNCHANGED <<retry, delay, queueVars, netVars>>

-----------------------------------------------------------------------------
(* Heartbeat.                                                              *)

\* The interval: send a ping and arm the timeout anew.
Ping ==
  /\ pingIn = 0
  /\ pingIn' = HbInterval
  /\ timeoutIn' = HbTimeout
  /\ UNCHANGED <<clientVars, reconnectIn, delay, queueVars, netVars>>

\* A pong restarts a timeout that has been armed, while the socket closes too.
OnPong(s) ==
  /\ state[s] \in {"open", "closing"} /\ s \notin silent /\ host[s] = "bridge"
  /\ timeoutIn # Off
  /\ timeoutIn' = HbTimeout
  /\ UNCHANGED <<clientVars, reconnectIn, delay, pingIn, queueVars, netVars>>

HeartbeatTimeout ==
  /\ timeoutIn = 0
  /\ timeoutIn' = Fired
  /\ CloseCurrent
  /\ UNCHANGED <<phase, cur, retry, reconnectIn, delay, pingIn, queueVars, netVars>>

\* One unit of time, once every expired timer has run.
CountDown(t) == IF t > 0 THEN t - 1 ELSE t
Tick ==
  /\ 0 \notin {reconnectIn, pingIn, timeoutIn}
  /\ reconnectIn' = CountDown(reconnectIn)
  /\ pingIn' = CountDown(pingIn)
  /\ timeoutIn' = CountDown(timeoutIn)
  /\ UNCHANGED <<clientVars, delay, queueVars, netVars>>

-----------------------------------------------------------------------------
(* The host and the network.                                               *)

\* The host reads the next frame of s: the first must be a valid auth.
HostReceive(s) ==
  /\ wire[s] # <<>> /\ host[s] # "gone" /\ s \notin silent
  /\ IF host[s] = "bridge" \/ (Head(wire[s]) = Auth /\ secretValid)
       THEN /\ wire' = [wire EXCEPT ![s] = Tail(@)]
            /\ host' = [host EXCEPT ![s] = "bridge"]
       ELSE /\ wire' = [wire EXCEPT ![s] = <<>>]
            /\ host' = [host EXCEPT ![s] = "gone"]
  /\ delivered' = IF host[s] = "bridge" /\ Head(wire[s]).kind = "event"
                    THEN Append(delivered, Head(wire[s])) ELSE delivered
  /\ UNCHANGED <<clientVars, timerVars, queueVars, envVars, silent>>

\* The host closes s, is stopped, or notices that s is gone: unread frames are lost.
HostLoses(s) ==
  /\ host[s] # "gone"
  /\ host' = [host EXCEPT ![s] = "gone"]
  /\ wire' = [wire EXCEPT ![s] = <<>>]
  /\ UNCHANGED <<clientVars, timerVars, queueVars, delivered, envVars, silent>>

\* The peer of s vanishes without a close: nothing arrives in either direction.
PeerVanishes(s) ==
  /\ state[s] = "open" /\ s \notin silent
  /\ silent' = silent \cup {s}
  /\ UNCHANGED <<clientVars, timerVars, queueVars, wire, host, delivered, envVars>>

Timers == ReconnectFires \/ Ping \/ HeartbeatTimeout

Next ==
  \/ StartBridge \/ Send \/ Disconnect \/ Timers \/ Tick
  \/ \E s \in Sock : \/ OnOpen(s) \/ OnConnectFailure(s) \/ OnClose(s) \/ OnPong(s)
                     \/ HostReceive(s) \/ HostLoses(s) \/ PeerVanishes(s)

Spec == Init /\ [][Next]_vars

\* Time passes, expired timers run, and a host notices that a socket has closed.
Fairness ==
  /\ WF_vars(Tick) /\ WF_vars(Timers)
  /\ \A s \in Sock : WF_vars(state[s] = "closed" /\ HostLoses(s))
FairSpec == Spec /\ Fairness

-----------------------------------------------------------------------------
(* Properties.                                                             *)

\* Every variable has its type.
TypeOK ==
  /\ phase \in {"new", "started", "stopped"}
  /\ cur \in Sock \cup {None}
  /\ state \in [Sock -> Live \cup {"closed"}]
  /\ retry \in BOOLEAN /\ secretValid \in BOOLEAN /\ mayThrow \in BOOLEAN
  /\ reconnectIn \in {Off} \cup 0 .. MaxDelay
  /\ delay \in InitialDelay .. MaxDelay
  /\ pingIn \in {Off} \cup 0 .. HbInterval
  /\ timeoutIn \in {Off, Fired} \cup 0 .. HbTimeout
  /\ buffer \in Seq(Frame) /\ log \in Seq(Frame) /\ delivered \in Seq(Frame)
  /\ dropped \in Nat /\ sent \in 0 .. MaxEvents
  /\ wire \in [Sock -> Seq(Frame)]
  /\ host \in [Sock -> {"gone", "unauthenticated", "bridge"}]
  /\ silent \subseteq Sock

\* The client never has two connections, or a connection and a pending reconnect,
\* at the same time: whatever the order of errors, closes, timers and disconnect().
OneConnection ==
  /\ \A s, t \in Sock : state[s] \in Live /\ state[t] \in Live => s = t
  /\ reconnectIn # Off => \A s \in Sock : state[s] = "closed"

\* The heartbeat runs exactly while this.ws is connected: the close handler of an
\* earlier socket never stops the heartbeat of a later one, and none is left behind.
HeartbeatFollowsSocket ==
  /\ IsOpen => pingIn # Off
  /\ pingIn # Off => cur # None /\ state[cur] \in {"open", "closing"}
  /\ pingIn = Off => timeoutIn = Off

\* The first frame the host reads on a socket is auth, and no other frame is:
\* otherwise it would close the connection with "Authentication required".
AuthFirst ==
  \A s \in Sock :
    /\ host[s] = "unauthenticated" => wire[s] # <<>> /\ wire[s][1] = Auth
    /\ \A i \in 1 .. Len(wire[s]) : wire[s][i] = Auth => i = 1 /\ host[s] = "unauthenticated"

\* No event reaches the host twice, over any number of connections.
DeliveredOnce ==
  \A i, j \in 1 .. Len(delivered) : delivered[i] = delivered[j] => i = j

\* The client implements the event stream it promises: direct sends, buffering,
\* eviction and the flush on open hand over what EventStream hands over.
Stream == INSTANCE EventStream
            WITH Limit    <- BufferLimit,
                 online   <- IsOpen,
                 accepted <- sent,
                 missed   <- Len(buffer) + dropped,
                 handed   <- log
StreamSpec == Stream!Spec

\* A closed connection is followed by another attempt, until disconnect(), unless the
\* constructor can throw: a throw in the reconnect timer ends the attempts.
Reconnects ==
  ~mayThrow /\ phase = "started" /\ cur # None /\ ~(\E s \in Sock : state[s] \in Live)
    ~> phase = "stopped" \/ \E s \in Sock : state[s] = "connecting"

\* disconnect() is a "graceful shutdown": no connection is made after it.
StoppedStaysStopped ==
  [][phase = "stopped" =>
       \A s \in Sock : state'[s] = "connecting" => state[s] = "connecting"]_vars

=============================================================================
