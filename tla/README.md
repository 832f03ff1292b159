# Code Bridge in TLA+

This directory models [code-bridge](../src/README.md): a development-time hub
that carries console output, errors, screenshots and control requests from
running applications (*bridges*) to tools that watch them (*consumers*). The
modules are translated from the source, TLC checks them on small instances, and
TLAPS proves the safety properties for every instance. Paths below are
those of the repository.

## 1. The system

| Component | Source | State it keeps | Operations | What is hard | Status |
|---|---|---|---|---|---|
| Host: lock, heartbeat, shutdown | `bin/code-bridge-host.js` 18-178, 803-839 | `.code/code-bridge.lock`, `.code/code-bridge.json`, the listening port | start, heartbeat, shutdown, failure | processes interleave between file operations; crashes, torn files, reused pids, sleep | `HostLock` |
| Host: server | same, 180-796 | sets of bridges and consumers, capabilities, subscriptions, pending control requests, HTTP sessions and their queues, rate limits | WebSocket frames, HTTP endpoints, timers | frames after a close, auth timeout, several answers, pruning, limits | `Subscriptions`, `BridgeHost` |
| JavaScript bridge connection | `src/websocket.ts` | socket, reconnect and heartbeat timers, buffer, drop count | connect, send, disconnect, event handlers, control requests | the order of `onerror`, `onclose`, timers and `disconnect()`; half-open connections; bounded buffering; answers to a later socket | `EventStream`, `BridgeWebSocket`; control requests in `BridgeSystem` |
| JavaScript client, instrumentation | `src/client.ts` 22-533, 640-971, `src/throttle.ts` | patched globals, a shared node-network sink list | start, stop, each patched call | several bridges of one process, stopped in any order, in the middle of requests and navigations | `Instrumentation`, without the content of events, breadcrumbs and the throttler |
| JavaScript client, host discovery | `src/client.ts` 974-1086 | none of its own; reads the metadata file and keeps what it found | ensure a host | several processes spawn hosts at once, hosts come and go while it reads | `HostEnsure` |
| MCP consumer and server | `src/mcp/*.ts` | pending control promises, listeners, event buffer | connect, subscribe, send control, close, tools | time-outs racing answers, acknowledgements taken for one another, unsettled promises | `McpConsumer`, composed with the host and bridges in `BridgeSystem`, against `RemoteCalls` |
| Go SDK | `go/codebridge/client.go` | connection, buffer, cancel functions | start, close, send, on_control, heartbeat | goroutines share `conn` without a lock, and may outlive their connection | `GoClient` |
| JavaScript helpers and types | `src/constants.ts`, `src/platform.ts`, `src/types.ts`, `src/host-utils.ts` | none | | | not modelled: the constants are parameters, and the routing helpers of `host-utils.ts` are used by tests only (the host has its own, in `Subscriptions`) |
| SDKs: Python, Ruby, Java, Rust, Swift, PHP, Roblox Lua | `python/`, `ruby/`, `java/`, `rust/`, `swift/`, `php/`, `lua/` | connection, buffer, heartbeat, as in the JavaScript connection | start, stop, send, on_control | threads, awaits and locks of their own | not modelled, see section 6 |
| Protocol test server, tools, demos | `tools/`, `demo/` | | | | not modelled: fixtures |

**Interaction.** A client process reads the metadata file, and when that shows no
healthy host it spawns one, so several hosts may be started at once; they
coordinate through the two files only. A bridge connects by WebSocket (or by HTTP
requests in a session), authenticates with the secret of the metadata file,
announces its capabilities in `hello` and sends events. Consumers authenticate,
`subscribe` with levels, capabilities and a filter, and get the events that the
host routes to them. A control request travels from a consumer to every bridge
with the capability `control` (or from a bridge to consumers); the first result
travels back through the host's `pendingControl` map.

**What makes each component correct.** The lock: one host per workspace, a
host keeps its lock from whoever starts after it, a dead one does not block the
workspace. The
server: members are exactly the authenticated connections and live sessions,
nothing dangles after a close, results go once and to the asker, limits mean what
they say, silent clients are removed. The connection: one socket at a time, auth
first, no event duplicated, reordered or silently lost while buffering, a peer that no longer answers is noticed, always
another attempt until `disconnect()`. Instrumentation: a connected bridge sees what
happens, once, and a stopped one is silent. Discovery: a client never mixes what it
read of two hosts. The control path: each call is carried out at most once by a bridge
and ends once, with its own result.

## 2. Modules

| Module | Models | Notes |
|---|---|---|
| `HostLock` | start-up, heartbeat and exit of any number of host processes over the lock and metadata files | one action per file or socket call |
| `HostEnsure` | client processes next to these hosts | extends `HostLock` |
| `HostHistory` | `HostLock` with a history variable: who may still take the lock of a host | extends `HostLock` |
| `MCHostLock`, `MCHostEnsure`, `MCHostHistory`; `HostLockProofs`, `HostEnsureProofs` | TLC instances; theorems | |
| `EventStream` | the abstract promise about buffered events | refined by `BridgeWebSocket` |
| `BridgeWebSocket` | `class BridgeWebSocket`, its sockets, and as much of the host as answers them | one action per handler, timer or method |
| `HeartbeatHistory` | `BridgeWebSocket` with a history variable: how long a ping has waited for a pong | extends `BridgeWebSocket` |
| `MCBridgeWebSocket`, `BridgeWebSocketProofs` | instances, theorems | |
| `Subscriptions` | the pure routing functions of the host | used by `BridgeHost` |
| `BridgeHost` | the server: one action per frame type, endpoint and timer | |
| `MCBridgeHost`, `BridgeHostProofs` | instances, theorems | |
| `Instrumentation`, `MCInstrumentation`, `InstrumentationProofs` | the bridges of one JavaScript program and its globals; instance, theorems | |
| `McpConsumer`, `McpConsumerProofs` | `startMcpServer` and `HostConsumer` with an arbitrary host; theorems | |
| `RemoteCalls` | the abstract promise about control requests | refined by `BridgeSystem` |
| `BridgeSystem` | `BridgeHost` and `McpConsumer` composed, with bridges that answer control requests | |
| `MCBridgeSystem`, `BridgeSystemProofs` | instance, theorems | |
| `GoClient`, `MCGoClient`, `GoClientProofs` | the Go SDK: its goroutines, connections and buffer; instance, theorems | |

Definitions marked *Faulty* are variants with a plausible bug. No specification
uses them; put in the place of the definition that follows them, they make TLC
find a violation, which shows that a property depends on that line of the code.

### HostLock

`pc[p]` is where process `p` stands: the labels `checking` to `writing` are the
calls of `tryAcquireLock` in order, `probing` to `binding` the rest of
`startServer`, `serving` and `beating` the running host, `stopping`, `leaving` and
`failing` its ways out. `fs.writeFileSync` truncates the file and then writes it,
so each write is two steps with the value `Torn` in between, which is also what a
crash leaves. `age` counts heartbeat intervals since the `heartbeatAt` in the
metadata. `process.kill(pid, 0)` is membership in `alive`: `ReusePid` gives the pid
of an ended host to another program. A process may be suspended at any step. Left
out: `CODE_BRIDGE_SECRET` (with it all hosts share the secret), an unwritable
`.code` directory, editing of the files by hand. `FindAvailablePort` probes a port in
one step; the gap that matters, between the probe and `Listen`, is there.

`HostHistory` adds `excused[q]`: the processes that were starting or stopping when `q`
took the lock, and those that later judged the host `q` while it was not `Healthy`
(suspended, late with its heartbeat, or not the one the metadata names). These do remove
or overwrite its lock: `existsSync`, the judgement, `unlinkSync` and `writeFileSync` are
separate steps, and `releaseLock` reads and unlinks (`lock_race`). `HostKeepsLock` says
that nobody else does.

`CarefulSpec` is the same system when nothing is suspended and a host is started or
stopped only while no other host of its workspace is starting or stopping. The
documented guarantee holds under it and fails under `Spec`.

### HostEnsure

`stage[c]` is where a program stands in `ensureHostIfPossible`: it reads the metadata
(`Look`), spawns a host (`Spawn` is `Start` of `HostLock`, or `SpawnFails`), polls, and
goes on with what it found or with the defaults (`config`). The reading of a file is
one step, as `readFileSync` of a small file is, and may find it torn. `renewed` records
the clients of whose workspace a host has generated a secret since they looked. Left
out: metadata without pid or heartbeat, which older hosts wrote.

### BridgeWebSocket

`cur` is `this.ws`, `state[s]` the `readyState` of socket `s` (with `aborting` for a
socket closed while connecting), `reconnectIn`, `pingIn` and `timeoutIn` the time
left on the timers. `wire[s]` is what was written to `s` and not yet read by the
host. `retry` remembers that the `connect()` in progress was called by the reconnect
timer, whose rejected promise doubles the delay; with the `ws` package that happens
after `onclose` has scheduled the next attempt, in a browser before
(`Platform`). A socket object is reused once it is closed and the host has forgotten
it, so two objects stand for any number. `mayThrow` says whether the constructor can
throw; it never changes. Control requests are in `BridgeSystem`;
truncation and redaction of events are left out.

`unanswered` of `HeartbeatHistory` counts from the first ping after the last pong on an
open connection. A connection may break at any time (`OnClose`), as when the kernel gives up
data that a vanished peer never acknowledges, but nothing says that it does so in time.

`EventStream` says what the application may rely on, without queues: while offline
only the number of missed events is known, and coming back hands over the last
`BufferLimit` of them, in order, and a notice with the number of the rest.

### BridgeHost

The variables are named after the JavaScript ones. A map without an entry is modelled
by a default (`{}` for capabilities, the default subscription), and `greeted` and
`subscribed` hold who has an entry. A message is its type, level and validity; the
types that need no capability are one type, `log`. Time since a stamp replaces the
stamp. Frames still on their way when the host closes a connection are handled, as
the `ws` package does, until the close event. `Orders` is the iteration order of the
consumers, which the overload guard can tell apart. `held`, `asker`, `results`,
`routed`, `arrived`, `sinceShot` and `tooSoon` are what clients know and what was
sent: they record, and guard nothing the host decides. `arrived` counts the frames the
guard looks at in the window, events and control requests of bridges. `RefuseFrame` is
every way a frame closes the connection: a refused `auth`, another first frame, or an
exception that the catch handler turns into 1011. Frames that only acknowledge
are left out.

### Instrumentation

A hook (console, error handler, history, network) is the set of bridges whose wrappers
a call passes through, `patched`; `original[i]` is what bridge `i` saved and restores.
`network` is the state of `instrumentNodeNetwork`, which all bridges of a Node process
share. Workers and React Native have no listeners (`Listens`), only wrappers. A request
remembers the wrappers it went through (`via`) and the signals it has had, for `fetch`, `XMLHttpRequest` and `http` each in the orders they occur in; an
`XMLHttpRequest` that is opened a second time is left out. Each
event handler is one step, as in JavaScript. `under`, `orderly`, `again` and `watching`
record what the program did, for the properties to name their cases.

### McpConsumer, BridgeSystem, RemoteCalls

`outcome` is the promise of each call of `sendControl` and `subscribe`;
`pendingControls` and `listeners` are the map and the event listeners of
`HostConsumer`. A continuation of an `await` is an action of its own, which runs when
the listener that settled the promise has returned, with further frames possibly in
between (`Serve`). Timers have no clock and may run at any time. The host is whatever
sends frames.

`BridgeSystem` makes it the host of `BridgeHost`: `HostReads` takes one frame of the MCP
server and takes the host's action for it, `SendResults` puts the results of the host on
the way to the MCP server, and `BridgeReceives`, `BridgeAnswers` and `AnswerLost` are
`handleIncoming` of `BridgeWebSocket`: the handler runs, and its answer goes to the
socket that is open when it ends. Either side of a connection may notice that it is
closed first; what is on its way is lost. `RemoteCalls` promises that a call ends once,
succeeds only when a bridge has carried it out, and is carried out by a bridge once.

### GoClient

`pc` has an entry for each goroutine: `run()`, one of the application that sends
events, one that calls `Close()`, and a reader for each connection. The heartbeat keeps
no state; its ticks are the action `Tick`. `mu` is `bufMu`. What happens under the mutex
is split only where it can be noticed without it: `c.conn` is read in one step and used in
a later one, and a frame is written in two, so that two writers can meet, which
`gorilla/websocket` answers with a panic or a garbled connection (`BeginWrite`). A nil
`c.conn` panics too; `crashed` ends the program. `wire[k]` has the frames written to
connection `k`, also those whose `WriteMessage` failed, since `flushBuffer` ignores the
error and forgets them like the others. `Accounted` speaks of the places an event can be in (a slot of
the buffer, a place on a wire, the hands of a goroutine that is about to put it there). Ticks, read deadlines, control requests and broken
connections may come at any time. A ping is one step, so that two heartbeats do not meet
each other, and so are `conn.Close()` and `c.conn = nil` in `Leave`: a use of the
connection in between would find it closed, which `Break` allows at any time.

## 3. Runs

Bounds: two or three processes, sockets or clients are enough for every race of the
code, in which a third party can only be another starter, asker or listener; a lock
process is never restarted under the same name. Time constants are 1 or 2 units, the
smallest values that keep their order (initial < maximal delay; which of heartbeat
interval and timeout is shorter is in the table). Buffers hold two events of three, so that
events are kept in order, evicted and counted. Requests are two. Four subscribes let acks
of overlapping calls be on their way while a later call is made. Three bridges of one program
are the smallest number with a middle one, and two URLs tell a navigation from none. Two connections of the Go client
let a goroutine outlive one of them. Counters of the overload guard and ages stop
one above the last value the code can tell apart. No run with liveness uses symmetry.

| Run | Specification and size | Shows |
|---|---|---|
| `lock_full` | `EnsureHistorySpec`, 2 host processes, a client, 254 000 states | `TypeOK`; `HostKeepsLock`: a process started after a host took the lock leaves it alone, unless it judged that host unhealthy; `CompleteLockReclaimable`: dead hosts do not block the workspace, even with a reused pid; `ConfigOfOneHost`: what a client found is of one host of its workspace, whatever hosts did while it read |
| `lock_careful` | `CarefulEnsureSpec`, 3 host processes, a client, 32 000 states | `SingleHost`, `LockNamesHost`, `MetadataLeadsToHost`, and `SecretOutlivesHost`: a client can reconnect with the secret it found after crashes and restarts |
| `socket_safety` | `FairSpec`, browser order, throwing constructor, buffer of two, 3 events, 682 000 states | `TypeOK`, `OneConnection`, `HeartbeatFollowsSocket`, `AuthFirst`, `DeliveredOnce`; `StreamSpec`: it implements `EventStream`, order included; `Reconnects`, unless the constructor can throw. The interval is 2 and the timeout 1, so that `HeartbeatTimeout` fires: with the constants of the code it never does (`socket_heartbeat`) |
| `host_http` | a bridge, a consumer, an HTTP session, two requests, 1.4 M states | `TypeOK`, `MembersConnected`, `PendingRepliesConnected`, `RoundTrip`, `PolledOnce` |
| `host_events` | `FairSpec`, the same clients with a log, a screenshot and a malformed screenshot, 90 000 states | `SocketScreenshotsSpaced`; `GuardWithinBounds`: the overload guard withholds nothing while the frames of the window, times the consumers, are within its limit; `SilentClientsLeave`. More consumers and control requests exceed this run; for the guard the theorem `GuardCounts` covers them |
| `instrumentation` | 3 bridges on each platform, a request, 2 URLs, 1.3 M states | `TypeOK`, `CapturesConnected`, `SinksExact`, `ReportedExactly`, `NavigationCaughtUp`, `NodeSilentAfterStop`: who reports what while bridges start and stop in any order, each under the condition its comment names |
| `control_path` | `SystemSpec`, an MCP server, a bridge, two calls, 157 000 states | `CallsSpec`: it implements `RemoteCalls`; `WaitingHaveTimers`; `CallsEnd`: every call ends unless the server stops |
| `mcp_stream` | `SystemSpec`, four subscribes, three events, a buffer of two, 1.5 M states | `AckIsOwn`: a subscribe that did not overlap another is acknowledged after the host stored it; `BufferHoldsLatest`: the buffer has the latest events, without a gap |
| `go_client` | `FairSpec`, two connections, three events, a buffer of two, 552 000 states | `TypeOK`; `Accounted`: no event twice, none evicted from the buffer uncounted, none left in it; `FlushInOrder`: flushed events are in order and together; `OneReader`: a reader does not outlive its connection; `RunGoesOn`: it reconnects, and stops when cancelled |

Each of the following runs checks one sentence of the documentation, a comment or a
test, and TLC shows a behaviour of the code that contradicts it.

| Run | Property | What happens |
|---|---|---|
| `lock_race` | `SingleHost` | two starts interleave in `tryAcquireLock`, and both serve |
| `socket_stop` | `StoppedStaysStopped` | `onclose` reconnects after `disconnect()` |
| `socket_heartbeat` | `PongInTime` | each ping restarts the timeout, and a connection to a silent peer stays open |

Other disagreements between code and text, which the models show in their actions but
for which there is no run:

- A torn lock file is never cleared, so that nobody can start a host in the workspace
  (`ReadLock`, `CompleteLockReclaimable` excepts it); `demo/test-singleton-lock.js:9`
  says "Stale lock is detected and cleared".
- The metadata file stays after a graceful shutdown (`ShutdownRelease`), where
  `demo/test-singleton-lock.js:116` says that it is cleaned up.
- A host that dies between the truncation and the write of the metadata
  (`LoadSecretAndOpenMeta`, `OpenHeartbeat`) makes the next host generate another
  secret, in spite of the comment at `bin/code-bridge-host.js:110`.
- The port is probed, released and bound later (`FindAvailablePort`, `Listen`), and the
  metadata are written before; a host that loses the port meanwhile goes on and publishes
  one it does not serve (`bin/code-bridge-host.js:90`).
- `spawn` reports a missing command by an `error` event, which nobody listens to, after
  `ensureHostIfPossible` has gone on (`SpawnFails`; `src/client.ts:1012`), and a client
  that gave up keeps the default URL and secret for good (`GiveUp`).
- `hello` and buffered events are written with `auth`, not "after auth success"
  (`OnOpen`; `docs/protocol/README.md:12`).
- Opening a socket resets the back-off, so that a client whose secret is refused retries
  at the initial delay for ever (`OnOpen`; `src/websocket.ts:70`,
  `docs/client-api-spec.md:32`).
- `pendingControl` is keyed by an id the client chooses, so that equal ids of two
  clients collide (`ConsumerRequest`); `ControlRoundTrip` assumes that they differ.
- The overload guard counts events once per consumer, and control requests too
  (`CountBase`; `bin/code-bridge-host.js:218`), where `docs/subscriptions.md:59` gives a
  limit of events; `GuardWithinBounds` states the bound that the code does keep.
- The comment at `bin/code-bridge-host.js:196` says "minimum 10 seconds between
  screenshots per bridge"; the code has 2 seconds (line 199), and screenshots over HTTP
  have no limit at all (`HttpEvents`).
- Events of a bridge without `hello` are withheld when they need a capability
  (`ShouldRoute`), where `docs/subscriptions.md:50` says that the check is skipped.
- A second `disconnect()` takes the sink count down once more and unpatches `http` under
  the bridges that are still attached (`Detach`, `SinksExact` excepts it), where
  `src/__tests__/node-instrumentation.test.ts:98` "keeps patches active while any bridge
  remains".
- A bridge disconnected out of order puts back what it saved: later bridges lose their
  wrappers, or wrappers of stopped ones return (`Restore`, `orderly`).
- A failed `XMLHttpRequest` is reported by `error` and again by `loadend`
  (`XhrSignals`, `ReportedToAttached`).
- Any `subscribe_ack` resolves every `subscribe()` in progress (`OnSubscribeAck`,
  `AckIsOwn` excepts it; `src/mcp/consumer.ts:79`).
- Events that arrive between the first acknowledgement and `consumer.on` are not
  buffered (`Serve`; `src/mcp/server.ts:51`).
- `close()` leaves the promises of calls in progress unsettled (`Stop`, `CallsEnd`
  excepts it; `src/mcp/consumer.ts:107`).
- The Go client may panic: its heartbeat, or `run()` with `auth` and `hello`, writes while
  `enqueue` does, and `c.conn` may be nil when it is used (`Panic`);
  `docs/client-api-spec.md` says "Never crash host app".
- It sends events as soon as `c.conn` is set, before `auth` (`Accept`, `SendNow`), and
  the host closes the connection; `run()` returns when that happens before
  `auth_success` (`AuthFails`), so that the client does not reconnect and further events
  go to the dead connection. `RunGoesOn` is about connections after the handshake.
- `flushBuffer` ignores the errors of `send`, then clears the buffer and the count: what
  was flushed to a connection that had just broken is lost, and no later notice tells of it
  (`EndWrite`, `Flush`; `go/codebridge/client.go:121`). `Accounted` counts such frames as
  placed.
- After `Close()` it reconnects (`Close`, `Leave`), and every ping extends the read
  deadline, pong or no pong (`Tick`).

## 4. Fairness

`HostLock`: weak fairness of `Tick` and of each process' own steps, since the
operating system runs what is not suspended; none for starting, signals, crashes or
resuming. `BridgeWebSocket`: time passes, expired timers run (the event loop), and a
host notices that a socket closed; none for opening, answering or the application.
`BridgeHost`: time passes, `Prune` and the auth timeouts run, and a connection the
host has begun to close ends, which the `ws` package forces after its own timeout
when the other side does not answer; none for clients. `HostEnsure` adds nothing: no
client has to look. `Instrumentation` states safety only. `BridgeSystem`: a timer of
`McpConsumer` that stays set runs, and nothing else has to happen: no host or bridge has
to answer. `GoClient`: goroutines that can go on do, control handlers return, an
`AuthFails` stands for the deadline of the handshake, and a goroutine that
waits for the mutex again and again gets it, as `sync.Mutex` hands it over after a
millisecond; none for dialling, the host, the network and the application. `ReadFails` on
a connection that has broken is fair too: as every ping extends the read deadline, it is
the kernel that ends such a read in the end, when it gives up the unacknowledged pings.

## 5. Proofs

All theorems hold for every value of the constants that meets `ConstantsAssumption`
(and `MetadataAssumption`), which the runs evaluate.

Every invariant and action property of a passing run is the statement of a theorem; where
one needs a hypothesis of its own, the entry below says so.

- **HostLock.** `TypeCorrect`. `HostKeeps` is about `HistorySpec` and needs two
  invariants. `FreshInv`: while the metadata name a process without an overdue timer, their
  age is at most one tick, since a tick makes the heartbeat due and only the write takes
  that back; so who judges a healthy host refuses. `ExcusedInv`: whoever stands between a
  judgement and the lock, or is about to release one, while a host holds it, is excused.
  `CarefulSingleHost` and `CarefulLockNamesHost` need a larger invariant: at
  most one process of a workspace is between starting and serving or on its way out,
  a serving process has its pid in the lock, and one that has decided to reclaim knows
  that nobody serves. `CarefulMetadataLeadsToHost` adds that nobody else writes between
  the truncation and the write of the metadata (`MetadataInv`), and that a port found
  free stays free until it is bound (`PortInv`). The latter holds if all processes are of
  one workspace, which is the theorem's hypothesis: hosts of two workspaces may race
  for a port.
- **HostEnsure.** `HostsUnaffected`: clients are invisible to the hosts, so that the
  invariants of `HostLock` can be used next to them. `ConfigFromOneHost` follows from
  what a file or a client may hold: a whole record that its writer wrote with its own
  port and secret, which it never changes once it has published (`PublishedStays`,
  `FileInv`, `ConfigInv`); torn content is never taken. `SecretKept` relates what a
  client found to every later host: as long as no host generated a secret, the file, when
  readable, and whoever has published hold the client's (`KeptInv`), where a process that
  has not yet read the file holds none.
- **BridgeWebSocket.** `AtMostOneConnection` and `HeartbeatRunsWhileOpen` come from
  one invariant on sockets, `cur` and the timers: only `cur` can be open, and it is
  the only live socket. `TimeoutNeverExpires` adds that the time left on the timeout
  exceeds the time to the next ping, if the interval is shorter than the timeout.
  So it closes nothing, neither a healthy connection nor a dead one. `ImplementsEventStream` rests on `QueueInv`: the buffer is the
  last `Len(buffer)` of the accepted events, and events are dropped only from a full
  one; then the flush is exactly the catch-up of `EventStream`. `AuthIsFirst` and
  `NothingTwice` need `WireInv`: an event on a wire or delivered is numbered below
  those in the buffer, it is in one place only, and a socket that the host has left, or
  not accepted yet, carries nothing, so that a reused socket starts with `auth`. That events
  stay in order is part of `ImplementsEventStream`; `NothingTwice` says that none is
  repeated.
- **BridgeHost.** `TypeCorrect`, `OnlyConnectedMembers`, `NoDanglingReplies`, and
  `ControlRoundTrip`: if requests have different ids, results go to their asker and
  are sent once. Its invariant links the map to the requests: an entry under the id of
  a request names the asker of that request, which has no result yet.
  `ScreenshotsSpaced` needs that the stamp the limit looks at is never older than the
  last screenshot routed, and `CommandsPolledOnce` that whatever is queued or held has
  been asked for, which happens once. `GuardCounts` needs that the guard has never counted more than
  the frames that arrived in the window times the consumers there can be (`GuardInv`),
  through every connect, close and prune: at most one count for each open consumer.
- **Instrumentation.** `TypeCorrect`. `WrappersOfConnected`: bridges that were disconnected
  in order are totally ordered by `under`, and each has saved the wrappers of those under it
  (`Stacked`), so that a restore puts back what the remaining ones need. `SinksAgree` and
  `SilentAfterStop` count the references to the shared patch (`SinkInv`). `NavigationSeen`
  follows a change of the URL to the handlers still to run. `ReportsExact` needs both
  invariants, and that a request a bridge has watched throughout went through its wrapper
  (`Wrapped`).
- **McpConsumer.** `TypeCorrect` and `TimersOfWaitingCalls` are proved with a host that
  may send and take any frame at any time, so that they hold with any host that does
  not change the variables of the consumer.
- **BridgeSystem.** `PartsStep` maps each step of the system to a step of `BridgeHost`
  with arbitrary clients and one of `McpConsumer` with an arbitrary host, or to
  stutters; hence `HostKeepsToSpec` and `ConsumerKeepsToSpec`, and by them
  `SystemRoundTrip` and `SystemTimers` from the theorems about the parts.
  `ImplementsRemoteCalls` needs more: `CallsInv` follows a call on its way. A
  frame to the host asks only for calls that were made (`Asked`), a request on its way to
  a bridge has been asked of the host and has not been run there, and a result on its way
  is of a call that a bridge has run (`Told`). The lemmas
  `CallsConsumerStep`, `CallsHostReads` and `CallsBridgeStep` show which part each kind
  of step disturbs, and `SystemStepMaps` that each step is one of `RemoteCalls` or a
  stutter. `AcksAnswerTheirOwn`: while a call that overlapped no other is unanswered,
  no ack is under way, and of the subscriptions under way its own is read next
  (`AckInv`). "Overlapped" includes a call whose ack is still under way although the
  host has read it: without that the statement is false, which takes four subscribes to
  see. `BufferIsLatest` counts: an event under way is followed by as many as the host has
  sent since, the last of the buffer by all that are under way (`Stream`).
- **GoClient.** `TypeCorrect`. `Effects` states once what each step does to goroutines,
  connections and the buffer, and the other invariants are proved from it. Who holds `mu`
  stands where the mutex is held (`MutexInv`), from the dial on `run()` has the
  connection opened last (`ConnInv`), and what a goroutine is writing is what it will
  record (`WriteInv`). `ReadersEnd` needs that a reader lives only while `run()` watches
  its connection (`ReaderInv`). `EventsAccounted` needs that an event is in one place, in
  increasing order in the buffer (`PlacedInv`), and that those which are nowhere are
  counted (`CountInv`). `FlushOrdered` adds that whatever is about to be written comes
  after what is on the wire, but for events sent before the flush (`OrderInv`).

Only model-checked: the liveness properties (`CompleteLockReclaimable`, `Reconnects`,
`SilentClientsLeave`, `CallsEnd`, `RunGoesOn`), which argue with fairness and are out of
the prover's reach. The properties of the runs that expect a violation are not theorems,
of course.

## 6. Not modelled

- Formatting, logging, the HTTP status codes of refused requests, redaction and
  truncation of events, the content of network, error and navigation events,
  breadcrumbs (a list of the latest few), platform detection, type declarations: no
  state, or none that the properties are about.
- The throttler (`src/throttle.ts`): it counts what one bridge sends per window, on its
  own.
- The configuration of the MCP server, its validation and mapping, and the reading of
  resources, which only formats the event buffer; metadata of older hosts.
- The Python, Ruby, Java, Rust, Swift, PHP and Lua SDKs. `GoClient` has the concurrency of
  the threaded ones in kind, but the others differ in every detail that matters (section
  1 and the hazards in `PROJECT.json` name where), and each needs a module of its own.
  `BridgeHost` has the host's side of the Lua client's sessions.
- The protocol test server, tools and demos are fixtures.

## 7. Plan

1. The lock, the connection and the server with their runs and proofs: done.
2. Discovery, instrumentation, the MCP server and its composition with the host and
   bridges, the refinement of `RemoteCalls`: done, with the proofs of the latter two.
3. The Go client with its proofs; proofs about discovery, instrumentation, the wire of the
   connection, acks, the event buffer and the overload guard: done.
4. Refinements still to state: `HostLock` under careful operation implements a lock with one
   holder per workspace; the buffer of `GoClient` implements a counted `EventStream`, as far
   as its races allow.
5. The other SDKs, one module per concurrency style.
