---------------------------- MODULE BridgeSystem ----------------------------
(***************************************************************************)
(* An MCP server (McpConsumer), the host (BridgeHost) and JavaScript       *)
(* bridges, connected: the path of a control request from the tool to the  *)
(* bridge and back, and that of an event to the MCP server.                *)
(*                                                                         *)
(* Frames between the MCP server and the host wait in toHost and toMcp.    *)
(* Of a bridge, whose connection is that of BridgeWebSocket, only the      *)
(* handling of control requests is here; that its socket is open, and that *)
(* the host has it open, is told apart by frames that are lost.  The host's*)
(* clock stands still: its timers would only close connections, which      *)
(* HostCloses does at any time, and prune HTTP sessions, which are not     *)
(* used here.                                                              *)
(***************************************************************************)
EXTENDS BridgeHost

CONSTANTS
  Consumer,    \* the socket of the MCP server; the others are bridges
  Sub, First,  \* calls of subscribe(), and the one of startMcpServer
  SubOf,       \* the subscription each of them asks for
  Limit,       \* capacity of the EventBuffer
  MaxEvents    \* bound: events routed to the MCP server

VARIABLES
  stage, sock, released, authTimer, outcome, pendingControls, listeners, events,
  toHost, toMcp,   \* those of McpConsumer
  toBridge,        \* pairs of a request and the bridge it is on its way to
  running,         \* pairs whose control handler has not finished
  \* A record of what happened.
  ran,             \* pairs whose control handler was called
  applied,         \* subscriptions the host has stored
  overlapped,      \* subscribe() calls made while another, or its ack, was on its way
  sentEvents       \* number of events the host sent to the MCP server

bridgeVars == <<toBridge, running, ran>>
noteVars   == <<applied, overlapped, sentEvents>>
mcpState   == <<stage, sock, released, authTimer, outcome, pendingControls, listeners, events>>
mcpVars    == <<mcpState, toHost, toMcp>>
systemVars == <<vars, mcpVars, bridgeVars, noteVars>>

Mcp == INSTANCE McpConsumer WITH Call <- Request

ASSUME SystemAssumption ==
  /\ Mcp!ConsumerAssumption
  /\ Consumer \in Socket /\ RoleOf[Consumer] = "consumer"
  /\ \A s \in Socket \ {Consumer} : RoleOf[s] = "bridge"
  /\ SubOf \in [Sub -> Subscribes]

JsBridge == Socket \ {Consumer}

SystemInit ==
  /\ Init /\ Mcp!Init
  /\ toBridge = {} /\ running = {} /\ ran = {}
  /\ applied = {} /\ overlapped = {} /\ sentEvents = 0

-----------------------------------------------------------------------------
(* The MCP server.                                                         *)

\* A subscribe, or the ack of one, is on its way.
Unanswered == \/ \E i \in 1 .. Len(toHost) : toHost[i].kind = "subscribe"
              \/ \E i \in 1 .. Len(toMcp) : toMcp[i].kind = "subscribe_ack"

\* A step of the MCP process on its own.
ConsumerStep ==
  /\ Mcp!ConsumerNext
  /\ overlapped' = IF Unanswered THEN overlapped \cup (listeners' \ listeners) ELSE overlapped
  /\ UNCHANGED <<vars, bridgeVars, applied, sentEvents>>

ConsumerOpens == Mcp!OnOpen /\ Connect(Consumer) /\ UNCHANGED <<bridgeVars, noteVars>>

\* The MCP server notices that its connection failed or was closed.
ConsumerCloses ==
  /\ readyState[Consumer] # "open"
  /\ Mcp!OnClose
  /\ UNCHANGED <<vars, bridgeVars, noteVars>>

-----------------------------------------------------------------------------
(* The host.                                                               *)

\* The results that the host's step sends go to the MCP server as frames.
SendResults(ok) ==
  toMcp' = toMcp \o [i \in 1 .. Len(results') - Len(results) |->
                       Mcp!Result(results'[Len(results) + i].request, ok)]

\* The host reads the next frame of the MCP server.
HostReads ==
  /\ toHost # <<>>
  /\ toHost' = Tail(toHost)
  /\ LET f == Head(toHost) IN
       \/ /\ f.kind = "auth" /\ Authenticate(Consumer)
          /\ toMcp' = Append(toMcp, Mcp!AuthSuccess)
          /\ UNCHANGED <<toBridge, applied>>
       \/ /\ f.kind = "auth" /\ ~isAuthenticated[Consumer] /\ RefuseFrame(Consumer)
          /\ UNCHANGED <<toMcp, toBridge, applied>>
       \/ /\ f.kind = "subscribe" /\ Subscribe(Consumer, SubOf[f.of])
          /\ toMcp' = Append(toMcp, Mcp!SubscribeAck)
          /\ applied' = applied \cup {f.of}
          /\ UNCHANGED toBridge
       \/ /\ f.kind = "control_request" /\ ConsumerRequest(Consumer, f.of)
          /\ SendResults(FALSE)
          /\ toBridge' = toBridge \cup (held' \ held)
          /\ UNCHANGED applied
  /\ UNCHANGED <<mcpState, running, ran, overlapped, sentEvents>>

HostEvent(b, m) ==
  /\ sentEvents < MaxEvents
  /\ Event(b, m)
  /\ IF Consumer \in routed'.to
       THEN /\ sentEvents' = sentEvents + 1
            /\ toMcp' = Append(toMcp, Mcp!BridgeEvent(sentEvents + 1))
       ELSE UNCHANGED <<sentEvents, toMcp>>
  /\ UNCHANGED <<mcpState, toHost, bridgeVars, applied, overlapped>>

\* A connection of the host ends: what its other side wrote is lost.
HostCloses(s) ==
  /\ Close(s)
  /\ toHost' = IF s = Consumer THEN <<>> ELSE toHost
  /\ UNCHANGED <<mcpState, toMcp, toBridge, running, ran, noteVars>>

-----------------------------------------------------------------------------
(* The bridges.                                                            *)

\* A connection replaces an earlier one, with the requests that were on their way.
BridgeConnects(b) ==
  /\ Connect(b)
  /\ toBridge' = {a \in toBridge : a[2] # b}
  /\ UNCHANGED <<mcpVars, running, ran, noteVars>>

\* auth and hello.
BridgeGreets(b) ==
  /\ Authenticate(b) \/ \E caps \in Capabilities : Hello(b, caps)
  /\ UNCHANGED <<mcpVars, bridgeVars, noteVars>>

\* handleIncoming calls the control handler.
BridgeReceives(b, r) ==
  /\ <<r, b>> \in toBridge
  /\ toBridge' = toBridge \ {<<r, b>>}
  /\ running' = running \cup {<<r, b>>}
  /\ ran' = ran \cup {<<r, b>>}
  /\ UNCHANGED <<vars, mcpVars, noteVars>>

\* The control handler of startBridge, or the one of onControl, returns or throws.
HandlerOutcome == BOOLEAN

\* The handler ends, or throws: its result is written to the socket that is current by
\* then, after the auth and hello of that connection, and the host reads it.
BridgeAnswers(b, r) ==
  /\ <<r, b>> \in running
  /\ running' = running \ {<<r, b>>}
  /\ ControlResult(b, r)
  /\ \E ok \in HandlerOutcome : SendResults(ok)
  /\ UNCHANGED <<mcpState, toHost, toBridge, ran, noteVars>>

\* There is no open socket by then, or it is closed before the host has read the result.
AnswerLost(b, r) ==
  /\ <<r, b>> \in running
  /\ running' = running \ {<<r, b>>}
  /\ UNCHANGED <<vars, mcpVars, toBridge, ran, noteVars>>

BridgeStep(b) ==
  \/ BridgeConnects(b) \/ BridgeGreets(b)
  \/ \E r \in Request : BridgeReceives(b, r) \/ BridgeAnswers(b, r) \/ AnswerLost(b, r)
  \/ \E m \in Messages : HostEvent(b, m)

SystemNext ==
  \/ ConsumerStep \/ ConsumerOpens \/ ConsumerCloses
  \/ HostReads \/ \E s \in Socket : HostCloses(s)
  \/ \E b \in JsBridge : BridgeStep(b)

\* The timers of the MCP server run.
SystemFairness ==
  /\ \A k \in Request : WF_mcpVars(Mcp!ControlTimeout(k))
  /\ \A s \in Sub : WF_mcpVars(Mcp!SubscribeTimeout(s))

SystemSpec == SystemInit /\ [][SystemNext]_systemVars /\ SystemFairness

-----------------------------------------------------------------------------
(* Properties.                                                             *)

\* The system implements RemoteCalls: whatever is lost, late or closed on the way, no
\* call ends twice or with the result of another, and none is carried out twice.
Calls == INSTANCE RemoteCalls
           WITH Call    <- Request,
                Bridge  <- JsBridge,
                outcome <- [k \in Request |-> outcome[k]],
                closed  <- stage = "stopped"
CallsSpec == Calls!Spec

\* While the server runs, the calls that wait are those with a timer.
WaitingHaveTimers == Mcp!WaitingHaveTimers

\* A server that serves is subscribed with the host as long as the host keeps the
\* connection; a later subscribe() that is acknowledged has been stored, provided it
\* was not made while another was on its way: acks do not say what they answer.
AckIsOwn ==
  /\ stage = "serving" /\ readyState[Consumer] = "open" => Consumer \in subscribed
  /\ \A s \in Sub : outcome[s] = "resolved" /\ s \notin overlapped => s \in applied

\* The buffer holds the last of the events the host has sent, but for those still on
\* their way, without a gap: what was missed was missed before the server served, or
\* after its connection ended.
Underway == {i \in 1 .. Len(toMcp) : toMcp[i].kind = "event"}
BufferHoldsLatest ==
  /\ Len(events) <= Limit
  /\ \A i \in 1 .. Len(events) - 1 : events[i + 1] = events[i] + 1
  /\ sock \in {"open", "closing"} /\ events # <<>>
       => events[Len(events)] + Cardinality(Underway) = sentEvents

\* Every call ends, unless the server is stopped: also when the bridge or the host
\* goes away, and nothing but the timer of the MCP server tells.
CallsEnd ==
  \A k \in Request : outcome[k] = "waiting" ~> outcome[k] # "waiting" \/ stage = "stopped"

=============================================================================
