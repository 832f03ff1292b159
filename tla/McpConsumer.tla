----------------------------- MODULE McpConsumer -----------------------------
(***************************************************************************)
(* The MCP server: startMcpServer (src/mcp/server.ts) with its HostConsumer*)
(* (src/mcp/consumer.ts) and EventBuffer (src/mcp/event-buffer.ts).        *)
(*                                                                         *)
(* One action per listener, timer or continuation of an await.  A          *)
(* continuation runs when the listener that settled its promise, and the   *)
(* listeners of further frames of the same chunk, have returned.  Timers   *)
(* have no clock here: one that is set may run at any time.  The host is   *)
(* whatever sends frames and takes frames; BridgeSystem makes it the host  *)
(* of BridgeHost.                                                          *)
(***************************************************************************)
EXTENDS Naturals, Sequences

CONSTANTS
  Call,    \* control requests of the tool send_control; each has an id of its own
  Sub,     \* calls of subscribe()
  First,   \* the one startMcpServer makes; the tool subscribe_to_events makes others
  Limit,   \* capacity of the EventBuffer
  None     \* no request

\* What is assumed of them.
ConsumerAssumption ==
  /\ First \in Sub
  /\ Call \cap Sub = {}
  /\ Limit \in Nat \ {0}

VARIABLES
  stage,            \* of startMcpServer
  sock,             \* readyState of its socket
  released,         \* close() has set this.ws to null
  authTimer,        \* the timer of connect() runs
  outcome,          \* of the promise of each call of sendControl and subscribe
  pendingControls,  \* calls with an entry, and a timer, in pendingControls
  listeners,        \* calls of subscribe() whose listener is registered
  events,           \* the content of the EventBuffer
  toHost, toMcp     \* frames on their way

consumerVars == <<stage, sock, released, authTimer, outcome, pendingControls, listeners, events>>
mcpVars      == <<consumerVars, toHost, toMcp>>

Stage   == {"new", "connecting", "connected", "subscribing", "subscribed", "serving",
            "failed", "stopped"}
Outcome == {"none", "waiting", "resolved", "rejected", "timedOut", "refused"}

Frame(kind, of)    == [kind |-> kind, of |-> of]
Auth               == Frame("auth", None)
AuthSuccess        == Frame("auth_success", None)
SubscribeAck       == Frame("subscribe_ack", None)
Result(k, ok)      == Frame(IF ok THEN "control_result" ELSE "control_error", k)
BridgeEvent(n)     == Frame("event", n)

Init ==
  /\ stage = "new" /\ sock = "none" /\ released = FALSE /\ authTimer = FALSE
  /\ outcome = [x \in Call \cup Sub |-> "none"]
  /\ pendingControls = {} /\ listeners = {} /\ events = <<>>
  /\ toHost = <<>> /\ toMcp = <<>>

Write(frame) == toHost' = Append(toHost, frame)

-----------------------------------------------------------------------------
(* connect().                                                              *)

StartServer ==
  /\ stage = "new"
  /\ stage' = "connecting" /\ sock' = "connecting" /\ authTimer' = TRUE
  /\ UNCHANGED <<released, outcome, pendingControls, listeners, events, toHost, toMcp>>

OnOpen ==
  /\ sock = "connecting"
  /\ sock' = "open"
  /\ Write(Auth)
  /\ UNCHANGED <<stage, released, authTimer, outcome, pendingControls, listeners, events, toMcp>>

\* A socket that does not open, or breaks: only connect() listens to its error, and
\* nothing listens to close.
OnClose ==
  /\ sock \in {"connecting", "open", "closing"}
  /\ sock' = "closed"
  /\ toMcp' = <<>>
  /\ \/ stage = "connecting" /\ stage' = "failed"
     \/ ~(stage = "connecting" /\ sock = "connecting") /\ stage' = stage
  /\ UNCHANGED <<released, authTimer, outcome, pendingControls, listeners, events, toHost>>

AuthTimeoutRuns ==
  /\ authTimer
  /\ authTimer' = FALSE
  /\ stage' = IF stage = "connecting" THEN "failed" ELSE stage
  /\ UNCHANGED <<sock, released, outcome, pendingControls, listeners, events, toHost, toMcp>>

-----------------------------------------------------------------------------
(* subscribe(), sendControl(), close().                                    *)

\* subscribe(): the listener is registered and the frame is sent, if the socket is open.
Subscribe(s, after) ==
  /\ outcome[s] = "none"
  /\ IF sock = "open"
       THEN /\ outcome' = [outcome EXCEPT ![s] = "waiting"]
            /\ listeners' = listeners \cup {s}
            /\ Write(Frame("subscribe", s))
            /\ stage' = after
       ELSE /\ outcome' = [outcome EXCEPT ![s] = "refused"]
            /\ stage' = IF s = First THEN "failed" ELSE after
            /\ UNCHANGED <<listeners, toHost>>
  /\ UNCHANGED <<sock, released, authTimer, pendingControls, events, toMcp>>

\* startMcpServer goes on after connect().
SubscribeFirst == stage = "connected" /\ Subscribe(First, "subscribing")

SubscribeTool(s) == stage = "serving" /\ s # First /\ Subscribe(s, stage)

\* Its rejection of a promise that has been resolved has no effect.
SubscribeTimeout(s) ==
  /\ outcome[s] = "waiting" /\ s \in Sub
  /\ outcome' = [outcome EXCEPT ![s] = "timedOut"]
  /\ stage' = IF s = First THEN "failed" ELSE stage
  /\ UNCHANGED <<sock, released, authTimer, pendingControls, listeners, events, toHost, toMcp>>

\* Faulty: the entry is made when the frame has been answered.
SendControlUnregistered(k) ==
  /\ stage = "serving" /\ outcome[k] = "none"
  /\ outcome' = [outcome EXCEPT ![k] = IF sock = "open" THEN "waiting" ELSE "refused"]
  /\ IF sock = "open" THEN Write(Frame("control_request", k)) ELSE UNCHANGED toHost
  /\ UNCHANGED <<stage, sock, released, authTimer, pendingControls, listeners, events, toMcp>>

SendControl(k) ==
  /\ stage = "serving" /\ outcome[k] = "none"
  /\ IF sock = "open"
       THEN /\ outcome' = [outcome EXCEPT ![k] = "waiting"]
            /\ pendingControls' = pendingControls \cup {k}
            /\ Write(Frame("control_request", k))
       ELSE /\ outcome' = [outcome EXCEPT ![k] = "refused"]
            /\ UNCHANGED <<pendingControls, toHost>>
  /\ UNCHANGED <<stage, sock, released, authTimer, listeners, events, toMcp>>

ControlTimeout(k) ==
  /\ k \in pendingControls
  /\ pendingControls' = pendingControls \ {k}
  /\ outcome' = [outcome EXCEPT ![k] = "timedOut"]
  /\ UNCHANGED <<stage, sock, released, authTimer, listeners, events, toHost, toMcp>>

\* stop(), and so close(): entries and timers go, their promises are left as they are.
Stop ==
  /\ stage = "serving"
  /\ stage' = "stopped"
  /\ pendingControls' = {}
  /\ sock' = IF sock = "open" THEN "closing" ELSE sock
  /\ released' = TRUE
  /\ UNCHANGED <<authTimer, outcome, listeners, events, toHost, toMcp>>

-----------------------------------------------------------------------------
(* Frames from the host.                                                   *)

\* The listener of connect(); later ones find it removed.
OnAuthSuccess ==
  /\ stage' = IF stage = "connecting" THEN "connected" ELSE stage
  /\ authTimer' = FALSE
  /\ UNCHANGED <<outcome, pendingControls, listeners, events>>

\* Every listener of subscribe() takes any ack for its own, and is removed unless
\* close() has set this.ws to null.
OnSubscribeAck ==
  /\ outcome' = [x \in Call \cup Sub |-> IF x \in listeners /\ outcome[x] = "waiting"
                                           THEN "resolved" ELSE outcome[x]]
  /\ listeners' = IF released THEN listeners ELSE {}
  /\ stage' = IF stage = "subscribing" THEN "subscribed" ELSE stage
  /\ UNCHANGED <<authTimer, pendingControls, events>>

\* Faulty: the pending call that was made first takes any result.
TakeAnyResult(f) ==
  /\ IF pendingControls # {}
       THEN LET k == CHOOSE k \in pendingControls : TRUE IN
              /\ pendingControls' = pendingControls \ {k}
              /\ outcome' = [outcome EXCEPT ![k] = IF f.kind = "control_result"
                                                     THEN "resolved" ELSE "rejected"]
       ELSE UNCHANGED <<pendingControls, outcome>>
  /\ UNCHANGED <<stage, authTimer, listeners, events>>

\* Faulty: the entry stays, and with it the timer.
ResultKeepsEntry(f) ==
  /\ outcome' = IF f.of \in pendingControls
                  THEN [outcome EXCEPT ![f.of] = IF f.kind = "control_result"
                                                   THEN "resolved" ELSE "rejected"]
                  ELSE outcome
  /\ UNCHANGED <<stage, authTimer, pendingControls, listeners, events>>

\* A result nobody waits for any more has no effect.
OnControlResult(f) ==
  /\ IF f.of \in pendingControls
       THEN /\ pendingControls' = pendingControls \ {f.of}
            /\ outcome' = [outcome EXCEPT ![f.of] = IF f.kind = "control_result"
                                                      THEN "resolved" ELSE "rejected"]
       ELSE UNCHANGED <<pendingControls, outcome>>
  /\ UNCHANGED <<stage, authTimer, listeners, events>>

\* Faulty: a full buffer takes no more.
PushUnlessFull(n) == events' = IF Len(events) < Limit THEN Append(events, n) ELSE events

\* EventBuffer.push: the last Limit events.
Push(n) ==
  events' = IF Len(events) < Limit THEN Append(events, n) ELSE Append(Tail(events), n)

\* startMcpServer listens to bridge-event from the time it is subscribed on.
OnBridgeEvent(f) ==
  /\ IF stage \in {"serving", "stopped"} THEN Push(f.of) ELSE UNCHANGED events
  /\ UNCHANGED <<stage, authTimer, outcome, pendingControls, listeners>>

\* The message listeners; frames still arrive while the socket closes.
Receive ==
  /\ sock \in {"open", "closing"} /\ toMcp # <<>>
  /\ toMcp' = Tail(toMcp)
  /\ LET f == Head(toMcp) IN
       \/ f.kind = "auth_success" /\ OnAuthSuccess
       \/ f.kind = "subscribe_ack" /\ OnSubscribeAck
       \/ f.kind \in {"control_result", "control_error"} /\ OnControlResult(f)
       \/ f.kind = "event" /\ OnBridgeEvent(f)
  /\ UNCHANGED <<sock, released, toHost>>

\* Faulty: startMcpServer does not await subscribe().
ServeAtOnce ==
  /\ stage \in {"subscribing", "subscribed"}
  /\ stage' = "serving"
  /\ UNCHANGED <<sock, released, authTimer, outcome, pendingControls, listeners, events,
                 toHost, toMcp>>

\* startMcpServer goes on after subscribe().
Serve ==
  /\ stage = "subscribed"
  /\ stage' = "serving"
  /\ UNCHANGED <<sock, released, authTimer, outcome, pendingControls, listeners, events,
                 toHost, toMcp>>

\* What happens inside the MCP process.
ConsumerNext ==
  \/ StartServer \/ AuthTimeoutRuns \/ SubscribeFirst \/ Serve \/ Receive \/ Stop
  \/ \E s \in Sub : SubscribeTool(s) \/ SubscribeTimeout(s)
  \/ \E k \in Call : SendControl(k) \/ ControlTimeout(k)

-----------------------------------------------------------------------------
(* The other side, about which nothing is assumed.                         *)

HostFrame == [kind : {"auth_success", "subscribe_ack"}, of : {None}] \cup
             [kind : {"control_result", "control_error"}, of : Call] \cup
             [kind : {"event"}, of : Nat]

\* The host takes a frame, or all of them are lost with the connection; it sends some.
HostNext ==
  /\ toHost' \in {toHost, <<>>} \/ (toHost # <<>> /\ toHost' = Tail(toHost))
  /\ toMcp' = toMcp \/ \E f \in HostFrame : toMcp' = Append(toMcp, f)
  /\ UNCHANGED consumerVars

Next == ConsumerNext \/ OnOpen \/ OnClose \/ HostNext

Spec == Init /\ [][Next]_mcpVars

-----------------------------------------------------------------------------
(* Properties.                                                             *)

\* Every variable has its type.
TypeOK ==
  /\ stage \in Stage
  /\ sock \in {"none", "connecting", "open", "closing", "closed"}
  /\ released \in BOOLEAN /\ authTimer \in BOOLEAN
  /\ outcome \in [Call \cup Sub -> Outcome]
  /\ pendingControls \subseteq Call /\ listeners \subseteq Sub
  /\ events \in Seq(Nat)
  /\ toMcp \in Seq(HostFrame)

\* While the server runs, exactly the calls that have not been answered have an entry
\* with a timer: whatever frames arrive, late, twice or for nobody, none waits without
\* a timer, and no timer is left to reject a call that was answered.
WaitingHaveTimers ==
  \A k \in Call : IF stage = "stopped" THEN k \notin pendingControls
                  ELSE k \in pendingControls <=> outcome[k] = "waiting"

=============================================================================
