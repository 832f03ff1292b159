-------------------------- MODULE BridgeSystemProofs --------------------------
(***************************************************************************)
(* Theorems about BridgeSystem: what is proved of the host and of the MCP  *)
(* server, each with arbitrary partners, holds when they are connected,    *)
(* and the connected system implements RemoteCalls.                        *)
(***************************************************************************)
EXTENDS BridgeSystem, BridgeHostProofs

\* The theorems about McpConsumer, with the operators they speak of.
McpThm == INSTANCE McpConsumerProofs WITH Call <- Request

LEMMA SameSteps ==
  /\ Mcp!ConsumerNext => McpThm!ConsumerNext
  /\ Mcp!OnOpen => McpThm!OnOpen
  /\ Mcp!OnClose => McpThm!OnClose
  <1>1. Mcp!ConsumerNext => McpThm!ConsumerNext
    BY DEF Mcp!ConsumerNext, McpThm!ConsumerNext, Mcp!StartServer, McpThm!StartServer,
           Mcp!AuthTimeoutRuns, McpThm!AuthTimeoutRuns, Mcp!SubscribeFirst,
           McpThm!SubscribeFirst, Mcp!Serve, McpThm!Serve, Mcp!Receive, McpThm!Receive,
           Mcp!Stop, McpThm!Stop, Mcp!SubscribeTool, McpThm!SubscribeTool,
           Mcp!SubscribeTimeout, McpThm!SubscribeTimeout, Mcp!SendControl,
           McpThm!SendControl, Mcp!ControlTimeout, McpThm!ControlTimeout,
           Mcp!Subscribe, McpThm!Subscribe, Mcp!Write, McpThm!Write, Mcp!Frame,
           McpThm!Frame, Mcp!OnAuthSuccess, McpThm!OnAuthSuccess, Mcp!OnSubscribeAck,
           McpThm!OnSubscribeAck, Mcp!OnControlResult, McpThm!OnControlResult,
           Mcp!OnBridgeEvent, McpThm!OnBridgeEvent, Mcp!Push, McpThm!Push
  <1>2. Mcp!OnOpen => McpThm!OnOpen
    BY DEF Mcp!OnOpen, McpThm!OnOpen, Mcp!Write, McpThm!Write, Mcp!Auth, McpThm!Auth,
           Mcp!Frame, McpThm!Frame
  <1>3. Mcp!OnClose => McpThm!OnClose
    BY DEF Mcp!OnClose, McpThm!OnClose
  <1> QED
    BY <1>1, <1>2, <1>3

-----------------------------------------------------------------------------
(* The parts keep to their specifications.                                 *)

\* What the MCP server writes.
HostBound == [kind : {"auth"}, of : {None}] \cup
             [kind : {"subscribe"}, of : Sub] \cup
             [kind : {"control_request"}, of : Request]

SystemInv ==
  /\ TypeOK /\ McpThm!TimerInv
  /\ toHost \in Seq(HostBound) /\ sentEvents \in Nat

\* Adding a frame, or none, for what a step of the host adds to the results.
LEMMA ResultFrames ==
  ASSUME SystemInv, NEW ok \in BOOLEAN, SendResults(ok), NEW r \in Request,
         \/ results' = results
         \/ \E s \in Socket : results' = Append(results, [request |-> r, to |-> s])
  PROVE  toMcp' = toMcp \/ toMcp' = Append(toMcp, Mcp!Result(r, ok))
  <1>1. /\ results \in Seq([request : Request, to : Socket])
        /\ toMcp \in Seq(McpThm!HostFrame)
    BY DEF SystemInv, TypeOK, ControlTypes, McpThm!TimerInv, McpThm!TypeOK
  <1>2. CASE results' = results
    <2>1. toMcp' = toMcp \o [i \in 1 .. 0 |-> Mcp!Result(results'[Len(results) + i].request, ok)]
      BY <1>1, <1>2, LenProperties DEF SendResults
    <2>2. [i \in 1 .. 0 |-> Mcp!Result(results'[Len(results) + i].request, ok)] = <<>>
      OBVIOUS
    <2> QED
      BY <1>1, <1>2, <2>1, <2>2, ConcatEmptySeq
  <1>3. ASSUME NEW s \in Socket,
               results' = Append(results, [request |-> r, to |-> s])
        PROVE  toMcp' = Append(toMcp, Mcp!Result(r, ok))
    <2> DEFINE res == [request |-> r, to |-> s]
               new == [i \in 1 .. 1 |-> Mcp!Result(results'[Len(results) + i].request, ok)]
    <2>1. Len(results') - Len(results) = 1 /\ results'[Len(results) + 1] = res
      BY <1>1, <1>3, AppendProperties, LenProperties
    <2>2. toMcp' = toMcp \o new
      BY <2>1 DEF SendResults
    <2>3. new = <<Mcp!Result(r, ok)>>
      BY <2>1
    <2>4. Mcp!Result(r, ok) \in McpThm!HostFrame
      BY DEF Mcp!Result, Mcp!Frame, McpThm!HostFrame
    <2> QED
      BY <1>1, <2>2, <2>3, <2>4, AppendIsConcat
  <1> QED
    BY <1>2, <1>3

\* A client's result, or a request that finds no bridge, adds one result at most.
LEMMA AtMostOneResult ==
  ASSUME SystemInv, NEW r \in Request, NEW s \in Socket,
         ConsumerRequest(s, r) \/ ControlResult(s, r)
  PROVE  \/ results' = results
         \/ \E t \in Socket : results' = Append(results, [request |-> r, to |-> t])
  <1>1. CASE ConsumerRequest(s, r)
    BY <1>1 DEF ConsumerRequest
  <1>2. CASE ControlResult(s, r)
    <2>1. pendingControl[IdOf[r]] \in Socket \cup {None}
      BY ConstantsAssumption DEF SystemInv, TypeOK, ControlTypes
    <2> QED
      BY <1>2, <2>1 DEF ControlResult, Reply
  <1> QED
    BY <1>1, <1>2

\* The frames the MCP server writes have their types.
LEMMA WrittenTyped == SystemInv /\ Mcp!ConsumerNext => toHost' \in Seq(HostBound)
  <1> SUFFICES ASSUME SystemInv, Mcp!ConsumerNext PROVE toHost' \in Seq(HostBound)
    OBVIOUS
  <1> USE SystemAssumption DEF Mcp!ConsumerAssumption, SystemInv
  <1>1. \A f \in HostBound : Append(toHost, f) \in Seq(HostBound)
    BY AppendProperties
  <1>2. \A s \in Sub : Mcp!Frame("subscribe", s) \in HostBound
    BY DEF Mcp!Frame, HostBound
  <1>3. \A k \in Request : Mcp!Frame("control_request", k) \in HostBound
    BY DEF Mcp!Frame, HostBound
  <1>4. ASSUME NEW s \in Sub, NEW after, Mcp!Subscribe(s, after)
        PROVE  toHost' \in Seq(HostBound)
    BY <1>1, <1>2, <1>4 DEF Mcp!Subscribe, Mcp!Write
  <1>5. ASSUME NEW k \in Request, Mcp!SendControl(k) PROVE toHost' \in Seq(HostBound)
    BY <1>1, <1>3, <1>5 DEF Mcp!SendControl, Mcp!Write
  <1>6. CASE Mcp!SubscribeFirst
    BY <1>4, <1>6 DEF Mcp!SubscribeFirst
  <1>7. ASSUME NEW s \in Sub, Mcp!SubscribeTool(s) PROVE toHost' \in Seq(HostBound)
    BY <1>4, <1>7 DEF Mcp!SubscribeTool
  <1>8. CASE UNCHANGED toHost
    BY <1>8
  <1> QED
    BY <1>5, <1>6, <1>7, <1>8
       DEF Mcp!ConsumerNext, Mcp!StartServer, Mcp!AuthTimeoutRuns, Mcp!Serve, Mcp!Receive,
           Mcp!Stop, Mcp!SubscribeTimeout, Mcp!ControlTimeout

\* The host reads a frame: a step of its own, which sends the MCP server a frame or none.
LEMMA HostReadsStep ==
  ASSUME SystemInv, HostReads
  PROVE  [Next]_vars /\ McpThm!HostNext /\ toHost' \in Seq(HostBound)
  <1> USE SystemAssumption
  <1> DEFINE f == Head(toHost)
  <1>1. f \in HostBound /\ toHost' \in Seq(HostBound)
    BY HeadTailProperties DEF HostReads, SystemInv
  <1>2. UNCHANGED mcpState /\ toHost # <<>> /\ toHost' = Tail(toHost)
    BY DEF HostReads
  <1>3. UNCHANGED mcpState => UNCHANGED McpThm!consumerVars
    BY DEF mcpState, McpThm!consumerVars
  <1> USE DEF Next, SocketNext, McpThm!HostNext
  <1>4. CASE f.kind = "auth" /\ Authenticate(Consumer) /\ toMcp' = Append(toMcp, Mcp!AuthSuccess)
    <2>1. Mcp!AuthSuccess \in McpThm!HostFrame
      BY DEF Mcp!AuthSuccess, Mcp!Frame, McpThm!HostFrame
    <2> QED
      BY <1>1, <1>2, <1>3, <1>4, <2>1
  <1>5. CASE f.kind = "auth" /\ RefuseFrame(Consumer) /\ UNCHANGED toMcp
    BY <1>1, <1>2, <1>3, <1>5
  <1>6. CASE /\ f.kind = "subscribe" /\ Subscribe(Consumer, SubOf[f.of])
             /\ toMcp' = Append(toMcp, Mcp!SubscribeAck)
    <2>1. Mcp!SubscribeAck \in McpThm!HostFrame
      BY DEF Mcp!SubscribeAck, Mcp!Frame, McpThm!HostFrame
    <2>2. SubOf[f.of] \in Subscribes
      BY <1>1, <1>6 DEF HostBound
    <2> QED
      BY <1>1, <1>2, <1>3, <1>6, <2>1, <2>2
  <1>7. CASE f.kind = "control_request" /\ ConsumerRequest(Consumer, f.of) /\ SendResults(FALSE)
    <2>1. f.of \in Request
      BY <1>1, <1>7 DEF HostBound
    <2>2. toMcp' = toMcp \/ toMcp' = Append(toMcp, Mcp!Result(f.of, FALSE))
      BY <1>7, <2>1, AtMostOneResult, ResultFrames
    <2>3. \A r \in Request : Mcp!Result(r, FALSE) \in McpThm!HostFrame
      BY DEF Mcp!Result, Mcp!Frame, McpThm!HostFrame
    <2> QED
      BY <1>1, <1>2, <1>3, <1>7, <2>1, <2>2, <2>3
  <1> QED
    BY <1>4, <1>5, <1>6, <1>7 DEF HostReads

\* Every step of the system is a step of the host and one of the MCP server, or leaves
\* it alone.
LEMMA PartsStep ==
  ASSUME SystemInv, [SystemNext]_systemVars
  PROVE  [Next]_vars /\ [McpThm!Next]_(McpThm!mcpVars)
  <1> USE SystemAssumption
  <1> DEFINE Goal == [Next]_vars /\ [McpThm!Next]_(McpThm!mcpVars)
  <1>1. CASE ConsumerStep
    BY <1>1, SameSteps DEF ConsumerStep, McpThm!Next
  <1>2. CASE ConsumerOpens
    BY <1>2, SameSteps DEF ConsumerOpens, McpThm!Next, Next, SocketNext
  <1>3. CASE ConsumerCloses
    BY <1>3, SameSteps DEF ConsumerCloses, McpThm!Next
  <1>4. CASE HostReads
    BY <1>4, HostReadsStep DEF McpThm!Next
  <1>5. ASSUME NEW s \in Socket, HostCloses(s) PROVE Goal
    BY <1>5 DEF HostCloses, mcpState, McpThm!consumerVars, McpThm!Next, McpThm!HostNext,
       Next, SocketNext
  <1>6. ASSUME NEW b \in JsBridge, BridgeStep(b) PROVE Goal
    <2>1. b \in Socket
      BY DEF JsBridge
    <2>2. UNCHANGED mcpVars => UNCHANGED McpThm!mcpVars
      BY DEF mcpVars, mcpState, McpThm!mcpVars, McpThm!consumerVars
    <2>3. CASE BridgeConnects(b)
      BY <2>1, <2>2, <2>3 DEF BridgeConnects, Next, SocketNext
    <2>4. CASE BridgeGreets(b)
      BY <2>1, <2>2, <2>4 DEF BridgeGreets, Next, SocketNext
    <2>5. ASSUME NEW r \in Request, BridgeReceives(b, r) PROVE Goal
      BY <2>2, <2>5 DEF BridgeReceives
    <2>6. ASSUME NEW r \in Request, BridgeAnswers(b, r) PROVE Goal
      <3>1. PICK ok \in BOOLEAN : SendResults(ok)
        BY <2>6 DEF BridgeAnswers, HandlerOutcome
      <3>2. ControlResult(b, r)
        BY <2>6 DEF BridgeAnswers
      <3>3. toMcp' = toMcp \/ toMcp' = Append(toMcp, Mcp!Result(r, ok))
        BY <2>1, <3>1, <3>2, AtMostOneResult, ResultFrames
      <3>4. \A q \in Request : Mcp!Result(q, ok) \in McpThm!HostFrame
        BY DEF Mcp!Result, Mcp!Frame, McpThm!HostFrame
      <3>5. UNCHANGED <<McpThm!consumerVars, toHost>>
        BY <2>6 DEF BridgeAnswers, mcpState, McpThm!consumerVars
      <3>6. McpThm!HostNext
        BY <3>3, <3>4, <3>5 DEF McpThm!HostNext
      <3> QED
        BY <2>1, <3>2, <3>6 DEF Next, SocketNext, McpThm!Next
    <2>7. ASSUME NEW r \in Request, AnswerLost(b, r) PROVE Goal
      BY <2>2, <2>7 DEF AnswerLost
    <2>8. ASSUME NEW m \in Messages, HostEvent(b, m) PROVE Goal
      <3>1. Mcp!BridgeEvent(sentEvents + 1) \in McpThm!HostFrame
        BY DEF SystemInv, Mcp!BridgeEvent, Mcp!Frame, McpThm!HostFrame
      <3>2. UNCHANGED <<McpThm!consumerVars, toHost>>
        BY <2>8 DEF HostEvent, mcpState, McpThm!consumerVars
      <3>3. McpThm!HostNext
        BY <2>8, <3>1, <3>2 DEF HostEvent, McpThm!HostNext
      <3> QED
        BY <2>1, <2>8, <3>3 DEF HostEvent, Next, SocketNext, McpThm!Next
    <2> QED
      BY <1>6, <2>3, <2>4, <2>5, <2>6, <2>7, <2>8 DEF BridgeStep
  <1>7. CASE UNCHANGED systemVars
    BY <1>7 DEF systemVars, mcpVars, mcpState, McpThm!mcpVars, McpThm!consumerVars
  <1> QED
    BY <1>1, <1>2, <1>3, <1>4, <1>5, <1>6, <1>7 DEF SystemNext

LEMMA SystemInitial == SystemInit => SystemInv /\ McpThm!Init
  <1> SUFFICES ASSUME SystemInit PROVE SystemInv /\ McpThm!Init
    OBVIOUS
  <1>1. TypeOK
    BY InitTyped DEF SystemInit
  <1>2. McpThm!Init
    BY DEF SystemInit, Mcp!Init, McpThm!Init
  <1>3. McpThm!ConsumerAssumption
    BY SystemAssumption DEF Mcp!ConsumerAssumption, McpThm!ConsumerAssumption
  <1>4. McpThm!TimerInv
    BY <1>2, <1>3, McpThm!InitTyped
       DEF McpThm!ConsumerAssumption, McpThm!TimerInv, McpThm!FirstInv,
           McpThm!WaitingHaveTimers, McpThm!Init
  <1>5. toHost \in Seq(HostBound) /\ sentEvents \in Nat
    BY DEF SystemInit, Mcp!Init
  <1> QED
    BY <1>1, <1>2, <1>4, <1>5 DEF SystemInv

LEMMA SystemStep == SystemInv /\ [SystemNext]_systemVars => SystemInv'
  <1> SUFFICES ASSUME SystemInv, [SystemNext]_systemVars PROVE SystemInv'
    OBVIOUS
  <1>1. [Next]_vars /\ [McpThm!Next]_(McpThm!mcpVars)
    BY PartsStep
  <1>2. TypeOK'
    BY <1>1, TypeStep DEF SystemInv
  <1>3. McpThm!TimerInv'
    BY <1>1, SystemAssumption, McpThm!TimerStep
       DEF SystemInv, Mcp!ConsumerAssumption, McpThm!ConsumerAssumption
  <1>4. toHost' \in Seq(HostBound)
    <2>1. CASE ConsumerStep
      BY <2>1, WrittenTyped DEF ConsumerStep
    <2>2. CASE ConsumerOpens
      <3>1. Mcp!Auth \in HostBound
        BY DEF Mcp!Auth, Mcp!Frame, HostBound
      <3> QED
        BY <2>2, <3>1, AppendProperties
           DEF ConsumerOpens, Mcp!OnOpen, Mcp!Write, SystemInv
    <2>3. CASE ConsumerCloses
      BY <2>3 DEF ConsumerCloses, Mcp!OnClose, SystemInv
    <2>4. CASE HostReads
      BY <2>4, HostReadsStep
    <2>5. ASSUME NEW s \in Socket, HostCloses(s) PROVE toHost' \in Seq(HostBound)
      BY <2>5 DEF HostCloses, SystemInv
    <2>6. ASSUME NEW b \in JsBridge, BridgeStep(b) PROVE toHost' \in Seq(HostBound)
      BY <2>6 DEF BridgeStep, BridgeConnects, BridgeGreets, BridgeReceives, BridgeAnswers,
         AnswerLost, HostEvent, mcpVars, SystemInv
    <2>7. CASE UNCHANGED systemVars
      BY <2>7 DEF systemVars, mcpVars, SystemInv
    <2> QED
      BY <2>1, <2>2, <2>3, <2>4, <2>5, <2>6, <2>7 DEF SystemNext
  <1>5. sentEvents' \in Nat
    <2>1. ASSUME NEW b \in JsBridge, BridgeStep(b) PROVE sentEvents' \in Nat
      <3>1. ASSUME NEW m \in Messages, HostEvent(b, m) PROVE sentEvents' \in Nat
        BY <3>1 DEF HostEvent, SystemInv
      <3> QED
        BY <2>1, <3>1 DEF BridgeStep, BridgeConnects, BridgeGreets, BridgeReceives,
           BridgeAnswers, AnswerLost, noteVars, SystemInv
    <2> QED
      BY <2>1 DEF SystemInv, SystemNext, ConsumerStep, ConsumerOpens, ConsumerCloses,
         HostReads, HostCloses, noteVars, systemVars
  <1> QED
    BY <1>2, <1>3, <1>4, <1>5 DEF SystemInv

LEMMA SystemInvariant == SystemSpec => []SystemInv
  <1>1. SystemInit => SystemInv
    BY SystemInitial
  <1> QED
    BY <1>1, SystemStep, PTL DEF SystemSpec

\* The host, with an MCP server and JavaScript bridges as clients, behaves as it does with
\* arbitrary ones: what is proved of BridgeHost holds in the system.
THEOREM HostKeepsToSpec == SystemSpec => Spec
  <1>1. SystemInit => Init
    BY DEF SystemInit
  <1>2. SystemInv /\ [SystemNext]_systemVars => [Next]_vars
    BY PartsStep
  <1> QED
    BY <1>1, <1>2, SystemInvariant, PTL DEF SystemSpec, Spec

\* Hence results go to the client that asked, and once, in the system too.
THEOREM SystemRoundTrip ==
  ASSUME \A p, q \in Request : IdOf[p] = IdOf[q] => p = q
  PROVE  SystemSpec => []RoundTrip
  <1>1. Spec => []RoundTrip
    BY ControlRoundTrip
  <1> QED
    BY <1>1, HostKeepsToSpec, PTL

\* The MCP server behaves as it does with a host that may send anything.
THEOREM ConsumerKeepsToSpec == SystemSpec => McpThm!Spec
  <1>1. SystemInit => McpThm!Init
    BY SystemInitial
  <1>2. SystemInv /\ [SystemNext]_systemVars => [McpThm!Next]_(McpThm!mcpVars)
    BY PartsStep
  <1> QED
    BY <1>1, <1>2, SystemInvariant, PTL DEF SystemSpec, McpThm!Spec

\* Hence no tool call waits without a timer, and no answered call has one: with any
\* number of calls, bridges and lost connections.
THEOREM SystemTimers == SystemSpec => []WaitingHaveTimers
  <1>1. McpThm!Spec => []McpThm!WaitingHaveTimers
    BY SystemAssumption, McpThm!TimersOfWaitingCalls
       DEF Mcp!ConsumerAssumption, McpThm!ConsumerAssumption
  <1>2. McpThm!WaitingHaveTimers => WaitingHaveTimers
    BY DEF McpThm!WaitingHaveTimers, WaitingHaveTimers, Mcp!WaitingHaveTimers
  <1> QED
    BY <1>1, <1>2, ConsumerKeepsToSpec, PTL

-----------------------------------------------------------------------------
(* The system implements RemoteCalls.                                      *)

\* Frames the MCP server may have written: it asks the host for calls it has made.
Asked == {f \in HostBound : f.kind = "control_request" => outcome[f.of] \notin {"none", "refused"}}

\* Frames the host may have written: a call has a result when a bridge has carried it out.
Told == {f \in McpThm!HostFrame :
           f.kind = "control_result" => \E b \in JsBridge : <<f.of, b>> \in ran}

\* A request goes to a bridge once, because the host is asked once; and no frame on its
\* way asks for a call that was not made, or reports one that was not carried out.
CallsInv ==
  /\ SystemInv
  /\ ran \subseteq Request \X JsBridge /\ running \subseteq ran
  /\ toBridge \cap ran = {}
  /\ \A r \in Request, b \in Socket : <<r, b>> \in toBridge \cup ran => asker[r] # None
  /\ \A r \in Request : asker[r] # None => outcome[r] \notin {"none", "refused"}
  /\ toHost \in Seq(Asked) /\ toMcp \in Seq(Told)

\* A call that has been made stays made.
LEMMA MadeStaysMade ==
  ASSUME SystemInv, [SystemNext]_systemVars, NEW k \in Request,
         outcome[k] \notin {"none", "refused"}
  PROVE  outcome'[k] \notin {"none", "refused"}
  <1> USE SystemAssumption DEF Mcp!ConsumerAssumption, SystemInv, McpThm!TimerInv, McpThm!TypeOK
  <1>1. CASE Mcp!ConsumerNext
    <2>1. CASE Mcp!Receive
      BY <2>1 DEF Mcp!Receive, Mcp!OnAuthSuccess, Mcp!OnSubscribeAck, Mcp!OnControlResult,
         Mcp!OnBridgeEvent
    <2>2. ASSUME NEW s \in Sub, NEW after, Mcp!Subscribe(s, after)
          PROVE  outcome'[k] = outcome[k]
      BY <2>2 DEF Mcp!Subscribe
    <2>3. ASSUME NEW j \in Request, Mcp!SendControl(j) \/ Mcp!ControlTimeout(j)
          PROVE  outcome'[k] \notin {"none", "refused"}
      BY <2>3 DEF Mcp!SendControl, Mcp!ControlTimeout
    <2> QED
      BY <1>1, <2>1, <2>2, <2>3
         DEF Mcp!ConsumerNext, Mcp!StartServer, Mcp!AuthTimeoutRuns, Mcp!SubscribeFirst,
             Mcp!Serve, Mcp!Stop, Mcp!SubscribeTool, Mcp!SubscribeTimeout
  <1>2. CASE UNCHANGED outcome
    BY <1>2
  <1> QED
    BY <1>1, <1>2
       DEF SystemNext, ConsumerStep, ConsumerOpens, ConsumerCloses, HostReads, HostCloses,
           BridgeStep, BridgeConnects, BridgeGreets, BridgeReceives, BridgeAnswers, AnswerLost,
           HostEvent, Mcp!OnOpen, Mcp!OnClose, mcpVars, mcpState, systemVars

\* What may be under way only grows.
LEMMA WordsStand ==
  ASSUME SystemInv, [SystemNext]_systemVars, ran \subseteq ran'
  PROVE  Asked \subseteq Asked' /\ Told \subseteq Told'
  <1>1. Asked \subseteq Asked'
    <2> SUFFICES ASSUME NEW f \in Asked PROVE f \in Asked'
      OBVIOUS
    <2>1. CASE f.kind = "control_request"
      <3>1. f.of \in Request /\ outcome[f.of] \notin {"none", "refused"}
        BY <2>1 DEF Asked, HostBound
      <3> QED
        BY <3>1, MadeStaysMade DEF Asked
    <2> QED
      BY <2>1 DEF Asked
  <1>2. Told \subseteq Told'
    BY DEF Told
  <1> QED
    BY <1>1, <1>2

\* A step of the MCP process.
LEMMA CallsConsumerStep ==
  ASSUME CallsInv, ConsumerStep
  PROVE  CallsInv'
  <1> USE SystemAssumption
  <1> USE DEF CallsInv
  <1>1. SystemInv'
    BY SystemStep DEF SystemNext
  <1>2. UNCHANGED <<ran, running, toBridge, asker>>
    BY DEF ConsumerStep, vars, controlVars, bridgeVars
  <1>3. Asked \subseteq Asked' /\ Told \subseteq Told'
    BY <1>2, WordsStand DEF SystemNext
  <1>4. \A r \in Request : asker'[r] # None => outcome'[r] \notin {"none", "refused"}
    BY <1>2, MadeStaysMade DEF SystemNext
  <1>5. toHost \in Seq(Asked') /\ toMcp \in Seq(Told')
    BY <1>3, SeqMonotonic
  <1>6. toMcp' \in Seq(Told')
    <2>1. toMcp' = toMcp \/ (toMcp # <<>> /\ toMcp' = Tail(toMcp))
      BY DEF ConsumerStep, Mcp!ConsumerNext, Mcp!StartServer, Mcp!AuthTimeoutRuns,
         Mcp!SubscribeFirst, Mcp!Serve, Mcp!Receive, Mcp!Stop, Mcp!SubscribeTool,
         Mcp!Subscribe, Mcp!SubscribeTimeout, Mcp!SendControl, Mcp!ControlTimeout
    <2> QED
      BY <1>5, <2>1, HeadTailProperties
  <1>7. toHost' \in Seq(Asked')
    <2>1. \A f \in Asked' : Append(toHost, f) \in Seq(Asked')
      BY <1>5, AppendProperties
    <2>2. ASSUME NEW s \in Sub, NEW after, Mcp!Subscribe(s, after)
          PROVE  toHost' \in Seq(Asked')
      <3>1. Mcp!Frame("subscribe", s) \in Asked'
        BY DEF Mcp!Frame, Asked, HostBound
      <3> QED
        BY <1>5, <2>1, <2>2, <3>1 DEF Mcp!Subscribe, Mcp!Write
    <2>3. ASSUME NEW k \in Request, Mcp!SendControl(k)
          PROVE  toHost' \in Seq(Asked')
      <3>1. CASE sock = "open"
        <4>1. outcome'[k] = "waiting"
          BY <2>3, <3>1 DEF Mcp!SendControl, SystemInv, McpThm!TimerInv, McpThm!TypeOK
        <4>2. Mcp!Frame("control_request", k) \in Asked'
          BY <4>1 DEF Mcp!Frame, Asked, HostBound
        <4> QED
          BY <2>1, <2>3, <3>1, <4>2 DEF Mcp!SendControl, Mcp!Write
      <3>2. CASE sock # "open"
        BY <1>5, <2>3, <3>2 DEF Mcp!SendControl
      <3> QED
        BY <3>1, <3>2
    <2>4. CASE UNCHANGED toHost
      BY <1>5, <2>4
    <2>5. CASE Mcp!SubscribeFirst
      BY <2>2, <2>5 DEF Mcp!SubscribeFirst, Mcp!ConsumerAssumption
    <2>6. ASSUME NEW s \in Sub, Mcp!SubscribeTool(s) PROVE toHost' \in Seq(Asked')
      BY <2>2, <2>6 DEF Mcp!SubscribeTool
    <2> QED
      BY <2>3, <2>4, <2>5, <2>6
         DEF ConsumerStep, Mcp!ConsumerNext, Mcp!StartServer, Mcp!AuthTimeoutRuns,
             Mcp!Serve, Mcp!Receive, Mcp!Stop, Mcp!SubscribeTimeout, Mcp!ControlTimeout
  <1> QED
    BY <1>1, <1>2, <1>4, <1>6, <1>7

\* The host reads a frame.
LEMMA CallsHostReads ==
  ASSUME CallsInv, HostReads
  PROVE  CallsInv'
  <1> USE SystemAssumption
  <1> USE DEF CallsInv
  <1> DEFINE f == Head(toHost)
  <1>1. SystemInv'
    BY SystemStep DEF SystemNext
  <1>2. UNCHANGED <<ran, running, outcome>> /\ toHost # <<>> /\ toHost' = Tail(toHost)
    BY DEF HostReads, mcpState
  <1>3. Asked' = Asked /\ Told' = Told
    BY <1>2 DEF Asked, Told
  <1>4. f \in Asked /\ toHost' \in Seq(Asked')
    BY <1>2, <1>3, HeadTailProperties
  <1>5. \A t \in Told : Append(toMcp, t) \in Seq(Told')
    BY <1>3, AppendProperties
  <1>6. CASE /\ Authenticate(Consumer) \/ RefuseFrame(Consumer)
             /\ toMcp' \in {toMcp, Append(toMcp, Mcp!AuthSuccess)}
             /\ UNCHANGED toBridge
    <2>1. Mcp!AuthSuccess \in Told
      BY DEF Mcp!AuthSuccess, Mcp!Frame, McpThm!HostFrame, Told
    <2>2. UNCHANGED asker
      BY <1>6 DEF Authenticate, RefuseFrame, controlVars
    <2> QED
      BY <1>1, <1>2, <1>3, <1>4, <1>5, <1>6, <2>1, <2>2
  <1>7. CASE /\ Subscribe(Consumer, SubOf[f.of])
             /\ toMcp' = Append(toMcp, Mcp!SubscribeAck)
             /\ UNCHANGED toBridge
    <2>1. Mcp!SubscribeAck \in Told
      BY DEF Mcp!SubscribeAck, Mcp!Frame, McpThm!HostFrame, Told
    <2>2. UNCHANGED asker
      BY <1>7 DEF Subscribe, controlVars
    <2> QED
      BY <1>1, <1>2, <1>3, <1>4, <1>5, <1>7, <2>1, <2>2
  <1>8. CASE /\ f.kind = "control_request" /\ ConsumerRequest(Consumer, f.of)
             /\ SendResults(FALSE) /\ toBridge' = toBridge \cup (held' \ held)
    <2> DEFINE r == f.of
    <2>1. r \in Request /\ outcome[r] \notin {"none", "refused"}
      BY <1>4, <1>8 DEF Asked, HostBound
    <2>2. toMcp' = toMcp \/ toMcp' = Append(toMcp, Mcp!Result(r, FALSE))
      BY <1>8, <2>1, AtMostOneResult, ResultFrames
    <2>3. Mcp!Result(r, FALSE) \in Told
      BY <2>1 DEF Mcp!Result, Mcp!Frame, McpThm!HostFrame, Told
    <2>4. toMcp' \in Seq(Told')
      BY <1>3, <1>5, <2>2, <2>3
    <2>5. asker[r] = None /\ asker' = [asker EXCEPT ![r] = Consumer]
      BY <1>8 DEF ConsumerRequest
    <2>6. \A a \in toBridge' : a \in toBridge \/ a[1] = r
      BY <1>8 DEF ConsumerRequest
    <2>7. asker \in [Request -> Socket \cup {None}] /\ Consumer # None
      BY ConstantsAssumption DEF SystemInv, TypeOK, ControlTypes
    <2>8. toBridge' \cap ran' = {}
      BY <1>2, <2>1, <2>5, <2>6 DEF JsBridge
    <2>9. \A q \in Request, b \in Socket : <<q, b>> \in toBridge' \cup ran' => asker'[q] # None
      BY <1>2, <2>5, <2>6, <2>7
    <2>10. \A q \in Request : asker'[q] # None => outcome'[q] \notin {"none", "refused"}
      BY <1>2, <2>1, <2>5, <2>7
    <2> QED
      BY <1>1, <1>2, <1>4, <2>4, <2>8, <2>9, <2>10
  <1> QED
    BY <1>6, <1>7, <1>8 DEF HostReads

\* A step of a bridge, or of the host on its frames.
LEMMA CallsBridgeStep ==
  ASSUME CallsInv, NEW b \in JsBridge, BridgeStep(b)
  PROVE  CallsInv'
  <1> USE SystemAssumption
  <1> USE DEF CallsInv
  <1>1. SystemInv' /\ b \in Socket
    BY SystemStep DEF SystemNext, JsBridge
  <1>2. ran \subseteq ran' => Seq(Told) \subseteq Seq(Told')
    BY WordsStand, SeqMonotonic DEF SystemNext
  <1>3. UNCHANGED <<outcome, toHost>>
    BY DEF BridgeStep, BridgeConnects, BridgeGreets, BridgeReceives, BridgeAnswers,
       AnswerLost, HostEvent, mcpVars, mcpState
  <1>4. toHost' \in Seq(Asked')
    BY <1>3 DEF Asked
  <1> USE <1>1, <1>2, <1>3, <1>4
  <1>5. CASE BridgeConnects(b)
    BY <1>5 DEF BridgeConnects, Connect, controlVars, mcpVars
  <1>6. CASE BridgeGreets(b)
    BY <1>6 DEF BridgeGreets, Authenticate, Hello, controlVars, bridgeVars, mcpVars
  <1>7. ASSUME NEW r \in Request, BridgeReceives(b, r) PROVE CallsInv'
    BY <1>7 DEF BridgeReceives, vars, controlVars, mcpVars
  <1>8. ASSUME NEW r \in Request, BridgeAnswers(b, r) PROVE CallsInv'
    <2>1. PICK ok \in BOOLEAN : SendResults(ok)
      BY <1>8 DEF BridgeAnswers, HandlerOutcome
    <2>2. ControlResult(b, r) /\ <<r, b>> \in ran /\ UNCHANGED <<toBridge, ran>>
      BY <1>8 DEF BridgeAnswers
    <2>3. toMcp' = toMcp \/ toMcp' = Append(toMcp, Mcp!Result(r, ok))
      BY <2>1, <2>2, AtMostOneResult, ResultFrames
    <2>4. Mcp!Result(r, ok) \in Told
      BY <2>2 DEF Mcp!Result, Mcp!Frame, McpThm!HostFrame, Told
    <2>5. toMcp' \in Seq(Told')
      BY <2>2, <2>3, <2>4, AppendProperties
    <2>6. UNCHANGED asker /\ running' \subseteq running
      BY <1>8, <2>2 DEF BridgeAnswers, ControlResult, Reply
    <2> QED
      BY <2>2, <2>5, <2>6
  <1>9. ASSUME NEW r \in Request, AnswerLost(b, r) PROVE CallsInv'
    BY <1>9 DEF AnswerLost, vars, controlVars, mcpVars
  <1>10. ASSUME NEW m \in Messages, HostEvent(b, m) PROVE CallsInv'
    <2>1. Mcp!BridgeEvent(sentEvents + 1) \in Told
      BY DEF SystemInv, Mcp!BridgeEvent, Mcp!Frame, McpThm!HostFrame, Told
    <2>2. UNCHANGED <<asker, bridgeVars>>
      BY <1>10 DEF HostEvent, Event, controlVars
    <2>3. toMcp' = toMcp \/ toMcp' = Append(toMcp, Mcp!BridgeEvent(sentEvents + 1))
      BY <1>10 DEF HostEvent
    <2>4. toMcp' \in Seq(Told')
      BY <2>1, <2>2, <2>3, AppendProperties DEF bridgeVars
    <2> QED
      BY <2>2, <2>4 DEF bridgeVars
  <1> QED
    BY <1>5, <1>6, <1>7, <1>8, <1>9, <1>10 DEF BridgeStep

LEMMA CallsInvStep == CallsInv /\ [SystemNext]_systemVars => CallsInv'
  <1> SUFFICES ASSUME CallsInv, [SystemNext]_systemVars PROVE CallsInv'
    OBVIOUS
  <1> USE SystemAssumption
  <1> USE DEF CallsInv
  <1>1. SystemInv'
    BY SystemStep
  <1>2. CASE ConsumerStep
    BY <1>2, CallsConsumerStep
  <1>3. CASE HostReads
    BY <1>3, CallsHostReads
  <1>4. ASSUME NEW b \in JsBridge, BridgeStep(b) PROVE CallsInv'
    BY <1>4, CallsBridgeStep
  <1>5. CASE UNCHANGED <<asker, outcome, bridgeVars>> /\ toHost' \in Seq(Asked)
             /\ toMcp' \in Seq(Told)
    BY <1>1, <1>5 DEF bridgeVars, Asked, Told
  <1>6. CASE ConsumerOpens
    <2>1. Mcp!Auth \in Asked
      BY DEF Mcp!Auth, Mcp!Frame, Asked, HostBound
    <2>2. toHost' \in Seq(Asked)
      BY <1>6, <2>1, AppendProperties DEF ConsumerOpens, Mcp!OnOpen, Mcp!Write
    <2> QED
      BY <1>5, <1>6, <2>2 DEF ConsumerOpens, Mcp!OnOpen, Connect, controlVars
  <1>7. CASE ConsumerCloses
    <2>1. toMcp' \in Seq(Told)
      BY <1>7 DEF ConsumerCloses, Mcp!OnClose
    <2> QED
      BY <1>5, <1>7, <2>1 DEF ConsumerCloses, Mcp!OnClose, vars, controlVars
  <1>8. ASSUME NEW s \in Socket, HostCloses(s) PROVE CallsInv'
    <2>1. toHost' \in Seq(Asked)
      BY <1>8 DEF HostCloses
    <2> QED
      BY <1>5, <1>8, <2>1 DEF HostCloses, Close, mcpState, bridgeVars
  <1>9. CASE UNCHANGED systemVars
    BY <1>5, <1>9 DEF systemVars, vars, controlVars, mcpVars, mcpState
  <1> QED
    BY <1>2, <1>3, <1>4, <1>6, <1>7, <1>8, <1>9 DEF SystemNext

LEMMA CallsInvInitial == SystemInit => CallsInv
  <1> SUFFICES ASSUME SystemInit PROVE CallsInv
    OBVIOUS
  <1>1. toHost \in Seq(Asked) /\ toMcp \in Seq(Told)
    BY DEF SystemInit, Mcp!Init
  <1> QED
    BY <1>1, SystemInitial DEF SystemInit, Init, CallsInv

LEMMA CallsInvariant == SystemSpec => []CallsInv
  BY CallsInvInitial, CallsInvStep, PTL DEF SystemSpec

\* A step of the MCP process is one of the abstract caller, or none.
LEMMA ConsumerStepMaps ==
  ASSUME CallsInv, ConsumerStep
  PROVE  [Calls!Next]_(Calls!callVars)
  <1> USE SystemAssumption DEF Mcp!ConsumerAssumption
  <1>1. /\ outcome \in [Request \cup Sub -> McpThm!Outcome]
        /\ pendingControls \subseteq Request /\ listeners \subseteq Sub
        /\ toMcp \in Seq(Told)
    BY DEF CallsInv, SystemInv, McpThm!TimerInv, McpThm!TypeOK
  <1>2. \A k \in pendingControls : outcome[k] = "waiting" /\ stage # "stopped"
    BY <1>1 DEF CallsInv, SystemInv, McpThm!TimerInv, McpThm!WaitingHaveTimers
  <1>3. stage = "stopped" => outcome[First] = "resolved"
    BY DEF CallsInv, SystemInv, McpThm!TimerInv, McpThm!FirstInv
  <1>4. UNCHANGED ran
    BY DEF ConsumerStep, bridgeVars
  <1> DEFINE Bar == [k \in Request |-> outcome[k]]
  <1>5. ASSUME \A k \in Request : outcome'[k] = outcome[k],
               stage' = "stopped" <=> stage = "stopped"
        PROVE  UNCHANGED Calls!callVars
    BY <1>4, <1>5 DEF Calls!callVars
  <1>6. ASSUME NEW k \in Request, NEW to, outcome' = [outcome EXCEPT ![k] = to]
        PROVE  Bar' = [Bar EXCEPT ![k] = to] /\ Bar[k] = outcome[k]
    BY <1>1, <1>6
  <1>7. ASSUME NEW s \in Sub, NEW after, Mcp!Subscribe(s, after), stage # "stopped",
               after # "stopped"
        PROVE  UNCHANGED Calls!callVars
    BY <1>1, <1>5, <1>7 DEF Mcp!Subscribe
  <1>8. CASE Mcp!StartServer \/ Mcp!AuthTimeoutRuns \/ Mcp!Serve
    BY <1>5, <1>8 DEF Mcp!StartServer, Mcp!AuthTimeoutRuns, Mcp!Serve
  <1>9. CASE Mcp!SubscribeFirst
    BY <1>7, <1>9 DEF Mcp!SubscribeFirst
  <1>10. ASSUME NEW s \in Sub, Mcp!SubscribeTool(s) PROVE UNCHANGED Calls!callVars
    BY <1>7, <1>10 DEF Mcp!SubscribeTool
  <1>11. ASSUME NEW s \in Sub, Mcp!SubscribeTimeout(s) PROVE UNCHANGED Calls!callVars
    BY <1>1, <1>3, <1>5, <1>11 DEF Mcp!SubscribeTimeout
  <1>12. CASE Mcp!Stop
    <2>1. Calls!Close
      BY <1>4, <1>12 DEF Mcp!Stop, Calls!Close
    <2> QED
      BY <2>1 DEF Calls!Next
  <1>13. ASSUME NEW k \in Request, Mcp!SendControl(k) PROVE Calls!Next
    <2>1. stage = "serving" /\ UNCHANGED stage /\ outcome[k] = "none"
      BY <1>13 DEF Mcp!SendControl
    <2>2. CASE sock = "open"
      <3>1. Calls!Make(k)
        BY <1>4, <1>6, <1>13, <2>1, <2>2 DEF Mcp!SendControl, Calls!Make, Calls!Ends
      <3> QED
        BY <3>1 DEF Calls!Next
    <2>3. CASE sock # "open"
      <3>1. Calls!Refuse(k)
        BY <1>4, <1>6, <1>13, <2>1, <2>3 DEF Mcp!SendControl, Calls!Refuse, Calls!Ends
      <3> QED
        BY <3>1 DEF Calls!Next
    <2> QED
      BY <2>2, <2>3
  <1>14. ASSUME NEW k \in Request, Mcp!ControlTimeout(k) PROVE Calls!Next
    <2>1. Calls!GiveUp(k)
      BY <1>2, <1>4, <1>6, <1>14 DEF Mcp!ControlTimeout, Calls!GiveUp, Calls!Ends
    <2> QED
      BY <2>1 DEF Calls!Next
  <1>15. CASE Mcp!Receive
    <2> DEFINE f == Head(toMcp)
    <2>1. f \in Told
      BY <1>1, <1>15, HeadTailProperties DEF Mcp!Receive
    <2>2. CASE Mcp!OnAuthSuccess
      BY <1>5, <2>2 DEF Mcp!OnAuthSuccess
    <2>3. CASE Mcp!OnSubscribeAck
      BY <1>1, <1>5, <2>3 DEF Mcp!OnSubscribeAck
    <2>4. CASE Mcp!OnBridgeEvent(f)
      BY <1>5, <2>4 DEF Mcp!OnBridgeEvent
    <2>5. CASE Mcp!OnControlResult(f) /\ f.of \notin pendingControls
      BY <1>5, <2>5 DEF Mcp!OnControlResult
    <2>6. CASE /\ f.kind \in {"control_result", "control_error"}
               /\ Mcp!OnControlResult(f) /\ f.of \in pendingControls
      <3>1. PICK k \in Request : k = f.of
        BY <1>1, <2>6
      <3>2. outcome[k] = "waiting" /\ stage # "stopped" /\ UNCHANGED stage
        BY <1>2, <2>6, <3>1 DEF Mcp!OnControlResult
      <3>3. CASE f.kind = "control_result"
        <4>1. \E b \in JsBridge : <<k, b>> \in ran
          BY <2>1, <3>1, <3>3 DEF Told
        <4>2. outcome' = [outcome EXCEPT ![k] = "resolved"]
          BY <2>6, <3>1, <3>3 DEF Mcp!OnControlResult
        <4>3. Calls!Answer(k)
          BY <1>4, <1>6, <3>2, <4>1, <4>2 DEF Calls!Answer, Calls!Ends
        <4> QED
          BY <4>3 DEF Calls!Next
      <3>4. CASE f.kind # "control_result"
        <4>1. outcome' = [outcome EXCEPT ![k] = "rejected"]
          BY <2>6, <3>1, <3>4 DEF Mcp!OnControlResult
        <4>2. Calls!Fail(k)
          BY <1>4, <1>6, <3>2, <4>1 DEF Calls!Fail, Calls!Ends
        <4> QED
          BY <4>2 DEF Calls!Next
      <3> QED
        BY <3>3, <3>4
    <2> QED
      BY <1>15, <2>2, <2>3, <2>4, <2>5, <2>6 DEF Mcp!Receive
  <1> QED
    BY <1>8, <1>9, <1>10, <1>11, <1>12, <1>13, <1>14, <1>15
       DEF ConsumerStep, Mcp!ConsumerNext

LEMMA SystemStepMaps ==
  ASSUME CallsInv, [SystemNext]_systemVars
  PROVE  [Calls!Next]_(Calls!callVars)
  <1> USE SystemAssumption DEF Mcp!ConsumerAssumption
  <1>1. ASSUME UNCHANGED <<outcome, ran>>, stage' = "stopped" <=> stage = "stopped"
        PROVE  UNCHANGED Calls!callVars
    BY <1>1 DEF Calls!callVars
  <1>2. CASE ConsumerStep
    BY <1>2, ConsumerStepMaps
  <1>3. CASE ConsumerOpens \/ ConsumerCloses \/ HostReads
    BY <1>1, <1>3 DEF ConsumerOpens, Mcp!OnOpen, ConsumerCloses, Mcp!OnClose, HostReads,
       mcpState, bridgeVars
  <1>4. ASSUME NEW s \in Socket, HostCloses(s) PROVE UNCHANGED Calls!callVars
    BY <1>1, <1>4 DEF HostCloses, mcpState
  <1>5. ASSUME NEW b \in JsBridge, NEW r \in Request, BridgeReceives(b, r)
        PROVE  Calls!Next
    <2>1. UNCHANGED <<outcome, stage>> /\ <<r, b>> \in toBridge
      BY <1>5 DEF BridgeReceives, mcpVars, mcpState
    <2>2. outcome[r] \notin {"none", "refused"} /\ <<r, b>> \notin ran
      BY <2>1 DEF CallsInv, JsBridge
    <2>3. Calls!Run(r, b)
      BY <1>5, <2>1, <2>2 DEF BridgeReceives, Calls!Run
    <2> QED
      BY <2>3 DEF Calls!Next
  <1>6. ASSUME NEW b \in JsBridge, BridgeStep(b), ~ \E r \in Request : BridgeReceives(b, r)
        PROVE  UNCHANGED Calls!callVars
    <2>1. UNCHANGED <<outcome, stage, ran>>
      BY <1>6 DEF BridgeStep, BridgeConnects, BridgeGreets, BridgeAnswers, AnswerLost,
         HostEvent, mcpVars, mcpState, bridgeVars
    <2> QED
      BY <1>1, <2>1
  <1>7. CASE UNCHANGED systemVars
    BY <1>1, <1>7 DEF systemVars, mcpVars, mcpState, bridgeVars
  <1> QED
    BY <1>2, <1>3, <1>4, <1>5, <1>6, <1>7 DEF SystemNext

\* The control path implements RemoteCalls for any number of calls, bridges and lost
\* connections: no call ends twice, none succeeds that no bridge has carried out, and no
\* bridge carries one out twice or before it was made.
THEOREM ImplementsRemoteCalls == SystemSpec => CallsSpec
  <1>1. SystemInit => Calls!Init
    BY SystemAssumption DEF SystemInit, Mcp!Init, Calls!Init
  <1>2. CallsInv /\ [SystemNext]_systemVars => [Calls!Next]_(Calls!callVars)
    BY SystemStepMaps
  <1> QED
    BY <1>1, <1>2, CallsInvariant, PTL DEF SystemSpec, CallsSpec, Calls!Spec

-----------------------------------------------------------------------------
(* The connection of the MCP server.                                       *)

\* Until the MCP server's socket opens, the host has no connection to it, and neither an
\* event nor an ack is on its way.
EarlyInv ==
  /\ stage = "new" => sock = "none"
  /\ sock \in {"none", "connecting"} =>
       /\ stage \in {"new", "connecting", "failed"} /\ readyState[Consumer] = "none"
       /\ toHost = <<>> /\ events = <<>> /\ \A s \in Sub : outcome[s] = "none"
       /\ \A i \in 1 .. Len(toMcp) : toMcp[i].kind \notin {"subscribe_ack", "event"}

\* What the host sends the MCP server for a bridge: a result, an event, or nothing.
Forwarded(f) ==
  /\ toMcp' = Append(toMcp, f) /\ f \in McpThm!HostFrame
  /\ \/ f.kind \in {"control_result", "control_error"} /\ UNCHANGED sentEvents
     \/ /\ f = Mcp!BridgeEvent(sentEvents + 1) /\ sentEvents' = sentEvents + 1
        /\ readyState[Consumer] = "open"

\* A step of a bridge leaves the MCP server and its connection alone.
LEMMA BridgeLeavesConsumer ==
  ASSUME SystemInv, NEW b \in JsBridge, BridgeStep(b)
  PROVE  /\ UNCHANGED <<mcpState, toHost, applied, overlapped, subscribed,
                        readyState[Consumer], isAuthenticated[Consumer]>>
         /\ UNCHANGED <<toMcp, sentEvents>> \/ \E f : Forwarded(f)
  <1> USE SystemAssumption
  <1> DEFINE Goal == /\ UNCHANGED <<mcpState, toHost, applied, overlapped, subscribed,
                                    readyState[Consumer], isAuthenticated[Consumer]>>
                     /\ UNCHANGED <<toMcp, sentEvents>> \/ \E f : Forwarded(f)
  <1>1. /\ readyState \in [Socket -> {"none", "open", "closing"}]
        /\ isAuthenticated \in [Socket -> BOOLEAN]
        /\ Consumer \in Socket /\ b # Consumer /\ b \in Socket
    BY DEF SystemInv, TypeOK, SocketTypes, JsBridge
  <1>2. CASE BridgeConnects(b)
    BY <1>1, <1>2 DEF BridgeConnects, Connect, mcpVars, noteVars, memberVars
  <1>3. CASE BridgeGreets(b)
    BY <1>1, <1>3 DEF BridgeGreets, Authenticate, Hello, StartClosing, mcpVars, noteVars,
       memberVars, socketVars
  <1>4. ASSUME NEW r \in Request, BridgeReceives(b, r) PROVE Goal
    BY <1>4 DEF BridgeReceives, vars, socketVars, memberVars, mcpVars, noteVars
  <1>5. ASSUME NEW r \in Request, BridgeAnswers(b, r) PROVE Goal
    <2>1. PICK ok \in BOOLEAN : SendResults(ok)
      BY <1>5 DEF BridgeAnswers, HandlerOutcome
    <2>2. ControlResult(b, r)
      BY <1>5 DEF BridgeAnswers
    <2>3. toMcp' = toMcp \/ toMcp' = Append(toMcp, Mcp!Result(r, ok))
      BY <1>1, <2>1, <2>2, AtMostOneResult, ResultFrames
    <2>4. /\ Mcp!Result(r, ok) \in McpThm!HostFrame
          /\ Mcp!Result(r, ok).kind \in {"control_result", "control_error"}
      BY DEF Mcp!Result, Mcp!Frame, McpThm!HostFrame
    <2>5. UNCHANGED <<mcpState, toHost, noteVars>>
      BY <1>5 DEF BridgeAnswers
    <2>6. UNCHANGED <<socketVars, memberVars>>
      BY <2>2 DEF ControlResult
    <2>7. toMcp' = toMcp \/ Forwarded(Mcp!Result(r, ok))
      BY <2>3, <2>4, <2>5 DEF Forwarded, noteVars
    <2> QED
      BY <2>5, <2>6, <2>7 DEF socketVars, memberVars, noteVars
  <1>6. ASSUME NEW r \in Request, AnswerLost(b, r) PROVE Goal
    BY <1>6 DEF AnswerLost, vars, socketVars, memberVars, mcpVars, noteVars
  <1>7. ASSUME NEW m \in Messages, HostEvent(b, m) PROVE Goal
    <2>1. Mcp!BridgeEvent(sentEvents + 1) \in McpThm!HostFrame
      BY DEF SystemInv, Mcp!BridgeEvent, Mcp!Frame, McpThm!HostFrame
    <2>2. UNCHANGED <<mcpState, toHost, applied, overlapped>> /\ Event(b, m)
      BY <1>7 DEF HostEvent
    <2>3. UNCHANGED <<socketVars, memberVars>>
      BY <2>2 DEF Event
    <2>4. Consumer \in routed'.to => readyState[Consumer] = "open"
      BY <2>2 DEF Event, Routed, Recipients, Open
    <2>5. UNCHANGED <<toMcp, sentEvents>> \/ Forwarded(Mcp!BridgeEvent(sentEvents + 1))
      BY <1>7, <2>1, <2>4 DEF HostEvent, Forwarded
    <2> QED
      BY <2>2, <2>3, <2>5 DEF socketVars, memberVars
  <1> QED
    BY <1>2, <1>3, <1>4, <1>5, <1>6, <1>7 DEF BridgeStep

\* What the host does with a frame of the MCP server: an ack says that the subscription
\* of the frame has been stored.
LEMMA HostReadsEffect ==
  ASSUME SystemInv, HostReads
  PROVE  /\ UNCHANGED <<mcpState, overlapped, sentEvents>>
         /\ toHost # <<>> /\ toHost' = Tail(toHost) /\ Head(toHost) \in HostBound
         /\ readyState'[Consumer] = "none" <=> readyState[Consumer] = "none"
         /\ readyState'[Consumer] = "open" => readyState[Consumer] = "open"
         /\ isAuthenticated[Consumer] \/ readyState[Consumer] # "none"
         /\ subscribed \subseteq subscribed'
         /\ \/ /\ Head(toHost).kind # "subscribe" /\ UNCHANGED applied
               /\ \/ UNCHANGED toMcp
                  \/ \E f \in McpThm!HostFrame : /\ f.kind \notin {"event", "subscribe_ack"}
                                                 /\ toMcp' = Append(toMcp, f)
            \/ /\ Head(toHost).kind = "subscribe" /\ applied' = applied \cup {Head(toHost).of}
               /\ toMcp' = Append(toMcp, Mcp!SubscribeAck)
               /\ isAuthenticated[Consumer] /\ Consumer \in subscribed'
  <1> USE SystemAssumption
  <1> DEFINE f == Head(toHost)
  <1>1. /\ readyState \in [Socket -> {"none", "open", "closing"}]
        /\ isAuthenticated \in [Socket -> BOOLEAN]
    BY DEF SystemInv, TypeOK, SocketTypes
  <1>2. UNCHANGED <<mcpState, overlapped, sentEvents>> /\ toHost # <<>> /\ toHost' = Tail(toHost)
    BY DEF HostReads
  <1>3. f \in HostBound
    BY <1>2, HeadTailProperties DEF SystemInv
  <1>4. CASE f.kind = "auth" /\ Authenticate(Consumer)
             /\ toMcp' = Append(toMcp, Mcp!AuthSuccess) /\ UNCHANGED applied
    <2>1. Mcp!AuthSuccess \in McpThm!HostFrame /\ Mcp!AuthSuccess.kind = "auth_success"
      BY DEF Mcp!AuthSuccess, Mcp!Frame, McpThm!HostFrame
    <2>2. UNCHANGED <<readyState, subscribed>> /\ readyState[Consumer] # "none"
      BY <1>4 DEF Authenticate
    <2> QED
      BY <1>2, <1>3, <1>4, <2>1, <2>2
  <1>5. CASE f.kind = "auth" /\ RefuseFrame(Consumer) /\ UNCHANGED <<toMcp, applied>>
    BY <1>1, <1>2, <1>3, <1>5 DEF RefuseFrame, StartClosing, memberVars
  <1>6. CASE /\ f.kind = "subscribe" /\ Subscribe(Consumer, SubOf[f.of])
             /\ toMcp' = Append(toMcp, Mcp!SubscribeAck) /\ applied' = applied \cup {f.of}
    BY <1>1, <1>2, <1>3, <1>6 DEF Subscribe, Speaks, socketVars
  <1>7. CASE /\ f.kind = "control_request" /\ ConsumerRequest(Consumer, f.of)
             /\ SendResults(FALSE) /\ UNCHANGED applied
    <2>1. f.of \in Request
      BY <1>3, <1>7 DEF HostBound
    <2>2. toMcp' = toMcp \/ toMcp' = Append(toMcp, Mcp!Result(f.of, FALSE))
      BY <1>7, <2>1, AtMostOneResult, ResultFrames
    <2>3. /\ Mcp!Result(f.of, FALSE) \in McpThm!HostFrame
          /\ Mcp!Result(f.of, FALSE).kind = "control_error"
      BY <2>1 DEF Mcp!Result, Mcp!Frame, McpThm!HostFrame
    <2>4. UNCHANGED <<readyState, subscribed>> /\ isAuthenticated[Consumer]
      BY <1>7 DEF ConsumerRequest, Speaks, socketVars, memberVars
    <2> QED
      BY <1>2, <1>3, <1>7, <2>2, <2>3, <2>4
  <1> QED
    BY <1>4, <1>5, <1>6, <1>7 DEF HostReads

\* Appended frames that are neither acks nor events leave those as they are.
LEMMA FramesAdded ==
  ASSUME NEW S, NEW q \in Seq(S), NEW f \in S, NEW kinds,
         \A i \in 1 .. Len(q) : q[i].kind \notin kinds, f.kind \notin kinds
  PROVE  \A i \in 1 .. Len(Append(q, f)) : Append(q, f)[i].kind \notin kinds
  BY AppendProperties, LenProperties

LEMMA EarlyStep ==
  ASSUME SystemInv, EarlyInv, [SystemNext]_systemVars
  PROVE  EarlyInv'
  <1> USE SystemAssumption DEF Mcp!ConsumerAssumption, EarlyInv
  <1>1. /\ toMcp \in Seq(McpThm!HostFrame) /\ outcome \in [Request \cup Sub -> McpThm!Outcome]
        /\ readyState \in [Socket -> {"none", "open", "closing"}]
    BY DEF SystemInv, TypeOK, SocketTypes, McpThm!TimerInv, McpThm!TypeOK
  <1>2. CASE ConsumerStep
    <2>1. UNCHANGED readyState
      BY <1>2 DEF ConsumerStep, vars, socketVars
    <2>2. ASSUME sock \notin {"none", "connecting"}, sock' \in {sock, "closing"},
                 stage' = "new" => stage = "new"
          PROVE  EarlyInv'
      BY <2>2
    <2>3. CASE Mcp!Receive
      BY <2>2, <2>3 DEF Mcp!Receive, Mcp!OnAuthSuccess, Mcp!OnSubscribeAck, Mcp!OnControlResult,
         Mcp!OnBridgeEvent
    <2>4. CASE Mcp!StartServer
      BY <2>1, <2>4 DEF Mcp!StartServer
    <2>5. CASE Mcp!AuthTimeoutRuns
      BY <2>1, <2>5 DEF Mcp!AuthTimeoutRuns
    <2>6. CASE Mcp!Serve \/ Mcp!Stop
      BY <2>2, <2>6 DEF Mcp!Serve, Mcp!Stop
    <2>7. ASSUME NEW s \in Sub, Mcp!SubscribeTool(s) \/ Mcp!SubscribeTimeout(s) PROVE EarlyInv'
      BY <2>2, <2>7 DEF Mcp!SubscribeTool, Mcp!Subscribe, Mcp!SubscribeTimeout
    <2>8. CASE Mcp!SubscribeFirst
      BY <2>2, <2>8 DEF Mcp!SubscribeFirst, Mcp!Subscribe
    <2>9. ASSUME NEW k \in Request, Mcp!SendControl(k) PROVE EarlyInv'
      BY <2>2, <2>9 DEF Mcp!SendControl
    <2>10. ASSUME NEW k \in Request, Mcp!ControlTimeout(k) PROVE EarlyInv'
      BY <1>1, <2>1, <2>10 DEF Mcp!ControlTimeout
    <2> QED
      BY <1>2, <2>3, <2>4, <2>5, <2>6, <2>7, <2>8, <2>9, <2>10 DEF ConsumerStep, Mcp!ConsumerNext
  <1>3. CASE ConsumerOpens \/ ConsumerCloses
    BY <1>3 DEF ConsumerOpens, ConsumerCloses, Mcp!OnOpen, Mcp!OnClose
  <1>4. CASE HostReads
    BY <1>4, HostReadsEffect DEF mcpState
  <1>5. ASSUME NEW s \in Socket, HostCloses(s) PROVE EarlyInv'
    BY <1>1, <1>5 DEF HostCloses, Close, mcpState
  <1>6. ASSUME NEW b \in JsBridge, BridgeStep(b) PROVE EarlyInv'
    <2>1. /\ UNCHANGED <<mcpState, toHost, readyState[Consumer]>>
          /\ UNCHANGED toMcp \/ \E f : Forwarded(f)
      BY <1>6, BridgeLeavesConsumer
    <2>2. ASSUME NEW f, Forwarded(f), sock \in {"none", "connecting"}
          PROVE  \A i \in 1 .. Len(toMcp') : toMcp'[i].kind \notin {"subscribe_ack", "event"}
      BY <1>1, <2>2, FramesAdded DEF Forwarded
    <2> QED
      BY <2>1, <2>2 DEF mcpState
  <1>7. CASE UNCHANGED systemVars
    BY <1>7 DEF systemVars, vars, socketVars, mcpVars, mcpState
  <1> QED
    BY <1>2, <1>3, <1>4, <1>5, <1>6, <1>7 DEF SystemNext

-----------------------------------------------------------------------------
(* Acks.                                                                   *)

AckUnderway == \E i \in 1 .. Len(toMcp) : toMcp[i].kind = "subscribe_ack"

\* The subscription of s is the next one the host reads.
IsNext(s) ==
  \E i \in 1 .. Len(toHost) : /\ toHost[i].kind = "subscribe" /\ toHost[i].of = s
                              /\ \A j \in 1 .. i - 1 : toHost[j].kind # "subscribe"

\* Calls of subscribe() the host has not read and that were made while no other was on
\* its way.
Alone == {s \in Sub : outcome[s] \notin {"none", "refused"} /\ s \notin overlapped
                                                              /\ s \notin applied}

\* Such a call cannot meet the ack of another: none is under way, and of the frames that
\* are, its own is answered first.
AckInv ==
  /\ readyState[Consumer] = "none" => ~isAuthenticated[Consumer]
  /\ readyState[Consumer] = "open" /\ (stage \in {"subscribed", "serving"} \/ AckUnderway)
       => Consumer \in subscribed
  /\ \A s \in listeners : outcome[s] # "none"
  /\ \A s \in Alone : /\ outcome[s] # "resolved" /\ ~AckUnderway
                      /\ readyState[Consumer] # "none" => IsNext(s)

\* A frame at the end of the queue leaves the next one as it is.
LEMMA NextStays ==
  ASSUME toHost \in Seq(HostBound), NEW f \in HostBound, toHost' = Append(toHost, f),
         NEW s, IsNext(s)
  PROVE  IsNext(s)'
  <1>1. /\ Len(toHost') = Len(toHost) + 1 /\ \A i \in 1 .. Len(toHost) : toHost'[i] = toHost[i]
        /\ Len(toHost) \in Nat
    BY AppendProperties, LenProperties
  <1> QED
    BY <1>1 DEF IsNext

\* So does the removal of a frame that is not a subscribe.
LEMMA NextMovesUp ==
  ASSUME toHost \in Seq(HostBound), toHost # <<>>, toHost' = Tail(toHost),
         Head(toHost).kind # "subscribe", NEW s, IsNext(s)
  PROVE  IsNext(s)'
  <1>1. /\ Len(toHost') = Len(toHost) - 1 /\ Len(toHost) \in Nat
        /\ \A i \in 1 .. Len(toHost') : toHost'[i] = toHost[i + 1]
        /\ Head(toHost) = toHost[1]
    BY HeadTailProperties, LenProperties
  <1>2. PICK i \in 1 .. Len(toHost) : /\ toHost[i].kind = "subscribe" /\ toHost[i].of = s
                                      /\ \A j \in 1 .. i - 1 : toHost[j].kind # "subscribe"
    BY DEF IsNext
  <1>3. i - 1 \in 1 .. Len(toHost') /\ toHost'[i - 1] = toHost[i]
    BY <1>1, <1>2
  <1>4. \A j \in 1 .. (i - 1) - 1 : toHost'[j].kind # "subscribe"
    BY <1>1, <1>2
  <1> QED
    BY <1>2, <1>3, <1>4 DEF IsNext

\* A call of subscribe().
LEMMA AckSubscribe ==
  ASSUME SystemInv, AckInv, ConsumerStep, NEW s \in Sub, NEW after, Mcp!Subscribe(s, after),
         after \in {"subscribed", "serving"} => after = stage
  PROVE  AckInv'
  <1> USE SystemAssumption DEF Mcp!ConsumerAssumption
  <1>1. /\ toHost \in Seq(HostBound) /\ outcome \in [Request \cup Sub -> McpThm!Outcome]
        /\ listeners \subseteq Sub
    BY DEF SystemInv, McpThm!TimerInv, McpThm!TypeOK
  <1>2. UNCHANGED <<readyState, isAuthenticated, subscribed, applied, toMcp>>
    BY DEF ConsumerStep, vars, socketVars, memberVars, Mcp!Subscribe
  <1>3. outcome[s] = "none" /\ s \notin listeners
    BY DEF Mcp!Subscribe, AckInv
  <1>4. AckUnderway' = AckUnderway
    BY <1>2 DEF AckUnderway
  <1>5. CASE sock # "open"
    <2>1. UNCHANGED <<listeners, toHost>> /\ outcome' = [outcome EXCEPT ![s] = "refused"]
      BY <1>5 DEF Mcp!Subscribe
    <2>2. UNCHANGED overlapped
      BY <2>1 DEF ConsumerStep
    <2>3. \A t \in Alone' : t \in Alone /\ outcome'[t] = outcome[t]
      BY <1>1, <1>2, <2>1, <2>2 DEF Alone
    <2>4. stage' \in {"subscribed", "serving"} => stage' = stage
      BY <1>5 DEF Mcp!Subscribe
    <2>5. \A t : IsNext(t)' = IsNext(t)
      BY <2>1 DEF IsNext
    <2> QED
      BY <1>1, <1>2, <1>3, <1>4, <2>1, <2>3, <2>4, <2>5 DEF AckInv
  <1>6. CASE sock = "open"
    <2> DEFINE f == Mcp!Frame("subscribe", s)
    <2>1. /\ outcome' = [outcome EXCEPT ![s] = "waiting"] /\ listeners' = listeners \cup {s}
          /\ toHost' = Append(toHost, f) /\ stage' = after
      BY <1>6 DEF Mcp!Subscribe, Mcp!Write
    <2>2. f \in HostBound /\ f.kind = "subscribe" /\ f.of = s
      BY DEF Mcp!Frame, HostBound
    <2>3. overlapped' = IF Unanswered THEN overlapped \cup {s} ELSE overlapped
      BY <1>3, <2>1 DEF ConsumerStep
    <2>4. \A t \in Alone' \ {s} : t \in Alone /\ outcome'[t] = outcome[t]
      BY <1>1, <1>2, <2>1, <2>3 DEF Alone
    <2>5. \A t : IsNext(t) => IsNext(t)'
      BY <1>1, <2>1, <2>2, NextStays
    <2>6. ASSUME s \in Alone' PROVE ~AckUnderway /\ IsNext(s)'
      <3>1. ~Unanswered
        BY <2>3, <2>6 DEF Alone
      <3>2. Len(toHost') = Len(toHost) + 1 /\ toHost'[Len(toHost) + 1] = f /\ Len(toHost) \in Nat
            /\ \A i \in 1 .. Len(toHost) : toHost'[i] = toHost[i]
        BY <1>1, <2>1, <2>2, AppendProperties, LenProperties
      <3>3. \A j \in 1 .. (Len(toHost) + 1) - 1 : toHost'[j].kind # "subscribe"
        BY <3>1, <3>2 DEF Unanswered
      <3>4. Len(toHost) + 1 \in 1 .. Len(toHost')
        BY <3>2
      <3> QED
        BY <2>2, <3>1, <3>2, <3>3, <3>4 DEF Unanswered, AckUnderway, IsNext
    <2>7. outcome'[s] = "waiting"
      BY <1>1, <2>1
    <2>8. \A t \in listeners' : outcome'[t] # "none"
      BY <1>1, <2>1, <2>7 DEF AckInv
    <2>9. \A t \in Alone' : /\ outcome'[t] # "resolved" /\ ~AckUnderway'
                            /\ readyState'[Consumer] # "none" => IsNext(t)'
      BY <1>2, <1>4, <2>4, <2>5, <2>6, <2>7 DEF AckInv
    <2> QED
      BY <1>2, <1>4, <2>1, <2>8, <2>9 DEF AckInv
  <1> QED
    BY <1>5, <1>6

\* The MCP server takes a frame.
LEMMA AckReceive ==
  ASSUME SystemInv, AckInv, ConsumerStep, Mcp!Receive
  PROVE  AckInv'
  <1> USE SystemAssumption DEF Mcp!ConsumerAssumption
  <1> DEFINE f == Head(toMcp)
  <1>1. /\ toMcp \in Seq(McpThm!HostFrame) /\ listeners \subseteq Sub
        /\ outcome \in [Request \cup Sub -> McpThm!Outcome] /\ pendingControls \subseteq Request
    BY DEF SystemInv, McpThm!TimerInv, McpThm!TypeOK
  <1>2. UNCHANGED <<readyState, isAuthenticated, subscribed, applied, toHost>>
        /\ toMcp # <<>> /\ toMcp' = Tail(toMcp)
    BY DEF ConsumerStep, vars, socketVars, memberVars, Mcp!Receive
  <1>3. /\ f = toMcp[1] /\ Len(toMcp) \in Nat /\ Len(toMcp') = Len(toMcp) - 1 /\ f \in McpThm!HostFrame
        /\ \A i \in 1 .. Len(toMcp') : toMcp'[i] = toMcp[i + 1]
    BY <1>1, <1>2, HeadTailProperties, LenProperties
  <1>4. AckUnderway' => AckUnderway
    BY <1>3 DEF AckUnderway
  <1>5. \A t : IsNext(t)' = IsNext(t)
    BY <1>2 DEF IsNext
  <1>6. listeners' \subseteq listeners
    BY DEF Mcp!Receive, Mcp!OnAuthSuccess, Mcp!OnSubscribeAck, Mcp!OnControlResult,
       Mcp!OnBridgeEvent
  <1>7. UNCHANGED overlapped
    BY <1>6 DEF ConsumerStep
  <1>8. ASSUME \A s \in Sub : outcome'[s] = outcome[s],
               stage' \in {"subscribed", "serving"} => stage' = stage
        PROVE  AckInv'
    <2>1. Alone' = Alone
      BY <1>2, <1>7, <1>8 DEF Alone
    <2> QED
      BY <1>1, <1>2, <1>4, <1>5, <1>6, <1>8, <2>1 DEF AckInv, Alone
  <1>9. CASE f.kind = "subscribe_ack" /\ Mcp!OnSubscribeAck
    <2>1. AckUnderway
      BY <1>2, <1>3, <1>9 DEF AckUnderway
    <2>2. \A s \in Sub : /\ outcome[s] = "none" <=> outcome'[s] = "none"
                         /\ outcome[s] = "refused" <=> outcome'[s] = "refused"
      BY <1>9 DEF Mcp!OnSubscribeAck
    <2>3. Alone' = {}
      BY <1>2, <1>7, <2>1, <2>2 DEF AckInv, Alone
    <2> QED
      BY <1>1, <1>2, <1>4, <1>6, <2>1, <2>2, <2>3 DEF AckInv
  <1>10. CASE Mcp!OnAuthSuccess
    BY <1>8, <1>10 DEF Mcp!OnAuthSuccess
  <1>11. CASE Mcp!OnControlResult(f)
    BY <1>1, <1>8, <1>11 DEF Mcp!OnControlResult
  <1>12. CASE Mcp!OnBridgeEvent(f)
    BY <1>8, <1>12 DEF Mcp!OnBridgeEvent
  <1> QED
    BY <1>9, <1>10, <1>11, <1>12 DEF Mcp!Receive

\* The MCP server does something else.
LEMMA AckConsumerStep == SystemInv /\ AckInv /\ ConsumerStep => AckInv'
  <1> SUFFICES ASSUME SystemInv, AckInv, ConsumerStep PROVE AckInv'
    OBVIOUS
  <1> USE SystemAssumption DEF Mcp!ConsumerAssumption
  <1>1. outcome \in [Request \cup Sub -> McpThm!Outcome] /\ listeners \subseteq Sub
        /\ pendingControls \subseteq Request
    BY DEF SystemInv, McpThm!TimerInv, McpThm!TypeOK
  <1>2. UNCHANGED <<readyState, isAuthenticated, subscribed, applied>>
    BY DEF ConsumerStep, vars, socketVars, memberVars
  <1>3. ASSUME UNCHANGED <<listeners, toHost, toMcp>>,
               \A s \in Sub : outcome'[s] = outcome[s] \/ outcome'[s] = "timedOut",
               \A s \in Sub : outcome'[s] # outcome[s] => outcome[s] = "waiting",
               stage' = "subscribed" => stage' = stage,
               stage' = "serving" => stage \in {"subscribed", "serving"}
        PROVE  AckInv'
    <2>1. UNCHANGED overlapped
      BY <1>3 DEF ConsumerStep
    <2>2. Alone' = Alone
      BY <1>2, <1>3, <2>1 DEF Alone
    <2>3. AckUnderway' = AckUnderway /\ \A t : IsNext(t)' = IsNext(t)
      BY <1>3 DEF AckUnderway, IsNext
    <2>4. \A s \in Alone : s \in Sub
      BY DEF Alone
    <2>5. \A s \in listeners' : outcome'[s] # "none"
      BY <1>1, <1>3 DEF AckInv
    <2>6. \A s \in Alone' : /\ outcome'[s] # "resolved" /\ ~AckUnderway'
                            /\ readyState'[Consumer] # "none" => IsNext(s)'
      BY <1>2, <1>3, <2>2, <2>3, <2>4 DEF AckInv
    <2> QED
      BY <1>2, <1>3, <2>3, <2>5, <2>6 DEF AckInv
  <1>4. CASE Mcp!StartServer
    BY <1>3, <1>4 DEF Mcp!StartServer
  <1>5. CASE Mcp!AuthTimeoutRuns
    BY <1>3, <1>5 DEF Mcp!AuthTimeoutRuns
  <1>6. CASE Mcp!SubscribeFirst
    BY <1>6, AckSubscribe DEF Mcp!SubscribeFirst
  <1>7. CASE Mcp!Serve
    BY <1>3, <1>7 DEF Mcp!Serve
  <1>8. CASE Mcp!Receive
    BY <1>8, AckReceive
  <1>9. CASE Mcp!Stop
    BY <1>3, <1>9 DEF Mcp!Stop
  <1>10. ASSUME NEW s \in Sub, Mcp!SubscribeTool(s) PROVE AckInv'
    BY <1>10, AckSubscribe DEF Mcp!SubscribeTool
  <1>11. ASSUME NEW s \in Sub, Mcp!SubscribeTimeout(s) PROVE AckInv'
    BY <1>1, <1>3, <1>11 DEF Mcp!SubscribeTimeout
  <1>12. ASSUME NEW k \in Request, Mcp!ControlTimeout(k) PROVE AckInv'
    BY <1>1, <1>3, <1>12 DEF Mcp!ControlTimeout
  <1>13. ASSUME NEW k \in Request, Mcp!SendControl(k) PROVE AckInv'
    <2>1. \A s \in Sub : outcome'[s] = outcome[s]
      BY <1>1, <1>13 DEF Mcp!SendControl
    <2>2. UNCHANGED <<listeners, toMcp, stage>>
      BY <1>13 DEF Mcp!SendControl
    <2>3. UNCHANGED toHost \/ toHost' = Append(toHost, Mcp!Frame("control_request", k))
      BY <1>13 DEF Mcp!SendControl, Mcp!Write
    <2>4. Mcp!Frame("control_request", k) \in HostBound /\ toHost \in Seq(HostBound)
      BY DEF Mcp!Frame, HostBound, SystemInv
    <2>5. \A t : IsNext(t) => IsNext(t)'
      <3>1. CASE UNCHANGED toHost
        BY <3>1 DEF IsNext
      <3> QED
        BY <2>3, <2>4, <3>1, NextStays
    <2>6. UNCHANGED overlapped
      BY <2>2 DEF ConsumerStep
    <2>7. Alone' = Alone /\ AckUnderway' = AckUnderway
      BY <1>2, <2>1, <2>2, <2>6 DEF Alone, AckUnderway
    <2> QED
      BY <1>1, <1>2, <2>1, <2>2, <2>5, <2>7 DEF AckInv, Alone
  <1> QED
    BY <1>4, <1>5, <1>6, <1>7, <1>8, <1>9, <1>10, <1>11, <1>12, <1>13
       DEF ConsumerStep, Mcp!ConsumerNext

LEMMA AckStep ==
  ASSUME SystemInv, EarlyInv, AckInv, [SystemNext]_systemVars
  PROVE  AckInv'
  <1> USE SystemAssumption DEF Mcp!ConsumerAssumption
  <1>1. /\ readyState \in [Socket -> {"none", "open", "closing"}]
        /\ isAuthenticated \in [Socket -> BOOLEAN]
        /\ toMcp \in Seq(McpThm!HostFrame) /\ toHost \in Seq(HostBound) /\ listeners \subseteq Sub
    BY DEF SystemInv, TypeOK, SocketTypes, McpThm!TimerInv, McpThm!TypeOK
  <1>2. CASE ConsumerStep
    BY <1>2, AckConsumerStep
  <1>3. CASE ConsumerOpens
    <2>1. sock = "connecting" /\ UNCHANGED <<stage, outcome, listeners, toMcp, noteVars>>
      BY <1>3 DEF ConsumerOpens, Mcp!OnOpen
    <2>2. Alone' = {} /\ ~AckUnderway' /\ stage \notin {"subscribed", "serving"}
      BY <2>1 DEF EarlyInv, Alone, AckUnderway, noteVars
    <2>3. readyState'[Consumer] = "open"
      BY <1>1, <1>3 DEF ConsumerOpens, Connect
    <2> QED
      BY <2>1, <2>2, <2>3 DEF AckInv
  <1>4. CASE ConsumerCloses
    <2>1. UNCHANGED <<outcome, listeners, toHost, noteVars, readyState, isAuthenticated, subscribed>>
          /\ toMcp' = <<>> /\ readyState[Consumer] # "open"
      BY <1>4 DEF ConsumerCloses, Mcp!OnClose, vars, socketVars, memberVars
    <2>2. Alone' = Alone /\ ~AckUnderway' /\ \A t : IsNext(t)' = IsNext(t)
      BY <2>1 DEF Alone, AckUnderway, noteVars, IsNext
    <2> QED
      BY <2>1, <2>2 DEF AckInv
  <1>5. CASE HostReads
    <2> DEFINE f == Head(toHost)
    <2>1. UNCHANGED <<stage, outcome, listeners, overlapped>> /\ toHost # <<>> /\ toHost' = Tail(toHost)
      BY <1>5, HostReadsEffect DEF mcpState
    <2>2. /\ readyState'[Consumer] = "none" => ~isAuthenticated'[Consumer]
          /\ readyState'[Consumer] = "open" => readyState[Consumer] = "open"
          /\ readyState'[Consumer] = "none" <=> readyState[Consumer] = "none"
      <3>1. /\ readyState'[Consumer] = "none" <=> readyState[Consumer] = "none"
            /\ readyState'[Consumer] = "open" => readyState[Consumer] = "open"
        BY <1>5, HostReadsEffect
      <3>2. readyState[Consumer] = "none" => UNCHANGED isAuthenticated
        BY <1>5 DEF HostReads, Authenticate, RefuseFrame, Subscribe, ConsumerRequest, socketVars
      <3> QED
        BY <3>1, <3>2 DEF AckInv
    <2>3. CASE f.kind = "subscribe"
      <3>1. /\ applied' = applied \cup {f.of} /\ Consumer \in subscribed'
            /\ readyState[Consumer] # "none"
        BY <1>5, <2>3, HostReadsEffect DEF AckInv
      <3>2. f = toHost[1] /\ Len(toHost) \in Nat
        BY <1>1, <2>1, HeadTailProperties, LenProperties
      <3>3. \A s : IsNext(s) => s = f.of
        BY <2>3, <3>2 DEF IsNext
      <3>4. Alone' = {}
        BY <2>1, <3>1, <3>3 DEF Alone, AckInv
      <3> QED
        BY <2>1, <2>2, <3>1, <3>4 DEF AckInv
    <2>4. CASE f.kind # "subscribe"
      <3>1. UNCHANGED applied /\ subscribed \subseteq subscribed'
        BY <1>5, <2>4, HostReadsEffect
      <3>2. ~AckUnderway => ~AckUnderway'
        <4>1. CASE UNCHANGED toMcp
          BY <4>1 DEF AckUnderway
        <4>2. ASSUME NEW g \in McpThm!HostFrame, g.kind # "subscribe_ack", toMcp' = Append(toMcp, g)
              PROVE  ~AckUnderway => ~AckUnderway'
          BY <1>1, <4>2, AppendProperties, LenProperties DEF AckUnderway
        <4> QED
          BY <1>5, <2>4, <4>1, <4>2, HostReadsEffect
      <3>3. Alone' = Alone
        BY <2>1, <3>1 DEF Alone
      <3>4. \A s : IsNext(s) => IsNext(s)'
        BY <1>1, <2>1, <2>4, NextMovesUp
      <3> QED
        BY <2>1, <2>2, <3>1, <3>2, <3>3, <3>4 DEF AckInv
    <2> QED
      BY <2>3, <2>4
  <1>6. ASSUME NEW s \in Socket, HostCloses(s) PROVE AckInv'
    <2>1. UNCHANGED <<stage, outcome, listeners, toMcp, noteVars>>
      BY <1>6 DEF HostCloses, mcpState
    <2>2. Alone' = Alone /\ AckUnderway' = AckUnderway
      BY <2>1 DEF Alone, AckUnderway, noteVars
    <2>3. CASE s = Consumer
      <3>1. readyState'[Consumer] = "none" /\ ~isAuthenticated'[Consumer]
        BY <1>1, <1>6, <2>3 DEF HostCloses, Close
      <3> QED
        BY <2>1, <2>2, <3>1 DEF AckInv
    <2>4. CASE s # Consumer
      <3>1. /\ readyState'[Consumer] = readyState[Consumer]
            /\ isAuthenticated'[Consumer] = isAuthenticated[Consumer]
            /\ subscribed \ {s} \subseteq subscribed' /\ UNCHANGED toHost
        BY <1>1, <1>6, <2>4 DEF HostCloses, Close
      <3>2. \A t : IsNext(t)' = IsNext(t)
        BY <3>1 DEF IsNext
      <3> QED
        BY <2>1, <2>2, <2>4, <3>1, <3>2 DEF AckInv
    <2> QED
      BY <2>3, <2>4
  <1>7. ASSUME NEW b \in JsBridge, BridgeStep(b) PROVE AckInv'
    <2>1. /\ UNCHANGED <<mcpState, toHost, applied, overlapped, subscribed,
                         readyState[Consumer], isAuthenticated[Consumer]>>
          /\ UNCHANGED toMcp \/ \E f : Forwarded(f)
      BY <1>7, BridgeLeavesConsumer
    <2>2. ASSUME NEW f, Forwarded(f) PROVE AckUnderway' => AckUnderway
      <3>1. f.kind # "subscribe_ack"
        BY <2>2 DEF Forwarded, Mcp!BridgeEvent, Mcp!Frame
      <3> QED
        BY <1>1, <2>2, <3>1, AppendProperties, LenProperties DEF Forwarded, AckUnderway
    <2>3. AckUnderway' => AckUnderway
      BY <2>1, <2>2 DEF AckUnderway
    <2>4. Alone' = Alone /\ \A t : IsNext(t)' = IsNext(t)
      BY <2>1 DEF Alone, IsNext, mcpState
    <2> QED
      BY <2>1, <2>3, <2>4 DEF AckInv, mcpState
  <1>8. CASE UNCHANGED systemVars
    BY <1>8 DEF systemVars, vars, socketVars, memberVars, mcpVars, mcpState, noteVars, AckInv,
       Alone, IsNext, AckUnderway
  <1> QED
    BY <1>2, <1>3, <1>4, <1>5, <1>6, <1>7, <1>8 DEF SystemNext

LEMMA AckInvariant == SystemSpec => [](SystemInv /\ EarlyInv /\ AckInv)
  <1>1. SystemInit => EarlyInv /\ AckInv
    BY SystemAssumption
       DEF SystemInit, Init, Mcp!Init, Mcp!ConsumerAssumption, EarlyInv, AckInv, Alone
  <1> QED
    BY <1>1, SystemInitial, SystemStep, EarlyStep, AckStep, PTL DEF SystemSpec

\* Whatever number of calls of subscribe() and acks are under way: a call that was made
\* while no other was on its way is resolved by its own ack, and a server that serves is
\* subscribed with the host as long as the host keeps the connection.
THEOREM AcksAnswerTheirOwn == SystemSpec => []AckIsOwn
  <1>1. AckInv => AckIsOwn
    BY DEF AckInv, AckIsOwn, Alone
  <1> QED
    BY <1>1, AckInvariant, PTL

-----------------------------------------------------------------------------
(* Events.                                                                 *)

\* The events after the m-th frame.
EventsAfter(q, m) == {i \in 1 .. Len(q) : i > m /\ q[i].kind = "event"}

LEMMA EventsFinite ==
  ASSUME NEW S, NEW q \in Seq(S), NEW m \in Nat
  PROVE  /\ IsFiniteSet(EventsAfter(q, m)) /\ Cardinality(EventsAfter(q, m)) \in Nat
         /\ EventsAfter(q, m) = {} => Cardinality(EventsAfter(q, m)) = 0
  <1>1. IsFiniteSet(1 .. Len(q))
    BY LenProperties, FS_Interval
  <1>2. EventsAfter(q, m) \in SUBSET (1 .. Len(q))
    BY DEF EventsAfter
  <1>3. IsFiniteSet(EventsAfter(q, m))
    BY <1>1, <1>2, FS_Subset
  <1> QED
    BY <1>3, FS_CardinalityType, FS_EmptySet

\* A frame is added: one event more, or none.
LEMMA EventsAppended ==
  ASSUME NEW S, NEW q \in Seq(S), NEW f \in S, NEW m \in 0 .. Len(q)
  PROVE  Cardinality(EventsAfter(Append(q, f), m)) =
           IF f.kind = "event" THEN Cardinality(EventsAfter(q, m)) + 1
                               ELSE Cardinality(EventsAfter(q, m))
  <1>1. /\ Len(Append(q, f)) = Len(q) + 1 /\ Append(q, f)[Len(q) + 1] = f /\ Len(q) \in Nat
        /\ \A i \in 1 .. Len(q) : Append(q, f)[i] = q[i]
    BY AppendProperties, LenProperties
  <1>2. IsFiniteSet(EventsAfter(q, m)) /\ Len(q) + 1 \notin EventsAfter(q, m)
    BY <1>1, EventsFinite DEF EventsAfter
  <1>3. CASE f.kind = "event"
    <2>1. EventsAfter(Append(q, f), m) = EventsAfter(q, m) \cup {Len(q) + 1}
      BY <1>1, <1>3 DEF EventsAfter
    <2> QED
      BY <1>2, <1>3, <2>1, FS_AddElement
  <1>4. CASE f.kind # "event"
    <2>1. EventsAfter(Append(q, f), m) = EventsAfter(q, m)
      BY <1>1, <1>4 DEF EventsAfter
    <2> QED
      BY <1>4, <2>1
  <1> QED
    BY <1>3, <1>4

\* The first frame is taken: the events move up by one.
LEMMA EventsMoveUp ==
  ASSUME NEW S, NEW q \in Seq(S), q # <<>>, NEW m \in Nat
  PROVE  Cardinality(EventsAfter(Tail(q), m)) = Cardinality(EventsAfter(q, m + 1))
  <1> DEFINE T == EventsAfter(q, m + 1)
             U == EventsAfter(Tail(q), m)
             up == [i \in T |-> i - 1]
  <1>1. /\ Len(Tail(q)) = Len(q) - 1 /\ Len(q) \in Nat
        /\ \A i \in 1 .. Len(Tail(q)) : Tail(q)[i] = q[i + 1]
    BY HeadTailProperties, LenProperties
  <1>2. \A i \in T : i - 1 \in U
    BY <1>1 DEF EventsAfter
  <1>3. \A j \in U : j + 1 \in T /\ (j + 1) - 1 = j
    BY <1>1 DEF EventsAfter
  <1>4. \A i, j \in T : i - 1 = j - 1 => i = j
    BY <1>1 DEF EventsAfter
  <1> HIDE DEF T, U
  <1>5. up \in [T -> U]
    BY <1>2
  <1>6. \A j \in U : \E i \in T : up[i] = j
    BY <1>3
  <1>7. \A i, j \in T : up[i] = up[j] => i = j
    BY <1>4
  <1>8. up \in Bijection(T, U)
    BY <1>5, <1>6, <1>7 DEF Bijection, Injection, Surjection, IsInjective
  <1>9. ExistsBijection(T, U)
    BY <1>8 DEF ExistsBijection
  <1>10. IsFiniteSet(T)
    BY EventsFinite DEF T
  <1>11. Cardinality(U) = Cardinality(T)
    BY <1>9, <1>10, FS_Bijection
  <1> QED
    BY <1>11 DEF T, U

\* The first frame counts if it is an event.
LEMMA FirstEvent ==
  ASSUME NEW S, NEW q \in Seq(S), q # <<>>
  PROVE  Cardinality(EventsAfter(q, 0)) =
           IF q[1].kind = "event" THEN Cardinality(EventsAfter(q, 1)) + 1
                                  ELSE Cardinality(EventsAfter(q, 1))
  <1>1. Len(q) \in Nat \ {0}
    BY LenProperties, EmptySeq
  <1>2. IsFiniteSet(EventsAfter(q, 1)) /\ 1 \notin EventsAfter(q, 1)
    BY EventsFinite DEF EventsAfter
  <1>3. CASE q[1].kind = "event"
    <2>1. EventsAfter(q, 0) = EventsAfter(q, 1) \cup {1}
      BY <1>1, <1>3 DEF EventsAfter
    <2> QED
      BY <1>2, <1>3, <2>1, FS_AddElement
  <1>4. CASE q[1].kind # "event"
    <2>1. EventsAfter(q, 0) = EventsAfter(q, 1)
      BY <1>1, <1>4 DEF EventsAfter
    <2> QED
      BY <1>4, <2>1
  <1> QED
    BY <1>3, <1>4

\* While frames arrive, an event under way is followed by as many as the host has sent since,
\* and the last one in the buffer by those that are under way.
Stream ==
  /\ \A i \in EventsAfter(toMcp, 0) :
       toMcp[i].of + Cardinality(EventsAfter(toMcp, i)) = sentEvents
  /\ events # <<>> =>
       events[Len(events)] + Cardinality(EventsAfter(toMcp, 0)) = sentEvents

Buffered ==
  /\ Len(events) <= Limit
  /\ \A i \in 1 .. Len(events) - 1 : events[i + 1] = events[i] + 1
  /\ events # <<>> => stage \in {"serving", "stopped"}

BufferInv == Buffered /\ (sock \in {"open", "closing"} => Stream)

\* The buffer takes the event that comes next.
LEMMA PushNext ==
  ASSUME SystemInv, Buffered, NEW n \in Nat, Mcp!Push(n),
         events # <<>> => n = events[Len(events)] + 1
  PROVE  /\ Len(events') <= Limit /\ events' # <<>> /\ events'[Len(events')] = n
         /\ \A i \in 1 .. Len(events') - 1 : events'[i + 1] = events'[i] + 1
  <1> USE SystemAssumption DEF Mcp!ConsumerAssumption, Buffered
  <1>1. events \in Seq(Nat) /\ Len(events) \in Nat
    BY LenProperties DEF SystemInv, McpThm!TimerInv, McpThm!TypeOK
  <1>2. \A q \in Seq(Nat) : /\ Len(Append(q, n)) = Len(q) + 1 /\ Append(q, n)[Len(q) + 1] = n
                            /\ Append(q, n) # <<>> /\ Len(q) \in Nat
                            /\ \A i \in 1 .. Len(q) : Append(q, n)[i] = q[i]
    BY AppendProperties, LenProperties
  <1>3. CASE Len(events) < Limit
    <2>1. events' = Append(events, n)
      BY <1>3 DEF Mcp!Push
    <2>2. events = <<>> => Len(events) = 0
      OBVIOUS
    <2>3. events # <<>> => Len(events) > 0
      BY <1>1, EmptySeq
    <2> QED
      BY <1>1, <1>2, <1>3, <2>1, <2>2, <2>3
  <1>4. CASE ~(Len(events) < Limit)
    <2> DEFINE q == Tail(events)
    <2>1. events' = Append(q, n) /\ events # <<>>
      BY <1>1, <1>4, EmptySeq DEF Mcp!Push
    <2>2. /\ q \in Seq(Nat) /\ Len(q) = Len(events) - 1
          /\ \A i \in 1 .. Len(q) : q[i] = events[i + 1]
      BY <1>1, <2>1, HeadTailProperties
    <2>3. \A i \in 1 .. Len(q) - 1 : q[i + 1] = q[i] + 1
      BY <1>1, <2>2
    <2>4. Len(q) > 0 => q[Len(q)] = events[Len(events)]
      BY <1>1, <2>2
    <2> HIDE DEF q
    <2> QED
      BY <1>1, <1>2, <1>4, <2>1, <2>2, <2>3, <2>4
  <1> QED
    BY <1>3, <1>4

\* The MCP server takes a frame.
LEMMA BufferReceive ==
  ASSUME SystemInv, BufferInv, ConsumerStep, Mcp!Receive
  PROVE  BufferInv'
  <1> USE SystemAssumption DEF Mcp!ConsumerAssumption
  <1> DEFINE f == Head(toMcp)
             Left == Cardinality(EventsAfter(toMcp', 0))
  <1>1. toMcp \in Seq(McpThm!HostFrame) /\ events \in Seq(Nat)
    BY DEF SystemInv, McpThm!TimerInv, McpThm!TypeOK
  <1>2. /\ toMcp # <<>> /\ toMcp' = Tail(toMcp) /\ sock \in {"open", "closing"}
        /\ UNCHANGED <<sock, sentEvents>> /\ Stream
    BY DEF Mcp!Receive, ConsumerStep, BufferInv
  <1>3. /\ f = toMcp[1] /\ f \in McpThm!HostFrame /\ toMcp' \in Seq(McpThm!HostFrame)
        /\ Len(toMcp) \in Nat \ {0} /\ Len(toMcp') = Len(toMcp) - 1
        /\ \A i \in 1 .. Len(toMcp') : toMcp'[i] = toMcp[i + 1]
    BY <1>1, <1>2, HeadTailProperties, LenProperties, EmptySeq
  <1>4. Left = Cardinality(EventsAfter(toMcp, 1)) /\ Left \in Nat
    BY <1>1, <1>2, <1>3, EventsMoveUp, EventsFinite
  <1>5. \A i \in EventsAfter(toMcp', 0) :
          toMcp'[i].of + Cardinality(EventsAfter(toMcp', i)) = sentEvents
    <2> SUFFICES ASSUME NEW i \in EventsAfter(toMcp', 0)
                 PROVE  toMcp'[i].of + Cardinality(EventsAfter(toMcp', i)) = sentEvents
      OBVIOUS
    <2>1. i \in 1 .. Len(toMcp') /\ i \in Nat /\ toMcp'[i] = toMcp[i + 1]
      BY <1>3 DEF EventsAfter
    <2>2. i + 1 \in EventsAfter(toMcp, 0)
      BY <1>3, <2>1 DEF EventsAfter
    <2>3. Cardinality(EventsAfter(toMcp', i)) = Cardinality(EventsAfter(toMcp, i + 1))
      BY <1>1, <1>2, <2>1, EventsMoveUp
    <2> QED
      BY <1>2, <2>1, <2>2, <2>3 DEF Stream
  <1>6. Cardinality(EventsAfter(toMcp, 0)) = IF f.kind = "event" THEN Left + 1 ELSE Left
    BY <1>1, <1>2, <1>3, <1>4, FirstEvent
  <1> HIDE DEF Left
  <1>7. CASE f.kind # "event"
    <2>1. UNCHANGED events /\ (stage \in {"serving", "stopped"} => stage' = stage)
      BY <1>7 DEF Mcp!Receive, Mcp!OnAuthSuccess, Mcp!OnSubscribeAck, Mcp!OnControlResult
    <2>2. Stream'
      BY <1>2, <1>5, <1>6, <1>7, <2>1 DEF Stream, Left
    <2> QED
      BY <1>2, <2>1, <2>2 DEF BufferInv, Buffered
  <1>8. CASE f.kind = "event"
    <2>1. Mcp!OnBridgeEvent(f) /\ UNCHANGED stage
      BY <1>8 DEF Mcp!Receive, Mcp!OnBridgeEvent
    <2>2. f.of \in Nat /\ sentEvents \in Nat
      BY <1>3, <1>8, SystemAssumption DEF McpThm!HostFrame, SystemInv
    <2>3. f.of + Left = sentEvents
      BY <1>2, <1>3, <1>4, <1>8 DEF Stream, EventsAfter
    <2>4. CASE stage \in {"serving", "stopped"}
      <3>1. Mcp!Push(f.of)
        BY <2>1, <2>4 DEF Mcp!OnBridgeEvent
      <3>2. events # <<>> => f.of = events[Len(events)] + 1
        <4> SUFFICES ASSUME events # <<>> PROVE f.of = events[Len(events)] + 1
          OBVIOUS
        <4>1. events[Len(events)] \in Nat
          BY <1>1, LenProperties, EmptySeq
        <4>2. events[Len(events)] + (Left + 1) = sentEvents
          BY <1>2, <1>6, <1>8 DEF Stream
        <4> QED
          BY <1>4, <2>2, <2>3, <4>1, <4>2
      <3>3. /\ Len(events') <= Limit /\ events' # <<>> /\ events'[Len(events')] = f.of
            /\ \A i \in 1 .. Len(events') - 1 : events'[i + 1] = events'[i] + 1
        BY <2>2, <3>1, <3>2, PushNext DEF BufferInv
      <3>4. Stream'
        BY <1>2, <1>5, <2>3, <3>3 DEF Stream, Left
      <3> QED
        BY <2>1, <2>4, <3>3, <3>4 DEF BufferInv, Buffered
    <2>5. CASE stage \notin {"serving", "stopped"}
      <3>1. UNCHANGED events /\ events = <<>>
        BY <2>1, <2>5 DEF Mcp!OnBridgeEvent, BufferInv, Buffered
      <3>2. Stream'
        BY <1>2, <1>5, <3>1 DEF Stream
      <3> QED
        BY <2>1, <3>1, <3>2 DEF BufferInv, Buffered
    <2> QED
      BY <2>4, <2>5
  <1> QED
    BY <1>7, <1>8

\* The host sends a frame.
LEMMA BufferSent ==
  ASSUME SystemInv, BufferInv, UNCHANGED mcpState, NEW f \in McpThm!HostFrame,
         toMcp' = Append(toMcp, f),
         \/ f.kind # "event" /\ UNCHANGED sentEvents
         \/ f = Mcp!BridgeEvent(sentEvents + 1) /\ sentEvents' = sentEvents + 1
  PROVE  BufferInv'
  <1>1. toMcp \in Seq(McpThm!HostFrame) /\ sentEvents \in Nat /\ events \in Seq(Nat)
    BY DEF SystemInv, McpThm!TimerInv, McpThm!TypeOK
  <1>2. Buffered'
    BY DEF BufferInv, Buffered, mcpState
  <1>3. UNCHANGED <<sock, events>>
    BY DEF mcpState
  <1> SUFFICES ASSUME Stream PROVE Stream'
    BY <1>2, <1>3 DEF BufferInv
  <1>4. /\ Len(toMcp') = Len(toMcp) + 1 /\ toMcp'[Len(toMcp) + 1] = f /\ Len(toMcp) \in Nat
        /\ \A i \in 1 .. Len(toMcp) : toMcp'[i] = toMcp[i]
    BY <1>1, AppendProperties, LenProperties
  <1>5. \A m \in 0 .. Len(toMcp) :
          /\ Cardinality(EventsAfter(toMcp', m)) =
               IF f.kind = "event" THEN Cardinality(EventsAfter(toMcp, m)) + 1
                                   ELSE Cardinality(EventsAfter(toMcp, m))
          /\ Cardinality(EventsAfter(toMcp, m)) \in Nat
    BY <1>1, <1>4, EventsAppended, EventsFinite
  <1>6. sentEvents' = IF f.kind = "event" THEN sentEvents + 1 ELSE sentEvents
    BY DEF Mcp!BridgeEvent, Mcp!Frame
  <1>7. ASSUME NEW i \in EventsAfter(toMcp', 0), i # Len(toMcp) + 1
        PROVE  toMcp'[i].of + Cardinality(EventsAfter(toMcp', i)) = sentEvents'
    <2>1. i \in EventsAfter(toMcp, 0) /\ i \in 0 .. Len(toMcp) /\ toMcp'[i] = toMcp[i]
      BY <1>4, <1>7 DEF EventsAfter
    <2>2. toMcp[i].of \in Nat
      <3>1. toMcp[i] \in McpThm!HostFrame /\ toMcp[i].kind = "event"
        BY <1>1, <2>1, LenProperties DEF EventsAfter
      <3> QED
        BY <3>1 DEF McpThm!HostFrame
    <2>3. toMcp[i].of + Cardinality(EventsAfter(toMcp, i)) = sentEvents
      BY <2>1 DEF Stream
    <2>4. /\ Cardinality(EventsAfter(toMcp', i)) =
               IF f.kind = "event" THEN Cardinality(EventsAfter(toMcp, i)) + 1
                                   ELSE Cardinality(EventsAfter(toMcp, i))
          /\ Cardinality(EventsAfter(toMcp, i)) \in Nat
      BY <1>5, <2>1
    <2>5. CASE f.kind = "event"
      <3>1. toMcp[i].of + (Cardinality(EventsAfter(toMcp, i)) + 1) = sentEvents + 1
        <4> DEFINE n == toMcp[i].of
                   c == Cardinality(EventsAfter(toMcp, i))
        <4>1. n \in Nat /\ c \in Nat /\ n + c = sentEvents
          BY <2>2, <2>3, <2>4
        <4> HIDE DEF n, c
        <4>2. n + (c + 1) = sentEvents + 1
          BY <1>1, <4>1
        <4> QED
          BY <4>2 DEF n, c
      <3> QED
        BY <1>6, <2>1, <2>4, <2>5, <3>1
    <2>6. CASE f.kind # "event"
      BY <1>6, <2>1, <2>3, <2>4, <2>6
    <2> QED
      BY <2>5, <2>6
  <1>8. ASSUME Len(toMcp) + 1 \in EventsAfter(toMcp', 0)
        PROVE  toMcp'[Len(toMcp) + 1].of + Cardinality(EventsAfter(toMcp', Len(toMcp) + 1)) = sentEvents'
    <2>1. f.of = sentEvents + 1 /\ sentEvents' = sentEvents + 1
      BY <1>4, <1>8 DEF EventsAfter, Mcp!BridgeEvent, Mcp!Frame
    <2>2. EventsAfter(toMcp', Len(toMcp) + 1) = {}
      BY <1>4 DEF EventsAfter
    <2>3. Cardinality(EventsAfter(toMcp', Len(toMcp) + 1)) = 0
      BY <2>2, FS_EmptySet
    <2>4. toMcp'[Len(toMcp) + 1].of = sentEvents + 1
      BY <1>4, <2>1
    <2> QED
      BY <1>1, <2>1, <2>3, <2>4
  <1>9. events # <<>> =>
          events[Len(events)] + Cardinality(EventsAfter(toMcp', 0)) = sentEvents'
    <2> SUFFICES ASSUME events # <<>>
                 PROVE  events[Len(events)] + Cardinality(EventsAfter(toMcp', 0)) = sentEvents'
      OBVIOUS
    <2>1. events[Len(events)] \in Nat
      BY <1>1, LenProperties, EmptySeq
    <2>2. events[Len(events)] + Cardinality(EventsAfter(toMcp, 0)) = sentEvents
      BY DEF Stream
    <2>3. 0 \in 0 .. Len(toMcp)
      BY <1>4
    <2> QED
      BY <1>1, <1>5, <1>6, <2>1, <2>2, <2>3
  <1> QED
    BY <1>3, <1>7, <1>8, <1>9 DEF Stream

LEMMA BufferStep ==
  ASSUME SystemInv, EarlyInv, BufferInv, [SystemNext]_systemVars
  PROVE  BufferInv'
  <1> USE SystemAssumption DEF Mcp!ConsumerAssumption
  <1>1. toMcp \in Seq(McpThm!HostFrame)
    BY DEF SystemInv, McpThm!TimerInv, McpThm!TypeOK
  <1>2. ASSUME UNCHANGED <<events, toMcp, sentEvents>>,
               stage \in {"serving", "stopped"} => stage' \in {"serving", "stopped"},
               sock' \in {"open", "closing"} => sock \in {"open", "closing"}
        PROVE  BufferInv'
    BY <1>2 DEF BufferInv, Buffered, Stream
  <1>3. CASE ConsumerStep
    <2>1. UNCHANGED sentEvents
      BY <1>3 DEF ConsumerStep
    <2>2. stage \in {"serving", "stopped"} => outcome[First] = "resolved"
      BY DEF SystemInv, McpThm!TimerInv, McpThm!FirstInv
    <2>3. CASE Mcp!Receive
      BY <1>3, <2>3, BufferReceive
    <2>4. CASE Mcp!StartServer
      BY <1>2, <2>1, <2>4 DEF Mcp!StartServer
    <2>5. CASE Mcp!AuthTimeoutRuns
      BY <1>2, <2>1, <2>5 DEF Mcp!AuthTimeoutRuns
    <2>6. CASE Mcp!SubscribeFirst
      BY <1>2, <2>1, <2>6 DEF Mcp!SubscribeFirst, Mcp!Subscribe
    <2>7. CASE Mcp!Serve
      BY <1>2, <2>1, <2>7 DEF Mcp!Serve
    <2>8. CASE Mcp!Stop
      BY <1>2, <2>1, <2>8 DEF Mcp!Stop
    <2>9. ASSUME NEW s \in Sub, Mcp!SubscribeTool(s) PROVE BufferInv'
      BY <1>2, <2>1, <2>9 DEF Mcp!SubscribeTool, Mcp!Subscribe
    <2>10. ASSUME NEW s \in Sub, Mcp!SubscribeTimeout(s) PROVE BufferInv'
      BY <1>2, <2>1, <2>2, <2>10 DEF Mcp!SubscribeTimeout
    <2>11. ASSUME NEW k \in Request, Mcp!SendControl(k) \/ Mcp!ControlTimeout(k) PROVE BufferInv'
      BY <1>2, <2>1, <2>11 DEF Mcp!SendControl, Mcp!ControlTimeout
    <2> QED
      BY <1>3, <2>3, <2>4, <2>5, <2>6, <2>7, <2>8, <2>9, <2>10, <2>11
         DEF ConsumerStep, Mcp!ConsumerNext
  <1>4. CASE ConsumerOpens
    <2>1. UNCHANGED <<events, stage, toMcp>> /\ sock = "connecting"
      BY <1>4 DEF ConsumerOpens, Mcp!OnOpen
    <2>2. events = <<>> /\ EventsAfter(toMcp, 0) = {}
      BY <2>1 DEF EarlyInv, EventsAfter
    <2> QED
      BY <2>1, <2>2 DEF BufferInv, Buffered, Stream
  <1>5. CASE ConsumerCloses
    BY <1>5 DEF ConsumerCloses, Mcp!OnClose, BufferInv, Buffered
  <1>6. CASE HostReads
    <2>1. UNCHANGED <<mcpState, sentEvents>>
      BY <1>6, HostReadsEffect
    <2>2. Mcp!SubscribeAck \in McpThm!HostFrame /\ Mcp!SubscribeAck.kind = "subscribe_ack"
      BY DEF Mcp!SubscribeAck, Mcp!Frame, McpThm!HostFrame
    <2>3. \/ UNCHANGED toMcp
          \/ \E f \in McpThm!HostFrame : f.kind # "event" /\ toMcp' = Append(toMcp, f)
      BY <1>6, <2>2, HostReadsEffect
    <2> QED
      BY <1>2, <2>1, <2>3, BufferSent DEF mcpState
  <1>7. ASSUME NEW s \in Socket, HostCloses(s) PROVE BufferInv'
    BY <1>2, <1>7 DEF HostCloses, mcpState, noteVars
  <1>8. ASSUME NEW b \in JsBridge, BridgeStep(b) PROVE BufferInv'
    <2>1. UNCHANGED mcpState /\ (UNCHANGED <<toMcp, sentEvents>> \/ \E f : Forwarded(f))
      BY <1>8, BridgeLeavesConsumer
    <2>2. ASSUME NEW f, Forwarded(f) PROVE BufferInv'
      BY <2>1, <2>2, BufferSent DEF Forwarded
    <2> QED
      BY <1>2, <2>1, <2>2 DEF mcpState
  <1>9. CASE UNCHANGED systemVars
    BY <1>2, <1>9 DEF systemVars, mcpVars, mcpState, noteVars
  <1> QED
    BY <1>3, <1>4, <1>5, <1>6, <1>7, <1>8, <1>9 DEF SystemNext

\* Whatever the capacity of the buffer and the number of events: it holds the last of those
\* sent, but for the ones on their way, in order and without a gap.
THEOREM BufferIsLatest == SystemSpec => []BufferHoldsLatest
  <1>1. SystemInit => BufferInv /\ EarlyInv
    BY SystemAssumption
       DEF SystemInit, Init, Mcp!Init, Mcp!ConsumerAssumption, BufferInv, Buffered, EarlyInv
  <1>2. EventsAfter(toMcp, 0) = Underway
    BY DEF EventsAfter, Underway
  <1>3. BufferInv => BufferHoldsLatest
    BY <1>2 DEF BufferInv, Buffered, Stream, BufferHoldsLatest
  <1> QED
    BY <1>1, <1>3, SystemInitial, SystemStep, EarlyStep, BufferStep, PTL DEF SystemSpec

=============================================================================
