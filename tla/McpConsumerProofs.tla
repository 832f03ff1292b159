-------------------------- MODULE McpConsumerProofs --------------------------
(***************************************************************************)
(* Theorems about McpConsumer, for every number of calls and every         *)
(* capacity of the buffer, and for a host that may send any frame at any   *)
(* time.                                                                   *)
(***************************************************************************)
EXTENDS McpConsumer, SequenceTheorems, TLAPS

-----------------------------------------------------------------------------
(* Types.                                                                  *)

LEMMA InitTyped == Init => TypeOK
  <1> SUFFICES ASSUME Init PROVE TypeOK
    OBVIOUS
  <1>1. events \in Seq(Nat) /\ toMcp \in Seq(HostFrame)
    BY DEF Init
  <1> QED
    BY <1>1 DEF Init, TypeOK, Stage, Outcome

\* The buffer remains a sequence, full or not.
LEMMA PushTyped ==
  ASSUME ConsumerAssumption, NEW n \in Nat, events \in Seq(Nat), Push(n)
  PROVE  events' \in Seq(Nat)
  <1>1. CASE Len(events) < Limit
    BY <1>1, AppendProperties DEF Push
  <1>2. CASE ~(Len(events) < Limit)
    <2>1. events # <<>>
      BY <1>2, EmptySeq DEF ConsumerAssumption
    <2>2. Tail(events) \in Seq(Nat)
      BY <2>1, HeadTailProperties
    <2> QED
      BY <1>2, <2>2, AppendProperties DEF Push
  <1> QED
    BY <1>1, <1>2

LEMMA ReceiveTyped ==
  ASSUME ConsumerAssumption
  PROVE  TypeOK /\ Receive => TypeOK'
  <1> SUFFICES ASSUME TypeOK, Receive PROVE TypeOK'
    OBVIOUS
  <1> DEFINE f == Head(toMcp)
  <1>1. f \in HostFrame /\ toMcp' \in Seq(HostFrame)
    BY HeadTailProperties DEF Receive, TypeOK
  <1>2. sock' = sock /\ released' = released
    BY DEF Receive
  <1> USE DEF TypeOK, Stage, Outcome
  <1>3. CASE f.kind = "auth_success" /\ OnAuthSuccess
    BY <1>1, <1>2, <1>3 DEF OnAuthSuccess
  <1>4. CASE f.kind = "subscribe_ack" /\ OnSubscribeAck
    BY <1>1, <1>2, <1>4 DEF OnSubscribeAck
  <1>5. CASE f.kind \in {"control_result", "control_error"} /\ OnControlResult(f)
    BY <1>1, <1>2, <1>5 DEF OnControlResult
  <1>6. CASE f.kind = "event" /\ OnBridgeEvent(f)
    <2>1. f.of \in Nat
      BY <1>1, <1>6 DEF HostFrame
    <2>2. events' \in Seq(Nat)
      BY <1>6, <2>1, PushTyped DEF OnBridgeEvent
    <2> QED
      BY <1>1, <1>2, <1>6, <2>2 DEF OnBridgeEvent
  <1> QED
    BY <1>3, <1>4, <1>5, <1>6 DEF Receive

LEMMA TypeStep ==
  ASSUME ConsumerAssumption
  PROVE  TypeOK /\ [Next]_mcpVars => TypeOK'
  <1> SUFFICES ASSUME TypeOK, [Next]_mcpVars PROVE TypeOK'
    OBVIOUS
  <1> USE DEF ConsumerAssumption, TypeOK, Stage, Outcome
  <1>1. CASE StartServer
    BY <1>1 DEF StartServer
  <1>2. CASE AuthTimeoutRuns
    BY <1>2 DEF AuthTimeoutRuns
  <1>3. CASE SubscribeFirst
    BY <1>3 DEF SubscribeFirst, Subscribe
  <1>4. CASE Serve
    BY <1>4 DEF Serve
  <1>5. CASE Receive
    BY <1>5, ReceiveTyped
  <1>6. CASE Stop
    BY <1>6 DEF Stop
  <1>7. ASSUME NEW s \in Sub, SubscribeTool(s) PROVE TypeOK'
    BY <1>7 DEF SubscribeTool, Subscribe
  <1>8. ASSUME NEW s \in Sub, SubscribeTimeout(s) PROVE TypeOK'
    BY <1>8 DEF SubscribeTimeout
  <1>9. ASSUME NEW k \in Call, SendControl(k) PROVE TypeOK'
    BY <1>9 DEF SendControl
  <1>10. ASSUME NEW k \in Call, ControlTimeout(k) PROVE TypeOK'
    BY <1>10 DEF ControlTimeout
  <1>11. CASE OnOpen
    BY <1>11 DEF OnOpen
  <1>12. CASE OnClose
    <2>1. toMcp' \in Seq(HostFrame)
      BY <1>12 DEF OnClose
    <2> QED
      BY <1>12, <2>1 DEF OnClose
  <1>13. CASE HostNext
    <2>1. ASSUME NEW f \in HostFrame PROVE Append(toMcp, f) \in Seq(HostFrame)
      BY AppendProperties
    <2>2. toMcp' \in Seq(HostFrame)
      BY <1>13, <2>1 DEF HostNext
    <2> QED
      BY <1>13, <2>2 DEF HostNext, consumerVars
  <1>14. CASE UNCHANGED mcpVars
    BY <1>14 DEF mcpVars, consumerVars
  <1> QED
    BY <1>1, <1>2, <1>3, <1>4, <1>5, <1>6, <1>7, <1>8, <1>9, <1>10, <1>11, <1>12, <1>13,
       <1>14 DEF Next, ConsumerNext

\* Every variable keeps its type, whatever the host sends.
THEOREM TypeCorrect ==
  ASSUME ConsumerAssumption
  PROVE  Spec => []TypeOK
  <1>1. TypeOK /\ [Next]_mcpVars => TypeOK'
    BY TypeStep
  <1> QED
    BY <1>1, InitTyped, PTL DEF Spec

-----------------------------------------------------------------------------
(* Calls and their timers.                                                 *)

\* The first subscription has been answered by the time the server serves: its timer
\* cannot make a server that was stopped fail.
FirstInv ==
  /\ stage \in {"new", "connecting", "connected"} => outcome[First] = "none"
  /\ stage = "subscribing" => outcome[First] = "waiting" /\ First \in listeners
  /\ stage \in {"subscribed", "serving", "stopped"} => outcome[First] = "resolved"

TimerInv == TypeOK /\ FirstInv /\ WaitingHaveTimers

LEMMA TimerStep ==
  ASSUME ConsumerAssumption
  PROVE  TimerInv /\ [Next]_mcpVars => TimerInv'
  <1> SUFFICES ASSUME TimerInv, [Next]_mcpVars PROVE FirstInv' /\ WaitingHaveTimers'
    BY TypeStep DEF TimerInv
  <1> USE DEF ConsumerAssumption, TimerInv, TypeOK, FirstInv, WaitingHaveTimers, Stage, Outcome
  <1>1. CASE StartServer
    BY <1>1 DEF StartServer
  <1>2. CASE AuthTimeoutRuns
    BY <1>2 DEF AuthTimeoutRuns
  <1>3. CASE SubscribeFirst
    BY <1>3 DEF SubscribeFirst, Subscribe
  <1>4. CASE Serve
    BY <1>4 DEF Serve
  <1>5. CASE Receive
    <2> DEFINE f == Head(toMcp)
    <2>1. CASE OnAuthSuccess
      BY <2>1 DEF OnAuthSuccess
    <2>2. CASE OnSubscribeAck
      BY <2>2 DEF OnSubscribeAck
    <2>3. CASE OnControlResult(f)
      <3>1. f \in HostFrame
        BY <1>5, HeadTailProperties DEF Receive
      <3>2. CASE f.of \in pendingControls
        BY <2>3, <3>2 DEF OnControlResult
      <3>3. CASE f.of \notin pendingControls
        BY <2>3, <3>3 DEF OnControlResult
      <3> QED
        BY <3>2, <3>3
    <2>4. CASE OnBridgeEvent(f)
      BY <2>4 DEF OnBridgeEvent
    <2> QED
      BY <1>5, <2>1, <2>2, <2>3, <2>4 DEF Receive
  <1>6. CASE Stop
    BY <1>6 DEF Stop
  <1>7. ASSUME NEW s \in Sub, SubscribeTool(s) PROVE FirstInv' /\ WaitingHaveTimers'
    BY <1>7 DEF SubscribeTool, Subscribe
  <1>8. ASSUME NEW s \in Sub, SubscribeTimeout(s) PROVE FirstInv' /\ WaitingHaveTimers'
    BY <1>8 DEF SubscribeTimeout
  <1>9. ASSUME NEW k \in Call, SendControl(k) PROVE FirstInv' /\ WaitingHaveTimers'
    BY <1>9 DEF SendControl
  <1>10. ASSUME NEW k \in Call, ControlTimeout(k) PROVE FirstInv' /\ WaitingHaveTimers'
    BY <1>10 DEF ControlTimeout
  <1>11. CASE OnOpen
    BY <1>11 DEF OnOpen
  <1>12. CASE OnClose
    BY <1>12 DEF OnClose
  <1>13. CASE HostNext
    BY <1>13 DEF HostNext, consumerVars
  <1>14. CASE UNCHANGED mcpVars
    BY <1>14 DEF mcpVars, consumerVars
  <1> QED
    BY <1>1, <1>2, <1>3, <1>4, <1>5, <1>6, <1>7, <1>8, <1>9, <1>10, <1>11, <1>12, <1>13,
       <1>14 DEF Next, ConsumerNext

\* No call waits without a timer and no answered call has one, whatever the host sends:
\* results that are late, repeated, or for a call that was never made.
THEOREM TimersOfWaitingCalls ==
  ASSUME ConsumerAssumption
  PROVE  Spec => []WaitingHaveTimers
  <1>1. Init => TimerInv
    BY InitTyped DEF ConsumerAssumption, TimerInv, FirstInv, WaitingHaveTimers, Init
  <1>2. TimerInv => WaitingHaveTimers
    BY DEF TimerInv
  <1>3. TimerInv /\ [Next]_mcpVars => TimerInv'
    BY TimerStep
  <1> QED
    BY <1>1, <1>2, <1>3, PTL DEF Spec

=============================================================================
