------------------------ MODULE BridgeWebSocketProofs ------------------------
(***************************************************************************)
(* Theorems about BridgeWebSocket, for every set of sockets, both          *)
(* platforms, every buffer limit and every choice of the timer constants.  *)
(***************************************************************************)
EXTENDS BridgeWebSocket, SequenceTheorems, TLAPS

-----------------------------------------------------------------------------
(* Types.                                                                  *)

LEMMA FrameTypes ==
  /\ Auth \in Frame /\ Hello \in Frame
  /\ \A n \in Nat : Event(n) \in Frame /\ Notice(n) \in Frame
  BY DEF Auth, Hello, Event, Notice, Frame

\* What sequences of frames are built with yields sequences of frames.
LEMMA SeqTypes ==
  ASSUME NEW q \in Seq(Frame)
  PROVE  /\ \A f \in Frame : Append(q, f) \in Seq(Frame) /\ q \o <<f>> \in Seq(Frame)
         /\ q # <<>> => Head(q) \in Frame /\ Tail(q) \in Seq(Frame)
         /\ Len(q) > 0 => q # <<>>
  <1>1. q # <<>> => Head(q) \in Frame /\ Tail(q) \in Seq(Frame)
    BY HeadTailProperties
  <1>2. \A f \in Frame : <<f>> \in Seq(Frame)
    OBVIOUS
  <1>3. \A f \in Frame : q \o <<f>> \in Seq(Frame)
    BY <1>2, ConcatProperties
  <1> QED
    BY <1>1, <1>3, AppendProperties, EmptySeq

\* Writing a frame to the open socket keeps the wires and the log typed.
LEMMA WriteTyped ==
  ASSUME TypeOK, IsOpen, NEW f \in Frame, Write(cur, <<f>>), log' = Append(log, f)
  PROVE  wire' \in [Sock -> Seq(Frame)] /\ log' \in Seq(Frame)
  <1>1. cur \in Sock
    BY DEF IsOpen, TypeOK
  <1>2. wire[cur] \in Seq(Frame) /\ log \in Seq(Frame)
    BY <1>1 DEF TypeOK
  <1>3. wire[cur] \o <<f>> \in Seq(Frame) /\ Append(log, f) \in Seq(Frame)
    BY <1>2, SeqTypes
  <1> QED
    BY <1>3 DEF Write, TypeOK

LEMMA FlushedType == TypeOK => Flushed \in Seq(Frame)
  BY FrameTypes DEF TypeOK, Flushed, DropNotice

LEMMA InitTyped == Init => TypeOK
  <1> SUFFICES ASSUME Init PROVE TypeOK
    OBVIOUS
  <1>1. /\ buffer \in Seq(Frame) /\ log \in Seq(Frame) /\ delivered \in Seq(Frame)
        /\ wire \in [Sock -> Seq(Frame)]
    BY DEF Init
  <1>2. retry \in BOOLEAN /\ secretValid \in BOOLEAN /\ mayThrow \in BOOLEAN
    BY DEF Init
  <1> QED
    BY <1>1, <1>2, ConstantsAssumption DEF Init, TypeOK, Live, Off

LEMMA TypeStep == TypeOK /\ [Next]_vars => TypeOK'
  <1> SUFFICES ASSUME TypeOK, [Next]_vars PROVE TypeOK'
    OBVIOUS
  <1> USE ConstantsAssumption, FrameTypes DEF TypeOK, Live, Off, Fired
  <1>1. CASE StartBridge
    BY <1>1 DEF StartBridge, Construct, clientVars, timerVars, queueVars, netVars, envVars
  <1>2. CASE Send
    <2>1. /\ sent + 1 \in 0 .. MaxEvents
          /\ Event(sent + 1) \in Frame
      BY <1>2 DEF Send
    <2>2. wire' \in [Sock -> Seq(Frame)] /\ log' \in Seq(Frame)
      <3>1. CASE IsOpen
        BY <1>2, <2>1, <3>1, WriteTyped DEF Send
      <3>2. CASE ~IsOpen
        BY <1>2, <3>2 DEF Send
      <3> QED
        BY <3>1, <3>2
    <2>3. buffer' \in Seq(Frame) /\ dropped' \in Nat
      <3>1. buffer # <<>> => Tail(buffer) \in Seq(Frame)
        BY SeqTypes
      <3>2. Len(buffer) >= BufferLimit => buffer # <<>>
        BY EmptySeq
      <3>3. /\ Append(buffer, Event(sent + 1)) \in Seq(Frame)
            /\ buffer # <<>> => Append(Tail(buffer), Event(sent + 1)) \in Seq(Frame)
        BY <2>1, <3>1, SeqTypes
      <3>4. CASE IsOpen
        BY <1>2, <3>4 DEF Send
      <3>5. CASE ~IsOpen
        <4>1. Enqueue(Event(sent + 1))
          BY <1>2, <3>5 DEF Send
        <4>2. buffer' \in Seq(Frame)
          BY <4>1, <3>2, <3>3 DEF Enqueue
        <4>3. dropped' \in Nat
          <5>1. dropped' \in {dropped, dropped + 1} /\ dropped \in Nat
            BY <4>1 DEF Enqueue
          <5> QED
            BY <5>1
        <4> QED
          BY <4>2, <4>3
      <3> QED
        BY <3>4, <3>5
    <2> QED
      BY <1>2, <2>1, <2>2, <2>3 DEF Send, clientVars, timerVars, envVars
  <1>3. CASE Disconnect
    BY <1>3 DEF Disconnect, StopHeartbeat, CloseCurrent, Closing, clientVars,
       timerVars, queueVars, netVars, envVars
  <1>4. CASE ReconnectFires
    <2>1. Doubled(delay) \in InitialDelay .. MaxDelay
      BY DEF Doubled
    <2> QED
      BY <1>4, <2>1 DEF ReconnectFires, Construct, clientVars, timerVars, queueVars,
         netVars, envVars
  <1>5. CASE Ping
    BY <1>5 DEF Ping, clientVars, timerVars, queueVars, netVars, envVars
  <1>6. CASE HeartbeatTimeout
    BY <1>6 DEF HeartbeatTimeout, CloseCurrent, Closing, clientVars, timerVars,
       queueVars, netVars, envVars
  <1>7. CASE Tick
    BY <1>7 DEF Tick, CountDown, clientVars, timerVars, queueVars, netVars, envVars
  <1>8. ASSUME NEW s \in Sock, OnOpen(s) PROVE TypeOK'
    BY <1>8, FlushedType DEF OnOpen, Greeting, clientVars, timerVars, queueVars,
       netVars, envVars
  <1>9. ASSUME NEW s \in Sock, OnConnectFailure(s) PROVE TypeOK'
    <2>1. delay \in 1 .. MaxDelay /\ delay' \in InitialDelay .. MaxDelay
      <3>1. Doubled(delay) \in InitialDelay .. MaxDelay
        BY DEF Doubled
      <3> QED
        BY <1>9, <3>1 DEF OnConnectFailure
    <2>2. reconnectIn' \in {Off} \cup 0 .. MaxDelay
      BY <1>9, <2>1 DEF OnConnectFailure, ScheduleReconnect
    <2> QED
      BY <1>9, <2>1, <2>2 DEF OnConnectFailure, StopHeartbeat, queueVars, netVars, envVars
  <1>10. ASSUME NEW s \in Sock, OnClose(s) PROVE TypeOK'
    BY <1>10 DEF OnClose, StopHeartbeat, ScheduleReconnect, clientVars, timerVars,
       queueVars, netVars, envVars
  <1>11. ASSUME NEW s \in Sock, OnPong(s) PROVE TypeOK'
    BY <1>11 DEF OnPong, clientVars, timerVars, queueVars, netVars, envVars
  <1>12. ASSUME NEW s \in Sock, HostReceive(s) PROVE TypeOK'
    <2>1. Head(wire[s]) \in Frame /\ Tail(wire[s]) \in Seq(Frame)
      <3>1. wire[s] \in Seq(Frame) /\ wire[s] # <<>>
        BY <1>12 DEF HostReceive
      <3> QED
        BY <3>1, SeqTypes
    <2>2. delivered' \in Seq(Frame)
      BY <1>12, <2>1, SeqTypes DEF HostReceive
    <2>3. wire' \in [Sock -> Seq(Frame)]
      <3>1. \E q \in Seq(Frame) : wire' = [wire EXCEPT ![s] = q]
        BY <1>12, <2>1, EmptySeq DEF HostReceive
      <3> QED
        BY <3>1
    <2> QED
      BY <1>12, <2>2, <2>3 DEF HostReceive, clientVars, timerVars, queueVars, envVars
  <1>13. ASSUME NEW s \in Sock, HostLoses(s) PROVE TypeOK'
    BY <1>13 DEF HostLoses, clientVars, timerVars, queueVars, netVars, envVars
  <1>14. ASSUME NEW s \in Sock, PeerVanishes(s) PROVE TypeOK'
    BY <1>14 DEF PeerVanishes, clientVars, timerVars, queueVars, netVars, envVars
  <1>15. CASE UNCHANGED vars
    BY <1>15 DEF vars, clientVars, timerVars, queueVars, netVars, envVars
  <1> QED
    BY <1>1, <1>2, <1>3, <1>4, <1>5, <1>6, <1>7, <1>8, <1>9, <1>10, <1>11, <1>12,
       <1>13, <1>14, <1>15 DEF Next, Timers

\* TypeOK is an invariant of every behaviour.
THEOREM TypeCorrect == Spec => []TypeOK
  BY InitTyped, TypeStep, PTL DEF Spec

-----------------------------------------------------------------------------
(* One connection, and its heartbeat.                                      *)

ConnectionInv ==
  /\ TypeOK
  /\ OneConnection
  /\ HeartbeatFollowsSocket
  /\ phase = "new" => reconnectIn = Off /\ \A s \in Sock : state[s] = "closed"
  /\ \A s \in Sock : state[s] \in {"connecting", "open"} => cur = s

LEMMA ConnectionStep == ConnectionInv /\ [Next]_vars => ConnectionInv'
  <1> SUFFICES ASSUME ConnectionInv, [Next]_vars PROVE ConnectionInv'
    OBVIOUS
  <1> DEFINE Rest == /\ OneConnection
                     /\ HeartbeatFollowsSocket
                     /\ phase = "new" => reconnectIn = Off /\ \A s \in Sock : state[s] = "closed"
                     /\ \A s \in Sock : state[s] \in {"connecting", "open"} => cur = s
  <1>A. /\ cur \in Sock \cup {None} /\ state \in [Sock -> Live \cup {"closed"}]
        /\ reconnectIn \in {Off} \cup 0 .. MaxDelay
        /\ pingIn \in {Off} \cup 0 .. HbInterval
        /\ timeoutIn \in {Off, Fired} \cup 0 .. HbTimeout
        /\ Rest
    BY DEF ConnectionInv, TypeOK
  <1>B. TypeOK'
    BY TypeStep DEF ConnectionInv
  <1> SUFFICES Rest'
    BY <1>B DEF ConnectionInv
  <1> USE ConstantsAssumption
      DEF OneConnection, HeartbeatFollowsSocket, IsOpen, Live, Off, Fired
  <1>1. CASE StartBridge
    BY <1>1, <1>A DEF StartBridge, Construct, clientVars, timerVars, queueVars, netVars, envVars
  <1>2. CASE Send
    BY <1>2, <1>A DEF Send, IsOpen, Enqueue, Write, clientVars, timerVars, queueVars,
       netVars, envVars
  <1>3. CASE Disconnect
    BY <1>3, <1>A DEF Disconnect, StopHeartbeat, CloseCurrent, Closing, clientVars,
       timerVars, queueVars, netVars, envVars
  <1>4. CASE ReconnectFires
    BY <1>4, <1>A DEF ReconnectFires, Construct, Doubled, clientVars, timerVars, queueVars,
       netVars, envVars
  <1>5. CASE Ping
    BY <1>5, <1>A DEF Ping, clientVars, timerVars, queueVars, netVars, envVars
  <1>6. CASE HeartbeatTimeout
    BY <1>6, <1>A DEF HeartbeatTimeout, CloseCurrent, Closing, clientVars, timerVars,
       queueVars, netVars, envVars
  <1>7. CASE Tick
    BY <1>7, <1>A DEF Tick, CountDown, clientVars, timerVars, queueVars, netVars, envVars
  <1>8. ASSUME NEW s \in Sock, OnOpen(s) PROVE Rest'
    BY <1>8, <1>A DEF OnOpen, Flushed, DropNotice, Greeting, clientVars, timerVars, queueVars,
       netVars, envVars
  <1>9. ASSUME NEW s \in Sock, OnConnectFailure(s) PROVE Rest'
    BY <1>9, <1>A DEF OnConnectFailure, StopHeartbeat, ScheduleReconnect, Doubled,
       clientVars, timerVars, queueVars, netVars, envVars
  <1>10. ASSUME NEW s \in Sock, OnClose(s) PROVE Rest'
    BY <1>10, <1>A DEF OnClose, StopHeartbeat, ScheduleReconnect, clientVars, timerVars,
       queueVars, netVars, envVars
  <1>11. ASSUME NEW s \in Sock, OnPong(s) PROVE Rest'
    BY <1>11, <1>A DEF OnPong, clientVars, timerVars, queueVars, netVars, envVars
  <1>12. ASSUME NEW s \in Sock, HostReceive(s) PROVE Rest'
    BY <1>12, <1>A DEF HostReceive, clientVars, timerVars, queueVars, netVars, envVars
  <1>13. ASSUME NEW s \in Sock, HostLoses(s) PROVE Rest'
    BY <1>13, <1>A DEF HostLoses, clientVars, timerVars, queueVars, netVars, envVars
  <1>14. ASSUME NEW s \in Sock, PeerVanishes(s) PROVE Rest'
    BY <1>14, <1>A DEF PeerVanishes, clientVars, timerVars, queueVars, netVars, envVars
  <1>15. CASE UNCHANGED vars
    BY <1>15, <1>A DEF vars, clientVars, timerVars, queueVars, netVars, envVars
  <1> QED
    BY <1>1, <1>2, <1>3, <1>4, <1>5, <1>6, <1>7, <1>8, <1>9, <1>10, <1>11, <1>12,
       <1>13, <1>14, <1>15 DEF Next, Timers

LEMMA ConnectionInit == Init => ConnectionInv
  BY InitTyped, ConstantsAssumption
     DEF Init, ConnectionInv, OneConnection, HeartbeatFollowsSocket, IsOpen, Live, Off

LEMMA ConnectionInvariant == Spec => []ConnectionInv
  BY ConnectionInit, ConnectionStep, PTL DEF Spec

\* There is never a second connection, nor a reconnect pending beside a connection.
THEOREM AtMostOneConnection == Spec => []OneConnection
  <1>1. ConnectionInv => OneConnection
    BY DEF ConnectionInv
  <1> QED
    BY <1>1, ConnectionInvariant, PTL

\* The heartbeat runs while the current socket is open, and only then.
THEOREM HeartbeatRunsWhileOpen == Spec => []HeartbeatFollowsSocket
  <1>1. ConnectionInv => HeartbeatFollowsSocket
    BY DEF ConnectionInv
  <1> QED
    BY <1>1, ConnectionInvariant, PTL

-----------------------------------------------------------------------------
(* The heartbeat timeout.                                                  *)

\* An armed timeout always has more time left than the interval that re-arms it.
TimeoutInv ==
  /\ ConnectionInv
  /\ timeoutIn # Fired
  /\ timeoutIn # Off => pingIn < timeoutIn

LEMMA TimeoutStep ==
  ASSUME HbInterval < HbTimeout, TimeoutInv, [Next]_vars
  PROVE  TimeoutInv'
  <1> DEFINE Ahead == timeoutIn # Fired /\ (timeoutIn # Off => pingIn < timeoutIn)
  <1> SUFFICES Ahead'
    BY ConnectionStep DEF TimeoutInv
  <1>1. /\ pingIn \in {Off} \cup 0 .. HbInterval
        /\ timeoutIn \in {Off, Fired} \cup 0 .. HbTimeout
        /\ pingIn = Off => timeoutIn = Off
        /\ HbInterval \in Nat \ {0} /\ HbTimeout \in Nat \ {0}
        /\ Ahead
    BY ConstantsAssumption DEF TimeoutInv, ConnectionInv, HeartbeatFollowsSocket,
       TypeOK
  <1> USE DEF Off, Fired
  <1>2. CASE UNCHANGED <<pingIn, timeoutIn>>
    BY <1>1, <1>2
  <1>3. CASE StopHeartbeat
    BY <1>1, <1>3 DEF StopHeartbeat
  <1>4. CASE Ping
    BY <1>1, <1>4 DEF Ping
  <1>5. CASE HeartbeatTimeout
    BY <1>1, <1>5 DEF HeartbeatTimeout
  <1>6. CASE Tick
    BY <1>1, <1>6 DEF Tick, CountDown
  <1>7. ASSUME NEW s \in Sock, OnOpen(s) PROVE Ahead'
    BY <1>1, <1>7 DEF OnOpen, Greeting
  <1>8. ASSUME NEW s \in Sock, OnPong(s) PROVE Ahead'
    BY <1>1, <1>8 DEF OnPong
  <1>9. CASE StartBridge \/ Send \/ ReconnectFires \/ UNCHANGED vars
    BY <1>2, <1>9 DEF StartBridge, Send, ReconnectFires, vars, timerVars
  <1>10. CASE Disconnect
    BY <1>3, <1>10 DEF Disconnect
  <1>11. ASSUME NEW s \in Sock, OnConnectFailure(s) \/ OnClose(s) PROVE Ahead'
    BY <1>3, <1>11 DEF OnConnectFailure, OnClose
  <1>12. ASSUME NEW s \in Sock, HostReceive(s) \/ HostLoses(s) \/ PeerVanishes(s)
         PROVE  Ahead'
    BY <1>2, <1>12 DEF HostReceive, HostLoses, PeerVanishes, timerVars
  <1> QED
    BY <1>4, <1>5, <1>6, <1>7, <1>8, <1>9, <1>10, <1>11, <1>12 DEF Next, Timers

\* With a timeout longer than the interval, the order every SDK requires, the
\* timeout never expires at all: each ping re-arms it, answered or not.
THEOREM TimeoutNeverExpires ==
  ASSUME HbInterval < HbTimeout
  PROVE  Spec => [](timeoutIn # 0)
  <1>1. Init => TimeoutInv
    BY ConnectionInit DEF Init, TimeoutInv, Off, Fired
  <1>2. TimeoutInv => timeoutIn # 0
    BY ConstantsAssumption
       DEF TimeoutInv, ConnectionInv, HeartbeatFollowsSocket, TypeOK, Off, Fired
  <1>3. TimeoutInv /\ [Next]_vars => TimeoutInv'
    BY TimeoutStep
  <1> QED
    BY <1>1, <1>2, <1>3, PTL DEF Spec

-----------------------------------------------------------------------------
(* The client implements EventStream.                                      *)

\* The buffer holds the last events sent, the dropped ones came before them, and
\* nothing is held back while the current socket is open.
QueueInv ==
  /\ ConnectionInv
  /\ Len(buffer) <= BufferLimit
  /\ \A i \in 1 .. Len(buffer) : buffer[i] = Event(sent - Len(buffer) + i)
  /\ dropped > 0 => Len(buffer) = BufferLimit
  /\ IsOpen => buffer = <<>> /\ dropped = 0

\* enqueue keeps the last events in order.
LEMMA EnqueueStep ==
  ASSUME QueueInv, Enqueue(Event(sent + 1)), sent' = sent + 1
  PROVE  /\ Len(buffer') <= BufferLimit
         /\ \A i \in 1 .. Len(buffer') : buffer'[i] = Event(sent' - Len(buffer') + i)
         /\ dropped' > 0 => Len(buffer') = BufferLimit
         /\ Len(buffer') + dropped' = Len(buffer) + dropped + 1
  <1> DEFINE ev == Event(sent + 1)
  <1>1. /\ buffer \in Seq(Frame) /\ dropped \in Nat /\ sent \in Nat
        /\ BufferLimit \in Nat \ {0} /\ ev \in Frame /\ Len(buffer) \in Nat
    BY ConstantsAssumption, FrameTypes, LenProperties DEF QueueInv, ConnectionInv,
       TypeOK
  <1>2. CASE Len(buffer) >= BufferLimit
    <2> DEFINE rest == Tail(buffer)
    <2>1. buffer # <<>> /\ Len(buffer) = BufferLimit
      BY <1>1, <1>2, EmptySeq DEF QueueInv
    <2>2. /\ rest \in Seq(Frame) /\ Len(rest) = Len(buffer) - 1
          /\ \A i \in 1 .. Len(rest) : rest[i] = buffer[i + 1]
      BY <1>1, <2>1, HeadTailProperties
    <2>3. buffer' = Append(rest, ev) /\ dropped' = dropped + 1
      BY <1>2 DEF Enqueue
    <2> HIDE DEF ev, rest
    <2>4. /\ Len(buffer') = Len(rest) + 1
          /\ \A i \in 1 .. Len(rest) : buffer'[i] = rest[i]
          /\ buffer'[Len(rest) + 1] = ev
      BY <1>1, <2>2, <2>3, AppendProperties
    <2>5. Len(buffer') = BufferLimit
      BY <1>1, <2>1, <2>2, <2>4
    <2>6. ASSUME NEW i \in 1 .. Len(buffer')
          PROVE  buffer'[i] = Event(sent' - Len(buffer') + i)
      <3>1. CASE i = BufferLimit
        <4>1. sent' - Len(buffer') + i = sent + 1
          BY <1>1, <2>5, <3>1
        <4>2. buffer'[i] = ev
          BY <1>1, <2>1, <2>2, <2>4, <3>1
        <4> QED
          BY <4>1, <4>2 DEF ev
      <3>2. CASE i # BufferLimit
        <4>1. i \in 1 .. Len(rest) /\ i + 1 \in 1 .. Len(buffer)
          BY <1>1, <2>1, <2>2, <2>5, <3>2
        <4>2. buffer'[i] = buffer[i + 1]
          BY <2>2, <2>4, <4>1
        <4>3. buffer[i + 1] = Event(sent - Len(buffer) + (i + 1))
          BY <4>1 DEF QueueInv
        <4>4. sent' - Len(buffer') + i = sent - Len(buffer) + (i + 1)
          BY <1>1, <2>1, <2>5
        <4> QED
          BY <4>2, <4>3, <4>4
      <3> QED
        BY <3>1, <3>2
    <2> QED
      BY <1>1, <2>1, <2>3, <2>5, <2>6
  <1>3. CASE ~(Len(buffer) >= BufferLimit)
    <2>1. dropped = 0 /\ dropped' = dropped /\ buffer' = Append(buffer, ev)
      BY <1>1, <1>3 DEF QueueInv, Enqueue
    <2> HIDE DEF ev
    <2>2. /\ Len(buffer') = Len(buffer) + 1
          /\ \A i \in 1 .. Len(buffer) : buffer'[i] = buffer[i]
          /\ buffer'[Len(buffer) + 1] = ev
      BY <1>1, <2>1, AppendProperties
    <2>3. ASSUME NEW i \in 1 .. Len(buffer')
          PROVE  buffer'[i] = Event(sent' - Len(buffer') + i)
      <3>1. CASE i = Len(buffer) + 1
        <4>1. sent' - Len(buffer') + i = sent + 1
          BY <1>1, <2>2, <3>1
        <4> QED
          BY <2>2, <3>1, <4>1 DEF ev
      <3>2. CASE i # Len(buffer) + 1
        <4>1. i \in 1 .. Len(buffer)
          BY <1>1, <2>2, <3>2
        <4>2. sent' - Len(buffer') + i = sent - Len(buffer) + i
          BY <1>1, <2>2
        <4> QED
          BY <2>2, <4>1, <4>2 DEF QueueInv
      <3> QED
        BY <3>1, <3>2
    <2> QED
      BY <1>1, <1>3, <2>1, <2>2, <2>3
  <1> QED
    BY <1>2, <1>3

\* What flushBuffer writes is what EventStream hands over to catch up.
LEMMA FlushIsCatchUp ==
  ASSUME QueueInv
  PROVE  Flushed = Stream!CatchUp
  <1>1. /\ buffer \in Seq(Frame) /\ dropped \in Nat /\ sent \in Nat
        /\ BufferLimit \in Nat \ {0} /\ Len(buffer) \in Nat
    BY ConstantsAssumption, LenProperties DEF QueueInv, ConnectionInv, TypeOK
  <1>2. buffer = Stream!Latest(Len(buffer))
    <2>1. DOMAIN buffer = 1 .. Len(buffer)
      BY <1>1, LenProperties
    <2>2. \A i \in 1 .. Len(buffer) : buffer[i] = Stream!Event(sent - Len(buffer) + i)
      BY DEF QueueInv, Event, Stream!Event
    <2>3. buffer = [i \in DOMAIN buffer |-> buffer[i]]
      BY <1>1, LenProperties
    <2> QED
      BY <2>1, <2>2, <2>3 DEF Stream!Latest
  <1>3. CASE dropped = 0
    <2>1. Flushed = buffer
      BY <1>1, <1>3, ConcatEmptySeq DEF Flushed, DropNotice
    <2>2. Len(buffer) + dropped <= BufferLimit /\ Len(buffer) + dropped = Len(buffer)
      BY <1>1, <1>3 DEF QueueInv
    <2> QED
      BY <1>2, <2>1, <2>2 DEF Stream!CatchUp
  <1>4. CASE dropped > 0
    <2>1. Notice(dropped) \in Frame
      BY <1>1, FrameTypes
    <2>2. Flushed = Append(buffer, Notice(dropped))
      BY <1>1, <1>4, <2>1, AppendIsConcat DEF Flushed, DropNotice
    <2>3. /\ Len(buffer) = BufferLimit
          /\ (Len(buffer) + dropped) - BufferLimit = dropped
      BY <1>1, <1>4 DEF QueueInv
    <2>. ~(Len(buffer) + dropped <= BufferLimit)
      BY <1>1, <1>4, <2>3
    <2>4. Stream!CatchUp
            = Append(Stream!Latest(BufferLimit),
                     Stream!Notice((Len(buffer) + dropped) - BufferLimit))
      BY DEF Stream!CatchUp
    <2>5. Stream!CatchUp = Append(Stream!Latest(Len(buffer)), Stream!Notice(dropped))
      BY <2>3, <2>4
    <2>6. Stream!Notice(dropped) = Notice(dropped)
      BY DEF Notice, Stream!Notice
    <2> QED
      BY <1>2, <2>2, <2>5, <2>6
  <1> QED
    BY <1>1, <1>3, <1>4

\* Every step keeps QueueInv, and is a step of EventStream or leaves it alone.
LEMMA QueueStep ==
  ASSUME QueueInv, [Next]_vars
  PROVE  QueueInv' /\ [Stream!Next]_(Stream!streamVars)
  <1> DEFINE Held == /\ Len(buffer) <= BufferLimit
                     /\ \A i \in 1 .. Len(buffer) :
                          buffer[i] = Event(sent - Len(buffer) + i)
                     /\ dropped > 0 => Len(buffer) = BufferLimit
             Empty == buffer = <<>> /\ dropped = 0
             Goal == QueueInv' /\ [Stream!Next]_(Stream!streamVars)
  <1>1. ConnectionInv /\ ConnectionInv' /\ Held /\ (IsOpen => Empty)
    BY ConnectionStep DEF QueueInv
  <1>2. ASSUME Held', IsOpen' => Empty' PROVE QueueInv'
    BY <1>1, <1>2 DEF QueueInv
  <1>3. ASSUME UNCHANGED queueVars, IsOpen' => IsOpen PROVE Goal
    <2>1. Held' /\ (Empty' <=> Empty)
      BY <1>1, <1>3 DEF queueVars
    <2>2. QueueInv'
      BY <1>1, <1>2, <1>3, <2>1
    <2>3. CASE IsOpen' = IsOpen
      BY <1>3, <2>2, <2>3 DEF queueVars, Stream!streamVars
    <2>4. CASE IsOpen /\ ~IsOpen'
      BY <1>3, <2>2, <2>4
         DEF queueVars, Stream!Next, Stream!GoOffline
    <2> QED
      BY <1>3, <2>3, <2>4 DEF IsOpen
  <1>4. CASE Send
    <2>1. UNCHANGED <<cur, state>> /\ sent' = sent + 1
      BY <1>4 DEF Send, clientVars
    <2>2. IsOpen' = IsOpen
      BY <2>1 DEF IsOpen
    <2>3. CASE IsOpen
      <3>1. /\ log' = Append(log, Event(sent + 1))
            /\ UNCHANGED <<buffer, dropped>>
            /\ Empty
        BY <1>1, <1>4, <2>3 DEF Send
      <3>2. Empty' /\ Held'
        BY <3>1, ConstantsAssumption
      <3>3. Stream!Accept
        BY <2>1, <2>2, <2>3, <3>1 DEF Stream!Accept, Event, Stream!Event
      <3> QED
        BY <1>2, <3>2, <3>3 DEF Stream!Next
    <2>4. CASE ~IsOpen
      <3>1. Enqueue(Event(sent + 1)) /\ log' = log
        BY <1>4, <2>4 DEF Send
      <3>2. Held' /\ Len(buffer') + dropped' = Len(buffer) + dropped + 1
        BY <2>1, <3>1, EnqueueStep
      <3>3. Stream!Accept
        BY <2>1, <2>2, <2>4, <3>1, <3>2 DEF Stream!Accept
      <3> QED
        BY <1>2, <2>2, <2>4, <3>2, <3>3 DEF Stream!Next
    <2> QED
      BY <2>3, <2>4
  <1>5. ASSUME NEW s \in Sock, OnOpen(s) PROVE Goal
    <2>1. /\ ~IsOpen
          /\ IsOpen'
          /\ Empty'
          /\ log' = log \o Flushed
          /\ sent' = sent
      BY <1>1, <1>5, ConstantsAssumption DEF OnOpen, IsOpen, ConnectionInv, TypeOK
    <2>2. Held'
      BY <2>1, ConstantsAssumption
    <2>3. Stream!GoOnline
      BY <2>1, FlushIsCatchUp DEF Stream!GoOnline
    <2> QED
      BY <1>2, <2>1, <2>2, <2>3 DEF Stream!Next
  <1>6. CASE StartBridge
    BY <1>1, <1>3, <1>6
       DEF StartBridge, Construct, queueVars, IsOpen, ConnectionInv, TypeOK
  <1>7. CASE ReconnectFires
    BY <1>1, <1>3, <1>7
       DEF ReconnectFires, Construct, IsOpen, ConnectionInv, OneConnection, TypeOK,
          Off
  <1>8. CASE Disconnect
    BY <1>3, <1>8 DEF Disconnect, IsOpen
  <1>9. CASE HeartbeatTimeout
    BY <1>1, <1>3, <1>9
       DEF HeartbeatTimeout, CloseCurrent, Closing, IsOpen, ConnectionInv, TypeOK
  <1>10. CASE Ping \/ Tick \/ UNCHANGED vars
    <2>1. UNCHANGED queueVars /\ UNCHANGED clientVars
      BY <1>10 DEF Ping, Tick, vars
    <2>2. IsOpen' = IsOpen
      BY <2>1 DEF clientVars, IsOpen
    <2> QED
      BY <1>3, <2>1, <2>2
  <1>11. ASSUME NEW s \in Sock, OnConnectFailure(s) \/ OnClose(s) PROVE Goal
    BY <1>1, <1>3, <1>11
       DEF OnConnectFailure, OnClose, IsOpen, ConnectionInv, TypeOK
  <1>12. ASSUME NEW s \in Sock,
                OnPong(s) \/ HostReceive(s) \/ HostLoses(s) \/ PeerVanishes(s)
         PROVE  Goal
    BY <1>3, <1>12
       DEF OnPong, HostReceive, HostLoses, PeerVanishes, clientVars, IsOpen
  <1> QED
    BY <1>4, <1>5, <1>6, <1>7, <1>8, <1>9, <1>10, <1>11, <1>12 DEF Next, Timers

\* Whatever connects, fails, closes or is dropped, and whenever events are sent, the
\* client hands over what EventStream promises: the last BufferLimit missed events in
\* order, and the number of the others.
THEOREM ImplementsEventStream == Spec => StreamSpec
  <1>1. Init => QueueInv /\ Stream!Init
    <2> SUFFICES ASSUME Init PROVE QueueInv /\ Stream!Init
      OBVIOUS
    <2>1. ConnectionInv
      BY ConnectionInit
    <2>2. ~IsOpen /\ Len(buffer) = 0 /\ dropped = 0
      BY EmptySeq DEF Init, IsOpen
    <2> QED
      BY <2>1, <2>2, ConstantsAssumption DEF Init, QueueInv, Stream!Init
  <1>2. QueueInv /\ [Next]_vars => QueueInv' /\ [Stream!Next]_(Stream!streamVars)
    BY QueueStep
  <1> QED
    BY <1>1, <1>2, PTL DEF Spec, StreamSpec, Stream!Spec

-----------------------------------------------------------------------------
(* What is on the wire.                                                    *)

\* Events that have left the client are not in the buffer any more: they are numbered up
\* to Handed, the buffered ones from there on.
Handed == sent - Len(buffer)

\* A socket the host has not accepted or has left carries nothing.
WireEmpty ==
  /\ \A s \in Sock : host[s] = "gone" => wire[s] = <<>>
  /\ \A s \in Sock : state[s] \in {"connecting", "aborting"} => host[s] = "gone"

\* Each event is on one wire and in one place of it, or delivered, or neither.
EventsOnce ==
  /\ \A s \in Sock : \A i \in 1 .. Len(wire[s]) :
       wire[s][i].kind = "event" => wire[s][i].n <= Handed
  /\ \A s, t \in Sock : \A i \in 1 .. Len(wire[s]), j \in 1 .. Len(wire[t]) :
       wire[s][i] = wire[t][j] /\ wire[s][i].kind = "event" => s = t /\ i = j
  /\ \A k \in 1 .. Len(delivered) : delivered[k].kind = "event" /\ delivered[k].n <= Handed
  /\ \A s \in Sock : \A i \in 1 .. Len(wire[s]), k \in 1 .. Len(delivered) :
       delivered[k] # wire[s][i]

WireInv == QueueInv /\ WireEmpty /\ AuthFirst /\ EventsOnce /\ DeliveredOnce

\* Frames that may be written: their events are all new, each occurs once, and they are
\* numbered up to m.
Fresh(frames, m) ==
  /\ frames \in Seq(Frame)
  /\ \A i \in 1 .. Len(frames) :
       frames[i].kind = "event" =>
         /\ Handed < frames[i].n /\ frames[i].n <= m
         /\ \A j \in 1 .. Len(frames) : frames[j] = frames[i] => i = j

\* Every buffered event is numbered beyond Handed.
LEMMA HandedBound ==
  ASSUME QueueInv
  PROVE  /\ sent \in Nat /\ Len(buffer) \in Nat /\ buffer \in Seq(Frame)
         /\ Handed \in Int /\ Handed <= sent
  BY ConstantsAssumption, LenProperties DEF QueueInv, ConnectionInv, TypeOK, Handed

\* Handed never decreases.
LEMMA HandedGrows ==
  ASSUME QueueInv, [Next]_vars
  PROVE  Handed' \in Int /\ Handed <= Handed'
  <1>0. QueueInv'
    BY QueueStep
  <1>1. /\ sent \in Nat /\ sent' \in Nat /\ Len(buffer) \in Nat /\ Len(buffer') \in Nat
        /\ Handed' \in Int
    <2>1. TypeOK /\ TypeOK'
      BY <1>0 DEF QueueInv, ConnectionInv
    <2>2. sent \in Nat /\ sent' \in Nat
      BY <2>1, ConstantsAssumption DEF TypeOK
    <2>3. buffer \in Seq(Frame) /\ buffer' \in Seq(Frame)
      BY <2>1 DEF TypeOK
    <2>4. Len(buffer) \in Nat /\ Len(buffer') \in Nat
      BY <2>3, LenProperties
    <2> QED
      BY <2>2, <2>4 DEF Handed
  <1>2. CASE UNCHANGED <<sent, buffer>>
    BY <1>1, <1>2 DEF Handed
  <1>3. ASSUME NEW s \in Sock, OnOpen(s) PROVE Handed <= Handed'
    <2>1. Len(buffer') = 0 /\ sent' = sent
      BY <1>3, EmptySeq DEF OnOpen
    <2> QED
      BY <1>1, <2>1 DEF Handed
  <1>4. CASE Send
    <2>1. CASE IsOpen
      BY <1>1, <1>4, <2>1 DEF Send, Handed
    <2>2. CASE ~IsOpen
      <3>1. sent' = sent + 1 /\ Enqueue(Event(sent + 1))
        BY <1>4, <2>2 DEF Send
      <3>2. Len(buffer') <= Len(buffer) + 1
        <4>1. CASE Len(buffer) >= BufferLimit
          BY <1>0, <1>1, <4>1, ConstantsAssumption DEF QueueInv
        <4>2. CASE ~(Len(buffer) >= BufferLimit)
          <5>1. buffer \in Seq(Frame) /\ Event(sent + 1) \in Frame
            BY <1>1, FrameTypes DEF QueueInv, ConnectionInv, TypeOK
          <5> QED
            BY <3>1, <4>2, <5>1, AppendProperties DEF Enqueue
        <4> QED
          BY <4>1, <4>2
      <3> QED
        BY <1>1, <3>1, <3>2 DEF Handed
    <2> QED
      BY <2>1, <2>2
  <1> QED
    BY <1>1, <1>2, <1>3, <1>4
       DEF Next, Timers, StartBridge, Disconnect, ReconnectFires, Ping, HeartbeatTimeout, Tick,
           OnConnectFailure, OnClose, OnPong, HostReceive, HostLoses, PeerVanishes, vars, queueVars

\* A step that writes fresh frames on one socket keeps every event in one place.
LEMMA WriteFresh ==
  ASSUME WireInv, NEW s \in Sock, NEW frames, Fresh(frames, Handed'),
         Handed' \in Int, Handed <= Handed', delivered' = delivered,
         wire' = [wire EXCEPT ![s] = @ \o frames]
  PROVE  EventsOnce'
  <1> DEFINE old == wire[s]
  <1>1. /\ old \in Seq(Frame) /\ frames \in Seq(Frame)
        /\ \A t \in Sock \ {s} : wire'[t] = wire[t]
        /\ wire'[s] = old \o frames
    BY DEF WireInv, QueueInv, ConnectionInv, TypeOK, Fresh
  <1>2. /\ Len(old) \in Nat /\ Len(frames) \in Nat
        /\ Len(wire'[s]) = Len(old) + Len(frames)
        /\ \A i \in 1 .. Len(wire'[s]) :
             wire'[s][i] = IF i <= Len(old) THEN old[i] ELSE frames[i - Len(old)]
    <2>1. old \in Seq(Frame) /\ frames \in Seq(Frame) /\ wire'[s] = old \o frames
      BY <1>1
    <2>2. Len(old) \in Nat /\ Len(frames) \in Nat
      BY <2>1, LenProperties
    <2> HIDE DEF old
    <2>3. /\ Len(old \o frames) = Len(old) + Len(frames)
          /\ \A i \in 1 .. Len(old) + Len(frames) :
               (old \o frames)[i] = IF i <= Len(old) THEN old[i] ELSE frames[i - Len(old)]
      BY <2>1, ConcatProperties
    <2> QED
      BY <2>1, <2>2, <2>3
  <1>3. /\ \A t \in Sock : \A i \in 1 .. Len(wire[t]) : wire[t][i] \in Frame
        /\ \A i \in 1 .. Len(frames) : frames[i] \in Frame
        /\ \A k \in 1 .. Len(delivered) : delivered[k] \in Frame
    BY <1>1, ElementOfSeq DEF WireInv, QueueInv, ConnectionInv, TypeOK
  <1>4. Handed \in Int
    BY HandedBound DEF WireInv
  \* A place on a wire is old, or holds one of the new frames.
  <1>5. \A t \in Sock : \A i \in 1 .. Len(wire'[t]) :
          \/ i \in 1 .. Len(wire[t]) /\ wire'[t][i] = wire[t][i]
          \/ /\ t = s /\ i - Len(old) \in 1 .. Len(frames)
             /\ wire'[t][i] = frames[i - Len(old)]
    BY <1>1, <1>2
  \* Events that had left the client are numbered up to Handed, new ones beyond.
  <1> DEFINE Past(f) == f.kind = "event" => f.n \in Nat /\ f.n <= Handed
             New(f)  == f.kind = "event" => f.n \in Nat /\ Handed < f.n /\ f.n <= Handed'
  <1>6. /\ \A t \in Sock : \A i \in 1 .. Len(wire[t]) : Past(wire[t][i])
        /\ \A i \in 1 .. Len(frames) : New(frames[i])
        /\ \A k \in 1 .. Len(delivered) : Past(delivered[k]) /\ delivered[k].kind = "event"
    BY <1>3 DEF WireInv, EventsOnce, Fresh, Frame
  <1>7. \A f : Past(f) /\ New(f) => f.kind # "event"
    BY <1>4
  <1>8. \A f : (Past(f) \/ New(f)) /\ f.kind = "event" => f.n <= Handed'
    BY <1>4
  <1>9. /\ \A t, u \in Sock : \A i \in 1 .. Len(wire[t]), j \in 1 .. Len(wire[u]) :
             wire[t][i] = wire[u][j] /\ wire[t][i].kind = "event" => t = u /\ i = j
        /\ \A t \in Sock : \A i \in 1 .. Len(wire[t]), k \in 1 .. Len(delivered) :
             delivered[k] # wire[t][i]
        /\ \A i, j \in 1 .. Len(frames) :
             frames[i] = frames[j] /\ frames[i].kind = "event" => i = j
    BY DEF WireInv, EventsOnce, Fresh
  <1> HIDE DEF old, Past, New
  <1>10. \A t \in Sock : \A i \in 1 .. Len(wire'[t]) :
           Past(wire'[t][i]) \/ New(wire'[t][i])
    BY <1>5, <1>6, Zenon
  <1>11. \A t \in Sock : \A i \in 1 .. Len(wire'[t]) :
           wire'[t][i].kind = "event" => wire'[t][i].n <= Handed'
    BY <1>8, <1>10, Zenon
  <1>12. \A t, u \in Sock : \A i \in 1 .. Len(wire'[t]), j \in 1 .. Len(wire'[u]) :
           wire'[t][i] = wire'[u][j] /\ wire'[t][i].kind = "event" => t = u /\ i = j
    <2> TAKE t, u \in Sock
    <2> TAKE i \in 1 .. Len(wire'[t]), j \in 1 .. Len(wire'[u])
    <2> HAVE wire'[t][i] = wire'[u][j] /\ wire'[t][i].kind = "event"
    <2>1. CASE /\ i \in 1 .. Len(wire[t]) /\ wire'[t][i] = wire[t][i]
               /\ j \in 1 .. Len(wire[u]) /\ wire'[u][j] = wire[u][j]
      BY <1>9, <2>1
    <2>2. CASE /\ t = s /\ i - Len(old) \in 1 .. Len(frames) /\ wire'[t][i] = frames[i - Len(old)]
               /\ u = s /\ j - Len(old) \in 1 .. Len(frames) /\ wire'[u][j] = frames[j - Len(old)]
      <3>1. i - Len(old) = j - Len(old)
        BY <1>9, <2>2, Zenon
      <3> QED
        BY <1>2, <2>2, <3>1
    <2>3. CASE /\ i \in 1 .. Len(wire[t]) /\ wire'[t][i] = wire[t][i]
               /\ j - Len(old) \in 1 .. Len(frames) /\ wire'[u][j] = frames[j - Len(old)]
      <3>1. Past(wire'[t][i]) /\ New(wire'[u][j])
        BY <1>6, <2>3, Zenon
      <3> QED
        BY <1>7, <3>1, Zenon
    <2>4. CASE /\ i - Len(old) \in 1 .. Len(frames) /\ wire'[t][i] = frames[i - Len(old)]
               /\ j \in 1 .. Len(wire[u]) /\ wire'[u][j] = wire[u][j]
      <3>1. New(wire'[t][i]) /\ Past(wire'[u][j])
        BY <1>6, <2>4, Zenon
      <3> QED
        BY <1>7, <3>1, Zenon
    <2> QED
      BY <1>5, <2>1, <2>2, <2>3, <2>4, Zenon
  <1>13. ASSUME NEW t \in Sock, NEW i \in 1 .. Len(wire'[t]), NEW k \in 1 .. Len(delivered),
                delivered[k] = wire'[t][i]
         PROVE  FALSE
    <2>1. CASE i \in 1 .. Len(wire[t]) /\ wire'[t][i] = wire[t][i]
      BY <1>9, <1>13, <2>1
    <2>2. CASE i - Len(old) \in 1 .. Len(frames) /\ wire'[t][i] = frames[i - Len(old)]
      <3>1. Past(wire'[t][i]) /\ New(wire'[t][i]) /\ wire'[t][i].kind = "event"
        BY <1>6, <1>13, <2>2, Zenon
      <3> QED
        BY <1>7, <3>1, Zenon
    <2> QED
      BY <1>5, <2>1, <2>2, Zenon
  <1>14. \A k \in 1 .. Len(delivered) : delivered[k].kind = "event" /\ delivered[k].n <= Handed'
    BY <1>6, <1>8, Zenon
  <1> QED
    <2>2. \A t \in Sock : \A i \in 1 .. Len(wire'[t]), k \in 1 .. Len(delivered) :
            delivered[k] # wire'[t][i]
      BY <1>13
    <2>3. /\ \A k \in 1 .. Len(delivered') :
               delivered'[k].kind = "event" /\ delivered'[k].n <= Handed'
          /\ \A t \in Sock : \A i \in 1 .. Len(wire'[t]), k \in 1 .. Len(delivered') :
               delivered'[k] # wire'[t][i]
      BY <1>14, <2>2
    <2> QED
      BY <1>11, <1>12, <2>3, Zenon DEF EventsOnce

\* What flushBuffer writes is fresh: the buffered events are numbered one by one.
LEMMA FlushedFresh ==
  ASSUME QueueInv
  PROVE  Fresh(Greeting \o Flushed, sent)
  <1> DEFINE notice == IF dropped > 0 THEN <<Notice(dropped)>> ELSE <<>>
             frames == Greeting \o Flushed
  <1>1. /\ buffer \in Seq(Frame) /\ dropped \in Nat /\ sent \in Nat /\ Len(buffer) \in Nat
        /\ notice \in Seq(Frame) /\ Greeting \in Seq(Frame) /\ Flushed \in Seq(Frame)
    BY ConstantsAssumption, FrameTypes, LenProperties, FlushedType
       DEF QueueInv, ConnectionInv, TypeOK, Greeting
  <1>2. /\ Len(Flushed) = Len(buffer) + Len(notice)
        /\ \A i \in 1 .. Len(Flushed) :
             Flushed[i] = IF i <= Len(buffer) THEN buffer[i] ELSE notice[i - Len(buffer)]
    BY <1>1, ConcatProperties DEF Flushed, DropNotice
  <1>3. \A i \in 1 .. Len(notice) : notice[i].kind = "notice"
    BY <1>1 DEF Notice
  <1>4. /\ Len(Greeting) = 2 /\ Greeting[1] = Auth /\ Greeting[2] = Hello
        /\ Len(notice) \in Nat
    BY <1>1, LenProperties DEF Greeting
  <1> HIDE DEF notice
  <1>5. /\ frames \in Seq(Frame) /\ Len(frames) = 2 + Len(Flushed)
        /\ \A i \in 1 .. Len(frames) :
             frames[i] = IF i <= 2 THEN Greeting[i] ELSE Flushed[i - 2]
    <2>1. /\ frames \in Seq(Frame) /\ Len(frames) = Len(Greeting) + Len(Flushed)
          /\ \A i \in 1 .. Len(Greeting) + Len(Flushed) :
               frames[i] = IF i <= Len(Greeting) THEN Greeting[i] ELSE Flushed[i - Len(Greeting)]
      BY <1>1, ConcatProperties
    <2> QED
      BY <1>4, <2>1
  \* Only the buffered frames are events.
  <1>6. ASSUME NEW i \in 1 .. Len(frames), frames[i].kind = "event"
        PROVE  /\ i - 2 \in 1 .. Len(buffer)
               /\ frames[i] = Event(Handed + (i - 2))
    <2>1. ~(i <= 2)
      <3> SUFFICES ASSUME i = 1 \/ i = 2 PROVE FALSE
        BY <1>1
      <3> QED
        BY <1>4, <1>5, <1>6 DEF Auth, Hello
    <2>2. i - 2 \in 1 .. Len(Flushed) /\ frames[i] = Flushed[i - 2]
      BY <1>1, <1>2, <1>4, <1>5, <2>1
    <2>3. i - 2 <= Len(buffer)
      <3> SUFFICES ASSUME ~(i - 2 <= Len(buffer)) PROVE FALSE
        OBVIOUS
      <3>1. /\ i - 2 - Len(buffer) \in 1 .. Len(notice)
            /\ frames[i] = notice[i - 2 - Len(buffer)]
        BY <1>1, <1>2, <1>4, <2>2
      <3> QED
        BY <1>3, <1>6, <3>1
    <2>4. i - 2 \in 1 .. Len(buffer) /\ frames[i] = buffer[i - 2]
      <3>1. i - 2 \in 1 .. Len(buffer)
        BY <1>1, <2>2, <2>3
      <3> QED
        BY <1>2, <2>2, <2>3, <3>1
    <2> QED
      BY <2>4 DEF QueueInv, Handed
  <1> HIDE DEF frames
  <1>7. ASSUME NEW i \in 1 .. Len(frames), frames[i].kind = "event"
        PROVE  /\ Handed < frames[i].n /\ frames[i].n <= sent
               /\ \A j \in 1 .. Len(frames) : frames[j] = frames[i] => i = j
    <2>1. i - 2 \in 1 .. Len(buffer) /\ frames[i] = Event(Handed + (i - 2))
      BY <1>6, <1>7
    <2>2. frames[i].n = Handed + (i - 2)
      BY <2>1 DEF Event
    <2>3. Handed < frames[i].n /\ frames[i].n <= sent
      <3>1. Handed \in Int /\ sent = Handed + Len(buffer)
        BY <1>1 DEF Handed
      <3>2. /\ Handed < Handed + (i - 2)
            /\ Handed + (i - 2) <= Handed + Len(buffer)
        BY <1>1, <2>1, <3>1
      <3> QED
        BY <2>2, <3>1, <3>2
    <2>4. ASSUME NEW j \in 1 .. Len(frames), frames[j] = frames[i] PROVE i = j
      <3>0. frames[j].kind = "event"
        BY <1>7, <2>4
      <3>1. frames[j] = Event(Handed + (j - 2))
        BY <1>6, <3>0
      <3>2. frames[j].n = Handed + (j - 2)
        BY <3>1 DEF Event
      <3> QED
        BY <1>1, <2>2, <2>4, <3>2 DEF Handed
    <2> QED
      BY <2>3, <2>4
  <1> QED
    BY <1>5, <1>7 DEF Fresh, frames

\* A step that only takes frames off the wires keeps every event in one place.
LEMMA WireShrinks ==
  ASSUME WireInv, Handed' \in Int, Handed <= Handed', delivered' = delivered,
         \A t \in Sock : wire'[t] = wire[t] \/ wire'[t] = <<>>
  PROVE  EventsOnce'
  <1>1. \A t \in Sock : \A i \in 1 .. Len(wire'[t]) :
          i \in 1 .. Len(wire[t]) /\ wire'[t][i] = wire[t][i]
    BY EmptySeq
  <1>2. /\ \A t \in Sock : \A i \in 1 .. Len(wire[t]) : wire[t][i] \in Frame
        /\ \A k \in 1 .. Len(delivered) : delivered[k] \in Frame
    BY ElementOfSeq DEF WireInv, QueueInv, ConnectionInv, TypeOK
  <1>3. Handed \in Int
    BY HandedBound DEF WireInv
  <1>4. \A t \in Sock : \A i \in 1 .. Len(wire'[t]) :
          wire'[t][i].kind = "event" => wire'[t][i].n <= Handed'
    <2>1. \A t \in Sock : \A i \in 1 .. Len(wire[t]) :
            wire[t][i].kind = "event" => wire[t][i].n \in Nat /\ wire[t][i].n <= Handed
      BY <1>2 DEF WireInv, EventsOnce, Frame
    <2>2. \A n \in Nat : n <= Handed => n <= Handed'
      BY <1>3
    <2> QED
      BY <1>1, <2>1, <2>2, Zenon
  <1>5. \A k \in 1 .. Len(delivered) : delivered[k].kind = "event" /\ delivered[k].n <= Handed'
    BY <1>2, <1>3 DEF WireInv, EventsOnce, Frame
  <1>6. \A t, u \in Sock : \A i \in 1 .. Len(wire'[t]), j \in 1 .. Len(wire'[u]) :
          wire'[t][i] = wire'[u][j] /\ wire'[t][i].kind = "event" => t = u /\ i = j
    BY <1>1 DEF WireInv, EventsOnce
  <1>7. \A t \in Sock : \A i \in 1 .. Len(wire'[t]), k \in 1 .. Len(delivered) :
          delivered[k] # wire'[t][i]
    BY <1>1 DEF WireInv, EventsOnce
  <1> QED
    BY <1>4, <1>5, <1>6, <1>7 DEF EventsOnce

\* Steps that leave wires and host alone, and open no socket.
LEMMA WireQuiet ==
  ASSUME WireInv, [Next]_vars, UNCHANGED <<wire, host, delivered>>,
         \A s \in Sock : state'[s] \in {"connecting", "aborting"} =>
                           state[s] \in {"connecting", "aborting"} \/ host[s] = "gone"
  PROVE  WireInv'
  <1>1. QueueInv' /\ Handed' \in Int /\ Handed <= Handed'
    BY QueueStep, HandedGrows DEF WireInv
  <1>2. EventsOnce'
    BY <1>1, WireShrinks
  <1>3. WireEmpty' /\ AuthFirst' /\ DeliveredOnce'
    BY DEF WireInv, WireEmpty, AuthFirst, DeliveredOnce
  <1> QED
    BY <1>1, <1>2, <1>3 DEF WireInv

LEMMA WireOnOpen ==
  ASSUME WireInv, [Next]_vars, NEW s \in Sock, OnOpen(s)
  PROVE  WireInv'
  <1> DEFINE frames == Greeting \o Flushed
  <1>1. QueueInv /\ QueueInv' /\ Handed' \in Int /\ Handed <= Handed'
    BY QueueStep, HandedGrows DEF WireInv
  <1>2. TypeOK /\ wire[s] = <<>> /\ host[s] = "gone"
    BY DEF WireInv, WireEmpty, QueueInv, ConnectionInv, OnOpen
  <1>3. Flushed \in Seq(Frame) /\ Greeting \in Seq(Frame) /\ frames \in Seq(Frame)
    BY <1>2, FlushedType, FrameTypes, ConcatProperties DEF Greeting
  <1>4. wire' = [wire EXCEPT ![s] = @ \o frames]
    <2>1. (wire[s] \o Greeting) \o Flushed = wire[s] \o frames
      BY <1>2, <1>3, ConcatAssociative, EmptySeq
    <2> QED
      BY <2>1 DEF OnOpen
  <1>5. EventsOnce'
    <2>1. Handed' = sent
      BY HandedBound, <1>1, EmptySeq DEF OnOpen, Handed
    <2>2. delivered' = delivered
      BY DEF OnOpen
    <2> HIDE DEF frames
    <2>3. Fresh(frames, Handed')
      BY <1>1, <2>1, FlushedFresh DEF frames
    <2> QED
      BY <1>1, <1>4, <2>2, <2>3, WriteFresh
  <1>6. /\ wire'[s] = frames /\ \A t \in Sock \ {s} : wire'[t] = wire[t]
        /\ host'[s] = "unauthenticated" /\ \A t \in Sock \ {s} : host'[t] = host[t]
        /\ state'[s] = "open" /\ \A t \in Sock \ {s} : state'[t] = state[t]
    <2>1. <<>> \o frames = frames
      BY <1>3, ConcatEmptySeq
    <2> QED
      BY <1>2, <1>4, <2>1 DEF TypeOK, OnOpen
  \* Only the first frame is auth: the buffer holds events.
  <1>7. frames # <<>> /\ frames[1] = Auth /\ \A i \in 1 .. Len(frames) : frames[i] = Auth => i = 1
    <2>1. /\ Len(Greeting) = 2 /\ Greeting[1] = Auth /\ Greeting[2] = Hello
          /\ Len(Flushed) \in Nat
      BY <1>3, LenProperties DEF Greeting
    <2>2. /\ Len(frames) = Len(Greeting) + Len(Flushed)
          /\ \A i \in 1 .. Len(Greeting) + Len(Flushed) :
               frames[i] = IF i <= Len(Greeting) THEN Greeting[i] ELSE Flushed[i - Len(Greeting)]
      BY <1>3, ConcatProperties
    <2>3. \A i \in 1 .. Len(Flushed) : Flushed[i] # Auth
      <3> DEFINE notice == IF dropped > 0 THEN <<Notice(dropped)>> ELSE <<>>
      <3>1. buffer \in Seq(Frame) /\ notice \in Seq(Frame) /\ Len(buffer) \in Nat
        BY <1>2, FrameTypes, LenProperties DEF TypeOK
      <3>2. /\ Len(Flushed) = Len(buffer) + Len(notice)
            /\ \A i \in 1 .. Len(buffer) + Len(notice) :
                 Flushed[i] = IF i <= Len(buffer) THEN buffer[i] ELSE notice[i - Len(buffer)]
        BY <3>1, ConcatProperties DEF Flushed, DropNotice
      <3>3. \A i \in 1 .. Len(notice) : notice[i] # Auth
        BY <3>1 DEF Notice, Auth
      <3>4. \A i \in 1 .. Len(buffer) : buffer[i] # Auth
        <4>1. \A n : Event(n) # Auth
          BY DEF Event, Auth
        <4> QED
          BY <1>1, <4>1 DEF QueueInv
      <3>5. Len(notice) \in Nat
        BY <3>1, LenProperties
      <3> HIDE DEF notice
      <3> QED
        BY <3>1, <3>2, <3>3, <3>4, <3>5
    <2> HIDE DEF frames
    <2>4. Auth # Hello
      BY DEF Auth, Hello
    <2>5. ASSUME NEW i \in 1 .. Len(frames), frames[i] = Auth PROVE i = 1
      <3>1. CASE i = 1 \/ i = 2
        BY <2>1, <2>2, <2>4, <2>5, <3>1
      <3>2. CASE ~(i = 1 \/ i = 2)
        BY <2>1, <2>2, <2>3, <2>5, <3>2
      <3> QED
        BY <3>1, <3>2
    <2>6. Len(frames) > 0 /\ frames[1] = Auth
      BY <2>1, <2>2
    <2> QED
      BY <2>5, <2>6, EmptySeq
  <1> HIDE DEF frames
  <1>8. AuthFirst'
    <2> SUFFICES ASSUME NEW t \in Sock
                 PROVE  /\ host'[t] = "unauthenticated" => wire'[t] # <<>> /\ wire'[t][1] = Auth
                        /\ \A i \in 1 .. Len(wire'[t]) :
                             wire'[t][i] = Auth => i = 1 /\ host'[t] = "unauthenticated"
      BY DEF AuthFirst
    <2>1. CASE t = s
      BY <1>6, <1>7, <2>1
    <2>2. CASE t # s
      BY <1>6, <2>2 DEF WireInv, AuthFirst
    <2> QED
      BY <2>1, <2>2
  <1>9. WireEmpty'
    BY <1>6 DEF WireInv, WireEmpty
  <1> QED
    BY <1>1, <1>5, <1>8, <1>9 DEF WireInv, DeliveredOnce, OnOpen

LEMMA WireSend ==
  ASSUME WireInv, [Next]_vars, Send
  PROVE  WireInv'
  <1>0. QueueInv /\ QueueInv' /\ Handed' \in Int /\ Handed <= Handed' /\ TypeOK
    BY QueueStep, HandedGrows DEF WireInv, QueueInv, ConnectionInv
  <1>1. CASE wire' = wire
    BY <1>1, WireQuiet DEF Send, clientVars
  <1>2. CASE wire' # wire
    <2> DEFINE ev == Event(sent + 1)
    <2>1. /\ IsOpen /\ host[cur] # "gone" /\ sent' = sent + 1
          /\ wire' = [wire EXCEPT ![cur] = @ \o <<ev>>]
          /\ UNCHANGED <<cur, state, buffer, host, delivered>>
      BY <1>2 DEF Send, Write, clientVars
    <2>2. cur \in Sock /\ wire[cur] \in Seq(Frame) /\ Len(wire[cur]) \in Nat
      BY <1>0, <2>1, LenProperties DEF IsOpen, TypeOK
    <2>3. Handed = sent /\ Handed' = sent + 1 /\ sent \in Nat
      BY <1>0, <2>1, EmptySeq DEF QueueInv, Handed, HandedBound, TypeOK
    <2>4. ev \in Frame /\ ev.n = sent + 1 /\ ev.kind = "event" /\ ev # Auth
      BY <2>3, FrameTypes DEF Event, Auth
    <2> HIDE DEF ev
    <2>5. <<ev>> \in Seq(Frame) /\ Len(<<ev>>) = 1 /\ <<ev>>[1] = ev
      BY <2>4
    <2>6. Fresh(<<ev>>, Handed')
      BY <2>3, <2>4, <2>5 DEF Fresh
    <2>7. EventsOnce'
      BY <1>0, <2>1, <2>2, <2>6, WriteFresh
    <2>8. /\ Len(wire'[cur]) = Len(wire[cur]) + 1
          /\ \A i \in 1 .. Len(wire[cur]) + 1 :
               wire'[cur][i] = IF i <= Len(wire[cur]) THEN wire[cur][i] ELSE ev
          /\ \A t \in Sock \ {cur} : wire'[t] = wire[t]
      <3>1. wire'[cur] = wire[cur] \o <<ev>> /\ \A t \in Sock \ {cur} : wire'[t] = wire[t]
        BY <1>0, <2>1, <2>2 DEF TypeOK
      <3>2. /\ Len(wire'[cur]) = Len(wire[cur]) + Len(<<ev>>)
            /\ \A i \in 1 .. Len(wire[cur]) + Len(<<ev>>) :
                 wire'[cur][i] = IF i <= Len(wire[cur]) THEN wire[cur][i]
                                 ELSE <<ev>>[i - Len(wire[cur])]
        BY <2>2, <2>5, <3>1, ConcatProperties
      <3> QED
        BY <2>2, <2>5, <3>1, <3>2
    <2>9. AuthFirst'
      <3> SUFFICES ASSUME NEW t \in Sock
                   PROVE  /\ host[t] = "unauthenticated" => wire'[t] # <<>> /\ wire'[t][1] = Auth
                          /\ \A i \in 1 .. Len(wire'[t]) :
                               wire'[t][i] = Auth => i = 1 /\ host[t] = "unauthenticated"
        BY <2>1 DEF AuthFirst
      <3>1. CASE t = cur
        <4>1. host[t] = "unauthenticated" => wire'[t] # <<>> /\ wire'[t][1] = Auth
          <5> SUFFICES ASSUME host[t] = "unauthenticated"
                       PROVE  wire'[t] # <<>> /\ wire'[t][1] = Auth
            OBVIOUS
          <5>1. Len(wire[t]) \in Nat \ {0} /\ wire[t][1] = Auth
            BY <2>2, <3>1, EmptySeq DEF WireInv, AuthFirst
          <5>2. Len(wire'[t]) # 0 /\ wire'[t][1] = Auth
            BY <2>8, <3>1, <5>1
          <5> QED
            BY <5>2, EmptySeq
        <4>2. ASSUME NEW i \in 1 .. Len(wire'[t]), wire'[t][i] = Auth
              PROVE  i = 1 /\ host[t] = "unauthenticated"
          BY <2>2, <2>4, <2>8, <3>1, <4>2 DEF WireInv, AuthFirst
        <4> QED
          BY <4>1, <4>2
      <3>2. CASE t # cur
        BY <2>8, <3>2 DEF WireInv, AuthFirst
      <3> QED
        BY <3>1, <3>2
    <2>10. WireEmpty'
      BY <2>1, <2>8 DEF WireInv, WireEmpty
    <2> QED
      BY <1>0, <2>1, <2>7, <2>9, <2>10 DEF WireInv, DeliveredOnce
  <1> QED
    BY <1>1, <1>2

\* The host leaves a socket: what was on its wire is lost.
LEMMA WireLost ==
  ASSUME WireInv, [Next]_vars, NEW s \in Sock,
         wire' = [wire EXCEPT ![s] = <<>>], host' = [host EXCEPT ![s] = "gone"],
         UNCHANGED <<state, delivered>>
  PROVE  WireInv'
  <1>1. QueueInv' /\ Handed' \in Int /\ Handed <= Handed' /\ TypeOK
    BY QueueStep, HandedGrows DEF WireInv, QueueInv, ConnectionInv
  <1>2. \A t \in Sock : IF t = s THEN wire'[t] = <<>> /\ host'[t] = "gone"
                                 ELSE wire'[t] = wire[t] /\ host'[t] = host[t]
    BY <1>1 DEF TypeOK
  <1>3. EventsOnce'
    BY <1>1, <1>2, WireShrinks
  <1>4. AuthFirst'
    BY <1>2, EmptySeq DEF WireInv, AuthFirst
  <1>5. WireEmpty'
    BY <1>2 DEF WireInv, WireEmpty
  <1> QED
    BY <1>1, <1>3, <1>4, <1>5 DEF WireInv, DeliveredOnce

\* The host reads a frame: an event goes from the head of the wire to delivered.
LEMMA WireRead ==
  ASSUME WireInv, [Next]_vars, NEW s \in Sock, HostReceive(s),
         host[s] = "bridge" \/ (Head(wire[s]) = Auth /\ secretValid)
  PROVE  WireInv'
  <1> DEFINE old == wire[s]
             rest == Tail(old)
             frame == Head(old)
  <1>1. QueueInv /\ QueueInv' /\ Handed' \in Int /\ Handed <= Handed' /\ Handed \in Int /\ TypeOK
    BY QueueStep, HandedGrows, HandedBound DEF WireInv, QueueInv, ConnectionInv
  <1>2. old \in Seq(Frame) /\ old # <<>> /\ Len(old) \in Nat \ {0}
    BY <1>1, EmptySeq DEF TypeOK, HostReceive
  <1>3. /\ rest \in Seq(Frame) /\ Len(rest) = Len(old) - 1 /\ frame \in Frame /\ frame = old[1]
        /\ \A i \in 1 .. Len(rest) : rest[i] = old[i + 1]
    BY <1>2, HeadTailProperties
  <1>4. /\ wire'[s] = rest /\ host'[s] = "bridge"
        /\ \A t \in Sock \ {s} : wire'[t] = wire[t] /\ host'[t] = host[t]
        /\ state' = state /\ host[s] # "gone"
        /\ delivered' = IF host[s] = "bridge" /\ frame.kind = "event"
                          THEN Append(delivered, frame) ELSE delivered
    BY <1>1 DEF HostReceive, TypeOK, clientVars
  \* A place on a wire was one place, and not the head of the wire of s.
  <1>5. /\ \A i \in 1 .. Len(wire'[s]) :
             i + 1 \in 1 .. Len(wire[s]) /\ wire'[s][i] = wire[s][i + 1]
        /\ 1 \in 1 .. Len(wire[s]) /\ frame = wire[s][1]
    BY <1>2, <1>3, <1>4
  <1>6. /\ delivered \in Seq(Frame) /\ delivered' \in Seq(Frame)
        /\ \A k \in 1 .. Len(delivered) : delivered[k].kind = "event"
        /\ \A k \in 1 .. Len(delivered') :
             \/ k \in 1 .. Len(delivered) /\ delivered'[k] = delivered[k]
             \/ k = Len(delivered) + 1 /\ delivered'[k] = frame /\ frame.kind = "event"
        /\ Len(delivered) \in Nat
    <2>1. delivered \in Seq(Frame) /\ Len(delivered) \in Nat
      BY <1>1, LenProperties DEF TypeOK
    <2>2. CASE delivered' = delivered
      BY <2>1, <2>2 DEF WireInv, EventsOnce
    <2>3. CASE delivered' = Append(delivered, frame) /\ frame.kind = "event"
      <3> HIDE DEF frame
      <3>1. /\ Append(delivered, frame) \in Seq(Frame)
            /\ Len(Append(delivered, frame)) = Len(delivered) + 1
            /\ \A k \in 1 .. Len(delivered) : Append(delivered, frame)[k] = delivered[k]
            /\ Append(delivered, frame)[Len(delivered) + 1] = frame
        BY <1>3, <2>1, AppendProperties
      <3> QED
        BY <2>1, <2>3, <3>1 DEF WireInv, EventsOnce
    <2> QED
      BY <1>4, <2>2, <2>3
  <1>7. frame.kind = "event" => frame.n \in Nat /\ frame.n <= Handed
    BY <1>3, <1>5 DEF WireInv, EventsOnce, Frame
  <1> HIDE DEF old, rest, frame
  <1>8. \A t \in Sock : \A i \in 1 .. Len(wire'[t]) :
          \E p \in 1 .. Len(wire[t]) : /\ wire'[t][i] = wire[t][p]
                                       /\ p = IF t = s THEN i + 1 ELSE i
    BY <1>4, <1>5
  <1>9. EventsOnce'
    <2>1. ASSUME NEW t \in Sock, NEW i \in 1 .. Len(wire'[t]), wire'[t][i].kind = "event"
          PROVE  wire'[t][i].n <= Handed'
      <3>1. PICK p \in 1 .. Len(wire[t]) : wire'[t][i] = wire[t][p]
        BY <1>8
      <3>2. wire[t][p].kind = "event" /\ wire[t][p] \in Frame
        BY <1>1, <2>1, <3>1, ElementOfSeq DEF TypeOK
      <3>3. wire[t][p].n \in Nat /\ wire[t][p].n <= Handed
        BY <3>2 DEF WireInv, EventsOnce, Frame
      <3> QED
        BY <1>1, <3>1, <3>3
    <2>2. ASSUME NEW t \in Sock, NEW u \in Sock,
                 NEW i \in 1 .. Len(wire'[t]), NEW j \in 1 .. Len(wire'[u]),
                 wire'[t][i] = wire'[u][j], wire'[t][i].kind = "event"
          PROVE  t = u /\ i = j
      <3>1. PICK p \in 1 .. Len(wire[t]) : /\ wire'[t][i] = wire[t][p]
                                           /\ p = IF t = s THEN i + 1 ELSE i
        BY <1>8
      <3>2. PICK q \in 1 .. Len(wire[u]) : /\ wire'[u][j] = wire[u][q]
                                           /\ q = IF u = s THEN j + 1 ELSE j
        BY <1>8
      <3>3. wire[t][p] = wire[u][q] /\ wire[t][p].kind = "event"
        BY <2>2, <3>1, <3>2
      <3>4. t = u /\ p = q
        BY <3>3 DEF WireInv, EventsOnce
      <3> QED
        BY <3>1, <3>2, <3>4
    <2>3. ASSUME NEW k \in 1 .. Len(delivered')
          PROVE  delivered'[k].kind = "event" /\ delivered'[k].n <= Handed'
      <3>1. CASE k \in 1 .. Len(delivered) /\ delivered'[k] = delivered[k]
        <4>1. delivered[k].n \in Nat /\ delivered[k].n <= Handed /\ delivered[k].kind = "event"
          <5>1. delivered[k] \in Frame
            BY <1>6, <3>1, ElementOfSeq
          <5> QED
            BY <3>1, <5>1 DEF WireInv, EventsOnce, Frame
        <4> QED
          BY <1>1, <3>1, <4>1
      <3>2. CASE delivered'[k] = frame /\ frame.kind = "event"
        BY <1>1, <1>7, <3>2
      <3> QED
        BY <1>6, <3>1, <3>2
    <2>4. ASSUME NEW t \in Sock, NEW i \in 1 .. Len(wire'[t]), NEW k \in 1 .. Len(delivered'),
                 delivered'[k] = wire'[t][i]
          PROVE  FALSE
      <3>1. PICK p \in 1 .. Len(wire[t]) : /\ wire'[t][i] = wire[t][p]
                                           /\ p = IF t = s THEN i + 1 ELSE i
        BY <1>8
      <3>2. CASE k \in 1 .. Len(delivered) /\ delivered'[k] = delivered[k]
        BY <2>4, <3>1, <3>2 DEF WireInv, EventsOnce
      <3>3. CASE delivered'[k] = frame /\ frame.kind = "event"
        <4>1. wire[t][p] = wire[s][1] /\ wire[s][1].kind = "event"
          BY <1>5, <2>4, <3>1, <3>3
        <4>2. t = s /\ p = 1
          BY <1>5, <4>1 DEF WireInv, EventsOnce
        <4> QED
          BY <3>1, <4>2
      <3> QED
        BY <1>6, <3>2, <3>3
    <2> QED
      BY <2>1, <2>2, <2>3, <2>4 DEF EventsOnce
  <1>10. DeliveredOnce'
    <2> SUFFICES ASSUME NEW k \in 1 .. Len(delivered'), NEW l \in 1 .. Len(delivered'),
                        delivered'[k] = delivered'[l]
                 PROVE  k = l
      BY DEF DeliveredOnce
    <2>1. \A m \in 1 .. Len(delivered) : delivered[m] # frame
      BY <1>5 DEF WireInv, EventsOnce
    <2> QED
      BY <1>6, <2>1 DEF WireInv, DeliveredOnce
  <1>11. AuthFirst'
    <2> SUFFICES ASSUME NEW t \in Sock
                 PROVE  /\ host'[t] = "unauthenticated" => wire'[t] # <<>> /\ wire'[t][1] = Auth
                        /\ \A i \in 1 .. Len(wire'[t]) :
                             wire'[t][i] = Auth => i = 1 /\ host'[t] = "unauthenticated"
      BY DEF AuthFirst
    <2>1. CASE t = s
      <3>1. \A i \in 1 .. Len(wire'[s]) : wire'[s][i] # Auth
        <4> SUFFICES ASSUME NEW i \in 1 .. Len(wire'[s]), wire'[s][i] = Auth PROVE FALSE
          OBVIOUS
        <4>1. i + 1 \in 1 .. Len(wire[s]) /\ wire[s][i + 1] = Auth
          BY <1>5
        <4>2. i + 1 = 1
          BY <4>1 DEF WireInv, AuthFirst
        <4> QED
          BY <4>2
      <3> QED
        BY <1>4, <2>1, <3>1
    <2>2. CASE t # s
      BY <1>4, <2>2 DEF WireInv, AuthFirst
    <2> QED
      BY <2>1, <2>2
  <1>12. WireEmpty'
    BY <1>4 DEF WireInv, WireEmpty
  <1> QED
    BY <1>1, <1>9, <1>10, <1>11, <1>12 DEF WireInv

LEMMA WireStep == WireInv /\ [Next]_vars => WireInv'
  <1> SUFFICES ASSUME WireInv, [Next]_vars PROVE WireInv'
    OBVIOUS
  <1>0. TypeOK
    BY DEF WireInv, QueueInv, ConnectionInv
  <1>1. ASSUME NEW s \in Sock, Construct(s), UNCHANGED <<wire, host, delivered>> PROVE WireInv'
    BY <1>0, <1>1, WireQuiet DEF Construct, TypeOK
  <1>2. ASSUME UNCHANGED <<state, wire, host, delivered>> PROVE WireInv'
    BY <1>2, WireQuiet
  <1>3. CASE StartBridge
    BY <1>1, <1>2, <1>3 DEF StartBridge
  <1>4. CASE ReconnectFires
    BY <1>1, <1>2, <1>4 DEF ReconnectFires
  <1>5. CASE Disconnect \/ HeartbeatTimeout
    <2>1. CloseCurrent /\ UNCHANGED <<wire, host, delivered>>
      BY <1>5 DEF Disconnect, HeartbeatTimeout, netVars, envVars
    <2>2. \A s \in Sock : state'[s] \in {"connecting", "aborting"} =>
                            state[s] \in {"connecting", "aborting"}
      BY <1>0, <2>1 DEF CloseCurrent, Closing, TypeOK
    <2> QED
      BY <2>1, <2>2, WireQuiet
  <1>6. CASE Ping \/ Tick \/ UNCHANGED vars
    BY <1>2, <1>6 DEF Ping, Tick, vars, clientVars, netVars, envVars
  <1>7. ASSUME NEW s \in Sock, OnConnectFailure(s) \/ OnClose(s) PROVE WireInv'
    <2>1. /\ UNCHANGED <<wire, host, delivered>>
          /\ state' = [state EXCEPT ![s] = "closed"]
      BY <1>7 DEF OnConnectFailure, OnClose, netVars, envVars
    <2> QED
      BY <1>0, <2>1, WireQuiet DEF TypeOK
  <1>8. ASSUME NEW s \in Sock, OnPong(s) \/ PeerVanishes(s) PROVE WireInv'
    BY <1>2, <1>8 DEF OnPong, PeerVanishes, clientVars, netVars, envVars
  <1>9. ASSUME NEW s \in Sock, HostReceive(s) PROVE WireInv'
    <2>1. CASE host[s] = "bridge" \/ (Head(wire[s]) = Auth /\ secretValid)
      BY <1>9, <2>1, WireRead
    <2>2. CASE ~(host[s] = "bridge" \/ (Head(wire[s]) = Auth /\ secretValid))
      BY <1>9, <2>2, WireLost DEF HostReceive, clientVars
    <2> QED
      BY <2>1, <2>2
  <1>10. ASSUME NEW s \in Sock, HostLoses(s) PROVE WireInv'
    BY <1>10, WireLost DEF HostLoses, clientVars
  <1> QED
    BY <1>3, <1>4, <1>5, <1>6, <1>7, <1>8, <1>9, <1>10, WireOnOpen, WireSend DEF Next, Timers

LEMMA WireInvariant == Spec => []WireInv
  <1>1. Init => WireInv
    <2> SUFFICES ASSUME Init PROVE WireInv
      OBVIOUS
    <2>1. QueueInv
      BY ConnectionInit, ConstantsAssumption DEF Init, QueueInv, IsOpen
    <2> QED
      BY <2>1 DEF Init, WireInv, WireEmpty, AuthFirst, EventsOnce, DeliveredOnce
  <1> QED
    BY <1>1, WireStep, PTL DEF Spec

\* However often the client reconnects, and whatever it sends meanwhile, the host reads
\* auth first on every socket and never again: nobody is turned away for want of it.
THEOREM AuthIsFirst == Spec => []AuthFirst
  <1>1. WireInv => AuthFirst
    BY DEF WireInv
  <1> QED
    BY <1>1, WireInvariant, PTL

\* No event is delivered twice, over any number of connections: an event is in the buffer,
\* in one place of one wire, or delivered, and a connection that is lost loses it.
THEOREM NothingTwice == Spec => []DeliveredOnce
  <1>1. WireInv => DeliveredOnce
    BY DEF WireInv
  <1> QED
    BY <1>1, WireInvariant, PTL

=============================================================================
