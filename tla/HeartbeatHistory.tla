-------------------------- MODULE HeartbeatHistory --------------------------
(***************************************************************************)
(* BridgeWebSocket with a history variable: how long a ping has waited for *)
(* a pong.                                                                 *)
(***************************************************************************)
EXTENDS BridgeWebSocket

VARIABLE unanswered   \* time since the first ping after the last pong, or Off

HistoryInit == unanswered = Off

\* One more unit of a running wait, up to a bound above HbTimeout.
CountUp(t) == IF t = Off \/ t > HbTimeout THEN t ELSE t + 1

\* A pong, the end of the connection or a new one ends the wait, and a ping begins it.
RecordWait ==
  unanswered' =
    IF ~IsOpen' \/ \E s \in Sock : OnPong(s) THEN Off
    ELSE IF Ping /\ unanswered = Off THEN 0
    ELSE IF Tick THEN CountUp(unanswered)
    ELSE unanswered

historyVars == <<vars, unanswered>>
HistorySpec == Init /\ HistoryInit /\ [][Next /\ RecordWait]_historyVars

-----------------------------------------------------------------------------
(* Property.                                                               *)

\* "close if no `pong` before `HEARTBEAT_TIMEOUT_MS`": an open connection never waits
\* for a pong longer than HbTimeout.  Each ping arms the timeout anew, so it does when
\* HbInterval < HbTimeout.
PongInTime == unanswered <= HbTimeout

=============================================================================
