----------------------------- MODULE RemoteCalls -----------------------------
(***************************************************************************)
(* What the control path promises its callers: "MCP tool send_control ->   *)
(* host control_request -> bridge -> control_result -> ... tool result"    *)
(* (docs/mcp.md).  A call is carried out at most once by each bridge, ends *)
(* at most once, and is answered only if a bridge has carried it out.      *)
(***************************************************************************)
CONSTANTS Call, Bridge

VARIABLES
  outcome,   \* of each call
  ran,       \* pairs of a call and a bridge that has carried it out
  closed     \* the caller has stopped

callVars == <<outcome, ran, closed>>

Init ==
  /\ outcome = [k \in Call |-> "none"]
  /\ ran = {}
  /\ closed = FALSE

Ends(k, from, to) == outcome[k] = from /\ outcome' = [outcome EXCEPT ![k] = to]

Make(k) == ~closed /\ Ends(k, "none", "waiting") /\ UNCHANGED <<ran, closed>>

Refuse(k) == ~closed /\ Ends(k, "none", "refused") /\ UNCHANGED <<ran, closed>>

\* A bridge may carry a call out after its caller has given up.
Run(k, b) ==
  /\ outcome[k] \notin {"none", "refused"} /\ <<k, b>> \notin ran
  /\ ran' = ran \cup {<<k, b>>}
  /\ UNCHANGED <<outcome, closed>>

Answer(k) ==
  /\ ~closed /\ \E b \in Bridge : <<k, b>> \in ran
  /\ Ends(k, "waiting", "resolved")
  /\ UNCHANGED <<ran, closed>>

Fail(k) == ~closed /\ Ends(k, "waiting", "rejected") /\ UNCHANGED <<ran, closed>>

GiveUp(k) == ~closed /\ Ends(k, "waiting", "timedOut") /\ UNCHANGED <<ran, closed>>

Close == ~closed /\ closed' = TRUE /\ UNCHANGED <<outcome, ran>>

Next ==
  \/ \E k \in Call : \/ Make(k) \/ Refuse(k) \/ Answer(k) \/ Fail(k) \/ GiveUp(k)
                     \/ \E b \in Bridge : Run(k, b)
  \/ Close

Spec == Init /\ [][Next]_callVars

=============================================================================
