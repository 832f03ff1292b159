----------------------------- MODULE EventStream -----------------------------
(***************************************************************************)
(* What a bridge client promises the application about the events it hands *)
(* over: "Buffer outbound events until WS is open; flush on open" and      *)
(* "drop oldest when buffer exceeds bufferLimit, emit a single info event  *)
(* with drop count" (docs/client-api-spec.md).                             *)
(*                                                                         *)
(* Events are numbered in the order the application sends them.  While the *)
(* stream is offline only the number of missed events is kept: coming back *)
(* online hands over the last Limit of them, in order, and one notice with *)
(* the number of the others.                                               *)
(***************************************************************************)
EXTENDS Integers, Sequences

CONSTANT Limit  \* how many events are retained while offline

VARIABLES
  online,    \* events are handed over at once
  accepted,  \* number of events the application has sent
  missed,    \* events sent since the stream went offline
  handed     \* what has been handed to the transport, in order

streamVars == <<online, accepted, missed, handed>>

\* A frame that carries event i, and one that reports k dropped events.
Event(i)  == [kind |-> "event", n |-> i]
Notice(k) == [kind |-> "notice", n |-> k]

\* The last k of the accepted events.
Latest(k) == [i \in 1 .. k |-> Event(accepted - k + i)]

CatchUp ==
  IF missed <= Limit THEN Latest(missed)
                     ELSE Append(Latest(Limit), Notice(missed - Limit))

Init == online = FALSE /\ accepted = 0 /\ missed = 0 /\ handed = <<>>

Accept ==
  /\ accepted' = accepted + 1
  /\ \/ online /\ handed' = Append(handed, Event(accepted + 1)) /\ missed' = missed
     \/ ~online /\ missed' = missed + 1 /\ handed' = handed
  /\ online' = online

GoOnline ==
  /\ ~online
  /\ online' = TRUE
  /\ handed' = handed \o CatchUp
  /\ missed' = 0
  /\ accepted' = accepted

GoOffline ==
  /\ online
  /\ online' = FALSE
  /\ UNCHANGED <<accepted, missed, handed>>

Next == Accept \/ GoOnline \/ GoOffline

Spec == Init /\ [][Next]_streamVars

=============================================================================
