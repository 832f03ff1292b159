--------------------------- MODULE BridgeHostProofs ---------------------------
(***************************************************************************)
(* Theorems about BridgeHost, for any number of clients, HTTP sessions and *)
(* control requests, and every choice of the timeouts and limits.          *)
(***************************************************************************)
EXTENDS BridgeHost, FiniteSetTheorems, SequenceTheorems, TLAPS

-----------------------------------------------------------------------------
(* Types.                                                                  *)

LEMMA DefaultTyped == DefaultSubscription \in Subscription
  BY DEF DefaultSubscription, Subscription, Levels, Gated, EventType, Filters

\* The constants that time and rates are measured with.
LEMMA Limits ==
  /\ AuthTimeout \in Nat \ {0} /\ StaleAfter \in Nat \ {0}
  /\ ShotLimit \in Nat \ {0} /\ WindowLength \in Nat \ {0} /\ WindowLimit \in Nat
  BY ConstantsAssumption

\* What a step leaves alone keeps its type.
LEMMA TypesKept ==
  /\ SocketTypes /\ UNCHANGED socketVars => SocketTypes'
  /\ MemberTypes /\ UNCHANGED memberVars => MemberTypes'
  /\ SessionTypes /\ UNCHANGED sessionVars => SessionTypes'
  /\ RateTypes /\ UNCHANGED rateVars => RateTypes'
  /\ ControlTypes /\ UNCHANGED controlVars => ControlTypes'
  BY DEF SocketTypes, MemberTypes, SessionTypes, RateTypes, ControlTypes, socketVars,
     memberVars, sessionVars, rateVars, controlVars

\* The two counters of a window stay within their bounds.
LEMMA WindowTyped ==
  ASSUME TypeOK
  PROVE  /\ CountFrame => /\ windowAge' \in 0 .. WindowLength + 1
                          /\ windowCount' \in 0 .. WindowLimit + 1
                          /\ arrived' \in 0 .. WindowLimit + 1
  <1>1. Cardinality(Counted) \in Nat
    <2>1. Counted \subseteq Socket
      BY DEF Counted, Open, TypeOK, MemberTypes
    <2> QED
      BY <2>1, ConstantsAssumption, FS_Subset, FS_CardinalityType
  <1> QED
    BY <1>1, Limits DEF TypeOK, RateTypes, CountFrame, CountBase, Capped

\* Routing a screenshot keeps the record of screenshots typed.
LEMMA ShotTyped ==
  ASSUME TypeOK, NEW s \in Socket, NEW to, NoteShot(s, to)
  PROVE  sinceShot' \in [Socket -> 0 .. ShotLimit] /\ tooSoon' \subseteq Socket
  BY Limits DEF TypeOK, RateTypes, NoteShot

\* Adding a result, or a queued command, keeps the sequence typed.
LEMMA AppendTyped ==
  ASSUME TypeOK, NEW r \in Request, NEW s \in Socket
  PROVE  /\ Append(results, [request |-> r, to |-> s])
              \in Seq([request : Request, to : Socket])
         /\ \A h \in Session : Append(queue[h], r) \in Seq(Request)
  <1>1. [request |-> r, to |-> s] \in [request : Request, to : Socket]
    OBVIOUS
  <1>2. /\ results \in Seq([request : Request, to : Socket])
        /\ \A h \in Session : queue[h] \in Seq(Request)
    BY DEF TypeOK, ControlTypes, SessionTypes
  <1> QED
    BY <1>1, <1>2, AppendProperties

LEMMA ReplyTyped ==
  ASSUME TypeOK, NEW r \in Request, NEW c \in Bridge, Reply(r, c)
  PROVE  ControlTypes'
  <1> DEFINE replyTo == pendingControl[IdOf[r]]
  <1>1. /\ held' \subseteq Request \X Bridge
        /\ asker' \in [Request -> Socket \cup {None}]
    BY DEF Reply, TypeOK, ControlTypes
  <1>2. CASE replyTo # None /\ readyState[replyTo] = "open"
    <2>1. replyTo \in Socket
      BY <1>2, ConstantsAssumption DEF TypeOK, ControlTypes
    <2>2. /\ results' = Append(results, [request |-> r, to |-> replyTo])
          /\ pendingControl' = [pendingControl EXCEPT ![IdOf[r]] = None]
      BY <1>2 DEF Reply
    <2>3. results' \in Seq([request : Request, to : Socket])
      BY <2>1, <2>2, AppendTyped
    <2> QED
      BY <1>1, <2>2, <2>3 DEF TypeOK, ControlTypes
  <1>3. CASE ~(replyTo # None /\ readyState[replyTo] = "open")
    BY <1>1, <1>3 DEF Reply, TypeOK, ControlTypes
  <1> QED
    BY <1>2, <1>3

\* Forgetting bridges keeps what is kept about bridges typed.
LEMMA ForgetTyped ==
  ASSUME TypeOK, NEW gone, ForgetBridges(gone)
  PROVE  /\ bridges' \subseteq Bridge /\ greeted' \subseteq Bridge
         /\ bridgeCapabilities' \in [Bridge -> SUBSET Gated]
         /\ RateTypes'
  BY Limits DEF TypeOK, MemberTypes, RateTypes, ForgetBridges

LEMMA RemoveTyped ==
  ASSUME TypeOK, NEW gone, RemoveSessions(gone)
  PROVE  /\ SocketTypes' /\ MemberTypes' /\ SessionTypes' /\ RateTypes' /\ ControlTypes'
  <1>1. SocketTypes' /\ ControlTypes'
    BY TypesKept DEF TypeOK, RemoveSessions
  <1>2. MemberTypes' /\ RateTypes'
    <2>1. ForgetBridges(gone)
      BY DEF RemoveSessions
    <2> QED
      BY <2>1, ForgetTyped DEF TypeOK, MemberTypes, RemoveSessions
  <1>3. SessionTypes'
    <2>1. <<>> \in Seq(Request)
      OBVIOUS
    <2> QED
      BY <2>1 DEF TypeOK, SessionTypes, RemoveSessions
  <1> QED
    BY <1>1, <1>2, <1>3

LEMMA InitTyped == Init => TypeOK
  <1> SUFFICES ASSUME Init PROVE TypeOK
    OBVIOUS
  <1>1. SocketTypes
    BY DEF Init, SocketTypes, Off
  <1>2. MemberTypes
    BY DefaultTyped DEF Init, MemberTypes
  <1>3. SessionTypes
    <2>1. <<>> \in Seq(Request)
      OBVIOUS
    <2> QED
      BY <2>1, Limits DEF Init, SessionTypes
  <1>4. RateTypes
    BY Limits DEF Init, RateTypes
  <1>5. ControlTypes
    <2>1. <<>> \in Seq([request : Request, to : Socket])
      OBVIOUS
    <2> QED
      BY <2>1 DEF Init, ControlTypes
  <1> QED
    BY <1>1, <1>2, <1>3, <1>4, <1>5, Limits DEF Init, TypeOK

LEMMA TypeStep == TypeOK /\ [Next]_vars => TypeOK'
  <1> SUFFICES ASSUME TypeOK, [Next]_vars PROVE TypeOK'
    OBVIOUS
  <1> SocketTypes /\ MemberTypes /\ SessionTypes /\ RateTypes /\ ControlTypes
      /\ pruneIn \in 0 .. StaleAfter
    BY DEF TypeOK
  <1>1. ASSUME NEW s \in Socket, Connect(s) PROVE TypeOK'
    <2>1. MemberTypes' /\ SessionTypes' /\ RateTypes' /\ ControlTypes'
      BY <1>1, TypesKept DEF Connect
    <2>2. SocketTypes'
      BY <1>1, Limits DEF Connect, SocketTypes
    <2> QED
      BY <1>1, <2>1, <2>2 DEF Connect, TypeOK
  <1>2. ASSUME NEW s \in Socket, AuthTimeoutFires(s) PROVE TypeOK'
    <2>1. MemberTypes' /\ SessionTypes' /\ RateTypes' /\ ControlTypes'
      BY <1>2, TypesKept DEF AuthTimeoutFires
    <2>2. SocketTypes'
      BY <1>2 DEF AuthTimeoutFires, SocketTypes, StartClosing
    <2> QED
      BY <1>2, <2>1, <2>2 DEF AuthTimeoutFires, TypeOK
  <1>3. ASSUME NEW s \in Socket, Authenticate(s) PROVE TypeOK'
    <2>1. SessionTypes' /\ RateTypes' /\ ControlTypes'
      BY <1>3, TypesKept DEF Authenticate
    <2>2. SocketTypes'
      BY <1>3, ConstantsAssumption DEF Authenticate, SocketTypes, StartClosing
    <2>3. MemberTypes'
      BY <1>3 DEF Authenticate, MemberTypes, Bridge
    <2> QED
      BY <1>3, <2>1, <2>2, <2>3 DEF Authenticate, TypeOK
  <1>4. ASSUME NEW s \in Socket, RefuseFrame(s) PROVE TypeOK'
    <2>1. MemberTypes' /\ SessionTypes' /\ RateTypes' /\ ControlTypes'
      BY <1>4, TypesKept DEF RefuseFrame
    <2>2. SocketTypes'
      BY <1>4 DEF RefuseFrame, SocketTypes, StartClosing
    <2> QED
      BY <1>4, <2>1, <2>2 DEF RefuseFrame, TypeOK
  <1>5. ASSUME NEW s \in Socket, Close(s) PROVE TypeOK'
    <2>1. SessionTypes'
      BY <1>5, TypesKept DEF Close
    <2>2. SocketTypes'
      BY <1>5 DEF Close, SocketTypes
    <2>3. MemberTypes'
      BY <1>5, ForgetTyped, DefaultTyped DEF Close, MemberTypes
    <2>4. RateTypes'
      BY <1>5, ForgetTyped DEF Close
    <2>5. ControlTypes'
      BY <1>5 DEF Close, ControlTypes, DropPending
    <2> QED
      BY <1>5, <2>1, <2>2, <2>3, <2>4, <2>5 DEF Close, TypeOK
  <1>6. ASSUME NEW s \in Socket, NEW caps \in Capabilities, Hello(s, caps)
         PROVE  TypeOK'
    <2>1. SocketTypes' /\ SessionTypes' /\ RateTypes' /\ ControlTypes'
      BY <1>6, TypesKept DEF Hello
    <2>2. MemberTypes'
      BY <1>6, ConstantsAssumption DEF Hello, MemberTypes, Bridge
    <2> QED
      BY <1>6, <2>1, <2>2 DEF Hello, TypeOK
  <1>7. ASSUME NEW s \in Socket, NEW sub \in Subscribes, Subscribe(s, sub)
         PROVE  TypeOK'
    <2>1. SocketTypes' /\ SessionTypes' /\ RateTypes' /\ ControlTypes'
      BY <1>7, TypesKept DEF Subscribe
    <2>2. MemberTypes'
      BY <1>7, ConstantsAssumption DEF Subscribe, MemberTypes
    <2> QED
      BY <1>7, <2>1, <2>2 DEF Subscribe, TypeOK
  <1>8. ASSUME NEW s \in Socket, NEW m \in Messages, Event(s, m) PROVE TypeOK'
    <2>1. SocketTypes' /\ MemberTypes' /\ SessionTypes' /\ ControlTypes'
      BY <1>8, TypesKept DEF Event
    <2>2. RateTypes'
      BY <1>8, WindowTyped DEF Event, RateTypes
    <2> QED
      BY <1>8, <2>1, <2>2 DEF Event, TypeOK
  <1>9. ASSUME NEW s \in Socket, NEW m \in Messages, Screenshot(s, m) PROVE TypeOK'
    <2>1. SocketTypes' /\ MemberTypes' /\ SessionTypes' /\ ControlTypes'
      BY <1>9, TypesKept DEF Screenshot
    <2>2. RateTypes'
      <3>1. bridgeLastScreenshot' \in [Bridge -> 0 .. ShotLimit]
        BY <1>9, Limits DEF Screenshot, RateTypes, Bridge
      <3>2. sinceShot' \in [Socket -> 0 .. ShotLimit] /\ tooSoon' \subseteq Socket
        BY <1>9, ShotTyped DEF Screenshot, RateTypes
      <3> QED
        BY <1>9, <3>1, <3>2, WindowTyped DEF Screenshot, RateTypes
    <2> QED
      BY <1>9, <2>1, <2>2 DEF Screenshot, TypeOK
  <1>10. ASSUME NEW s \in Socket, NEW r \in Request, BridgeRequest(s, r) PROVE TypeOK'
    <2>1. SocketTypes' /\ MemberTypes' /\ SessionTypes'
      BY <1>10, TypesKept DEF BridgeRequest
    <2>2. RateTypes'
      BY <1>10, WindowTyped DEF BridgeRequest, RateTypes
    <2>3. ControlTypes'
      <3> PICK order \in Orders :
             LET to == Recipients(s, [type |-> "log", level |-> "info"], order) IN
               /\ held' = held \cup {<<r, c>> : c \in to}
               /\ pendingControl' = IF to # {} THEN [pendingControl EXCEPT ![IdOf[r]] = s]
                                               ELSE pendingControl
               /\ results' = IF to = {} THEN Append(results, [request |-> r, to |-> s])
                                        ELSE results
        BY <1>10 DEF BridgeRequest
      <3> DEFINE to == Recipients(s, [type |-> "log", level |-> "info"], order)
      <3>1. to \subseteq Socket
        BY DEF Recipients, Open, MemberTypes
      <3>2. /\ held' = held \cup {<<r, c>> : c \in to}
            /\ results' \in {results, Append(results, [request |-> r, to |-> s])}
        OBVIOUS
      <3> HIDE DEF to
      <3>3. held' \subseteq Request \X Bridge
        BY <3>1, <3>2 DEF ControlTypes, Bridge
      <3>4. results' \in Seq([request : Request, to : Socket])
        BY <3>2, AppendTyped DEF ControlTypes
      <3>5. asker' \in [Request -> Socket \cup {None}]
        BY <1>10 DEF BridgeRequest, ControlTypes
      <3> QED
        BY <3>3, <3>4, <3>5 DEF ControlTypes
    <2> QED
      BY <1>10, <2>1, <2>2, <2>3 DEF BridgeRequest, TypeOK
  <1>11. ASSUME NEW s \in Socket, NEW r \in Request, ConsumerRequest(s, r)
         PROVE  TypeOK'
    <2>1. SocketTypes' /\ MemberTypes' /\ RateTypes'
      BY <1>11, TypesKept DEF ConsumerRequest
    <2>2. SessionTypes'
      BY <1>11, AppendTyped DEF ConsumerRequest, SessionTypes
    <2>3. ControlTypes'
      <3>1. held' \subseteq Request \X Bridge
        BY <1>11 DEF ConsumerRequest, ControlTypes, Bridge
      <3>2. results' \in Seq([request : Request, to : Socket])
        BY <1>11, AppendTyped DEF ConsumerRequest, ControlTypes
      <3> QED
        BY <1>11, <3>1, <3>2 DEF ConsumerRequest, ControlTypes
    <2> QED
      BY <1>11, <2>1, <2>2, <2>3 DEF ConsumerRequest, TypeOK
  <1>12. ASSUME NEW s \in Socket, NEW r \in Request, ControlResult(s, r) PROVE TypeOK'
    <2>1. SocketTypes' /\ MemberTypes' /\ SessionTypes' /\ RateTypes'
      BY <1>12, TypesKept DEF ControlResult
    <2>2. ControlTypes'
      BY <1>12, ReplyTyped DEF ControlResult, Bridge
    <2> QED
      BY <1>12, <2>1, <2>2 DEF ControlResult, TypeOK
  <1>13. ASSUME NEW h \in Session, HttpConnect(h) PROVE TypeOK'
    <2>1. SocketTypes' /\ RateTypes' /\ ControlTypes'
      BY <1>13, TypesKept DEF HttpConnect
    <2>2. MemberTypes'
      BY <1>13 DEF HttpConnect, MemberTypes, Bridge
    <2>3. SessionTypes'
      BY <1>13, Limits DEF HttpConnect, SessionTypes, Seen
    <2> QED
      BY <1>13, <2>1, <2>2, <2>3 DEF HttpConnect, TypeOK
  <1>14. ASSUME NEW h \in Session, HttpPoll(h) PROVE TypeOK'
    <2>1. SocketTypes' /\ MemberTypes' /\ RateTypes'
      BY <1>14, TypesKept DEF HttpPoll
    <2>2. SessionTypes'
      BY <1>14, Limits DEF HttpPoll, SessionTypes, Seen
    <2>3. ControlTypes'
      <3>1. \A i \in DOMAIN queue[h] : queue[h][i] \in Request
        BY LenProperties DEF SessionTypes
      <3>2. held' \subseteq Request \X Bridge
        BY <1>14, <3>1 DEF HttpPoll, ControlTypes, Bridge
      <3> QED
        BY <1>14, <3>2 DEF HttpPoll, ControlTypes
    <2> QED
      BY <1>14, <2>1, <2>2, <2>3 DEF HttpPoll, TypeOK
  <1>15. ASSUME NEW h \in Session, HttpHeartbeat(h) PROVE TypeOK'
    <2>1. SocketTypes' /\ MemberTypes' /\ RateTypes' /\ ControlTypes'
      BY <1>15, TypesKept DEF HttpHeartbeat
    <2>2. SessionTypes'
      BY <1>15, Limits DEF HttpHeartbeat, SessionTypes, Seen
    <2> QED
      BY <1>15, <2>1, <2>2 DEF HttpHeartbeat, TypeOK
  <1>16. ASSUME NEW h \in Session, HttpDisconnect(h) PROVE TypeOK'
    BY <1>16, RemoveTyped DEF HttpDisconnect, TypeOK
  <1>17. ASSUME NEW h \in Session, NEW caps \in Capabilities, HttpHello(h, caps)
         PROVE  TypeOK'
    <2>1. SocketTypes' /\ RateTypes' /\ ControlTypes'
      BY <1>17, TypesKept DEF HttpHello
    <2>2. MemberTypes'
      BY <1>17, ConstantsAssumption DEF HttpHello, MemberTypes, Bridge
    <2>3. SessionTypes'
      BY <1>17, Limits DEF HttpHello, SessionTypes, Seen
    <2> QED
      BY <1>17, <2>1, <2>2, <2>3 DEF HttpHello, TypeOK
  <1>18. ASSUME NEW h \in Session, NEW m \in Messages, HttpEvents(h, m) PROVE TypeOK'
    <2>1. SocketTypes' /\ MemberTypes' /\ ControlTypes'
      BY <1>18, TypesKept DEF HttpEvents
    <2>2. SessionTypes'
      BY <1>18, Limits DEF HttpEvents, SessionTypes, Seen
    <2>3. RateTypes'
      BY <1>18, WindowTyped DEF HttpEvents, RateTypes
    <2> QED
      BY <1>18, <2>1, <2>2, <2>3 DEF HttpEvents, TypeOK
  <1>19. ASSUME NEW h \in Session, NEW r \in Request, HttpControlResult(h, r)
         PROVE  TypeOK'
    <2>1. SocketTypes' /\ MemberTypes' /\ RateTypes'
      BY <1>19, TypesKept DEF HttpControlResult
    <2>2. SessionTypes'
      BY <1>19, Limits DEF HttpControlResult, SessionTypes, Seen
    <2>3. ControlTypes'
      BY <1>19, ReplyTyped DEF HttpControlResult, Bridge
    <2> QED
      BY <1>19, <2>1, <2>2, <2>3 DEF HttpControlResult, TypeOK
  <1>20. CASE Prune
    BY <1>20, RemoveTyped, Limits DEF Prune, TypeOK
  <1>21. CASE Tick
    <2>1. MemberTypes' /\ ControlTypes'
      BY <1>21, TypesKept DEF Tick
    <2>2. SocketTypes'
      BY <1>21, Limits DEF Tick, SocketTypes, Off
    <2>3. SessionTypes'
      BY <1>21, Limits DEF Tick, SessionTypes, Capped
    <2>4. RateTypes'
      BY <1>21, Limits DEF Tick, RateTypes, Capped
    <2>5. (pruneIn \in 0 .. StaleAfter)'
      BY <1>21, Limits DEF Tick
    <2> QED
      BY <1>21, <2>1, <2>2, <2>3, <2>4, <2>5 DEF Tick, TypeOK
  <1>22. CASE UNCHANGED vars
    BY <1>22, TypesKept DEF vars, TypeOK
  <1> QED
    BY <1>1, <1>2, <1>3, <1>4, <1>5, <1>6, <1>7, <1>8, <1>9, <1>10, <1>11, <1>12,
       <1>13, <1>14, <1>15, <1>16, <1>17, <1>18, <1>19, <1>20, <1>21, <1>22
      DEF Next, SocketNext, SessionNext

\* TypeOK is an invariant of every behaviour.
THEOREM TypeCorrect == Spec => []TypeOK
  BY InitTyped, TypeStep, PTL DEF Spec

-----------------------------------------------------------------------------
(* Who is in the sets and maps of the host.                                *)

MemberInv == TypeOK /\ MembersConnected

LEMMA RemoveKeepsMembers ==
  ASSUME MemberInv, NEW gone \in SUBSET Live, RemoveSessions(gone)
  PROVE  MembersConnected'
  BY ConstantsAssumption, Limits
     DEF MemberInv, MembersConnected, TypeOK, MemberTypes, RemoveSessions, ForgetBridges,
         socketVars, Live, Bridge

LEMMA MemberStep == MemberInv /\ [Next]_vars => MembersConnected'
  <1> SUFFICES ASSUME MemberInv, [Next]_vars PROVE MembersConnected'
    OBVIOUS
  <1> DEFINE kept == <<readyState, isAuthenticated, role, bridges, consumers, greeted,
                       subscribed, session, bridgeLastScreenshot>>
  <1> TypeOK' /\ MembersConnected /\ SocketTypes /\ MemberTypes /\ SessionTypes /\ RateTypes
    BY TypeStep DEF MemberInv, TypeOK
  <1>A. CASE UNCHANGED kept
    BY <1>A DEF MembersConnected, Live
  <1>1. ASSUME NEW s \in Socket, Connect(s) PROVE MembersConnected'
    BY <1>1, ConstantsAssumption
      DEF Connect, memberVars, sessionVars, rateVars, MembersConnected, SocketTypes,
          MemberTypes, Live
  <1>2. ASSUME NEW s \in Socket, AuthTimeoutFires(s) PROVE MembersConnected'
    BY <1>2, ConstantsAssumption
      DEF AuthTimeoutFires, StartClosing, memberVars, sessionVars, rateVars,
          MembersConnected, SocketTypes, MemberTypes, Live
  <1>3. ASSUME NEW s \in Socket, Authenticate(s) PROVE MembersConnected'
    BY <1>3, ConstantsAssumption
      DEF Authenticate, StartClosing, sessionVars, rateVars, MembersConnected,
          SocketTypes, MemberTypes, Live
  <1>4. ASSUME NEW s \in Socket, RefuseFrame(s) PROVE MembersConnected'
    BY <1>4, ConstantsAssumption
      DEF RefuseFrame, StartClosing, memberVars, sessionVars, rateVars,
          MembersConnected, SocketTypes, MemberTypes, Live
  <1>5. ASSUME NEW s \in Socket, Close(s) PROVE MembersConnected'
    BY <1>5, ConstantsAssumption
      DEF Close, ForgetBridges, sessionVars, Bridge, MembersConnected, SocketTypes,
          MemberTypes, Live
  <1>6. ASSUME NEW s \in Socket, NEW caps \in Capabilities, Hello(s, caps)
         PROVE  MembersConnected'
    BY <1>6, ConstantsAssumption
      DEF Hello, Speaks, socketVars, sessionVars, rateVars, MembersConnected,
          SocketTypes, MemberTypes, Live
  <1>7. ASSUME NEW s \in Socket, NEW sub \in Subscribes, Subscribe(s, sub)
         PROVE  MembersConnected'
    BY <1>7, ConstantsAssumption
      DEF Subscribe, Speaks, socketVars, sessionVars, rateVars, MembersConnected,
          SocketTypes, MemberTypes, Live
  <1>8. ASSUME NEW s \in Socket, NEW m \in Messages, Event(s, m)
         PROVE  MembersConnected'
    BY <1>8, <1>A DEF Event, socketVars, memberVars, sessionVars, rateVars
  <1>9. ASSUME NEW s \in Socket, NEW m \in Messages, Screenshot(s, m)
         PROVE  MembersConnected'
    BY <1>9, ConstantsAssumption
      DEF Screenshot, Speaks, socketVars, memberVars, sessionVars, RateTypes,
          MembersConnected, SocketTypes, MemberTypes, Live
  <1>10. ASSUME NEW s \in Socket, NEW r \in Request, BridgeRequest(s, r)
         PROVE  MembersConnected'
    BY <1>10, <1>A DEF BridgeRequest, socketVars, memberVars, sessionVars, rateVars
  <1>11. ASSUME NEW s \in Socket, NEW r \in Request, ConsumerRequest(s, r)
         PROVE  MembersConnected'
    BY <1>11, <1>A DEF ConsumerRequest, socketVars, memberVars, sessionVars, rateVars
  <1>12. ASSUME NEW s \in Socket, NEW r \in Request, ControlResult(s, r)
         PROVE  MembersConnected'
    BY <1>12, <1>A DEF ControlResult, socketVars, memberVars, sessionVars, rateVars
  <1>13. ASSUME NEW h \in Session, HttpConnect(h) PROVE MembersConnected'
    BY <1>13, ConstantsAssumption
      DEF HttpConnect, socketVars, rateVars, SessionTypes, MembersConnected,
          SocketTypes, MemberTypes, Live
  <1>14. ASSUME NEW h \in Session, HttpPoll(h) PROVE MembersConnected'
    BY <1>14, <1>A DEF HttpPoll, socketVars, memberVars, sessionVars, rateVars
  <1>15. ASSUME NEW h \in Session, HttpHeartbeat(h) PROVE MembersConnected'
    BY <1>15, <1>A DEF HttpHeartbeat, socketVars, memberVars, sessionVars, rateVars
  <1>16. ASSUME NEW h \in Session, HttpDisconnect(h) PROVE MembersConnected'
    <2>1. RemoveSessions({h}) /\ {h} \subseteq Live
      BY <1>16 DEF HttpDisconnect
    <2> QED
      BY <2>1, RemoveKeepsMembers DEF MemberInv
  <1>17. ASSUME NEW h \in Session, NEW caps \in Capabilities, HttpHello(h, caps)
         PROVE  MembersConnected'
    BY <1>17, ConstantsAssumption
      DEF HttpHello, socketVars, rateVars, MembersConnected, SocketTypes, MemberTypes,
          Live
  <1>18. ASSUME NEW h \in Session, NEW m \in Messages, HttpEvents(h, m)
         PROVE  MembersConnected'
    BY <1>18, <1>A DEF HttpEvents, socketVars, memberVars, sessionVars, rateVars
  <1>19. ASSUME NEW h \in Session, NEW r \in Request, HttpControlResult(h, r)
         PROVE  MembersConnected'
    BY <1>19, <1>A DEF HttpControlResult, socketVars, memberVars, sessionVars, rateVars
  <1>20. CASE Prune
    <2>1. RemoveSessions({h \in Live : lastSeen[h] > StaleAfter})
      BY <1>20 DEF Prune
    <2> QED
      BY <2>1, RemoveKeepsMembers DEF MemberInv
  <1>21. CASE Tick
    BY <1>21, ConstantsAssumption, Limits
      DEF Tick, Capped, memberVars, RateTypes, MembersConnected, SocketTypes,
          MemberTypes, Live
  <1>22. CASE UNCHANGED vars
    BY <1>22, <1>A DEF vars, socketVars, memberVars, sessionVars, rateVars
  <1> QED
    BY <1>1, <1>2, <1>3, <1>4, <1>5, <1>6, <1>7, <1>8, <1>9, <1>10, <1>11, <1>12,
       <1>13, <1>14, <1>15, <1>16, <1>17, <1>18, <1>19, <1>20, <1>21, <1>22
      DEF Next, SocketNext, SessionNext

LEMMA MemberInvariant == Spec => []MemberInv
  <1>1. Init => MemberInv
    BY InitTyped, Limits DEF Init, MemberInv, MembersConnected, Live, Bridge
  <1>2. MemberInv /\ [Next]_vars => MemberInv'
    BY MemberStep, TypeStep DEF MemberInv
  <1> QED
    BY <1>1, <1>2, PTL DEF Spec

\* Only authenticated connections and live sessions are members, and nothing is kept
\* about any other.
THEOREM OnlyConnectedMembers == Spec => []MembersConnected
  <1>1. MemberInv => MembersConnected
    BY DEF MemberInv
  <1> QED
    BY <1>1, MemberInvariant, PTL

-----------------------------------------------------------------------------
(* Control requests.                                                       *)

\* Only close ends an authenticated connection, and it drops what would reply to it.
THEOREM NoDanglingReplies == Spec => []PendingRepliesConnected
  <1>1. Init => PendingRepliesConnected
    BY DEF Init, PendingRepliesConnected
  <1>2. ASSUME TypeOK, PendingRepliesConnected, [Next]_vars
        PROVE  PendingRepliesConnected'
    <2> ControlTypes /\ SocketTypes
      BY <1>2 DEF TypeOK
    <2> USE <1>2 DEF PendingRepliesConnected, ControlTypes, SocketTypes
    <2>A. CASE UNCHANGED <<isAuthenticated, pendingControl>>
      BY <2>A
    <2>1. ASSUME NEW s \in Socket, Connect(s) PROVE PendingRepliesConnected'
      BY <2>1, <2>A DEF Connect, controlVars, socketVars
    <2>2. ASSUME NEW s \in Socket, AuthTimeoutFires(s) PROVE PendingRepliesConnected'
      BY <2>2, <2>A DEF AuthTimeoutFires, controlVars, socketVars
    <2>3. ASSUME NEW s \in Socket, Authenticate(s) PROVE PendingRepliesConnected'
      BY <2>3 DEF Authenticate, controlVars
    <2>4. ASSUME NEW s \in Socket, RefuseFrame(s) PROVE PendingRepliesConnected'
      BY <2>4, <2>A DEF RefuseFrame, controlVars, socketVars
    <2>5. ASSUME NEW s \in Socket, Close(s) PROVE PendingRepliesConnected'
      BY <2>5, ConstantsAssumption DEF Close, DropPending
    <2>6. ASSUME NEW s \in Socket, NEW caps \in Capabilities, Hello(s, caps)
         PROVE  PendingRepliesConnected'
      BY <2>6, <2>A DEF Hello, controlVars, socketVars
    <2>7. ASSUME NEW s \in Socket, NEW sub \in Subscribes, Subscribe(s, sub)
         PROVE  PendingRepliesConnected'
      BY <2>7, <2>A DEF Subscribe, controlVars, socketVars
    <2>8. ASSUME NEW s \in Socket, NEW m \in Messages, Event(s, m)
         PROVE  PendingRepliesConnected'
      BY <2>8, <2>A DEF Event, controlVars, socketVars
    <2>9. ASSUME NEW s \in Socket, NEW m \in Messages, Screenshot(s, m)
         PROVE  PendingRepliesConnected'
      BY <2>9, <2>A DEF Screenshot, controlVars, socketVars
    <2>10. ASSUME NEW s \in Socket, NEW r \in Request, BridgeRequest(s, r)
         PROVE  PendingRepliesConnected'
      BY <2>10 DEF BridgeRequest, Speaks, socketVars
    <2>11. ASSUME NEW s \in Socket, NEW r \in Request, ConsumerRequest(s, r)
         PROVE  PendingRepliesConnected'
      BY <2>11 DEF ConsumerRequest, Speaks, socketVars
    <2>12. ASSUME NEW s \in Socket, NEW r \in Request, ControlResult(s, r)
         PROVE  PendingRepliesConnected'
      BY <2>12 DEF ControlResult, Reply, socketVars
    <2>13. ASSUME NEW h \in Session, HttpConnect(h) PROVE PendingRepliesConnected'
      BY <2>13, <2>A DEF HttpConnect, controlVars, socketVars
    <2>14. ASSUME NEW h \in Session, HttpPoll(h) PROVE PendingRepliesConnected'
      BY <2>14, <2>A DEF HttpPoll, controlVars, socketVars
    <2>15. ASSUME NEW h \in Session, HttpHeartbeat(h) PROVE PendingRepliesConnected'
      BY <2>15, <2>A DEF HttpHeartbeat, controlVars, socketVars
    <2>16. ASSUME NEW h \in Session, HttpDisconnect(h) PROVE PendingRepliesConnected'
      BY <2>16, <2>A DEF HttpDisconnect, RemoveSessions, controlVars, socketVars
    <2>17. ASSUME NEW h \in Session, NEW caps \in Capabilities, HttpHello(h, caps)
         PROVE  PendingRepliesConnected'
      BY <2>17, <2>A DEF HttpHello, controlVars, socketVars
    <2>18. ASSUME NEW h \in Session, NEW m \in Messages, HttpEvents(h, m)
         PROVE  PendingRepliesConnected'
      BY <2>18, <2>A DEF HttpEvents, controlVars, socketVars
    <2>19. ASSUME NEW h \in Session, NEW r \in Request, HttpControlResult(h, r)
         PROVE  PendingRepliesConnected'
      BY <2>19 DEF HttpControlResult, Reply, socketVars
    <2>20. CASE Prune
      BY <2>20, <2>A DEF Prune, RemoveSessions, controlVars, socketVars
    <2>21. CASE Tick
      BY <2>21, <2>A DEF Tick, controlVars, socketVars
    <2>22. CASE UNCHANGED vars
      BY <2>22, <2>A DEF vars, socketVars, controlVars
    <2> QED
      BY <2>1, <2>2, <2>3, <2>4, <2>5, <2>6, <2>7, <2>8, <2>9, <2>10, <2>11, <2>12,
         <2>13, <2>14, <2>15, <2>16, <2>17, <2>18, <2>19, <2>20, <2>21, <2>22
         DEF Next, SocketNext, SessionNext
  <1> QED
    BY <1>1, <1>2, TypeCorrect, PTL DEF Spec

\* Requests with ids of their own: every reply still awaited is awaited by the client that
\* asked, who has had no result yet; and every result so far went to the one who asked.
Answered(r) == \E i \in 1 .. Len(results) : results[i].request = r

ControlInv ==
  /\ TypeOK
  /\ ResultToAsker /\ OneResult
  /\ \A r \in Request :
       /\ Answered(r) => asker[r] # None
       /\ pendingControl[IdOf[r]] # None =>
            pendingControl[IdOf[r]] = asker[r] /\ ~Answered(r)

\* Every result names a request and the client it went to.
LEMMA ResultTyped ==
  ASSUME TypeOK, NEW i \in 1 .. Len(results)
  PROVE  results[i].request \in Request
  <1>1. results \in Seq([request : Request, to : Socket])
    BY DEF TypeOK, ControlTypes
  <1>2. results \in [1 .. Len(results) -> [request : Request, to : Socket]]
    BY <1>1, LenProperties
  <1>3. results[i] \in [request : Request, to : Socket]
    BY <1>2
  <1> QED
    BY <1>3

\* A first result for r that goes to its asker.
LEMMA AddResult ==
  ASSUME ControlInv, TypeOK', NEW r \in Request, NEW s \in Socket, ~Answered(r),
         results' = Append(results, [request |-> r, to |-> s]),
         asker'[r] = s, \A q \in Request : q # r => asker'[q] = asker[q]
  PROVE  /\ ResultToAsker' /\ OneResult'
         /\ \A q \in Request : Answered(q)' <=> Answered(q) \/ q = r
  <1> DEFINE res == [request |-> r, to |-> s]
  <1>1. /\ results \in Seq([request : Request, to : Socket])
        /\ res \in [request : Request, to : Socket]
    BY DEF ControlInv, TypeOK, ControlTypes
  <1>2. /\ Len(results) \in Nat /\ Len(results') = Len(results) + 1
        /\ \A i \in 1 .. Len(results) : results'[i] = results[i]
        /\ results'[Len(results) + 1] = res
    BY <1>1, AppendProperties, LenProperties
  <1>3. \A i \in 1 .. Len(results) :
          results[i].request \in Request /\ results[i].request # r
    BY ResultTyped DEF ControlInv, Answered
  <1>4. 1 .. Len(results') = 1 .. Len(results) \cup {Len(results) + 1}
    BY <1>2
  <1>5. ResultToAsker'
    BY <1>2, <1>3, <1>4 DEF ResultToAsker, ControlInv
  <1>6. OneResult'
    BY <1>2, <1>3, <1>4 DEF OneResult, ControlInv
  <1>7. ASSUME NEW q \in Request PROVE Answered(q)' <=> Answered(q) \/ q = r
    BY <1>2, <1>4 DEF Answered
  <1> QED
    BY <1>5, <1>6, <1>7

\* A client's result keeps ControlInv.
LEMMA ReplyStep ==
  ASSUME ControlInv, TypeOK', NEW r \in Request, NEW c, Reply(r, c),
         \A p, q \in Request : IdOf[p] = IdOf[q] => p = q
  PROVE  ControlInv'
  <1> DEFINE replyTo == pendingControl[IdOf[r]]
  <1>1. asker' = asker /\ pendingControl \in [Id -> Socket \cup {None}]
        /\ asker \in [Request -> Socket \cup {None}]
    BY DEF Reply, ControlInv, TypeOK, ControlTypes
  <1>2. CASE replyTo # None /\ readyState[replyTo] = "open"
    <2>1. /\ results' = Append(results, [request |-> r, to |-> replyTo])
          /\ pendingControl' = [pendingControl EXCEPT ![IdOf[r]] = None]
      BY <1>2 DEF Reply
    <2>2. replyTo = asker[r] /\ ~Answered(r) /\ replyTo \in Socket
      BY <1>1, <1>2, ConstantsAssumption DEF ControlInv
    <2>3. /\ ResultToAsker' /\ OneResult'
          /\ \A q \in Request : Answered(q)' <=> Answered(q) \/ q = r
      BY <1>1, <2>1, <2>2, AddResult
    <2> QED
      BY <1>1, <1>2, <2>1, <2>2, <2>3, ConstantsAssumption DEF ControlInv
  <1>3. CASE ~(replyTo # None /\ readyState[replyTo] = "open")
    BY <1>1, <1>3 DEF Reply, ControlInv, ResultToAsker, OneResult, Answered
  <1> QED
    BY <1>2, <1>3

\* A new request of s: it is answered at once, or it becomes pending.
LEMMA RequestStep ==
  ASSUME ControlInv, TypeOK', NEW r \in Request, NEW s \in Socket,
         \A p, q \in Request : IdOf[p] = IdOf[q] => p = q,
         asker[r] = None, asker' = [asker EXCEPT ![r] = s],
         \/ /\ results' = Append(results, [request |-> r, to |-> s])
            /\ pendingControl' = pendingControl
         \/ /\ results' = results
            /\ pendingControl' = [pendingControl EXCEPT ![IdOf[r]] = s]
  PROVE  ControlInv'
  <1>1. /\ asker'[r] = s /\ \A q \in Request : q # r => asker'[q] = asker[q]
        /\ pendingControl \in [Id -> Socket \cup {None}]
        /\ s # None /\ ~Answered(r) /\ pendingControl[IdOf[r]] = None
    BY ConstantsAssumption DEF ControlInv, TypeOK, ControlTypes
  <1>2. CASE /\ results' = Append(results, [request |-> r, to |-> s])
             /\ pendingControl' = pendingControl
    <2>1. /\ ResultToAsker' /\ OneResult'
          /\ \A q \in Request : Answered(q)' <=> Answered(q) \/ q = r
      BY <1>1, <1>2, AddResult
    <2> QED
      BY <1>1, <1>2, <2>1, ConstantsAssumption DEF ControlInv
  <1>3. CASE /\ results' = results
             /\ pendingControl' = [pendingControl EXCEPT ![IdOf[r]] = s]
    <2>1. OneResult' /\ \A q \in Request : Answered(q)' <=> Answered(q)
      BY <1>3 DEF ControlInv, OneResult, Answered
    <2>2. ResultToAsker'
      <3>1. \A i \in 1 .. Len(results) : results[i].request \in Request
        BY ResultTyped DEF ControlInv
      <3>2. \A i \in 1 .. Len(results) : results[i].request # r
        BY <1>1 DEF Answered
      <3> QED
        BY <1>1, <1>3, <3>1, <3>2 DEF ControlInv, ResultToAsker
    <2> QED
      BY <1>1, <1>3, <2>1, <2>2, ConstantsAssumption DEF ControlInv
  <1> QED
    BY <1>2, <1>3

LEMMA ControlStep ==
  ASSUME ControlInv, [Next]_vars, \A p, q \in Request : IdOf[p] = IdOf[q] => p = q
  PROVE  ControlInv'
  <1> TypeOK'
    BY TypeStep DEF ControlInv
  <1>A. CASE UNCHANGED controlVars
    BY <1>A DEF ControlInv, controlVars, ResultToAsker, OneResult, Answered
  <1>1. ASSUME NEW s \in Socket, Connect(s) PROVE ControlInv'
    BY <1>1, <1>A DEF Connect
  <1>2. ASSUME NEW s \in Socket, AuthTimeoutFires(s) PROVE ControlInv'
    BY <1>2, <1>A DEF AuthTimeoutFires
  <1>3. ASSUME NEW s \in Socket, Authenticate(s) PROVE ControlInv'
    BY <1>3, <1>A DEF Authenticate
  <1>4. ASSUME NEW s \in Socket, RefuseFrame(s) PROVE ControlInv'
    BY <1>4, <1>A DEF RefuseFrame
  <1>5. ASSUME NEW s \in Socket, Close(s) PROVE ControlInv'
    BY <1>5, ConstantsAssumption
      DEF Close, DropPending, ControlInv, ResultToAsker, OneResult, Answered
  <1>6. ASSUME NEW s \in Socket, NEW caps \in Capabilities, Hello(s, caps)
         PROVE  ControlInv'
    BY <1>6, <1>A DEF Hello
  <1>7. ASSUME NEW s \in Socket, NEW sub \in Subscribes, Subscribe(s, sub)
         PROVE  ControlInv'
    BY <1>7, <1>A DEF Subscribe
  <1>8. ASSUME NEW s \in Socket, NEW m \in Messages, Event(s, m) PROVE ControlInv'
    BY <1>8, <1>A DEF Event
  <1>9. ASSUME NEW s \in Socket, NEW m \in Messages, Screenshot(s, m)
         PROVE  ControlInv'
    BY <1>9, <1>A DEF Screenshot
  <1>10. ASSUME NEW s \in Socket, NEW r \in Request, BridgeRequest(s, r)
         PROVE  ControlInv'
    BY <1>10, RequestStep DEF BridgeRequest
  <1>11. ASSUME NEW s \in Socket, NEW r \in Request, ConsumerRequest(s, r)
         PROVE  ControlInv'
    BY <1>11, RequestStep DEF ConsumerRequest
  <1>12. ASSUME NEW s \in Socket, NEW r \in Request, ControlResult(s, r)
         PROVE  ControlInv'
    BY <1>12, ReplyStep DEF ControlResult
  <1>13. ASSUME NEW h \in Session, HttpConnect(h) PROVE ControlInv'
    BY <1>13, <1>A DEF HttpConnect
  <1>14. ASSUME NEW h \in Session, HttpPoll(h) PROVE ControlInv'
    BY <1>14 DEF HttpPoll, ControlInv, ResultToAsker, OneResult, Answered
  <1>15. ASSUME NEW h \in Session, HttpHeartbeat(h) PROVE ControlInv'
    BY <1>15, <1>A DEF HttpHeartbeat
  <1>16. ASSUME NEW h \in Session, HttpDisconnect(h) PROVE ControlInv'
    BY <1>16, <1>A DEF HttpDisconnect, RemoveSessions
  <1>17. ASSUME NEW h \in Session, NEW caps \in Capabilities, HttpHello(h, caps)
         PROVE  ControlInv'
    BY <1>17, <1>A DEF HttpHello
  <1>18. ASSUME NEW h \in Session, NEW m \in Messages, HttpEvents(h, m)
         PROVE  ControlInv'
    BY <1>18, <1>A DEF HttpEvents
  <1>19. ASSUME NEW h \in Session, NEW r \in Request, HttpControlResult(h, r)
         PROVE  ControlInv'
    BY <1>19, ReplyStep DEF HttpControlResult
  <1>20. CASE Prune
    BY <1>20, <1>A DEF Prune, RemoveSessions
  <1>21. CASE Tick
    BY <1>21, <1>A DEF Tick
  <1>22. CASE UNCHANGED vars
    BY <1>22, <1>A DEF vars
  <1> QED
    BY <1>1, <1>2, <1>3, <1>4, <1>5, <1>6, <1>7, <1>8, <1>9, <1>10, <1>11, <1>12,
       <1>13, <1>14, <1>15, <1>16, <1>17, <1>18, <1>19, <1>20, <1>21, <1>22
      DEF Next, SocketNext, SessionNext

\* While requests carry ids of their own, every result goes to the client that asked, and
\* a client gets one at most: with any number of bridges that answer the same request,
\* over WebSocket and HTTP, and whoever disconnects or comes back in between.
THEOREM ControlRoundTrip ==
  ASSUME \A p, q \in Request : IdOf[p] = IdOf[q] => p = q
  PROVE  Spec => []RoundTrip
  <1>1. Init => ControlInv
    <2> SUFFICES ASSUME Init PROVE ControlInv
      OBVIOUS
    <2>1. Len(results) = 0
      BY EmptySeq DEF Init
    <2> QED
      BY <2>1, InitTyped, ConstantsAssumption
         DEF Init, ControlInv, ResultToAsker, OneResult, Answered
  <1>2. ControlInv /\ [Next]_vars => ControlInv'
    BY ControlStep
  <1>3. ControlInv => RoundTrip
    BY DEF ControlInv, RoundTrip
  <1> QED
    BY <1>1, <1>2, <1>3, PTL DEF Spec

-----------------------------------------------------------------------------
(* Screenshots.                                                            *)

\* The stamp that RateLimited looks at is never older than the last screenshot routed: it
\* is set for malformed ones too, and both are forgotten together on close.
ShotInv ==
  /\ \A s \in Socket : bridgeLastScreenshot[s] <= sinceShot[s]
  /\ SocketScreenshotsSpaced

LEMMA ShotStep ==
  ASSUME TypeOK, ShotInv, [Next]_vars
  PROVE  ShotInv'
  <1> RateTypes
    BY DEF TypeOK
  <1> USE DEF SocketScreenshotsSpaced
  <1>A. CASE UNCHANGED <<bridgeLastScreenshot, sinceShot, tooSoon>>
    BY <1>A DEF ShotInv
  <1>1. ASSUME NEW s \in Socket, Connect(s) PROVE ShotInv'
    BY <1>1, <1>A DEF Connect, rateVars
  <1>2. ASSUME NEW s \in Socket, AuthTimeoutFires(s) PROVE ShotInv'
    BY <1>2, <1>A DEF AuthTimeoutFires, rateVars
  <1>3. ASSUME NEW s \in Socket, Authenticate(s) PROVE ShotInv'
    BY <1>3, <1>A DEF Authenticate, rateVars
  <1>4. ASSUME NEW s \in Socket, RefuseFrame(s) PROVE ShotInv'
    BY <1>4, <1>A DEF RefuseFrame, rateVars
  <1>5. ASSUME NEW s \in Socket, Close(s) PROVE ShotInv'
    <2>1. ForgetBridges(IF role[s] = "bridge" THEN {s} ELSE {})
      BY <1>5 DEF Close
    <2> QED
      BY <2>1, ConstantsAssumption, Limits DEF ForgetBridges, ShotInv, Bridge, RateTypes
  <1>6. ASSUME NEW s \in Socket, NEW caps \in Capabilities, Hello(s, caps)
         PROVE  ShotInv'
    BY <1>6, <1>A DEF Hello, rateVars
  <1>7. ASSUME NEW s \in Socket, NEW sub \in Subscribes, Subscribe(s, sub)
         PROVE  ShotInv'
    BY <1>7, <1>A DEF Subscribe, rateVars
  <1>8. ASSUME NEW s \in Socket, NEW m \in Messages, Event(s, m) PROVE ShotInv'
    BY <1>8, <1>A DEF Event, rateVars
  <1>9. ASSUME NEW s \in Socket, NEW m \in Messages, Screenshot(s, m) PROVE ShotInv'
    <2>1. bridgeLastScreenshot[s] = ShotLimit /\ sinceShot[s] = ShotLimit
      BY <1>9, Limits DEF Screenshot, RateLimited, ShotInv, RateTypes, Bridge
    <2>2. \/ /\ UNCHANGED <<sinceShot, tooSoon>>
             /\ \/ UNCHANGED bridgeLastScreenshot
                \/ bridgeLastScreenshot' = [bridgeLastScreenshot EXCEPT ![s] = 0]
          \/ /\ bridgeLastScreenshot' = [bridgeLastScreenshot EXCEPT ![s] = 0]
             /\ sinceShot' = [sinceShot EXCEPT ![s] = 0] /\ UNCHANGED tooSoon
          \/ UNCHANGED <<bridgeLastScreenshot, sinceShot, tooSoon>>
      BY <1>9, <2>1, Limits DEF Screenshot, NoteShot
    <2> QED
      BY <2>1, <2>2, Limits DEF ShotInv, RateTypes, Bridge
  <1>10. ASSUME NEW s \in Socket, NEW r \in Request, BridgeRequest(s, r) PROVE ShotInv'
    BY <1>10, <1>A DEF BridgeRequest, rateVars
  <1>11. ASSUME NEW s \in Socket, NEW r \in Request, ConsumerRequest(s, r)
         PROVE  ShotInv'
    BY <1>11, <1>A DEF ConsumerRequest, rateVars
  <1>12. ASSUME NEW s \in Socket, NEW r \in Request, ControlResult(s, r) PROVE ShotInv'
    BY <1>12, <1>A DEF ControlResult, rateVars
  <1>13. ASSUME NEW h \in Session, HttpConnect(h) PROVE ShotInv'
    BY <1>13, <1>A DEF HttpConnect, rateVars
  <1>14. ASSUME NEW h \in Session, HttpPoll(h) PROVE ShotInv'
    BY <1>14, <1>A DEF HttpPoll, rateVars
  <1>15. ASSUME NEW h \in Session, HttpHeartbeat(h) PROVE ShotInv'
    BY <1>15, <1>A DEF HttpHeartbeat, rateVars
  <1>16. ASSUME NEW h \in Session, HttpDisconnect(h) PROVE ShotInv'
    <2>1. ForgetBridges({h})
      BY <1>16 DEF HttpDisconnect, RemoveSessions
    <2> QED
      BY <2>1, ConstantsAssumption, Limits DEF ForgetBridges, ShotInv, Bridge, RateTypes
  <1>17. ASSUME NEW h \in Session, NEW caps \in Capabilities, HttpHello(h, caps)
         PROVE  ShotInv'
    BY <1>17, <1>A DEF HttpHello, rateVars
  <1>18. ASSUME NEW h \in Session, NEW m \in Messages, HttpEvents(h, m) PROVE ShotInv'
    BY <1>18, <1>A DEF HttpEvents
  <1>19. ASSUME NEW h \in Session, NEW r \in Request, HttpControlResult(h, r)
         PROVE  ShotInv'
    BY <1>19, <1>A DEF HttpControlResult, rateVars
  <1>20. CASE Prune
    <2>1. ForgetBridges({h \in Live : lastSeen[h] > StaleAfter})
      BY <1>20 DEF Prune, RemoveSessions
    <2> QED
      BY <2>1, ConstantsAssumption, Limits DEF ForgetBridges, ShotInv, Bridge, RateTypes
  <1>21. CASE Tick
    BY <1>21, Limits DEF Tick, Capped, ShotInv, RateTypes, Bridge
  <1>22. CASE UNCHANGED vars
    BY <1>22, <1>A DEF vars, rateVars
  <1> QED
    BY <1>1, <1>2, <1>3, <1>4, <1>5, <1>6, <1>7, <1>8, <1>9, <1>10, <1>11, <1>12,
       <1>13, <1>14, <1>15, <1>16, <1>17, <1>18, <1>19, <1>20, <1>21, <1>22
      DEF Next, SocketNext, SessionNext

\* However bridges close, come back and send malformed screenshots, two that are routed
\* for one connection are at least SCREENSHOT_RATE_LIMIT_MS apart.
THEOREM ScreenshotsSpaced == Spec => []SocketScreenshotsSpaced
  <1>1. Init => ShotInv
    BY Limits DEF Init, ShotInv, SocketScreenshotsSpaced, Bridge
  <1>2. TypeOK /\ ShotInv /\ [Next]_vars => ShotInv'
    BY ShotStep
  <1>3. ShotInv => SocketScreenshotsSpaced
    BY DEF ShotInv
  <1> QED
    BY <1>1, <1>2, <1>3, TypeCorrect, PTL DEF Spec

-----------------------------------------------------------------------------
(* Polls.                                                                  *)

\* What is queued or held was asked for, and is asked for once only.
PollInv ==
  /\ PolledOnce
  /\ \A h \in Session : \A i \in 1 .. Len(queue[h]) : asker[queue[h][i]] # None
  /\ \A r \in Request, b \in Bridge : <<r, b>> \in held => asker[r] # None

\* Removing sessions empties their queues.
LEMMA RemovePolled ==
  ASSUME TypeOK, PollInv, NEW gone, RemoveSessions(gone)
  PROVE  PollInv'
  <1>1. /\ UNCHANGED <<asker, held>>
        /\ \A h \in Session : queue'[h] = queue[h] \/ queue'[h] = <<>>
    BY DEF RemoveSessions, controlVars
  <1> QED
    BY <1>1 DEF PollInv, PolledOnce

\* A new request is in no queue yet and held by nobody, so it may be queued.
LEMMA AskPolled ==
  ASSUME TypeOK, PollInv, NEW s \in Socket, NEW r \in Request, ConsumerRequest(s, r)
  PROVE  PollInv'
  <1>1. /\ asker[r] = None /\ asker' = [asker EXCEPT ![r] = s]
        /\ asker \in [Request -> Socket \cup {None}] /\ s # None
    BY ConstantsAssumption DEF ConsumerRequest, TypeOK, ControlTypes
  <1>2. \A h \in Session : queue'[h] = queue[h] \/ queue'[h] = Append(queue[h], r)
    BY DEF ConsumerRequest, TypeOK, SessionTypes
  <1>3. \A q \in Request, b \in Bridge :
          <<q, b>> \in held' => <<q, b>> \in held \/ (q = r /\ b \in Socket)
    BY DEF ConsumerRequest
  <1>4. \A h \in Session : h \notin Socket
    BY ConstantsAssumption
  <1>5. ASSUME NEW h \in Session
        PROVE  \A i \in 1 .. Len(queue'[h]) :
                 /\ asker'[queue'[h][i]] # None
                 /\ <<queue'[h][i], h>> \notin held'
                 /\ \A j \in 1 .. Len(queue'[h]) : queue'[h][i] = queue'[h][j] => i = j
    <2>1. /\ queue[h] \in Seq(Request) /\ Len(queue[h]) \in Nat /\ h \in Bridge
          /\ \A i \in 1 .. Len(queue[h]) :
               /\ queue[h][i] \in Request /\ queue[h][i] # r
               /\ asker[queue[h][i]] # None /\ <<queue[h][i], h>> \notin held
      BY <1>1 DEF TypeOK, SessionTypes, PollInv, PolledOnce, Bridge
    <2>2. <<r, h>> \notin held
      BY <1>1, <2>1 DEF PollInv
    <2>3. CASE queue'[h] = queue[h]
      BY <1>1, <1>3, <1>4, <2>1, <2>3 DEF PollInv, PolledOnce
    <2>4. CASE queue'[h] = Append(queue[h], r)
      <3>1. /\ Len(queue'[h]) = Len(queue[h]) + 1 /\ queue'[h][Len(queue[h]) + 1] = r
            /\ \A i \in 1 .. Len(queue[h]) : queue'[h][i] = queue[h][i]
        BY <2>1, <2>4, AppendProperties
      <3>2. \A i \in 1 .. Len(queue'[h]) :
              \/ i = Len(queue[h]) + 1 /\ queue'[h][i] = r
              \/ i \in 1 .. Len(queue[h]) /\ queue'[h][i] = queue[h][i]
        BY <2>1, <3>1
      <3>3. \A i \in 1 .. Len(queue'[h]) : asker'[queue'[h][i]] # None
        BY <1>1, <2>1, <3>2
      <3>4. \A i \in 1 .. Len(queue'[h]) : <<queue'[h][i], h>> \notin held'
        BY <1>3, <1>4, <2>1, <2>2, <3>2
      <3>5. \A i, j \in 1 .. Len(queue'[h]) : queue'[h][i] = queue'[h][j] => i = j
        <4>1. \A i, j \in 1 .. Len(queue[h]) : queue[h][i] = queue[h][j] => i = j
          BY DEF PollInv, PolledOnce
        <4> QED
          BY <2>1, <3>2, <4>1
      <3> QED
        BY <3>3, <3>4, <3>5
    <2> QED
      BY <1>2, <2>3, <2>4
  <1>6. \A q \in Request, b \in Bridge : <<q, b>> \in held' => asker'[q] # None
    BY <1>1, <1>3 DEF PollInv
  <1> QED
    BY <1>5, <1>6 DEF PollInv, PolledOnce

LEMMA PollStep ==
  ASSUME TypeOK, PollInv, [Next]_vars
  PROVE  PollInv'
  <1> SessionTypes /\ ControlTypes /\ MemberTypes
    BY DEF TypeOK
  <1>A. CASE UNCHANGED <<asker, held, queue>>
    BY <1>A DEF PollInv, PolledOnce
  <1>1. ASSUME NEW s \in Socket, Connect(s) PROVE PollInv'
    BY <1>1, <1>A DEF Connect, controlVars, sessionVars
  <1>2. ASSUME NEW s \in Socket, AuthTimeoutFires(s) PROVE PollInv'
    BY <1>2, <1>A DEF AuthTimeoutFires, controlVars, sessionVars
  <1>3. ASSUME NEW s \in Socket, Authenticate(s) PROVE PollInv'
    BY <1>3, <1>A DEF Authenticate, controlVars, sessionVars
  <1>4. ASSUME NEW s \in Socket, RefuseFrame(s) PROVE PollInv'
    BY <1>4, <1>A DEF RefuseFrame, controlVars, sessionVars
  <1>5. ASSUME NEW s \in Socket, Close(s) PROVE PollInv'
    BY <1>5, <1>A DEF Close, sessionVars
  <1>6. ASSUME NEW s \in Socket, NEW caps \in Capabilities, Hello(s, caps)
         PROVE  PollInv'
    BY <1>6, <1>A DEF Hello, controlVars, sessionVars
  <1>7. ASSUME NEW s \in Socket, NEW sub \in Subscribes, Subscribe(s, sub)
         PROVE  PollInv'
    BY <1>7, <1>A DEF Subscribe, controlVars, sessionVars
  <1>8. ASSUME NEW s \in Socket, NEW m \in Messages, Event(s, m) PROVE PollInv'
    BY <1>8, <1>A DEF Event, controlVars, sessionVars
  <1>9. ASSUME NEW s \in Socket, NEW m \in Messages, Screenshot(s, m) PROVE PollInv'
    BY <1>9, <1>A DEF Screenshot, controlVars, sessionVars
  <1>10. ASSUME NEW s \in Socket, NEW r \in Request, BridgeRequest(s, r) PROVE PollInv'
    <2>1. /\ UNCHANGED queue /\ asker[r] = None /\ asker' = [asker EXCEPT ![r] = s]
          /\ \E to \in SUBSET Socket : held' = held \cup {<<r, c>> : c \in to}
      BY <1>10 DEF BridgeRequest, Recipients, Open, sessionVars, MemberTypes
    <2> QED
      BY <2>1, ConstantsAssumption DEF PollInv, PolledOnce, ControlTypes
  <1>11. ASSUME NEW s \in Socket, NEW r \in Request, ConsumerRequest(s, r)
         PROVE  PollInv'
    BY <1>11, AskPolled DEF ConsumerRequest
  <1>12. ASSUME NEW s \in Socket, NEW r \in Request, ControlResult(s, r) PROVE PollInv'
    <2>1. UNCHANGED <<asker, queue>> /\ held' \subseteq held
      BY <1>12 DEF ControlResult, Reply, sessionVars
    <2> QED
      BY <2>1 DEF PollInv, PolledOnce
  <1>13. ASSUME NEW h \in Session, HttpConnect(h) PROVE PollInv'
    <2>1. UNCHANGED <<asker, held>> /\ queue' = [queue EXCEPT ![h] = <<>>]
      BY <1>13 DEF HttpConnect, controlVars
    <2> QED
      BY <2>1 DEF PollInv, PolledOnce, SessionTypes
  <1>14. ASSUME NEW h \in Session, HttpPoll(h) PROVE PollInv'
    <2>1. /\ UNCHANGED asker /\ queue' = [queue EXCEPT ![h] = <<>>]
          /\ held' = held \cup {<<queue[h][i], h>> : i \in DOMAIN queue[h]}
          /\ DOMAIN queue[h] = 1 .. Len(queue[h])
      BY <1>14 DEF HttpPoll, SessionTypes
    <2> QED
      BY <2>1 DEF PollInv, PolledOnce, SessionTypes
  <1>15. ASSUME NEW h \in Session, HttpHeartbeat(h) PROVE PollInv'
    BY <1>15, <1>A DEF HttpHeartbeat, controlVars, sessionVars
  <1>16. ASSUME NEW h \in Session, HttpDisconnect(h) PROVE PollInv'
    <2>1. RemoveSessions({h})
      BY <1>16 DEF HttpDisconnect
    <2> QED
      BY <2>1, RemovePolled
  <1>17. ASSUME NEW h \in Session, NEW caps \in Capabilities, HttpHello(h, caps)
         PROVE  PollInv'
    BY <1>17, <1>A DEF HttpHello, controlVars, sessionVars
  <1>18. ASSUME NEW h \in Session, NEW m \in Messages, HttpEvents(h, m) PROVE PollInv'
    BY <1>18, <1>A DEF HttpEvents, controlVars, sessionVars
  <1>19. ASSUME NEW h \in Session, NEW r \in Request, HttpControlResult(h, r)
         PROVE  PollInv'
    <2>1. UNCHANGED <<asker, queue>> /\ held' \subseteq held
      BY <1>19 DEF HttpControlResult, Reply, sessionVars
    <2> QED
      BY <2>1 DEF PollInv, PolledOnce
  <1>20. CASE Prune
    <2>1. RemoveSessions({h \in Live : lastSeen[h] > StaleAfter})
      BY <1>20 DEF Prune
    <2> QED
      BY <2>1, RemovePolled
  <1>21. CASE Tick
    BY <1>21, <1>A DEF Tick, controlVars, sessionVars
  <1>22. CASE UNCHANGED vars
    BY <1>22, <1>A DEF vars, controlVars, sessionVars
  <1> QED
    BY <1>1, <1>2, <1>3, <1>4, <1>5, <1>6, <1>7, <1>8, <1>9, <1>10, <1>11, <1>12,
       <1>13, <1>14, <1>15, <1>16, <1>17, <1>18, <1>19, <1>20, <1>21, <1>22
      DEF Next, SocketNext, SessionNext

\* No command is queued for a session that has polled it, nor queued twice: the poll takes
\* what it returns out of the queue, whatever is asked in between.
THEOREM CommandsPolledOnce == Spec => []PolledOnce
  <1>1. Init => PollInv
    <2> SUFFICES ASSUME Init PROVE PollInv
      OBVIOUS
    <2>1. \A h \in Session : Len(queue[h]) = 0
      BY EmptySeq DEF Init
    <2> QED
      BY <2>1 DEF Init, PollInv, PolledOnce
  <1>2. TypeOK /\ PollInv /\ [Next]_vars => PollInv'
    BY PollStep
  <1>3. PollInv => PolledOnce
    BY DEF PollInv
  <1> QED
    BY <1>1, <1>2, <1>3, TypeCorrect, PTL DEF Spec

-----------------------------------------------------------------------------
(* The overload guard.                                                     *)

\* A connection has the role its client asked for, and the guard has counted each frame
\* at most once for each consumer there can be.
GuardInv ==
  /\ \A s \in Socket : role[s] \in {"none", RoleOf[s]}
  /\ windowCount <= arrived * Cardinality(ConsumerSockets)

LEMMA Products ==
  ASSUME NEW a \in Nat, NEW n \in Nat
  PROVE  /\ a * n \in Nat
         /\ (a + 1) * n = a * n + n
         /\ 1 * n = n
         /\ n = 0 => a * n = 0
         /\ n # 0 => a <= a * n
  <1>1. a * n \in Nat /\ (a + 1) * n = a * n + n /\ 1 * n = n /\ (n = 0 => a * n = 0)
    BY SMT
  <1>2. ASSUME n # 0 PROVE a <= a * n
    <2>1. PICK k \in Nat : n = k + 1
      <3>1. n - 1 \in Nat /\ n = (n - 1) + 1
        BY <1>2
      <3> QED
        BY <3>1
    <2>2. a * n = a * k + a /\ a * k \in Nat
      BY <2>1, SMT
    <2> QED
      BY <2>2
  <1> QED
    BY <1>1, <1>2

\* The consumers a frame is counted for are among those there can be.
LEMMA CountedConsumers ==
  ASSUME TypeOK, MembersConnected, GuardInv
  PROVE  /\ Cardinality(Counted) \in Nat /\ Cardinality(ConsumerSockets) \in Nat
         /\ Cardinality(Counted) <= Cardinality(ConsumerSockets)
         /\ \A order \in Orders : \A c \in Counted :
              order[c] \in Nat /\ order[c] <= Cardinality(Counted)
  <1>1. IsFiniteSet(ConsumerSockets) /\ Counted \subseteq ConsumerSockets
    <2>1. ConsumerSockets \subseteq Socket
      BY DEF ConsumerSockets
    <2>2. Counted \subseteq ConsumerSockets
      BY DEF GuardInv, MembersConnected, Counted, Open, TypeOK, MemberTypes, ConsumerSockets
    <2> QED
      BY <2>1, <2>2, ConstantsAssumption, FS_Subset
  <1>2. /\ IsFiniteSet(Counted)
        /\ Cardinality(Counted) <= Cardinality(ConsumerSockets)
    BY <1>1, FS_Subset
  <1>3. Cardinality(Counted) \in Nat /\ Cardinality(ConsumerSockets) \in Nat
    BY <1>1, <1>2, FS_CardinalityType
  <1>4. ASSUME NEW order \in Orders, NEW c \in Counted
        PROVE  order[c] \in Nat /\ order[c] <= Cardinality(Counted)
    <2>1. order[c] \in 1 .. Cardinality(Counted)
      BY DEF Orders
    <2> QED
      BY <1>3, <2>1
  <1> QED
    BY <1>2, <1>3, <1>4

\* A frame adds no more to the count than it adds to the bound.
LEMMA FrameCounted ==
  ASSUME TypeOK, MembersConnected, GuardInv, CountFrame
  PROVE  /\ windowCount' <= arrived' * Cardinality(ConsumerSockets)
         /\ arrived' * Cardinality(ConsumerSockets) <= WindowLimit
              => CountBase + Cardinality(Counted) <= WindowLimit
  <1> DEFINE N == Cardinality(ConsumerSockets)
             K == Cardinality(Counted)
  <1>1. /\ windowCount \in Nat /\ arrived \in Nat /\ WindowLimit \in Nat
        /\ windowCount <= arrived * N
    BY Limits DEF TypeOK, RateTypes, GuardInv
  <1>2. K \in Nat /\ N \in Nat /\ K <= N
    BY CountedConsumers
  <1>3. windowCount' = Capped(CountBase + K, WindowLimit + 1)
    BY DEF CountFrame
  <1>4. CASE NewWindow
    <2>1. CountBase = 0 /\ arrived' = 1
      BY <1>1, <1>4 DEF CountFrame, CountBase, Capped
    <2>2. 1 * N = N
      BY <1>2, Products
    <2> QED
      BY <1>1, <1>2, <1>3, <2>1, <2>2 DEF Capped
  <1>5. CASE ~NewWindow
    <2>1. CountBase = windowCount /\ arrived' = Capped(arrived + 1, WindowLimit + 1)
      BY <1>5 DEF CountFrame, CountBase
    <2>2. arrived * N \in Nat /\ (arrived + 1) * N = arrived * N + N
      BY <1>1, <1>2, Products
    <2>3. CASE arrived' = arrived + 1
      <3>1. arrived' * N = arrived * N + N
        BY <2>2, <2>3
      <3> QED
        BY <1>1, <1>2, <1>3, <2>1, <2>2, <3>1 DEF Capped
    <2>4. CASE arrived' = WindowLimit + 1 /\ N # 0
      <3>1. WindowLimit + 1 <= (WindowLimit + 1) * N /\ (WindowLimit + 1) * N \in Nat
        BY <1>1, <1>2, <2>4, Products
      <3>2. arrived' * N = (WindowLimit + 1) * N
        BY <2>4
      <3> QED
        BY <1>1, <1>2, <1>3, <2>1, <3>1, <3>2 DEF Capped
    <2>5. CASE N = 0
      <3>1. arrived' \in Nat
        BY <1>1, <2>1 DEF Capped
      <3>2. arrived * N = 0 /\ arrived' * N = 0
        BY <1>1, <1>2, <2>5, <3>1, Products
      <3> QED
        BY <1>1, <1>2, <1>3, <2>1, <2>5, <3>2 DEF Capped
    <2> QED
      BY <1>1, <2>1, <2>3, <2>4, <2>5 DEF Capped
  <1> QED
    BY <1>4, <1>5

LEMMA GuardStep ==
  ASSUME TypeOK, MembersConnected, GuardInv, [Next]_vars
  PROVE  GuardInv'
  <1> SocketTypes
    BY DEF TypeOK
  <1> USE DEF SocketTypes
  <1>A. CASE UNCHANGED <<role, windowCount, arrived>>
    BY <1>A DEF GuardInv
  <1>B. CASE UNCHANGED role /\ CountFrame
    BY <1>B, FrameCounted DEF GuardInv
  <1>1. ASSUME NEW s \in Socket, Connect(s) \/ AuthTimeoutFires(s) \/ RefuseFrame(s) PROVE GuardInv'
    BY <1>1, <1>A DEF Connect, AuthTimeoutFires, RefuseFrame, rateVars
  <1>2. ASSUME NEW s \in Socket, Authenticate(s) PROVE GuardInv'
    BY <1>2, ConstantsAssumption DEF Authenticate, rateVars, GuardInv
  <1>3. ASSUME NEW s \in Socket, Close(s) PROVE GuardInv'
    BY <1>3 DEF Close, ForgetBridges, GuardInv
  <1>4. ASSUME NEW s \in Socket, NEW caps \in Capabilities, Hello(s, caps) PROVE GuardInv'
    BY <1>4, <1>A DEF Hello, socketVars, rateVars
  <1>5. ASSUME NEW s \in Socket, NEW sub \in Subscribes, Subscribe(s, sub) PROVE GuardInv'
    BY <1>5, <1>A DEF Subscribe, socketVars, rateVars
  <1>6. ASSUME NEW s \in Socket, NEW m \in Messages, Event(s, m) \/ Screenshot(s, m)
        PROVE  GuardInv'
    BY <1>6, <1>B DEF Event, Screenshot, socketVars
  <1>7. ASSUME NEW s \in Socket, NEW r \in Request, BridgeRequest(s, r) PROVE GuardInv'
    BY <1>7, <1>B DEF BridgeRequest, socketVars
  <1>8. ASSUME NEW s \in Socket, NEW r \in Request, ConsumerRequest(s, r) \/ ControlResult(s, r)
        PROVE  GuardInv'
    BY <1>8, <1>A DEF ConsumerRequest, ControlResult, socketVars, rateVars
  <1>9. ASSUME NEW h \in Session, HttpConnect(h) \/ HttpPoll(h) \/ HttpHeartbeat(h)
        PROVE  GuardInv'
    BY <1>9, <1>A DEF HttpConnect, HttpPoll, HttpHeartbeat, socketVars, rateVars
  <1>10. ASSUME NEW gone, RemoveSessions(gone) PROVE GuardInv'
    BY <1>10, <1>A DEF RemoveSessions, ForgetBridges, socketVars
  <1>11. ASSUME NEW h \in Session, NEW caps \in Capabilities, HttpHello(h, caps) PROVE GuardInv'
    BY <1>11, <1>A DEF HttpHello, socketVars, rateVars
  <1>12. ASSUME NEW h \in Session, NEW m \in Messages, HttpEvents(h, m) PROVE GuardInv'
    BY <1>12, <1>B DEF HttpEvents, socketVars
  <1>13. ASSUME NEW h \in Session, NEW r \in Request, HttpControlResult(h, r) PROVE GuardInv'
    BY <1>13, <1>A DEF HttpControlResult, socketVars, rateVars
  <1>14. CASE Tick \/ UNCHANGED vars
    BY <1>14, <1>A DEF Tick, vars, socketVars, rateVars
  <1> QED
    BY <1>1, <1>2, <1>3, <1>4, <1>5, <1>6, <1>7, <1>8, <1>9, <1>10, <1>11, <1>12, <1>13, <1>14
      DEF Next, SocketNext, SessionNext, HttpDisconnect, Prune

\* Only frames of bridges that the guard counts are routed.
LEMMA RoutedCounted ==
  ASSUME Next, routed' # None
  PROVE  /\ CountFrame
         /\ \E b, m : \E order \in Orders : Routed(b, m, Recipients(b, m, order))
  <1>R. routed' # None
    OBVIOUS
  <1>1. ASSUME NEW s \in Socket, NEW m \in Messages, Event(s, m) \/ Screenshot(s, m)
        PROVE  /\ CountFrame
               /\ \E order \in Orders : Routed(s, m, Recipients(s, m, order))
    BY <1>1 DEF Event, Screenshot
  <1>2. ASSUME NEW h \in Session, NEW m \in Messages, HttpEvents(h, m)
        PROVE  /\ CountFrame
               /\ \E msg : \E order \in Orders : Routed(h, msg, Recipients(h, msg, order))
    BY <1>2 DEF HttpEvents
  <1>3. \/ \E s \in Socket, m \in Messages : Event(s, m) \/ Screenshot(s, m)
        \/ \E h \in Session, m \in Messages : HttpEvents(h, m)
    <2>1. ASSUME NEW s \in Socket, SocketNext(s)
          PROVE  \E m \in Messages : Event(s, m) \/ Screenshot(s, m)
      BY <1>R, <2>1 DEF SocketNext, Connect, AuthTimeoutFires, Authenticate, RefuseFrame, Close,
             Hello, Subscribe, BridgeRequest, ConsumerRequest, ControlResult
    <2>2. ASSUME NEW h \in Session, SessionNext(h)
          PROVE  \E m \in Messages : HttpEvents(h, m)
      BY <1>R, <2>2 DEF SessionNext, HttpConnect, HttpPoll, HttpHeartbeat, HttpDisconnect,
             RemoveSessions, HttpHello, HttpControlResult
    <2>3. ~Prune /\ ~Tick
      BY <1>R DEF Prune, RemoveSessions, Tick
    <2> QED
      BY <2>1, <2>2, <2>3 DEF Next
  <1> QED
    BY <1>1, <1>2, <1>3

\* The guard withholds nothing while the frames in the window, events and control requests
\* of bridges alike, times the consumers there can be, stay within WINDOW_LIMIT, and never
\* an error: for any number of consumers, whatever connects, subscribes and closes.
THEOREM GuardCounts == Spec => GuardWithinBounds
  <1> DEFINE Within ==
        /\ routed' # None
        /\ \/ arrived' * Cardinality(ConsumerSockets) <= WindowLimit
           \/ routed'.message.level = "error"
        => \A c \in Open :
             ShouldRoute(consumerSubscriptions[c], routed'.message,
                         bridgeCapabilities[routed'.from], FALSE)
               => c \in routed'.to
  <1>1. Init => GuardInv
    <2>1. ConsumerSockets \subseteq Socket
      BY DEF ConsumerSockets
    <2>2. Cardinality(ConsumerSockets) \in Nat
      BY <2>1, ConstantsAssumption, FS_Subset, FS_CardinalityType
    <2>3. 0 * Cardinality(ConsumerSockets) = 0
      BY <2>2, SMT
    <2> QED
      BY <2>3 DEF Init, GuardInv
  <1>2. TypeOK /\ MembersConnected /\ GuardInv /\ [Next]_vars => GuardInv'
    BY GuardStep
  <1>3. ASSUME TypeOK, MembersConnected, GuardInv, Next, routed' # None,
               \/ arrived' * Cardinality(ConsumerSockets) <= WindowLimit
               \/ routed'.message.level = "error",
               NEW c \in Open,
               ShouldRoute(consumerSubscriptions[c], routed'.message,
                           bridgeCapabilities[routed'.from], FALSE)
        PROVE  c \in routed'.to
    <2>1. PICK b, m : \E order \in Orders : Routed(b, m, Recipients(b, m, order))
      BY <1>3, RoutedCounted
    <2>2. PICK order \in Orders : Routed(b, m, Recipients(b, m, order))
      BY <2>1
    <2>3. routed'.from = b /\ routed'.message = m /\ routed'.to = Recipients(b, m, order)
      BY <2>2 DEF Routed
    <2>4. CASE m.level = "error"
      BY <1>3, <2>3, <2>4 DEF Recipients, ShouldRoute, FilterAllows, Overloaded
    <2>5. CASE arrived' * Cardinality(ConsumerSockets) <= WindowLimit
      <3>1. CountBase + Cardinality(Counted) <= WindowLimit
        BY <1>3, <2>5, FrameCounted, RoutedCounted
      <3>2. CountBase \in Nat /\ WindowLimit \in Nat
        BY <1>3, Limits DEF CountBase, TypeOK, RateTypes
      <3>3. Overloaded(c, order) = FALSE
        BY <1>3, <3>1, <3>2, CountedConsumers DEF Overloaded
      <3> QED
        BY <1>3, <2>3, <3>3 DEF Recipients
    <2> QED
      BY <1>3, <2>3, <2>4, <2>5
  <1>4. TypeOK /\ MembersConnected /\ GuardInv /\ [Next]_vars => [Within]_vars
    BY <1>3
  <1> QED
    BY <1>1, <1>2, <1>4, TypeCorrect, OnlyConnectedMembers, PTL DEF Spec, GuardWithinBounds

=============================================================================
