------------------------ MODULE InstrumentationProofs ------------------------
(***************************************************************************)
(* Theorems about Instrumentation: for any number of bridges, requests and *)
(* URLs, on every platform, and every order in which the program starts    *)
(* and disconnects bridges.                                                *)
(***************************************************************************)
EXTENDS Instrumentation, FiniteSetTheorems, TLAPS

-----------------------------------------------------------------------------
(* Types.                                                                  *)

LEMMA InitTyped == Init => TypeOK
  BY ConstantsAssumption DEF Init, TypeOK, Unpatched, Unsent

LEMMA TypeStep == TypeOK /\ [Next]_vars => TypeOK'
  <1> SUFFICES ASSUME TypeOK, [Next]_vars PROVE TypeOK'
    OBVIOUS
  <1> USE ConstantsAssumption
  <1>1. ASSUME NEW i \in Bridge, Start(i) PROVE TypeOK'
    <2>1. network' \in [patched : BOOLEAN, count : Nat, sinks : SUBSET Bridge]
      <3>1. network.count + 1 \in Nat /\ network.sinks \cup {i} \subseteq Bridge
        BY DEF TypeOK
      <3>2. \/ network' = network
            \/ network' = [patched |-> TRUE, count |-> network.count + 1,
                           sinks |-> network.sinks \cup {i}]
        BY <1>1 DEF Start, Attach
      <3>3. network \in [patched : BOOLEAN, count : Nat, sinks : SUBSET Bridge]
        BY DEF TypeOK
      <3>4. [patched |-> TRUE, count |-> network.count + 1, sinks |-> network.sinks \cup {i}]
              \in [patched : BOOLEAN, count : Nat, sinks : SUBSET Bridge]
        <4> HIDE <1>1
        <4> QED
          BY <3>1
      <3> QED
        BY <3>2, <3>3, <3>4
    <2>2. patched' \in [Hook -> SUBSET Bridge]
      BY <1>1 DEF TypeOK, Start
    <2>3. original' \in [Bridge -> [Hook -> SUBSET Bridge]]
      BY <1>1 DEF TypeOK, Start
    <2>4. under' \in [Bridge -> SUBSET Bridge]
      BY <1>1 DEF TypeOK, Start, Connected
    <2> QED
      BY <1>1, <2>1, <2>2, <2>3, <2>4 DEF TypeOK, Start, requestVars
  <1>2. ASSUME NEW i \in Bridge, Disconnect(i) PROVE TypeOK'
    <2>1. network' \in [patched : BOOLEAN, count : Nat, sinks : SUBSET Bridge]
      <3> DEFINE fewer == IF network.count > 0 THEN network.count - 1 ELSE 0
      <3>1. fewer \in Nat /\ network.sinks \ {i} \subseteq Bridge
        BY DEF TypeOK
      <3>2. \/ network' = network \/ network' = Unpatched
            \/ network' = [network EXCEPT !.count = fewer, !.sinks = network.sinks \ {i}]
        BY <1>2 DEF Disconnect, Detach
      <3> HIDE DEF fewer
      <3>3. Unpatched \in [patched : BOOLEAN, count : Nat, sinks : SUBSET Bridge]
        BY DEF Unpatched
      <3> QED
        BY <3>1, <3>2, <3>3 DEF TypeOK
    <2> QED
      BY <1>2, <2>1 DEF TypeOK, Disconnect, Restore, pageVars, requestVars
  <1>3. ASSUME NEW u \in Url, PushState(u) PROVE TypeOK'
    BY <1>3 DEF TypeOK, PushState, See, hookVars, requestVars, recordVars
  <1>4. ASSUME NEW u \in Url, Traverse(u) PROVE TypeOK'
    BY <1>4 DEF TypeOK, Traverse, hookVars, requestVars, recordVars
  <1>5. ASSUME HandleNavigation PROVE TypeOK'
    BY <1>5 DEF TypeOK, HandleNavigation, See, hookVars, requestVars, recordVars
  <1>6. ASSUME NEW r \in Request, NEW kind \in Kinds, Send(r, kind) PROVE TypeOK'
    <2>1. kind \in {"none", "fetch", "xhr", "http"}
      BY <1>6 DEF Kinds, TypeOK
    <2>2. Wrappers \subseteq Bridge /\ Attached \subseteq Bridge
      BY DEF Wrappers, TypeOK, Hook, Attached, Connected
    <2> QED
      BY <1>6, <2>1, <2>2 DEF TypeOK, Send, hookVars, pageVars
  <1>7. ASSUME NEW r \in Request, NEW e \in {"end", "error"}, Signal(r, e) PROVE TypeOK'
    <2>1. request' \in [Request -> [kind : {"none", "fetch", "xhr", "http"},
                                   via : SUBSET Bridge, signals : SUBSET {"end", "error"}]]
      <3>1. request[r].signals \cup {e} \subseteq {"end", "error"}
        BY DEF TypeOK
      <3>2. request' = [request EXCEPT ![r] = [request[r] EXCEPT !.signals = @ \cup {e}]]
        BY <1>7 DEF Signal
      <3>3. request[r] \in [kind : {"none", "fetch", "xhr", "http"}, via : SUBSET Bridge,
                            signals : SUBSET {"end", "error"}]
        BY DEF TypeOK
      <3>4. [request[r] EXCEPT !.signals = @ \cup {e}]
              \in [kind : {"none", "fetch", "xhr", "http"}, via : SUBSET Bridge,
                  signals : SUBSET {"end", "error"}]
        BY <3>1, <3>3
      <3> QED
        BY <3>2, <3>4 DEF TypeOK
    <2>2. reported' \in [Bridge -> [Request -> Nat]]
      <3>1. \A i \in Bridge : [reported[i] EXCEPT ![r] = @ + 1] \in [Request -> Nat]
        BY DEF TypeOK
      <3> QED
        BY <1>7, <3>1 DEF TypeOK, Signal
    <2> QED
      BY <1>7, <2>1, <2>2 DEF TypeOK, Signal, hookVars, pageVars, recordVars
  <1>8. CASE UNCHANGED vars
    BY <1>8 DEF TypeOK, vars, hookVars, pageVars, requestVars, recordVars
  <1> QED
    BY <1>1, <1>2, <1>3, <1>4, <1>5, <1>6, <1>7, <1>8 DEF Next

\* Every variable of the instrumentation keeps its type, the sink counter included.
THEOREM TypeCorrect == Spec => []TypeOK
  BY InitTyped, TypeStep, PTL DEF Spec

-----------------------------------------------------------------------------
(* Steps that neither start nor disconnect a bridge.                       *)

\* They leave the hooks, the shared patch and the set of connected bridges alone.
LEMMA HooksStay ==
  ASSUME TypeOK, [Next]_vars,
         \A i \in Bridge : ~Start(i) /\ ~Disconnect(i)
  PROVE  UNCHANGED <<platform, phase, hookVars, under, orderly, again>>
  BY DEF Next, PushState, Traverse, HandleNavigation, Send, Signal, vars, hookVars, pageVars,
         requestVars, recordVars

-----------------------------------------------------------------------------
(* Wrappers: bridges disconnected in order are totally ordered by under,   *)
(* and each saved what goes through the bridges under it.                  *)

Stacked ==
  /\ \A i \in Connected : under[i] \subseteq Connected \ {i}
  /\ \A i, j \in Connected : i = j \/ i \in under[j] \/ j \in under[i]
  /\ \A i \in Connected : \A g \in Hook :
       original[i][g] = {j \in under[i] : Takes(j, g)}

HookInv == TypeOK /\ CapturesConnected /\ (orderly => Stacked)

LEMMA HookInitial == Init => HookInv
  BY InitTyped DEF Init, HookInv, CapturesConnected, Connected, Stacked

LEMMA HookStep == HookInv /\ [Next]_vars => HookInv'
  <1> SUFFICES ASSUME HookInv, [Next]_vars PROVE HookInv'
    OBVIOUS
  <1>0. TypeOK /\ TypeOK'
    BY TypeStep DEF HookInv
  <1>1. ASSUME NEW i \in Bridge, Start(i) PROVE HookInv'
    <2>1. Connected' = Connected \cup {i} /\ i \notin Connected
      BY <1>0, <1>1 DEF Start, Connected, TypeOK
    <2>2. \A j \in Bridge, g \in Hook : Takes(j, g)' <=> Takes(j, g)
      BY <1>1 DEF Start, Takes
    <2>3. CapturesConnected'
      <3>1. listening' = IF Listens' THEN Connected' ELSE {}
        BY <1>1, <2>1 DEF HookInv, CapturesConnected, Start, Listens
      <3>2. ASSUME orderly, NEW g \in Hook
            PROVE  patched'[g] = {j \in Connected' : Takes(j, g)'}
        BY <1>0, <1>1, <2>1, <2>2, <3>2
           DEF HookInv, CapturesConnected, Start, Connected
      <3> QED
        BY <1>1, <3>1, <3>2 DEF CapturesConnected, Start
    <2>4. ASSUME orderly PROVE Stacked'
      <3>1. /\ under' = [under EXCEPT ![i] = Connected]
            /\ original' = [original EXCEPT ![i] = patched]
        BY <1>1 DEF Start
      <3>2. \A j \in Connected' : under'[j] = IF j = i THEN Connected ELSE under[j]
        BY <1>0, <2>1, <3>1 DEF TypeOK, Connected
      <3>3. \A j \in Connected' : original'[j] = IF j = i THEN patched ELSE original[j]
        BY <1>0, <2>1, <3>1 DEF TypeOK, Connected
      <3>4. \A j \in Connected' : under'[j] \subseteq Connected' \ {j}
        BY <2>1, <2>4, <3>2 DEF HookInv, Stacked
      <3>5. \A j, k \in Connected' : j = k \/ j \in under'[k] \/ k \in under'[j]
        BY <2>1, <2>4, <3>2 DEF HookInv, Stacked
      <3>6. ASSUME NEW j \in Connected', NEW g \in Hook
            PROVE  original'[j][g] = {k \in under'[j] : Takes(k, g)'}
        <4>1. under'[j] \subseteq Bridge
          BY <1>0, <3>6 DEF TypeOK, Connected
        <4>2. CASE j = i
          BY <2>2, <2>4, <3>2, <3>3, <3>6, <4>1, <4>2 DEF HookInv, CapturesConnected
        <4>3. CASE j # i
          <5>1. j \in Connected
            BY <2>1, <4>3
          <5> QED
            BY <2>2, <2>4, <3>2, <3>3, <3>6, <4>1, <4>3, <5>1 DEF HookInv, Stacked
        <4> QED
          BY <4>2, <4>3
      <3> QED
        BY <3>4, <3>5, <3>6 DEF Stacked
    <2> QED
      BY <1>0, <1>1, <2>3, <2>4 DEF HookInv, Start
  <1>2. ASSUME NEW i \in Bridge, Disconnect(i) PROVE HookInv'
    <2>1. Connected' = Connected \ {i}
      BY <1>0, <1>2 DEF Disconnect, Connected, TypeOK
    <2>2. \A j \in Bridge, g \in Hook : Takes(j, g)' <=> Takes(j, g)
      BY <1>2 DEF Disconnect, Takes
    <2>3. listening' = IF Listens' THEN Connected' ELSE {}
      BY <1>2, <2>1 DEF HookInv, CapturesConnected, Disconnect, Listens
    <2>4. ASSUME orderly' PROVE orderly /\ i \in Connected /\ under[i] = Connected'
      <3>1. orderly /\ i \in Connected /\ Latest(i)
        BY <1>2, <2>4 DEF Disconnect, Connected
      <3> QED
        BY <2>1, <3>1 DEF HookInv, Stacked, Latest
    <2>5. ASSUME orderly', NEW g \in Hook
          PROVE  patched'[g] = {j \in Connected' : Takes(j, g)'}
      <3>1. patched'[g] = IF Takes(i, g) THEN original[i][g] ELSE patched[g]
        BY <1>2 DEF Disconnect, Restore
      <3>2. Connected' \subseteq Bridge
        BY DEF Connected
      <3>3. CASE Takes(i, g)
        BY <2>2, <2>4, <2>5, <3>1, <3>2, <3>3 DEF HookInv, Stacked
      <3>4. CASE ~Takes(i, g)
        BY <2>1, <2>2, <2>4, <2>5, <3>1, <3>2, <3>4 DEF HookInv, CapturesConnected
      <3> QED
        BY <3>3, <3>4
    <2>6. ASSUME orderly' PROVE Stacked'
      <3>1. UNCHANGED <<under, original>>
        BY <1>2 DEF Disconnect
      <3>2. \A j \in Connected' : i \notin under[j]
        BY <1>2, <2>1, <2>6 DEF Disconnect, Latest
      <3>3. \A j \in Connected' : under[j] \subseteq Bridge
        BY <1>0 DEF TypeOK, Connected
      <3> QED
        BY <2>1, <2>2, <2>4, <2>6, <3>1, <3>2, <3>3 DEF HookInv, Stacked
    <2> QED
      BY <1>0, <2>3, <2>5, <2>6 DEF HookInv, CapturesConnected
  <1>3. CASE \A i \in Bridge : ~Start(i) /\ ~Disconnect(i)
    <2>1. UNCHANGED <<platform, phase, patched, original, listening, under, orderly>>
      BY <1>0, <1>3, HooksStay DEF hookVars
    <2>2. Connected' = Connected
      BY <2>1 DEF Connected
    <2>3. \A j \in Bridge, g \in Hook : Takes(j, g)' <=> Takes(j, g)
      BY <2>1 DEF Takes
    <2>4. CapturesConnected'
      BY <2>1, <2>2, <2>3 DEF HookInv, CapturesConnected, Connected, Listens
    <2>5. orderly => Stacked'
      <3>1. \A j \in Connected : under[j] \subseteq Bridge
        BY <1>0 DEF TypeOK, Connected
      <3> QED
        BY <2>1, <2>2, <2>3, <3>1 DEF HookInv, Stacked
    <2> QED
      BY <1>0, <2>1, <2>4, <2>5 DEF HookInv
  <1> QED
    BY <1>1, <1>2, <1>3

LEMMA HookInvariant == Spec => []HookInv
  BY HookInitial, HookStep, PTL DEF Spec

\* However bridges are started, and disconnected in the reverse order, nobody is deaf and
\* no stopped bridge still captures: on every platform, for any number of bridges.
THEOREM WrappersOfConnected == Spec => []CapturesConnected
  <1>1. HookInv => CapturesConnected
    BY DEF HookInv
  <1> QED
    BY <1>1, HookInvariant, PTL

-----------------------------------------------------------------------------
(* The shared patch of a Node process.                                     *)

LEMMA AttachedOnNode ==
  ASSUME platform = "node"
  PROVE  Attached = Connected \cap Networking
  BY ConstantsAssumption DEF Attached, Attaches, Takes, Connected

\* Whatever the order of disconnects, and repeated ones included, no sink is left of a
\* bridge that is not connected.
SinksConnected ==
  platform = "node" => /\ network.sinks \subseteq Attached
                       /\ ~network.patched => network.sinks = {}

SinkInv == TypeOK /\ SinksConnected /\ SinksExact

LEMMA SinkInitial == Init => SinkInv
  <1> SUFFICES ASSUME Init PROVE SinkInv
    OBVIOUS
  <1>1. Attached = {}
    BY DEF Init, Attached, Connected
  <1> QED
    BY <1>1, InitTyped, FS_EmptySet DEF Init, Unpatched, SinkInv, SinksConnected, SinksExact

LEMMA SinkStart ==
  ASSUME SinkInv, platform = "node", NEW i \in Bridge, Start(i)
  PROVE  SinksConnected' /\ SinksExact'
  <1>0. TypeOK /\ TypeOK' /\ platform' = "node"
    BY TypeStep DEF SinkInv, Start, Next
  <1>1. Connected' = Connected \cup {i} /\ i \notin Connected
    BY <1>0 DEF Start, Connected, TypeOK
  <1>2. Attached' = Connected' \cap Networking
    BY <1>0, AttachedOnNode DEF Attached, Attaches, Takes, Connected
  <1>3. Attached = Connected \cap Networking
    BY AttachedOnNode
  <1>4. CASE i \in Networking
    <2>1. Attached' = Attached \cup {i} /\ i \notin Attached
      BY <1>1, <1>2, <1>3, <1>4
    <2>2. network' = [patched |-> TRUE, count |-> network.count + 1,
                      sinks |-> network.sinks \cup {i}]
      BY <1>4 DEF Start, Attach, Attaches
    <2>3. Cardinality(Attached') = Cardinality(Attached) + 1
      <3>1. IsFiniteSet(Attached)
        BY ConstantsAssumption, FS_Subset DEF Attached, Connected
      <3> QED
        BY <2>1, <3>1, FS_AddElement
    <2> QED
      BY <2>1, <2>2, <2>3 DEF SinkInv, SinksConnected, SinksExact, Start
  <1>5. CASE i \notin Networking
    <2>1. Attached' = Attached /\ network' = network
      BY <1>1, <1>2, <1>3, <1>5 DEF Start, Attaches
    <2> QED
      BY <2>1 DEF SinkInv, SinksConnected, SinksExact, Start
  <1> QED
    BY <1>4, <1>5

LEMMA SinkDisconnect ==
  ASSUME SinkInv, platform = "node", NEW i \in Bridge, Disconnect(i)
  PROVE  SinksConnected' /\ SinksExact'
  <1>0. TypeOK /\ platform' = "node"
    BY DEF SinkInv, Disconnect
  <1>1. Connected' = Connected \ {i}
    BY <1>0 DEF Disconnect, Connected, TypeOK
  <1>2. Attached' = Connected' \cap Networking
    BY <1>0, AttachedOnNode DEF Attached, Attaches, Takes, Connected
  <1>3. Attached = Connected \cap Networking
    BY AttachedOnNode
  <1>4. Attached' = Attached \ {i}
    BY <1>1, <1>2, <1>3
  <1>5. CASE i \in Networking /\ network.patched
    <2> DEFINE fewer == IF network.count > 0 THEN network.count - 1 ELSE 0
    <2>1. network' = IF fewer = 0 \/ network.sinks \ {i} = {} THEN Unpatched
                     ELSE [network EXCEPT !.count = fewer, !.sinks = network.sinks \ {i}]
      BY <1>0, <1>5 DEF Disconnect, Detach, Attaches
    <2>2. network \in [patched : BOOLEAN, count : Nat, sinks : SUBSET Bridge]
      BY <1>0 DEF TypeOK
    <2>3. network.sinks \subseteq Attached
      BY DEF SinkInv, SinksConnected
    <2>4. SinksConnected'
      BY <1>0, <1>4, <1>5, <2>1, <2>2, <2>3 DEF SinksConnected, Unpatched
    <2>5. ASSUME again' = {} PROVE SinksExact'
      <3>1. again = {} /\ i \in Connected
        BY <1>0, <2>5 DEF Disconnect, TypeOK, Connected
      <3>2. i \in Attached
        BY <1>3, <1>5, <3>1
      <3>3. network.sinks = Attached /\ network.count = Cardinality(Attached)
        BY <3>1 DEF SinkInv, SinksExact
      <3>4. IsFiniteSet(Attached)
        BY ConstantsAssumption, FS_Subset DEF Attached, Connected
      <3>5. /\ IsFiniteSet(Attached') /\ Cardinality(Attached') \in Nat
            /\ Cardinality(Attached') = Cardinality(Attached) - 1
            /\ Cardinality(Attached') = 0 <=> Attached' = {}
        BY <1>4, <3>2, <3>4, FS_RemoveElement, FS_CardinalityType, FS_EmptySet
      <3>6. fewer = Cardinality(Attached') /\ network.sinks \ {i} = Attached'
        BY <1>4, <2>2, <3>3, <3>5
      <3> HIDE DEF fewer
      <3>7. CASE Attached' = {}
        BY <2>1, <3>5, <3>6, <3>7 DEF SinksExact, Unpatched
      <3>8. CASE Attached' # {}
        BY <1>5, <2>1, <2>2, <3>5, <3>6, <3>8 DEF SinksExact
      <3> QED
        BY <3>7, <3>8
    <2> QED
      BY <2>4, <2>5 DEF SinksExact
  <1>6. CASE ~(i \in Networking /\ network.patched)
    <2>1. network' = network
      BY <1>0, <1>6 DEF Disconnect, Attaches
    <2>2. SinksConnected'
      BY <1>3, <1>4, <1>6, <2>1 DEF SinkInv, SinksConnected
    <2>3. ASSUME again' = {} PROVE Attached' = Attached /\ again = {}
      <3>1. again = {} /\ i \in Connected
        BY <1>0, <2>3 DEF Disconnect, TypeOK, Connected
      <3> QED
        BY <1>0, <1>3, <1>4, <1>6, <3>1 DEF SinkInv, SinksExact
    <2> QED
      BY <1>0, <2>1, <2>2, <2>3 DEF SinkInv, SinksExact
  <1> QED
    BY <1>5, <1>6

LEMMA SinkStep == SinkInv /\ [Next]_vars => SinkInv'
  <1> SUFFICES ASSUME SinkInv, [Next]_vars PROVE SinkInv'
    OBVIOUS
  <1>1. TypeOK /\ TypeOK'
    BY TypeStep DEF SinkInv
  <1>2. CASE \A i \in Bridge : ~Start(i) /\ ~Disconnect(i)
    <2>1. UNCHANGED <<platform, phase, network, again>>
      BY <1>1, <1>2, HooksStay DEF hookVars
    <2>2. Attached' = Attached
      BY <2>1 DEF Attached, Connected, Attaches, Takes
    <2> QED
      BY <1>1, <2>1, <2>2 DEF SinkInv, SinksConnected, SinksExact
  <1>3. CASE platform # "node"
    <2>1. platform' = platform
      BY <1>1, <1>2, HooksStay DEF Start, Disconnect
    <2> QED
      BY <1>1, <1>3, <2>1 DEF SinkInv, SinksConnected, SinksExact
  <1> QED
    BY <1>1, <1>2, <1>3, SinkStart, SinkDisconnect DEF SinkInv

LEMMA SinkInvariant == Spec => []SinkInv
  BY SinkInitial, SinkStep, PTL DEF Spec

\* The list, the counter and the patch agree with the attached bridges as long as nobody
\* is disconnected twice: in every order, and for any number of bridges.
THEOREM SinksAgree == Spec => []SinksExact
  <1>1. SinkInv => SinksExact
    BY DEF SinkInv
  <1> QED
    BY <1>1, SinkInvariant, PTL

\* A bridge that has been disconnected on Node reports nothing, also of requests in
\* flight and after repeated disconnects, because its sink has gone.
THEOREM SilentAfterStop == Spec => NodeSilentAfterStop
  <1>1. ASSUME SinkInv, [Next]_vars, NEW i \in Bridge, platform = "node", phase[i] = "stopped"
        PROVE  reported'[i] = reported[i]
    <2>1. i \notin network.sinks
      BY <1>1 DEF SinkInv, SinksConnected, Attached, Connected
    <2>2. ASSUME NEW r \in Request, NEW e \in {"end", "error"}, Signal(r, e)
          PROVE  reported'[i] = reported[i]
      BY <1>1, <2>1, <2>2 DEF Signal, Reporters
    <2>3. ASSUME \A r \in Request : \A e \in {"end", "error"} : ~Signal(r, e)
          PROVE  UNCHANGED reported
      BY <1>1, <2>3 DEF Next, Start, Disconnect, PushState, Traverse, HandleNavigation, Send,
                        vars, requestVars
    <2> QED
      BY <2>2, <2>3
  <1>2. SinkInv /\ [Next]_vars
          => [\A i \in Bridge : platform = "node" /\ phase[i] = "stopped"
                                  => reported'[i] = reported[i]]_vars
    BY <1>1
  <1> QED
    BY <1>2, SinkInvariant, PTL DEF Spec, NodeSilentAfterStop

-----------------------------------------------------------------------------
(* Navigation.                                                             *)

NavigationInv == HookInv /\ NavigationCaughtUp

LEMMA NavigationStep == NavigationInv /\ [Next]_vars => NavigationInv'
  <1> SUFFICES ASSUME NavigationInv, [Next]_vars,
                      platform' = "web", orderly', arriving' = 0,
                      NEW i \in (Connected \cap Navigating)'
               PROVE  lastUrl'[i] = url'
    BY HookStep DEF NavigationInv, NavigationCaughtUp
  <1>0. TypeOK /\ TypeOK' /\ i \in Bridge /\ phase'[i] = "connected" /\ i \in Navigating
    BY TypeStep DEF NavigationInv, HookInv, Connected
  <1>1. ASSUME NEW j \in Bridge, Start(j) PROVE lastUrl'[i] = url'
    <2>1. i = j \/ i \in Connected
      BY <1>0, <1>1 DEF Start, Connected, TypeOK
    <2> QED
      BY <1>0, <1>1, <2>1 DEF Start, NavigationInv, NavigationCaughtUp, TypeOK
  <1>2. ASSUME NEW j \in Bridge, Disconnect(j) PROVE lastUrl'[i] = url'
    <2>1. i \in Connected
      BY <1>0, <1>2 DEF Disconnect, Connected, TypeOK
    <2> QED
      BY <1>0, <1>2, <2>1 DEF Disconnect, pageVars, NavigationInv, NavigationCaughtUp
  <1>3. CASE \A j \in Bridge : ~Start(j) /\ ~Disconnect(j)
    <2>1. UNCHANGED <<platform, phase, orderly>>
      BY <1>0, <1>3, HooksStay
    <2>2. platform = "web" /\ orderly /\ i \in Connected
      BY <1>0, <2>1 DEF Connected
    <2>3. i \in patched["history"] /\ i \in listening
      BY <1>0, <2>2 DEF NavigationInv, HookInv, CapturesConnected, Takes, Listens, Hook
    <2>4. ASSUME NEW u \in Url, PushState(u) PROVE lastUrl'[i] = url'
      BY <1>0, <2>3, <2>4 DEF PushState, See
    <2>5. ASSUME HandleNavigation PROVE lastUrl'[i] = url'
      BY <1>0, <2>3, <2>5 DEF HandleNavigation, See
    <2>6. ASSUME NEW u \in Url, Traverse(u) PROVE FALSE
      BY <1>0, <2>6 DEF Traverse, TypeOK
    <2>7. ASSUME UNCHANGED pageVars PROVE lastUrl'[i] = url'
      BY <1>0, <2>2, <2>7 DEF pageVars, NavigationInv, NavigationCaughtUp
    <2> QED
      BY <1>3, <2>4, <2>5, <2>6, <2>7 DEF Next, Send, Signal, vars
  <1> QED
    BY <1>1, <1>2, <1>3

\* Whichever of pushState, popstate and hashchange came first, and whatever bridges were
\* started and disconnected meanwhile, the last event handled leaves every connected
\* bridge with the URL of the page: for any number of events on their way.
THEOREM NavigationSeen == Spec => []NavigationCaughtUp
  <1>1. Init => NavigationInv
    BY HookInitial DEF Init, NavigationInv, NavigationCaughtUp, Connected
  <1>2. NavigationInv => NavigationCaughtUp
    BY DEF NavigationInv
  <1> QED
    BY <1>1, <1>2, NavigationStep, PTL DEF Spec

-----------------------------------------------------------------------------
(* Reports of network requests.                                            *)

\* A request that a bridge has been attached to throughout goes through its wrapper, and
\* nobody has reported a request without an outcome.
Wrapped ==
  \A r \in Request :
    /\ watching[r] \subseteq Attached
    /\ (IF platform = "node" THEN again = {} ELSE orderly) => watching[r] \subseteq request[r].via
    /\ request[r].signals = {} => \A i \in Bridge : reported[i][r] = 0

ReportInv == HookInv /\ SinkInv /\ Wrapped /\ ReportedExactly

\* Disconnects only ever add to what stops the guarantees.
LEMMA RecordGrows ==
  ASSUME TypeOK, [Next]_vars
  PROVE  platform' = platform /\ (orderly' => orderly) /\ (again' = {} => again = {})
  <1>1. CASE \A i \in Bridge : ~Start(i) /\ ~Disconnect(i)
    BY <1>1, HooksStay
  <1>2. ASSUME NEW i \in Bridge, Start(i) \/ Disconnect(i)
        PROVE  platform' = platform /\ (orderly' => orderly) /\ (again' = {} => again = {})
    <2>1. again \subseteq again' /\ platform' = platform
      BY <1>2 DEF Start, Disconnect
    <2>2. orderly' => orderly
      BY <1>2 DEF Start, Disconnect
    <2> QED
      BY <2>1, <2>2
  <1> QED
    BY <1>1, <1>2

LEMMA WrappersCoverAttached ==
  ASSUME HookInv, SinkInv, IF platform = "node" THEN again = {} ELSE orderly
  PROVE  Attached \subseteq Wrappers
  <1>1. CASE platform = "node"
    BY <1>1 DEF SinkInv, SinksExact, Wrappers, Attached, Connected
  <1>2. CASE platform # "node"
    BY <1>2 DEF HookInv, CapturesConnected, Hook, Attached, Attaches, Wrappers
  <1> QED
    BY <1>1, <1>2

\* Starting and disconnecting keep what is known of requests already made.
LEMMA ReportsStay ==
  ASSUME ReportInv, [Next]_vars, UNCHANGED requestVars,
         \A r \in Request : watching'[r] \subseteq watching[r] \cap Attached'
  PROVE  Wrapped' /\ ReportedExactly'
  <1>1. /\ platform' = platform /\ (orderly' => orderly) /\ (again' = {} => again = {})
        /\ UNCHANGED <<request, reported>>
    BY RecordGrows DEF ReportInv, HookInv, requestVars
  <1>2. Wrapped'
    BY <1>1 DEF ReportInv, Wrapped
  <1>3. \A r \in Request : Entitled(r)' \subseteq Entitled(r)
    BY <1>1 DEF Entitled
  <1> QED
    BY <1>1, <1>2, <1>3 DEF ReportInv, ReportedExactly, ReportedToAttached, ReportedOnce

LEMMA ReportSend ==
  ASSUME ReportInv, [Next]_vars, NEW r \in Request, NEW kind \in Kinds, Send(r, kind)
  PROVE  Wrapped' /\ ReportedExactly'
  <1>0. TypeOK /\ UNCHANGED <<platform, orderly, again, reported>> /\ Attached' = Attached
    BY DEF Send, ReportInv, HookInv, Attached, Connected, Attaches, Takes
  <1>1. /\ request[r].signals = {}
        /\ request'[r] = [kind |-> kind, via |-> Wrappers, signals |-> {}]
        /\ \A q \in Request \ {r} : request'[q] = request[q] /\ watching'[q] = watching[q]
        /\ watching'[r] = Attached
    BY <1>0 DEF Send, Unsent, TypeOK
  <1>2. \A i \in Bridge : reported'[i][r] = 0
    BY <1>0, <1>1 DEF ReportInv, Wrapped
  <1>3. Wrapped'
    <2> SUFFICES ASSUME NEW q \in Request
                 PROVE  /\ watching'[q] \subseteq Attached'
                        /\ (IF platform = "node" THEN again = {} ELSE orderly)
                             => watching'[q] \subseteq request'[q].via
                        /\ request'[q].signals = {} => \A i \in Bridge : reported'[i][q] = 0
      BY <1>0 DEF Wrapped
    <2>1. CASE q = r
      BY <1>0, <1>1, <1>2, <2>1, WrappersCoverAttached DEF ReportInv
    <2>2. CASE q # r
      BY <1>0, <1>1, <2>2 DEF ReportInv, Wrapped
    <2> QED
      BY <2>1, <2>2
  <1>4. \A q \in Request : Entitled(q)' \subseteq Bridge
    BY <1>0, <1>1 DEF Entitled, TypeOK, Attached, Connected
  <1>5. ReportedToAttached'
    <2> SUFFICES ASSUME NEW q \in Request, NEW i \in Entitled(q)'
                 PROVE  reported'[i][q] =
                          IF request'[q].kind = "xhr" THEN Cardinality(request'[q].signals)
                          ELSE IF request'[q].signals = {} THEN 0 ELSE 1
      BY DEF ReportedToAttached
    <2>1. CASE q = r
      BY <1>1, <1>2, <1>4, <2>1, FS_EmptySet
    <2>2. CASE q # r
      <3>1. i \in Entitled(q)
        BY <1>0, <1>1, <2>2 DEF Entitled
      <3> QED
        BY <1>0, <1>1, <2>2, <3>1 DEF ReportInv, ReportedExactly, ReportedToAttached
    <2> QED
      BY <2>1, <2>2
  <1>6. ReportedOnce'
    <2> SUFFICES ASSUME NEW i \in Bridge, NEW q \in Request
                 PROVE  /\ request'[q].kind # "xhr" => reported'[i][q] <= 1
                        /\ <<i, q>> \in Own => reported'[i][q] = 0
      BY DEF ReportedOnce
    <2>1. CASE q = r
      BY <1>2, <2>1
    <2>2. CASE q # r
      BY <1>0, <1>1, <2>2 DEF ReportInv, ReportedExactly, ReportedOnce
    <2> QED
      BY <2>1, <2>2
  <1> QED
    BY <1>3, <1>5, <1>6 DEF ReportedExactly

LEMMA ReportSignal ==
  ASSUME ReportInv, [Next]_vars, NEW r \in Request, NEW e \in {"end", "error"}, Signal(r, e)
  PROVE  Wrapped' /\ ReportedExactly'
  <1>0. /\ TypeOK /\ UNCHANGED <<platform, orderly, again, watching, network>>
        /\ Attached' = Attached
    BY DEF Signal, recordVars, hookVars, ReportInv, HookInv, Attached, Connected, Attaches, Takes
  <1> DEFINE old == request[r].signals
  <1>1. /\ request'[r].kind = request[r].kind /\ request'[r].via = request[r].via
        /\ request'[r].signals = old \cup {e}
        /\ \A q \in Request \ {r} : request'[q] = request[q]
    BY <1>0 DEF Signal, TypeOK
  <1>2. \A i \in Bridge : \A q \in Request \ {r} : reported'[i][q] = reported[i][q]
    BY <1>0 DEF Signal, TypeOK
  <1>3. \A i \in Bridge : /\ reported[i][r] \in Nat
                          /\ reported'[i][r] = IF ~Finished(r) /\ i \in Reporters(r)
                                                 THEN reported[i][r] + 1 ELSE reported[i][r]
    BY <1>0 DEF Signal, TypeOK
  <1>4. /\ request[r].kind = "xhr" => e \notin old
        /\ request[r].kind # "xhr" => old = {} \/ Finished(r)
        /\ Finished(r) => request[r].kind # "xhr" /\ old # {}
        /\ IsFiniteSet(old)
    <2>1. IsFiniteSet({"end", "error"})
      <3>1. IsFiniteSet({"end"}) /\ {"end", "error"} = {"end"} \cup {"error"}
        BY FS_Singleton
      <3> QED
        BY <3>1, FS_AddElement
    <2>2. IsFiniteSet(old)
      BY <1>0, <2>1, FS_Subset DEF TypeOK
    <2> QED
      BY <2>2 DEF Signal, FetchSettles, XhrSignals, HttpSignals, Finished
  <1>5. Wrapped'
    BY <1>0, <1>1, <1>2 DEF ReportInv, Wrapped
  <1>6. \A q \in Request : Entitled(q)' = Entitled(q) /\ Entitled(q) \subseteq Bridge
    BY <1>0 DEF Entitled, TypeOK
  <1>7. Entitled(r) \subseteq Reporters(r)
    BY <1>0 DEF Entitled, Reporters, ReportInv, Wrapped, SinkInv, SinksExact
  <1> HIDE DEF old
  <1>8. ReportedToAttached'
    <2> SUFFICES ASSUME NEW q \in Request, NEW i \in Entitled(q)
                 PROVE  reported'[i][q] =
                          IF request'[q].kind = "xhr" THEN Cardinality(request'[q].signals)
                          ELSE IF request'[q].signals = {} THEN 0 ELSE 1
      BY <1>6 DEF ReportedToAttached
    <2>0. reported[i][q] = IF request[q].kind = "xhr" THEN Cardinality(request[q].signals)
                           ELSE IF request[q].signals = {} THEN 0 ELSE 1
      BY DEF ReportInv, ReportedExactly, ReportedToAttached
    <2>1. CASE q = r /\ request[r].kind = "xhr"
      <3>1. Cardinality(old \cup {e}) = Cardinality(old) + 1
        BY <1>4, <2>1, FS_AddElement
      <3> QED
        BY <1>1, <1>3, <1>4, <1>6, <1>7, <2>0, <2>1, <3>1 DEF old
    <2>2. CASE q = r /\ request[r].kind # "xhr"
      <3>1. i \in Bridge /\ i \in Reporters(r) /\ request'[r].signals # {}
        BY <1>1, <1>6, <1>7, <2>2
      <3>2. reported[i][r] = IF old = {} THEN 0 ELSE 1
        BY <2>0, <2>2 DEF old
      <3>3. reported'[i][r] = 1
        BY <1>3, <1>4, <2>2, <3>1, <3>2
      <3> QED
        BY <1>1, <2>2, <3>1, <3>3
    <2>3. CASE q # r
      BY <1>1, <1>2, <1>6, <2>0, <2>3
    <2> QED
      BY <2>1, <2>2, <2>3
  <1>9. ReportedOnce'
    <2> SUFFICES ASSUME NEW i \in Bridge, NEW q \in Request
                 PROVE  /\ request'[q].kind # "xhr" => reported'[i][q] <= 1
                        /\ <<i, q>> \in Own => reported'[i][q] = 0
      BY DEF ReportedOnce
    <2>0. /\ request[q].kind # "xhr" => reported[i][q] <= 1
          /\ <<i, q>> \in Own => reported[i][q] = 0
      BY DEF ReportInv, ReportedExactly, ReportedOnce
    <2>1. CASE q = r
      <3>1. <<i, r>> \in Own => i \notin Reporters(r)
        BY DEF Reporters
      <3>2. old = {} => reported[i][r] = 0
        BY DEF ReportInv, Wrapped, old
      <3> QED
        BY <1>1, <1>3, <1>4, <2>0, <2>1, <3>1, <3>2
    <2>2. CASE q # r
      BY <1>1, <1>2, <2>0, <2>2
    <2> QED
      BY <2>1, <2>2
  <1> QED
    BY <1>5, <1>8, <1>9 DEF ReportedExactly

LEMMA ReportStep == ReportInv /\ [Next]_vars => ReportInv'
  <1> SUFFICES ASSUME ReportInv, [Next]_vars PROVE Wrapped' /\ ReportedExactly'
    BY HookStep, SinkStep DEF ReportInv
  <1>0. TypeOK /\ \A r \in Request : watching[r] \subseteq Attached
    BY DEF ReportInv, HookInv, Wrapped
  <1>1. ASSUME NEW i \in Bridge, Start(i) PROVE Wrapped' /\ ReportedExactly'
    <2>1. Attached \subseteq Attached'
      BY <1>0, <1>1 DEF Start, Attached, Connected, Attaches, Takes, TypeOK
    <2> QED
      BY <1>0, <1>1, <2>1, ReportsStay DEF Start
  <1>2. ASSUME NEW i \in Bridge, Disconnect(i) PROVE Wrapped' /\ ReportedExactly'
    <2>1. Attached \ {i} \subseteq Attached'
      BY <1>0, <1>2 DEF Disconnect, Attached, Connected, Attaches, Takes, TypeOK
    <2> QED
      BY <1>0, <1>2, <2>1, ReportsStay DEF Disconnect
  <1>3. ASSUME UNCHANGED <<platform, phase, requestVars, watching>>
        PROVE  Wrapped' /\ ReportedExactly'
    <2>1. Attached' = Attached
      BY <1>3 DEF Attached, Connected, Attaches, Takes
    <2> QED
      BY <1>0, <1>3, <2>1, ReportsStay
  <1> QED
    BY <1>1, <1>2, <1>3, ReportSend, ReportSignal
       DEF Next, PushState, Traverse, HandleNavigation, vars, recordVars

\* Every outcome of a request is reported by every bridge attached since before it was
\* made, and no outcome twice: for any bridges, requests and platform, and any order in
\* which bridges start, disconnect and outcomes arrive.
THEOREM ReportsExact == Spec => []ReportedExactly
  <1>1. Init => ReportInv
    <2>1. Init => Wrapped /\ ReportedExactly
      BY FS_EmptySet DEF Init, Unsent, Wrapped, ReportedExactly, ReportedToAttached, ReportedOnce,
                         Entitled
    <2> QED
      BY <2>1, HookInitial, SinkInitial DEF ReportInv
  <1>2. ReportInv => ReportedExactly
    BY DEF ReportInv
  <1> QED
    BY <1>1, <1>2, ReportStep, PTL DEF Spec

=============================================================================
