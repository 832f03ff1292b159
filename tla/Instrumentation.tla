--------------------------- MODULE Instrumentation ---------------------------
(***************************************************************************)
(* What the bridges of one JavaScript program do to the globals of that    *)
(* program: startBridge and disconnect of src/client.ts.                   *)
(*                                                                         *)
(* A bridge saves the function it finds in console, history, fetch,        *)
(* XMLHttpRequest or ErrorUtils, puts a wrapper in its place, and puts the *)
(* saved function back in disconnect().  A wrapper calls the saved one, so *)
(* a call passes through a chain of wrappers: a hook is modelled by the    *)
(* set of bridges in the chain.  On Node the bridges share one patch of    *)
(* http, https and fetch with a list of sinks and a counter instead.       *)
(*                                                                         *)
(* Handlers are atomic.  The program starts and disconnects bridges in any *)
(* order, calls disconnect() up to twice, navigates and makes requests.    *)
(* What an event looks like is left out: only which bridge reports what.   *)
(***************************************************************************)
EXTENDS Naturals, FiniteSets

CONSTANTS
  Bridge,       \* bridges the program starts, each once
  Navigating,   \* those with enableNavigation
  Networking,   \* those with enableNetwork
  Request,      \* network requests the program makes
  Own,          \* pairs of a bridge and a request whose URL contains its bridgeUrl
  Url,          \* URLs of the page
  MaxArriving   \* bound: popstate and hashchange events on their way

ASSUME ConstantsAssumption ==
  /\ IsFiniteSet(Bridge)
  /\ Navigating \subseteq Bridge /\ Networking \subseteq Bridge
  /\ Own \subseteq Bridge \X Request
  /\ MaxArriving \in Nat

VARIABLES
  platform,   \* detectPlatform()
  phase,      \* of each bridge: "new", "connected" or "stopped"
  patched,    \* of each hook: the bridges whose wrappers a call passes through
  original,   \* of each bridge and hook: those in the function it saved
  listening,  \* bridges whose error and navigation listeners are registered
  network,    \* on Node: whether http is patched, count, and sinks
  url,        \* window.location.href
  lastUrl,    \* of each bridge: the URL it has reported
  arriving,   \* number of popstate and hashchange events on their way
  request,    \* of each request: its kind, the wrappers it went through, its signals
  reported,   \* of each bridge and request: network events sent for it
  \* A record of what the program did.
  under,      \* of each bridge: the bridges connected when it started
  orderly,    \* only the bridge that started last was ever disconnected, and once
  again,      \* bridges disconnected twice
  watching    \* of each request: bridges attached since before it was made

hookVars    == <<patched, original, listening, network>>
pageVars    == <<url, lastUrl, arriving>>
requestVars == <<request, reported>>
recordVars  == <<under, orderly, again, watching>>
vars == <<platform, phase, hookVars, pageVars, requestVars, recordVars>>

Hook == {"console", "errors", "history", "network"}

\* The hooks bridge i wraps: console always, ErrorUtils on React Native, history in a
\* page, fetch (and in a page XMLHttpRequest) in browsers.
Takes(i, g) ==
  \/ g = "console"
  \/ g = "errors" /\ platform = "react-native"
  \/ g = "history" /\ platform = "web" /\ i \in Navigating
  \/ g = "network" /\ platform \in {"web", "worker"} /\ i \in Networking

\* Pages and Node processes have listeners for errors, and pages for navigation too.
Listens == platform \in {"web", "node"}

\* Bridges that use the shared patch of a Node process.
Attaches(i) == platform = "node" /\ i \in Networking

Connected == {i \in Bridge : phase[i] = "connected"}
Attached  == {i \in Connected : Attaches(i) \/ Takes(i, "network")}

Unpatched == [patched |-> FALSE, count |-> 0, sinks |-> {}]
Unsent    == [kind |-> "none", via |-> {}, signals |-> {}]

Init ==
  /\ platform \in {"web", "worker", "node", "react-native"}
  /\ phase = [i \in Bridge |-> "new"]
  /\ patched = [g \in Hook |-> {}]
  /\ original = [i \in Bridge |-> [g \in Hook |-> {}]]
  /\ listening = {} /\ network = Unpatched
  /\ url \in Url /\ lastUrl = [i \in Bridge |-> url] /\ arriving = 0
  /\ request = [r \in Request |-> Unsent]
  /\ reported = [i \in Bridge |-> [r \in Request |-> 0]]
  /\ under = [i \in Bridge |-> {}] /\ orderly = TRUE /\ again = {}
  /\ watching = [r \in Request |-> {}]

-----------------------------------------------------------------------------
(* startBridge and disconnect.                                             *)

\* Faulty: the existing state is replaced.
AttachAnew(i) == network' = [patched |-> TRUE, count |-> 1, sinks |-> {i}]

\* instrumentNodeNetwork: the first sink patches, the others join.
Attach(i) ==
  network' = [patched |-> TRUE, count |-> network.count + 1,
              sinks |-> network.sinks \cup {i}]

Start(i) ==
  /\ phase[i] = "new"
  /\ phase' = [phase EXCEPT ![i] = "connected"]
  /\ original' = [original EXCEPT ![i] = patched]
  /\ patched' = [g \in Hook |-> IF Takes(i, g) THEN patched[g] \cup {i} ELSE patched[g]]
  /\ listening' = IF Listens THEN listening \cup {i} ELSE listening
  /\ IF Attaches(i) THEN Attach(i) ELSE UNCHANGED network
  /\ lastUrl' = [lastUrl EXCEPT ![i] = url]
  /\ under' = [under EXCEPT ![i] = Connected]
  /\ UNCHANGED <<platform, url, arriving, requestVars, orderly, again, watching>>

\* Faulty: the counter alone decides, and the sink stays in the list.
DetachKeepsSink(i) ==
  network' = IF network.count > 1 THEN [network EXCEPT !.count = @ - 1] ELSE Unpatched

\* Faulty: without Math.max, and the sinks alone decide.
DetachUnguarded(i) ==
  network' = IF network.sinks \subseteq {i} THEN Unpatched
             ELSE [network EXCEPT !.count = @ - 1, !.sinks = @ \ {i}]

\* detach: drop the sink, count down, and restore http and fetch with the last one.
Detach(i) ==
  LET sinks == network.sinks \ {i}
      count == IF network.count > 0 THEN network.count - 1 ELSE 0
  IN  network' = IF count = 0 \/ sinks = {} THEN Unpatched
                 ELSE [network EXCEPT !.count = count, !.sinks = sinks]

\* i is the bridge that started last of those connected.
Latest(i) == \A j \in Connected : i \notin under[j]

\* Faulty: wrappers stay, to be skipped once their bridge has stopped.
RestoreNothing(i) == UNCHANGED patched

\* Every hook gets back what i found in it.
Restore(i) == patched' = [g \in Hook |-> IF Takes(i, g) THEN original[i][g] ELSE patched[g]]

\* disconnect(); nothing stops the program from calling it again.
Disconnect(i) ==
  /\ phase[i] # "new" /\ i \notin again
  /\ phase' = [phase EXCEPT ![i] = "stopped"]
  /\ Restore(i)
  /\ listening' = listening \ {i}
  /\ IF Attaches(i) /\ network.patched THEN Detach(i) ELSE UNCHANGED network
  /\ orderly' = (orderly /\ phase[i] = "connected" /\ Latest(i))
  /\ again' = IF phase[i] = "stopped" THEN again \cup {i} ELSE again
  /\ watching' = [r \in Request |-> watching[r] \ {i}]
  /\ UNCHANGED <<platform, original, pageVars, requestVars, under>>

-----------------------------------------------------------------------------
(* Navigation.                                                             *)

\* Faulty: the URL is read before the original function runs.
SeeBefore(seers) == lastUrl' = [i \in Bridge |-> IF i \in seers THEN url ELSE lastUrl[i]]

\* Each of some bridges compares the URL with its lastUrl, and reports a new one.
See(seers) == lastUrl' = [i \in Bridge |-> IF i \in seers THEN url' ELSE lastUrl[i]]

\* history.pushState or replaceState, through the wrappers.
PushState(u) ==
  /\ platform = "web" /\ u # url
  /\ url' = u
  /\ See(patched["history"])
  /\ UNCHANGED <<platform, phase, hookVars, arriving, requestVars, recordVars>>

\* Back, forward or another fragment: the event is handled later.
Traverse(u) ==
  /\ platform = "web" /\ u # url /\ arriving < MaxArriving
  /\ url' = u
  /\ arriving' = arriving + 1
  /\ UNCHANGED <<platform, phase, hookVars, lastUrl, requestVars, recordVars>>

\* handlePopState and handleHash.
HandleNavigation ==
  /\ arriving > 0
  /\ arriving' = arriving - 1
  /\ url' = url
  /\ See(listening \cap Navigating)
  /\ UNCHANGED <<platform, phase, hookVars, requestVars, recordVars>>

-----------------------------------------------------------------------------
(* Network requests.                                                       *)

\* What a program can use, and the bridges instrument.
Kinds ==
  CASE platform = "web"    -> {"fetch", "xhr"}
    [] platform = "worker" -> {"fetch"}
    [] platform = "node"   -> {"fetch", "http"}
    [] OTHER               -> {}

\* Wrappers a request goes through; on Node one wrapper reports to every sink.
Wrappers == IF platform = "node" THEN (IF network.patched THEN Bridge ELSE {})
                                 ELSE patched["network"]

Send(r, kind) ==
  /\ request[r] = Unsent
  /\ request' = [request EXCEPT ![r] = [kind |-> kind, via |-> Wrappers, signals |-> {}]]
  /\ watching' = [watching EXCEPT ![r] = Attached]
  /\ UNCHANGED <<platform, phase, hookVars, pageVars, reported, under, orderly, again>>

\* A fetch settles once: it returns a response or throws.
FetchSettles(r) == request[r].kind = "fetch" /\ request[r].signals = {}

\* An XMLHttpRequest that fails signals error, abort or timeout, and then loadend.
XhrSignals(r, e) ==
  request[r].kind = "xhr" /\ "end" \notin request[r].signals /\ e \notin request[r].signals

\* An http request may fail after its response has ended.
HttpSignals(r, e) ==
  request[r].kind = "http" /\ "error" \notin request[r].signals /\ e \notin request[r].signals

\* Faulty: without the flag finished.
NeverFinished(r) == FALSE

\* The flag finished of an http request.
Finished(r) == request[r].kind = "http" /\ request[r].signals # {}

\* Faulty: the sinks are those of the wrapper, not the current ones.
SinksOfRequest(r) == {i \in request[r].via : <<i, r>> \notin Own}

\* Who reports an outcome: the wrappers' bridges, on Node the current sinks, and never
\* a bridge whose own connection it is.
Reporters(r) ==
  {i \in request[r].via : /\ platform = "node" => i \in network.sinks
                          /\ <<i, r>> \notin Own}

\* A response or an error arrives.
Signal(r, e) ==
  /\ FetchSettles(r) \/ XhrSignals(r, e) \/ HttpSignals(r, e)
  /\ request' = [request EXCEPT ![r].signals = @ \cup {e}]
  /\ reported' = [i \in Bridge |->
                    IF ~Finished(r) /\ i \in Reporters(r)
                      THEN [reported[i] EXCEPT ![r] = @ + 1] ELSE reported[i]]
  /\ UNCHANGED <<platform, phase, hookVars, pageVars, recordVars>>

Next ==
  \/ \E i \in Bridge : Start(i) \/ Disconnect(i)
  \/ \E u \in Url : PushState(u) \/ Traverse(u)
  \/ HandleNavigation
  \/ \E r \in Request : \/ \E kind \in Kinds : Send(r, kind)
                        \/ \E e \in {"end", "error"} : Signal(r, e)

Spec == Init /\ [][Next]_vars

-----------------------------------------------------------------------------
(* Properties.                                                             *)

\* Every variable has its type.
TypeOK ==
  /\ platform \in {"web", "worker", "node", "react-native"}
  /\ phase \in [Bridge -> {"new", "connected", "stopped"}]
  /\ patched \in [Hook -> SUBSET Bridge]
  /\ original \in [Bridge -> [Hook -> SUBSET Bridge]]
  /\ listening \subseteq Bridge
  /\ network \in [patched : BOOLEAN, count : Nat, sinks : SUBSET Bridge]
  /\ url \in Url /\ lastUrl \in [Bridge -> Url] /\ arriving \in 0 .. MaxArriving
  /\ request \in [Request -> [kind : {"none", "fetch", "xhr", "http"},
                              via : SUBSET Bridge, signals : SUBSET {"end", "error"}]]
  /\ reported \in [Bridge -> [Request -> Nat]]
  /\ under \in [Bridge -> SUBSET Bridge]
  /\ orderly \in BOOLEAN /\ again \subseteq Bridge
  /\ watching \in [Request -> SUBSET Bridge]

\* While bridges are disconnected in the reverse of the order they started in, each
\* hook goes through exactly the connected bridges that wrap it, and listeners are
\* those of connected bridges: nobody is deaf, and no stopped bridge still captures.
CapturesConnected ==
  /\ listening = IF Listens THEN Connected ELSE {}
  /\ orderly => \A g \in Hook : patched[g] = {i \in Connected : Takes(i, g)}

\* As long as nobody is disconnected twice, in whatever order, the shared patch of a
\* Node process has as sinks the attached bridges, counts them, and is there exactly
\* as long as there is one.
SinksExact ==
  platform = "node" /\ again = {} =>
    /\ network.patched <=> Attached # {}
    /\ network.sinks = Attached
    /\ network.count = Cardinality(Attached)

\* Bridges a request cannot be hidden from: attached since before it was made, while
\* disconnects were in order (on Node: while none was repeated).
Entitled(r) ==
  {i \in watching[r] : /\ <<i, r>> \notin Own
                       /\ IF platform = "node" THEN again = {} ELSE orderly}

\* A bridge attached throughout a request reports it, and once: except for an
\* XMLHttpRequest that fails, which is reported with its error and again with its end.
ReportedToAttached ==
  \A r \in Request : \A i \in Entitled(r) :
    reported[i][r] = IF request[r].kind = "xhr" THEN Cardinality(request[r].signals)
                     ELSE IF request[r].signals = {} THEN 0 ELSE 1

\* Nobody reports an outcome twice, whatever the order of starts, disconnects and late
\* errors; nor does a bridge report the requests of its own connection.
ReportedOnce ==
  \A i \in Bridge, r \in Request :
    /\ request[r].kind # "xhr" => reported[i][r] <= 1
    /\ <<i, r>> \in Own => reported[i][r] = 0

\* Nobody misses what it is entitled to, and nobody reports what it should not.
ReportedExactly == ReportedToAttached /\ ReportedOnce

\* When every navigation has been handled, the connected bridges have reported the URL
\* of the page: by pushState or by an event, whichever came first.
NavigationCaughtUp ==
  platform = "web" /\ orderly /\ arriving = 0 =>
    \A i \in Connected \cap Navigating : lastUrl[i] = url

\* On Node a bridge that has been disconnected reports no more, not even the requests
\* that were in flight.
NodeSilentAfterStop ==
  [][\A i \in Bridge : platform = "node" /\ phase[i] = "stopped" => reported'[i] = reported[i]]_vars

=============================================================================
