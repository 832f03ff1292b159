---------------------------- MODULE Subscriptions ----------------------------
(***************************************************************************)
(* Which events a consumer's subscription lets through: the pure part of   *)
(* the routing code of bin/code-bridge-host.js, and what                   *)
(* docs/subscriptions.md says of it.                                       *)
(*                                                                         *)
(* Strings are compared after lower(), so a level or a capability is its   *)
(* lower-case name.  A message is a record with its type and level; a      *)
(* frame without a level has the level "none".                             *)
(***************************************************************************)
EXTENDS Integers

LogLevel  == {"error", "warn", "info", "log", "debug", "none"}
EventType == {"log", "pageview", "screenshot", "control", "network", "navigation"}

\* The types that need a capability, and the levels a consumer may subscribe to.
Gated     == EventType \ {"log"}
Levels    == {"errors", "warn", "info", "trace"}
Filters   == {"off", "minimal", "aggressive"}

Subscription ==
  [levels : SUBSET Levels, capabilities : SUBSET Gated, llm_filter : Filters]

\* What a consumer that has not subscribed gets.
DefaultSubscription == [levels |-> {"errors"}, capabilities |-> {}, llm_filter |-> "off"]

\* The position of a level in LEVEL_ORDER.
LevelIndex(level) ==
  CASE level = "errors" -> 0 [] level = "warn" -> 1 [] level = "info" -> 2 [] OTHER -> 3

\* A frame without a level counts as info.
SubscriptionLevel(level) ==
  CASE level = "error" -> "errors"
    [] level = "warn"  -> "warn"
    [] level = "debug" -> "trace"
    [] OTHER           -> "info"

SubscriptionIncludesLevel(levels, level) ==
  \E sub \in levels : LevelIndex(sub) >= LevelIndex(SubscriptionLevel(level))

\* llm_filter; in an overloaded window only errors pass, whatever the filter.
FilterAllows(filter, level, overloaded) ==
  \/ filter = "off"
  \/ overloaded /\ level = "error"
  \/ ~overloaded /\ filter = "minimal" /\ level \notin {"debug", "log"}
  \/ ~overloaded /\ filter = "aggressive" /\ level \notin {"debug", "log", "info"}

BridgeHasCapability(bridgeCaps, capability) == capability \in bridgeCaps

ConsumerWantsCapability(requested, capability) ==
  requested = {} \/ capability \in requested

\* shouldRouteToConsumer, for one consumer's subscription and one bridge's capabilities.
ShouldRoute(sub, message, bridgeCaps, overloaded) ==
  /\ FilterAllows(sub.llm_filter, message.level, overloaded)
  /\ SubscriptionIncludesLevel(sub.levels, message.level)
  /\ message.type \in Gated =>
       /\ ConsumerWantsCapability(sub.capabilities, message.type)
       /\ BridgeHasCapability(bridgeCaps, message.type)

=============================================================================
