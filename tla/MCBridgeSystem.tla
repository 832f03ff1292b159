--------------------------- MODULE MCBridgeSystem ---------------------------
(* An instance of BridgeSystem for TLC.                                    *)
EXTENDS BridgeSystem, TLC

CONSTANTS b1, c1, r1, r2, i1, i2, s0, s1, s2, s3

UniqueIds == r1 :> i1 @@ r2 :> i2
NoIds     == [r \in {} |-> i1]

ClientRoles == b1 :> "bridge" @@ c1 :> "consumer"

ControlOnly == {{"control"}}

InfoSubscription ==
  [levels |-> {"info"}, capabilities |-> {}, llm_filter |-> "off"]
InfoSubscriptions == {InfoSubscription}
InfoForAll == [s \in Sub |-> InfoSubscription]

Infos == {[type |-> "log", level |-> "info", valid |-> TRUE]}

=============================================================================
