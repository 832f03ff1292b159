----------------------------- MODULE MCBridgeHost -----------------------------
(* Instances of BridgeHost for TLC.                                        *)
EXTENDS BridgeHost, TLC

CONSTANTS b1, c1, c2, h1, r1, r2, i1, i2

UniqueIds == r1 :> i1 @@ r2 :> i2
NoIds     == [r \in {} |-> i1]

ClientRoles == [s \in Socket |-> IF s = b1 THEN "bridge" ELSE "consumer"]

ControlOrNothing == {{}, {"control"}}
ScreenshotOnly   == {{"screenshot"}}

Sub(levels, filter) == [levels |-> levels, capabilities |-> {}, llm_filter |-> filter]
Msg(type, level)    == [type |-> type, level |-> level, valid |-> TRUE]

InfoSubscription  == {Sub({"info"}, "off")}
QuietSubscription == {Sub({"trace"}, "minimal")}

NoMessages == {}
Logs       == {Msg("log", "info"), Msg("log", "error")}
BadShot    == [Msg("screenshot", "info") EXCEPT !.valid = FALSE]
LogsAndShots == {Msg("log", "none"), Msg("screenshot", "info"), BadShot}

=============================================================================
