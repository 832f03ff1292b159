-------------------------- MODULE MCBridgeWebSocket --------------------------
(* Instances of BridgeWebSocket for TLC.                                   *)
EXTENDS BridgeWebSocket, TLC

\* Sockets are interchangeable.
Symmetry == Permutations(Sock)

=============================================================================
