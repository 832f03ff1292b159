---------------------------- MODULE MCHostEnsure ----------------------------
(* Instances of HostEnsure for TLC: the hosts of MCHostLock, and clients.  *)
EXTENDS HostEnsure, MCHostLock

\* Every client runs in w1.
ClientsAtHome == [c \in Client |-> w1]

=============================================================================
