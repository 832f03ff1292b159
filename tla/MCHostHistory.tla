--------------------------- MODULE MCHostHistory ---------------------------
(* Hosts and clients as in MCHostEnsure, with the history of HostHistory.  *)
EXTENDS HostHistory, MCHostEnsure

EnsureHistorySpec ==
  /\ EnsureInit /\ HistoryInit
  /\ [][EnsureNext /\ RecordExcused]_<<ensureVars, excused>>
  /\ Fairness

=============================================================================
