----------------------------- MODULE MCHostLock -----------------------------
(* Instances of HostLock for TLC: one workspace, or one per process.       *)
EXTENDS HostLock, TLC

CONSTANTS w1, w2

OneWorkspace == [p \in Proc |-> w1]

\* One process starts in w1, the others in w2.
FirstProc == CHOOSE p \in Proc : TRUE
TwoWorkspaces == [p \in Proc |-> IF p = FirstProc THEN w1 ELSE w2]

\* Processes of one workspace are interchangeable.
Symmetry == Permutations(Proc)

=============================================================================
