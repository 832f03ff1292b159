----------------------------- MODULE MCGoClient -----------------------------
(* An instance of GoClient for TLC.                                        *)
EXTENDS GoClient

CONSTANT a1

=============================================================================
