-------------------------- MODULE MCInstrumentation --------------------------
(* Instances of Instrumentation for TLC.                                   *)
EXTENDS Instrumentation, TLC

CONSTANTS b1, b2, b3, r1, r2

\* The first request is one of the first bridge itself.
OwnRequest == {<<b1, r1>>}

=============================================================================
