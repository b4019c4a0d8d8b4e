----------------------------- MODULE MCProcLife ------------------------------
(***************************************************************************)
(* Instances of ProcLife for TLC.                                          *)
(***************************************************************************)
EXTENDS ProcLife, TLC

CONSTANTS init, kswapd, a, b, c, m1, m2

\* The user processes are interchangeable, and so are the address spaces.
Slots == Permutations({a, b, c}) \cup Permutations({m1, m2})
=============================================================================
