---------------------------- MODULE MCProcessHeap ----------------------------
(***************************************************************************)
(* An instance of ProcessHeap for TLC: MCProcessHeap.cfg.                  *)
(***************************************************************************)
EXTENDS ProcessHeap
=============================================================================
