------------------------------ MODULE MCGetPid -------------------------------
(***************************************************************************)
(* Instance of GetPid for TLC.                                             *)
(***************************************************************************)
EXTENDS GetPid
=============================================================================
