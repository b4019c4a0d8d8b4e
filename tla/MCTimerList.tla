----------------------------- MODULE MCTimerList -----------------------------
(***************************************************************************)
(* Instance of TimerList for TLC.                                          *)
(***************************************************************************)
EXTENDS TimerList
=============================================================================
