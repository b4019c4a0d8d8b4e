----------------------------- MODULE MCEDFSched ------------------------------
(***************************************************************************)
(* Instances of EDFSched for TLC.                                          *)
(***************************************************************************)
EXTENDS EDFSched, TLC

CONSTANTS idle, init, a, b

\* The two slots for user processes are interchangeable.
UserSlots == Permutations({a, b})

\* A real-time process, and two that nobody refuses: a period and a computation of 0.
RTArgs == {<<2, 2>>, <<1, 0>>, <<0, 1>>}
ExecArgs == <<1, 2>>
-----------------------------------------------------------------------------
\* user/sleep.c lets all processes sleep and expects to go on, and schedule()
\* runs idleproc when there is no other process: an empty run queue does not
\* stop the kernel.
AllMaySleep == halt # "pickEmpty"
=============================================================================
