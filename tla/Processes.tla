------------------------------ MODULE Processes ------------------------------
(***************************************************************************)
(* kern/process/proc.h: what the models of proc.c have in common.          *)
(***************************************************************************)
EXTENDS Integers, FiniteSets

CONSTANTS Proc,        \* the processes but idleproc
          MaxProcess   \* MAX_PROCESS
=============================================================================
