------------------------------- MODULE MCSlab --------------------------------
(***************************************************************************)
(* An instance of Slab for TLC.  The three sizes use a cache with its      *)
(* slab_t on the slab (32 bytes), one with two objects to a slab and the   *)
(* slab_t in an object of the first (2048), and one with slabs of two      *)
(* pages (8192).                                                           *)
(***************************************************************************)
EXTENDS Slab, TLC

Threads == Permutations(Thread)
=============================================================================
