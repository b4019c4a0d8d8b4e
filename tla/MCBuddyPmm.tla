----------------------------- MODULE MCBuddyPmm ------------------------------
(***************************************************************************)
(* An instance of BuddyPmm for TLC.  The first zone has two blocks of the  *)
(* largest order, which are buddies and must not be merged, and one page   *)
(* more, whose buddy is the only page of the second zone.  There are       *)
(* reserved pages on both sides.                                           *)
(***************************************************************************)
EXTENDS BuddyPmm

Bases == [z \in 0 .. 1 |-> IF z = 0 THEN 1 ELSE 10]

Sizes == [z \in 0 .. 1 |-> IF z = 0 THEN 9 ELSE 1]
=============================================================================
