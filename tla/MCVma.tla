------------------------------- MODULE MCVma -------------------------------
(***************************************************************************)
(* An instance of Vma for TLC, together with the red-black trees that      *)
(* insert_vma_struct and remove_vma_struct keep over the same areas when   *)
(* there are many of them.  The trees of up to NNode nodes are computed    *)
(* once; node i of a tree over n nodes stands for the i-th area.           *)
(***************************************************************************)
EXTENDS Vma, RbTree

\* The trees over n areas.
TreesOver == [n \in 0 .. NNode |-> {r.t : r \in {q \in Reached[1] : q.nodes = 1 .. n}}]

\* Property: every tree that insertions and deletions in any order can make is
\* a red-black tree, in which searches, predecessors and successors are right
\* and no assertion of rb_tree.c fails; and whichever of them mmap_tree is for
\* the areas of the process, find_vma_rb returns the area that find_vma
\* promises, for addresses inside areas, between them and behind the last
\* (rb_insert, rb_delete, find_vma_rb).
TreeFinds ==
  /\ TreesSound
  /\ LET n == Len(mm.vmas) IN
     \A t \in TreesOver[n], a \in 0 .. Top - 1 :
        LET found == FindVmaRb(t, mm.vmas, a)
        IN  /\ \A i \in 1 .. n : a < mm.vmas[i].e => found \in 1 .. i
            /\ found # NilNode => a < mm.vmas[found].e
=============================================================================
