------------------------------- MODULE RbTree --------------------------------
(***************************************************************************)
(* kern/libs/rb_tree.c, and find_vma_rb of kern/mm/vmm.c, which walks such *)
(* a tree.  A tree is a record of functions over its nodes.  The nodes are *)
(* numbered by their place in the order of "compare", so that compare is   *)
(* the order of the numbers: the order of the areas of an address space    *)
(* does not change while they are in the tree, also when vma_resize moves  *)
(* the start of one of them.                                               *)
(*                                                                         *)
(* The functions that the code makes from a macro with left and right      *)
(* exchanged have the side as a parameter.  A loop is a recursive function *)
(* over the number of its iterations.                                      *)
(***************************************************************************)
EXTENDS Integers, FiniteSets, Loops

CONSTANT NNode     \* the nodes are 1 .. NNode

ASSUME RbAssumption == NNode \in Nat

NilNode == 0         \* tree->nil
RootNode == -1       \* tree->root, whose left child is the top of the tree

TreeNode == 1 .. NNode

Opp(side) == IF side = "left" THEN "right" ELSE "left"

\* rb_tree_create; "ok" is false after a failed assertion.
EmptyTree ==
  [child |-> [side \in {"left", "right"} |->
                [x \in RootNode .. NNode |-> NilNode]],
   parent |-> [x \in RootNode .. NNode |-> NilNode],
   red |-> [x \in RootNode .. NNode |-> FALSE],
   ok |-> TRUE]

\* On which side of its parent node x is, by the test with side first.
SideOf(t, x, side) ==
  IF x = t.child[side][t.parent[x]] THEN side ELSE Opp(side)

\* FUNC_ROTATE: rb_left_rotate for side "left", rb_right_rotate for "right".
Rotate(t, side, x) ==
  LET y == t.child[Opp(side)][x]
      inner == t.child[side][y]
      up == t.parent[x]
  IN  [t EXCEPT
         !.ok = @ /\ x \notin {RootNode, NilNode} /\ y # NilNode /\ ~t.red[NilNode],
         !.child[Opp(side)][x] = inner,
         !.child[SideOf(t, x, side)][up] = y,
         !.child[side][y] = x,
         !.parent = [n \in DOMAIN @ |->
                       IF n = x THEN y
                       ELSE IF n = y THEN up
                       ELSE IF n = inner /\ inner # NilNode THEN x
                       ELSE @[n]]]

\* rb_insert_binary
InsertBinary(t, z) ==
  LET walk == Loop(LAMBDA s : s.x # NilNode,
                   LAMBDA s : [y |-> s.x,
                               x |-> t.child[IF s.x > z THEN "left" ELSE "right"][s.x]],
                   [y |-> RootNode, x |-> t.child["left"][RootNode]], NNode)
      side == IF walk.y = RootNode \/ walk.y > z THEN "left" ELSE "right"
  IN  [t EXCEPT !.child = [@ EXCEPT !["left"][z] = NilNode, !["right"][z] = NilNode,
                                    ![side][walk.y] = z],
                !.parent[z] = walk.y]

\* The tree with node a black and node b red.
Recolour(t, a, b) == [t EXCEPT !.red = [@ EXCEPT ![a] = FALSE, ![b] = TRUE]]

\* RB_INSERT_SUB with a black uncle: the last rotation, at the grandparent gp.
InsertOuter(t, side, x, gp) ==
  [t |-> Rotate(Recolour(t, t.parent[x], gp), Opp(side), gp), x |-> x]

\* RB_INSERT_SUB(side, other side) for node x with parent p and grandparent gp.
InsertSub(t, side, x, p, gp) ==
  IF t.red[t.child[Opp(side)][gp]]
  THEN [t |-> [Recolour(t, p, gp) EXCEPT !.red[t.child[Opp(side)][gp]] = FALSE], x |-> gp]
  ELSE IF x = t.child[Opp(side)][p]
  THEN InsertOuter(Rotate(t, side, p), side, p, gp)
  ELSE InsertOuter(t, side, x, gp)

InsertStep(s) ==
  LET p == s.t.parent[s.x]
  IN  InsertSub(s.t, SideOf(s.t, p, "left"), s.x, p, s.t.parent[p])

\* rb_insert
RbInsert(t, z) ==
  LET t1 == [InsertBinary(t, z) EXCEPT !.red[z] = TRUE]
      fixed == Loop(LAMBDA s : s.t.red[s.t.parent[s.x]],
                    InsertStep,
                    [t |-> t1, x |-> z], NNode).t
      top == fixed.child["left"][RootNode]
  IN  [fixed EXCEPT !.red[top] = FALSE,
                    !.ok = @ /\ ~fixed.red[NilNode] /\ ~fixed.red[RootNode]]

\* The last node in one direction below x, x itself if there is none.
Outermost(t, x, side) ==
  Loop(LAMBDA n : t.child[side][n] # NilNode, LAMBDA n : t.child[side][n], x, NNode)

\* rb_tree_successor
Successor(t, node) ==
  LET y == t.child["right"][node]
      up == Loop(LAMBDA s : s.x = t.child["right"][s.y],
                 LAMBDA s : [x |-> s.y, y |-> t.parent[s.y]],
                 [x |-> node, y |-> t.parent[node]], NNode)
  IN  IF y # NilNode THEN Outermost(t, y, "left")
      ELSE IF up.y = RootNode THEN NilNode ELSE up.y

\* rb_tree_predecessor
Predecessor(t, node) ==
  LET y == t.child["left"][node]
      up == Loop(LAMBDA s : s.x = t.child["left"][s.y] /\ s.y # RootNode,
                 LAMBDA s : [x |-> s.y, y |-> t.parent[s.y]],
                 [x |-> node, y |-> t.parent[node]], NNode)
  IN  IF y # NilNode THEN Outermost(t, y, "right")
      ELSE IF up.y = RootNode THEN NilNode ELSE up.y

\* rb_search with a compare function that looks for node key.
RbSearch(t, key) ==
  Loop(LAMBDA n : n # NilNode /\ n # key,
       LAMBDA n : t.child[IF n > key THEN "left" ELSE "right"][n],
       t.child["left"][RootNode], NNode)

\* RB_DELETE_FIXUP_SUB when the far child of the sibling w of x is red; p is
\* the parent of both.  The code ends the loop by x = root.
FixupFar(t, side, p, w, root) ==
  [t |-> Rotate([t EXCEPT !.red = [@ EXCEPT ![w] = t.red[p], ![p] = FALSE,
                                            ![t.child[Opp(side)][w]] = FALSE]], side, p),
   x |-> root, root |-> root]

\* ... when the near child is red and the far one is not.
FixupNear(t, side, p, w, root) ==
  LET t1 == Rotate(Recolour(t, t.child[side][w], w), Opp(side), w)
  IN  FixupFar(t1, side, p, t1.child[Opp(side)][p], root)

\* ... when the sibling is black.
FixupBlack(t, side, p, w, root) ==
  IF ~t.red[t.child["left"][w]] /\ ~t.red[t.child["right"][w]]
  THEN [t |-> [t EXCEPT !.red[w] = TRUE], x |-> p, root |-> root]
  ELSE IF ~t.red[t.child[Opp(side)][w]] THEN FixupNear(t, side, p, w, root)
  ELSE FixupFar(t, side, p, w, root)

\* RB_DELETE_FIXUP_SUB(side, other side) for the node below p on that side,
\* with sibling w; root is the top of the tree from before the loop.
DeleteFixupSub(t, side, p, w, root) ==
  IF t.red[w]
  THEN LET t1 == Rotate(Recolour(t, w, p), side, p)
       IN  FixupBlack(t1, side, p, t1.child[Opp(side)][p], root)
  ELSE FixupBlack(t, side, p, w, root)

FixupStep(s) ==
  LET side == SideOf(s.t, s.x, "left")
      p == s.t.parent[s.x]
  IN  DeleteFixupSub(s.t, side, p, s.t.child[Opp(side)][p], s.root)

\* Mutant: the node where the loop ends is not made black.
DeleteFixupRed(t, node) ==
  Loop(LAMBDA s : s.x # s.root /\ ~s.t.red[s.x],
       FixupStep,
       [t |-> t, x |-> node, root |-> t.child["left"][RootNode]], NNode).t

\* rb_delete_fixup
DeleteFixup(t, node) ==
  LET end == Loop(LAMBDA s : s.x # s.root /\ ~s.t.red[s.x],
                  FixupStep,
                  [t |-> t, x |-> node, root |-> t.child["left"][RootNode]], NNode)
  IN  [end.t EXCEPT !.red[end.x] = FALSE]

\* rb_delete: y, which has at most the child x, is taken out of the tree.
CutOut(t, y, x) ==
  [t EXCEPT !.ok = @ /\ y \notin {RootNode, NilNode},
            !.child[SideOf(t, y, "left")][t.parent[y]] = x,
            !.parent[x] = t.parent[y]]

\* rb_delete: y takes the place of z.
TakePlace(t, y, z) ==
  [t EXCEPT
     !.child = [@ EXCEPT ![SideOf(t, z, "left")][t.parent[z]] = y,
                         !["left"][y] = t.child["left"][z],
                         !["right"][y] = t.child["right"][z]],
     !.parent = [@ EXCEPT ![t.child["left"][z]] = y, ![t.child["right"][z]] = y,
                          ![y] = t.parent[z]],
     !.red[y] = t.red[z]]

\* Between two calls the fields of a deleted node z are of no use, and nor is
\* the parent of nil, which rb_delete sets for rb_delete_fixup.
Forget(t, z) ==
  [t EXCEPT !.child = [@ EXCEPT !["left"][z] = NilNode, !["right"][z] = NilNode],
            !.parent = [@ EXCEPT ![z] = NilNode, ![NilNode] = NilNode],
            !.red[z] = FALSE]

\* rb_delete of z, with y the node that leaves its place and x its child.
DeleteAt(t, z, y, x) ==
  LET t1 == IF y # z THEN TakePlace(CutOut(t, y, x), y, z) ELSE CutOut(t, y, x)
  IN  Forget(IF ~t.red[y] THEN DeleteFixup(t1, x) ELSE t1, z)

\* rb_delete
RbDelete(t, z) ==
  LET y == IF NilNode \in {t.child["left"][z], t.child["right"][z]} THEN z
           ELSE Successor(t, z)
  IN  DeleteAt(t, z, y, t.child[IF t.child["left"][y] # NilNode THEN "left" ELSE "right"][y])

\* find_vma_rb: the area of node n is areas[n], with its start s and its end
\* e; NilNode when there is none.
FindVmaRb(t, areas, addr) ==
  Loop(LAMBDA s : s.node # NilNode,
       LAMBDA s :
         IF areas[s.node].e > addr
         THEN [vma |-> s.node,
               node |-> IF areas[s.node].s <= addr THEN NilNode
                        ELSE t.child["left"][s.node]]
         ELSE [s EXCEPT !.node = t.child["right"][s.node]],
       [vma |-> NilNode, node |-> t.child["left"][RootNode]], NNode).vma
-----------------------------------------------------------------------------
\* x and the nodes above it, without RootNode.
Above(t, x) ==
  LET run[k \in 0 .. NNode] ==
        IF k = 0 THEN {x}
        ELSE Of(run[k - 1], LAMBDA p : p \cup {t.parent[n] : n \in p \ {RootNode}})
  IN  run[NNode] \ {RootNode}

\* The number of black nodes among x and the nodes above it.
BlackCount(t, x) == Cardinality({n \in Above(t, x) : ~t.red[n]})

\* r is a red-black tree of its nodes: what check_tree of rb_tree.c tests.
RedBlack(r) ==
  LET t == r.t
      kids(x) == {t.child["left"][x], t.child["right"][x]}
      leaves == {x \in r.nodes : NilNode \in kids(x)}
      top == t.child["left"][RootNode]
  IN  /\ t.ok /\ ~t.red[NilNode] /\ ~t.red[RootNode] /\ ~t.red[top]
      /\ top # NilNode => t.parent[top] = RootNode
      /\ \A x \in r.nodes :
           /\ kids(x) \subseteq r.nodes \cup {NilNode}
           /\ \A y \in kids(x) \ {NilNode} : t.parent[y] = x
           /\ t.red[x] => \A y \in kids(x) : ~t.red[y]
           /\ \A y \in r.nodes :
                /\ t.child["left"][x] \in Above(t, y) => y < x
                /\ t.child["right"][x] \in Above(t, y) => y > x
      /\ \A x, y \in leaves : BlackCount(t, x) = BlackCount(t, y)

\* The trees that insertions and deletions make, each with the set of its
\* nodes; the second set is the trees that the last round found.  A tree that
\* is not red-black is not changed any more.
Grown(found) ==
  LET new == UNION {{[nodes |-> r.nodes \cup {z}, t |-> RbInsert(r.t, z)] :
                        z \in TreeNode \ r.nodes}
                    \cup {[nodes |-> r.nodes \ {z}, t |-> RbDelete(r.t, z)] :
                            z \in r.nodes} : r \in {q \in found[2] : RedBlack(q)}}
  IN  Of(new, LAMBDA n : <<found[1] \cup n, n \ found[1]>>)

Reached ==
  LET start == {[nodes |-> {}, t |-> EmptyTree]}
      round[k \in 0 .. 4 * NNode] ==
        IF k = 0 THEN <<start, start>>
        ELSE Of(round[k - 1], Grown)
  IN  round[4 * NNode]

\* The look-ups find what the order of the nodes says.
LookupsRight(r) ==
  LET before(x) == {y \in r.nodes : y < x}
      after(x) == {y \in r.nodes : y > x}
  IN  /\ \A z \in TreeNode : RbSearch(r.t, z) = IF z \in r.nodes THEN z ELSE NilNode
      /\ \A x \in r.nodes :
           /\ IF before(x) = {} THEN Predecessor(r.t, x) = NilNode
              ELSE /\ Predecessor(r.t, x) \in before(x)
                   /\ \A y \in before(x) : y <= Predecessor(r.t, x)
           /\ IF after(x) = {} THEN Successor(r.t, x) = NilNode
              ELSE /\ Successor(r.t, x) \in after(x)
                   /\ \A y \in after(x) : Successor(r.t, x) <= y

\* Every tree that is reached is a red-black tree, and there are no others.
TreesSound ==
  /\ Reached[2] = {}
  /\ \A r \in Reached[1] : RedBlack(r) /\ LookupsRight(r)

=============================================================================
