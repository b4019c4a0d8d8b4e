--------------------------- MODULE ProcLifeProofs ----------------------------
(***************************************************************************)
(* Proofs about the modules ProcLife and, at the end, GetPid, for every    *)
(* number of processes and every limit on them and on the pids.            *)
(*                                                                         *)
(* The properties are not inductive: that the walk from cptr along optr    *)
(* meets exactly the children needs the local laws of the four pointers,   *)
(* and that there is no cycle of siblings.  So the proof carries ProcInv,  *)
(* whose parts say what the pointers mean (TreeInv), that the rings of     *)
(* threads are permutations (RingInv), and where each process can be       *)
(* (PlaceInv).  The walks are treated once: Children is the inverse of     *)
(* parent (ChildrenExact), Group is the least set that is closed under     *)
(* next_thread (OrbitLeast, OrbitClosed), and the loop of __do_exit hands  *)
(* over every child (HandOverAllTree).  AddressSpacesExact is kept beside  *)
(* it: a fork or an exec adds one user to one address space, an exec or an *)
(* exit takes one away.                                                    *)
(***************************************************************************)
EXTENDS ProcLife, GetPid, InductionLemmas

\* The states of a process that has not exited.
Alive == {"RUNNABLE", "SLEEPING"}

\* The type of the pointers.
LinksType ==
  [parent : [Proc -> Proc \cup {Nil}], cptr : [Proc -> Proc \cup {Nil}],
   optr : [Proc -> Proc \cup {Nil}], yptr : [Proc -> Proc \cup {Nil}]]

\* The laws of the pointers: cptr is the child without a younger sibling, yptr and optr
\* are inverse, siblings have the same parent, and younger siblings come to an end.
Tree(l) ==
  /\ l \in LinksType
  /\ \A p, q \in Proc : l.cptr[p] = q <=> l.parent[q] = p /\ l.yptr[q] = Nil
  /\ \A p, q \in Proc : l.yptr[q] = p <=> l.optr[p] = q
  /\ \A p, q \in Proc : l.optr[p] = q => l.parent[q] = l.parent[p] /\ l.parent[p] # Nil
  /\ \A S \in SUBSET Proc : S # {} => \E q \in S : l.yptr[q] \notin S

\* The tree: parents and children live as long as they are linked.
TreeInv ==
  /\ Tree(links)
  /\ \A p \in Proc : links.parent[p] # Nil => InUse(p) /\ state[links.parent[p]] \in Alive
  /\ nrProcess = Cardinality({p \in Proc : InUse(p)}) + 1

\* The rings are permutations, in which only the living move; initproc has no threads.
RingInv ==
  /\ \A p, q \in Proc : next[p] = next[q] => p = q
  /\ \A p \in Proc : \E q \in Proc : next[q] = p
  /\ \A p \in Proc : next[p] # p => state[p] \in Alive
  /\ next[InitProc] = InitProc

\* Where a process can be: it sleeps in do_wait only, a dead one is nowhere.  initproc
\* is in its loop until it alone and kswapd are left.
PlaceInv ==
  /\ \A p \in User : /\ at[p] # "final"
                     /\ at[p] = "wait" <=> waitFor[p] # Nil
                     /\ state[p] = "SLEEPING" => at[p] = "wait"
                     /\ state[p] \notin Alive => at[p] = "user"
  /\ state[InitProc] \in Alive /\ at[InitProc] \in {"wait", "final"}
  /\ waitFor[InitProc] = AnyChild /\ links.parent[InitProc] = Nil
  /\ state[Kswapd] = "SLEEPING" /\ waitFor[Kswapd] = Nil
  /\ links.parent[Kswapd] = InitProc
  /\ at[InitProc] = "final" => nrProcess = NrProcessStore

\* The inductive invariant.
ProcInv == TypeOK /\ TreeInv /\ RingInv /\ PlaceInv /\ NoLostWakeup

-----------------------------------------------------------------------------
(* The operations on the family tree. *)

\* set_links of a process that has no parent.
LEMMA LinkChildTree ==
  ASSUME NEW l, Tree(l), NEW p \in Proc, NEW q \in Proc, l.parent[q] = Nil
  PROVE  /\ Tree(LinkChild(l, q, p))
         /\ LinkChild(l, q, p).parent = [l.parent EXCEPT ![q] = p]
<1> DEFINE r == LinkChild(l, q, p)
           old == l.cptr[p]
<1>1. /\ l \in LinksType /\ Nil \notin Proc /\ old \in Proc \cup {Nil}
      /\ l.parent \in [Proc -> Proc \cup {Nil}] /\ l.cptr \in [Proc -> Proc \cup {Nil}]
      /\ l.optr \in [Proc -> Proc \cup {Nil}] /\ l.yptr \in [Proc -> Proc \cup {Nil}]
  BY ProcAssumption DEF Tree, LinksType
<1>2. /\ r \in LinksType /\ r.parent = [l.parent EXCEPT ![q] = p]
      /\ \A x \in Proc :
            /\ r.parent[x] = IF x = q THEN p ELSE l.parent[x]
            /\ r.cptr[x] = IF x = p THEN q ELSE l.cptr[x]
            /\ r.optr[x] = IF x = q THEN old ELSE l.optr[x]
            /\ r.yptr[x] = IF x = q THEN Nil ELSE IF x = old THEN q ELSE l.yptr[x]
  BY <1>1 DEF LinkChild, LinksType
<1> HIDE DEF r
\* q is in nobody's list.
<1>3. /\ l.optr[q] = Nil /\ l.yptr[q] = Nil
      /\ \A x \in Proc : l.cptr[x] # q /\ l.optr[x] # q /\ l.yptr[x] # q
  BY <1>1 DEF Tree
<1>4. \A x, y \in Proc : r.cptr[x] = y <=> r.parent[y] = x /\ r.yptr[y] = Nil
  BY <1>1, <1>2, <1>3 DEF Tree
<1>5. \A x, y \in Proc : r.yptr[y] = x <=> r.optr[x] = y
  BY <1>1, <1>2, <1>3 DEF Tree
<1>6. \A x, y \in Proc : r.optr[x] = y => r.parent[y] = r.parent[x] /\ r.parent[x] # Nil
  BY <1>1, <1>2, <1>3 DEF Tree
<1>7. ASSUME NEW S \in SUBSET Proc, S # {}
      PROVE  \E x \in S : r.yptr[x] \notin S
  <2>1. CASE q \in S
    BY <1>1, <1>2, <2>1
  <2>2. CASE q \notin S
    <3>1. PICK x \in S : l.yptr[x] \notin S
      BY <1>7 DEF Tree
    <3> QED
      BY <1>2, <2>2, <3>1
  <2> QED
    BY <2>1, <2>2
<1> QED
  BY <1>2, <1>4, <1>5, <1>6, <1>7 DEF Tree, r

\* remove_links
LEMMA UnlinkChildTree ==
  ASSUME NEW l, Tree(l), NEW q \in Proc, l.parent[q] \in Proc
  PROVE  /\ Tree(UnlinkChild(l, q))
         /\ UnlinkChild(l, q).parent = [l.parent EXCEPT ![q] = Nil]
<1> DEFINE r == UnlinkChild(l, q)
           p == l.parent[q]
           o == l.optr[q]
           y == l.yptr[q]
<1>1. /\ l \in LinksType /\ Nil \notin Proc
      /\ l.parent \in [Proc -> Proc \cup {Nil}] /\ l.cptr \in [Proc -> Proc \cup {Nil}]
      /\ l.optr \in [Proc -> Proc \cup {Nil}] /\ l.yptr \in [Proc -> Proc \cup {Nil}]
  BY ProcAssumption DEF Tree, LinksType
<1>2. o \in Proc \cup {Nil} /\ y \in Proc \cup {Nil} /\ p \in Proc
  BY <1>1
<1>3. /\ r \in LinksType /\ r.parent = [l.parent EXCEPT ![q] = Nil]
      /\ \A x \in Proc :
            /\ r.parent[x] = IF x = q THEN Nil ELSE l.parent[x]
            /\ r.cptr[x] = IF y = Nil /\ x = p THEN o ELSE l.cptr[x]
            /\ r.optr[x] = IF x = q THEN Nil ELSE IF x = y THEN o ELSE l.optr[x]
            /\ r.yptr[x] = IF x = q THEN Nil ELSE IF x = o THEN y ELSE l.yptr[x]
  BY <1>1, <1>2 DEF UnlinkChild, LinksType
<1>4. /\ y # Nil => l.optr[y] = q /\ l.parent[y] = p
      /\ o # Nil => l.yptr[o] = q /\ l.parent[o] = p
      /\ y = Nil => l.cptr[p] = q
      /\ o # q /\ y # q /\ (o = y => o = Nil)
  <2>1. /\ y # Nil => l.optr[y] = q /\ l.parent[y] = p
        /\ o # Nil => l.yptr[o] = q /\ l.parent[o] = p
        /\ y = Nil => l.cptr[p] = q
    BY <1>1, <1>2 DEF Tree
  <2>2. \A S \in SUBSET Proc : S # {} => \E x \in S : l.yptr[x] \notin S
    BY DEF Tree
  <2>3. y # q
    <3>1. {q} \in SUBSET Proc /\ {q} # {}
      OBVIOUS
    <3>2. \E x \in {q} : l.yptr[x] \notin {q}
      BY <2>2, <3>1
    <3> QED
      BY <3>2
  <2>4. o # q
    BY <1>1, <1>2, <2>3 DEF Tree
  <2>5. o = y => o = Nil
    <3>1. SUFFICES ASSUME o = y, o # Nil
                   PROVE  FALSE
      BY <3>1
    <3>2. {o, q} \in SUBSET Proc /\ {o, q} # {} /\ l.yptr[o] = q /\ l.yptr[q] = o
      BY <1>2, <2>1, <3>1
    <3>3. \E x \in {o, q} : l.yptr[x] \notin {o, q}
      BY <2>2, <3>2
    <3> QED
      BY <3>2, <3>3
  <2> QED
    BY <2>1, <2>3, <2>4, <2>5
<1> HIDE DEF r, p, o, y
<1>5. /\ l.parent[q] = p /\ l.optr[q] = o /\ l.yptr[q] = y
      /\ \A x, z \in Proc : l.cptr[x] = z <=> l.parent[z] = x /\ l.yptr[z] = Nil
      /\ \A x, z \in Proc : l.yptr[z] = x <=> l.optr[x] = z
      /\ \A x, z \in Proc : l.optr[x] = z => l.parent[z] = l.parent[x] /\ l.parent[x] # Nil
  BY DEF Tree, p, o, y
<1>6. ASSUME NEW x \in Proc, NEW z \in Proc
      PROVE  r.cptr[x] = z <=> r.parent[z] = x /\ r.yptr[z] = Nil
  <2>1. CASE z = q
    BY <1>1, <1>2, <1>3, <1>4, <1>5, <2>1
  <2>2. CASE z # q /\ z = o
    BY <1>1, <1>2, <1>3, <1>4, <1>5, <2>2
  <2>3. CASE z # q /\ z # o
    BY <1>1, <1>2, <1>3, <1>4, <1>5, <2>3
  <2> QED
    BY <2>1, <2>2, <2>3
<1>7. \A x, z \in Proc : r.yptr[z] = x <=> r.optr[x] = z
  BY <1>1, <1>2, <1>3, <1>4, <1>5
<1>8. \A x, z \in Proc : r.optr[x] = z => r.parent[z] = r.parent[x] /\ r.parent[x] # Nil
  BY <1>1, <1>2, <1>3, <1>4, <1>5
<1>9. ASSUME NEW S \in SUBSET Proc, S # {}
      PROVE  \E x \in S : r.yptr[x] \notin S
  <2>1. CASE q \in S
    BY <1>1, <1>3, <2>1
  <2>2. CASE q \notin S
    <3>1. PICK x \in S : l.yptr[x] \notin S
      BY <1>9 DEF Tree
    <3>2. CASE x # o \/ y \notin S
      BY <1>3, <2>2, <3>1, <3>2
    <3>3. CASE x = o /\ y \in S
      <4>1. S \cup {q} \in SUBSET Proc /\ S \cup {q} # {}
        OBVIOUS
      <4>2. PICK z \in S \cup {q} : l.yptr[z] \notin S \cup {q}
        BY <4>1 DEF Tree
      <4>3. z \in S /\ z # q /\ z # o
        BY <1>4, <1>5, <3>3, <4>2
      <4> QED
        BY <1>3, <4>2, <4>3
    <3> QED
      BY <3>2, <3>3
  <2> QED
    BY <2>1, <2>2
<1> QED
  BY <1>3, <1>6, <1>7, <1>8, <1>9 DEF Tree, r

\* Inside the loop of __do_exit the first child that is left still has the yptr
\* of the one before it.  Repaired(l, from) is the tree without that.
Repaired(l, from) ==
  [l EXCEPT !.yptr = [r \in Proc |-> IF r = l.cptr[from] THEN Nil ELSE l.yptr[r]]]

\* One iteration of the loop of __do_exit: the first child of one process becomes the
\* first child of the other.
LEMMA HandOverTree ==
  ASSUME NEW l \in LinksType, NEW from \in Proc, NEW to \in Proc, from # to,
         Tree(Repaired(l, from))
  PROVE  /\ HandOver(l, from, to) \in LinksType
         /\ Tree(Repaired(HandOver(l, from, to), from))
         /\ l.cptr[from] = Nil => HandOver(l, from, to) = l
         /\ l.cptr[from] # Nil =>
               /\ l.cptr[from] \in Proc /\ l.parent[l.cptr[from]] = from
               /\ HandOver(l, from, to).parent
                     = [l.parent EXCEPT ![l.cptr[from]] = to]
<1> DEFINE c == l.cptr[from]
           h == HandOver(l, from, to)
           R == Repaired(l, from)
<1>1. /\ Nil \notin Proc /\ c \in Proc \cup {Nil}
      /\ l.parent \in [Proc -> Proc \cup {Nil}] /\ l.cptr \in [Proc -> Proc \cup {Nil}]
      /\ l.optr \in [Proc -> Proc \cup {Nil}] /\ l.yptr \in [Proc -> Proc \cup {Nil}]
  BY ProcAssumption DEF LinksType
<1>2. CASE c = Nil
  BY <1>2 DEF HandOver
<1>3. CASE c # Nil
  <2> DEFINE U == UnlinkChild(R, c)
             K == LinkChild(U, c, to)
             o == l.optr[c]
             old == l.cptr[to]
  <2>1. /\ R \in LinksType /\ R.parent = l.parent /\ R.cptr = l.cptr /\ R.optr = l.optr
        /\ \A x \in Proc : R.yptr[x] = IF x = c THEN Nil ELSE l.yptr[x]
    BY <1>1 DEF Repaired, LinksType
  <2>2. c \in Proc /\ l.parent[c] = from /\ R.yptr[c] = Nil
        /\ o \in Proc \cup {Nil} /\ old \in Proc \cup {Nil}
    BY <1>1, <1>3, <2>1 DEF Tree
  <2>3. o # c /\ old # c /\ (o # Nil => o # old)
    <3>1. old # Nil => l.parent[old] = to
      BY <1>1, <2>1, <2>2 DEF Tree
    <3>2. o # Nil => l.parent[o] = from /\ R.yptr[o] = c
      BY <1>1, <2>1, <2>2 DEF Tree
    <3> QED
      BY <1>1, <2>1, <2>2, <3>1, <3>2
  <2>4. h = LinkChild([l EXCEPT !.cptr[from] = o], c, to)
    BY <1>3 DEF HandOver
  <2>5. /\ h \in LinksType /\ h.parent = [l.parent EXCEPT ![c] = to]
        /\ h.cptr = [x \in Proc |-> IF x = to THEN c ELSE IF x = from THEN o ELSE l.cptr[x]]
        /\ h.optr = [x \in Proc |-> IF x = c THEN old ELSE l.optr[x]]
        /\ h.yptr = [x \in Proc |-> IF x = c THEN Nil ELSE IF x = old THEN c ELSE l.yptr[x]]
    BY <1>1, <2>2, <2>4 DEF LinkChild, LinksType
  <2>6. Tree(U) /\ U.parent = [l.parent EXCEPT ![c] = Nil]
    BY <2>1, <2>2, UnlinkChildTree
  <2>7. /\ U.cptr = [x \in Proc |-> IF x = from THEN o ELSE l.cptr[x]]
        /\ U.optr = [x \in Proc |-> IF x = c THEN Nil ELSE l.optr[x]]
        /\ U.yptr = [x \in Proc |-> IF x = c \/ x = o THEN Nil ELSE l.yptr[x]]
    <3>1. /\ U.cptr = [l.cptr EXCEPT ![from] = o]
          /\ U.optr = [x \in Proc |-> IF x = c THEN Nil ELSE IF x = Nil THEN o ELSE l.optr[x]]
          /\ U.yptr = [x \in Proc |-> IF x = c THEN Nil ELSE IF x = o THEN Nil ELSE R.yptr[x]]
      BY <2>1, <2>2 DEF UnlinkChild
    <3> QED
      BY <1>1, <2>1, <3>1
  <2> HIDE DEF U, R, h, c, o, old
  <2>8. Tree(K)
    <3>1. U.parent[c] = Nil
      BY <1>1, <2>2, <2>6
    <3> QED
      BY <2>2, <2>6, <3>1, LinkChildTree
  <2>9. K = Repaired(h, from)
    <3>1. /\ K = [parent |-> [U.parent EXCEPT ![c] = to],
                  cptr |-> [U.cptr EXCEPT ![to] = c],
                  optr |-> [U.optr EXCEPT ![c] = U.cptr[to]],
                  yptr |-> [x \in Proc |-> IF x = c THEN Nil
                                           ELSE IF x = U.cptr[to] THEN c ELSE U.yptr[x]]]
      BY DEF LinkChild
    <3>2. U.cptr[to] = old
      BY <2>7 DEF old
    <3>3. [U.parent EXCEPT ![c] = to] = h.parent
      BY <1>1, <2>2, <2>5, <2>6
    <3>4. [U.cptr EXCEPT ![to] = c] = h.cptr
      BY <1>1, <2>5, <2>7
    <3>5. [U.optr EXCEPT ![c] = U.cptr[to]] = h.optr
      BY <1>1, <2>2, <2>5, <2>7, <3>2
    <3>6. h.cptr[from] = o
      BY <2>5
    <3>7. [x \in Proc |-> IF x = c THEN Nil ELSE IF x = U.cptr[to] THEN c ELSE U.yptr[x]]
            = [x \in Proc |-> IF x = h.cptr[from] THEN Nil ELSE h.yptr[x]]
      BY <1>1, <2>2, <2>3, <2>5, <2>7, <3>2, <3>6
    <3>8. K = [parent |-> h.parent, cptr |-> h.cptr, optr |-> h.optr,
               yptr |-> [x \in Proc |-> IF x = h.cptr[from] THEN Nil ELSE h.yptr[x]]]
      BY <3>1, <3>3, <3>4, <3>5, <3>7
    <3> QED
      BY <2>5, <3>8 DEF Repaired, LinksType
  <2> QED
    BY <1>3, <2>2, <2>5, <2>8, <2>9 DEF c, h
<1> QED
  BY <1>2, <1>3

-----------------------------------------------------------------------------
(* The three loops over N elements. *)

\* Proc is finite, so the walks of N steps are long enough.
LEMMA Finite == N \in Nat /\ Nil \notin Proc /\ InitProc \in Proc /\ Kswapd \in Proc
BY ProcAssumption, FS_CardinalityType DEF N

\* w goes from base along f, for n steps.
Walks(w, n, T, base, f) ==
  /\ w \in [0 .. n -> T] /\ w[0] = base
  /\ \A i \in 1 .. n : w[i] = f[w[i - 1]]

\* A walk of n steps exists.
LEMMA WalkExists ==
  ASSUME NEW n \in Nat, NEW T, NEW base \in T, NEW f \in [T -> T]
  PROVE  \E w : Walks(w, n, T, base, f)
<1> DEFINE F == [i \in 1 .. n |-> f]
<1>1. F \in [1 .. n -> [T -> T]]
  OBVIOUS
<1>2. \A i \in 1 .. n : F[i] = f
  OBVIOUS
<1> HIDE DEF F
<1>3. PICK g : LoopsBy(g, n, T, base, F)
  BY <1>1, LoopFunctionExists
<1> QED
  BY <1>2, <1>3 DEF LoopsBy, Walks

\* Group(p) is Orbit(next, p).
Orbit(g, p) ==
  LET nth[i \in 0 .. N] == IF i = 0 THEN p ELSE g[nth[i - 1]]
  IN  {nth[i] : i \in DOMAIN nth}

\* The threads of a group lie on a walk of N steps.
LEMMA OrbitWalk ==
  ASSUME NEW g \in [Proc -> Proc], NEW p \in Proc
  PROVE  \E w : Walks(w, N, Proc, p, g) /\ Orbit(g, p) = {w[i] : i \in 0 .. N}
<1> DEFINE E(h) == h = [i \in 0 .. N |-> IF i = 0 THEN p ELSE g[h[i - 1]]]
           w == CHOOSE h : E(h)
<1>1. \E h : E(h)
  <2>1. PICK v : Walks(v, N, Proc, p, g)
    BY Finite, WalkExists
  <2>2. v = [i \in 0 .. N |-> IF i = 0 THEN p ELSE g[v[i - 1]]]
    BY <2>1, Finite DEF Walks
  <2> QED
    BY <2>2
<1>2. E(w)
  <2> HIDE DEF E
  <2> QED
    BY <1>1
<1>3. Orbit(g, p) = {w[i] : i \in DOMAIN w}
  BY Zenon DEF Orbit
<1> HIDE DEF w
<1>4. DOMAIN w = 0 .. N /\ w[0] = p /\ \A i \in 1 .. N : w[i] = g[w[i - 1]]
  BY <1>2, Finite
<1>5. \A i \in 0 .. N : w[i] \in Proc
  <2> DEFINE S == {i \in 0 .. N : w[i] \in Proc}
  <2>1. 0 \in S
    BY <1>4, Finite
  <2>2. ASSUME NEW k \in 1 .. N, k - 1 \in S
        PROVE  k \in S
    BY <1>4, <2>2, Finite
  <2> HIDE DEF S
  <2>3. \A k \in 0 .. N : k \in S
    BY <2>1, <2>2, Finite, UpToInduction
  <2> QED
    BY <2>3 DEF S
<1>6. w \in [0 .. N -> Proc]
  BY <1>2, <1>4, <1>5
<1> QED
  BY <1>3, <1>4, <1>6 DEF Walks

\* w lists the children of p and goes on with Nil.
Lists(w, l, p) ==
  /\ w \in [0 .. N -> Proc \cup {Nil}] /\ w[0] = l.cptr[p]
  /\ \A i \in 1 .. N : w[i] = IF w[i - 1] = Nil THEN Nil ELSE l.optr[w[i - 1]]
  /\ Children(l, p) = {w[i] : i \in 0 .. N} \ {Nil}

\* The children of p lie on a walk of N steps.
LEMMA ChildrenWalk ==
  ASSUME NEW l \in LinksType, NEW p \in Proc
  PROVE  \E w : Lists(w, l, p)
<1> DEFINE T == Proc \cup {Nil}
           f == [x \in T |-> IF x = Nil THEN Nil ELSE l.optr[x]]
           E(h) == h = [i \in 0 .. N |-> IF i = 0 THEN l.cptr[p]
                                         ELSE IF h[i - 1] = Nil THEN Nil
                                         ELSE l.optr[h[i - 1]]]
           w == CHOOSE h : E(h)
<1>0. /\ l.cptr[p] \in T /\ f \in [T -> T]
      /\ \A x \in T : f[x] = IF x = Nil THEN Nil ELSE l.optr[x]
  BY DEF LinksType
<1> HIDE DEF f
<1>1. \E h : E(h)
  <2>1. PICK g : Walks(g, N, T, l.cptr[p], f)
    <3> HIDE DEF T
    <3> QED
      BY <1>0, Finite, WalkExists
  <2>2. g = [i \in 0 .. N |-> IF i = 0 THEN l.cptr[p] ELSE IF g[i - 1] = Nil THEN Nil
                              ELSE l.optr[g[i - 1]]]
    <3>1. /\ g \in [0 .. N -> T] /\ g[0] = l.cptr[p]
          /\ \A i \in 1 .. N : g[i] = f[g[i - 1]]
      BY <2>1 DEF Walks
    <3>2. \A i \in 1 .. N : g[i] = IF g[i - 1] = Nil THEN Nil ELSE l.optr[g[i - 1]]
      <4> TAKE i \in 1 .. N
      <4>1. g[i - 1] \in T /\ g[i] = f[g[i - 1]]
        BY <3>1, Finite
      <4> QED
        BY <1>0, <4>1
    <3> HIDE DEF T
    <3> QED
      BY <3>1, <3>2, Finite
  <2> QED
    BY <2>2
<1>2. E(w)
  <2> HIDE DEF E
  <2> QED
    BY <1>1
<1>3. Children(l, p) = {w[i] : i \in DOMAIN w} \ {Nil}
  BY Zenon DEF Children
<1> HIDE DEF w
<1>4. /\ DOMAIN w = 0 .. N /\ w[0] = l.cptr[p]
      /\ \A i \in 1 .. N : w[i] = IF w[i - 1] = Nil THEN Nil ELSE l.optr[w[i - 1]]
  BY <1>2, Finite
<1>5. \A i \in 0 .. N : w[i] \in T
  <2> DEFINE S == {i \in 0 .. N : w[i] \in T}
  <2>1. 0 \in S
    BY <1>0, <1>4, Finite
  <2>2. ASSUME NEW k \in 1 .. N, k - 1 \in S
        PROVE  k \in S
    BY <1>4, <2>2, Finite DEF LinksType
  <2> HIDE DEF S
  <2>3. \A k \in 0 .. N : k \in S
    BY <2>1, <2>2, Finite, UpToInduction
  <2> QED
    BY <2>3 DEF S
<1>6. w \in [0 .. N -> T]
  <2> HIDE DEF T
  <2> QED
    BY <1>2, <1>4, <1>5
<1>7. Children(l, p) = {w[i] : i \in 0 .. N} \ {Nil}
  BY <1>3, <1>4
<1>8. Lists(w, l, p)
  BY <1>4, <1>6, <1>7 DEF Lists
<1> QED
  BY <1>8

\* From cptr along optr one meets exactly the processes whose parent it is.
LEMMA ChildrenExact ==
  ASSUME NEW l, Tree(l), NEW p \in Proc
  PROVE  Children(l, p) = {q \in Proc : l.parent[q] = p}
<1> DEFINE K == {q \in Proc : l.parent[q] = p}
           C == Children(l, p)
<1>1. /\ l \in LinksType /\ Nil \notin Proc
      /\ l.parent \in [Proc -> Proc \cup {Nil}] /\ l.cptr \in [Proc -> Proc \cup {Nil}]
      /\ l.optr \in [Proc -> Proc \cup {Nil}] /\ l.yptr \in [Proc -> Proc \cup {Nil}]
  BY Finite DEF Tree, LinksType
<1>2. PICK w : /\ w \in [0 .. N -> Proc \cup {Nil}] /\ w[0] = l.cptr[p]
               /\ \A i \in 1 .. N :
                     w[i] = IF w[i - 1] = Nil THEN Nil ELSE l.optr[w[i - 1]]
               /\ C = {w[i] : i \in 0 .. N} \ {Nil}
  BY <1>1, ChildrenWalk DEF Lists
<1> HIDE DEF C
<1>3. \A i \in 0 .. N : w[i] \in K \cup {Nil}
  <2> DEFINE S == {i \in 0 .. N : w[i] \in K \cup {Nil}}
  <2>1. 0 \in S
    BY <1>1, <1>2, Finite DEF Tree
  <2>2. ASSUME NEW k \in 1 .. N, k - 1 \in S
        PROVE  k \in S
    <3>1. k - 1 \in 0 .. N /\ k \in 0 .. N
      BY Finite
    <3>2. CASE w[k - 1] = Nil
      BY <1>2, <3>1, <3>2
    <3>3. CASE w[k - 1] # Nil
      <4>1. w[k - 1] \in Proc /\ l.parent[w[k - 1]] = p /\ w[k] = l.optr[w[k - 1]]
        BY <1>2, <2>2, <3>3
      <4> QED
        BY <1>1, <3>1, <4>1 DEF Tree
    <3> QED
      BY <3>2, <3>3
  <2> HIDE DEF S
  <2>3. \A k \in 0 .. N : k \in S
    BY <2>1, <2>2, Finite, UpToInduction
  <2> QED
    BY <2>3 DEF S
\* No process is met twice, so that the walk has ended after N steps.
<1>4. \A i, j \in 0 .. N : i < j /\ w[i] = w[j] => w[i] = Nil
  <2> DEFINE S == {i \in 0 .. N : \A j \in 0 .. N : i < j /\ w[i] = w[j] => w[i] = Nil}
  <2>1. 0 \in S
    <3>1. SUFFICES ASSUME NEW j \in 0 .. N, 0 < j, w[0] = w[j], w[0] # Nil
                   PROVE  FALSE
      BY <3>1, Finite
    <3>2. j \in 1 .. N /\ j - 1 \in 0 .. N
      BY <3>1, Finite
    <3>3. w[j - 1] \in Proc /\ w[j] \in Proc /\ w[j] = l.optr[w[j - 1]]
      BY <1>1, <1>2, <3>1, <3>2
    <3>4. l.yptr[w[j]] = w[j - 1]
      BY <1>1, <3>3 DEF Tree
    <3>5. l.yptr[w[0]] = Nil
      <4>1. w[0] \in Proc /\ l.cptr[p] = w[0]
        BY <1>2, <3>1, <3>3
      <4> QED
        BY <4>1 DEF Tree
    <3> QED
      BY <1>1, <3>1, <3>3, <3>4, <3>5
  <2>2. ASSUME NEW k \in 1 .. N, k - 1 \in S
        PROVE  k \in S
    <3>1. SUFFICES ASSUME NEW j \in 0 .. N, k < j, w[k] = w[j], w[k] # Nil
                   PROVE  FALSE
      BY <3>1, Finite
    <3>2. /\ j \in 1 .. N /\ j - 1 \in 0 .. N /\ k - 1 \in 0 .. N /\ k - 1 < j - 1
          /\ k \in 0 .. N
      BY <3>1, Finite
    <3>3. /\ w[j - 1] \in Proc /\ w[j] = l.optr[w[j - 1]] /\ w[j] \in Proc
          /\ w[k - 1] \in Proc /\ w[k] = l.optr[w[k - 1]]
      BY <1>1, <1>2, <3>1, <3>2
    <3>4. w[j - 1] = w[k - 1]
      BY <1>1, <3>1, <3>3 DEF Tree
    <3> QED
      BY <1>1, <2>2, <3>2, <3>3, <3>4
  <2> HIDE DEF S
  <2>3. \A k \in 0 .. N : k \in S
    BY <2>1, <2>2, Finite, UpToInduction
  <2> QED
    BY <2>3 DEF S
<1>5. w[N] = Nil
  <2>1. SUFFICES ASSUME w[N] # Nil
                 PROVE  FALSE
    BY <2>1
  <2>2. \A i \in 0 .. N : w[i] # Nil
    <3> DEFINE S == {i \in 0 .. N : w[N - i] # Nil}
    <3>1. 0 \in S
      BY <2>1, Finite
    <3>2. ASSUME NEW k \in 1 .. N, k - 1 \in S
          PROVE  k \in S
      <4>1. /\ N - (k - 1) \in 1 .. N /\ (N - (k - 1)) - 1 = N - k /\ k \in 0 .. N
            /\ w[N - (k - 1)] # Nil
        BY <3>2, Finite
      <4> QED
        BY <1>2, <4>1
    <3> HIDE DEF S
    <3>3. \A k \in 0 .. N : k \in S
      BY <3>1, <3>2, Finite, UpToInduction
    <3>4. \A i \in 0 .. N : N - i \in 0 .. N /\ N - (N - i) = i
      BY Finite
    <3> QED
      BY <3>3, <3>4 DEF S
  <2>3. w \in [0 .. N -> Proc]
    BY <1>2, <2>2
  <2>4. IsFiniteSet(0 .. N) /\ Cardinality(0 .. N) = N + 1
    BY Finite, FS_Interval
  <2>5. IsFiniteSet(Proc) /\ Cardinality(Proc) < Cardinality(0 .. N)
    BY ProcAssumption, Finite, <2>4 DEF N
  <2>6. PICK i \in 0 .. N, j \in 0 .. N : i # j /\ w[i] = w[j]
    BY <2>3, <2>4, <2>5, FS_PigeonHole
  <2> QED
    BY <1>4, <2>2, <2>6, Finite
<1>6. \A x \in C : l.optr[x] \in Proc => l.optr[x] \in C
  <2>1. SUFFICES ASSUME NEW x \in C, l.optr[x] \in Proc
                 PROVE  l.optr[x] \in C
    BY <2>1
  <2>2. PICK i \in 0 .. N : x = w[i] /\ w[i] # Nil
    BY <1>2
  <2>3. i + 1 \in 1 .. N /\ (i + 1) - 1 = i /\ i + 1 \in 0 .. N
    BY <1>5, <2>2, Finite
  <2>4. w[i + 1] = l.optr[x]
    BY <1>2, <2>2, <2>3
  <2> QED
    BY <1>1, <1>2, <2>1, <2>3, <2>4
<1>7. C \subseteq K
  BY <1>2, <1>3
<1>8. K \subseteq C
  <2> DEFINE S == K \ C
  <2>1. SUFFICES ASSUME S # {}
                 PROVE  FALSE
    BY <2>1
  <2>2. S \in SUBSET Proc
    OBVIOUS
  <2>3. PICK x \in S : l.yptr[x] \notin S
    BY <2>1, <2>2 DEF Tree
  <2>4. x \in Proc /\ l.parent[x] = p /\ x \notin C
    OBVIOUS
  <2>5. CASE l.yptr[x] = Nil
    <3>1. l.cptr[p] = x
      BY <2>4, <2>5 DEF Tree
    <3>2. 0 \in 0 .. N
      BY Finite
    <3> QED
      BY <1>1, <1>2, <2>4, <3>1, <3>2
  <2>6. CASE l.yptr[x] # Nil
    <3> DEFINE y == l.yptr[x]
    <3>1. y \in Proc /\ l.optr[y] = x /\ l.parent[y] = p
      BY <1>1, <2>4, <2>6 DEF Tree
    <3>2. y \in C
      BY <2>3, <3>1
    <3> QED
      BY <1>6, <2>4, <3>1, <3>2
  <2> QED
    BY <2>5, <2>6
<1> QED
  BY <1>7, <1>8 DEF C

\* A parent without cptr has no child.
LEMMA NoFirstChild ==
  ASSUME NEW l, Tree(l), NEW p \in Proc, l.cptr[p] = Nil, NEW q \in Proc
  PROVE  l.parent[q] # p
<1> DEFINE K == {x \in Proc : l.parent[x] = p}
<1>1. SUFFICES ASSUME l.parent[q] = p
               PROVE  FALSE
  BY <1>1
<1>2. /\ l \in LinksType /\ Nil \notin Proc /\ l.yptr \in [Proc -> Proc \cup {Nil}]
  BY Finite DEF Tree, LinksType
<1>3. K \in SUBSET Proc /\ q \in K
  BY <1>1
<1>4. PICK x \in K : l.yptr[x] \notin K
  BY <1>3 DEF Tree
<1>5. x \in Proc /\ l.parent[x] = p
  BY <1>4
<1>6. l.yptr[x] # Nil
  BY <1>2, <1>5 DEF Tree
<1>7. l.yptr[x] \in Proc /\ l.optr[l.yptr[x]] = x
  BY <1>2, <1>5, <1>6 DEF Tree
<1>8. l.parent[l.yptr[x]] = p
  BY <1>5, <1>7 DEF Tree
<1> QED
  BY <1>4, <1>7, <1>8

\* An iteration of the loop keeps the types of the pointers.
LEMMA HandOverType ==
  ASSUME NEW l \in LinksType, NEW from \in Proc, NEW to \in Proc
  PROVE  HandOver(l, from, to) \in LinksType
<1> DEFINE c == l.cptr[from]
           m == [l EXCEPT !.cptr[from] = l.optr[c]]
<1>1. CASE c = Nil
  BY <1>1 DEF HandOver
<1>2. CASE c # Nil
  <2>1. c \in Proc /\ m \in LinksType
    BY <1>2 DEF LinksType
  <2>2. HandOver(l, from, to) = LinkChild(m, c, to)
    BY <1>2 DEF HandOver
  <2> HIDE DEF m, c
  <2>3. m.cptr[to] \in Proc \cup {Nil}
    BY <2>1 DEF LinksType
  <2> QED
    BY <2>1, <2>2, <2>3 DEF LinkChild, LinksType
<1> QED
  BY <1>1, <1>2

\* The loop of __do_exit: all children of from become children of to, and the
\* tree is consistent again.
LEMMA HandOverAllTree ==
  ASSUME Tree(links), NEW from \in Proc, NEW to \in Proc, from # to
  PROVE  /\ Tree(HandOverAll(from, to))
         /\ \A q \in Proc : HandOverAll(from, to).parent[q]
               = IF links.parent[q] = from THEN to ELSE links.parent[q]
<1> DEFINE E(h) == h = [i \in 0 .. N |-> IF i = 0 THEN links
                                         ELSE HandOver(h[i - 1], from, to)]
           a == CHOOSE h : E(h)
           f == [l \in LinksType |-> HandOver(l, from, to)]
<1>0. links \in LinksType /\ Nil \notin Proc
  BY Finite DEF Tree
<1>1. /\ f \in [LinksType -> LinksType]
      /\ \A l \in LinksType : f[l] = HandOver(l, from, to)
  BY HandOverType
<1> HIDE DEF f
<1>2. \E h : E(h)
  <2>1. PICK g : Walks(g, N, LinksType, links, f)
    BY <1>0, <1>1, Finite, WalkExists
  <2>2. /\ g \in [0 .. N -> LinksType] /\ g[0] = links
        /\ \A i \in 1 .. N : g[i] = f[g[i - 1]]
    BY <2>1 DEF Walks
  <2>3. \A i \in 1 .. N : g[i] = HandOver(g[i - 1], from, to)
    <3> TAKE i \in 1 .. N
    <3>1. g[i - 1] \in LinksType /\ g[i] = f[g[i - 1]]
      BY <2>2, Finite
    <3> QED
      BY <1>1, <3>1
  <2>4. g = [i \in 0 .. N |-> IF i = 0 THEN links ELSE HandOver(g[i - 1], from, to)]
    BY <2>2, <2>3, Finite
  <2> QED
    BY <2>4
<1>3. E(a)
  <2> HIDE DEF E
  <2> QED
    BY <1>2
<1>4. HandOverAll(from, to) = a[N]
  BY Zenon DEF HandOverAll
<1> HIDE DEF a
<1>5. a[0] = links /\ \A i \in 1 .. N : a[i] = HandOver(a[i - 1], from, to)
  BY <1>3, Finite
<1> DEFINE Kids(i) == {q \in Proc : a[i].parent[q] = from}
           P(i) == /\ a[i] \in LinksType /\ Tree(Repaired(a[i], from))
                   /\ \A q \in Proc :
                         IF links.parent[q] = from THEN a[i].parent[q] \in {from, to}
                         ELSE a[i].parent[q] = links.parent[q]
                   /\ a[i].cptr[from] = Nil \/ Cardinality(Kids(i)) <= N - i
           S == {i \in 0 .. N : P(i)}
<1>6. \A i \in 0 .. N : IsFiniteSet(Kids(i)) /\ Cardinality(Kids(i)) \in Nat
  BY ProcAssumption, FS_Subset, FS_CardinalityType
<1>7. 0 \in S
  <2>1. Tree(Repaired(links, from))
    <3>1. /\ links.yptr \in [Proc -> Proc \cup {Nil}] /\ links.cptr[from] \in Proc \cup {Nil}
      BY <1>0 DEF LinksType
    <3>2. links.cptr[from] \in Proc => links.yptr[links.cptr[from]] = Nil
      BY DEF Tree
    <3>3. [r \in Proc |-> IF r = links.cptr[from] THEN Nil ELSE links.yptr[r]]
            = links.yptr
      BY <1>0, <3>1, <3>2
    <3>4. Repaired(links, from) = links
      BY <1>0, <3>3 DEF Repaired, LinksType
    <3> QED
      BY <3>4
  <2>2. Kids(0) \in SUBSET Proc /\ 0 \in 0 .. N
    BY Finite
  <2>3. Cardinality(Kids(0)) <= N
    <3> HIDE DEF Kids
    <3> QED
      BY <2>2, ProcAssumption, FS_Subset DEF N
  <2>4. N - 0 = N
    BY Finite
  <2> QED
    BY <1>0, <1>5, <2>1, <2>2, <2>3, <2>4
<1>8. ASSUME NEW k \in 1 .. N, k - 1 \in S
      PROVE  k \in S
  <2> DEFINE l == a[k - 1]
             h == a[k]
             c == l.cptr[from]
  <2>1. P(k - 1) /\ k - 1 \in 0 .. N /\ k \in 0 .. N
    BY <1>8, Finite
  <2>2. l \in LinksType /\ Tree(Repaired(l, from)) /\ h = HandOver(l, from, to)
    BY <1>5, <2>1
  <2> HIDE DEF l
  <2>3. /\ HandOver(l, from, to) \in LinksType
        /\ Tree(Repaired(HandOver(l, from, to), from))
        /\ c = Nil => HandOver(l, from, to) = l
        /\ c # Nil => /\ c \in Proc /\ l.parent[c] = from
                      /\ HandOver(l, from, to).parent = [l.parent EXCEPT ![c] = to]
    BY <2>2, HandOverTree
  <2>4. /\ h \in LinksType /\ Tree(Repaired(h, from)) /\ (c = Nil => h = l)
        /\ c # Nil => /\ c \in Proc /\ l.parent[c] = from
                      /\ h.parent = [l.parent EXCEPT ![c] = to]
    BY <2>2, <2>3
  <2> HIDE DEF h
  <2>5. l.parent \in [Proc -> Proc \cup {Nil}]
    BY <2>2 DEF LinksType
  <2>6. \A q \in Proc : IF links.parent[q] = from THEN h.parent[q] \in {from, to}
                        ELSE h.parent[q] = links.parent[q]
    <3>1. \A q \in Proc : IF links.parent[q] = from THEN l.parent[q] \in {from, to}
                          ELSE l.parent[q] = links.parent[q]
      BY <2>1 DEF l
    <3> QED
      BY <2>4, <2>5, <3>1
  <2>7. h.cptr[from] = Nil \/ Cardinality(Kids(k)) <= N - k
    <3>1. CASE c = Nil
      BY <2>4, <3>1
    <3>2. CASE c # Nil
      <4>1. Cardinality(Kids(k - 1)) <= N - (k - 1)
        BY <2>1, <3>2 DEF l
      <4>2. Kids(k) = Kids(k - 1) \ {c} /\ c \in Kids(k - 1)
        BY <2>4, <2>5, <3>2 DEF l, h
      <4>3. IsFiniteSet(Kids(k - 1)) /\ Cardinality(Kids(k - 1)) \in Nat
        BY <1>6, <2>1
      <4> HIDE DEF Kids
      <4>4. Cardinality(Kids(k)) = Cardinality(Kids(k - 1)) - 1
        <5> DEFINE B == Kids(k - 1)
        <5>1. IsFiniteSet(B) /\ c \in B
          BY <4>2, <4>3
        <5>2. Kids(k) = B \ {c}
          BY <4>2
        <5> HIDE DEF B, c
        <5>3. Cardinality(B \ {c}) = Cardinality(B) - 1
          BY <5>1, FS_RemoveElement
        <5> QED
          BY <5>2, <5>3 DEF B
      <4> QED
        BY <4>1, <4>3, <4>4, Finite
    <3> QED
      BY <3>1, <3>2
  <2> QED
    BY <2>1, <2>4, <2>6, <2>7 DEF h
<1>9. N \in S
  <2> HIDE DEF S
  <2>1. \A k \in 0 .. N : k \in S
    BY <1>7, <1>8, Finite, UpToInduction
  <2> QED
    BY <2>1, Finite
<1> DEFINE l == a[N]
<1>10. P(N)
  BY <1>9
<1>11. /\ l \in LinksType /\ Tree(Repaired(l, from))
       /\ Repaired(l, from).cptr = l.cptr /\ Repaired(l, from).parent = l.parent
       /\ l.yptr \in [Proc -> Proc \cup {Nil}] /\ l.cptr[from] \in Proc \cup {Nil}
  BY <1>10 DEF Repaired, LinksType
<1>12. l.cptr[from] = Nil
  <2>1. SUFFICES ASSUME l.cptr[from] # Nil
                 PROVE  FALSE
    BY <2>1
  <2>2. l.parent[l.cptr[from]] = from /\ l.cptr[from] \in Proc
    BY <1>11, <2>1 DEF Tree
  <2>3. Cardinality(Kids(N)) <= N - N /\ l.cptr[from] \in Kids(N)
    BY <1>10, <2>1, <2>2
  <2>4. IsFiniteSet(Kids(N)) /\ Cardinality(Kids(N)) \in Nat
    BY <1>6, Finite
  <2> HIDE DEF Kids
  <2>5. Cardinality(Kids(N)) = 0
    BY <2>3, <2>4, Finite
  <2>6. Kids(N) = {}
    BY <2>4, <2>5, FS_EmptySet
  <2> QED
    BY <2>3, <2>6
<1>13. Repaired(l, from) = l
  <2>1. [r \in Proc |-> IF r = l.cptr[from] THEN Nil ELSE l.yptr[r]] = l.yptr
    BY <1>0, <1>11, <1>12
  <2> QED
    BY <1>11, <2>1 DEF Repaired, LinksType
<1>14. Tree(l) /\ \A q \in Proc : l.parent[q] # from
  BY <1>11, <1>12, <1>13, NoFirstChild
<1> QED
  BY <1>4, <1>10, <1>14

-----------------------------------------------------------------------------
(* The rings of threads. *)

\* The links of the thread groups form rings.
Ring(g) ==
  /\ g \in [Proc -> Proc]
  /\ \A p, q \in Proc : g[p] = g[q] => p = q
  /\ \A p \in Proc : \E q \in Proc : g[q] = p

\* The ring of p lies in every set that is closed under next_thread and holds p.
LEMMA OrbitLeast ==
  ASSUME NEW g \in [Proc -> Proc], NEW p \in Proc, NEW S \in SUBSET Proc, p \in S,
         \A x \in S : g[x] \in S
  PROVE  Orbit(g, p) \subseteq S
<1>1. PICK w : Walks(w, N, Proc, p, g) /\ Orbit(g, p) = {w[i] : i \in 0 .. N}
  BY OrbitWalk
<1> DEFINE I == {i \in 0 .. N : w[i] \in S}
<1>2. 0 \in I
  BY <1>1, Finite DEF Walks
<1>3. ASSUME NEW k \in 1 .. N, k - 1 \in I
      PROVE  k \in I
  <2>1. k \in 0 .. N /\ w[k] = g[w[k - 1]] /\ w[k - 1] \in S
    BY <1>1, <1>3, Finite DEF Walks
  <2> QED
    BY <2>1
<1> HIDE DEF I
<1>4. \A k \in 0 .. N : k \in I
  BY <1>2, <1>3, Finite, UpToInduction
<1> QED
  BY <1>1, <1>4 DEF I

\* N steps lead through the whole ring.
LEMMA OrbitClosed ==
  ASSUME NEW g \in [Proc -> Proc], NEW p \in Proc
  PROVE  /\ Orbit(g, p) \subseteq Proc /\ p \in Orbit(g, p)
         /\ \A x \in Orbit(g, p) : g[x] \in Orbit(g, p)
<1>1. PICK w : Walks(w, N, Proc, p, g) /\ Orbit(g, p) = {w[i] : i \in 0 .. N}
  BY OrbitWalk
<1>2. /\ w \in [0 .. N -> Proc] /\ w[0] = p
      /\ \A i \in 1 .. N : w[i] = g[w[i - 1]]
  BY <1>1 DEF Walks
<1>3. PICK i \in 0 .. N, j \in 0 .. N : i < j /\ w[i] = w[j]
  <2>1. IsFiniteSet(0 .. N) /\ Cardinality(0 .. N) = N + 1
    BY Finite, FS_Interval
  <2>2. IsFiniteSet(Proc) /\ Cardinality(Proc) < Cardinality(0 .. N)
    BY ProcAssumption, Finite, <2>1 DEF N
  <2>5. w \in [0 .. N -> Proc]
    BY <1>2
  <2>3. PICK x \in 0 .. N, y \in 0 .. N : x # y /\ w[x] = w[y]
    BY <2>1, <2>2, <2>5, FS_PigeonHole
  <2>4. x < y \/ y < x
    BY <2>3, Finite
  <2> QED
    BY <2>3, <2>4
<1> DEFINE I == {k \in 0 .. N - j : w[i + k] = w[j + k]}
<1>4. \A k \in 0 .. N - j : k \in I
  <2>1. N - j \in Nat /\ i + 0 = i /\ j + 0 = j
    BY Finite
  <2>2. 0 \in I
    BY <1>3, <2>1
  <2>3. ASSUME NEW k \in 1 .. N - j, k - 1 \in I
        PROVE  k \in I
    <3>1. /\ k \in 0 .. N - j /\ i + k \in 1 .. N /\ j + k \in 1 .. N
          /\ (i + k) - 1 = i + (k - 1) /\ (j + k) - 1 = j + (k - 1)
      BY <1>3, Finite
    <3>2. w[i + k] = g[w[i + (k - 1)]] /\ w[j + k] = g[w[j + (k - 1)]]
      BY <1>2, <3>1
    <3>3. w[i + (k - 1)] = w[j + (k - 1)]
      BY <2>3
    <3> QED
      BY <3>1, <3>2, <3>3
  <2> HIDE DEF I
  <2> QED
    BY <2>1, <2>2, <2>3, UpToInduction
<1>5. PICK k \in 0 .. N - 1 : w[N] = w[k]
  <2>1. /\ N - j \in 0 .. N - j /\ j + (N - j) = N /\ i + (N - j) \in 0 .. N - 1
    BY <1>3, Finite
  <2>2. w[i + (N - j)] = w[j + (N - j)]
    BY <1>4, <2>1
  <2> QED
    BY <2>1, <2>2
<1>6. ASSUME NEW x \in Orbit(g, p)
      PROVE  g[x] \in Orbit(g, p)
  <2>1. PICK n \in 0 .. N - 1 : x = w[n]
    <3>1. PICK m \in 0 .. N : x = w[m]
      BY <1>1, <1>6
    <3>2. m = N \/ m \in 0 .. N - 1
      BY Finite
    <3> QED
      BY <1>5, <3>1, <3>2
  <2>2. n + 1 \in 1 .. N /\ (n + 1) - 1 = n /\ n + 1 \in 0 .. N
    BY Finite
  <2>3. w[n + 1] = g[x]
    BY <1>2, <2>1, <2>2
  <2> QED
    BY <1>1, <2>2, <2>3
<1>7. p \in Orbit(g, p)
  <2>1. 0 \in 0 .. N
    BY Finite
  <2> QED
    BY <1>1, <1>2, <2>1
<1> QED
  BY <1>1, <1>2, <1>6, <1>7

\* A ring looks the same from each of its threads.
LEMMA OrbitSymmetric ==
  ASSUME NEW g, Ring(g), NEW p \in Proc, NEW q \in Proc, q \in Orbit(g, p)
  PROVE  p \in Orbit(g, q)
<1> DEFINE G == Orbit(g, q)
           f == [y \in G |-> g[y]]
<1>1. g \in [Proc -> Proc] /\ \A x, y \in Proc : g[x] = g[y] => x = y
  BY DEF Ring
<1>2. G \subseteq Proc /\ q \in G /\ \A x \in G : g[x] \in G
  BY <1>1, OrbitClosed
<1> HIDE DEF G
<1>3. IsFiniteSet(G)
  BY <1>2, ProcAssumption, FS_Subset
<1>4. f \in [G -> G] /\ \A x, y \in G : f[x] = f[y] => x = y
  BY <1>1, <1>2
<1>5. f \in Injection(G, G)
  BY <1>4 DEF Injection, IsInjective
<1>6. f \in Surjection(G, G)
  BY <1>3, <1>5, FS_Injection
<1>7. \A x \in G : \E y \in G : g[y] = x
  <2>1. \A x \in G : \E y \in G : f[y] = x
    BY <1>6 DEF Surjection
  <2> QED
    BY <2>1
<1>8. SUFFICES ASSUME p \notin G
               PROVE  FALSE
  BY <1>8 DEF G
<1>9. \A x \in Proc \ G : g[x] \in Proc \ G
  BY <1>1, <1>2, <1>7
<1>10. Orbit(g, p) \subseteq Proc \ G
  BY <1>1, <1>8, <1>9, OrbitLeast
<1> QED
  BY <1>2, <1>10

\* In a ring each thread has one predecessor.
LEMMA PrevOf ==
  ASSUME Ring(next), NEW p \in Proc
  PROVE  /\ Prev(p) \in Proc /\ next[Prev(p)] = p
         /\ \A q \in Proc : next[q] = p => q = Prev(p)
BY DEF Ring, Prev

\* de_thread leaves rings, and p alone.
LEMMA DeThreadRing ==
  ASSUME Ring(next), NEW p \in Proc
  PROVE  /\ Ring(DeThread(p)) /\ DeThread(p)[p] = p
         /\ \A q \in Proc : q # p => DeThread(p)[q] = IF next[q] = p THEN next[p]
                                                      ELSE next[q]
<1> DEFINE g == DeThread(p)
<1>1. /\ Prev(p) \in Proc /\ next[Prev(p)] = p
      /\ \A q \in Proc : next[q] = p => q = Prev(p)
  BY PrevOf
<1>2. next \in [Proc -> Proc] /\ \A x, y \in Proc : next[x] = next[y] => x = y
  BY DEF Ring
<1>3. /\ g \in [Proc -> Proc] /\ g[p] = p
      /\ \A q \in Proc : q # p => g[q] = IF next[q] = p THEN next[p] ELSE next[q]
  BY <1>1, <1>2 DEF DeThread
<1> HIDE DEF g
<1>4. ASSUME NEW x \in Proc, NEW y \in Proc, g[x] = g[y]
      PROVE  x = y
  BY <1>2, <1>3, <1>4
<1>5. ASSUME NEW x \in Proc
      PROVE  \E y \in Proc : g[y] = x
  <2>1. PICK y \in Proc : next[y] = x
    BY DEF Ring
  <2>2. CASE x = p
    BY <1>3, <2>2
  <2>3. CASE x # p /\ y # p
    BY <1>3, <2>1, <2>3
  <2>4. CASE x # p /\ y = p
    <3>1. Prev(p) # p
      BY <1>1, <2>1, <2>4
    <3> QED
      BY <1>1, <1>3, <2>1, <2>4, <3>1
  <2> QED
    BY <2>2, <2>3, <2>4
<1> QED
  BY <1>3, <1>4, <1>5 DEF Ring, g

\* The ring of another thread, once p has left.
LEMMA DeThreadOrbit ==
  ASSUME Ring(next), NEW p \in Proc, NEW q \in Proc, q # p
  PROVE  Orbit(DeThread(p), q) \subseteq Orbit(next, q) \ {p}
<1> DEFINE g == DeThread(p)
           S == Orbit(next, q) \ {p}
<1>1. /\ Ring(g) /\ g[p] = p
      /\ \A x \in Proc : x # p => g[x] = IF next[x] = p THEN next[p] ELSE next[x]
  BY DeThreadRing
<1>2. next \in [Proc -> Proc] /\ (\A x, y \in Proc : next[x] = next[y] => x = y)
      /\ g \in [Proc -> Proc]
  BY <1>1 DEF Ring
<1>3. /\ Orbit(next, q) \subseteq Proc /\ q \in Orbit(next, q)
      /\ \A x \in Orbit(next, q) : next[x] \in Orbit(next, q)
  BY <1>2, OrbitClosed
<1> HIDE DEF g
<1>4. \A x \in S : g[x] \in S
  BY <1>1, <1>2, <1>3
<1>5. S \in SUBSET Proc /\ q \in S
  BY <1>3
<1> HIDE DEF S
<1>6. Orbit(g, q) \subseteq S
  BY <1>2, <1>4, <1>5, OrbitLeast
<1> QED
  BY <1>6 DEF S, g

\* list_add_before leaves rings, and q before p.
LEMMA AddThreadRing ==
  ASSUME Ring(next), NEW p \in Proc, NEW q \in Proc, p # q, next[q] = q
  PROVE  /\ Ring(AddThread(p, q))
         /\ \A x \in Proc : AddThread(p, q)[x] = IF x = q THEN p
                                ELSE IF next[x] = p THEN q ELSE next[x]
<1> DEFINE g == AddThread(p, q)
<1>1. /\ Prev(p) \in Proc /\ next[Prev(p)] = p
      /\ \A x \in Proc : next[x] = p => x = Prev(p)
  BY PrevOf
<1>2. next \in [Proc -> Proc] /\ \A x, y \in Proc : next[x] = next[y] => x = y
  BY DEF Ring
<1>3. /\ g \in [Proc -> Proc]
      /\ \A x \in Proc : g[x] = IF x = q THEN p ELSE IF next[x] = p THEN q ELSE next[x]
  BY <1>1, <1>2 DEF AddThread
<1> HIDE DEF g
<1>4. ASSUME NEW x \in Proc, NEW y \in Proc, g[x] = g[y]
      PROVE  x = y
  BY <1>2, <1>3, <1>4
<1>5. ASSUME NEW x \in Proc
      PROVE  \E y \in Proc : g[y] = x
  <2>1. PICK y \in Proc : next[y] = x
    BY DEF Ring
  <2>2. CASE x = p
    BY <1>3, <2>2
  <2>3. CASE x = q
    BY <1>1, <1>3, <2>3
  <2>4. CASE x # p /\ x # q
    BY <1>3, <2>1, <2>4
  <2> QED
    BY <2>2, <2>3, <2>4
<1> QED
  BY <1>3, <1>4, <1>5 DEF Ring, g

\* The ring of another thread, once q has joined that of p.
LEMMA AddThreadOrbit ==
  ASSUME Ring(next), NEW p \in Proc, NEW q \in Proc, p # q, next[q] = q,
         NEW r \in Proc, r # q
  PROVE  Orbit(AddThread(p, q), r) \subseteq Orbit(next, r) \cup {q}
<1> DEFINE g == AddThread(p, q)
           G == Orbit(next, r)
<1>1. /\ Ring(g)
      /\ \A x \in Proc : g[x] = IF x = q THEN p ELSE IF next[x] = p THEN q ELSE next[x]
  BY AddThreadRing
<1>2. next \in [Proc -> Proc] /\ (\A x, y \in Proc : next[x] = next[y] => x = y)
      /\ g \in [Proc -> Proc]
  BY <1>1 DEF Ring
<1>3. G \subseteq Proc /\ r \in G /\ \A x \in G : next[x] \in G
  BY <1>2, OrbitClosed
<1> HIDE DEF g, G
<1>4. CASE p \in G
  <2> DEFINE S == G \cup {q}
  <2>1. S \in SUBSET Proc /\ r \in S /\ \A x \in S : g[x] \in S
    BY <1>1, <1>3, <1>4
  <2> HIDE DEF S
  <2>2. Orbit(g, r) \subseteq S
    BY <1>2, <2>1, OrbitLeast
  <2> QED
    BY <2>2 DEF S, G, g
<1>5. CASE p \notin G
  <2> DEFINE S == G \ {q}
  <2>1. S \in SUBSET Proc /\ r \in S /\ \A x \in S : g[x] \in S
    BY <1>1, <1>2, <1>3, <1>5
  <2> HIDE DEF S
  <2>2. Orbit(g, r) \subseteq S
    BY <1>2, <2>1, OrbitLeast
  <2> QED
    BY <2>2 DEF S, G, g
<1> QED
  BY <1>4, <1>5

\* A thread that is alone.
LEMMA OrbitSingle ==
  ASSUME NEW g \in [Proc -> Proc], NEW p \in Proc, g[p] = p
  PROVE  Orbit(g, p) = {p}
<1>1. {p} \in SUBSET Proc /\ p \in {p} /\ \A x \in {p} : g[x] \in {p}
  OBVIOUS
<1>2. Orbit(g, p) \subseteq {p}
  BY <1>1, OrbitLeast
<1>3. p \in Orbit(g, p)
  BY OrbitClosed
<1> QED
  BY <1>2, <1>3

-----------------------------------------------------------------------------
(* NoLostWakeup, with the children and the rings in closed form. *)

\* Nobody sleeps in do_wait for a dead child.
NoDeadChild(st, l, g, wf) ==
  \A r, x \in Proc :
    /\ st[r] = "SLEEPING" /\ wf[r] # Nil
    /\ l.parent[x] \in Orbit(g, r)
    /\ wf[r] = AnyChild \/ x = wf[r]
    => st[x] # "ZOMBIE"

\* Candidates for given states, pointers and rings.
CandidatesOf(st, l, g, p, who) ==
  IF who = AnyChild THEN UNION {Children(l, t) : t \in Orbit(g, p)}
  ELSE {q \in {who} : st[q] # "UNINIT" /\ l.parent[q] \in Orbit(g, p)}

\* The children do_wait looks at.
LEMMA CandidatesExact ==
  ASSUME NEW st, NEW l, Tree(l), NEW g \in [Proc -> Proc], NEW p \in Proc,
         \A q \in Proc : l.parent[q] # Nil => st[q] # "UNINIT",
         NEW who \in Proc \cup {AnyChild}
  PROVE  CandidatesOf(st, l, g, p, who)
           = {q \in Proc : l.parent[q] \in Orbit(g, p) /\ (who = AnyChild \/ q = who)}
<1> DEFINE G == Orbit(g, p)
<1>2. G \subseteq Proc
  BY OrbitClosed
<1>3. \A t \in G : Children(l, t) = {q \in Proc : l.parent[q] = t}
  BY <1>2, ChildrenExact
<1>1. CandidatesOf(st, l, g, p, who)
        = IF who = AnyChild THEN UNION {Children(l, t) : t \in G}
          ELSE {q \in {who} : st[q] # "UNINIT" /\ l.parent[q] \in G}
  BY DEF CandidatesOf
<1> HIDE DEF G
<1>4. CASE who = AnyChild
  <2>1. CandidatesOf(st, l, g, p, who) = UNION {Children(l, t) : t \in G}
    BY <1>1, <1>4
  <2> QED
    BY <1>2, <1>3, <1>4, <2>1 DEF G
<1>5. CASE who # AnyChild
  <2>2. who \in Proc /\ (l.parent[who] \in G => st[who] # "UNINIT")
    BY <1>2, <1>5, ProcAssumption
  <2> QED
    BY <1>1, <1>5, <2>2 DEF G
<1> QED
  BY <1>4, <1>5

\* Candidates as a function of the state, of the pointers and of the rings ...
LEMMA CandidatesNow ==
  ASSUME NEW p, NEW who
  PROVE  Candidates(p, who) = CandidatesOf(state, links, next, p, who)
<1>1. Group(p) = Orbit(next, p)
  BY Zenon DEF Group, Orbit
<1> QED
  BY <1>1, Zenon DEF Candidates, CandidatesOf, InUse

\* ... so that NoLostWakeup says the same as NoDeadChild ...
LEMMA WakeupExact ==
  ASSUME Tree(links), next \in [Proc -> Proc], waitFor \in [Proc -> Proc \cup {Nil, AnyChild}],
         \A q \in Proc : links.parent[q] # Nil => InUse(q)
  PROVE  NoLostWakeup <=> NoDeadChild(state, links, next, waitFor)
<1>1. \A p \in Proc : waitFor[p] # Nil =>
        Candidates(p, waitFor[p])
          = {q \in Proc : links.parent[q] \in Orbit(next, p)
                          /\ (waitFor[p] = AnyChild \/ q = waitFor[p])}
  BY CandidatesNow, CandidatesExact DEF InUse
<1> QED
  BY <1>1 DEF NoLostWakeup, NoDeadChild, WaitsForChild

\* ... and in the next state follows from it.
LEMMA WakeupNext ==
  ASSUME Tree(links'), next' \in [Proc -> Proc], waitFor' \in [Proc -> Proc \cup {Nil, AnyChild}],
         \A q \in Proc : links'.parent[q] # Nil => state'[q] # "UNINIT",
         NoDeadChild(state', links', next', waitFor')
  PROVE  NoLostWakeup'
<1>1. ASSUME NEW CONSTANT p \in Proc
      PROVE  Candidates(p, waitFor[p])' = CandidatesOf(state', links', next', p, waitFor'[p])
  <2>1. Group(p)' = Orbit(next', p)
    BY Zenon DEF Group, Orbit
  <2> QED
    BY <2>1, Zenon DEF Candidates, CandidatesOf, InUse
<1>2. \A p \in Proc : waitFor'[p] # Nil =>
        CandidatesOf(state', links', next', p, waitFor'[p])
          = {q \in Proc : links'.parent[q] \in Orbit(next', p)
                          /\ (waitFor'[p] = AnyChild \/ q = waitFor'[p])}
  BY CandidatesExact
<1> QED
  BY <1>1, <1>2 DEF NoLostWakeup, NoDeadChild, WaitsForChild

-----------------------------------------------------------------------------
(* What a step may use, and what it has to show. *)

\* The facts of ProcInv that the steps use.
LEMMA InvFacts ==
  ASSUME ProcInv
  PROVE  /\ state \in [Proc -> {"UNINIT", "RUNNABLE", "SLEEPING", "ZOMBIE"}]
         /\ next \in [Proc -> Proc]
         /\ waitFor \in [Proc -> Proc \cup {Nil, AnyChild}]
         /\ at \in [Proc -> {"user", "ret", "wait", "final"}]
         /\ exiting \in [Proc -> BOOLEAN] /\ exitCode \in [Proc -> Code]
         /\ nrProcess \in 0 .. MaxProcess
         /\ Tree(links) /\ links \in LinksType
         /\ links.parent \in [Proc -> Proc \cup {Nil}]
         /\ Ring(next)
         /\ NoDeadChild(state, links, next, waitFor)
<1>1. /\ state \in [Proc -> {"UNINIT", "RUNNABLE", "SLEEPING", "ZOMBIE"}]
      /\ next \in [Proc -> Proc]
      /\ waitFor \in [Proc -> Proc \cup {Nil, AnyChild}]
      /\ at \in [Proc -> {"user", "ret", "wait", "final"}]
      /\ exiting \in [Proc -> BOOLEAN] /\ exitCode \in [Proc -> Code]
      /\ nrProcess \in 0 .. MaxProcess
  BY DEF ProcInv, TypeOK
<1>2. Tree(links) /\ links \in LinksType
  BY DEF ProcInv, TreeInv, Tree
<1>3. links.parent \in [Proc -> Proc \cup {Nil}]
  BY <1>2 DEF LinksType
<1>4. Ring(next)
  BY <1>1 DEF ProcInv, RingInv, Ring
<1>5. NoDeadChild(state, links, next, waitFor)
  <2>1. NoLostWakeup
    BY DEF ProcInv
  <2>2. \A q \in Proc : links.parent[q] # Nil => InUse(q)
    BY DEF ProcInv, TreeInv
  <2> QED
    BY <1>1, <1>2, <2>1, <2>2, WakeupExact
<1> QED
  BY <1>1, <1>2, <1>3, <1>4, <1>5

\* The types of the fields, but those of the tree and of the rings.
FieldsOK ==
  /\ state \in [Proc -> {"UNINIT", "RUNNABLE", "SLEEPING", "ZOMBIE"}]
  /\ waitFor \in [Proc -> Proc \cup {Nil, AnyChild}]
  /\ at \in [Proc -> {"user", "ret", "wait", "final"}]
  /\ exiting \in [Proc -> BOOLEAN] /\ exitCode \in [Proc -> Code]
  /\ nrProcess \in 0 .. MaxProcess

\* The facts from which ProcInv follows in the next state.
LEMMA InvNext ==
  ASSUME FieldsOK', TreeInv', Ring(next'),
         \A p \in Proc : next'[p] # p => state'[p] \in Alive,
         next'[InitProc] = InitProc, PlaceInv',
         NoDeadChild(state', links', next', waitFor')
  PROVE  ProcInv'
<1>1. Tree(links') /\ links' \in LinksType /\ next' \in [Proc -> Proc]
  BY DEF TreeInv, Tree, Ring
<1>2. TypeOK'
  BY <1>1 DEF TypeOK, FieldsOK, LinksType
<1>3. RingInv'
  BY DEF RingInv, Ring
<1>4. NoLostWakeup'
  <2>1. \A q \in Proc : links'.parent[q] # Nil => state'[q] # "UNINIT"
    BY DEF TreeInv, InUse
  <2>2. waitFor' \in [Proc -> Proc \cup {Nil, AnyChild}]
    BY DEF FieldsOK
  <2> QED
    BY <1>1, <2>1, <2>2, WakeupNext
<1> QED
  BY <1>2, <1>3, <1>4 DEF ProcInv

\* initproc, kswapd and one more are three.
LEMMA ThreeProcesses ==
  ASSUME NEW p \in User
  PROVE  Cardinality({InitProc, Kswapd, p}) = 3
<1> DEFINE S == {InitProc}
           T == S \cup {Kswapd}
<1>1. Kswapd \notin S /\ p \notin T
  BY ProcAssumption DEF User
<1>2. IsFiniteSet(S) /\ Cardinality(S) = 1
  BY FS_Singleton
<1>3. {InitProc, Kswapd, p} = T \cup {p}
  OBVIOUS
<1> HIDE DEF S
<1>4. IsFiniteSet(T) /\ Cardinality(T) = 2
  BY <1>1, <1>2, FS_AddElement
<1> HIDE DEF T
<1>5. Cardinality(T \cup {p}) = 3
  BY <1>1, <1>4, FS_AddElement
<1> QED
  BY <1>3, <1>5

\* As long as a user process is left, initproc is in do_wait.
LEMMA NotFinal ==
  ASSUME ProcInv, NEW p \in User, InUse(p)
  PROVE  at[InitProc] = "wait"
<1> DEFINE U == {q \in Proc : InUse(q)}
           T == {InitProc, Kswapd, p}
<1>1. InUse(InitProc) /\ InUse(Kswapd)
  BY DEF ProcInv, PlaceInv, InUse, Alive
<1>2. T \subseteq U /\ p # InitProc /\ p # Kswapd /\ InitProc # Kswapd
  BY <1>1, ProcAssumption DEF User
<1>3. IsFiniteSet(U)
  BY ProcAssumption, FS_Subset
<1>4. Cardinality(T) = 3
  BY ThreeProcesses
<1>5. Cardinality(U) >= 3 /\ Cardinality(U) \in Nat
  BY <1>2, <1>3, <1>4, FS_Subset, FS_CardinalityType
<1>6. nrProcess = Cardinality(U) + 1
  BY DEF ProcInv, TreeInv
<1> HIDE DEF U
<1>7. nrProcess # 3
  BY <1>5, <1>6
<1> QED
  BY <1>7 DEF ProcInv, PlaceInv, NrProcessStore

-----------------------------------------------------------------------------
(* __do_exit *)

\* The children go to another process that lives.
LEMMA HeirOther ==
  ASSUME ProcInv, NEW p \in User
  PROVE  Heir(p) \in Proc /\ Heir(p) # p /\ state[Heir(p)] \in Alive
<1>1. next \in [Proc -> Proc] /\ \A x, y \in Proc : next[x] = next[y] => x = y
  BY InvFacts DEF Ring
<1>2. CASE next[p] = p
  BY <1>1, <1>2, ProcAssumption DEF Heir, User, ProcInv, PlaceInv
<1>3. CASE next[p] # p
  <2>1. p \in Proc /\ next[p] \in Proc /\ next[next[p]] # next[p]
    BY <1>1, <1>3 DEF User
  <2> QED
    BY <1>3, <2>1 DEF Heir, ProcInv, RingInv
<1> QED
  BY <1>2, <1>3

\* Who sleeps in do_wait for a child that has died just now, or that changes hands.
LEMMA ExitWakes ==
  ASSUME ProcInv, NEW p \in User, NEW r \in Proc, NEW x \in Proc, r # p,
         WaitsForChild(r), waitFor[r] = AnyChild \/ x = waitFor[r],
         x = p \/ state[x] = "ZOMBIE",
         (IF links.parent[x] = p THEN Heir(p) ELSE links.parent[x]) \in Orbit(next, r)
  PROVE  r \in WokenByExit(p)
<1>1. /\ Ring(next) /\ next \in [Proc -> Proc] /\ Tree(links)
      /\ NoDeadChild(state, links, next, waitFor)
      /\ links.parent \in [Proc -> Proc \cup {Nil}]
  BY InvFacts
<1>2. p \in Proc /\ state[r] = "SLEEPING" /\ waitFor[r] # Nil
  BY DEF User, WaitsForChild
<1>3. /\ Orbit(next, r) \subseteq Proc
      /\ \A y \in Orbit(next, r) : next[y] \in Orbit(next, r)
  BY <1>1, OrbitClosed
\* A child of its group that is dead is p itself.
<1>4. ASSUME links.parent[x] \in Orbit(next, r)
      PROVE  r \in WokenByExit(p)
  <2>1. state[x] # "ZOMBIE"
    BY <1>1, <1>2, <1>4 DEF NoDeadChild
  <2>2. x = p /\ links.parent[p] \in Proc /\ links.parent[p] \in Orbit(next, r)
    BY <1>3, <1>4, <2>1
  <2>3. r \in Orbit(next, links.parent[p])
    BY <1>1, <2>2, OrbitSymmetric
  <2>4. Group(links.parent[p]) = Orbit(next, links.parent[p])
    BY Zenon DEF Group, Orbit
  <2> QED
    BY <2>3, <2>4 DEF WokenByExit
<1>5. CASE links.parent[x] # p
  BY <1>4, <1>5
<1>6. CASE links.parent[x] = p /\ next[p] # p
  <2>1. Heir(p) = next[p] /\ next[p] \in Orbit(next, r) /\ next[p] \in Proc
    BY <1>1, <1>2, <1>6 DEF Heir
  <2>2. next[p] \in Orbit(next, p)
    BY <1>1, <1>2, OrbitClosed
  <2>3. p \in Orbit(next, next[p])
    BY <1>1, <1>2, <2>1, <2>2, OrbitSymmetric
  <2>4. Orbit(next, next[p]) \subseteq Orbit(next, r)
    BY <1>1, <1>3, <2>1, OrbitLeast
  <2> QED
    BY <1>4, <1>6, <2>3, <2>4
<1>7. CASE links.parent[x] = p /\ next[p] = p
  <2>1. Heir(p) = InitProc /\ InitProc \in Orbit(next, r) /\ InitProc \in Proc
    BY <1>7, ProcAssumption DEF Heir
  <2>2. r \in Orbit(next, InitProc)
    BY <1>1, <2>1, OrbitSymmetric
  <2>3. next[InitProc] = InitProc
    BY DEF ProcInv, RingInv
  <2>4. r = InitProc
    BY <1>1, <2>1, <2>2, <2>3, OrbitSingle
  <2>5. x \in Children(links, p)
    BY <1>1, <1>2, <1>7, ChildrenExact
  <2> QED
    BY <2>1, <2>4, <2>5 DEF WokenByExit
<1> QED
  BY <1>5, <1>6, <1>7

\* __do_exit keeps ProcInv, whatever it was called for.
LEMMA DoExitInv ==
  ASSUME ProcInv, NEW p \in User, state[p] = "RUNNABLE",
         NEW W, \A q \in W : WaitsForChild(q), DoExit(p, W),
         exiting' \in [Proc -> BOOLEAN], exitCode' \in [Proc -> Code]
  PROVE  ProcInv'
<1> DEFINE V == W \cup WokenByExit(p)
           h == Heir(p)
<1>0. p \in Proc /\ p # InitProc /\ p # Kswapd /\ p # Nil /\ InUse(p)
  BY ProcAssumption DEF User, InUse
<1>1. /\ state \in [Proc -> {"UNINIT", "RUNNABLE", "SLEEPING", "ZOMBIE"}]
      /\ next \in [Proc -> Proc]
      /\ waitFor \in [Proc -> Proc \cup {Nil, AnyChild}]
      /\ at \in [Proc -> {"user", "ret", "wait", "final"}]
      /\ nrProcess \in 0 .. MaxProcess
      /\ Tree(links) /\ Ring(next)
      /\ links.parent \in [Proc -> Proc \cup {Nil}]
  BY InvFacts
<1>2. \A x \in V : state[x] = "SLEEPING" /\ waitFor[x] # Nil
  BY DEF WokenByExit, WaitsForChild
<1>3. h \in Proc /\ h # p /\ state[h] \in Alive
  BY HeirOther
<1>4. \A x \in Proc : state'[x] = IF x = p THEN "ZOMBIE"
                                  ELSE IF x \in V THEN "RUNNABLE" ELSE state[x]
  BY <1>0 DEF DoExit, Wakeup
<1>5. state' \in [Proc -> {"UNINIT", "RUNNABLE", "SLEEPING", "ZOMBIE"}]
  BY <1>1 DEF DoExit, Wakeup
<1>6. /\ Tree(links')
      /\ \A x \in Proc : links'.parent[x] = IF links.parent[x] = p THEN h ELSE links.parent[x]
  <2>1. links' = HandOverAll(p, h)
    BY DEF DoExit
  <2> HIDE DEF h
  <2> QED
    BY <1>0, <1>1, <1>3, <2>1, HandOverAllTree
<1>7. /\ Ring(next') /\ next'[p] = p
      /\ \A x \in Proc : x # p => next'[x] = IF next[x] = p THEN next[p] ELSE next[x]
  <2>1. next' = DeThread(p)
    BY DEF DoExit
  <2> QED
    BY <1>0, <1>1, <2>1, DeThreadRing
<1>8. /\ waitFor' \in [Proc -> Proc \cup {Nil, AnyChild}]
      /\ at' \in [Proc -> {"user", "ret", "wait", "final"}]
      /\ \A x \in Proc : /\ waitFor'[x] = IF x = p THEN Nil ELSE waitFor[x]
                         /\ at'[x] = IF x = p THEN "user" ELSE at[x]
      /\ nrProcess' = nrProcess
  BY <1>1 DEF DoExit
<1> HIDE DEF V, h
<1>9. FieldsOK'
  BY <1>1, <1>5, <1>8 DEF FieldsOK
<1>10. TreeInv'
  <2>1. {x \in Proc : InUse(x)} = {x \in Proc : InUse(x)'}
    BY <1>0, <1>2, <1>4 DEF InUse
  <2>2. nrProcess' = Cardinality({x \in Proc : InUse(x)'}) + 1
    BY <1>8, <2>1 DEF ProcInv, TreeInv
  <2>3. ASSUME NEW x \in Proc, links'.parent[x] # Nil
        PROVE  InUse(x)' /\ state'[links'.parent[x]] \in Alive
    <3>1. links.parent[x] # Nil /\ InUse(x) /\ state[links.parent[x]] \in Alive
          /\ links.parent[x] \in Proc
      BY <1>0, <1>1, <1>6, <2>3 DEF ProcInv, TreeInv
    <3>2. InUse(x)'
      BY <2>1, <3>1
    <3>3. links'.parent[x] \in Proc /\ links'.parent[x] # p
          /\ state[links'.parent[x]] \in Alive
      BY <1>3, <1>6, <3>1
    <3> QED
      BY <1>4, <3>2, <3>3 DEF Alive
  <2> QED
    BY <1>6, <2>2, <2>3 DEF TreeInv
<1>11. \A x \in Proc : next'[x] # x => state'[x] \in Alive
  <2>1. \A x, y \in Proc : next[x] = next[y] => x = y
    BY <1>1 DEF Ring
  <2>2. ASSUME NEW x \in Proc, next'[x] # x
        PROVE  x # p /\ next[x] # x
    BY <1>0, <1>7, <2>1, <2>2
  <2>3. \A x \in Proc : next[x] # x => state[x] \in Alive
    BY DEF ProcInv, RingInv
  <2> QED
    BY <1>4, <2>2, <2>3 DEF Alive
<1>12. next'[InitProc] = InitProc
  BY <1>0, <1>7, ProcAssumption DEF ProcInv, RingInv
<1>13. PlaceInv'
  <2>1. PlaceInv
    BY DEF ProcInv
  <2>2. ASSUME NEW x \in User
        PROVE  (/\ at[x] # "final"
                /\ at[x] = "wait" <=> waitFor[x] # Nil
                /\ state[x] = "SLEEPING" => at[x] = "wait"
                /\ state[x] \notin Alive => at[x] = "user")'
    BY <1>4, <1>8, <1>2, <2>1 DEF PlaceInv, User, Alive
  <2>3. /\ state'[InitProc] \in Alive /\ at'[InitProc] \in {"wait", "final"}
        /\ waitFor'[InitProc] = AnyChild /\ links'.parent[InitProc] = Nil
    BY <1>0, <1>4, <1>6, <1>8, <2>1, ProcAssumption DEF PlaceInv, Alive
  <2>4. /\ state'[Kswapd] = "SLEEPING" /\ waitFor'[Kswapd] = Nil
        /\ links'.parent[Kswapd] = InitProc
    BY <1>0, <1>2, <1>4, <1>6, <1>8, <2>1, ProcAssumption DEF PlaceInv
  <2>5. at'[InitProc] = "final" => nrProcess' = NrProcessStore
    BY <1>0, <1>8, <2>1, ProcAssumption DEF PlaceInv
  <2> QED
    BY <2>2, <2>3, <2>4, <2>5 DEF PlaceInv
<1>14. NoDeadChild(state', links', next', waitFor')
  <2>1. SUFFICES ASSUME NEW r \in Proc, NEW x \in Proc,
                        state'[r] = "SLEEPING", waitFor'[r] # Nil,
                        links'.parent[x] \in Orbit(next', r),
                        waitFor'[r] = AnyChild \/ x = waitFor'[r],
                        state'[x] = "ZOMBIE"
                 PROVE  FALSE
    BY DEF NoDeadChild
  <2>2. /\ r # p /\ r \notin V /\ state[r] = "SLEEPING" /\ waitFor[r] # Nil
        /\ waitFor[r] = AnyChild \/ x = waitFor[r]
        /\ x = p \/ state[x] = "ZOMBIE"
    BY <1>4, <1>8, <2>1
  <2>3. next' = DeThread(p)
    BY DEF DoExit
  <2>4. Orbit(DeThread(p), r) \subseteq Orbit(next, r) \ {p}
    BY <1>0, <1>1, <2>2, DeThreadOrbit
  <2>5. (IF links.parent[x] = p THEN h ELSE links.parent[x]) \in Orbit(next, r)
    BY <1>6, <2>1, <2>3, <2>4
  <2>6. WaitsForChild(r)
    BY <2>2 DEF WaitsForChild
  <2>7. r \in WokenByExit(p)
    BY <2>2, <2>5, <2>6, ExitWakes DEF h
  <2> QED
    BY <2>2, <2>7 DEF V
<1> QED
  BY <1>7, <1>9, <1>10, <1>11, <1>12, <1>13, <1>14, InvNext

-----------------------------------------------------------------------------
(* One lemma for each action. *)

\* do_exit
LEMMA ExitInv ==
  ASSUME ProcInv, NEW p \in User, Exit(p)
  PROVE  ProcInv'
<1> DEFINE K == {q \in Group(p) \ {p} : ~exiting[q]}
           W == {q \in K : WaitsForChild(q)}
<1>1. /\ exiting' = [q \in Proc |-> exiting[q] \/ q \in K]
      /\ exitCode' = [q \in Proc |-> IF q = p \/ q \in K THEN "exit" ELSE exitCode[q]]
      /\ DoExit(p, W) /\ state[p] = "RUNNABLE"
  BY DEF Exit, Executes
<1>2. \A q \in W : WaitsForChild(q)
  OBVIOUS
<1>3. exiting \in [Proc -> BOOLEAN] /\ exitCode \in [Proc -> Code]
  BY InvFacts
<1> HIDE DEF W, K
<1>4. exiting' \in [Proc -> BOOLEAN] /\ exitCode' \in [Proc -> Code]
  BY <1>1, <1>3 DEF Code
<1> QED
  BY <1>1, <1>2, <1>4, DoExitInv

\* do_exit_thread
LEMMA ExitThreadInv ==
  ASSUME ProcInv, NEW p \in User, ExitThread(p)
  PROVE  ProcInv'
<1>1. exiting \in [Proc -> BOOLEAN] /\ exitCode \in [Proc -> Code]
  BY InvFacts
<1>2. exiting' \in [Proc -> BOOLEAN] /\ exitCode' \in [Proc -> Code]
  BY <1>1 DEF ExitThread, Code
<1>3. state[p] = "RUNNABLE" /\ DoExit(p, {}) /\ \A q \in {} : WaitsForChild(q)
  BY DEF ExitThread, Executes
<1> QED
  BY <1>2, <1>3, DoExitInv

\* __do_exit of a process that was killed.
LEMMA KilledInv ==
  ASSUME ProcInv, NEW p \in User, state[p] = "RUNNABLE", DoExit(p, {}),
         UNCHANGED <<exiting, exitCode>>
  PROVE  ProcInv'
<1>1. exiting' \in [Proc -> BOOLEAN] /\ exitCode' \in [Proc -> Code]
  BY InvFacts
<1>2. \A q \in {} : WaitsForChild(q)
  OBVIOUS
<1> QED
  BY <1>1, <1>2, DoExitInv

\* may_killed at the end of trap()
LEMMA MayKilledInv ==
  ASSUME ProcInv, NEW p \in User, MayKilled(p)
  PROVE  ProcInv'
BY KilledInv DEF MayKilled, Executes

\* do_execve
LEMMA ExecInv ==
  ASSUME ProcInv, NEW p \in User, Exec(p)
  PROVE  ProcInv'
<1>0. p \in Proc /\ p # InitProc /\ p # Kswapd /\ state[p] = "RUNNABLE" /\ at[p] = "user"
  BY ProcAssumption DEF User, Exec, Executes
<1>1. /\ next \in [Proc -> Proc] /\ Ring(next) /\ FieldsOK
      /\ NoDeadChild(state, links, next, waitFor)
      /\ at \in [Proc -> {"user", "ret", "wait", "final"}]
  BY InvFacts DEF FieldsOK
<1>2. /\ next' = DeThread(p) /\ at' = [at EXCEPT ![p] = AtEnd(p)]
      /\ state' = state /\ links' = links /\ exiting' = exiting
      /\ exitCode' = exitCode /\ waitFor' = waitFor /\ nrProcess' = nrProcess
  BY DEF Exec
<1>3. AtEnd(p) \in {"user", "ret"}
  BY DEF AtEnd
<1>4. /\ Ring(next') /\ next'[p] = p
      /\ \A x \in Proc : x # p => next'[x] = IF next[x] = p THEN next[p] ELSE next[x]
  BY <1>0, <1>1, <1>2, DeThreadRing
<1>5. FieldsOK'
  BY <1>1, <1>2, <1>3 DEF FieldsOK
<1>6. TreeInv'
  BY <1>2 DEF ProcInv, TreeInv, InUse
<1>7. \A x \in Proc : next'[x] # x => state'[x] \in Alive
  <2>1. \A x \in Proc : next[x] # x => state[x] \in Alive
    BY DEF ProcInv, RingInv
  <2>2. \A x, y \in Proc : next[x] = next[y] => x = y
    BY <1>1 DEF Ring
  <2> QED
    BY <1>0, <1>2, <1>4, <2>1, <2>2
<1>8. next'[InitProc] = InitProc
  BY <1>0, <1>4, ProcAssumption DEF ProcInv, RingInv
<1>9. PlaceInv'
  BY <1>0, <1>1, <1>2, <1>3, ProcAssumption DEF ProcInv, PlaceInv, User, Alive
<1>10. NoDeadChild(state', links', next', waitFor')
  <2>1. ASSUME NEW r \in Proc, NEW x \in Proc, state[r] = "SLEEPING", waitFor[r] # Nil,
               links.parent[x] \in Orbit(DeThread(p), r),
               waitFor[r] = AnyChild \/ x = waitFor[r]
        PROVE  state[x] # "ZOMBIE"
    <3>1. r # p
      BY <1>0, <2>1
    <3>2. links.parent[x] \in Orbit(next, r)
      BY <1>0, <1>1, <2>1, <3>1, DeThreadOrbit
    <3> QED
      BY <1>1, <2>1, <3>2 DEF NoDeadChild
  <2>2. NoDeadChild(state, links, DeThread(p), waitFor)
    BY <2>1 DEF NoDeadChild
  <2> QED
    BY <1>2, <2>2
<1> QED
  BY <1>4, <1>5, <1>6, <1>7, <1>8, <1>9, <1>10, InvNext

\* do_kill
LEMMA KillInv ==
  ASSUME ProcInv, NEW p \in User, NEW q \in User, Kill(p, q)
  PROVE  ProcInv'
<1> DEFINE W == {r \in {q} : WaitsForChild(r)}
           a == IF q = p THEN "ret" ELSE AtEnd(p)
<1>0. p \in Proc /\ q \in Proc /\ p # InitProc /\ state[p] = "RUNNABLE" /\ at[p] = "user"
  BY ProcAssumption DEF User, Kill, Executes
<1>1. /\ FieldsOK /\ Ring(next) /\ NoDeadChild(state, links, next, waitFor)
      /\ state \in [Proc -> {"UNINIT", "RUNNABLE", "SLEEPING", "ZOMBIE"}]
      /\ at \in [Proc -> {"user", "ret", "wait", "final"}]
      /\ exiting \in [Proc -> BOOLEAN] /\ exitCode \in [Proc -> Code]
  BY InvFacts DEF FieldsOK
<1>2. a \in {"user", "ret"}
  BY DEF AtEnd
<1>3. /\ links' = links /\ next' = next /\ waitFor' = waitFor /\ nrProcess' = nrProcess
      /\ at' = [at EXCEPT ![p] = a]
  BY DEF Kill
<1>4. /\ state' \in [Proc -> {"UNINIT", "RUNNABLE", "SLEEPING", "ZOMBIE"}]
      /\ \A x \in Proc : \/ state'[x] = state[x]
                         \/ /\ state'[x] = "RUNNABLE" /\ state[x] = "SLEEPING"
                            /\ waitFor[x] # Nil
      /\ exiting' \in [Proc -> BOOLEAN] /\ exitCode' \in [Proc -> Code]
  <2>1. CASE exiting[q]
    BY <1>1, <2>1 DEF Kill
  <2>2. CASE ~exiting[q]
    <3>1. state' = Wakeup(W) /\ exiting' = [exiting EXCEPT ![q] = TRUE]
          /\ exitCode' = [exitCode EXCEPT ![q] = "killed"]
      BY <2>2 DEF Kill
    <3>2. \A x \in Proc : state'[x] = IF x \in W THEN "RUNNABLE" ELSE state[x]
      BY <3>1 DEF Wakeup
    <3>3. \A x \in W : state[x] = "SLEEPING" /\ waitFor[x] # Nil
      BY DEF WaitsForChild
    <3>4. state' \in [Proc -> {"UNINIT", "RUNNABLE", "SLEEPING", "ZOMBIE"}]
      BY <1>1, <3>1 DEF Wakeup
    <3> HIDE DEF W
    <3>5. exiting' \in [Proc -> BOOLEAN] /\ exitCode' \in [Proc -> Code]
      BY <1>1, <3>1 DEF Code
    <3> QED
      BY <3>2, <3>3, <3>4, <3>5
  <2> QED
    BY <2>1, <2>2
<1> HIDE DEF W, a
<1>5. FieldsOK'
  BY <1>1, <1>2, <1>3, <1>4 DEF FieldsOK
<1>6. TreeInv'
  <2>1. {x \in Proc : InUse(x)} = {x \in Proc : InUse(x)'}
    BY <1>4 DEF InUse
  <2>2. \A x \in Proc : (InUse(x) => InUse(x)') /\ (state[x] \in Alive => state'[x] \in Alive)
    BY <1>4 DEF Alive, InUse
  <2>3. links.parent \in [Proc -> Proc \cup {Nil}]
    BY InvFacts
  <2> QED
    BY <1>3, <2>1, <2>2, <2>3 DEF ProcInv, TreeInv
<1>7. \A x \in Proc : next'[x] # x => state'[x] \in Alive
  BY <1>3, <1>4 DEF ProcInv, RingInv, Alive
<1>8. Ring(next') /\ next'[InitProc] = InitProc
  BY <1>1, <1>3 DEF ProcInv, RingInv
<1>9. PlaceInv'
  <2>1. PlaceInv
    BY DEF ProcInv
  <2>2. ASSUME NEW x \in User
        PROVE  (/\ at[x] # "final"
                /\ at[x] = "wait" <=> waitFor[x] # Nil
                /\ state[x] = "SLEEPING" => at[x] = "wait"
                /\ state[x] \notin Alive => at[x] = "user")'
    BY <1>0, <1>1, <1>2, <1>3, <1>4, <2>1 DEF PlaceInv, User, Alive
  <2> QED
    BY <1>0, <1>1, <1>3, <1>4, <2>1, <2>2, ProcAssumption DEF PlaceInv, Alive
<1>10. NoDeadChild(state', links', next', waitFor')
  <2>1. NoDeadChild(state', links, next, waitFor)
    BY <1>1, <1>4 DEF NoDeadChild
  <2> QED
    BY <1>3, <2>1
<1> QED
  BY <1>5, <1>6, <1>7, <1>8, <1>9, <1>10, InvNext

-----------------------------------------------------------------------------
(* do_wait *)

\* The children do_wait looks at.
LEMMA WaitCandidates ==
  ASSUME ProcInv, NEW p \in Proc, NEW who \in Proc \cup {AnyChild}
  PROVE  /\ Candidates(p, who)
              = {q \in Proc : /\ links.parent[q] \in Orbit(next, p)
                              /\ who = AnyChild \/ q = who}
         /\ \A q \in Candidates(p, who) : q \in Proc /\ links.parent[q] \in Proc
<1>1. Tree(links) /\ next \in [Proc -> Proc]
  BY InvFacts
<1>2. \A q \in Proc : links.parent[q] # Nil => state[q] # "UNINIT"
  BY DEF ProcInv, TreeInv, InUse
<1>3. Candidates(p, who)
        = {q \in Proc : links.parent[q] \in Orbit(next, p) /\ (who = AnyChild \/ q = who)}
  BY <1>1, <1>2, CandidatesNow, CandidatesExact
<1>4. Orbit(next, p) \subseteq Proc
  BY <1>1, OrbitClosed
<1> QED
  BY <1>3, <1>4

\* do_wait frees a dead child.
LEMMA ReapInv ==
  ASSUME ProcInv, NEW q \in Proc, state[q] = "ZOMBIE", links.parent[q] \in Proc,
         Reap(q), next' = next,
         waitFor' \in [Proc -> Proc \cup {Nil, AnyChild}],
         at' \in [Proc -> {"user", "ret", "wait", "final"}],
         \A x \in Proc : waitFor'[x] = waitFor[x] \/ waitFor'[x] = Nil,
         \A x \in User : /\ at'[x] # "final"
                         /\ at'[x] = "wait" <=> waitFor'[x] # Nil
                         /\ state[x] = "SLEEPING" => at'[x] = "wait"
                         /\ state[x] \notin Alive => at'[x] = "user",
         at'[InitProc] \in {"wait", "final"}, waitFor'[InitProc] = waitFor[InitProc],
         at'[InitProc] = "final" => nrProcess - 1 = NrProcessStore
  PROVE  ProcInv'
<1>1. /\ state \in [Proc -> {"UNINIT", "RUNNABLE", "SLEEPING", "ZOMBIE"}]
      /\ Ring(next) /\ NoDeadChild(state, links, next, waitFor)
      /\ exiting \in [Proc -> BOOLEAN] /\ exitCode \in [Proc -> Code]
      /\ nrProcess \in 0 .. MaxProcess
      /\ Tree(links) /\ links.parent \in [Proc -> Proc \cup {Nil}]
  BY InvFacts
<1>2. /\ state' = [state EXCEPT ![q] = "UNINIT"] /\ links' = UnlinkChild(links, q)
      /\ exiting' = [exiting EXCEPT ![q] = FALSE]
      /\ exitCode' = [exitCode EXCEPT ![q] = "none"]
      /\ nrProcess' = nrProcess - 1
  BY DEF Reap
<1>3. /\ Tree(links') /\ links'.parent = [links.parent EXCEPT ![q] = Nil]
  BY <1>1, <1>2, UnlinkChildTree
<1>4. \A x \in Proc : /\ state'[x] = IF x = q THEN "UNINIT" ELSE state[x]
                      /\ links'.parent[x] = IF x = q THEN Nil ELSE links.parent[x]
  BY <1>1, <1>2, <1>3
<1>5. q # InitProc /\ q # Kswapd
  BY DEF ProcInv, PlaceInv, Alive
<1>6. /\ nrProcess = Cardinality({x \in Proc : InUse(x)}) + 1
      /\ nrProcess' = Cardinality({x \in Proc : InUse(x)'}) + 1
      /\ nrProcess' \in 0 .. MaxProcess
  <2> DEFINE U == {x \in Proc : InUse(x)}
             V == {x \in Proc : InUse(x)'}
  <2>1. nrProcess = Cardinality(U) + 1
    BY DEF ProcInv, TreeInv
  <2>2. V = U \ {q} /\ q \in U
    BY <1>4 DEF InUse
  <2>3. IsFiniteSet(U)
    BY ProcAssumption, FS_Subset
  <2> HIDE DEF U, V
  <2>4. Cardinality(V) = Cardinality(U) - 1 /\ Cardinality(V) \in Nat
    BY <2>2, <2>3, FS_RemoveElement, FS_CardinalityType
  <2>5. Cardinality(U) \in Nat
    BY <2>3, FS_CardinalityType
  <2> QED
    BY <1>1, <1>2, <2>1, <2>4, <2>5, ProcAssumption DEF U, V
<1>7. FieldsOK'
  <2>1. /\ state' \in [Proc -> {"UNINIT", "RUNNABLE", "SLEEPING", "ZOMBIE"}]
        /\ exiting' \in [Proc -> BOOLEAN] /\ exitCode' \in [Proc -> Code]
    BY <1>1, <1>2 DEF Code
  <2> QED
    BY <1>6, <2>1 DEF FieldsOK
<1>8. TreeInv'
  <2>1. ASSUME NEW x \in Proc, links'.parent[x] # Nil
        PROVE  InUse(x)' /\ state'[links'.parent[x]] \in Alive
    <3>1. /\ x # q /\ links'.parent[x] = links.parent[x] /\ links.parent[x] \in Proc
          /\ InUse(x) /\ state[links.parent[x]] \in Alive
      BY <1>1, <1>4, <2>1 DEF ProcInv, TreeInv
    <3>2. links.parent[x] # q
      BY <3>1 DEF Alive
    <3> QED
      BY <1>4, <3>1, <3>2 DEF InUse
  <2> QED
    BY <1>3, <1>6, <2>1 DEF TreeInv
<1>9. /\ Ring(next') /\ next'[InitProc] = InitProc
      /\ \A x \in Proc : next'[x] # x => state'[x] \in Alive
  BY <1>1, <1>4 DEF ProcInv, RingInv, Alive
<1>10. PlaceInv'
  <2>1. PlaceInv
    BY DEF ProcInv
  <2>2. ASSUME NEW x \in User
        PROVE  (/\ at[x] # "final"
                /\ at[x] = "wait" <=> waitFor[x] # Nil
                /\ state[x] = "SLEEPING" => at[x] = "wait"
                /\ state[x] \notin Alive => at[x] = "user")'
    BY <1>4 DEF User, Alive
  <2>3. /\ state'[InitProc] \in Alive /\ at'[InitProc] \in {"wait", "final"}
        /\ waitFor'[InitProc] = AnyChild /\ links'.parent[InitProc] = Nil
    BY <1>4, <1>5, <2>1, ProcAssumption DEF PlaceInv
  <2>4. /\ state'[Kswapd] = "SLEEPING" /\ waitFor'[Kswapd] = Nil
        /\ links'.parent[Kswapd] = InitProc
    BY <1>4, <1>5, <2>1, ProcAssumption DEF PlaceInv
  <2> QED
    BY <1>2, <2>2, <2>3, <2>4 DEF PlaceInv
<1>11. NoDeadChild(state', links', next', waitFor')
  <2>1. SUFFICES ASSUME NEW r \in Proc, NEW x \in Proc,
                        state'[r] = "SLEEPING", waitFor'[r] # Nil,
                        links'.parent[x] \in Orbit(next, r),
                        waitFor'[r] = AnyChild \/ x = waitFor'[r],
                        state'[x] = "ZOMBIE"
                 PROVE  FALSE
    BY DEF NoDeadChild
  <2>2. state[r] = "SLEEPING" /\ waitFor[r] = waitFor'[r] /\ state[x] = "ZOMBIE" /\ x # q
    BY <1>4, <2>1
  <2>3. links.parent[x] \in Orbit(next, r)
    BY <1>4, <2>1, <2>2
  <2> QED
    BY <1>1, <2>1, <2>2, <2>3 DEF NoDeadChild
<1> QED
  BY <1>7, <1>8, <1>9, <1>10, <1>11, InvNext

\* do_wait goes to sleep.
LEMMA SleepInv ==
  ASSUME ProcInv, NEW p \in Proc, p # Kswapd, state[p] = "RUNNABLE",
         NEW who \in Proc \cup {AnyChild}, p = InitProc => who = AnyChild,
         \A q \in Candidates(p, who) : state[q] # "ZOMBIE",
         state' = [state EXCEPT ![p] = "SLEEPING"],
         waitFor' = [waitFor EXCEPT ![p] = who], at' = [at EXCEPT ![p] = "wait"],
         UNCHANGED <<links, next, exiting, exitCode, nrProcess>>
  PROVE  ProcInv'
<1>1. /\ state \in [Proc -> {"UNINIT", "RUNNABLE", "SLEEPING", "ZOMBIE"}]
      /\ waitFor \in [Proc -> Proc \cup {Nil, AnyChild}]
      /\ at \in [Proc -> {"user", "ret", "wait", "final"}]
      /\ exiting \in [Proc -> BOOLEAN] /\ exitCode \in [Proc -> Code]
      /\ nrProcess \in 0 .. MaxProcess
      /\ links.parent \in [Proc -> Proc \cup {Nil}]
      /\ Ring(next) /\ NoDeadChild(state, links, next, waitFor)
  BY InvFacts
<1>2. \A x \in Proc : /\ state'[x] = IF x = p THEN "SLEEPING" ELSE state[x]
                      /\ waitFor'[x] = IF x = p THEN who ELSE waitFor[x]
                      /\ at'[x] = IF x = p THEN "wait" ELSE at[x]
  BY <1>1
<1>3. FieldsOK'
  BY <1>1 DEF FieldsOK
<1>4. TreeInv'
  <2>1. {x \in Proc : InUse(x)} = {x \in Proc : InUse(x)'}
    BY <1>2 DEF InUse
  <2>2. \A x \in Proc : (InUse(x) => InUse(x)') /\ (state[x] \in Alive => state'[x] \in Alive)
    BY <1>2 DEF Alive, InUse
  <2> QED
    BY <1>1, <2>1, <2>2 DEF ProcInv, TreeInv
<1>5. /\ Ring(next') /\ next'[InitProc] = InitProc
      /\ \A x \in Proc : next'[x] # x => state'[x] \in Alive
  BY <1>1, <1>2 DEF ProcInv, RingInv, Alive
<1>6. PlaceInv'
  <2>1. PlaceInv
    BY DEF ProcInv
  <2>2. who # Nil
    BY ProcAssumption
  <2>3. ASSUME NEW x \in User
        PROVE  (/\ at[x] # "final"
                /\ at[x] = "wait" <=> waitFor[x] # Nil
                /\ state[x] = "SLEEPING" => at[x] = "wait"
                /\ state[x] \notin Alive => at[x] = "user")'
    BY <1>2, <2>1, <2>2 DEF User, Alive, PlaceInv
  <2>4. /\ state'[InitProc] \in Alive /\ at'[InitProc] \in {"wait", "final"}
        /\ waitFor'[InitProc] = AnyChild /\ links'.parent[InitProc] = Nil
    BY <1>2, <2>1, ProcAssumption DEF PlaceInv, Alive
  <2>5. /\ state'[Kswapd] = "SLEEPING" /\ waitFor'[Kswapd] = Nil
        /\ links'.parent[Kswapd] = InitProc
    BY <1>2, <2>1, ProcAssumption DEF PlaceInv
  <2>6. at'[InitProc] = "final" => nrProcess' = NrProcessStore
    BY <1>2, <2>1, ProcAssumption DEF PlaceInv
  <2> QED
    BY <2>3, <2>4, <2>5, <2>6 DEF PlaceInv
<1>7. NoDeadChild(state', links', next', waitFor')
  <2>1. SUFFICES ASSUME NEW r \in Proc, NEW x \in Proc,
                        state'[r] = "SLEEPING", waitFor'[r] # Nil,
                        links.parent[x] \in Orbit(next, r),
                        waitFor'[r] = AnyChild \/ x = waitFor'[r],
                        state'[x] = "ZOMBIE"
                 PROVE  FALSE
    BY DEF NoDeadChild
  <2>2. state[x] = "ZOMBIE"
    BY <1>2, <2>1
  <2>3. CASE r = p
    <3>1. x \in Candidates(p, who)
      BY <1>2, <2>1, <2>3, WaitCandidates
    <3> QED
      BY <2>2, <3>1
  <2>4. CASE r # p
    BY <1>1, <1>2, <2>1, <2>2, <2>4 DEF NoDeadChild
  <2> QED
    BY <2>3, <2>4
<1> QED
  BY <1>3, <1>4, <1>5, <1>6, <1>7, InvNext

\* do_wait from "repeat" on.
LEMMA SearchInv ==
  ASSUME ProcInv, NEW p \in User, state[p] = "RUNNABLE",
         NEW who \in Proc \cup {AnyChild}, Search(p, who)
  PROVE  ProcInv'
<1> DEFINE kids == Candidates(p, who)
           dead == {q \in kids : state[q] = "ZOMBIE"}
           a == AtEnd(p)
<1>0. p \in Proc /\ p # InitProc /\ p # Kswapd /\ InUse(p)
  BY ProcAssumption DEF User, InUse
<1>1. /\ waitFor \in [Proc -> Proc \cup {Nil, AnyChild}]
      /\ at \in [Proc -> {"user", "ret", "wait", "final"}]
      /\ FieldsOK /\ Ring(next) /\ NoDeadChild(state, links, next, waitFor)
  BY InvFacts DEF FieldsOK
<1>2. at[InitProc] = "wait"
  BY <1>0, NotFinal
<1>3. a \in {"user", "ret"}
  BY DEF AtEnd
<1>4. PlaceInv
  BY DEF ProcInv
<1>5. ASSUME waitFor' = [waitFor EXCEPT ![p] = Nil], at' = [at EXCEPT ![p] = a]
      PROVE  /\ waitFor' \in [Proc -> Proc \cup {Nil, AnyChild}]
             /\ at' \in [Proc -> {"user", "ret", "wait", "final"}]
             /\ \A x \in Proc : waitFor'[x] = waitFor[x] \/ waitFor'[x] = Nil
             /\ \A x \in User : /\ at'[x] # "final"
                                /\ at'[x] = "wait" <=> waitFor'[x] # Nil
                                /\ state[x] = "SLEEPING" => at'[x] = "wait"
                                /\ state[x] \notin Alive => at'[x] = "user"
             /\ at'[InitProc] = "wait" /\ waitFor'[InitProc] = waitFor[InitProc]
             /\ waitFor'[Kswapd] = waitFor[Kswapd]
  <2> HIDE DEF a
  <2>1. \A x \in Proc : /\ waitFor'[x] = IF x = p THEN Nil ELSE waitFor[x]
                        /\ at'[x] = IF x = p THEN a ELSE at[x]
    BY <1>1, <1>5
  <2>2. /\ waitFor' \in [Proc -> Proc \cup {Nil, AnyChild}]
        /\ at' \in [Proc -> {"user", "ret", "wait", "final"}]
    BY <1>1, <1>3, <1>5
  <2>3. /\ at'[InitProc] = "wait" /\ waitFor'[InitProc] = waitFor[InitProc]
        /\ waitFor'[Kswapd] = waitFor[Kswapd]
    BY <1>0, <1>2, <2>1, ProcAssumption
  <2>4. ASSUME NEW x \in User
        PROVE  /\ at'[x] # "final"
               /\ at'[x] = "wait" <=> waitFor'[x] # Nil
               /\ state[x] = "SLEEPING" => at'[x] = "wait"
               /\ state[x] \notin Alive => at'[x] = "user"
    BY <1>3, <1>4, <2>1 DEF PlaceInv, User, Alive
  <2> QED
    BY <2>1, <2>2, <2>3, <2>4
<1>6. ASSUME NEW q \in dead, Reap(q), waitFor' = [waitFor EXCEPT ![p] = Nil],
             at' = [at EXCEPT ![p] = a], next' = next
      PROVE  ProcInv'
  <2>1. q \in Proc /\ links.parent[q] \in Proc /\ state[q] = "ZOMBIE"
    BY <1>0, WaitCandidates
  <2> QED
    BY <1>5, <1>6, <2>1, ReapInv
<1>7. ASSUME dead = {}, state' = [state EXCEPT ![p] = "SLEEPING"],
             waitFor' = [waitFor EXCEPT ![p] = who], at' = [at EXCEPT ![p] = "wait"],
             UNCHANGED <<links, next, exiting, exitCode, nrProcess>>
      PROVE  ProcInv'
  <2>1. \A q \in Candidates(p, who) : state[q] # "ZOMBIE"
    BY <1>7
  <2> QED
    BY <1>0, <1>7, <2>1, SleepInv
<1>8. ASSUME waitFor' = [waitFor EXCEPT ![p] = Nil], at' = [at EXCEPT ![p] = a],
             UNCHANGED <<state, links, next, exiting, exitCode, nrProcess>>
      PROVE  ProcInv'
  <2>1. FieldsOK'
    BY <1>1, <1>5, <1>8 DEF FieldsOK
  <2>2. TreeInv'
    BY <1>8 DEF ProcInv, TreeInv, InUse
  <2>3. /\ Ring(next') /\ next'[InitProc] = InitProc
        /\ \A x \in Proc : next'[x] # x => state'[x] \in Alive
    BY <1>1, <1>8 DEF ProcInv, RingInv
  <2>4. PlaceInv'
    BY <1>4, <1>5, <1>8 DEF PlaceInv
  <2>5. \A x \in Proc : waitFor'[x] = waitFor[x] \/ waitFor'[x] = Nil
    BY <1>5, <1>8
  <2>6. NoDeadChild(state, links, next, waitFor')
    BY <1>1, <2>5 DEF NoDeadChild
  <2>7. NoDeadChild(state', links', next', waitFor')
    BY <1>8, <2>6
  <2> QED
    BY <2>1, <2>2, <2>3, <2>4, <2>7, InvNext
<1> QED
  BY <1>6, <1>7, <1>8 DEF Search

\* do_wait
LEMMA WaitInv ==
  ASSUME ProcInv, NEW p \in User, NEW who \in Proc \cup {AnyChild}, Wait(p, who)
  PROVE  ProcInv'
BY SearchInv DEF Wait, Executes

\* do_wait after schedule()
LEMMA WaitAgainInv ==
  ASSUME ProcInv, NEW p \in User, WaitAgain(p)
  PROVE  ProcInv'
<1>1. state[p] = "RUNNABLE" /\ at[p] = "wait" /\ p \in Proc
  BY DEF WaitAgain, Executes, User
<1>2. CASE exiting[p]
  BY <1>1, <1>2, KilledInv DEF WaitAgain
<1>3. CASE ~exiting[p]
  <2>1. Search(p, waitFor[p])
    BY <1>3 DEF WaitAgain
  <2>2. waitFor[p] \in Proc \cup {AnyChild}
    <3>1. waitFor \in [Proc -> Proc \cup {Nil, AnyChild}]
      BY InvFacts
    <3>2. waitFor[p] # Nil
      BY <1>1 DEF ProcInv, PlaceInv
    <3> QED
      BY <1>1, <3>1, <3>2
  <2> QED
    BY <1>1, <2>1, <2>2, SearchInv
<1> QED
  BY <1>2, <1>3

\* The loop of init_main.
LEMMA InitWaitInv ==
  ASSUME ProcInv, InitWait
  PROVE  ProcInv'
<1> DEFINE dead == {q \in Candidates(InitProc, AnyChild) : state[q] = "ZOMBIE"}
           a == IF nrProcess - 1 = NrProcessStore THEN "final" ELSE "wait"
<1>0. InitProc \in Proc /\ InitProc # Kswapd /\ InitProc \notin User
  BY ProcAssumption DEF User
<1>1. /\ waitFor \in [Proc -> Proc \cup {Nil, AnyChild}]
      /\ at \in [Proc -> {"user", "ret", "wait", "final"}]
  BY InvFacts
<1>2. /\ state[InitProc] = "RUNNABLE" /\ at[InitProc] = "wait"
      /\ next' = next /\ waitFor' = waitFor
  BY DEF InitWait
<1>3. PlaceInv
  BY DEF ProcInv
<1>4. ASSUME NEW q \in dead, Reap(q), at' = [at EXCEPT ![InitProc] = a]
      PROVE  ProcInv'
  <2>1. q \in Proc /\ links.parent[q] \in Proc /\ state[q] = "ZOMBIE"
    BY <1>0, WaitCandidates
  <2>2. a \in {"wait", "final"} /\ (a = "final" => nrProcess - 1 = NrProcessStore)
    OBVIOUS
  <2> HIDE DEF a
  <2>3. /\ at' \in [Proc -> {"user", "ret", "wait", "final"}]
        /\ \A x \in Proc : at'[x] = IF x = InitProc THEN a ELSE at[x]
    BY <1>1, <1>4, <2>2
  <2>4. \A x \in User : /\ at'[x] # "final"
                        /\ at'[x] = "wait" <=> waitFor'[x] # Nil
                        /\ state[x] = "SLEEPING" => at'[x] = "wait"
                        /\ state[x] \notin Alive => at'[x] = "user"
    BY <1>0, <1>2, <1>3, <2>3 DEF PlaceInv, User
  <2> QED
    BY <1>0, <1>1, <1>2, <1>4, <2>1, <2>2, <2>3, <2>4, ReapInv
<1>5. ASSUME dead = {}, state' = [state EXCEPT ![InitProc] = "SLEEPING"],
             UNCHANGED <<links, exiting, exitCode, at, nrProcess>>
      PROVE  ProcInv'
  <2>1. \A q \in Candidates(InitProc, AnyChild) : state[q] # "ZOMBIE"
    BY <1>5
  <2>2. waitFor' = [waitFor EXCEPT ![InitProc] = AnyChild]
    BY <1>0, <1>1, <1>2, <1>3 DEF PlaceInv
  <2>3. at' = [at EXCEPT ![InitProc] = "wait"]
    BY <1>0, <1>1, <1>2, <1>5
  <2> QED
    BY <1>0, <1>2, <1>5, <2>1, <2>2, <2>3, SleepInv
<1> QED
  BY <1>4, <1>5 DEF InitWait

\* do_fork
LEMMA ForkInv ==
  ASSUME ProcInv, NEW p \in User, NEW q \in User, NEW thread \in BOOLEAN,
         NEW share \in BOOLEAN, Fork(p, q, thread, share)
  PROVE  ProcInv'
<1>0. /\ p \in Proc /\ q \in Proc /\ p # InitProc /\ p # Kswapd
      /\ q # InitProc /\ q # Kswapd /\ q # Nil
      /\ state[p] = "RUNNABLE" /\ at[p] = "user" /\ InUse(p)
      /\ state[q] = "UNINIT" /\ p # q
  BY ProcAssumption DEF User, Fork, Executes, InUse
<1>1. /\ state \in [Proc -> {"UNINIT", "RUNNABLE", "SLEEPING", "ZOMBIE"}]
      /\ next \in [Proc -> Proc]
      /\ waitFor \in [Proc -> Proc \cup {Nil, AnyChild}]
      /\ at \in [Proc -> {"user", "ret", "wait", "final"}]
      /\ exiting \in [Proc -> BOOLEAN] /\ exitCode \in [Proc -> Code]
      /\ nrProcess \in 0 .. MaxProcess
      /\ Tree(links) /\ Ring(next) /\ links \in LinksType
      /\ links.parent \in [Proc -> Proc \cup {Nil}]
      /\ NoDeadChild(state, links, next, waitFor)
  BY InvFacts
<1>2. /\ state' = [state EXCEPT ![q] = "RUNNABLE"]
      /\ links' = LinkChild([links EXCEPT !.cptr[q] = Nil], q, p)
      /\ next' = IF thread THEN AddThread(p, q) ELSE next
      /\ exiting' = [exiting EXCEPT ![q] = FALSE]
      /\ exitCode' = [exitCode EXCEPT ![q] = "none"]
      /\ at' = [at EXCEPT ![p] = AtEnd(p), ![q] = "user"]
      /\ nrProcess' = nrProcess + 1 /\ nrProcess < MaxProcess /\ waitFor' = waitFor
      /\ \A r \in Proc : waitFor[r] # q
  BY DEF Fork
\* The slot of q is out of the tree and of the rings.
<1>3. /\ links.parent[q] = Nil /\ next[q] = q
      /\ \A x \in Proc : links.parent[x] # q
      /\ waitFor[q] = Nil
  BY <1>0, <1>1 DEF ProcInv, TreeInv, RingInv, PlaceInv, Alive, InUse
<1>4. [links EXCEPT !.cptr[q] = Nil] = links
  <2>1. links.cptr \in [Proc -> Proc \cup {Nil}]
    BY <1>1 DEF LinksType
  <2>2. links.cptr[q] = Nil
    BY <1>0, <1>1, <1>3, <2>1 DEF Tree
  <2>3. [links.cptr EXCEPT ![q] = Nil] = links.cptr
    BY <1>0, <2>1, <2>2
  <2> QED
    BY <1>1, <2>3 DEF LinksType
<1>5. Tree(links') /\ links'.parent = [links.parent EXCEPT ![q] = p]
  <2>1. links' = LinkChild(links, q, p)
    BY <1>2, <1>4
  <2> QED
    BY <1>0, <1>1, <1>3, <2>1, LinkChildTree
<1>6. AtEnd(p) \in {"user", "ret"}
  BY DEF AtEnd
<1>7. \A x \in Proc : /\ state'[x] = IF x = q THEN "RUNNABLE" ELSE state[x]
                      /\ links'.parent[x] = IF x = q THEN p ELSE links.parent[x]
                      /\ at'[x] = IF x = q THEN "user" ELSE IF x = p THEN AtEnd(p) ELSE at[x]
  BY <1>1, <1>2, <1>5
<1>8. FieldsOK'
  <2>1. nrProcess' \in 0 .. MaxProcess
    BY <1>1, <1>2, ProcAssumption
  <2>2. at' \in [Proc -> {"user", "ret", "wait", "final"}]
    BY <1>1, <1>2, <1>6
  <2>3. exiting' \in [Proc -> BOOLEAN] /\ exitCode' \in [Proc -> Code]
    BY <1>1, <1>2 DEF Code
  <2>4. state' \in [Proc -> {"UNINIT", "RUNNABLE", "SLEEPING", "ZOMBIE"}]
    BY <1>1, <1>2
  <2> QED
    BY <1>1, <1>2, <2>1, <2>2, <2>3, <2>4 DEF FieldsOK
<1>9. TreeInv'
  <2> DEFINE U == {x \in Proc : InUse(x)}
             V == {x \in Proc : InUse(x)'}
  <2>1. nrProcess = Cardinality(U) + 1
    BY DEF ProcInv, TreeInv
  <2>2. V = U \cup {q} /\ q \notin U
    BY <1>0, <1>7 DEF InUse
  <2>3. IsFiniteSet(U)
    BY ProcAssumption, FS_Subset
  <2>4. nrProcess' = Cardinality(V) + 1
    <3> HIDE DEF U, V
    <3>1. Cardinality(V) = Cardinality(U) + 1
      BY <2>2, <2>3, FS_AddElement
    <3> QED
      BY <1>2, <2>1, <3>1
  <2>5. ASSUME NEW x \in Proc, links'.parent[x] # Nil
        PROVE  InUse(x)' /\ state'[links'.parent[x]] \in Alive
    <3>1. CASE x = q
      BY <1>0, <1>7, <3>1 DEF InUse, Alive
    <3>2. CASE x # q
      <4>1. /\ links'.parent[x] = links.parent[x] /\ links.parent[x] \in Proc
            /\ InUse(x) /\ state[links.parent[x]] \in Alive
        BY <1>1, <1>7, <2>5, <3>2 DEF ProcInv, TreeInv
      <4> QED
        BY <1>3, <1>7, <3>2, <4>1 DEF InUse
    <3> QED
      BY <3>1, <3>2
  <2> QED
    BY <1>5, <2>4, <2>5 DEF TreeInv
<1>10. /\ Ring(next')
       /\ \A x \in Proc : next'[x] # x => state'[x] \in Alive
       /\ next'[InitProc] = InitProc
  <2>1. /\ \A x \in Proc : next[x] # x => state[x] \in Alive
        /\ next[InitProc] = InitProc
    BY DEF ProcInv, RingInv
  <2>2. CASE ~thread
    BY <1>1, <1>2, <1>7, <2>1, <2>2 DEF Alive
  <2>3. CASE thread
    <3>1. next' = AddThread(p, q)
      BY <1>2, <2>3
    <3>2. /\ Ring(next')
          /\ \A x \in Proc : next'[x] = IF x = q THEN p
                                        ELSE IF next[x] = p THEN q ELSE next[x]
      BY <1>0, <1>1, <1>3, <3>1, AddThreadRing
    <3>3. ASSUME NEW x \in Proc, next'[x] # x
          PROVE  state'[x] \in Alive
      <4>1. x = q \/ x = p \/ next[x] # x
        BY <3>2, <3>3
      <4> QED
        BY <1>0, <1>7, <2>1, <4>1 DEF Alive
    <3>4. next'[InitProc] = InitProc
      BY <1>0, <2>1, <3>2, ProcAssumption
    <3> QED
      BY <3>2, <3>3, <3>4
  <2> QED
    BY <2>2, <2>3
<1>11. PlaceInv'
  <2>1. PlaceInv
    BY DEF ProcInv
  <2>2. ASSUME NEW x \in User
        PROVE  (/\ at[x] # "final"
                /\ at[x] = "wait" <=> waitFor[x] # Nil
                /\ state[x] = "SLEEPING" => at[x] = "wait"
                /\ state[x] \notin Alive => at[x] = "user")'
    <3>0. x \in Proc
      BY DEF User
    <3>1. CASE x = q
      <4>1. state'[x] = "RUNNABLE" /\ at'[x] = "user" /\ waitFor'[x] = Nil
        BY <1>2, <1>3, <1>7, <3>0, <3>1
      <4> QED
        BY <4>1 DEF Alive
    <3>2. CASE x = p
      <4>1. /\ state'[x] = "RUNNABLE" /\ at'[x] \in {"user", "ret"}
            /\ waitFor'[x] = waitFor[p]
        BY <1>0, <1>2, <1>6, <1>7, <3>0, <3>2
      <4>2. waitFor[p] = Nil
        BY <1>0, <2>1 DEF PlaceInv
      <4> QED
        BY <4>1, <4>2 DEF Alive
    <3>3. CASE x # q /\ x # p
      BY <1>2, <1>7, <2>1, <3>0, <3>3 DEF PlaceInv
    <3> QED
      BY <3>1, <3>2, <3>3
  <2>3. /\ state'[InitProc] \in Alive /\ at'[InitProc] \in {"wait", "final"}
        /\ waitFor'[InitProc] = AnyChild /\ links'.parent[InitProc] = Nil
    BY <1>0, <1>2, <1>7, <2>1, ProcAssumption DEF PlaceInv
  <2>4. /\ state'[Kswapd] = "SLEEPING" /\ waitFor'[Kswapd] = Nil
        /\ links'.parent[Kswapd] = InitProc
    BY <1>0, <1>2, <1>7, <2>1, ProcAssumption DEF PlaceInv
  <2>5. at'[InitProc] = "wait"
    BY <1>0, <1>7, NotFinal, ProcAssumption
  <2> QED
    BY <2>2, <2>3, <2>4, <2>5 DEF PlaceInv
<1>12. NoDeadChild(state', links', next', waitFor')
  <2>1. SUFFICES ASSUME NEW r \in Proc, NEW x \in Proc,
                        state'[r] = "SLEEPING", waitFor'[r] # Nil,
                        links'.parent[x] \in Orbit(next', r),
                        waitFor'[r] = AnyChild \/ x = waitFor'[r],
                        state'[x] = "ZOMBIE"
                 PROVE  FALSE
    BY DEF NoDeadChild
  <2>2. /\ state[r] = "SLEEPING" /\ waitFor[r] = waitFor'[r] /\ state[x] = "ZOMBIE"
        /\ x # q /\ r # q /\ links'.parent[x] = links.parent[x]
    BY <1>2, <1>7, <2>1
  <2>3. links.parent[x] \in Orbit(next, r)
    <3>1. CASE ~thread
      BY <1>2, <2>1, <2>2, <3>1
    <3>2. CASE thread
      <4>1. next' = AddThread(p, q)
        BY <1>2, <3>2
      <4>2. Orbit(AddThread(p, q), r) \subseteq Orbit(next, r) \cup {q}
        BY <1>0, <1>1, <1>3, <2>2, AddThreadOrbit
      <4> QED
        BY <1>3, <2>1, <2>2, <4>1, <4>2
    <3> QED
      BY <3>1, <3>2
  <2> QED
    BY <1>1, <2>1, <2>2, <2>3 DEF NoDeadChild
<1> QED
  BY <1>8, <1>9, <1>10, <1>11, <1>12, InvNext

\* init_main has created u and kswapd.
LEMMA InitInv ==
  ASSUME Init
  PROVE  ProcInv
<1>1. PICK u \in User :
        /\ state = [p \in Proc |-> CASE p \in {InitProc, u} -> "RUNNABLE"
                                     [] p = Kswapd -> "SLEEPING"
                                     [] OTHER -> "UNINIT"]
        /\ links = [parent |-> [p \in Proc |-> IF p \in {Kswapd, u} THEN InitProc ELSE Nil],
                    cptr   |-> [p \in Proc |-> IF p = InitProc THEN u ELSE Nil],
                    optr   |-> [p \in Proc |-> IF p = u THEN Kswapd ELSE Nil],
                    yptr   |-> [p \in Proc |-> IF p = Kswapd THEN u ELSE Nil]]
  BY DEF Init
<1>2. /\ u \in Proc /\ u # InitProc /\ u # Kswapd /\ InitProc # Kswapd
      /\ InitProc \in Proc /\ Kswapd \in Proc /\ Nil \notin Proc
      /\ AnyChild \notin Proc \cup {Nil}
  BY ProcAssumption DEF User
<1>3. /\ next = [p \in Proc |-> p] /\ exiting = [p \in Proc |-> FALSE]
      /\ exitCode = [p \in Proc |-> "none"]
      /\ waitFor = [p \in Proc |-> IF p = InitProc THEN AnyChild ELSE Nil]
      /\ at = [p \in Proc |-> IF p = InitProc THEN "wait" ELSE "user"]
      /\ nrProcess = 4
  BY DEF Init, NrProcessStore
<1>4. \A p \in Proc : state[p] = IF p = InitProc \/ p = u THEN "RUNNABLE"
                                 ELSE IF p = Kswapd THEN "SLEEPING" ELSE "UNINIT"
  BY <1>1, <1>2
<1>5. state \in [Proc -> {"UNINIT", "RUNNABLE", "SLEEPING", "ZOMBIE"}]
  <2>1. DOMAIN state = Proc /\ state = [p \in Proc |-> state[p]]
    BY <1>1
  <2> QED
    BY <1>4, <2>1
<1>6. /\ links \in LinksType
      /\ \A p \in Proc : /\ links.parent[p] = IF p = Kswapd \/ p = u THEN InitProc ELSE Nil
                         /\ links.cptr[p] = IF p = InitProc THEN u ELSE Nil
                         /\ links.optr[p] = IF p = u THEN Kswapd ELSE Nil
                         /\ links.yptr[p] = IF p = Kswapd THEN u ELSE Nil
  BY <1>1, <1>2 DEF LinksType
<1>7. TypeOK
  <2>1. nrProcess \in 0 .. MaxProcess
    BY <1>3, ProcAssumption
  <2> QED
    BY <1>2, <1>3, <1>5, <1>6, <2>1 DEF TypeOK, LinksType, Code
<1>8. Tree(links)
  <2>1. \A p, q \in Proc : links.cptr[p] = q <=> links.parent[q] = p /\ links.yptr[q] = Nil
    BY <1>2, <1>6
  <2>2. \A p, q \in Proc : links.yptr[q] = p <=> links.optr[p] = q
    BY <1>2, <1>6
  <2>3. \A p, q \in Proc : links.optr[p] = q
                             => links.parent[q] = links.parent[p] /\ links.parent[p] # Nil
    BY <1>2, <1>6
  <2>4. ASSUME NEW S \in SUBSET Proc, S # {}
        PROVE  \E q \in S : links.yptr[q] \notin S
    <3>1. CASE S = {Kswapd}
      BY <1>2, <1>6, <3>1
    <3>2. CASE S # {Kswapd}
      <4>1. PICK q \in S : q # Kswapd
        BY <2>4, <3>2
      <4> QED
        BY <1>2, <1>6, <4>1
    <3> QED
      BY <3>1, <3>2
  <2> QED
    BY <1>6, <2>1, <2>2, <2>3, <2>4 DEF Tree
<1>9. TreeInv
  <2>1. {p \in Proc : InUse(p)} = {InitProc, Kswapd, u}
    BY <1>2, <1>4 DEF InUse
  <2>2. Cardinality({InitProc, Kswapd, u}) = 3
    BY ThreeProcesses
  <2>5. \A p \in Proc : links.parent[p] # Nil => InUse(p) /\ state[links.parent[p]] \in Alive
    BY <1>2, <1>4, <1>6 DEF InUse, Alive
  <2> QED
    BY <1>3, <1>8, <2>1, <2>2, <2>5 DEF TreeInv
<1>10. RingInv
  BY <1>2, <1>3 DEF RingInv
<1>11. PlaceInv
  <2>1. ASSUME NEW p \in User
        PROVE  /\ at[p] = "user" /\ waitFor[p] = Nil /\ state[p] # "SLEEPING"
    BY <1>3, <1>4 DEF User
  <2> QED
    BY <1>2, <1>3, <1>4, <1>6, <2>1 DEF PlaceInv, Alive
<1>12. NoLostWakeup
  BY <1>2, <1>3, <1>4 DEF NoLostWakeup, WaitsForChild
<1> QED
  BY <1>7, <1>9, <1>10, <1>11, <1>12 DEF ProcInv

\* A step that changes nothing.
LEMMA StutterInv ==
  ASSUME ProcInv, UNCHANGED vars
  PROVE  ProcInv'
<1>1. /\ FieldsOK /\ Ring(next) /\ NoDeadChild(state, links, next, waitFor)
  BY InvFacts DEF FieldsOK
<1>2. FieldsOK'
  BY <1>1 DEF FieldsOK, vars
<1>3. TreeInv'
  BY DEF ProcInv, TreeInv, InUse, vars
<1>4. PlaceInv'
  BY DEF ProcInv, PlaceInv, vars
<1>5. /\ Ring(next') /\ next'[InitProc] = InitProc
      /\ \A x \in Proc : next'[x] # x => state'[x] \in Alive
  BY <1>1 DEF ProcInv, RingInv, vars
<1>6. NoDeadChild(state', links', next', waitFor')
  BY <1>1 DEF vars
<1> QED
  BY <1>2, <1>3, <1>4, <1>5, <1>6, InvNext

\* Every step keeps ProcInv.
LEMMA NextInv ==
  ASSUME ProcInv, [Next]_vars
  PROVE  ProcInv'
<1>1. ASSUME NEW p \in User, Exec(p)
      PROVE  ProcInv'
  BY <1>1, ExecInv
<1>2. ASSUME NEW p \in User, Exit(p)
      PROVE  ProcInv'
  BY <1>2, ExitInv
<1>3. ASSUME NEW p \in User, ExitThread(p)
      PROVE  ProcInv'
  BY <1>3, ExitThreadInv
<1>4. ASSUME NEW p \in User, MayKilled(p)
      PROVE  ProcInv'
  BY <1>4, MayKilledInv
<1>5. ASSUME NEW p \in User, WaitAgain(p)
      PROVE  ProcInv'
  BY <1>5, WaitAgainInv
<1>6. ASSUME NEW p \in User, NEW q \in User, Kill(p, q)
      PROVE  ProcInv'
  BY <1>6, KillInv
<1>7. ASSUME NEW p \in User, NEW q \in User \cup {AnyChild}, Wait(p, q)
      PROVE  ProcInv'
  <2>1. q \in Proc \cup {AnyChild}
    BY DEF User
  <2> QED
    BY <1>7, <2>1, WaitInv
<1>8. ASSUME NEW p \in User, NEW q \in User, NEW thread \in BOOLEAN,
             NEW share \in BOOLEAN, Fork(p, q, thread, share)
      PROVE  ProcInv'
  BY <1>8, ForkInv
<1>9. ASSUME InitWait
      PROVE  ProcInv'
  BY <1>9, InitWaitInv
<1>10. ASSUME Final \/ UNCHANGED vars
       PROVE  ProcInv'
  <2>1. UNCHANGED vars
    BY <1>10 DEF Final
  <2> QED
    BY <2>1, StutterInv
<1> QED
  BY <1>1, <1>2, <1>3, <1>4, <1>5, <1>6, <1>7, <1>8, <1>9, <1>10 DEF Next
-----------------------------------------------------------------------------
(* The theorems. *)

\* The inductive invariant: after any sequence of forks, exits, kills and waits the
\* pointers of the tree obey their laws without a cycle of siblings, the rings of
\* threads are permutations that only the living move in, every process is where its
\* state says, and no process that sleeps in do_wait has a dead child to wait for.
THEOREM ProcInvariant == Spec => []ProcInv
<1>1. Init => ProcInv
  BY InitInv
<1>2. ProcInv /\ [Next]_vars => ProcInv'
  BY NextInv
<1> QED
  BY <1>1, <1>2, PTL DEF Spec

\* The family tree is consistent: from cptr along optr one meets exactly the
\* processes whose parent it is, yptr leads back, parents are alive and nr_process
\* counts the processes.  set_links, remove_links and the loop of __do_exit.
THEOREM FamilyTree == Spec => []TreeConsistent
<1>1. ASSUME ProcInv
      PROVE  TreeConsistent
  <2>1. \A p \in Proc : Children(links, p) = {q \in Proc : links.parent[q] = p}
    BY <1>1, InvFacts, ChildrenExact
  <2> QED
    BY <1>1, <2>1 DEF ProcInv, TreeInv, Tree, TreeConsistent, Alive
<1> QED
  BY <1>1, ProcInvariant, PTL

\* The thread groups are closed rings of living threads: list_add_before of do_fork
\* and de_thread never leave a dead thread behind.
THEOREM ThreadRings == Spec => []RingsOfLiving
<1>1. ProcInv => RingsOfLiving
  BY DEF ProcInv, RingInv, RingsOfLiving, Alive
<1> QED
  BY <1>1, ProcInvariant, PTL

\* No wakeup is lost between do_wait and __do_exit: nobody sleeps for a child that
\* is dead already, also when the child died with another parent and was handed over.
THEOREM ChildrenNoticed == Spec => []NoLostWakeup
<1>1. ProcInv => NoLostWakeup
  BY DEF ProcInv
<1> QED
  BY <1>1, ProcInvariant, PTL

-----------------------------------------------------------------------------
(* Address spaces.  AddressSpacesExact is inductive on top of ProcInv.      *)

\* The processes whose address space is m.
UsersOf(f, m) == {p \in Proc : f[p] = m}

\* What all proofs below need: the sets are finite, and counted by mmCount.
LEMMA UsersCounted ==
  ASSUME AddressSpacesExact, NEW m \in Mm
  PROVE  /\ IsFiniteSet(UsersOf(mm, m)) /\ IsFiniteSet(UsersOf(mm', m))
         /\ mmCount[m] = Cardinality(UsersOf(mm, m)) /\ mmCount[m] \in Nat
         /\ mmCount[m] = 0 => UsersOf(mm, m) = {}
<1>1. IsFiniteSet(UsersOf(mm, m)) /\ IsFiniteSet(UsersOf(mm', m))
  BY ProcAssumption, FS_Subset DEF UsersOf
<1>2. mmCount[m] = Cardinality(UsersOf(mm, m)) /\ mmCount[m] \in Nat
  BY DEF AddressSpacesExact, UsersOf
<1> QED
  BY <1>1, <1>2, FS_EmptySet

\* A step that changes neither the address spaces nor who is alive.
LEMMA SameSpaces ==
  ASSUME AddressSpacesExact, UNCHANGED memVars,
         \A p \in User : state'[p] \in Alive <=> state[p] \in Alive
  PROVE  AddressSpacesExact'
BY DEF AddressSpacesExact, memVars, Alive

\* A process that gets or gives back an address space: fork, exec and exit.
LEMMA SpacesStep ==
  ASSUME NEW f, NEW h, NEW q \in Proc, NEW m, NEW n \in Mm, f[q] = Nil \/ m = Nil,
         \A r \in Proc : h[r] = IF r = q THEN m ELSE f[r]
  PROVE  Cardinality(UsersOf(h, n))
           = IF n = m THEN Cardinality(UsersOf(f, n)) + 1
             ELSE IF n = f[q] THEN Cardinality(UsersOf(f, n)) - 1
             ELSE Cardinality(UsersOf(f, n))
<1> DEFINE A == UsersOf(f, n)
           B == UsersOf(h, n)
<1>1. IsFiniteSet(A)
  BY ProcAssumption, FS_Subset DEF UsersOf
<1>2. n # Nil
  BY ProcAssumption
<1>3. CASE n = m
  <2>1. B = A \cup {q} /\ q \notin A
    BY <1>2, <1>3 DEF UsersOf
  <2>2. Cardinality(A \cup {q}) = Cardinality(A) + 1
    BY <1>1, <2>1, FS_AddElement
  <2> QED
    BY <1>3, <2>1, <2>2
<1>4. CASE n # m /\ n = f[q]
  <2>1. B = A \ {q} /\ q \in A
    BY <1>2, <1>4 DEF UsersOf
  <2>2. Cardinality(A \ {q}) = Cardinality(A) - 1
    BY <1>1, <2>1, FS_RemoveElement
  <2> QED
    BY <1>4, <2>1, <2>2
<1>5. CASE n # m /\ n # f[q]
  <2>1. B = A
    BY <1>5 DEF UsersOf
  <2> QED
    BY <1>5, <2>1
<1> QED
  BY <1>3, <1>4, <1>5

\* do_fork: the child shares the address space or is the first in a free one.
LEMMA ForkSpaces ==
  ASSUME ProcInv, AddressSpacesExact, NEW p \in User, NEW q \in User,
         NEW thread \in BOOLEAN, NEW share \in BOOLEAN, Fork(p, q, thread, share)
  PROVE  AddressSpacesExact'
<1>1. /\ p \in Proc /\ q \in Proc /\ state[p] = "RUNNABLE" /\ state[q] = "UNINIT"
      /\ state \in [Proc -> {"UNINIT", "RUNNABLE", "SLEEPING", "ZOMBIE"}]
  BY InvFacts DEF User, Fork, Executes, InUse
<1>2. /\ mm \in [Proc -> Mm \cup {Nil}] /\ mmCount \in [Mm -> Nat] /\ mm[q] = Nil
      /\ mm[p] \in Mm
      /\ \A n \in Mm : mmCount[n] = Cardinality(UsersOf(mm, n))
  BY <1>1 DEF AddressSpacesExact, UsersOf
<1>3. PICK m \in Mm : /\ mm' = [mm EXCEPT ![q] = m]
                      /\ mmCount' = [mmCount EXCEPT ![m] = @ + 1]
  BY <1>2 DEF Fork, CopyMm
<1>4. ASSUME NEW n \in Mm
      PROVE  Cardinality(UsersOf(mm', n)) = mmCount'[n]
  <2> DEFINE h == mm'
  <2>1. q \in Proc /\ mm[q] = Nil /\ \A r \in Proc : h[r] = IF r = q THEN m ELSE mm[r]
    BY <1>1, <1>2, <1>3
  <2> HIDE DEF h
  <2>2. Cardinality(UsersOf(h, n))
          = IF n = m THEN Cardinality(UsersOf(mm, n)) + 1
            ELSE IF n = mm[q] THEN Cardinality(UsersOf(mm, n)) - 1
            ELSE Cardinality(UsersOf(mm, n))
    BY <2>1, SpacesStep
  <2> QED
    BY <1>2, <1>3, <2>2, ProcAssumption DEF h
<1>5. mm' \in [Proc -> Mm \cup {Nil}] /\ mmCount' \in [Mm -> Nat]
  BY <1>1, <1>2, <1>3
<1>6. \A r \in Proc : mm'[r] # Nil <=> r \in User /\ state'[r] \in Alive
  <2>1. state' = [state EXCEPT ![q] = "RUNNABLE"]
    BY DEF Fork
  <2>2. \A r \in Proc : mm[r] # Nil <=> r \in User /\ state[r] \in Alive
    BY DEF AddressSpacesExact, Alive
  <2> QED
    BY <1>1, <1>2, <1>3, <2>1, <2>2, ProcAssumption DEF Alive
<1> QED
  BY <1>4, <1>5, <1>6 DEF AddressSpacesExact, UsersOf, Alive

\* What is left when p has given its address space back.
LEMMA ReleasedSpaces ==
  ASSUME AddressSpacesExact, NEW p \in Proc, mm[p] # Nil
  PROVE  /\ mm \in [Proc -> Mm \cup {Nil}] /\ mmCount \in [Mm -> Nat] /\ mm[p] \in Mm
         /\ Released(p) \in [Mm -> Nat]
         /\ \A n \in Mm : Released(p)[n] = Cardinality(UsersOf([mm EXCEPT ![p] = Nil], n))
<1>1. /\ mm \in [Proc -> Mm \cup {Nil}] /\ mmCount \in [Mm -> Nat] /\ mm[p] \in Mm
      /\ \A n \in Mm : mmCount[n] = Cardinality(UsersOf(mm, n))
  BY DEF AddressSpacesExact, UsersOf
<1>2. ASSUME NEW n \in Mm
      PROVE  Cardinality(UsersOf([mm EXCEPT ![p] = Nil], n))
               = IF n = mm[p] THEN mmCount[n] - 1 ELSE mmCount[n]
  <2> DEFINE h == [mm EXCEPT ![p] = Nil]
  <2>1. \A r \in Proc : h[r] = IF r = p THEN Nil ELSE mm[r]
    BY <1>1
  <2> HIDE DEF h
  <2>2. Cardinality(UsersOf(h, n))
          = IF n = Nil THEN Cardinality(UsersOf(mm, n)) + 1
            ELSE IF n = mm[p] THEN Cardinality(UsersOf(mm, n)) - 1
            ELSE Cardinality(UsersOf(mm, n))
    BY <2>1, SpacesStep
  <2>3. n # Nil
    BY ProcAssumption
  <2> QED
    BY <1>1, <2>2, <2>3 DEF h
<1>3. \A n \in Mm : Released(p)[n] = IF n = mm[p] THEN mmCount[n] - 1 ELSE mmCount[n]
  BY <1>1 DEF Released
<1>4. mmCount[mm[p]] # 0
  <2>1. p \in UsersOf(mm, mm[p])
    BY DEF UsersOf
  <2> QED
    BY <1>1, <2>1, UsersCounted
<1>5. Released(p) \in [Mm -> Nat]
  <2>1. mmCount[mm[p]] - 1 \in Nat
    BY <1>1, <1>4
  <2> QED
    BY <1>1, <2>1 DEF Released
<1> QED
  BY <1>1, <1>2, <1>3, <1>5

\* A living user process has an address space.
LEMMA AliveHasSpace ==
  ASSUME AddressSpacesExact, NEW p \in User, state[p] = "RUNNABLE"
  PROVE  p \in Proc /\ mm[p] # Nil
BY DEF AddressSpacesExact, User

\* do_execve: the old address space is given back, a new one is taken.
LEMMA ExecSpaces ==
  ASSUME ProcInv, AddressSpacesExact, NEW p \in User, Exec(p)
  PROVE  AddressSpacesExact'
<1> DEFINE f == [mm EXCEPT ![p] = Nil]
<1>1. p \in Proc /\ mm[p] # Nil /\ state[p] = "RUNNABLE" /\ state' = state
  BY AliveHasSpace DEF Exec, Executes
<1>2. /\ mm \in [Proc -> Mm \cup {Nil}] /\ Released(p) \in [Mm -> Nat]
      /\ \A n \in Mm : Released(p)[n] = Cardinality(UsersOf(f, n))
  BY <1>1, ReleasedSpaces
<1>3. PICK m \in Mm : /\ mm' = [mm EXCEPT ![p] = m]
                      /\ mmCount' = [Released(p) EXCEPT ![m] = @ + 1]
  BY DEF Exec, NewMm
<1>4. f \in [Proc -> Mm \cup {Nil}] /\ f[p] = Nil /\ mm' = [f EXCEPT ![p] = m]
  BY <1>1, <1>2, <1>3
<1> HIDE DEF f
<1>5. ASSUME NEW n \in Mm
      PROVE  Cardinality(UsersOf(mm', n)) = mmCount'[n]
  <2> DEFINE h == mm'
  <2>1. p \in Proc /\ f[p] = Nil /\ \A r \in Proc : h[r] = IF r = p THEN m ELSE f[r]
    BY <1>1, <1>4
  <2> HIDE DEF h
  <2>2. Cardinality(UsersOf(h, n))
          = IF n = m THEN Cardinality(UsersOf(f, n)) + 1
            ELSE IF n = f[p] THEN Cardinality(UsersOf(f, n)) - 1
            ELSE Cardinality(UsersOf(f, n))
    BY <2>1, SpacesStep
  <2> QED
    BY <1>2, <1>3, <1>4, <2>2, ProcAssumption DEF h
<1>6. mm' \in [Proc -> Mm \cup {Nil}] /\ mmCount' \in [Mm -> Nat]
  BY <1>1, <1>2, <1>3
<1>7. \A r \in Proc : mm'[r] # Nil <=> r \in User /\ state'[r] \in Alive
  <2>1. \A r \in Proc : mm[r] # Nil <=> r \in User /\ state[r] \in Alive
    BY DEF AddressSpacesExact, Alive
  <2> QED
    BY <1>1, <1>2, <1>3, <2>1, ProcAssumption DEF Alive
<1> QED
  BY <1>5, <1>6, <1>7 DEF AddressSpacesExact, UsersOf, Alive

\* __do_exit, which wakes sleeping processes only.
LEMMA DoExitSpaces ==
  ASSUME ProcInv, AddressSpacesExact, NEW p \in User, state[p] = "RUNNABLE", NEW W,
         \A q \in W : WaitsForChild(q), DoExit(p, W)
  PROVE  AddressSpacesExact'
<1>1. p \in Proc /\ mm[p] # Nil
  BY AliveHasSpace
<1>2. /\ mm \in [Proc -> Mm \cup {Nil}] /\ Released(p) \in [Mm -> Nat]
      /\ \A n \in Mm : Released(p)[n] = Cardinality(UsersOf([mm EXCEPT ![p] = Nil], n))
  BY <1>1, ReleasedSpaces
<1>3. mm' = [mm EXCEPT ![p] = Nil] /\ mmCount' = Released(p)
  BY DEF DoExit
<1>4. \A r \in Proc : state'[r] \in Alive <=> r # p /\ state[r] \in Alive
  <2>1. /\ state \in [Proc -> {"UNINIT", "RUNNABLE", "SLEEPING", "ZOMBIE"}]
        /\ state' = [Wakeup(W \cup WokenByExit(p)) EXCEPT ![p] = "ZOMBIE"]
    BY InvFacts DEF DoExit
  <2>2. \A r \in W \cup WokenByExit(p) : state[r] = "SLEEPING"
    BY DEF WokenByExit, WaitsForChild
  <2>3. Wakeup(W \cup WokenByExit(p))
          = [r \in Proc |-> IF r \in W \cup WokenByExit(p) THEN "RUNNABLE" ELSE state[r]]
    BY DEF Wakeup
  <2> QED
    BY <1>1, <2>1, <2>2, <2>3 DEF Alive
<1>5. \A r \in Proc : mm[r] # Nil <=> r \in User /\ state[r] \in Alive
  BY DEF AddressSpacesExact, Alive
<1>6. /\ mm' \in [Proc -> Mm \cup {Nil}] /\ mmCount' \in [Mm -> Nat]
      /\ \A n \in Mm : mmCount'[n] = Cardinality(UsersOf(mm', n))
  BY <1>1, <1>2, <1>3
<1>7. \A r \in Proc : mm'[r] # Nil <=> r \in User /\ state'[r] \in Alive
  BY <1>1, <1>2, <1>3, <1>4, <1>5
<1> QED
  BY <1>6, <1>7 DEF AddressSpacesExact, UsersOf, Alive

\* do_wait: a process that sleeps is alive, one that is reaped was not.
LEMMA SearchSpaces ==
  ASSUME ProcInv, AddressSpacesExact, NEW p \in User, state[p] = "RUNNABLE",
         NEW who, Search(p, who)
  PROVE  AddressSpacesExact'
<1>1. state \in [Proc -> {"UNINIT", "RUNNABLE", "SLEEPING", "ZOMBIE"}] /\ p \in Proc
  BY InvFacts DEF User
<1>2. UNCHANGED memVars
  BY DEF Search
<1>3. \A r \in User : state'[r] \in Alive <=> state[r] \in Alive
  BY <1>1 DEF Search, Reap, User, Alive
<1> QED
  BY <1>2, <1>3, SameSpaces

\* Every step keeps the address spaces exact.
LEMMA NextSpaces ==
  ASSUME ProcInv, AddressSpacesExact, [Next]_vars
  PROVE  AddressSpacesExact'
<1>0. state \in [Proc -> {"UNINIT", "RUNNABLE", "SLEEPING", "ZOMBIE"}]
  BY InvFacts
<1>1. ASSUME NEW p \in User, Exec(p)
      PROVE  AddressSpacesExact'
  BY <1>1, ExecSpaces
<1>2. ASSUME NEW p \in User, Exit(p)
      PROVE  AddressSpacesExact'
  <2> DEFINE W == {q \in {r \in Group(p) \ {p} : ~exiting[r]} : WaitsForChild(q)}
  <2>1. DoExit(p, W) /\ state[p] = "RUNNABLE"
    BY <1>2 DEF Exit, Executes
  <2>2. \A q \in W : WaitsForChild(q)
    OBVIOUS
  <2> HIDE DEF W
  <2> QED
    BY <2>1, <2>2, DoExitSpaces
<1>3. ASSUME NEW p \in User, ExitThread(p) \/ MayKilled(p)
      PROVE  AddressSpacesExact'
  <2>1. DoExit(p, {}) /\ state[p] = "RUNNABLE"
    BY <1>3 DEF ExitThread, MayKilled, Executes
  <2> QED
    BY <2>1, DoExitSpaces
<1>4. ASSUME NEW p \in User, WaitAgain(p)
      PROVE  AddressSpacesExact'
  <2>1. state[p] = "RUNNABLE" /\ (DoExit(p, {}) \/ Search(p, waitFor[p]))
    BY <1>4 DEF WaitAgain, Executes
  <2> QED
    BY <2>1, DoExitSpaces, SearchSpaces
<1>5. ASSUME NEW p \in User, NEW q \in User, Kill(p, q)
      PROVE  AddressSpacesExact'
  <2>1. UNCHANGED memVars
    BY <1>5 DEF Kill
  <2>2. \A r \in User : state'[r] \in Alive <=> state[r] \in Alive
    BY <1>0, <1>5 DEF Kill, Wakeup, WaitsForChild, User, Alive
  <2> QED
    BY <2>1, <2>2, SameSpaces
<1>6. ASSUME NEW p \in User, NEW who, Wait(p, who)
      PROVE  AddressSpacesExact'
  BY <1>6, SearchSpaces DEF Wait, Executes
<1>7. ASSUME NEW p \in User, NEW q \in User, NEW thread \in BOOLEAN,
             NEW share \in BOOLEAN, Fork(p, q, thread, share)
      PROVE  AddressSpacesExact'
  BY <1>7, ForkSpaces
<1>8. ASSUME InitWait
      PROVE  AddressSpacesExact'
  <2>1. UNCHANGED memVars
    BY <1>8 DEF InitWait
  <2>2. \A r \in User : state'[r] \in Alive <=> state[r] \in Alive
    BY <1>0, <1>8 DEF InitWait, Reap, User, Alive
  <2> QED
    BY <2>1, <2>2, SameSpaces
<1>9. ASSUME Final \/ UNCHANGED vars
      PROVE  AddressSpacesExact'
  <2>1. UNCHANGED memVars /\ state' = state
    BY <1>9 DEF Final, vars
  <2> QED
    BY <2>1, SameSpaces
<1> QED
  BY <1>1, <1>2, <1>3, <1>4, <1>5, <1>6, <1>7, <1>8, <1>9 DEF Next

\* The first program has the only address space.
LEMMA InitSpaces == Init => AddressSpacesExact
<1> SUFFICES ASSUME Init
             PROVE  AddressSpacesExact
  OBVIOUS
<1>1. PICK u \in User :
        /\ state = [p \in Proc |-> CASE p \in {InitProc, u} -> "RUNNABLE"
                                    [] p = Kswapd -> "SLEEPING"
                                    [] OTHER -> "UNINIT"]
        /\ \E m \in Mm : /\ mm = [p \in Proc |-> IF p = u THEN m ELSE Nil]
                         /\ mmCount = [n \in Mm |-> IF n = m THEN 1 ELSE 0]
  BY DEF Init
<1>2. PICK m \in Mm : /\ mm = [p \in Proc |-> IF p = u THEN m ELSE Nil]
                      /\ mmCount = [n \in Mm |-> IF n = m THEN 1 ELSE 0]
  BY <1>1
<1>3. mm \in [Proc -> Mm \cup {Nil}] /\ mmCount \in [Mm -> Nat]
  BY <1>2
<1>4. \A p \in Proc : mm[p] # Nil <=> p \in User /\ state[p] \in {"RUNNABLE", "SLEEPING"}
  BY <1>1, <1>2, ProcAssumption DEF User
<1>5. ASSUME NEW n \in Mm
      PROVE  mmCount[n] = Cardinality({p \in Proc : mm[p] = n})
  <2>1. n # Nil /\ u \in Proc
    BY ProcAssumption DEF User
  <2>2. {p \in Proc : mm[p] = n} = IF n = m THEN {u} ELSE {}
    BY <1>2, <2>1
  <2>3. Cardinality({u}) = 1 /\ Cardinality({}) = 0
    BY FS_Singleton, FS_EmptySet
  <2> QED
    BY <1>2, <2>2, <2>3
<1> QED
  BY <1>3, <1>4, <1>5 DEF AddressSpacesExact

\* mm_count is exact: copy_mm, do_execve and __do_exit never free an address space
\* under a living process, never free one twice, and lose none.
THEOREM SpacesCounted == Spec => []AddressSpacesExact
<1>1. ProcInv /\ AddressSpacesExact /\ [Next]_vars => AddressSpacesExact'
  BY NextSpaces
<1> QED
  BY <1>1, InitSpaces, ProcInvariant, PTL DEF Spec

\* The asserts at the end of init_main hold, as far as they are about what do_fork and
\* do_execve take: when nr_process is back at nr_process_store, kswapd is the only child
\* of initproc, neither has a sibling, no proc_struct of a user process is left (no zombie
\* is forgotten), and no mm_struct.
THEOREM InitMainAsserts == Spec => []FinalAsserts
<1>1. ASSUME ProcInv, at[InitProc] = "final"
      PROVE  /\ links.cptr[InitProc] = Kswapd
             /\ links.yptr[InitProc] = Nil /\ links.optr[InitProc] = Nil
             /\ links.cptr[Kswapd] = Nil /\ links.yptr[Kswapd] = Nil
             /\ links.optr[Kswapd] = Nil /\ \A p \in User : ~InUse(p)
  <2>1. nrProcess = 3 /\ links.parent[InitProc] = Nil /\ links.parent[Kswapd] = InitProc
    BY <1>1 DEF ProcInv, PlaceInv, NrProcessStore
  \* Only initproc and kswapd are left.
  <2>2. \A p \in User : ~InUse(p)
    BY <1>1, NotFinal
  <2>3. \A p \in Proc : links.parent[p] # Nil => p = Kswapd
    BY <1>1, <2>1, <2>2 DEF ProcInv, TreeInv, User
  <2>4. /\ links.cptr \in [Proc -> Proc \cup {Nil}] /\ links.optr \in [Proc -> Proc \cup {Nil}]
        /\ links.yptr \in [Proc -> Proc \cup {Nil}] /\ Tree(links)
    BY <1>1, InvFacts DEF LinksType
  <2>5. links.yptr[Kswapd] # Kswapd
    <3>1. {Kswapd} \in SUBSET Proc /\ {Kswapd} # {}
      BY Finite
    <3>2. \E q \in {Kswapd} : links.yptr[q] \notin {Kswapd}
      BY <2>4, <3>1 DEF Tree
    <3> QED
      BY <3>2
  <2>6. links.optr[Kswapd] = Nil
    BY <2>3, <2>4, <2>5, Finite DEF Tree
  <2>7. links.yptr[Kswapd] = Nil
    <3>1. ASSUME NEW y \in Proc, links.yptr[Kswapd] = y
          PROVE  FALSE
      <4>1. links.optr[y] = Kswapd
        BY <2>4, <3>1, Finite DEF Tree
      <4>2. links.parent[y] # Nil
        BY <2>4, <3>1, <4>1, Finite DEF Tree
      <4> QED
        BY <2>3, <2>5, <3>1, <4>2
    <3> QED
      BY <2>4, <3>1, Finite
  <2>8. links.cptr[InitProc] = Kswapd
    BY <2>1, <2>4, <2>7, Finite DEF Tree
  <2>9. links.cptr[Kswapd] = Nil
    BY <2>1, <2>3, <2>4, Finite, ProcAssumption DEF Tree
  \* A sibling of initproc would have its parent, and it has none.
  <2>10. links.yptr[InitProc] = Nil /\ links.optr[InitProc] = Nil
    BY <2>1, <2>4, Finite DEF Tree
  <2> QED
    BY <2>2, <2>6, <2>7, <2>8, <2>9, <2>10
<1>2. ASSUME ProcInv, AddressSpacesExact, at[InitProc] = "final", NEW m \in Mm
      PROVE  mmCount[m] = 0
  <2>1. \A p \in User : ~InUse(p)
    BY <1>2, NotFinal
  <2>2. \A p \in Proc : mm[p] = Nil
    BY <1>2, <2>1 DEF AddressSpacesExact, InUse
  <2>3. {p \in Proc : mm[p] = m} = {}
    BY <2>2, ProcAssumption
  <2> QED
    BY <1>2, <2>3, FS_EmptySet DEF AddressSpacesExact
<1>3. ProcInv /\ AddressSpacesExact => FinalAsserts
  BY <1>1, <1>2 DEF FinalAsserts
<1> QED
  BY <1>3, ProcInvariant, SpacesCounted, PTL
-----------------------------------------------------------------------------
(* The pids that get_pid gives to these processes (module GetPid): they    *)
(* are different for every MAX_PID and MAX_PROCESS.  PidInv of that module *)
(* is inductive; the assumption on the two limits is the static_assert of  *)
(* proc.c.                                                                 *)

\* Before the first fork last_pid and next_safe are MAX_PID: the interval is empty.
LEMMA InitPid == PidInit => PidInv
BY PidAssumption DEF PidInit, PidInv, PidTypeOK, UniquePids, IntervalFree, FreeInterval

\* The beginning of get_pid: the fast path takes a pid of the free interval.
LEMMA GetPidKeeps ==
  ASSUME PidInv, NEW p \in Proc, GetPid(p)
  PROVE  PidInv'
<1>1. PidTypeOK'
  BY PidAssumption DEF PidInv, GetPid, StartScan, PidTypeOK
<1>2. UniquePids'
  BY PidAssumption DEF PidInv, GetPid, StartScan, UniquePids
<1>3. IntervalFree'
  BY PidAssumption DEF PidInv, GetPid, StartScan, PidTypeOK, IntervalFree, FreeInterval
<1> QED
  BY <1>1, <1>2, <1>3 DEF PidInv

\* An iteration: what is known about the processes met so far stays true when
\* last_pid moves up inside the interval, and when next_safe comes down.
LEMMA ScanKeeps ==
  ASSUME PidInv, NEW p \in Proc, Scan(p)
  PROVE  PidInv'
<1>1. PidTypeOK'
  BY PidAssumption DEF PidInv, Scan, StartScan, PidTypeOK, IntervalFree
<1>2. UniquePids'
  BY PidAssumption DEF PidInv, Scan, StartScan, UniquePids
<1>3. IntervalFree'
  BY PidAssumption DEF PidInv, Scan, StartScan, PidTypeOK, IntervalFree, FreeInterval, UniquePids
<1> QED
  BY <1>1, <1>2, <1>3 DEF PidInv

\* do_fork links a process whose pid nobody else has.
LEMMA SetLinksKeeps ==
  ASSUME PidInv, SetLinks
  PROVE  PidInv'
<1>1. PidTypeOK'
  BY PidAssumption DEF PidInv, SetLinks, PidTypeOK
<1>2. UniquePids'
  BY PidAssumption DEF PidInv, SetLinks, PidTypeOK, UniquePids, IntervalFree
<1>3. IntervalFree'
  BY PidAssumption DEF PidInv, SetLinks, PidTypeOK, IntervalFree, FreeInterval
<1> QED
  BY <1>1, <1>2, <1>3 DEF PidInv

\* A process that is freed leaves no pid in the interval.
LEMMA RemoveLinksKeeps ==
  ASSUME PidInv, NEW p \in Proc, RemoveLinks(p)
  PROVE  PidInv'
<1>1. todo = {}
  BY PidAssumption DEF PidInv, RemoveLinks, IntervalFree
<1>2. PidTypeOK'
  BY <1>1, PidAssumption DEF PidInv, RemoveLinks, PidTypeOK
<1>3. UniquePids'
  BY PidAssumption DEF PidInv, RemoveLinks, PidTypeOK, UniquePids
<1>4. IntervalFree'
  BY <1>1, PidAssumption DEF PidInv, RemoveLinks, PidTypeOK, IntervalFree, FreeInterval
<1> QED
  BY <1>2, <1>3, <1>4 DEF PidInv

\* Every step.
LEMMA PidStep == PidInv /\ [PidNext]_pidVars => PidInv'
<1> SUFFICES ASSUME PidInv, [PidNext]_pidVars PROVE PidInv'
  OBVIOUS
<1>1. CASE ScanEnd
  BY <1>1 DEF ScanEnd, PidInv, PidTypeOK, UniquePids, IntervalFree, FreeInterval
<1>2. CASE UNCHANGED pidVars
  BY <1>2 DEF pidVars, PidInv, PidTypeOK, UniquePids, IntervalFree, FreeInterval
<1> QED
  BY <1>1, <1>2, GetPidKeeps, ScanKeeps, SetLinksKeeps, RemoveLinksKeeps DEF PidNext

\* The interval last_pid .. next_safe is free whenever get_pid relies on it.
THEOREM IntervalAlwaysFree == PidSpec => []IntervalFree
<1>1. PidInv => IntervalFree
  BY DEF PidInv
<1> QED
  BY InitPid, PidStep, <1>1, PTL DEF PidSpec

\* No two processes have the same pid.
THEOREM PidsUnique == PidSpec => []UniquePids
<1>1. PidInv => UniquePids
  BY DEF PidInv
<1> QED
  BY InitPid, PidStep, <1>1, PTL DEF PidSpec
=============================================================================
