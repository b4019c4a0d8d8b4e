--------------------------- MODULE InductionLemmas ---------------------------
(***************************************************************************)
(* Facts the proofs of several components rest on: induction along an      *)
(* interval, the recursive functions behind FoldLeft and behind a loop     *)
(* over 0 .. n, the sequence that SetToSeq chooses, and the cardinality of *)
(* two sets that differ in one element.  None of them has an operator as a *)
(* parameter: what a step of a loop does is given as a function.           *)
(***************************************************************************)
EXTENDS SequencesExt, FiniteSetTheorems, TLAPS

\* Every non-empty set of naturals has a least element.
LEMMA LeastOfNats ==
  ASSUME NEW S \in SUBSET Nat, S # {}
  PROVE  \E m \in S : \A n \in S : m <= n
<1> DEFINE R == {ss \in Nat \X Nat : ss[1] < ss[2]}
<1>1. IsWellFoundedOn(R, Nat)
  BY NatLessThanWellFounded DEF OpToRel
<1>2. \A m, n \in Nat : ~(<<n, m>> \in R) => m <= n
  OBVIOUS
<1> HIDE DEF R
<1>3. \E m \in S : \A n \in S : ~(<<n, m>> \in R)
  BY <1>1, WFMin
<1> QED
  BY <1>2, <1>3

\* Induction along 0 .. n, for membership in a set.
LEMMA UpToInduction ==
  ASSUME NEW n \in Nat, NEW S, 0 \in S,
         \A k \in 1 .. n : k - 1 \in S => k \in S
  PROVE  \A k \in 0 .. n : k \in S
<1> DEFINE Bad == {k \in 0 .. n : k \notin S}
<1>1. SUFFICES ASSUME Bad # {} PROVE FALSE
  BY <1>1
<1>2. PICK m \in Bad : \A k \in Bad : m <= k
  <2>1. Bad \in SUBSET Nat
    OBVIOUS
  <2> HIDE DEF Bad
  <2> QED
    BY <1>1, <2>1, LeastOfNats
<1>3. m \in 1 .. n /\ m - 1 \in 0 .. n /\ m - 1 < m
  BY <1>2
<1>4. m - 1 \in S
  BY <1>2, <1>3
<1> QED
  BY <1>2, <1>3, <1>4

\* What Max is on the index sets a fold goes through.
LEMMA MaxOfIndices ==
  ASSUME NEW k \in Nat, NEW s \in SUBSET (1 .. k), k \in s
  PROVE  Max(s) = k
<1>1. \A y \in s : k >= y
  OBVIOUS
<1>2. \A x \in s : (\A y \in s : x >= y) => x = k
  OBVIOUS
<1> QED
  BY <1>1, <1>2 DEF Max

LEMMA MaxInIndices ==
  ASSUME NEW n \in Nat, NEW s \in SUBSET (1 .. n), s # {}
  PROVE  Max(s) \in s
<1> DEFINE D == {n - x : x \in s}
<1>0. \A x \in s : n - x \in Nat
  OBVIOUS
<1>1. D \in SUBSET Nat /\ D # {}
  BY <1>0
<1> HIDE DEF D
<1>2. PICK d \in D : \A c \in D : d <= c
  BY <1>1, LeastOfNats
<1>3. \E x \in s : \A y \in s : x >= y
  BY <1>2 DEF D
<1> QED
  BY <1>3 DEF Max

LEMMA Indices ==
  ASSUME NEW k \in Nat
  PROVE  /\ 1 .. 0 = {}
         /\ k # 0 => /\ 1 .. k # {}
                     /\ Max(1 .. k) = k
                     /\ (1 .. k) \ {k} = 1 .. k - 1
<1>1. k # 0 => k \in 1 .. k
  OBVIOUS
<1>2. k # 0 => Max(1 .. k) = k
  BY <1>1, MaxOfIndices
<1> QED
  BY <1>1, <1>2

\* h is the function that FoldLeft chooses, and g the sequence of its values
\* after 0 .. n elements: F[i] is what the fold does with the element at i, on
\* a set T of values that it does not leave.
FoldsBy(h, n, T, base, F) ==
  /\ h \in [SUBSET (1 .. n) -> T]
  /\ \A s \in SUBSET (1 .. n) :
        h[s] = IF s = {} THEN base ELSE F[Max(s)][h[s \ {Max(s)}]]

LoopsBy(g, n, T, base, F) ==
  /\ g \in [0 .. n -> T]
  /\ g[0] = base
  /\ \A k \in 1 .. n : g[k] = F[k][g[k - 1]]

LEMMA FoldFunctionExists ==
  ASSUME NEW n \in Nat, NEW T, NEW base \in T, NEW F \in [1 .. n -> [T -> T]]
  PROVE  \E h : FoldsBy(h, n, T, base, F)
<1> DEFINE Good(k, h) ==
        \A s \in SUBSET (1 .. k) :
           h[s] = IF s = {} THEN base ELSE F[Max(s)][h[s \ {Max(s)}]]
           S == {k \in 0 .. n : \E h \in [SUBSET (1 .. k) -> T] : Good(k, h)}
<1>1. 0 \in S
  <2> DEFINE h == [s \in SUBSET (1 .. 0) |-> base]
  <2>1. \A s \in SUBSET (1 .. 0) : s = {}
    BY Indices
  <2>2. h \in [SUBSET (1 .. 0) -> T] /\ Good(0, h) /\ 0 \in 0 .. n
    BY <2>1
  <2> HIDE DEF h, Good
  <2> QED
    BY <2>2
<1>2. ASSUME NEW k \in 1 .. n, k - 1 \in S
      PROVE  k \in S
  <2>1. PICK g \in [SUBSET (1 .. k - 1) -> T] : Good(k - 1, g)
    BY <1>2
  <2> DEFINE h == [s \in SUBSET (1 .. k) |->
                     IF k \in s THEN F[k][g[s \ {k}]] ELSE g[s]]
  <2>2. \A s \in SUBSET (1 .. k) :
           /\ k \in s => s \ {k} \in SUBSET (1 .. k - 1)
           /\ k \notin s => s \in SUBSET (1 .. k - 1)
    OBVIOUS
  <2>3. F[k] \in [T -> T]
    OBVIOUS
  <2>4. h \in [SUBSET (1 .. k) -> T]
    BY <2>2, <2>3
  <2>5. ASSUME NEW s \in SUBSET (1 .. k)
        PROVE  h[s] = IF s = {} THEN base ELSE F[Max(s)][h[s \ {Max(s)}]]
    <3>1. CASE k \in s
      <4>1. Max(s) = k
        BY <3>1, MaxOfIndices
      <4>2. s \ {k} \in SUBSET (1 .. k - 1) /\ k \notin s \ {k}
            /\ s \ {k} \in SUBSET (1 .. k)
        BY <2>2, <3>1
      <4>3. h[s \ {k}] = g[s \ {k}] /\ h[s] = F[k][g[s \ {k}]]
        BY <3>1, <4>2
      <4> HIDE DEF h
      <4> QED
        BY <3>1, <4>1, <4>3
    <3>2. CASE k \notin s
      <4>1. s \in SUBSET (1 .. k - 1)
        BY <2>2, <3>2
      <4>2. s # {} => s \ {Max(s)} \in SUBSET (1 .. k - 1)
                      /\ k \notin s \ {Max(s)}
                      /\ s \ {Max(s)} \in SUBSET (1 .. k)
        BY <3>2, <4>1
      <4>3. h[s] = g[s] /\ (s # {} => h[s \ {Max(s)}] = g[s \ {Max(s)}])
        BY <3>2, <4>1, <4>2
      <4>4. g[s] = IF s = {} THEN base ELSE F[Max(s)][g[s \ {Max(s)}]]
        BY <2>1, <4>1
      <4> HIDE DEF h
      <4> QED
        BY <4>3, <4>4
    <3> QED
      BY <3>1, <3>2
  <2> HIDE DEF h
  <2>6. Good(k, h)
    BY <2>5
  <2> HIDE DEF Good
  <2> QED
    BY <2>4, <2>6
<1> HIDE DEF S
<1>3. \A k \in 1 .. n : k - 1 \in S => k \in S
  BY <1>2
<1>4. \A k \in 0 .. n : k \in S
  BY <1>1, <1>3, UpToInduction
<1>5. n \in S
  BY <1>4
<1> HIDE DEF Good
<1>6. \E h \in [SUBSET (1 .. n) -> T] : Good(n, h)
  BY <1>5 DEF S
<1> QED
  BY <1>6 DEF Good, FoldsBy

\* The same for a function over 0 .. n that gives the n states of a loop.
LEMMA LoopFunctionExists ==
  ASSUME NEW n \in Nat, NEW T, NEW base \in T, NEW F \in [1 .. n -> [T -> T]]
  PROVE  \E g : LoopsBy(g, n, T, base, F)
<1>0. PICK h : FoldsBy(h, n, T, base, F)
  BY FoldFunctionExists
<1>1. /\ h \in [SUBSET (1 .. n) -> T]
      /\ \A s \in SUBSET (1 .. n) :
            h[s] = IF s = {} THEN base ELSE F[Max(s)][h[s \ {Max(s)}]]
  BY <1>0 DEF FoldsBy
<1> DEFINE g == [k \in 0 .. n |-> h[1 .. k]]
<1>2. \A k \in 0 .. n : 1 .. k \in SUBSET (1 .. n)
  OBVIOUS
<1>3. g \in [0 .. n -> T]
  BY <1>1, <1>2
<1>4. g[0] = base
  <2>1. g[0] = h[1 .. 0] /\ 1 .. 0 \in SUBSET (1 .. n) /\ 1 .. 0 = {}
    OBVIOUS
  <2> HIDE DEF g
  <2> QED
    BY <1>1, <2>1
<1>5. ASSUME NEW k \in 1 .. n
      PROVE  g[k] = F[k][g[k - 1]]
  <2>1. g[k] = h[1 .. k] /\ g[k - 1] = h[1 .. k - 1]
    OBVIOUS
  <2>2. k \in Nat /\ k # 0 /\ 1 .. k \in SUBSET (1 .. n)
    OBVIOUS
  <2>3. 1 .. k # {} /\ Max(1 .. k) = k /\ (1 .. k) \ {k} = 1 .. k - 1
    BY <2>2, Indices
  <2>4. h[1 .. k] = IF 1 .. k = {} THEN base
                    ELSE F[Max(1 .. k)][h[(1 .. k) \ {Max(1 .. k)}]]
    BY <1>1, <2>2
  <2> HIDE DEF g
  <2> QED
    BY <2>1, <2>3, <2>4
<1> QED
  BY <1>3, <1>4, <1>5 DEF LoopsBy

\* The values that FoldLeft's function h takes after 0 .. n elements, where h
\* is known to do what F does on the values it has in T.
LEMMA FoldValues ==
  ASSUME NEW n \in Nat, NEW T, NEW base \in T, NEW F \in [1 .. n -> [T -> T]],
         NEW h, h[{}] = base,
         \A k \in 1 .. n : h[1 .. k - 1] \in T => h[1 .. k] = F[k][h[1 .. k - 1]]
  PROVE  LoopsBy([k \in 0 .. n |-> h[1 .. k]], n, T, base, F)
<1> DEFINE g == [k \in 0 .. n |-> h[1 .. k]]
           S == {k \in 0 .. n : h[1 .. k] \in T}
<1>1. 1 .. 0 = {} /\ 0 \in 0 .. n
  BY Indices
<1>2. g[0] = base /\ 0 \in S
  BY <1>1
<1>3. ASSUME NEW k \in 1 .. n, k - 1 \in S
      PROVE  k \in S
  <2>1. h[1 .. k - 1] \in T /\ F[k] \in [T -> T]
    BY <1>3
  <2>2. h[1 .. k] \in T
    BY <2>1
  <2> QED
    BY <2>2
<1> HIDE DEF S
<1>4. \A k \in 0 .. n : k \in S
  BY <1>2, <1>3, UpToInduction
<1>5. \A k \in 0 .. n : h[1 .. k] \in T
  BY <1>4 DEF S
<1>6. \A k \in 1 .. n : /\ g[k] = h[1 .. k] /\ g[k - 1] = h[1 .. k - 1]
                        /\ h[1 .. k - 1] \in T
  BY <1>5
<1>7. g \in [0 .. n -> T]
  BY <1>5
<1> HIDE DEF g
<1> QED
  BY <1>2, <1>6, <1>7 DEF LoopsBy, g

\* SetToSeq lists a finite set, every element at one index.
LEMMA SetToSeqLists ==
  ASSUME NEW S, IsFiniteSet(S)
  PROVE  /\ SetToSeq(S) \in [1 .. Cardinality(S) -> S]
         /\ \A i, j \in 1 .. Cardinality(S) :
               SetToSeq(S)[i] = SetToSeq(S)[j] => i = j
<1>1. ExistsBijection(1 .. Cardinality(S), S)
  BY FS_CardinalityType
<1>2. \E f \in [1 .. Cardinality(S) -> S] : IsInjective(f)
  BY <1>1 DEF ExistsBijection, Bijection, Injection
<1>3. /\ SetToSeq(S) \in [1 .. Cardinality(S) -> S]
      /\ IsInjective(SetToSeq(S))
  BY <1>2 DEF SetToSeq
<1> QED
  BY <1>3 DEF IsInjective

\* Two subsets of a finite set that agree on all elements but x.
LEMMA CountChange ==
  ASSUME NEW D, IsFiniteSet(D), NEW A \in SUBSET D, NEW B \in SUBSET D,
         NEW x, \A y \in D : y # x => (y \in A <=> y \in B)
  PROVE  /\ Cardinality(A) \in Nat /\ Cardinality(B) \in Nat
         /\ Cardinality(B) = Cardinality(A) - (IF x \in A THEN 1 ELSE 0)
                                            + (IF x \in B THEN 1 ELSE 0)
<1>1. /\ IsFiniteSet(A) /\ IsFiniteSet(B) 
      /\ Cardinality(A) \in Nat /\ Cardinality(B) \in Nat
  BY FS_Subset, FS_CardinalityType
<1>2. A \ {x} = B \ {x}
  OBVIOUS
<1>3. /\ Cardinality(A \ {x}) = IF x \in A THEN Cardinality(A) - 1
                                ELSE Cardinality(A)
      /\ Cardinality(B \ {x}) = IF x \in B THEN Cardinality(B) - 1
                                ELSE Cardinality(B)
  BY <1>1, FS_RemoveElement
<1> DEFINE a == Cardinality(A)
           b == Cardinality(B)
<1>4. /\ a \in Nat /\ b \in Nat
      /\ (IF x \in A THEN a - 1 ELSE a) = (IF x \in B THEN b - 1 ELSE b)
  BY <1>1, <1>2, <1>3
<1> HIDE DEF a, b
<1>5. b = a - (IF x \in A THEN 1 ELSE 0) + (IF x \in B THEN 1 ELSE 0)
  BY <1>4
<1> QED
  BY <1>1, <1>5 DEF a, b
=============================================================================
