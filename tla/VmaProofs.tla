------------------------------ MODULE VmaProofs ------------------------------
(***************************************************************************)
(* The address space of a process, proved for every size of the address    *)
(* range, of the pages and of user space, every set of arguments and any   *)
(* number of areas: the look-ups are right (LookupsAlwaysExact), the calls *)
(* change exactly the pages they are asked to (MappingAlwaysExact), and a  *)
(* page that stays mapped keeps what is behind it (BackingKept).           *)
(*                                                                         *)
(* VmaInv is inductive: the list holds areas of whole pages in user space, *)
(* in order and without overlap (Sorted); two areas on one shared object   *)
(* show it at the same distance (OneBase), which is what makes an object's *)
(* byte appear once; mmap_cache names an area of the list (CacheIn); the   *)
(* break is a page address not below the start of the heap (BrkInv).  The  *)
(* list itself is reasoned about only where it is changed, by insertion,   *)
(* replacement and removal of a run of places (InsertVmaSpec, ReplaceSpec, *)
(* WithoutSpec); everything else is said of the set of areas.  The two     *)
(* loops over the list, get_unmapped_area and user_mem_check, are          *)
(* recursive functions with an invariant each (GapAt, CheckedTo).          *)
(***************************************************************************)
EXTENDS Vma, InductionLemmas

\* Addresses of pages.
Aligned(a) == a \in Int /\ a % PgSize = 0

\* A multiple of the page size, as the provers can use it.
LEMMA MultipleAligned ==
  ASSUME NEW n \in Nat \ {0}, NEW k \in Int
  PROVE  (n * k) % n = 0
OBVIOUS

\* A number the page size divides is such a multiple.
LEMMA AlignedMultiple ==
  ASSUME NEW n \in Nat \ {0}, NEW a \in Int, a % n = 0
  PROVE  \E k \in Int : a = n * k
<1>1. a = n * (a \div n) + (a % n)
  OBVIOUS
<1>2. a \div n \in Int
  OBVIOUS
<1>3. a = n * (a \div n)
  BY <1>1, <1>2
<1> QED
  BY <1>2, <1>3

\* Sums and differences of page addresses are page addresses.
LEMMA AlignedSum ==
  ASSUME NEW a, NEW b, Aligned(a), Aligned(b)
  PROVE  Aligned(a + b) /\ Aligned(a - b)
<1> USE VmaAssumption
<1>1. PICK i \in Int : a = PgSize * i
  BY AlignedMultiple DEF Aligned
<1>2. PICK j \in Int : b = PgSize * j
  BY AlignedMultiple DEF Aligned
<1>3. a + b = PgSize * (i + j) /\ a - b = PgSize * (i - j)
  BY <1>1, <1>2
<1>4. i + j \in Int /\ i - j \in Int /\ PgSize \in Nat \ {0}
  BY <1>1, <1>2
<1>5. (PgSize * (i + j)) % PgSize = 0 /\ (PgSize * (i - j)) % PgSize = 0
  BY <1>4, MultipleAligned
<1>6. a + b \in Int /\ a - b \in Int
  BY DEF Aligned
<1> QED
  BY <1>3, <1>5, <1>6 DEF Aligned

\* Two page addresses are a page apart.
LEMMA AlignedGap ==
  ASSUME NEW a, NEW b, Aligned(a), Aligned(b), a < b
  PROVE  a + PgSize <= b
<1>1. Aligned(b - a) /\ a \in Int /\ b \in Int /\ PgSize \in Nat \ {0}
  BY AlignedSum, VmaAssumption DEF Aligned
<1>2. SUFFICES ASSUME b - a < PgSize PROVE FALSE
  BY <1>1
<1>3. (b - a) % PgSize = b - a
  BY <1>1, <1>2
<1> QED
  BY <1>1, <1>3 DEF Aligned

\* The ends of user space and of the address range are page addresses.
LEMMA AlignedConstants ==
  Aligned(0) /\ Aligned(PgSize) /\ Aligned(Top) /\ Aligned(UserBase) /\ Aligned(UserTop)
BY VmaAssumption DEF Aligned

\* ROUNDDOWN gives the page of an address.
LEMMA RoundDownSpec ==
  ASSUME NEW a \in Int
  PROVE  /\ Aligned(RoundDown(a))
         /\ RoundDown(a) <= a /\ a < RoundDown(a) + PgSize
<1>0. PgSize \in Nat \ {0}
  BY VmaAssumption
<1>1. a = PgSize * (a \div PgSize) + (a % PgSize) /\ a % PgSize \in 0 .. PgSize - 1
      /\ a \div PgSize \in Int
  BY <1>0
<1>2. RoundDown(a) = PgSize * (a \div PgSize)
  BY <1>0, <1>1 DEF RoundDown
<1>3. RoundDown(a) % PgSize = 0
  BY <1>0, <1>1, <1>2, MultipleAligned
<1>4. a % PgSize \in Int /\ RoundDown(a) = a - (a % PgSize)
  BY <1>0, <1>1 DEF RoundDown
<1> QED
  BY <1>0, <1>1, <1>3, <1>4 DEF Aligned

\* ROUNDUP wraps around for addresses behind the last page.
LEMMA RoundUpSpec ==
  ASSUME NEW a \in 0 .. Top
  PROVE  /\ Aligned(RoundUp(a))
         /\ RoundUp(a) \in 0 .. Top - 1
         /\ a <= Top - PgSize => a <= RoundUp(a) /\ RoundUp(a) < a + PgSize
         /\ a > Top - PgSize => RoundUp(a) = 0
<1> DEFINE u == RoundDown(a + PgSize - 1)
<1>0. PgSize \in Nat \ {0} /\ Top \in Nat \ {0} /\ PgSize < Top /\ a \in Int
  BY VmaAssumption
<1>1. Aligned(u) /\ a <= u /\ u < a + PgSize /\ u \in Int
  BY <1>0, RoundDownSpec DEF Aligned
<1>2. RoundUp(a) = u % Top
  BY DEF RoundUp, RoundDown
<1>3. u <= Top /\ u >= 0
  <2>1. SUFFICES ASSUME Top < u PROVE FALSE
    BY <1>0, <1>1
  <2>2. Top + PgSize <= u
    BY <2>1, <1>1, AlignedConstants, AlignedGap
  <2> QED
    BY <1>0, <1>1, <2>2
<1>4. CASE u = Top
  BY <1>0, <1>1, <1>2, <1>3, <1>4, AlignedConstants
<1>5. CASE u < Top
  <2>1. u % Top = u
    BY <1>0, <1>1, <1>3, <1>5
  <2>2. u + PgSize <= Top
    BY <1>1, <1>5, AlignedConstants, AlignedGap
  <2> QED
    BY <1>0, <1>1, <1>2, <1>3, <2>1, <2>2
<1> QED
  BY <1>0, <1>1, <1>3, <1>4, <1>5

\* The fields of an area, and of an address space below.
VmaT == [s : Int, e : Int, fl : SUBSET Flag, shm : Int, off : Int]

\* What every area of a list is, taken for itself.
Area(v) ==
  /\ v \in VmaT
  /\ Aligned(v.s) /\ Aligned(v.e) /\ UserAccess(v.s, v.e)
  /\ v.shm \in 0 .. NShm
  /\ 0 <= v.off /\ v.off + (v.e - v.s) <= UserTop
  /\ v.shm # NoShmem => "share" \in v.fl
  /\ "share" \notin v.fl => v.off = 0

\* A list of areas, in the order of their addresses and without overlap.
Sorted(l) ==
  /\ l \in Seq(VmaT)
  /\ \A i \in 1 .. Len(l) : Area(l[i])
  /\ \A i, j \in 1 .. Len(l) : i < j => l[i].e <= l[j].s

\* The first and the last place of a set of places.
LEMMA FirstOfSpec ==
  ASSUME NEW S \in SUBSET Nat, S # {}
  PROVE  FirstOf(S) \in S /\ \A j \in S : FirstOf(S) <= j
BY LeastOfNats DEF FirstOf

LEMMA LastOfSpec ==
  ASSUME NEW n \in Nat, NEW S \in SUBSET (1 .. n), S # {}
  PROVE  LastOf(S) \in S /\ \A j \in S : j <= LastOf(S)
<1>1. S \in SUBSET Nat
  OBVIOUS
<1> DEFINE T == {n - x : x \in S}
<1>2. T \in SUBSET Nat /\ T # {}
  <2>1. \A x \in S : n - x \in Nat
    OBVIOUS
  <2> QED
    BY <2>1
<1>3. PICK m \in T : \A t \in T : m <= t
  BY <1>2, LeastOfNats
<1>4. PICK x \in S : m = n - x
  OBVIOUS
<1>5. ASSUME NEW j \in S PROVE j <= x
  <2>1. m <= n - j
    BY <1>3
  <2> QED
    BY <1>4, <2>1
<1> QED
  BY <1>5 DEF LastOf

\* An area is not the NULL of find_vma, and its vm_start is not that of the cache.
LEMMA AreaNotNo ==
  ASSUME NEW v, Area(v)
  PROVE  v # NoVma /\ v.s # 0
BY VmaAssumption DEF Area, NoVma, UserAccess

\* What the elements of a sorted list are.
LEMMA SortedFacts ==
  ASSUME NEW l, Sorted(l)
  PROVE  /\ Len(l) \in Nat
         /\ \A i \in 1 .. Len(l) : Area(l[i]) /\ l[i].s \in Int /\ l[i].e \in Int
<1>1. Len(l) \in Nat
  BY DEF Sorted
<1>2. \A v : Area(v) => v.s \in Int /\ v.e \in Int
  BY DEF Area, VmaT
<1> QED
  BY <1>1, <1>2 DEF Sorted

\* Two areas of a sorted list do not meet, and either end names the area.
LEMMA AreasDisjoint ==
  ASSUME NEW m, Sorted(m.vmas), NEW v \in Areas(m), NEW w \in Areas(m)
  PROVE  /\ Area(v)
         /\ v = w \/ v.e <= w.s \/ w.e <= v.s
         /\ v.s = w.s => v = w
         /\ v.e = w.e => v = w
<1>1. PICK i \in 1 .. Len(m.vmas) : v = m.vmas[i]
  BY DEF Areas
<1>2. PICK j \in 1 .. Len(m.vmas) : w = m.vmas[j]
  BY DEF Areas
<1>3. Area(v) /\ Area(w) /\ Len(m.vmas) \in Nat
  BY <1>1, <1>2 DEF Sorted
<1>4. v = w \/ v.e <= w.s \/ w.e <= v.s
  <2>1. i = j \/ i < j \/ j < i
    BY <1>3
  <2> QED
    BY <1>1, <1>2, <2>1 DEF Sorted
<1> QED
  BY <1>3, <1>4 DEF Area, UserAccess, VmaT

\* find_vma gives the first area that ends after the address, also when the area of
\* mmap_cache is taken; the cache only names areas of the list.
LEMMA FindVmaSpec ==
  ASSUME NEW m, Sorted(m.vmas), NEW a \in Int
  PROVE  \/ /\ FindVma(m, a) = NoVma
            /\ \A v \in Areas(m) : v.e <= a
         \/ \E i \in 1 .. Len(m.vmas) :
               /\ FindVma(m, a) = m.vmas[i]
               /\ a < m.vmas[i].e
               /\ \A j \in 1 .. i - 1 : m.vmas[j].e <= a
<1> DEFINE hit == {i \in 1 .. Len(m.vmas) : m.vmas[i].s = m.cache
                                             /\ Holds(m.vmas[i], a)}
           after == {i \in 1 .. Len(m.vmas) : a < m.vmas[i].e}
<1>0. /\ Len(m.vmas) \in Nat
      /\ \A i \in 1 .. Len(m.vmas) : m.vmas[i].e \in Int /\ m.vmas[i].s \in Int
  BY SortedFacts
<1>1. FindVma(m, a) = IF hit # {} THEN m.vmas[CHOOSE i \in hit : TRUE]
                      ELSE IF after = {} THEN NoVma ELSE m.vmas[FirstOf(after)]
  BY DEF FindVma
<1>2. CASE hit # {}
  <2>1. PICK i \in hit : FindVma(m, a) = m.vmas[i]
    BY <1>1, <1>2
  <2>2. \A j \in 1 .. i - 1 : m.vmas[j].e <= m.vmas[i].s
    BY <1>0 DEF Sorted
  <2>3. m.vmas[i].s <= a /\ a < m.vmas[i].e /\ i \in 1 .. Len(m.vmas)
    BY DEF Holds
  <2>4. \A j \in 1 .. i - 1 : m.vmas[j].e <= a
    BY <1>0, <2>2, <2>3
  <2> QED
    BY <2>1, <2>3, <2>4
<1>3. CASE hit = {} /\ after = {}
  <2>1. \A v \in Areas(m) : v.e <= a
    BY <1>0, <1>3 DEF Areas
  <2> QED
    BY <1>1, <1>3, <2>1
<1>4. CASE hit = {} /\ after # {}
  <2>1. after \in SUBSET Nat
    BY <1>0
  <2>2. FirstOf(after) \in after /\ \A j \in after : FirstOf(after) <= j
    BY <1>4, <2>1, FirstOfSpec
  <2>3. PICK i \in after : i = FirstOf(after)
    BY <2>2
  <2>4. ASSUME NEW j \in 1 .. i - 1 PROVE m.vmas[j].e <= a
    <3>1. j \in 1 .. Len(m.vmas) /\ ~(i <= j)
      BY <1>0, <2>1
    <3>2. j \notin after
      BY <2>2, <2>3, <3>1
    <3> QED
      BY <1>0, <3>1, <3>2
  <2>5. FindVma(m, a) = m.vmas[i]
    BY <1>1, <1>4, <2>3
  <2> QED
    BY <2>4, <2>5
<1> QED
  BY <1>2, <1>3, <1>4

\* The same in terms of the areas.
LEMMA FindVmaArea ==
  ASSUME NEW m, Sorted(m.vmas), NEW a \in Int
  PROVE  /\ FindVma(m, a) = NoVma <=> \A v \in Areas(m) : v.e <= a
         /\ FindVma(m, a) # NoVma =>
               /\ FindVma(m, a) \in Areas(m) /\ a < FindVma(m, a).e
               /\ \A w \in Areas(m) : a < w.e => FindVma(m, a) = w \/ FindVma(m, a).e <= w.s
<1>1. CASE FindVma(m, a) = NoVma /\ \A v \in Areas(m) : v.e <= a
  BY <1>1
<1>2. CASE \E i \in 1 .. Len(m.vmas) :
               /\ FindVma(m, a) = m.vmas[i]
               /\ a < m.vmas[i].e
               /\ \A j \in 1 .. i - 1 : m.vmas[j].e <= a
  <2>1. PICK i \in 1 .. Len(m.vmas) :
               /\ FindVma(m, a) = m.vmas[i]
               /\ a < m.vmas[i].e
               /\ \A j \in 1 .. i - 1 : m.vmas[j].e <= a
    BY <1>2
  <2>2. /\ Len(m.vmas) \in Nat
        /\ \A k \in 1 .. Len(m.vmas) : m.vmas[k].e \in Int /\ m.vmas[k].s \in Int /\ Area(m.vmas[k])
    BY SortedFacts
  <2>3. m.vmas[i] # NoVma
    BY <2>2, AreaNotNo
  <2>4. m.vmas[i] \in Areas(m)
    BY DEF Areas
  <2>5. ASSUME NEW w \in Areas(m), a < w.e PROVE m.vmas[i] = w \/ m.vmas[i].e <= w.s
    <3>1. PICK j \in 1 .. Len(m.vmas) : w = m.vmas[j]
      BY DEF Areas
    <3>2. ~(j < i)
      BY <2>1, <2>2, <2>5, <3>1
    <3>3. j = i \/ i < j
      BY <2>2, <3>2
    <3> QED
      BY <3>1, <3>3 DEF Sorted
  <2>6. ~(m.vmas[i].e <= a)
    BY <2>1, <2>2
  <2> QED
    BY <2>1, <2>3, <2>4, <2>5, <2>6
<1> QED
  BY <1>1, <1>2, FindVmaSpec

MmT == [vmas : Seq(VmaT), cache : Int, brkStart : Int, brk : Int]

\* A function over 1 .. n is a list of length n.
LEMMA FunctionSeq ==
  ASSUME NEW n \in Nat, NEW T, NEW f \in [1 .. n -> T]
  PROVE  f \in Seq(T) /\ Len(f) = n
OBVIOUS

\* The place of an area in the list, and the area put there.
Place(l, v, at) ==
  /\ at \in 1 .. Len(l) + 1
  /\ \A i \in 1 .. at - 1 : l[i].e <= v.s
  /\ \A i \in at .. Len(l) : v.e <= l[i].s

Put(l, v, at) ==
  [i \in 1 .. Len(l) + 1 |-> IF i < at THEN l[i] ELSE IF i = at THEN v ELSE l[i - 1]]

Elements(l) == {l[i] : i \in 1 .. Len(l)}

\* Put there, it leaves the list sorted.
LEMMA PutIn ==
  ASSUME NEW l, Sorted(l), NEW v, Area(v), NEW at, Place(l, v, at)
  PROVE  Sorted(Put(l, v, at)) /\ Elements(Put(l, v, at)) = Elements(l) \cup {v}
<1> DEFINE n == Len(l)
           r == Put(l, v, at)
<1> USE DEF Place
<1>0. n \in Nat /\ at \in Int /\ l \in Seq(VmaT) /\ v \in VmaT
  BY SortedFacts DEF Sorted, Area
<1>1. \A i \in 1 .. n + 1 : r[i] = IF i < at THEN l[i] ELSE IF i = at THEN v ELSE l[i - 1]
  BY DEF Put
<1>2. \A i \in 1 .. n + 1 : \/ i < at /\ i \in 1 .. n /\ r[i] = l[i]
                            \/ i = at /\ r[i] = v
                            \/ i > at /\ i - 1 \in 1 .. n /\ r[i] = l[i - 1]
  BY <1>0, <1>1
<1>20. r = [i \in 1 .. n + 1 |-> r[i]]
  BY <1>1 DEF Put
<1> HIDE DEF n, r
<1>3. \A i \in 1 .. n : l[i] \in VmaT
  BY <1>0 DEF n
<1>4. r \in [1 .. n + 1 -> VmaT]
  <2>1. \A i \in 1 .. n + 1 : r[i] \in VmaT
    BY <1>0, <1>2, <1>3
  <2> QED
    BY <2>1, <1>20
<1>5. r \in Seq(VmaT) /\ Len(r) = n + 1
  <2>1. n + 1 \in Nat
    BY <1>0
  <2> QED
    BY <2>1, <1>4, FunctionSeq
<1>6. \A i \in 1 .. n : Area(l[i])
  BY DEF Sorted, n
<1>7. \A i \in 1 .. Len(r) : Area(r[i])
  BY <1>2, <1>5, <1>6
<1>8. ASSUME NEW i \in 1 .. Len(r), NEW j \in 1 .. Len(r), i < j PROVE r[i].e <= r[j].s
  <2>1. \A x, y \in 1 .. n : x < y => l[x].e <= l[y].s
    BY DEF Sorted, n
  <2>2. (\A x \in 1 .. n : x < at => l[x].e <= v.s) /\ (\A x \in 1 .. n : x >= at => v.e <= l[x].s)
    BY <1>0 DEF n
  <2>3. /\ \/ i < at /\ i \in 1 .. n /\ r[i] = l[i]
           \/ i = at /\ r[i] = v
           \/ i > at /\ i - 1 \in 1 .. n /\ r[i] = l[i - 1]
        /\ \/ j < at /\ j \in 1 .. n /\ r[j] = l[j]
           \/ j = at /\ r[j] = v
           \/ j > at /\ j - 1 \in 1 .. n /\ r[j] = l[j - 1]
    BY <1>2, <1>5
  <2>4. i \in Int /\ j \in Int
    OBVIOUS
  <2>5. CASE i < at /\ i \in 1 .. n /\ r[i] = l[i]
    <3>1. CASE j - 1 \in 1 .. n /\ j > at
      <4>1. i < j - 1
        BY <1>0, <2>4, <2>5, <3>1
      <4> QED
        BY <1>0, <2>1, <2>3, <2>4, <2>5, <3>1, <4>1
    <3> QED
      BY <1>0, <1>8, <2>1, <2>2, <2>3, <2>4, <2>5, <3>1
  <2>6. CASE i = at /\ r[i] = v
    <3>1. j > at /\ j - 1 \in 1 .. n /\ r[j] = l[j - 1] /\ j - 1 >= at
      BY <1>0, <1>8, <2>3, <2>4, <2>6
    <3> QED
      BY <2>2, <2>6, <3>1
  <2>7. CASE i > at /\ i - 1 \in 1 .. n /\ r[i] = l[i - 1]
    <3>1. j > at /\ j - 1 \in 1 .. n /\ r[j] = l[j - 1] /\ i - 1 < j - 1
      BY <1>0, <1>8, <2>3, <2>4, <2>7
    <3> QED
      BY <2>1, <2>7, <3>1
  <2> QED
    BY <2>3, <2>5, <2>6, <2>7
<1>9. {r[i] : i \in 1 .. Len(r)} = {l[i] : i \in 1 .. n} \cup {v}
  <2>1. \A i \in 1 .. Len(r) : r[i] \in {l[k] : k \in 1 .. n} \cup {v}
    BY <1>2, <1>5
  <2>2. v \in {r[i] : i \in 1 .. Len(r)}
    <3>1. at \in 1 .. Len(r) /\ r[at] = v
      BY <1>0, <1>1, <1>5 DEF n
    <3> QED
      BY <3>1
  <2>3. ASSUME NEW k \in 1 .. n PROVE l[k] \in {r[i] : i \in 1 .. Len(r)}
    <3>1. CASE k < at
      <4>1. k \in 1 .. Len(r) /\ r[k] = l[k]
        BY <1>0, <1>1, <1>5, <3>1 DEF n
      <4> QED
        BY <4>1
    <3>2. CASE k >= at
      <4>1. k + 1 \in 1 .. Len(r) /\ k + 1 > at /\ (k + 1) - 1 = k
        BY <1>0, <1>5, <3>2
      <4>2. r[k + 1] = l[k]
        BY <1>0, <1>1, <1>5, <4>1 DEF n
      <4> QED
        BY <4>1, <4>2
    <3> QED
      BY <1>0, <3>1, <3>2
  <2> QED
    BY <2>1, <2>2, <2>3
<1> QED
  BY <1>5, <1>7, <1>8, <1>9 DEF Sorted, n, r, Elements

\* insert_vma_struct finds that place: the list stays sorted and has one area more.
LEMMA InsertVmaSpec ==
  ASSUME NEW m \in MmT, Sorted(m.vmas), NEW v, Area(v),
         \A w \in Areas(m) : w.e <= v.s \/ v.e <= w.s
  PROVE  /\ InsertVma(m, v) \in MmT /\ Sorted(InsertVma(m, v).vmas)
         /\ Areas(InsertVma(m, v)) = Areas(m) \cup {v}
         /\ InsertVma(m, v).cache = m.cache
         /\ InsertVma(m, v).brk = m.brk /\ InsertVma(m, v).brkStart = m.brkStart
<1> DEFINE n == Len(m.vmas)
           S == {i \in 1 .. n : m.vmas[i].s > v.s} \cup {n + 1}
           at == FirstOf(S)
           r == Put(m.vmas, v, at)
<1>0. /\ n \in Nat
      /\ \A i \in 1 .. n : Area(m.vmas[i]) /\ m.vmas[i].s \in Int /\ m.vmas[i].e \in Int
  BY SortedFacts
<1>1. v.s \in Int /\ v.e \in Int /\ v.s < v.e
  BY DEF Area, VmaT, UserAccess
<1>2. S \in SUBSET Nat /\ S # {} /\ S \in SUBSET (1 .. n + 1)
  BY <1>0
<1>3. at \in S /\ \A j \in S : at <= j
  BY <1>2, FirstOfSpec
<1>4. at \in 1 .. n + 1
  BY <1>2, <1>3
<1>5. /\ \A i \in 1 .. n : i < at => ~(m.vmas[i].s > v.s)
      /\ at <= n => m.vmas[at].s > v.s
  <2>1. \A i \in 1 .. n : i < at => i \notin S
    BY <1>2, <1>3, <1>4
  <2> QED
    BY <1>0, <1>3, <2>1
<1>6. InsertVma(m, v) = [m EXCEPT !.vmas = r]
  BY DEF InsertVma, Put
<1>7. \A i \in 1 .. n : m.vmas[i].e <= v.s \/ v.e <= m.vmas[i].s
  BY DEF Areas
<1> HIDE DEF S, at
<1>8. ASSUME NEW i \in 1 .. at - 1 PROVE m.vmas[i].e <= v.s
  <2>1. i \in 1 .. n /\ i < at
    BY <1>0, <1>4
  <2>2. ~(m.vmas[i].s > v.s)
    BY <1>5, <2>1
  <2> QED
    BY <1>0, <1>1, <1>7, <2>1, <2>2
<1>14. ASSUME NEW i \in at .. n PROVE v.e <= m.vmas[i].s
  <2>1. i \in 1 .. n /\ at \in 1 .. n /\ (at = i \/ at < i)
    BY <1>0, <1>4
  <2>2. m.vmas[at].s > v.s
    BY <1>0, <1>5, <2>1
  <2>3. m.vmas[at].s < m.vmas[at].e /\ m.vmas[at].s \in Int /\ m.vmas[at].e \in Int
    BY <1>0, <2>1 DEF Area, UserAccess
  <2>4. v.e <= m.vmas[at].s
    BY <1>1, <1>7, <2>1, <2>2, <2>3
  <2>5. at < i => m.vmas[at].e <= m.vmas[i].s
    BY <2>1 DEF Sorted
  <2> QED
    BY <1>0, <1>1, <2>1, <2>3, <2>4, <2>5
<1>15. Place(m.vmas, v, at)
  BY <1>4, <1>8, <1>14 DEF Place
<1>9. Sorted(r) /\ Elements(r) = Elements(m.vmas) \cup {v}
  BY <1>15, PutIn
<1> HIDE DEF r
<1>10. r \in Seq(VmaT)
  BY <1>9 DEF Sorted
<1>11. InsertVma(m, v) \in MmT /\ InsertVma(m, v).vmas = r
       /\ InsertVma(m, v).cache = m.cache
       /\ InsertVma(m, v).brk = m.brk /\ InsertVma(m, v).brkStart = m.brkStart
  BY <1>6, <1>10 DEF MmT
<1> QED
  BY <1>9, <1>11 DEF Areas, Elements

\* A list that is sorted when the places of S, which lie together, are taken out.
SortedBut(l, S) ==
  /\ l \in Seq(VmaT)
  /\ S \in SUBSET (1 .. Len(l))
  /\ \A i, k \in S : \A j \in 1 .. Len(l) : i <= j /\ j <= k => j \in S
  /\ \A i \in 1 .. Len(l) : i \notin S => Area(l[i])
  /\ \A i, j \in 1 .. Len(l) : i < j /\ i \notin S /\ j \notin S => l[i].e <= l[j].s

\* Taking them out leaves a sorted list of the others.
LEMMA WithoutSpec ==
  ASSUME NEW l, NEW S, SortedBut(l, S)
  PROVE  /\ Sorted(Without(l, S))
         /\ Elements(Without(l, S)) = {l[i] : i \in (1 .. Len(l)) \ S}
<1> DEFINE n == Len(l)
           lo == FirstOf(S)
           hi == LastOf(S)
           g == hi - lo + 1
           r == Without(l, S)
<1>0. n \in Nat /\ \A i \in 1 .. n : l[i] \in VmaT
  BY DEF SortedBut
<1>1. CASE S = {}
  <2>1. r = l
    BY <1>1 DEF Without
  <2>2. (1 .. Len(l)) \ S = 1 .. Len(l)
    BY <1>1
  <2> QED
    BY <1>1, <2>1, <2>2 DEF SortedBut, Sorted, Elements
<1>2. CASE S # {}
  <2>1. S \in SUBSET Nat /\ S \in SUBSET (1 .. n)
    BY <1>0 DEF SortedBut
  <2>2. lo \in S /\ hi \in S /\ \A j \in S : lo <= j /\ j <= hi
    BY <1>0, <1>2, <2>1, FirstOfSpec, LastOfSpec
  <2>3. r = [i \in 1 .. n - g |-> IF i < lo THEN l[i] ELSE l[i + g]]
    BY <1>2 DEF Without
  <2> HIDE DEF lo, hi, r, n
  <2>4. lo \in 1 .. n /\ hi \in 1 .. n /\ lo <= hi /\ g \in 1 .. n /\ n - g \in Nat
    BY <1>0, <2>1, <2>2
  <2>5. \A j \in 1 .. n : j \in S <=> lo <= j /\ j <= hi
    BY <2>1, <2>2, <2>4 DEF SortedBut, n
  <2> HIDE DEF g
  <2>6. g = hi - lo + 1
    BY DEF g
  <2>7. ASSUME NEW i \in 1 .. n - g
        PROVE  /\ i < lo => i \in 1 .. n /\ i \notin S /\ r[i] = l[i]
               /\ i >= lo => i + g \in 1 .. n /\ i + g \notin S /\ r[i] = l[i + g]
    BY <1>0, <2>3, <2>4, <2>5, <2>6
  <2>8. r \in [1 .. n - g -> VmaT]
    <3>1. \A i \in 1 .. n - g : r[i] \in VmaT
      BY <1>0, <2>4, <2>7
    <3>2. r = [i \in 1 .. n - g |-> r[i]]
      BY <2>3
    <3> QED
      BY <3>1, <3>2
  <2>9. r \in Seq(VmaT) /\ Len(r) = n - g
    BY <2>4, <2>8, FunctionSeq
  <2>10. \A i \in 1 .. Len(r) : Area(r[i])
    <3>1. \A i \in 1 .. n : i \notin S => Area(l[i])
      BY DEF SortedBut, n
    <3> QED
      BY <2>4, <2>7, <2>9, <3>1
  <2>11. ASSUME NEW i \in 1 .. Len(r), NEW j \in 1 .. Len(r), i < j PROVE r[i].e <= r[j].s
    <3>1. \A x, y \in 1 .. n : x < y /\ x \notin S /\ y \notin S => l[x].e <= l[y].s
      BY DEF SortedBut, n
    <3>2. i \in 1 .. n - g /\ j \in 1 .. n - g /\ i \in Int /\ j \in Int
      BY <2>9
    <3>3. CASE i < lo /\ j < lo
      BY <2>7, <2>11, <3>1, <3>2, <3>3
    <3>4. CASE i < lo /\ j >= lo
      <4>1. i < j + g
        BY <2>4, <2>11, <3>2
      <4> QED
        BY <2>7, <3>1, <3>2, <3>4, <4>1
    <3>5. CASE i >= lo /\ j >= lo
      <4>1. i + g < j + g
        BY <2>4, <2>11, <3>2
      <4> QED
        BY <2>7, <3>1, <3>2, <3>5, <4>1
    <3> QED
      BY <2>4, <2>11, <3>2, <3>3, <3>4, <3>5
  <2>12. Elements(r) = {l[i] : i \in (1 .. n) \ S}
    <3>1. \A i \in 1 .. Len(r) : r[i] \in {l[k] : k \in (1 .. n) \ S}
      BY <2>4, <2>7, <2>9
    <3>2. ASSUME NEW k \in (1 .. n) \ S PROVE \E i \in 1 .. Len(r) : r[i] = l[k]
      <4>1. k < lo \/ k > hi
        BY <2>4, <2>5
      <4>2. CASE k < lo
        <5>1. k \in 1 .. n - g
          BY <1>0, <2>4, <2>6, <4>2
        <5> QED
          BY <2>7, <2>9, <4>2, <5>1
      <4>3. CASE k > hi
        <5>1. k - g \in 1 .. n - g /\ k - g >= lo /\ (k - g) + g = k
          BY <1>0, <2>4, <2>6, <4>3
        <5> QED
          BY <2>7, <2>9, <5>1
      <4> QED
        BY <4>1, <4>2, <4>3
    <3> QED
      BY <3>1, <3>2 DEF Elements
  <2> QED
    BY <2>9, <2>10, <2>11, <2>12 DEF Sorted, r, n
<1> QED
  BY <1>1, <1>2

-----------------------------------------------------------------------------
\* Two areas on one shared object show it at the same distance.
OneBase(m) ==
  \A v, w \in Areas(m) : v.shm # NoShmem /\ v.shm = w.shm => v.off - v.s = w.off - w.s

\* mmap_cache names an area of the list (or none).
CacheIn(m) == m.cache # NoCache => \E v \in Areas(m) : v.s = m.cache

\* The inductive invariant of an address space, without its break.
MmInv(m) == m \in MmT /\ Sorted(m.vmas) /\ OneBase(m) /\ CacheIn(m)

SameBrk(m, r) == r.brk = m.brk /\ r.brkStart = m.brkStart

\* find_vma changes nothing but the cache, and leaves an area of the list there.
LEMMA FindInv ==
  ASSUME NEW m, MmInv(m), NEW a \in Int
  PROVE  /\ MmInv(Find(m, a)) /\ Find(m, a).vmas = m.vmas
         /\ Areas(Find(m, a)) = Areas(m) /\ SameBrk(m, Find(m, a))
<1>0. m \in MmT /\ Sorted(m.vmas) /\ OneBase(m) /\ CacheIn(m)
  BY DEF MmInv
<1>1. CASE FindVma(m, a) = NoVma
  BY <1>1 DEF Find, SameBrk
<1>2. CASE FindVma(m, a) # NoVma
  <2>1. FindVma(m, a) \in Areas(m)
    BY <1>0, <1>2, FindVmaArea
  <2>2. FindVma(m, a).s \in Int
    BY <1>0, <2>1, AreasDisjoint DEF Area, VmaT
  <2>3. /\ Find(m, a) \in MmT /\ Find(m, a).vmas = m.vmas
        /\ Find(m, a).cache = FindVma(m, a).s /\ SameBrk(m, Find(m, a))
    BY <1>0, <1>2, <2>2 DEF Find, MmT, SameBrk
  <2>4. Areas(Find(m, a)) = Areas(m)
    BY <2>3 DEF Areas
  <2> QED
    BY <1>0, <2>1, <2>3, <2>4 DEF MmInv, OneBase, CacheIn
<1> QED
  BY <1>1, <1>2

-----------------------------------------------------------------------------
(* What the pages of the process are *)

\* A page belongs to the area that holds it.
LEMMA PageMapAt ==
  ASSUME NEW m, Sorted(m.vmas), NEW p \in PageStart
  PROVE  /\ \A v \in Areas(m) : Holds(v, p) => PageMap(m)[p] = PageOf(v, p)
         /\ (\A v \in Areas(m) : ~Holds(v, p)) => PageMap(m)[p] = Unmapped
<1> DEFINE over == {v \in Areas(m) : Holds(v, p)}
<1>1. PageMap(m)[p] = IF over = {} THEN Unmapped ELSE PageOf(CHOOSE v \in over : TRUE, p)
  BY DEF PageMap
<1>2. ASSUME NEW v \in Areas(m), Holds(v, p) PROVE PageMap(m)[p] = PageOf(v, p)
  <2>1. v \in over
    BY <1>2
  <2>2. PICK w \in over : w = CHOOSE x \in over : TRUE
    BY <2>1
  <2>3. w = v
    <3>1. Area(v) /\ Area(w) /\ (v = w \/ v.e <= w.s \/ w.e <= v.s)
      BY AreasDisjoint
    <3>2. p \in Int
      BY VmaAssumption DEF PageStart
    <3> QED
      BY <2>1, <3>1, <3>2 DEF Area, VmaT, Holds
  <2> QED
    BY <1>1, <2>1, <2>2, <2>3
<1> QED
  BY <1>1, <1>2

\* The pages are a function on the page addresses.
LEMMA PageMapFunction ==
  ASSUME NEW m
  PROVE  PageMap(m) = [p \in PageStart |-> PageMap(m)[p]]
BY DEF PageMap

\* A page of an area does not count as unmapped.
LEMMA PageOfMapped ==
  ASSUME NEW v, Area(v), NEW p \in Int, Holds(v, p)
  PROVE  PageOf(v, p) # Unmapped
<1>1. PageOf(v, p).pos >= 0 /\ PageOf(v, p).pos \in Int
  BY DEF PageOf, Area, VmaT, Holds
<1> QED
  BY <1>1 DEF Unmapped

\* A page is unmapped when no area holds it.
LEMMA UnmappedIff ==
  ASSUME NEW m, Sorted(m.vmas), NEW p \in PageStart
  PROVE  PageMap(m)[p] = Unmapped <=> \A v \in Areas(m) : ~Holds(v, p)
<1>1. p \in Int
  BY VmaAssumption DEF PageStart
<1>2. \A v \in Areas(m) : Area(v)
  BY AreasDisjoint
<1> QED
  BY <1>1, <1>2, PageMapAt, PageOfMapped

\* The range mm_map and mm_unmap work on.
Start(addr) == RoundDown(addr)
Ending(addr, len) == RoundUp(Plus(addr, len))

\* Address arithmetic stays below Top, and the range runs from page to page.
LEMMA PlusType ==
  ASSUME NEW a \in Int, NEW b \in Int
  PROVE  Plus(a, b) \in 0 .. Top - 1 /\ Minus(a, b) \in 0 .. Top - 1
<1>1. Top \in Nat \ {0}
  BY VmaAssumption
<1>2. \A x \in Int : x % Top \in 0 .. Top - 1
  BY <1>1
<1>3. a + b \in Int /\ a - b + Top \in Int
  BY <1>1
<1> QED
  BY <1>2, <1>3 DEF Plus, Minus

LEMMA RangeTypes ==
  ASSUME NEW addr \in Int, NEW len \in Int
  PROVE  /\ Start(addr) \in Int /\ Aligned(Start(addr))
         /\ Ending(addr, len) \in 0 .. Top - 1 /\ Aligned(Ending(addr, len))
         /\ Ending(addr, len) \in Int
<1>0. Plus(addr, len) \in 0 .. Top - 1 /\ Top \in Nat
  BY PlusType, VmaAssumption
<1>1. Plus(addr, len) \in 0 .. Top /\ Top \in Nat
  BY <1>0
<1>2. /\ Aligned(Ending(addr, len)) /\ Ending(addr, len) \in 0 .. Top - 1
  BY <1>1, RoundUpSpec DEF Ending
<1>3. Aligned(Start(addr))
  BY RoundDownSpec DEF Start
<1> QED
  BY <1>1, <1>2, <1>3 DEF Aligned

\* No area of m meets the range.
Clear(m, start, end) == \A v \in Areas(m) : v.e <= start \/ end <= v.s

\* The test of mm_map and find_vma_intersection looks at one area only.
LEMMA ClearIff ==
  ASSUME NEW m, Sorted(m.vmas), NEW start \in Int, NEW end \in Int
  PROVE  Clear(m, start, end) <=>
           ~(FindVma(m, start) # NoVma /\ end > FindVma(m, start).s)
<1> DEFINE v == FindVma(m, start)
<1>1. \A w \in Areas(m) : Area(w) /\ w.s \in Int /\ w.e \in Int /\ w.s < w.e
  BY AreasDisjoint DEF Area, VmaT, UserAccess
<1>2. /\ v = NoVma <=> \A w \in Areas(m) : w.e <= start
      /\ v # NoVma =>
            /\ v \in Areas(m) /\ start < v.e
            /\ \A w \in Areas(m) : start < w.e => v = w \/ v.e <= w.s
  BY FindVmaArea
<1> HIDE DEF v
<1>3. CASE v = NoVma
  BY <1>1, <1>2, <1>3 DEF Clear, v
<1>4. CASE v # NoVma /\ end > v.s
  <2>1. v \in Areas(m) /\ start < v.e /\ v.s \in Int /\ v.e \in Int
    BY <1>1, <1>2, <1>4
  <2>2. ~(v.e <= start \/ end <= v.s)
    BY <1>4, <2>1
  <2> QED
    BY <1>4, <2>1, <2>2 DEF Clear, v
<1>5. CASE v # NoVma /\ ~(end > v.s)
  <2>1. v \in Areas(m) /\ start < v.e /\ v.s \in Int /\ v.e \in Int /\ v.s < v.e
    BY <1>1, <1>2, <1>5
  <2>2. ASSUME NEW w \in Areas(m) PROVE w.e <= start \/ end <= w.s
    <3>1. start < w.e => v = w \/ v.e <= w.s
      BY <1>2, <1>5
    <3> QED
      BY <1>1, <1>5, <2>1, <3>1
  <2> QED
    BY <1>5, <2>2 DEF Clear, v
<1> QED
  BY <1>3, <1>4, <1>5

\* The area that mm_map makes.
NewVma(start, end, fl, shm) == [VmaOf(start, end, fl) EXCEPT !.shm = shm]

LEMMA NewVmaArea ==
  ASSUME NEW start, NEW end, Aligned(start), Aligned(end), UserAccess(start, end),
         NEW fl \in SUBSET Flag, NEW shm \in 0 .. NShm, shm # NoShmem => "share" \in fl
  PROVE  /\ Area(NewVma(start, end, fl, shm))
         /\ NewVma(start, end, fl, shm) =
              [s |-> start, e |-> end, fl |-> fl, shm |-> shm, off |-> 0]
<1>1. NewVma(start, end, fl, shm) =
              [s |-> start, e |-> end, fl |-> fl, shm |-> shm, off |-> 0]
  <2>1. VmaOf(start, end, fl) = [s |-> start, e |-> end, fl |-> fl, shm |-> 0, off |-> 0]
    BY DEF VmaOf, NoShmem
  <2> QED
    BY <2>1 DEF NewVma
<1>2. start \in Int /\ end \in Int /\ shm \in Int /\ start <= end /\ 0 <= start /\ end <= UserTop
      /\ UserTop \in Nat
  BY VmaAssumption DEF Aligned, UserAccess
<1>3. 0 + (end - start) <= UserTop
  BY <1>2
<1> QED
  BY <1>1, <1>2, <1>3 DEF Area, VmaT

\* An area put into a gap, on an object that no other area has.
LEMMA InsertInv ==
  ASSUME NEW m, MmInv(m), NEW start, NEW end, Aligned(start), Aligned(end),
         UserAccess(start, end), Clear(m, start, end),
         NEW fl \in SUBSET Flag, NEW shm \in 0 .. NShm, shm # NoShmem => "share" \in fl,
         shm # NoShmem => \A w \in Areas(m) : w.shm # shm
  PROVE  LET v == NewVma(start, end, fl, shm)
             r == InsertVma(m, v)
         IN  /\ MmInv(r) /\ SameBrk(m, r)
             /\ Areas(r) = Areas(m) \cup {v}
<1> DEFINE v == NewVma(start, end, fl, shm)
           r == InsertVma(m, v)
<1>1. Area(v) /\ v.s = start /\ v.e = end /\ v.shm = shm
  BY NewVmaArea
<1> HIDE DEF v
<1>2. \A w \in Areas(m) : w.e <= v.s \/ v.e <= w.s
  BY <1>1 DEF Clear
<1>3. /\ r \in MmT /\ Sorted(r.vmas) /\ Areas(r) = Areas(m) \cup {v}
      /\ r.cache = m.cache /\ SameBrk(m, r)
  BY <1>1, <1>2, InsertVmaSpec DEF MmInv, SameBrk
<1> HIDE DEF r
<1>4. CacheIn(r)
  BY <1>3 DEF CacheIn, MmInv
<1>5. OneBase(r)
  <2>1. SUFFICES ASSUME NEW x \in Areas(r), NEW y \in Areas(r), x.shm # NoShmem, x.shm = y.shm
                 PROVE  x.off - x.s = y.off - y.s
    BY DEF OneBase
  <2>2. CASE x \in Areas(m) /\ y \in Areas(m)
    BY <2>1, <2>2 DEF MmInv, OneBase
  <2>3. CASE x = v \/ y = v
    <3>1. x = v /\ y = v
      BY <1>1, <1>3, <2>1, <2>3
    <3> QED
      BY <3>1
  <2> QED
    BY <1>3, <2>2, <2>3
<1> QED
  BY <1>3, <1>4, <1>5 DEF MmInv, r, v

\* What mm_map is given: flags, and the object of a shared area, which no other area has.
MapArgs(m, fl, shm) ==
  /\ fl \in SUBSET Flag /\ shm \in 0 .. NShm
  /\ shm # NoShmem => "share" \in fl /\ \A w \in Areas(m) : w.shm # shm

\* What mm_map does: it succeeds exactly on a clear range in user space and then adds
\* one area.
Mapped(m, r, start, end, fl, shm, alloc) ==
  /\ MmInv(r.mm) /\ SameBrk(m, r.mm) /\ r.crash = FALSE
  /\ r.ok <=> UserAccess(start, end) /\ alloc /\ Clear(m, start, end)
  /\ r.ok => Areas(r.mm) = Areas(m) \cup {NewVma(start, end, fl, shm)}
  /\ ~r.ok => r.mm.vmas = m.vmas /\ Areas(r.mm) = Areas(m)

LEMMA MmMapSpec ==
  ASSUME NEW m, MmInv(m), NEW addr \in Int, NEW len \in Int, NEW alloc \in BOOLEAN,
         NEW fl, NEW shm, MapArgs(m, fl, shm)
  PROVE  Mapped(m, MmMap(m, addr, len, fl, shm, alloc), Start(addr), Ending(addr, len),
                fl, shm, alloc)
<1> DEFINE r == MmMap(m, addr, len, fl, shm, alloc)
           start == Start(addr)
           end == Ending(addr, len)
           v == FindVma(m, start)
           m1 == Find(m, start)
           busy == (v # NoVma /\ end > v.s) \/ ~alloc
<1>0. /\ fl \in SUBSET Flag /\ shm \in 0 .. NShm /\ (shm # NoShmem => "share" \in fl)
      /\ shm # NoShmem => \A w \in Areas(m) : w.shm # shm
  BY DEF MapArgs
<1>1. r = IF ~UserAccess(start, end) THEN Result(m, FALSE)
          ELSE IF busy THEN Result(m1, FALSE)
          ELSE Result(InsertVma(m1, NewVma(start, end, fl, shm)), TRUE)
  BY DEF MmMap, Start, Ending, NewVma
<1>2. start \in Int /\ Aligned(start) /\ end \in Int /\ Aligned(end)
  BY RangeTypes
<1> HIDE DEF start, end, r
<1>3. MmInv(m1) /\ m1.vmas = m.vmas /\ Areas(m1) = Areas(m) /\ SameBrk(m, m1)
  BY <1>2, FindInv
<1>4. busy <=> ~Clear(m, start, end) \/ ~alloc
  BY <1>2, ClearIff DEF MmInv
<1> HIDE DEF m1, busy
<1>5. CASE ~UserAccess(start, end)
  BY <1>1, <1>5 DEF Mapped, Result, SameBrk, r, start, end
<1>6. CASE UserAccess(start, end) /\ busy
  BY <1>1, <1>3, <1>4, <1>6 DEF Mapped, Result, SameBrk, r, start, end
<1>7. CASE UserAccess(start, end) /\ ~busy
  <2>1. Clear(m1, start, end) /\ alloc /\ Clear(m, start, end)
    BY <1>3, <1>4, <1>7 DEF Clear
  <2>2. shm # NoShmem => \A w \in Areas(m1) : w.shm # shm
    BY <1>0, <1>3
  <2> DEFINE q == InsertVma(m1, NewVma(start, end, fl, shm))
  <2>3. MmInv(q) /\ SameBrk(m1, q) /\ Areas(q) = Areas(m1) \cup {NewVma(start, end, fl, shm)}
    BY <1>0, <1>2, <1>3, <1>7, <2>1, <2>2, InsertInv
  <2>4. r = Result(q, TRUE)
    BY <1>1, <1>7
  <2> HIDE DEF q
  <2>5. r.mm = q /\ r.ok = TRUE /\ r.crash = FALSE
    BY <2>4 DEF Result
  <2> QED
    BY <1>3, <1>7, <2>1, <2>3, <2>5 DEF Mapped, SameBrk, r, start, end
<1> QED
  BY <1>5, <1>6, <1>7

\* A page of user space.
LEMMA PageIn ==
  ASSUME NEW p \in PageStart
  PROVE  p \in Int /\ Aligned(p) /\ UserBase <= p /\ p + PgSize <= UserTop /\ p < UserTop
<1>1. p \in Int /\ Aligned(p) /\ UserBase <= p /\ p < UserTop
  BY VmaAssumption DEF PageStart, Aligned
<1> QED
  BY <1>1, AlignedGap, AlignedConstants

\* A new area turns the pages of its range, and no other, from unmapped ones into its own.
LEMMA PagesAdded ==
  ASSUME NEW m, Sorted(m.vmas), NEW r, Sorted(r.vmas), NEW v, Area(v),
         Areas(r) = Areas(m) \cup {v}, Clear(m, v.s, v.e)
  PROVE  \A p \in PageStart :
           /\ PageMap(r)[p] = IF Holds(v, p) THEN PageOf(v, p) ELSE PageMap(m)[p]
           /\ Holds(v, p) => PageMap(m)[p] = Unmapped
<1> SUFFICES ASSUME NEW p \in PageStart
             PROVE  /\ PageMap(r)[p] = IF Holds(v, p) THEN PageOf(v, p) ELSE PageMap(m)[p]
                    /\ Holds(v, p) => PageMap(m)[p] = Unmapped
  OBVIOUS
<1>1. CASE Holds(v, p)
  <2>1. PageMap(r)[p] = PageOf(v, p)
    BY <1>1, PageMapAt
  <2>2. \A w \in Areas(m) : ~Holds(w, p)
    <3>1. \A w \in Areas(m) : w.s \in Int /\ w.e \in Int
      BY AreasDisjoint DEF Area, VmaT
    <3>2. p \in Int /\ v.s \in Int /\ v.e \in Int
      BY PageIn DEF Area, VmaT
    <3> QED
      BY <1>1, <3>1, <3>2 DEF Clear, Holds
  <2> QED
    BY <1>1, <2>1, <2>2, PageMapAt
<1>2. CASE ~Holds(v, p)
  <2>1. CASE \E w \in Areas(m) : Holds(w, p)
    <3>1. PICK w \in Areas(m) : Holds(w, p)
      BY <2>1
    <3> QED
      BY <1>2, <3>1, PageMapAt
  <2>2. CASE \A w \in Areas(m) : ~Holds(w, p)
    BY <1>2, <2>2, PageMapAt
  <2> QED
    BY <1>2, <2>1, <2>2
<1> QED
  BY <1>1, <1>2

\* vma_resize to a part of the area leaves the pages of that part as they were.
LEMMA ResizedArea ==
  ASSUME NEW v, Area(v), NEW s, NEW e, Aligned(s), Aligned(e), v.s <= s, s < e, e <= v.e
  PROVE  LET w == Resized(v, s, e)
         IN  /\ Area(w) /\ w.s = s /\ w.e = e /\ w.fl = v.fl /\ w.shm = v.shm
             /\ v.shm # NoShmem => w.off - w.s = v.off - v.s
             /\ \A p \in Int : PageOf(w, p) = PageOf(v, p)
<1> DEFINE w == Resized(v, s, e)
<1>0. /\ v \in VmaT /\ s \in Int /\ e \in Int /\ v.s \in Int /\ v.e \in Int /\ v.off \in Int
      /\ UserAccess(v.s, v.e) /\ v.shm \in 0 .. NShm
      /\ 0 <= v.off /\ v.off + (v.e - v.s) <= UserTop
      /\ v.shm # NoShmem => "share" \in v.fl
      /\ UserBase \in Int /\ UserTop \in Int
  BY VmaAssumption DEF Area, VmaT, Aligned
<1>1. /\ w \in VmaT /\ w.s = s /\ w.e = e /\ w.fl = v.fl /\ w.shm = v.shm
      /\ "share" \in v.fl => w.off = v.off + (s - v.s)
      /\ "share" \notin v.fl => w.off = 0
  BY <1>0 DEF Resized, VmaT
<1> HIDE DEF w
<1>2. UserAccess(w.s, w.e)
  BY <1>0, <1>1 DEF UserAccess
<1>3. 0 <= w.off /\ w.off + (w.e - w.s) <= UserTop
  <2>1. CASE "share" \in v.fl
    BY <1>0, <1>1, <2>1
  <2>2. CASE "share" \notin v.fl
    BY <1>0, <1>1, <1>2, <2>2 DEF UserAccess
  <2> QED
    BY <2>1, <2>2
<1>4. Area(w)
  BY <1>0, <1>1, <1>2, <1>3 DEF Area
<1>5. v.shm # NoShmem => w.off - w.s = v.off - v.s
  BY <1>0, <1>1
<1>6. ASSUME NEW p \in Int PROVE PageOf(w, p) = PageOf(v, p)
  <2>1. v.shm # NoShmem => w.off + (p - w.s) = v.off + (p - v.s)
    BY <1>0, <1>1
  <2> QED
    BY <1>1, <2>1 DEF PageOf
<1> QED
  BY <1>1, <1>4, <1>5, <1>6 DEF w

\* An area without an object is one that mm_map would make.
LEMMA VmaOfNew ==
  ASSUME NEW s, NEW e, NEW fl
  PROVE  VmaOf(s, e, fl) = NewVma(s, e, fl, NoShmem)
BY DEF VmaOf, NewVma, NoShmem

-----------------------------------------------------------------------------
(* What mm_unmap leaves of the areas *)

\* The areas mm_unmap meets, what it leaves below the range (a split makes a new area
\* without the object), and the areas after it.
Hit(x, start, end) == x.e > start /\ x.s < end

LowPart(x, start, end) ==
  IF end < x.e THEN VmaOf(x.s, start, x.fl) ELSE Resized(x, x.s, start)

AreasAfter(m, start, end) ==
  {x \in Areas(m) : ~Hit(x, start, end)}
    \cup {LowPart(x, start, end) : x \in {y \in Areas(m) : Hit(y, start, end) /\ y.s < start}}
    \cup {Resized(x, end, x.e) : x \in {y \in Areas(m) : Hit(y, start, end) /\ end < y.e}}

\* y is a part of x, on the same place of the same object if it is on one.
Part(y, x) ==
  /\ Area(y) /\ x.s <= y.s /\ y.e <= x.e /\ y.fl = x.fl
  /\ y.shm # NoShmem => y.shm = x.shm /\ y.off - y.s = x.off - x.s

\* What stays below and above the range is a part of the area; only a split drops the
\* object of the lower one.
LEMMA LowPartPart ==
  ASSUME NEW x, Area(x), NEW start, NEW end, Aligned(start), Aligned(end),
         start < end, x.s < start, start < x.e
  PROVE  LET y == LowPart(x, start, end)
         IN  /\ Part(y, x) /\ y.s = x.s /\ y.e = start
             /\ \A p \in Int : PageOf(y, p) =
                   IF end < x.e /\ "share" \in x.fl
                   THEN Detached(PageOf(x, p)) ELSE PageOf(x, p)
<1>0. /\ x \in VmaT /\ x.s \in Int /\ x.e \in Int /\ start \in Int /\ end \in Int
      /\ Aligned(x.s) /\ Aligned(x.e) /\ UserAccess(x.s, x.e) /\ x.fl \in SUBSET Flag
      /\ x.shm # NoShmem => "share" \in x.fl
      /\ UserBase \in Int /\ UserTop \in Int
  BY VmaAssumption DEF Area, VmaT, Aligned
<1>1. CASE end < x.e
  <2> DEFINE y == NewVma(x.s, start, x.fl, NoShmem)
  <2>1. LowPart(x, start, end) = y
    BY <1>1, VmaOfNew DEF LowPart
  <2>2. UserAccess(x.s, start) /\ NoShmem \in 0 .. NShm
    BY <1>0, VmaAssumption DEF UserAccess, NoShmem
  <2>3. Area(y) /\ y = [s |-> x.s, e |-> start, fl |-> x.fl, shm |-> NoShmem, off |-> 0]
    BY <1>0, <2>2, NewVmaArea
  <2>4. y.s = x.s /\ y.e = start /\ y.fl = x.fl /\ y.shm = NoShmem
    BY <2>3
  <2>5. Part(y, x)
    BY <1>0, <2>3, <2>4 DEF Part
  <2>6. ASSUME NEW p \in Int
        PROVE  PageOf(y, p) =
                   IF end < x.e /\ "share" \in x.fl
                   THEN Detached(PageOf(x, p)) ELSE PageOf(x, p)
    <3>1. PageOf(y, p) = [fl |-> x.fl, shm |-> NoShmem, pos |-> 0]
      BY <2>4 DEF PageOf
    <3>2. CASE "share" \in x.fl
      <4>1. Detached(PageOf(x, p)) = [fl |-> x.fl, shm |-> NoShmem, pos |-> 0]
        BY DEF PageOf, Detached
      <4> QED
        BY <1>1, <3>1, <3>2, <4>1
    <3>3. CASE "share" \notin x.fl
      <4>1. x.shm = NoShmem
        BY <1>0, <3>3
      <4> QED
        BY <1>1, <3>1, <3>3, <4>1 DEF PageOf
    <3> QED
      BY <3>2, <3>3
  <2> QED
    BY <2>1, <2>4, <2>5, <2>6
<1>2. CASE ~(end < x.e)
  <2> DEFINE y == Resized(x, x.s, start)
  <2>1. LowPart(x, start, end) = y
    BY <1>2 DEF LowPart
  <2>2. x.s <= x.s /\ start <= x.e
    BY <1>0
  <2>3. /\ Area(y) /\ y.s = x.s /\ y.e = start /\ y.fl = x.fl /\ y.shm = x.shm
        /\ x.shm # NoShmem => y.off - y.s = x.off - x.s
        /\ \A p \in Int : PageOf(y, p) = PageOf(x, p)
    BY <1>0, <2>2, ResizedArea
  <2> HIDE DEF y
  <2>4. Part(y, x)
    BY <1>0, <2>2, <2>3 DEF Part
  <2> QED
    BY <1>2, <2>1, <2>3, <2>4
<1> QED
  BY <1>1, <1>2

LEMMA HighPartPart ==
  ASSUME NEW x, Area(x), NEW end, Aligned(end), x.s < end, end < x.e
  PROVE  LET y == Resized(x, end, x.e)
         IN  /\ Part(y, x) /\ y.s = end /\ y.e = x.e
             /\ \A p \in Int : PageOf(y, p) = PageOf(x, p)
<1> DEFINE y == Resized(x, end, x.e)
<1>1. /\ x.s \in Int /\ x.e \in Int /\ end \in Int /\ Aligned(x.e) /\ x.s <= end /\ x.e <= x.e
  BY DEF Area, VmaT, Aligned
<1>2. /\ Area(y) /\ y.s = end /\ y.e = x.e /\ y.fl = x.fl /\ y.shm = x.shm
      /\ x.shm # NoShmem => y.off - y.s = x.off - x.s
      /\ \A p \in Int : PageOf(y, p) = PageOf(x, p)
  BY <1>1, ResizedArea
<1> HIDE DEF y
<1> QED
  BY <1>1, <1>2 DEF Part, y

\* Every area after mm_unmap is a part of one before, outside the range.
LEMMA PartsAfter ==
  ASSUME NEW m, Sorted(m.vmas), NEW start, NEW end, Aligned(start), Aligned(end), start < end,
         NEW y \in AreasAfter(m, start, end)
  PROVE  /\ \E x \in Areas(m) : Part(y, x)
         /\ y.e <= start \/ end <= y.s
<1>0. start \in Int /\ end \in Int /\ \A x \in Areas(m) : Area(x) /\ x.s \in Int /\ x.e \in Int
  BY AreasDisjoint DEF Area, VmaT, Aligned
<1>1. CASE y \in Areas(m) /\ ~Hit(y, start, end)
  <2>1. Part(y, y)
    BY <1>0, <1>1 DEF Part
  <2> QED
    BY <1>0, <1>1, <2>1 DEF Hit
<1>2. CASE \E x \in Areas(m) : Hit(x, start, end) /\ x.s < start /\ y = LowPart(x, start, end)
  <2>1. PICK x \in Areas(m) : Hit(x, start, end) /\ x.s < start /\ y = LowPart(x, start, end)
    BY <1>2
  <2>2. Area(x) /\ start < x.e
    BY <1>0, <2>1 DEF Hit
  <2>3. Part(y, x) /\ y.e = start
    BY <2>1, <2>2, LowPartPart
  <2> QED
    BY <1>0, <2>3
<1>3. CASE \E x \in Areas(m) : Hit(x, start, end) /\ end < x.e /\ y = Resized(x, end, x.e)
  <2>1. PICK x \in Areas(m) : Hit(x, start, end) /\ end < x.e /\ y = Resized(x, end, x.e)
    BY <1>3
  <2>2. Area(x) /\ x.s < end
    BY <1>0, <2>1 DEF Hit
  <2>3. Part(y, x) /\ y.s = end
    BY <2>1, <2>2, HighPartPart
  <2> QED
    BY <1>0, <2>3
<1> QED
  BY <1>1, <1>2, <1>3 DEF AreasAfter

\* The pages after mm_unmap.
LEMMA PagesCut ==
  ASSUME NEW m, Sorted(m.vmas), NEW r, Sorted(r.vmas),
         NEW start, NEW end, Aligned(start), Aligned(end), start < end,
         Areas(r) = AreasAfter(m, start, end)
  PROVE  PageMap(r) = Cleared(m, start, end)
<1> DEFINE low == SplitLow(m, start, end)
<1>0. start \in Int /\ end \in Int /\ \A x \in Areas(m) : Area(x) /\ x.s \in Int /\ x.e \in Int
  BY AreasDisjoint DEF Area, VmaT, Aligned
<1>1. ASSUME NEW p \in PageStart
      PROVE  PageMap(r)[p] = IF start <= p /\ p < end THEN Unmapped
                             ELSE IF p \in low THEN Detached(PageMap(m)[p])
                             ELSE PageMap(m)[p]
  <2>0. p \in Int
    BY PageIn
  <2>1. CASE start <= p /\ p < end
    <3>1. ASSUME NEW y \in Areas(r) PROVE ~Holds(y, p)
      <4>1. Area(y) /\ (y.e <= start \/ end <= y.s)
        BY PartsAfter DEF Part
      <4> QED
        BY <1>0, <2>0, <2>1, <4>1 DEF Area, VmaT, Holds
    <3> QED
      BY <2>1, <3>1, PageMapAt
  <2>2. CASE ~(start <= p /\ p < end) /\ \A x \in Areas(m) : ~Holds(x, p)
    <3>1. ASSUME NEW y \in Areas(r) PROVE ~Holds(y, p)
      <4>1. PICK x \in Areas(m) : Part(y, x)
        BY PartsAfter
      <4>2. Area(y) /\ y.s \in Int /\ y.e \in Int /\ x.s \in Int /\ x.e \in Int /\ x.s <= y.s /\ y.e <= x.e
        BY <1>0, <4>1 DEF Part, Area, VmaT
      <4>3. ~Holds(x, p)
        BY <2>2
      <4> QED
        BY <2>0, <4>2, <4>3 DEF Holds
    <3>2. PageMap(r)[p] = Unmapped /\ PageMap(m)[p] = Unmapped
      BY <2>2, <3>1, PageMapAt
    <3>3. p \notin low
      <4>1. SUFFICES ASSUME p \in low PROVE FALSE
        OBVIOUS
      <4>2. PICK v \in Areas(m) : /\ v.s < start /\ end < v.e /\ v.s <= p /\ p < start
        BY <4>1 DEF SplitLow
      <4>3. Holds(v, p)
        BY <1>0, <2>0, <4>2 DEF Holds
      <4> QED
        BY <2>2, <4>3
    <3> QED
      BY <2>2, <3>2, <3>3
  <2>3. CASE ~(start <= p /\ p < end) /\ \E x \in Areas(m) : Holds(x, p)
    <3>1. PICK x \in Areas(m) : Holds(x, p)
      BY <2>3
    <3>2. PageMap(m)[p] = PageOf(x, p) /\ Area(x) /\ x.s \in Int /\ x.e \in Int /\ x.s <= p /\ p < x.e
      BY <1>0, <3>1, PageMapAt DEF Holds
    <3>3. p \in low <=> "share" \in x.fl /\ x.s < start /\ end < x.e /\ p < start
      <4>1. ASSUME p \in low PROVE "share" \in x.fl /\ x.s < start /\ end < x.e /\ p < start
        <5>1. PICK v \in Areas(m) : "share" \in v.fl /\ v.s < start /\ end < v.e /\ v.s <= p /\ p < start
          BY <4>1 DEF SplitLow
        <5>2. v = x
          <6>1. v = x \/ v.e <= x.s \/ x.e <= v.s
            BY AreasDisjoint
          <6> QED
            BY <1>0, <2>0, <3>2, <5>1, <6>1
        <5> QED
          BY <5>1, <5>2
      <4>2. ASSUME "share" \in x.fl, x.s < start, end < x.e, p < start PROVE p \in low
        BY <3>2, <4>2 DEF SplitLow
      <4> QED
        BY <4>1, <4>2
    <3> HIDE DEF low
    <3>4. CASE ~Hit(x, start, end)
      <4>1. x \in Areas(r)
        BY <3>4 DEF AreasAfter
      <4>2. PageMap(r)[p] = PageOf(x, p)
        BY <3>1, <4>1, PageMapAt
      <4>3. p \notin low
        BY <1>0, <3>2, <3>3, <3>4 DEF Hit
      <4> QED
        BY <2>3, <3>2, <4>2, <4>3
    <3>5. CASE Hit(x, start, end) /\ p < start
      <4> DEFINE y == LowPart(x, start, end)
      <4>1. x.s < start /\ start < x.e
        BY <1>0, <2>0, <3>2, <3>5 DEF Hit
      <4>2. y \in Areas(r)
        BY <3>5, <4>1 DEF AreasAfter
      <4>3. /\ y.s = x.s /\ y.e = start
            /\ PageOf(y, p) = IF end < x.e /\ "share" \in x.fl
                   THEN Detached(PageOf(x, p)) ELSE PageOf(x, p)
        BY <2>0, <3>2, <4>1, LowPartPart
      <4> HIDE DEF y
      <4>4. Holds(y, p)
        BY <3>2, <3>5, <4>3 DEF Holds
      <4>5. PageMap(r)[p] = PageOf(y, p)
        BY <4>2, <4>4, PageMapAt
      <4> QED
        BY <2>3, <3>2, <3>3, <3>5, <4>1, <4>3, <4>5
    <3>6. CASE Hit(x, start, end) /\ ~(p < start)
      <4> DEFINE y == Resized(x, end, x.e)
      <4>1. end <= p /\ x.s < end /\ end < x.e
        BY <1>0, <2>0, <2>3, <3>2, <3>6 DEF Hit
      <4>2. y \in Areas(r)
        BY <3>6, <4>1 DEF AreasAfter
      <4>3. y.s = end /\ y.e = x.e /\ PageOf(y, p) = PageOf(x, p)
        BY <2>0, <3>2, <4>1, HighPartPart
      <4> HIDE DEF y
      <4>4. Holds(y, p)
        BY <3>2, <4>1, <4>3 DEF Holds
      <4>5. PageMap(r)[p] = PageOf(y, p)
        BY <4>2, <4>4, PageMapAt
      <4>6. p \notin low
        BY <3>3, <3>6
      <4> QED
        BY <2>3, <3>2, <4>3, <4>5, <4>6
    <3> QED
      BY <3>4, <3>5, <3>6
  <2> QED
    BY <2>1, <2>2, <2>3
<1>2. PageMap(r) = [p \in PageStart |-> PageMap(r)[p]]
  BY PageMapFunction
<1>3. Cleared(m, start, end) =
        [p \in PageStart |-> IF start <= p /\ p < end THEN Unmapped
                             ELSE IF p \in low THEN Detached(PageMap(m)[p])
                             ELSE PageMap(m)[p]]
  BY DEF Cleared
<1> HIDE DEF low
<1> QED
  BY <1>1, <1>2, <1>3

\* The list with area w in the place of v.
Replaced(l, v, w) == [i \in 1 .. Len(l) |-> IF l[i] = v THEN w ELSE l[i]]

\* It is sorted when w is still in the way of no other area.
LEMMA ReplaceSpec ==
  ASSUME NEW l, Sorted(l), NEW v \in Elements(l), NEW w, Area(w), w.s < v.e, v.s < w.e,
         \A x \in Elements(l) : x # v => x.e <= w.s \/ w.e <= x.s
  PROVE  /\ Sorted(Replaced(l, v, w))
         /\ Elements(Replaced(l, v, w)) = (Elements(l) \ {v}) \cup {w}
<1> DEFINE r == Replaced(l, v, w)
           n == Len(l)
<1>0. /\ n \in Nat
      /\ \A i \in 1 .. n : Area(l[i]) /\ l[i].s \in Int /\ l[i].e \in Int /\ l[i].s < l[i].e
                           /\ l[i] \in Elements(l)
  BY SortedFacts DEF Area, UserAccess, Elements
<1>1. PICK k \in 1 .. n : v = l[k]
  BY DEF Elements
<1>2. \A i, j \in 1 .. n : i < j => l[i].e <= l[j].s
  BY DEF Sorted
<1>3. \A i \in 1 .. n : l[i] = v <=> i = k
  BY <1>0, <1>1, <1>2
<1>4. /\ \A i \in 1 .. n : r[i] = IF l[i] = v THEN w ELSE l[i]
      /\ r = [i \in 1 .. n |-> r[i]]
  BY DEF Replaced
<1> HIDE DEF r, n
<1>5. w.s \in Int /\ w.e \in Int /\ w \in VmaT /\ w.s < w.e
  BY DEF Area, VmaT, UserAccess
<1>6. \A i \in 1 .. n : r[i] = IF i = k THEN w ELSE l[i]
  BY <1>3, <1>4
<1>7. r \in Seq(VmaT) /\ Len(r) = n
  <2>1. \A i \in 1 .. n : r[i] \in VmaT
    BY <1>0, <1>5, <1>6 DEF Area
  <2>2. r \in [1 .. n -> VmaT]
    BY <1>4, <2>1
  <2> QED
    BY <1>0, <2>2, FunctionSeq
<1>8. \A i \in 1 .. n : Area(r[i])
  BY <1>0, <1>6
<1>9. ASSUME NEW i \in 1 .. n, NEW j \in 1 .. n, i < j PROVE r[i].e <= r[j].s
  <2>1. CASE i = k
    <3>1. r[i] = w /\ r[j] = l[j] /\ l[j] # v /\ v.e <= l[j].s
      BY <1>1, <1>2, <1>3, <1>6, <1>9, <2>1
    <3>2. l[j].e <= w.s \/ w.e <= l[j].s
      BY <1>0, <3>1
    <3> QED
      BY <1>0, <1>1, <1>5, <3>1, <3>2
  <2>2. CASE j = k
    <3>1. r[j] = w /\ r[i] = l[i] /\ l[i] # v /\ l[i].e <= v.s
      BY <1>1, <1>2, <1>3, <1>6, <1>9, <2>2
    <3>2. l[i].e <= w.s \/ w.e <= l[i].s
      BY <1>0, <3>1
    <3> QED
      BY <1>0, <1>1, <1>5, <3>1, <3>2
  <2>3. CASE i # k /\ j # k
    BY <1>2, <1>6, <1>9, <2>3
  <2> QED
    BY <2>1, <2>2, <2>3
<1>10. Elements(r) = (Elements(l) \ {v}) \cup {w}
  <2>1. \A i \in 1 .. n : r[i] \in (Elements(l) \ {v}) \cup {w}
    BY <1>0, <1>3, <1>6
  <2>2. w = r[k]
    BY <1>1, <1>6
  <2>3. ASSUME NEW x \in Elements(l), x # v PROVE \E i \in 1 .. n : x = r[i]
    <3>1. PICK i \in 1 .. n : x = l[i]
      BY DEF Elements, n
    <3> QED
      BY <1>3, <1>6, <2>3, <3>1
  <2>4. Elements(r) = {r[i] : i \in 1 .. n}
    BY <1>7 DEF Elements
  <2> QED
    BY <1>1, <2>1, <2>2, <2>3, <2>4
<1> QED
  BY <1>7, <1>8, <1>9, <1>10 DEF Sorted, r

\* The areas are the elements of the list.
LEMMA AreasElements ==
  ASSUME NEW m
  PROVE  Areas(m) = Elements(m.vmas)
BY DEF Areas, Elements

\* An address space with another list and another cache.
LEMMA MmFields ==
  ASSUME NEW m \in MmT, NEW l \in Seq(VmaT), NEW c \in Int,
         NEW r, r = [m EXCEPT !.vmas = l, !.cache = c]
  PROVE  r \in MmT /\ r.vmas = l /\ r.cache = c /\ SameBrk(m, r)
BY DEF MmT, SameBrk

LEMMA MmListField ==
  ASSUME NEW m \in MmT, NEW l \in Seq(VmaT), NEW r, r = [m EXCEPT !.vmas = l]
  PROVE  r \in MmT /\ r.vmas = l /\ r.cache = m.cache /\ SameBrk(m, r)
BY DEF MmT, SameBrk

\* What is left has the objects where they were.
LEMMA BaseAfter ==
  ASSUME NEW m, Sorted(m.vmas), OneBase(m), NEW start, NEW end,
         Aligned(start), Aligned(end), start < end,
         NEW r, Areas(r) = AreasAfter(m, start, end)
  PROVE  OneBase(r)
<1> SUFFICES ASSUME NEW v \in Areas(r), NEW w \in Areas(r), v.shm # NoShmem, v.shm = w.shm
             PROVE  v.off - v.s = w.off - w.s
  BY DEF OneBase
<1>1. PICK x \in Areas(m) : Part(v, x)
  BY PartsAfter
<1>2. PICK y \in Areas(m) : Part(w, y)
  BY PartsAfter
<1>3. x.shm = v.shm /\ y.shm = w.shm /\ v.off - v.s = x.off - x.s /\ w.off - w.s = y.off - y.s
  BY <1>1, <1>2 DEF Part
<1>4. x.off - x.s = y.off - y.s
  BY <1>3 DEF OneBase
<1> QED
  BY <1>3, <1>4

\* In the order of the list, the range lies inside one area v: it is split.
LEMMA SplitInv ==
  ASSUME NEW m, MmInv(m), NEW v \in Areas(m), NEW start, NEW end, Aligned(start), Aligned(end),
         start < end, v.s < start, end < v.e
  PROVE  LET r == Split(m, v, start, end)
         IN  MmInv(r) /\ SameBrk(m, r) /\ Areas(r) = AreasAfter(m, start, end)
<1> DEFINE upper == Resized(v, end, v.e)
           low == VmaOf(v.s, start, v.fl)
           l == Replaced(m.vmas, v, upper)
           c == IF m.cache = v.s THEN end ELSE m.cache
           m1 == [m EXCEPT !.vmas = l, !.cache = c]
           r == Split(m, v, start, end)
<1>0. /\ m \in MmT /\ Sorted(m.vmas) /\ OneBase(m) /\ CacheIn(m) /\ Area(v)
      /\ v.s \in Int /\ v.e \in Int /\ start \in Int /\ end \in Int /\ v.s < end
      /\ \A x \in Areas(m) : Area(x) /\ x.s \in Int /\ x.e \in Int /\ x.s < x.e
  BY AreasDisjoint DEF MmInv, Area, VmaT, UserAccess, Aligned
<1>1. Area(upper) /\ upper.s = end /\ upper.e = v.e
  BY <1>0, HighPartPart DEF Part
<1>2. /\ Area(low) /\ low.s = v.s /\ low.e = start
      /\ low = LowPart(v, start, end)
  <2>1. low = LowPart(v, start, end)
    BY DEF LowPart
  <2>2. start < v.e
    BY <1>0
  <2> QED
    BY <1>0, <2>1, <2>2, LowPartPart DEF Part
<1>3. r = InsertVma(m1, low)
  BY DEF Split, Replaced
<1>4. \A x \in Areas(m) : x # v => x.e <= v.s \/ v.e <= x.s
  BY <1>0, AreasDisjoint
<1> HIDE DEF upper, low, r
<1>5. Sorted(l) /\ Elements(l) = (Areas(m) \ {v}) \cup {upper}
  <2>1. v \in Elements(m.vmas) /\ upper.s < v.e /\ v.s < upper.e
        /\ \A x \in Elements(m.vmas) : x # v => x.e <= upper.s \/ upper.e <= x.s
    <3>1. \A x \in Areas(m) : x # v => x.e <= end \/ v.e <= x.s
      BY <1>0, <1>4
    <3> QED
      BY <1>0, <1>1, <3>1, AreasElements
  <2>2. Sorted(l) /\ Elements(l) = (Elements(m.vmas) \ {v}) \cup {upper}
    BY <1>0, <1>1, <2>1, ReplaceSpec
  <2> QED
    BY <2>2, AreasElements
<1>13. c = IF m.cache = v.s THEN end ELSE m.cache
  OBVIOUS
<1> HIDE DEF l, c
<1>6. m1 \in MmT /\ m1.vmas = l /\ m1.cache = c /\ SameBrk(m, m1)
  <2>1. l \in Seq(VmaT) /\ c \in Int
    BY <1>0, <1>5, <1>13 DEF Sorted, MmT
  <2> QED
    BY <1>0, <2>1, MmFields
<1> HIDE DEF m1
<1>7. Areas(m1) = (Areas(m) \ {v}) \cup {upper}
  BY <1>5, <1>6, AreasElements
<1>8. \A x \in Areas(m1) : x.e <= low.s \/ low.e <= x.s
  <2>1. \A x \in Areas(m) : x # v => x.e <= v.s \/ start <= x.s
    BY <1>0, <1>4
  <2> QED
    BY <1>0, <1>1, <1>2, <1>7, <2>1
<1>9. /\ r \in MmT /\ Sorted(r.vmas) /\ Areas(r) = Areas(m1) \cup {low}
      /\ r.cache = m1.cache /\ r.brk = m1.brk /\ r.brkStart = m1.brkStart
  BY <1>2, <1>3, <1>5, <1>6, <1>8, InsertVmaSpec
<1>10. Areas(r) = AreasAfter(m, start, end)
  <2>1. Hit(v, start, end) /\ v.s < start /\ end < v.e
    BY <1>0 DEF Hit
  <2>2. \A x \in Areas(m) : x # v => ~Hit(x, start, end)
    BY <1>0, <1>4 DEF Hit
  <2>3. {x \in Areas(m) : ~Hit(x, start, end)} = Areas(m) \ {v}
    BY <2>1, <2>2
  <2>4. {y \in Areas(m) : Hit(y, start, end) /\ y.s < start} = {v}
        /\ {y \in Areas(m) : Hit(y, start, end) /\ end < y.e} = {v}
    BY <2>1, <2>2
  <2>5. AreasAfter(m, start, end) = (Areas(m) \ {v}) \cup {LowPart(v, start, end)} \cup {Resized(v, end, v.e)}
    BY <2>3, <2>4 DEF AreasAfter
  <2> QED
    BY <1>2, <1>7, <1>9, <2>5 DEF upper
<1>11. OneBase(r)
  BY <1>0, <1>10, BaseAfter
<1>12. CacheIn(r)
  <2>1. SUFFICES ASSUME r.cache # NoCache PROVE \E x \in Areas(r) : x.s = r.cache
    BY DEF CacheIn
  <2>2. CASE m.cache = v.s
    BY <1>1, <1>6, <1>7, <1>9, <1>13, <2>2
  <2>3. CASE m.cache # v.s
    <3>1. r.cache = m.cache /\ m.cache # NoCache
      BY <1>6, <1>9, <1>13, <2>1, <2>3
    <3>2. PICK x \in Areas(m) : x.s = m.cache
      BY <1>0, <3>1 DEF CacheIn
    <3> QED
      BY <1>7, <1>9, <2>3, <3>1, <3>2
  <2> QED
    BY <2>2, <2>3
<1> QED
  BY <1>6, <1>9, <1>10, <1>11, <1>12 DEF MmInv, SameBrk, r

\* What is left of an area in the range, when the range does not lie inside it.
LEMMA RemainsSpec ==
  ASSUME NEW x, Area(x), NEW start, NEW end, Aligned(start), Aligned(end), start < end,
         Hit(x, start, end), ~(x.s < start /\ end < x.e)
  PROVE  /\ x.s < start => Remains(x, start, end) = LowPart(x, start, end)
         /\ end < x.e => Remains(x, start, end) = Resized(x, end, x.e)
         /\ ~(x.s < start) /\ ~(end < x.e) => Remains(x, start, end) = NoVma
         /\ x.s < start \/ end < x.e =>
              Part(Remains(x, start, end), x) /\ Remains(x, start, end) # NoVma
<1>0. x.s \in Int /\ x.e \in Int /\ start \in Int /\ end \in Int
  BY DEF Area, VmaT, Aligned
<1>1. CASE x.s < start
  <2>1. ~(end < x.e) /\ start < x.e
    BY <1>0, <1>1 DEF Hit
  <2>2. Remains(x, start, end) = LowPart(x, start, end)
    BY <1>1, <2>1 DEF Remains, LowPart
  <2>3. Part(LowPart(x, start, end), x)
    BY <1>1, <2>1, LowPartPart
  <2>4. LowPart(x, start, end) # NoVma
    BY <2>3, AreaNotNo DEF Part
  <2> QED
    BY <1>1, <2>1, <2>2, <2>3, <2>4
<1>2. CASE ~(x.s < start) /\ end < x.e
  <2>1. x.s < end
    BY <1>0 DEF Hit
  <2>2. Remains(x, start, end) = Resized(x, end, x.e)
    BY <1>2 DEF Remains
  <2>3. Part(Resized(x, end, x.e), x)
    BY <1>2, <2>1, HighPartPart
  <2>4. Resized(x, end, x.e) # NoVma
    BY <2>3, AreaNotNo DEF Part
  <2> QED
    BY <1>2, <2>2, <2>3, <2>4
<1>3. CASE ~(x.s < start) /\ ~(end < x.e)
  BY <1>3 DEF Remains
<1> QED
  BY <1>1, <1>2, <1>3

\* What mm_unmap leaves at each place of the list, and the places where nothing is left.
Rest(l, start, end) ==
  [i \in 1 .. Len(l) |-> IF Hit(l[i], start, end) THEN Remains(l[i], start, end) ELSE l[i]]

Gone(l, start, end) == {i \in 1 .. Len(l) : Rest(l, start, end)[i] = NoVma}

\* These places lie together, and the others are the areas after mm_unmap, in order.
LEMMA CutList ==
  ASSUME NEW m, Sorted(m.vmas), NEW start, NEW end, Aligned(start), Aligned(end), start < end,
         \A x \in Areas(m) : Hit(x, start, end) => ~(x.s < start /\ end < x.e)
  PROVE  LET R == Rest(m.vmas, start, end)
             G == Gone(m.vmas, start, end)
         IN  /\ SortedBut(R, G)
             /\ {R[i] : i \in (1 .. Len(R)) \ G} = AreasAfter(m, start, end)
<1> DEFINE l == m.vmas
           n == Len(l)
           R == Rest(l, start, end)
           G == Gone(l, start, end)
<1>0. /\ n \in Nat /\ start \in Int /\ end \in Int
      /\ \A i \in 1 .. n : Area(l[i]) /\ l[i].s \in Int /\ l[i].e \in Int /\ l[i].s < l[i].e
                           /\ l[i] \in Areas(m) /\ l[i] \in VmaT
  BY SortedFacts DEF Area, UserAccess, Areas, Aligned
<1>1. /\ \A i \in 1 .. n : R[i] = IF Hit(l[i], start, end) THEN Remains(l[i], start, end) ELSE l[i]
      /\ R = [i \in 1 .. n |-> R[i]]
  BY DEF Rest
<1>2. \A i \in 1 .. n : i \in G <=> R[i] = NoVma
  BY DEF Gone
<1>3. \A i, j \in 1 .. n : i < j => l[i].e <= l[j].s
  BY DEF Sorted
<1>4. G \in SUBSET (1 .. n)
  BY DEF Gone
<1> HIDE DEF R, G
<1>5. ASSUME NEW i \in 1 .. n
      PROVE  /\ i \in G <=> start <= l[i].s /\ l[i].e <= end
             /\ i \notin G => Part(R[i], l[i])
             /\ Hit(l[i], start, end) /\ l[i].s < start => R[i] = LowPart(l[i], start, end) /\ i \notin G
             /\ Hit(l[i], start, end) /\ end < l[i].e => R[i] = Resized(l[i], end, l[i].e) /\ i \notin G
             /\ ~Hit(l[i], start, end) => R[i] = l[i]
  <2>1. Area(l[i]) /\ l[i].s \in Int /\ l[i].e \in Int /\ l[i].s < l[i].e /\ l[i] \in Areas(m)
    BY <1>0
  <2>2. CASE ~Hit(l[i], start, end)
    <3>1. R[i] = l[i] /\ l[i] # NoVma
      BY <1>1, <2>1, <2>2, AreaNotNo
    <3>2. Part(l[i], l[i])
      BY <2>1 DEF Part
    <3>3. ~(start <= l[i].s /\ l[i].e <= end)
      BY <1>0, <2>1, <2>2 DEF Hit
    <3> QED
      BY <1>2, <2>2, <3>1, <3>2, <3>3
  <2>3. CASE Hit(l[i], start, end)
    <3>1. /\ l[i].s < start => Remains(l[i], start, end) = LowPart(l[i], start, end)
          /\ end < l[i].e => Remains(l[i], start, end) = Resized(l[i], end, l[i].e)
          /\ ~(l[i].s < start) /\ ~(end < l[i].e) => Remains(l[i], start, end) = NoVma
          /\ l[i].s < start \/ end < l[i].e =>
               Part(Remains(l[i], start, end), l[i]) /\ Remains(l[i], start, end) # NoVma
      BY <2>1, <2>3, RemainsSpec
    <3>2. R[i] = Remains(l[i], start, end)
      BY <1>1, <2>3
    <3>3. (start <= l[i].s /\ l[i].e <= end) <=> ~(l[i].s < start) /\ ~(end < l[i].e)
      BY <1>0, <2>1
    <3> QED
      BY <1>2, <2>3, <3>1, <3>2, <3>3
  <2> QED
    BY <2>2, <2>3
<1>6. R \in Seq(VmaT) /\ Len(R) = n
  <2>1. \A i \in 1 .. n : R[i] \in VmaT
    <3>1. NoVma \in VmaT
      BY DEF NoVma, VmaT
    <3> QED
      BY <1>2, <1>5, <3>1 DEF Part, Area
  <2>2. R \in [1 .. n -> VmaT]
    BY <1>1, <2>1
  <2> QED
    BY <1>0, <2>2, FunctionSeq
<1>7. ASSUME NEW i \in G, NEW k \in G, NEW j \in 1 .. n, i <= j, j <= k PROVE j \in G
  <2>1. i \in 1 .. n /\ k \in 1 .. n
    BY <1>4
  <2>2. start <= l[i].s /\ l[i].e <= end /\ start <= l[k].s /\ l[k].e <= end
    BY <1>5, <2>1
  <2>3. (i = j \/ i < j) /\ (j = k \/ j < k)
    BY <1>0, <1>7, <2>1
  <2>4. start <= l[j].s
    BY <1>0, <1>3, <2>1, <2>2, <2>3
  <2>5. l[j].e <= end
    BY <1>0, <1>3, <2>1, <2>2, <2>3
  <2> QED
    BY <1>5, <2>4, <2>5
<1>8. \A i \in 1 .. n : i \notin G => Area(R[i])
  BY <1>5 DEF Part
<1>9. ASSUME NEW i \in 1 .. n, NEW j \in 1 .. n, i < j, i \notin G, j \notin G
      PROVE  R[i].e <= R[j].s
  <2>1. /\ Part(R[i], l[i]) /\ Part(R[j], l[j]) /\ l[i].e <= l[j].s
    BY <1>3, <1>5, <1>9
  <2>2. /\ R[i].e \in Int /\ R[j].s \in Int /\ R[i].e <= l[i].e /\ l[j].s <= R[j].s
    BY <2>1 DEF Part, Area, VmaT
  <2>3. l[i].e \in Int /\ l[j].s \in Int
    BY <1>0
  <2> QED
    BY <2>1, <2>2, <2>3
<1>10. SortedBut(R, G)
  BY <1>4, <1>6, <1>7, <1>8, <1>9 DEF SortedBut
<1>11. {R[i] : i \in (1 .. n) \ G} = AreasAfter(m, start, end)
  <2>1. ASSUME NEW i \in (1 .. n) \ G PROVE R[i] \in AreasAfter(m, start, end)
    <3>1. CASE ~Hit(l[i], start, end)
      BY <1>0, <1>5, <3>1 DEF AreasAfter
    <3>2. CASE Hit(l[i], start, end) /\ l[i].s < start
      BY <1>0, <1>5, <3>2 DEF AreasAfter
    <3>3. CASE Hit(l[i], start, end) /\ end < l[i].e
      BY <1>0, <1>5, <3>3 DEF AreasAfter
    <3>4. l[i].s < start \/ end < l[i].e
      BY <1>0, <1>5
    <3> QED
      BY <3>1, <3>2, <3>3, <3>4
  <2>2. ASSUME NEW y \in AreasAfter(m, start, end) PROVE \E i \in (1 .. n) \ G : y = R[i]
    <3>0. \A x \in Areas(m) : \E i \in 1 .. n : x = l[i]
      BY DEF Areas
    <3>1. CASE y \in Areas(m) /\ ~Hit(y, start, end)
      <4>1. PICK i \in 1 .. n : y = l[i]
        BY <3>0, <3>1
      <4>2. R[i] = y /\ y # NoVma
        BY <1>0, <1>5, <3>1, <4>1, AreaNotNo
      <4> QED
        BY <1>2, <4>2
    <3>2. CASE \E x \in Areas(m) : Hit(x, start, end) /\ x.s < start /\ y = LowPart(x, start, end)
      <4>1. PICK i \in 1 .. n : Hit(l[i], start, end) /\ l[i].s < start /\ y = LowPart(l[i], start, end)
        BY <3>0, <3>2
      <4> QED
        BY <1>5, <4>1
    <3>3. CASE \E x \in Areas(m) : Hit(x, start, end) /\ end < x.e /\ y = Resized(x, end, x.e)
      <4>1. PICK i \in 1 .. n : Hit(l[i], start, end) /\ end < l[i].e /\ y = Resized(l[i], end, l[i].e)
        BY <3>0, <3>3
      <4> QED
        BY <1>5, <4>1
    <3> QED
      BY <3>1, <3>2, <3>3 DEF AreasAfter
  <2> QED
    BY <2>1, <2>2
<1> QED
  BY <1>6, <1>10, <1>11 DEF R, G

\* A clear range leaves every area as it is.
LEMMA ClearAfter ==
  ASSUME NEW m, Sorted(m.vmas), NEW start \in Int, NEW end \in Int, Clear(m, start, end)
  PROVE  AreasAfter(m, start, end) = Areas(m)
<1>1. \A x \in Areas(m) : ~Hit(x, start, end)
  BY AreasDisjoint DEF Clear, Hit, Area, VmaT
<1> QED
  BY <1>1 DEF AreasAfter

\* mm_unmap when it splits no area.
CutMm(m, start, end) ==
  [m EXCEPT !.vmas = Without(Rest(m.vmas, start, end), Gone(m.vmas, start, end)),
            !.cache = CacheWithout(m, {x \in Areas(m) : Hit(x, start, end)})]

\* It keeps the invariant.
LEMMA CutInv ==
  ASSUME NEW m, MmInv(m), NEW start, NEW end, Aligned(start), Aligned(end), start < end,
         \A x \in Areas(m) : Hit(x, start, end) => ~(x.s < start /\ end < x.e)
  PROVE  LET r == CutMm(m, start, end)
         IN  MmInv(r) /\ SameBrk(m, r) /\ Areas(r) = AreasAfter(m, start, end)
<1> DEFINE R == Rest(m.vmas, start, end)
           G == Gone(m.vmas, start, end)
           l == Without(R, G)
           c == CacheWithout(m, {x \in Areas(m) : Hit(x, start, end)})
           r == CutMm(m, start, end)
<1>0. m \in MmT /\ Sorted(m.vmas) /\ OneBase(m) /\ CacheIn(m) /\ m.cache \in Int
  BY DEF MmInv, MmT
<1>1. SortedBut(R, G) /\ {R[i] : i \in (1 .. Len(R)) \ G} = AreasAfter(m, start, end)
  BY <1>0, CutList
<1> HIDE DEF R, G
<1>2. Sorted(l) /\ Elements(l) = AreasAfter(m, start, end)
  <2>1. Sorted(Without(R, G)) /\ Elements(Without(R, G)) = {R[i] : i \in (1 .. Len(R)) \ G}
    BY <1>1, WithoutSpec
  <2> QED
    BY <1>1, <2>1
<1>3. /\ c \in Int
      /\ c # NoCache => c = m.cache /\ \A x \in Areas(m) : Hit(x, start, end) => x.s # m.cache
  BY <1>0 DEF CacheWithout, NoCache
<1>4. r = [m EXCEPT !.vmas = l, !.cache = c]
  BY DEF R, G, CutMm
<1> HIDE DEF l, c, r
<1>5. r \in MmT /\ r.vmas = l /\ r.cache = c /\ SameBrk(m, r)
  <2>1. l \in Seq(VmaT) /\ c \in Int /\ m \in MmT
    BY <1>0, <1>2, <1>3 DEF Sorted
  <2> QED
    BY <1>4, <2>1 DEF MmT, SameBrk
<1>6. Areas(r) = AreasAfter(m, start, end)
  BY <1>2, <1>5, AreasElements
<1>7. OneBase(r)
  BY <1>0, <1>6, BaseAfter
<1>8. CacheIn(r)
  <2>1. SUFFICES ASSUME r.cache # NoCache PROVE \E x \in Areas(r) : x.s = r.cache
    BY DEF CacheIn
  <2>2. r.cache = m.cache /\ m.cache # NoCache /\ \A x \in Areas(m) : Hit(x, start, end) => x.s # m.cache
    BY <1>3, <1>5, <2>1
  <2>3. PICK x \in Areas(m) : x.s = m.cache
    BY <1>0, <2>2 DEF CacheIn
  <2>4. x \in Areas(r)
    BY <1>6, <2>2, <2>3 DEF AreasAfter
  <2> QED
    BY <2>2, <2>3, <2>4
<1> QED
  BY <1>2, <1>5, <1>6, <1>7, <1>8 DEF MmInv, r

\* mm_unmap: the areas it leaves are what the range leaves of them; without memory for a
\* split nothing changes.
LEMMA MmUnmapSpec ==
  ASSUME NEW m, MmInv(m), NEW addr \in Int, NEW len \in Int, NEW alloc \in BOOLEAN
  PROVE  LET r == MmUnmap(m, addr, len, alloc)
             start == Start(addr)
             end == Ending(addr, len)
         IN  /\ MmInv(r.mm) /\ SameBrk(m, r.mm) /\ r.ok \in BOOLEAN
             /\ r.ok => UserAccess(start, end) /\ Areas(r.mm) = AreasAfter(m, start, end)
             /\ ~r.ok => r.mm.vmas = m.vmas /\ Areas(r.mm) = Areas(m)
             /\ UserAccess(start, end) /\ alloc => r.ok
             /\ UserAccess(start, end) /\ Clear(m, start, end) => r.ok /\ r.mm = Find(m, start)
<1> DEFINE r == MmUnmap(m, addr, len, alloc)
           start == Start(addr)
           end == Ending(addr, len)
           v == FindVma(m, start)
           m1 == Find(m, start)
           hit == {x \in Areas(m) : x.e > start /\ x.s < end}
           rest == [i \in 1 .. Len(m.vmas) |->
                    IF m.vmas[i] \in hit THEN Remains(m.vmas[i], start, end)
                    ELSE m.vmas[i]]
           gone == {i \in 1 .. Len(rest) : rest[i] = NoVma}
           m2 == [m1 EXCEPT !.vmas = Without(rest, gone), !.cache = CacheWithout(m1, hit)]
           crash == \E x \in hit : Remains(x, start, end) = NoVma /\ Dangles(x)
<1>1. r = IF ~UserAccess(start, end) THEN Result(m, FALSE)
          ELSE IF v = NoVma \/ end <= v.s THEN Result(m1, TRUE)
          ELSE IF v.s < start /\ end < v.e
          THEN IF alloc THEN Result(Split(m1, v, start, end), TRUE) ELSE Result(m1, FALSE)
          ELSE [Result(m2, TRUE) EXCEPT !.crash = crash]
  BY DEF MmUnmap, Start, Ending
<1>2. start \in Int /\ Aligned(start) /\ end \in Int /\ Aligned(end)
  BY RangeTypes
<1> HIDE DEF start, end, r
<1>3. MmInv(m1) /\ m1.vmas = m.vmas /\ Areas(m1) = Areas(m) /\ SameBrk(m, m1)
  BY <1>2, FindInv
<1>4. Sorted(m.vmas) /\ \A x \in Areas(m) : Area(x) /\ x.s \in Int /\ x.e \in Int /\ x.s < x.e
  BY AreasDisjoint DEF MmInv, Area, VmaT, UserAccess
<1>5. Clear(m, start, end) <=> ~(v # NoVma /\ end > v.s)
  BY <1>2, <1>4, ClearIff
<1>6. /\ v # NoVma => v \in Areas(m) /\ start < v.e
      /\ v # NoVma => \A w \in Areas(m) : start < w.e => v = w \/ v.e <= w.s
  BY <1>2, <1>4, FindVmaArea
<1>7. m2 = CutMm(m1, start, end)
  <2>1. hit = {x \in Areas(m1) : Hit(x, start, end)}
    BY <1>3 DEF Hit
  <2>2. \A i \in 1 .. Len(m.vmas) : m.vmas[i] \in hit <=> Hit(m.vmas[i], start, end)
    BY DEF Areas, Hit
  <2>3. rest = Rest(m1.vmas, start, end)
    BY <1>3, <2>2 DEF Rest
  <2>4. gone = Gone(m1.vmas, start, end)
    <3>1. Len(rest) = Len(m.vmas)
      <4>1. Len(m.vmas) \in Nat
        BY <1>4, SortedFacts
      <4> QED
        BY <4>1
    <3> QED
      BY <1>3, <2>3, <3>1 DEF Gone
  <2> HIDE DEF rest, gone, hit
  <2> QED
    BY <2>1, <2>3, <2>4 DEF CutMm
<1>8. AreasAfter(m1, start, end) = AreasAfter(m, start, end)
  BY <1>3 DEF AreasAfter
<1> HIDE DEF v, m1, m2, crash, hit
<1>9. CASE ~UserAccess(start, end)
  <2>1. r.mm = m /\ r.ok = FALSE
    BY <1>1, <1>9 DEF Result
  <2> QED
    BY <1>9, <2>1 DEF SameBrk, r, start, end
<1>10. CASE UserAccess(start, end) /\ Clear(m, start, end)
  <2>1. v = NoVma \/ end <= v.s
    BY <1>2, <1>4, <1>5, <1>6, <1>10
  <2>2. r.mm = m1 /\ r.ok = TRUE
    BY <1>1, <1>10, <2>1 DEF Result
  <2>3. Areas(m1) = AreasAfter(m, start, end)
    BY <1>2, <1>3, <1>4, <1>10, ClearAfter
  <2> QED
    BY <1>3, <1>10, <2>2, <2>3 DEF r, start, end, m1
<1>11. CASE UserAccess(start, end) /\ ~Clear(m, start, end)
  <2>1. ~(v = NoVma \/ end <= v.s) /\ v \in Areas(m1) /\ v.s \in Int /\ v.e \in Int /\ v \in Areas(m)
    BY <1>2, <1>3, <1>4, <1>5, <1>6, <1>11
  <2>2. start < end
    BY <1>11 DEF UserAccess
  <2>3. CASE v.s < start /\ end < v.e /\ alloc
    <3> DEFINE q == Split(m1, v, start, end)
    <3>1. MmInv(q) /\ SameBrk(m1, q) /\ Areas(q) = AreasAfter(m1, start, end)
      BY <1>2, <1>3, <2>1, <2>2, <2>3, SplitInv
    <3> HIDE DEF q
    <3>2. r.mm = q /\ r.ok = TRUE
      BY <1>1, <1>11, <2>1, <2>3 DEF Result, q
    <3> QED
      BY <1>3, <1>8, <1>11, <3>1, <3>2 DEF SameBrk, r, start, end
  <2>4. CASE v.s < start /\ end < v.e /\ ~alloc
    <3>1. r.mm = m1 /\ r.ok = FALSE
      BY <1>1, <1>11, <2>1, <2>4 DEF Result
    <3> QED
      BY <1>3, <1>11, <2>4, <3>1 DEF r, start, end
  <2>5. CASE ~(v.s < start /\ end < v.e)
    <3>1. r.mm = m2 /\ r.ok = TRUE
      <4>1. r = [Result(m2, TRUE) EXCEPT !.crash = crash]
        BY <1>1, <1>11, <2>1, <2>5
      <4> QED
        BY <4>1 DEF Result
    <3>2. ASSUME NEW x \in Areas(m1), Hit(x, start, end) PROVE ~(x.s < start /\ end < x.e)
      <4>1. x \in Areas(m) /\ start < x.e /\ x.s \in Int /\ x.e \in Int
        BY <1>2, <1>3, <1>4, <3>2 DEF Hit
      <4>2. v = x \/ v.e <= x.s
        BY <1>6, <2>1, <4>1
      <4>3. start < v.e
        BY <1>6, <2>1
      <4> QED
        BY <1>2, <2>1, <2>5, <4>1, <4>2, <4>3
    <3>3. MmInv(m2) /\ SameBrk(m1, m2) /\ Areas(m2) = AreasAfter(m1, start, end)
      BY <1>2, <1>3, <1>7, <2>2, <3>2, CutInv
    <3> QED
      BY <1>3, <1>8, <1>11, <3>1, <3>3 DEF SameBrk, r, start, end
  <2> QED
    BY <2>3, <2>4, <2>5
<1> QED
  BY <1>9, <1>10, <1>11

\* Rounding a page address changes nothing.
LEMMA AlignedRounds ==
  ASSUME NEW a \in 0 .. Top - 1, Aligned(a)
  PROVE  RoundDown(a) = a /\ RoundUp(a) = a /\ a <= Top - PgSize
<1>0. PgSize \in Nat \ {0} /\ Top \in Nat
  BY VmaAssumption
<1>1. a + PgSize <= Top
  <2>1. a < Top /\ Aligned(Top)
    BY <1>0, AlignedConstants
  <2> QED
    BY <2>1, AlignedGap
<1>2. RoundDown(a) = a
  BY <1>0 DEF RoundDown, Aligned
<1>3. Aligned(RoundUp(a)) /\ a <= RoundUp(a) /\ RoundUp(a) < a + PgSize /\ RoundUp(a) \in 0 .. Top - 1
  BY <1>0, <1>1, RoundUpSpec
<1>4. ~(a < RoundUp(a))
  BY <1>0, <1>3, AlignedGap
<1> QED
  BY <1>0, <1>1, <1>2, <1>3, <1>4

\* Address arithmetic below Top does not wrap around.
LEMMA NoWrap ==
  /\ \A a, b \in Int : 0 <= a + b /\ a + b < Top => Plus(a, b) = a + b
  /\ \A a, b \in Int : 0 <= a - b /\ a - b < Top => Minus(a, b) = a - b
<1>0. Top \in Nat \ {0}
  BY VmaAssumption
<1>1. \A x \in Int : 0 <= x /\ x < Top => x % Top = x /\ (x + Top) % Top = x
  BY <1>0
<1> QED
  BY <1>1, <1>0 DEF Plus, Minus

\* A range from one page to another is the range its callers compute.
LEMMA PageRange ==
  ASSUME NEW a \in 0 .. Top - 1, NEW b \in 0 .. Top - 1, Aligned(a), Aligned(b), a < b
  PROVE  Start(a) = a /\ Ending(a, b - a) = b /\ Minus(b, a) = b - a
<1>1. Plus(a, b - a) = b /\ Minus(b, a) = b - a
  BY NoWrap, VmaAssumption
<1> QED
  BY <1>1, AlignedRounds DEF Start, Ending

\* A result of a call has its three fields.
Shape(r) ==
  /\ r = [mm |-> r.mm, ok |-> r.ok, crash |-> r.crash]
  /\ r.ok \in BOOLEAN /\ r.crash \in BOOLEAN

LEMMA ResultShape ==
  ASSUME NEW m, NEW ok \in BOOLEAN
  PROVE  /\ Shape(Result(m, ok)) /\ Result(m, ok).mm = m /\ Result(m, ok).ok = ok
         /\ Result(m, ok).crash = FALSE
BY DEF Shape, Result

LEMMA CrashShape ==
  ASSUME NEW m, NEW ok \in BOOLEAN, NEW c \in BOOLEAN
  PROVE  LET r == [Result(m, ok) EXCEPT !.crash = c]
         IN  Shape(r) /\ r.mm = m /\ r.ok = ok /\ r.crash = c
BY DEF Shape, Result

LEMMA UnmapShape ==
  ASSUME NEW m, NEW addr, NEW len, NEW alloc
  PROVE  Shape(MmUnmap(m, addr, len, alloc))
<1> DEFINE r == MmUnmap(m, addr, len, alloc)
           start == RoundDown(addr)
           end == RoundUp(Plus(addr, len))
           v == FindVma(m, start)
           m1 == Find(m, start)
           hit == {x \in Areas(m) : x.e > start /\ x.s < end}
           rest == [i \in 1 .. Len(m.vmas) |->
                    IF m.vmas[i] \in hit THEN Remains(m.vmas[i], start, end)
                    ELSE m.vmas[i]]
           gone == {i \in 1 .. Len(rest) : rest[i] = NoVma}
           m2 == [m1 EXCEPT !.vmas = Without(rest, gone), !.cache = CacheWithout(m1, hit)]
           crash == \E x \in hit : Remains(x, start, end) = NoVma /\ Dangles(x)
           m3 == Split(m1, v, start, end)
<1>1. r = IF ~UserAccess(start, end) THEN Result(m, FALSE)
          ELSE IF v = NoVma \/ end <= v.s THEN Result(m1, TRUE)
          ELSE IF v.s < start /\ end < v.e
          THEN IF alloc THEN Result(m3, TRUE) ELSE Result(m1, FALSE)
          ELSE [Result(m2, TRUE) EXCEPT !.crash = crash]
  BY DEF MmUnmap
<1>2. crash \in BOOLEAN
  OBVIOUS
<1> HIDE DEF r, m1, m2, m3, v, crash
<1>3. Shape([Result(m2, TRUE) EXCEPT !.crash = crash])
  BY <1>2, CrashShape
<1>4. Shape(Result(m, FALSE)) /\ Shape(Result(m1, FALSE)) /\ Shape(Result(m1, TRUE)) /\ Shape(Result(m3, TRUE))
  BY ResultShape
<1> QED
  BY <1>1, <1>3, <1>4 DEF r

\* A page of the heap.
HeapPage == [fl |-> {"w"}, shm |-> NoShmem, pos |-> 0]

\* r has the pages of m and those of [start, end) as pages of the heap.
HeapGrown(m, r, start, end) ==
  \A p \in PageStart :
    PageMap(r)[p] = IF start <= p /\ p < end THEN HeapPage ELSE PageMap(m)[p]

\* The area v, lengthened up to end.
Longer(v, end) == [s |-> v.s, e |-> end, fl |-> v.fl, shm |-> v.shm, off |-> v.off]

LEMMA LongerVma ==
  ASSUME NEW v \in VmaT, NEW end
  PROVE  [v EXCEPT !.e = end] = Longer(v, end)
BY DEF VmaT, Longer

\* mm_brk lengthens the area in front of the range.
LEMMA ExtendInv ==
  ASSUME NEW m, MmInv(m), NEW v \in Areas(m), v.fl = {"w"}, NEW end, Aligned(end),
         UserAccess(v.e, end), Clear(m, v.e, end),
         NEW r, r = [m EXCEPT !.vmas = Replaced(m.vmas, v, Longer(v, end))]
  PROVE  MmInv(r) /\ SameBrk(m, r) /\ HeapGrown(m, r, v.e, end)
<1> DEFINE w == Longer(v, end)
           l == Replaced(m.vmas, v, w)
<1>0. m \in MmT /\ Sorted(m.vmas) /\ OneBase(m) /\ CacheIn(m)
  BY DEF MmInv
<1>1. Area(v) /\ v.shm = NoShmem /\ v.off = 0 /\ v.s \in Int /\ v.e \in Int /\ end \in Int
  BY <1>0, AreasDisjoint DEF Area, VmaT, Aligned
<1>2. w.s = v.s /\ w.e = end /\ w.fl = {"w"} /\ w.shm = NoShmem /\ w.off = 0
  BY <1>1 DEF Longer
<1>3. Area(w)
  <2>1. w \in VmaT
    BY <1>1 DEF Area, VmaT, Longer
  <2>2. UserBase <= v.s /\ v.s < v.e /\ v.e < end /\ end <= UserTop /\ UserBase \in Nat /\ UserTop \in Nat
    BY <1>1, VmaAssumption DEF Area, UserAccess
  <2> QED
    BY <1>1, <1>2, <2>1, <2>2, VmaAssumption DEF Area, UserAccess
<1>4. \A x \in Areas(m) : /\ x.s \in Int /\ x.e \in Int /\ x.s < x.e
                          /\ x # v => x.e <= v.s \/ end <= x.s
  <2> TAKE x \in Areas(m)
  <2>1. Area(x) /\ (x = v \/ x.e <= v.s \/ v.e <= x.s)
    BY <1>0, AreasDisjoint
  <2>2. x.s \in Int /\ x.e \in Int /\ x.s < x.e
    BY <2>1 DEF Area, VmaT, UserAccess
  <2>3. x.e <= v.e \/ end <= x.s
    BY DEF Clear
  <2> QED
    BY <1>1, <2>1, <2>2, <2>3
<1>5. v.e < end /\ v.s < v.e
  BY <1>1 DEF Area, UserAccess
<1> HIDE DEF w
<1>6. Sorted(l) /\ Elements(l) = (Elements(m.vmas) \ {v}) \cup {w}
  <2>1. w.s < v.e /\ v.s < w.e
    BY <1>1, <1>2, <1>5
  <2>2. v \in Elements(m.vmas) /\ \A x \in Elements(m.vmas) : x # v => x.e <= w.s \/ w.e <= x.s
    BY <1>2, <1>4, AreasElements
  <2> QED
    BY <1>0, <1>3, <2>1, <2>2, ReplaceSpec
<1> HIDE DEF l
<1>7. r \in MmT /\ r.vmas = l /\ r.cache = m.cache /\ SameBrk(m, r)
  <2>1. l \in Seq(VmaT) /\ r = [m EXCEPT !.vmas = l]
    BY <1>6 DEF Sorted, l, w
  <2> QED
    BY <1>0, <2>1, MmListField
<1>8. Areas(r) = (Areas(m) \ {v}) \cup {w}
  BY <1>6, <1>7, AreasElements
<1>9. OneBase(r)
  BY <1>0, <1>2, <1>8 DEF OneBase
<1>10. CacheIn(r)
  BY <1>0, <1>2, <1>7, <1>8 DEF CacheIn
<1>11. HeapGrown(m, r, v.e, end)
  <2>1. SUFFICES ASSUME NEW p \in PageStart
                 PROVE  PageMap(r)[p] = IF v.e <= p /\ p < end THEN HeapPage ELSE PageMap(m)[p]
    BY DEF HeapGrown
  <2>2. p \in Int
    BY PageIn
  <2>3. Sorted(r.vmas)
    BY <1>6, <1>7
  <2>4. CASE Holds(w, p)
    <3>1. PageMap(r)[p] = PageOf(w, p)
      BY <1>8, <2>3, <2>4, PageMapAt
    <3>2. PageOf(w, p) = HeapPage
      BY <1>2 DEF PageOf, HeapPage
    <3>3. CASE v.e <= p
      BY <1>1, <1>2, <2>2, <2>4, <3>1, <3>2, <3>3 DEF Holds
    <3>4. CASE p < v.e
      <4>1. Holds(v, p)
        BY <1>1, <1>2, <2>2, <2>4, <3>4 DEF Holds
      <4>2. PageMap(m)[p] = PageOf(v, p)
        BY <1>0, <4>1, PageMapAt
      <4>3. PageOf(v, p) = HeapPage
        BY <1>1 DEF PageOf, HeapPage
      <4> QED
        BY <1>1, <2>2, <3>1, <3>2, <3>4, <4>2, <4>3
    <3> QED
      BY <1>1, <2>2, <3>3, <3>4
  <2>5. CASE ~Holds(w, p)
    <3>1. ~(v.e <= p /\ p < end) /\ ~Holds(v, p)
      BY <1>1, <1>2, <1>5, <2>2, <2>5 DEF Holds
    <3>2. CASE \E x \in Areas(m) : Holds(x, p)
      <4>1. PICK x \in Areas(m) : Holds(x, p)
        BY <3>2
      <4>2. x \in Areas(r)
        BY <1>8, <3>1, <4>1
      <4> QED
        BY <1>0, <2>3, <3>1, <4>1, <4>2, PageMapAt
    <3>3. CASE \A x \in Areas(m) : ~Holds(x, p)
      <4>1. \A x \in Areas(r) : ~Holds(x, p)
        BY <1>8, <2>5, <3>3
      <4> QED
        BY <1>0, <2>3, <3>1, <3>3, <4>1, PageMapAt
    <3> QED
      BY <3>2, <3>3
  <2> QED
    BY <2>4, <2>5
<1> QED
  BY <1>6, <1>7, <1>9, <1>10, <1>11 DEF MmInv

\* A look-up changes no page.
LEMMA SamePages ==
  ASSUME NEW m, NEW r, r.vmas = m.vmas
  PROVE  PageMap(r) = PageMap(m) /\ Areas(r) = Areas(m)
BY DEF PageMap, Areas

\* mm_brk on the range it has computed.
MmBrkAt(m, start, end, size, alloc) ==
  LET u == MmUnmap(m, start, size, alloc)
      v == FindVma(u.mm, start - 1)
      m1 == Find(u.mm, start - 1)
  IN  IF ~UserAccess(start, end) THEN Result(m, FALSE)
      ELSE IF ~u.ok THEN u
      ELSE IF v # NoVma /\ v.e = start /\ v.fl = {"w"}
      THEN Result([m1 EXCEPT !.vmas = [i \in 1 .. Len(@) |->
                      IF @[i] = v THEN [v EXCEPT !.e = end] ELSE @[i]]], TRUE)
      ELSE IF ~alloc THEN Result(m1, FALSE)
      ELSE Result(InsertVma(m1, VmaOf(start, end, {"w"})), TRUE)

\* mm_brk on a clear range gives the pages to the heap, or changes none.
LEMMA MmBrkSpec ==
  ASSUME NEW m, MmInv(m), NEW start \in 0 .. Top - 1, NEW end \in 0 .. Top - 1,
         Aligned(start), Aligned(end), start < end, Clear(m, start, end), NEW alloc \in BOOLEAN
  PROVE  LET r == MmBrk(m, start, end - start, alloc)
         IN  /\ Shape(r) /\ MmInv(r.mm) /\ SameBrk(m, r.mm)
             /\ r.ok => UserAccess(start, end) /\ HeapGrown(m, r.mm, start, end)
             /\ ~r.ok => r.mm.vmas = m.vmas
<1> DEFINE r == MmBrk(m, start, end - start, alloc)
           u == MmUnmap(m, start, end - start, alloc)
           v == FindVma(u.mm, start - 1)
           m1 == Find(u.mm, start - 1)
           m2 == [m1 EXCEPT !.vmas = [i \in 1 .. Len(@) |->
                        IF @[i] = v THEN [v EXCEPT !.e = end] ELSE @[i]]]
           m3 == InsertVma(m1, VmaOf(start, end, {"w"}))
<1>1. r = IF ~UserAccess(start, end) THEN Result(m, FALSE)
          ELSE IF ~u.ok THEN u
          ELSE IF v # NoVma /\ v.e = start /\ v.fl = {"w"} THEN Result(m2, TRUE)
          ELSE IF ~alloc THEN Result(m1, FALSE)
          ELSE Result(m3, TRUE)
  <2>1. r = MmBrkAt(m, RoundDown(start), RoundUp(Plus(start, end - start)),
                    Minus(RoundUp(Plus(start, end - start)), RoundDown(start)), alloc)
    BY DEF MmBrk, MmBrkAt
  <2>2. /\ RoundDown(start) = start /\ RoundUp(Plus(start, end - start)) = end
        /\ Minus(end, start) = end - start
    BY PageRange DEF Start, Ending
  <2>3. r = MmBrkAt(m, start, end, end - start, alloc)
    BY <2>1, <2>2
  <2> QED
    BY <2>3 DEF MmBrkAt
<1>2. u.ok \in BOOLEAN /\ (UserAccess(start, end) => u.ok /\ u.mm = Find(m, start))
  <2>1. Start(start) = start /\ Ending(start, end - start) = end /\ start \in Int /\ end - start \in Int
    BY PageRange
  <2> HIDE DEF u
  <2>2. LET s == Start(start)
            e == Ending(start, end - start)
        IN  u.ok \in BOOLEAN /\ (UserAccess(s, e) /\ Clear(m, s, e) => u.ok /\ u.mm = Find(m, s))
    BY <2>1, MmUnmapSpec DEF u
  <2> QED
    BY <2>1, <2>2
<1>3. MmInv(Find(m, start)) /\ Find(m, start).vmas = m.vmas /\ SameBrk(m, Find(m, start))
  BY FindInv
<1> HIDE DEF r, u
<1>4. CASE ~UserAccess(start, end)
  <2>1. r = Result(m, FALSE)
    BY <1>1, <1>4
  <2> QED
    BY <2>1, ResultShape DEF SameBrk, r
<1>5. CASE UserAccess(start, end)
  <2>0. u.ok /\ u.mm = Find(m, start) /\ start \in Int /\ start - 1 \in Int /\ end \in Int
    BY <1>2, <1>5
  <2>1. MmInv(m1) /\ m1.vmas = m.vmas /\ SameBrk(m, m1)
    <3>1. MmInv(u.mm) /\ start - 1 \in Int /\ u.mm.vmas = m.vmas /\ SameBrk(m, u.mm)
      BY <1>3, <2>0
    <3>2. MmInv(m1) /\ m1.vmas = u.mm.vmas /\ SameBrk(u.mm, m1)
      BY <3>1, FindInv
    <3> QED
      BY <3>1, <3>2 DEF SameBrk
  <2>2. Areas(m1) = Areas(m) /\ PageMap(m1) = PageMap(m) /\ Clear(m1, start, end)
    BY <2>1, SamePages DEF Clear
  <2>3. v # NoVma => v \in Areas(m1) /\ Area(v)
    <3>1. Sorted(u.mm.vmas) /\ Areas(u.mm) = Areas(m1)
      BY <1>3, <2>0, <2>1, SamePages DEF MmInv
    <3>2. v # NoVma => v \in Areas(u.mm)
      BY <2>0, <3>1, FindVmaArea
    <3> QED
      BY <3>1, <3>2, AreasDisjoint
  <2> HIDE DEF v, m1, m3
  <2>4. CASE v # NoVma /\ v.e = start /\ v.fl = {"w"}
    <3>1. r = Result(m2, TRUE)
      BY <1>1, <1>5, <2>0, <2>4
    <3>2. v \in VmaT /\ [v EXCEPT !.e = end] = Longer(v, end)
      BY <2>3, <2>4, LongerVma DEF Area
    <3>3. m2 = [m1 EXCEPT !.vmas = Replaced(m1.vmas, v, Longer(v, end))]
      BY <3>2 DEF Replaced
    <3> HIDE DEF m2
    <3>4. MmInv(m2) /\ SameBrk(m1, m2) /\ HeapGrown(m1, m2, v.e, end)
      BY <1>5, <2>1, <2>2, <2>3, <2>4, <3>3, ExtendInv
    <3>5. SameBrk(m, m2) /\ HeapGrown(m, m2, start, end)
      BY <2>1, <2>2, <2>4, <3>4 DEF SameBrk, HeapGrown
    <3>6. Shape(r) /\ r.mm = m2 /\ r.ok = TRUE
      BY <3>1, ResultShape
    <3> QED
      BY <1>5, <3>4, <3>5, <3>6 DEF r
  <2> HIDE DEF m2
  <2>5. CASE ~(v # NoVma /\ v.e = start /\ v.fl = {"w"}) /\ ~alloc
    <3>1. r = Result(m1, FALSE)
      BY <1>1, <1>5, <2>0, <2>5
    <3>2. Shape(r) /\ r.mm = m1 /\ r.ok = FALSE
      BY <3>1, ResultShape
    <3> QED
      BY <2>1, <3>2 DEF r
  <2>6. CASE ~(v # NoVma /\ v.e = start /\ v.fl = {"w"}) /\ alloc
    <3> DEFINE w == NewVma(start, end, {"w"}, NoShmem)
    <3>0. {"w"} \in SUBSET Flag /\ NoShmem \in 0 .. NShm /\ NoShmem = NoShmem
      BY VmaAssumption DEF Flag, NoShmem
    <3>1. r = Result(m3, TRUE) /\ m3 = InsertVma(m1, w)
      BY <1>1, <1>5, <2>0, <2>6, VmaOfNew DEF m3
    <3>2. MmInv(m3) /\ SameBrk(m1, m3) /\ Areas(m3) = Areas(m1) \cup {w}
      BY <1>5, <2>1, <2>2, <3>0, <3>1, InsertInv
    <3>3. Area(w) /\ w = [s |-> start, e |-> end, fl |-> {"w"}, shm |-> NoShmem, off |-> 0]
      BY <1>5, <3>0, NewVmaArea
    <3> HIDE DEF w
    <3>4. w.s = start /\ w.e = end
      BY <3>3
    <3>5. \A p \in PageStart : PageMap(m3)[p] = IF Holds(w, p) THEN PageOf(w, p) ELSE PageMap(m1)[p]
      <4>1. Sorted(m1.vmas) /\ Sorted(m3.vmas) /\ Clear(m1, w.s, w.e)
        BY <2>1, <2>2, <3>2, <3>4 DEF MmInv
      <4>2. Area(w) /\ Areas(m3) = Areas(m1) \cup {w}
        BY <3>2, <3>3
      <4> HIDE DEF m1
      <4>3. \A p \in PageStart :
              /\ PageMap(m3)[p] = IF Holds(w, p) THEN PageOf(w, p) ELSE PageMap(m1)[p]
              /\ Holds(w, p) => PageMap(m1)[p] = Unmapped
        BY <4>1, <4>2, PagesAdded
      <4> QED
        BY <4>3
    <3>6. \A p \in PageStart : PageOf(w, p) = HeapPage /\ (Holds(w, p) <=> start <= p /\ p < end)
      BY <3>3, <3>4 DEF PageOf, HeapPage, Holds
    <3>7. HeapGrown(m, m3, start, end) /\ SameBrk(m, m3)
      BY <2>1, <2>2, <3>2, <3>5, <3>6 DEF HeapGrown, SameBrk
    <3>8. Shape(r) /\ r.mm = m3 /\ r.ok = TRUE
      BY <3>1, ResultShape
    <3> QED
      BY <1>5, <3>2, <3>7, <3>8 DEF r
  <2> QED
    BY <2>4, <2>5, <2>6
<1> QED
  BY <1>4, <1>5

\* The break is a page behind the start of the heap.
BrkInv(m) ==
  /\ m.brkStart \in 0 .. Top - 1 /\ m.brk \in 0 .. Top - 1
  /\ m.brkStart <= m.brk /\ Aligned(m.brk)

\* A result with another break.
WithBrk(x, new) == [x EXCEPT !.mm.brk = new]

LEMMA BrkSet ==
  ASSUME NEW x, Shape(x), MmInv(x.mm), NEW new \in Int
  PROVE  LET r == WithBrk(x, new)
         IN  /\ Shape(r) /\ MmInv(r.mm) /\ r.mm.vmas = x.mm.vmas
             /\ r.mm.brk = new /\ r.mm.brkStart = x.mm.brkStart /\ r.ok = x.ok
<1> DEFINE n == x.mm
           k == [n EXCEPT !.brk = new]
           r == WithBrk(x, new)
<1>1. n \in MmT
  BY DEF MmInv
<1> HIDE DEF n
<1>2. k \in MmT /\ k.vmas = n.vmas /\ k.cache = n.cache /\ k.brk = new /\ k.brkStart = n.brkStart
  BY <1>1 DEF MmT
<1>3. r = [x EXCEPT !.mm = k]
  BY DEF WithBrk, n
<1> HIDE DEF k, r
<1>4. r = [mm |-> k, ok |-> x.ok, crash |-> x.crash]
  BY <1>3 DEF Shape
<1>5. Shape(r) /\ r.mm = k /\ r.ok = x.ok
  BY <1>4 DEF Shape
<1>6. MmInv(k)
  <2>1. Areas(k) = Areas(n) /\ MmInv(n)
    BY <1>2, SamePages DEF n
  <2> QED
    BY <1>2, <2>1 DEF MmInv, OneBase, CacheIn
<1> QED
  BY <1>2, <1>5, <1>6 DEF r, n

\* sys_brk: the break does not move and no page changes; or it moves down and the range it
\* gives up is unmapped; or it moves up over pages that were free, one more being free.
Kept(m, r) == r.brk = m.brk /\ r.vmas = m.vmas
Shrunk(m, r) ==
  /\ r.brk < m.brk /\ m.brkStart <= r.brk /\ Areas(r) = AreasAfter(m, r.brk, m.brk)
Grown(m, r, brk) ==
  /\ m.brk < r.brk /\ r.brk = RoundUp(brk) /\ Clear(m, m.brk, r.brk + PgSize)
  /\ HeapGrown(m, r, m.brk, r.brk)

\* sys_brk does one of the three, and the break stays a page behind the start of the heap.
LEMMA DoBrkSpec ==
  ASSUME NEW m, MmInv(m), BrkInv(m), NEW brk \in 0 .. Top - 1, NEW alloc \in BOOLEAN
  PROVE  LET r == DoBrk(m, brk, alloc)
         IN  /\ Shape(r) /\ MmInv(r.mm) /\ BrkInv(r.mm) /\ r.mm.brkStart = m.brkStart
             /\ Kept(m, r.mm) \/ Shrunk(m, r.mm) \/ Grown(m, r.mm, brk)
<1> DEFINE r == DoBrk(m, brk, alloc)
           new == RoundUp(brk)
           old == m.brk
           x1 == MmUnmap(m, new, old - new, alloc)
           x2 == Result(Find(m, old), FALSE)
           x3 == MmBrk(Find(m, old), old, new - old, alloc)
           x == IF new < old THEN x1
                ELSE IF FindVmaIntersection(m, old, Plus(new, PgSize)) THEN x2 ELSE x3
<1>1. r = IF brk < m.brkStart \/ new = old THEN Result(m, TRUE)
          ELSE IF x.ok THEN WithBrk(x, new) ELSE x
  BY DEF DoBrk, WithBrk
<1>2. /\ PgSize \in Nat \ {0} /\ Top \in Nat /\ UserBase \in Nat /\ UserTop \in Nat /\ UserBase > 0
      /\ UserTop + PgSize < Top
  BY VmaAssumption
<1>3. /\ new \in 0 .. Top - 1 /\ Aligned(new) /\ new <= Top - PgSize
      /\ brk <= new \/ new = 0
  BY <1>2, RoundUpSpec, AlignedRounds
<1>4. /\ old \in 0 .. Top - 1 /\ Aligned(old) /\ m.brkStart \in 0 .. Top - 1 /\ m.brkStart <= old
  BY DEF BrkInv
<1>5. MmInv(Find(m, old)) /\ Find(m, old).vmas = m.vmas /\ SameBrk(m, Find(m, old))
      /\ Areas(Find(m, old)) = Areas(m)
  <2>1. old \in Int
    BY <1>4
  <2> HIDE DEF old
  <2> QED
    BY <2>1, FindInv
<1> HIDE DEF r, new
<1>6. CASE brk < m.brkStart \/ new = old
  <2>1. r = Result(m, TRUE)
    BY <1>1, <1>6
  <2>2. Shape(r) /\ r.mm = m
    BY <2>1, ResultShape
  <2> QED
    BY <2>2 DEF Kept, r
<1>7. ASSUME Shape(x), MmInv(x.mm), SameBrk(m, x.mm), ~x.ok, x.mm.vmas = m.vmas,
             ~(brk < m.brkStart \/ new = old)
      PROVE  /\ Shape(r) /\ MmInv(r.mm) /\ BrkInv(r.mm) /\ r.mm.brkStart = m.brkStart
             /\ Kept(m, r.mm)
  <2>1. r = x
    BY <1>1, <1>7
  <2> QED
    BY <1>7, <2>1 DEF SameBrk, BrkInv, Kept
<1>8. ASSUME Shape(x), MmInv(x.mm), SameBrk(m, x.mm), x.ok, m.brkStart <= new,
             ~(brk < m.brkStart \/ new = old)
      PROVE  /\ Shape(r) /\ MmInv(r.mm) /\ BrkInv(r.mm) /\ r.mm.brkStart = m.brkStart
             /\ r.mm.brk = new /\ r.mm.vmas = x.mm.vmas
  <2>1. r = WithBrk(x, new)
    BY <1>1, <1>8
  <2>2. /\ Shape(r) /\ MmInv(r.mm) /\ r.mm.vmas = x.mm.vmas
        /\ r.mm.brk = new /\ r.mm.brkStart = x.mm.brkStart
    <3> HIDE DEF x
    <3> QED
      BY <1>3, <1>8, <2>1, BrkSet
  <2> QED
    BY <1>3, <1>4, <1>8, <2>2 DEF SameBrk, BrkInv
<1>9. CASE ~(brk < m.brkStart \/ new = old) /\ new < old
  <2>1. x = x1
    BY <1>9
  <2>2. Start(new) = new /\ Ending(new, old - new) = old /\ new \in Int /\ old - new \in Int
    BY <1>3, <1>4, <1>9, PageRange
  <2>3. Shape(x1)
    BY UnmapShape
  <2>4. /\ MmInv(x1.mm) /\ SameBrk(m, x1.mm)
        /\ x1.ok => UserAccess(Start(new), Ending(new, old - new))
                     /\ Areas(x1.mm) = AreasAfter(m, Start(new), Ending(new, old - new))
        /\ ~x1.ok => x1.mm.vmas = m.vmas
    BY <2>2, MmUnmapSpec
  <2> HIDE DEF x, x1
  <2>5. CASE x1.ok
    <3>1. UserAccess(new, old) /\ Areas(x1.mm) = AreasAfter(m, new, old)
      BY <2>2, <2>4, <2>5
    <3>2. m.brkStart <= new
      BY <1>2, <1>3, <1>4, <1>9, <3>1 DEF UserAccess
    <3>3. /\ Shape(r) /\ MmInv(r.mm) /\ BrkInv(r.mm) /\ r.mm.brkStart = m.brkStart
          /\ r.mm.brk = new /\ r.mm.vmas = x1.mm.vmas
      BY <1>8, <1>9, <2>1, <2>3, <2>4, <2>5, <3>2
    <3>4. Shrunk(m, r.mm)
      BY <1>9, <3>1, <3>2, <3>3, SamePages DEF Shrunk
    <3> QED
      BY <3>3, <3>4 DEF r
  <2>6. CASE ~x1.ok
    BY <1>7, <1>9, <2>1, <2>3, <2>4, <2>6 DEF r
  <2> QED
    BY <2>5, <2>6
<1>10. CASE ~(brk < m.brkStart \/ new = old) /\ ~(new < old)
  <2>0. old < new /\ m.brkStart <= new
    BY <1>3, <1>4, <1>10
  <2>1. CASE FindVmaIntersection(m, old, Plus(new, PgSize))
    <3>1. x = x2
      BY <1>10, <2>1
    <3>2. Shape(x2) /\ x2.mm = Find(m, old) /\ x2.ok = FALSE
      BY ResultShape
    <3> HIDE DEF x, x2
    <3> QED
      BY <1>5, <1>7, <1>10, <3>1, <3>2 DEF r
  <2>2. CASE ~FindVmaIntersection(m, old, Plus(new, PgSize))
    <3>1. x = x3
      BY <1>10, <2>2
    <3> DEFINE q == Find(m, old)
    <3>2. Sorted(m.vmas)
      BY DEF MmInv
    <3>3. new < Top - PgSize => Clear(m, old, new + PgSize)
      <4>1. SUFFICES ASSUME new < Top - PgSize PROVE Clear(m, old, new + PgSize)
        OBVIOUS
      <4>2. Plus(new, PgSize) = new + PgSize /\ new + PgSize \in Int /\ old \in Int
        BY <1>2, <1>3, <1>4, <4>1, NoWrap
      <4>3. ~(FindVma(m, old) # NoVma /\ new + PgSize > FindVma(m, old).s)
        BY <2>2, <4>2 DEF FindVmaIntersection
      <4> QED
        BY <3>2, <4>2, <4>3, ClearIff
    <3>4. CASE new < Top - PgSize
      <4>1. \A w \in Areas(m) : w.s \in Int /\ w.e \in Int
        BY <3>2, AreasDisjoint DEF Area, VmaT
      <4>2. Clear(q, old, new)
        BY <1>2, <1>3, <1>4, <1>5, <3>3, <3>4, <4>1 DEF Clear
      <4>3. /\ Shape(x3) /\ MmInv(x3.mm) /\ SameBrk(q, x3.mm)
            /\ x3.ok => UserAccess(old, new) /\ HeapGrown(q, x3.mm, old, new)
            /\ ~x3.ok => x3.mm.vmas = q.vmas
        <5> HIDE DEF q
        <5>1. MmInv(q)
          BY <1>5 DEF q
        <5>2. x3 = MmBrk(q, old, new - old, alloc)
          BY DEF q
        <5> HIDE DEF x3
        <5> QED
          BY <1>3, <1>4, <2>0, <4>2, <5>1, <5>2, MmBrkSpec
      <4>4. SameBrk(m, x3.mm)
        BY <1>5, <4>3 DEF SameBrk
      <4> HIDE DEF x, x3
      <4>5. CASE ~x3.ok
        BY <1>5, <1>7, <1>10, <3>1, <4>3, <4>4, <4>5 DEF r, q
      <4>6. CASE x3.ok
        <5>1. /\ Shape(r) /\ MmInv(r.mm) /\ BrkInv(r.mm) /\ r.mm.brkStart = m.brkStart
              /\ r.mm.brk = new /\ r.mm.vmas = x3.mm.vmas
          BY <1>8, <1>10, <2>0, <3>1, <4>3, <4>4, <4>6
        <5>2. PageMap(r.mm) = PageMap(x3.mm) /\ PageMap(q) = PageMap(m)
          BY <1>5, <5>1, SamePages
        <5>3. HeapGrown(m, r.mm, old, new)
          BY <4>3, <4>6, <5>2 DEF HeapGrown
        <5>4. Grown(m, r.mm, brk)
          BY <2>0, <3>3, <3>4, <5>1, <5>3 DEF Grown, new
        <5> QED
          BY <5>1, <5>4 DEF r
      <4> QED
        BY <4>5, <4>6
    <3>5. CASE ~(new < Top - PgSize)
      <4>1. ~UserAccess(old, new)
        BY <1>2, <1>3, <3>5 DEF UserAccess
      <4>2. RoundDown(old) = old /\ RoundUp(Plus(old, new - old)) = new
        BY <1>3, <1>4, <2>0, PageRange DEF Start, Ending
      <4>3. x3 = Result(q, FALSE)
        BY <4>1, <4>2 DEF MmBrk
      <4>4. Shape(x3) /\ x3.mm = q /\ x3.ok = FALSE
        BY <4>3, ResultShape
      <4> HIDE DEF x, x3
      <4> QED
        BY <1>5, <1>7, <1>10, <3>1, <4>4 DEF r, q
    <3> QED
      BY <3>4, <3>5
  <2> QED
    BY <2>1, <2>2
<1> QED
  BY <1>6, <1>9, <1>10

\* The child of a fork has the list of its parent.
LEMMA DupInv ==
  ASSUME NEW m, MmInv(m)
  PROVE  LET r == DupMmap(m)
         IN  MmInv(r) /\ SameBrk(m, r) /\ r.vmas = m.vmas
<1> DEFINE l == [i \in 1 .. Len(m.vmas) |-> DupVma(m.vmas[i])]
           r == DupMmap(m)
<1>0. m \in MmT /\ Sorted(m.vmas) /\ m.vmas \in Seq(VmaT)
  BY DEF MmInv, MmT
<1>1. ASSUME NEW v, Area(v) PROVE DupVma(v) = v
  <2>1. v \in VmaT /\ ("share" \notin v.fl => v.shm = NoShmem /\ v.off = 0)
    BY <1>1 DEF Area
  <2>2. VmaOf(v.s, v.e, v.fl) = [s |-> v.s, e |-> v.e, fl |-> v.fl, shm |-> NoShmem, off |-> 0]
    BY DEF VmaOf
  <2>3. CASE "share" \in v.fl
    <3>1. DupVma(v) = [s |-> v.s, e |-> v.e, fl |-> v.fl, shm |-> v.shm, off |-> v.off]
      BY <2>2, <2>3 DEF DupVma
    <3> QED
      BY <2>1, <3>1 DEF VmaT
  <2>4. CASE "share" \notin v.fl
    <3>1. DupVma(v) = [s |-> v.s, e |-> v.e, fl |-> v.fl, shm |-> v.shm, off |-> v.off]
      BY <2>1, <2>2, <2>4 DEF DupVma
    <3> QED
      BY <2>1, <3>1 DEF VmaT
  <2> QED
    BY <2>3, <2>4
<1>2. l = m.vmas
  <2>1. Len(m.vmas) \in Nat /\ m.vmas = [i \in 1 .. Len(m.vmas) |-> m.vmas[i]]
    BY <1>0
  <2>2. \A i \in 1 .. Len(m.vmas) : DupVma(m.vmas[i]) = m.vmas[i]
    BY <1>0, <1>1 DEF Sorted
  <2> QED
    BY <2>1, <2>2
<1>3. r = [m EXCEPT !.vmas = l, !.cache = NoCache]
  BY DEF DupMmap
<1> HIDE DEF l, r
<1>4. r \in MmT /\ r.vmas = m.vmas /\ r.cache = NoCache /\ SameBrk(m, r)
  <2>1. l \in Seq(VmaT) /\ NoCache \in Int
    BY <1>0, <1>2 DEF NoCache
  <2>2. r \in MmT /\ r.vmas = l /\ r.cache = NoCache /\ SameBrk(m, r)
    BY <1>0, <1>3, <2>1 DEF MmT, SameBrk
  <2> QED
    BY <1>2, <2>2
<1>5. Areas(r) = Areas(m)
  BY <1>4, SamePages
<1> QED
  BY <1>4, <1>5 DEF MmInv, OneBase, CacheIn, r

\* The image load_icode leaves.
LEMMA InitMmInv == MmInv(InitMm) /\ BrkInv(InitMm)
<1> DEFINE a == VmaOf(UserBase, UserBase + PgSize, {"w"})
           b == VmaOf(UserTop - PgSize, UserTop, {"w", "stack"})
           l == <<a, b>>
           r == InitMm
<1>0. /\ PgSize \in Nat \ {0} /\ Top \in Nat /\ UserBase \in Nat /\ UserTop \in Nat /\ UserBase > 0
      /\ UserTop + PgSize < Top /\ UserBase + 2 * PgSize <= UserTop /\ NShm \in Nat
  BY VmaAssumption
<1>1. Aligned(UserBase) /\ Aligned(UserTop) /\ Aligned(UserBase + PgSize) /\ Aligned(UserTop - PgSize)
  BY AlignedConstants, AlignedSum
<1>2. /\ a.s = UserBase /\ a.e = UserBase + PgSize /\ a.shm = NoShmem
      /\ b.s = UserTop - PgSize /\ b.e = UserTop /\ b.shm = NoShmem
      /\ a.fl = {"w"} /\ b.fl = {"w", "stack"} /\ a.off = 0 /\ b.off = 0
      /\ a \in VmaT /\ b \in VmaT
  BY <1>0 DEF VmaOf, VmaT, NoShmem, Flag
<1> HIDE DEF a, b
<1>3. Area(a) /\ Area(b)
  BY <1>0, <1>1, <1>2 DEF Area, UserAccess, NoShmem
<1>4. Sorted(l)
  <2>1. l \in Seq(VmaT) /\ Len(l) = 2 /\ l[1] = a /\ l[2] = b
    BY <1>2
  <2> HIDE DEF l
  <2>2. \A i \in 1 .. Len(l) : i = 1 \/ i = 2
    BY <2>1
  <2>3. \A i \in 1 .. Len(l) : Area(l[i])
    BY <1>3, <2>1, <2>2
  <2>4. a.e <= b.s
    BY <1>0, <1>2
  <2>5. \A i, j \in 1 .. Len(l) : i < j => i = 1 /\ j = 2
    BY <2>1
  <2> QED
    BY <2>1, <2>3, <2>4, <2>5 DEF Sorted
<1>5. /\ r.vmas = l /\ r.cache = NoCache /\ r.brkStart = UserBase + PgSize
      /\ r.brk = UserBase + PgSize /\ r \in MmT
  <2>1. l \in Seq(VmaT)
    BY <1>2
  <2> QED
    BY <1>0, <2>1 DEF InitMm, MmT, NoCache, a, b
<1>6. \A v \in Areas(r) : v.shm = NoShmem
  <2>1. \A v \in Areas(r) : v = a \/ v = b
    BY <1>5 DEF Areas
  <2> QED
    BY <1>2, <2>1
<1> QED
  BY <1>0, <1>1, <1>4, <1>5, <1>6 DEF MmInv, BrkInv, OneBase, CacheIn

\* A range from page to page is clear when all its pages are unmapped.
LEMMA PagesClear ==
  ASSUME NEW m, Sorted(m.vmas), NEW start, NEW end, Aligned(start), Aligned(end),
         UserBase <= start, start < end, end <= UserTop
  PROVE  Clear(m, start, end) <=> \A q \in PagesIn(start, end) : PageMap(m)[q] = Unmapped
<1>0. start \in Int /\ end \in Int /\ UserBase \in Nat /\ UserTop \in Nat
  BY VmaAssumption DEF Aligned
<1>1. \A v \in Areas(m) : v.s \in Int /\ v.e \in Int /\ v.s < v.e /\ Aligned(v.s)
                          /\ UserBase <= v.s /\ v.e <= UserTop
  BY AreasDisjoint DEF Area, VmaT, UserAccess
<1>2. ASSUME Clear(m, start, end), NEW q \in PagesIn(start, end)
      PROVE  PageMap(m)[q] = Unmapped
  <2>1. q \in PageStart /\ q \in Int /\ start <= q /\ q < end
    BY PageIn DEF PagesIn
  <2>2. \A v \in Areas(m) : ~Holds(v, q)
    BY <1>0, <1>1, <1>2, <2>1 DEF Clear, Holds
  <2> QED
    BY <2>1, <2>2, UnmappedIff
<1>3. ASSUME \A q \in PagesIn(start, end) : PageMap(m)[q] = Unmapped,
             NEW v \in Areas(m), ~(v.e <= start \/ end <= v.s)
      PROVE  FALSE
  <2> DEFINE q == IF v.s < start THEN start ELSE v.s
  <2>1. q \in Int /\ Aligned(q) /\ start <= q /\ q < end /\ v.s <= q /\ q < v.e
    <3>1. v.s \in Int /\ v.e \in Int /\ v.s < v.e /\ Aligned(v.s) /\ start < v.e /\ v.s < end
      BY <1>0, <1>1, <1>3
    <3>2. start < end
      BY <1>0, <1>1, <1>3
    <3> QED
      BY <1>0, <3>1, <3>2
  <2> HIDE DEF q
  <2>2. q \in PageStart
    BY <1>0, <2>1 DEF PageStart, Aligned
  <2>3. q \in PagesIn(start, end) /\ Holds(v, q)
    BY <2>1, <2>2 DEF PagesIn, Holds
  <2>4. PageMap(m)[q] = Unmapped
    BY <1>3, <2>3
  <2> QED
    BY <2>2, <2>3, <2>4, UnmappedIff
<1> QED
  BY <1>2, <1>3 DEF Clear

\* One step of the search of get_unmapped_area, from the last area to the first.
GapNext(v, len, x) ==
  IF x >= v.e THEN x
  ELSE IF x + len <= v.s THEN x
  ELSE IF len >= v.s THEN 0
  ELSE v.s - len

GapsBy(g, l, len) ==
  /\ g \in [1 .. Len(l) + 1 -> Int]
  /\ g[Len(l) + 1] = UserTop - len
  /\ \A i \in 1 .. Len(l) : g[i] = GapNext(l[i], len, g[i + 1])

\* GetUnmappedArea takes its answer from such a function.
LEMMA GapFunction ==
  ASSUME NEW m, Sorted(m.vmas), NEW len \in Int
  PROVE  \E g : /\ GapsBy(g, m.vmas, len)
                /\ GetUnmappedArea(m, len) =
                     IF len = 0 \/ len > UserTop \/ g[1] < UserBase THEN 0 ELSE g[1]
<1> DEFINE l == m.vmas
           n == Len(l)
           F == [k \in 1 .. n |-> [x \in Int |-> GapNext(l[n + 1 - k], len, x)]]
           E(h) == h = [i \in 1 .. n + 1 |->
                          IF i = n + 1 THEN UserTop - len
                          ELSE IF h[i + 1] >= m.vmas[i].e THEN h[i + 1]
                          ELSE IF h[i + 1] + len <= m.vmas[i].s THEN h[i + 1]
                          ELSE IF len >= m.vmas[i].s THEN 0
                          ELSE m.vmas[i].s - len]
           w == CHOOSE h : E(h)
<1>0. n \in Nat /\ UserTop \in Nat /\ UserTop - len \in Int
  BY SortedFacts, VmaAssumption
<1>1. \A i \in 1 .. n : l[i].s \in Int /\ l[i].e \in Int
  BY SortedFacts
<1>2. \A i \in 1 .. n, x \in Int : GapNext(l[i], len, x) \in Int
  BY <1>1 DEF GapNext
<1>3. F \in [1 .. n -> [Int -> Int]]
  <2>1. \A k \in 1 .. n : n + 1 - k \in 1 .. n
    BY <1>0
  <2> QED
    BY <1>2, <2>1
<1>4. PICK f : LoopsBy(f, n, Int, UserTop - len, F)
  <2> HIDE DEF n, F
  <2> QED
    BY <1>0, <1>3, LoopFunctionExists
<1>5. /\ f \in [0 .. n -> Int] /\ f[0] = UserTop - len
      /\ \A k \in 1 .. n : f[k] = GapNext(l[n + 1 - k], len, f[k - 1])
  <2>1. /\ f \in [0 .. n -> Int] /\ f[0] = UserTop - len
        /\ \A k \in 1 .. n : f[k] = F[k][f[k - 1]]
    BY <1>4 DEF LoopsBy
  <2>2. \A k \in 1 .. n : F[k] = [x \in Int |-> GapNext(l[n + 1 - k], len, x)]
    OBVIOUS
  <2>3. \A k \in 1 .. n : f[k - 1] \in Int
    BY <1>0, <2>1
  <2> HIDE DEF F
  <2> QED
    BY <2>1, <2>2, <2>3
<1> DEFINE g == [i \in 1 .. n + 1 |-> f[n + 1 - i]]
<1>6. /\ g \in [1 .. n + 1 -> Int] /\ g[n + 1] = UserTop - len
      /\ \A i \in 1 .. n : g[i] = GapNext(l[i], len, g[i + 1])
  <2>1. \A i \in 1 .. n + 1 : n + 1 - i \in 0 .. n
    BY <1>0
  <2>2. g \in [1 .. n + 1 -> Int]
    BY <1>5, <2>1
  <2>3. g[n + 1] = UserTop - len
    BY <1>0, <1>5
  <2>4. ASSUME NEW i \in 1 .. n PROVE g[i] = GapNext(l[i], len, g[i + 1])
    <3>1. n + 1 - i \in 1 .. n /\ n + 1 - (n + 1 - i) = i /\ n + 1 - (i + 1) = (n + 1 - i) - 1
          /\ i \in 1 .. n + 1 /\ i + 1 \in 1 .. n + 1
      <4>1. i \in Int /\ 1 <= i /\ i <= n /\ n \in Int
        BY <1>0
      <4> HIDE DEF n
      <4> QED
        BY <4>1
    <3>2. g[i] = f[n + 1 - i] /\ g[i + 1] = f[(n + 1 - i) - 1]
      BY <3>1
    <3> HIDE DEF g
    <3> QED
      BY <1>5, <3>1, <3>2
  <2> QED
    BY <2>2, <2>3, <2>4
<1>7. E(g)
  <2>1. g = [i \in 1 .. n + 1 |-> g[i]]
    OBVIOUS
  <2> HIDE DEF g
  <2>2. \A i \in 1 .. n + 1 : g[i] = IF i = n + 1 THEN UserTop - len
                          ELSE IF g[i + 1] >= m.vmas[i].e THEN g[i + 1]
                          ELSE IF g[i + 1] + len <= m.vmas[i].s THEN g[i + 1]
                          ELSE IF len >= m.vmas[i].s THEN 0
                          ELSE m.vmas[i].s - len
    <3> TAKE i \in 1 .. n + 1
    <3>1. i = n + 1 \/ i \in 1 .. n
      BY <1>0
    <3> QED
      BY <1>6, <3>1 DEF GapNext
  <2> QED
    BY <2>1, <2>2
<1> HIDE DEF g
<1>8. E(w)
  BY <1>7, Zenon
<1>9. GetUnmappedArea(m, len) = IF len = 0 \/ len > UserTop \/ w[1] < UserBase THEN 0 ELSE w[1]
  BY Zenon DEF GetUnmappedArea
<1> HIDE DEF w
<1>10. w = g
  <2> DEFINE S == {k \in 0 .. n : w[n + 1 - k] = g[n + 1 - k]}
  <2>1. /\ w[n + 1] = UserTop - len
        /\ \A i \in 1 .. n : w[i] = GapNext(l[i], len, w[i + 1])
    <3>1. \A i \in 1 .. n : i \in 1 .. n + 1 /\ i # n + 1
      BY <1>0
    <3>2. n + 1 \in 1 .. n + 1
      BY <1>0
    <3> QED
      BY <1>8, <3>1, <3>2 DEF GapNext
  <2>2. 0 \in S
    BY <1>0, <1>6, <2>1
  <2>3. ASSUME NEW k \in 1 .. n, k - 1 \in S PROVE k \in S
    <3>1. n + 1 - k \in 1 .. n /\ (n + 1 - k) + 1 = n + 1 - (k - 1) /\ k \in 0 .. n
      BY <1>0
    <3>2. w[n + 1 - k] = GapNext(l[n + 1 - k], len, w[n + 1 - (k - 1)])
      BY <2>1, <3>1
    <3>3. g[n + 1 - k] = GapNext(l[n + 1 - k], len, g[n + 1 - (k - 1)])
      BY <1>6, <3>1
    <3> QED
      BY <2>3, <3>1, <3>2, <3>3
  <2>4. \A k \in 0 .. n : k \in S
    <3> HIDE DEF S, n
    <3> QED
      BY <1>0, <2>2, <2>3, UpToInduction
  <2>5. ASSUME NEW i \in 1 .. n + 1 PROVE w[i] = g[i]
    <3>1. n + 1 - i \in 0 .. n /\ n + 1 - (n + 1 - i) = i
      BY <1>0
    <3>2. n + 1 - i \in S
      BY <2>4, <3>1
    <3> QED
      BY <3>1, <3>2
  <2>6. w = [i \in 1 .. n + 1 |-> w[i]]
    BY <1>8
  <2>7. g = [i \in 1 .. n + 1 |-> g[i]]
    BY <1>6
  <2> QED
    BY <2>5, <2>6, <2>7
<1>11. GapsBy(g, m.vmas, len)
  BY <1>6 DEF GapsBy
<1> QED
  BY <1>9, <1>10, <1>11

\* What the search has found when the areas from i on are behind it: x is in no one's way,
\* and every place that is in no one's way lies below it.
GapAt(l, len, i, x) ==
  /\ x \in Int /\ 0 <= x /\ Aligned(x) /\ x + len <= UserTop
  /\ x >= UserBase => \A j \in i .. Len(l) : l[j].e <= x \/ x + len <= l[j].s
  /\ \A p \in PageStart :
       p + len <= UserTop /\ (\A j \in i .. Len(l) : l[j].e <= p \/ p + len <= l[j].s) => p <= x

\* One area more keeps that.
LEMMA GapStep ==
  ASSUME NEW l, Sorted(l), NEW len \in Int, Aligned(len), 0 < len, NEW i \in 1 .. Len(l),
         NEW x, GapAt(l, len, i + 1, x)
  PROVE  GapAt(l, len, i, GapNext(l[i], len, x))
<1> DEFINE v == l[i]
           y == GapNext(v, len, x)
<1>0. /\ Len(l) \in Nat /\ i \in Int /\ UserBase \in Nat /\ UserTop \in Nat /\ UserBase > 0
      /\ \A j \in i .. Len(l) : j = i \/ j \in i + 1 .. Len(l)
  BY SortedFacts, VmaAssumption
<1>1. Area(v) /\ v.s \in Int /\ v.e \in Int /\ v.s < v.e /\ UserBase <= v.s /\ v.e <= UserTop /\ Aligned(v.s)
  BY SortedFacts DEF Area, UserAccess
<1>2. \A j \in i + 1 .. Len(l) : l[j].s \in Int /\ l[j].e \in Int /\ v.e <= l[j].s
  <2>1. \A j \in i + 1 .. Len(l) : j \in 1 .. Len(l) /\ i < j
    BY <1>0
  <2> QED
    BY <2>1, SortedFacts DEF Sorted
<1>3. /\ x \in Int /\ 0 <= x /\ Aligned(x) /\ x + len <= UserTop
      /\ x >= UserBase => \A j \in i + 1 .. Len(l) : l[j].e <= x \/ x + len <= l[j].s
      /\ \A p \in PageStart :
          p + len <= UserTop /\ (\A j \in i + 1 .. Len(l) : l[j].e <= p \/ p + len <= l[j].s) => p <= x
  BY DEF GapAt
<1>4. /\ x >= v.e => y = x
      /\ x + len <= v.s => y = x
      /\ x < v.e /\ v.s < x + len /\ len >= v.s => y = 0
      /\ x < v.e /\ v.s < x + len /\ len < v.s => y = v.s - len
  BY <1>1, <1>3 DEF GapNext
<1> HIDE DEF y
<1>5. y \in Int /\ 0 <= y /\ Aligned(y) /\ y + len <= UserTop /\ y <= x
  <2>1. CASE y = x
    BY <1>3, <2>1
  <2>2. CASE x < v.e /\ v.s < x + len /\ len >= v.s
    BY <1>0, <1>3, <1>4, <2>2, AlignedConstants
  <2>3. CASE x < v.e /\ v.s < x + len /\ len < v.s
    <3>1. Aligned(v.s - len)
      BY <1>1, AlignedSum
    <3> QED
      BY <1>0, <1>1, <1>3, <1>4, <2>3, <3>1
  <2> QED
    BY <1>1, <1>3, <1>4, <2>1, <2>2, <2>3
<1>6. ASSUME y >= UserBase, NEW j \in i .. Len(l) PROVE l[j].e <= y \/ y + len <= l[j].s
  <2>1. CASE y = x
    <3>1. x >= v.e \/ x + len <= v.s
      BY <1>0, <1>1, <1>3, <1>4, <1>6, <2>1
    <3>2. CASE j = i
      BY <2>1, <3>1, <3>2
    <3>3. CASE j \in i + 1 .. Len(l)
      BY <1>3, <1>6, <2>1, <3>3
    <3> QED
      BY <1>0, <3>2, <3>3
  <2>2. CASE y = v.s - len
    <3>1. y + len = v.s
      BY <1>1, <2>2
    <3>2. CASE j = i
      BY <1>1, <3>1, <3>2
    <3>3. CASE j \in i + 1 .. Len(l)
      BY <1>1, <1>2, <3>1, <3>3
    <3> QED
      BY <1>0, <3>2, <3>3
  <2>3. y # 0
    BY <1>0, <1>6
  <2> QED
    BY <1>1, <1>3, <1>4, <2>1, <2>2, <2>3
<1>7. ASSUME NEW p \in PageStart, p + len <= UserTop,
             \A j \in i .. Len(l) : l[j].e <= p \/ p + len <= l[j].s
      PROVE  p <= y
  <2>1. p \in Int /\ UserBase <= p
    BY PageIn
  <2>2. p <= x
    <3>1. \A j \in i + 1 .. Len(l) : j \in i .. Len(l)
      BY <1>0
    <3> QED
      BY <1>3, <1>7, <3>1
  <2>3. v.e <= p \/ p + len <= v.s
    BY <1>0, <1>7
  <2> QED
    BY <1>0, <1>1, <1>3, <1>4, <2>1, <2>2, <2>3
<1> QED
  BY <1>5, <1>6, <1>7 DEF GapAt, y

\* get_unmapped_area finds the highest gap, and 0 when there is none.
LEMMA GapSpec ==
  ASSUME NEW m, Sorted(m.vmas), NEW len \in Int, Aligned(len), 0 < len
  PROVE  LET at == GetUnmappedArea(m, len)
             gap(p) == p + len <= UserTop /\ Clear(m, p, p + len)
         IN  /\ at # 0 => at \in PageStart /\ gap(at)
             /\ \A p \in PageStart : gap(p) => at # 0 /\ p <= at
<1> DEFINE l == m.vmas
           n == Len(l)
           at == GetUnmappedArea(m, len)
<1>0. /\ n \in Nat /\ UserBase \in Nat /\ UserTop \in Nat /\ UserBase > 0
      /\ \A i \in 1 .. n : l[i].s \in Int /\ l[i].e \in Int
  BY SortedFacts, VmaAssumption
<1>1. PICK g : /\ GapsBy(g, m.vmas, len)
               /\ at = IF len = 0 \/ len > UserTop \/ g[1] < UserBase THEN 0 ELSE g[1]
  BY GapFunction
<1> HIDE DEF at
<1>2. /\ g[n + 1] = UserTop - len
      /\ \A i \in 1 .. n : g[i] = GapNext(l[i], len, g[i + 1])
  BY <1>1 DEF GapsBy
<1>3. \A p : Clear(m, p, p + len) <=> \A j \in 1 .. n : l[j].e <= p \/ p + len <= l[j].s
  BY DEF Clear, Areas
<1>4. CASE len <= UserTop
  <2> DEFINE S == {k \in 0 .. n : GapAt(l, len, n + 1 - k, g[n + 1 - k])}
  <2>1. 0 \in S
    <3>1. n + 1 - 0 = n + 1 /\ g[n + 1 - 0] = UserTop - len /\ n + 1 .. n = {} /\ 0 \in 0 .. n
      BY <1>0, <1>2
    <3>2. Aligned(UserTop - len) /\ 0 <= UserTop - len /\ (UserTop - len) + len = UserTop
      <4>1. Aligned(UserTop - len)
        BY AlignedConstants, AlignedSum
      <4> QED
        BY <1>0, <1>4, <4>1
    <3>3. GapAt(l, len, n + 1, UserTop - len)
      <4>1. \A p \in PageStart : p \in Int
        BY PageIn
      <4> QED
        BY <1>0, <3>1, <3>2, <4>1 DEF GapAt
    <3> QED
      BY <3>1, <3>3
  <2>2. ASSUME NEW k \in 1 .. n, k - 1 \in S PROVE k \in S
    <3>1. n + 1 - k \in 1 .. n /\ n + 1 - (k - 1) = (n + 1 - k) + 1 /\ k \in 0 .. n
      BY <1>0
    <3>2. GapAt(l, len, (n + 1 - k) + 1, g[(n + 1 - k) + 1])
      BY <2>2, <3>1
    <3>3. GapAt(l, len, n + 1 - k, GapNext(l[n + 1 - k], len, g[(n + 1 - k) + 1]))
      BY <3>1, <3>2, GapStep
    <3> QED
      BY <1>2, <3>1, <3>3
  <2>3. \A k \in 0 .. n : k \in S
    <3> HIDE DEF S, n
    <3> QED
      BY <1>0, <2>1, <2>2, UpToInduction
  <2>4. GapAt(l, len, 1, g[1])
    <3>1. n \in 0 .. n /\ n + 1 - n = 1
      BY <1>0
    <3>2. n \in S
      BY <2>3, <3>1
    <3> QED
      BY <3>1, <3>2
  <2>5. at = IF g[1] < UserBase THEN 0 ELSE g[1]
    BY <1>0, <1>1, <1>4
  <2>6. ASSUME at # 0
        PROVE  at \in PageStart /\ at + len <= UserTop /\ Clear(m, at, at + len)
    <3>1. at = g[1] /\ at \in Int /\ UserBase <= at /\ Aligned(at) /\ at + len <= UserTop
      BY <1>0, <2>4, <2>5, <2>6 DEF GapAt
    <3>2. at \in PageStart
      BY <1>0, <3>1 DEF PageStart, Aligned
    <3>3. \A j \in 1 .. n : l[j].e <= at \/ at + len <= l[j].s
      BY <2>4, <3>1 DEF GapAt
    <3> QED
      BY <1>3, <3>1, <3>2, <3>3
  <2>7. ASSUME NEW p \in PageStart, p + len <= UserTop, Clear(m, p, p + len)
        PROVE  at # 0 /\ p <= at
    <3>1. p <= g[1] /\ g[1] \in Int
      BY <1>3, <2>4, <2>7 DEF GapAt
    <3>2. p \in Int /\ UserBase <= p
      BY PageIn
    <3> QED
      BY <1>0, <2>5, <3>1, <3>2
  <2> QED
    BY <2>6, <2>7 DEF at
<1>5. CASE ~(len <= UserTop)
  <2>1. at = 0
    BY <1>0, <1>1, <1>5
  <2>2. \A p \in PageStart : ~(p + len <= UserTop)
    BY <1>0, <1>5, PageIn
  <2> QED
    BY <2>1, <2>2 DEF at
<1> QED
  BY <1>4, <1>5

\* The answer of get_unmapped_area is an address.
LEMMA GapType ==
  ASSUME NEW m, Sorted(m.vmas), NEW len \in Int
  PROVE  GetUnmappedArea(m, len) \in Int
<1>1. PICK g : /\ GapsBy(g, m.vmas, len)
               /\ GetUnmappedArea(m, len) =
                    IF len = 0 \/ len > UserTop \/ g[1] < UserBase THEN 0 ELSE g[1]
  BY GapFunction
<1>2. Len(m.vmas) \in Nat
  BY SortedFacts
<1>3. g[1] \in Int
  BY <1>1, <1>2 DEF GapsBy
<1> QED
  BY <1>1, <1>3

\* No page that is mapped changes.
PagesKept(m, r) ==
  \A p \in PageStart : PageMap(m)[p] # Unmapped => PageMap(r)[p] = PageMap(m)[p]

\* The pages after mm_map: those of the range are the new ones, the others as before.
LEMMA MmMapKeeps ==
  ASSUME NEW m, MmInv(m), NEW addr \in Int, NEW len \in Int, NEW alloc \in BOOLEAN,
         NEW fl, NEW shm, MapArgs(m, fl, shm)
  PROVE  LET r == MmMap(m, addr, len, fl, shm, alloc)
             start == Start(addr)
             end == Ending(addr, len)
         IN  \A p \in PageStart :
               PageMap(r.mm)[p] =
                 IF r.ok /\ start <= p /\ p < end
                 THEN [fl |-> fl, shm |-> shm, pos |-> IF shm = NoShmem THEN 0 ELSE p - start]
                 ELSE PageMap(m)[p]
<1> DEFINE r == MmMap(m, addr, len, fl, shm, alloc)
           start == Start(addr)
           end == Ending(addr, len)
           v == NewVma(start, end, fl, shm)
<1>1. /\ MmInv(r.mm)
      /\ r.ok <=> UserAccess(start, end) /\ alloc /\ Clear(m, start, end)
      /\ r.ok => Areas(r.mm) = Areas(m) \cup {v}
      /\ ~r.ok => r.mm.vmas = m.vmas /\ Areas(r.mm) = Areas(m)
  <2>1. Mapped(m, r, start, end, fl, shm, alloc)
    BY MmMapSpec
  <2> HIDE DEF r, start, end
  <2> QED
    BY <2>1 DEF Mapped
<1>2. start \in Int /\ end \in Int /\ Aligned(start) /\ Aligned(end)
  BY RangeTypes
<1> HIDE DEF r, start, end
<1>0. /\ fl \in SUBSET Flag /\ shm \in 0 .. NShm /\ (shm # NoShmem => "share" \in fl)
  BY DEF MapArgs
<1>3. CASE ~r.ok
  <2>1. PageMap(r.mm) = PageMap(m)
    BY <1>1, <1>3, SamePages
  <2> QED
    BY <1>3, <2>1 DEF r
<1>4. CASE r.ok
  <2>1. Area(v) /\ v = [s |-> start, e |-> end, fl |-> fl, shm |-> shm, off |-> 0]
    BY <1>0, <1>1, <1>2, <1>4, NewVmaArea
  <2> HIDE DEF v
  <2>2. v.s = start /\ v.e = end /\ v.fl = fl /\ v.shm = shm /\ v.off = 0
    BY <2>1
  <2>3. \A p \in PageStart :
           /\ PageMap(r.mm)[p] = IF Holds(v, p) THEN PageOf(v, p) ELSE PageMap(m)[p]
           /\ Holds(v, p) => PageMap(m)[p] = Unmapped
    <3>1. Sorted(m.vmas) /\ Sorted(r.mm.vmas) /\ Areas(r.mm) = Areas(m) \cup {v} /\ Clear(m, v.s, v.e)
      BY <1>1, <1>4, <2>2 DEF MmInv
    <3> QED
      BY <2>1, <3>1, PagesAdded
  <2>4. ASSUME NEW p \in PageStart
        PROVE  PageOf(v, p) = [fl |-> fl, shm |-> shm,
                               pos |-> IF shm = NoShmem THEN 0 ELSE p - start]
    <3>1. p \in Int /\ 0 + (p - start) = p - start
      BY <1>2, PageIn
    <3> QED
      BY <2>2, <3>1 DEF PageOf
  <2>5. \A p \in PageStart : Holds(v, p) <=> start <= p /\ p < end
    BY <2>2 DEF Holds
  <2> QED
    BY <1>4, <2>3, <2>4, <2>5 DEF r, start, end
<1> QED
  BY <1>3, <1>4

\* A result of mm_map has its three fields.
LEMMA MmMapShape ==
  ASSUME NEW m, NEW addr, NEW len, NEW alloc, NEW fl, NEW shm
  PROVE  Shape(MmMap(m, addr, len, fl, shm, alloc))
<1> DEFINE r == MmMap(m, addr, len, fl, shm, alloc)
           start == RoundDown(addr)
           end == RoundUp(Plus(addr, len))
           m1 == Find(m, start)
           v == FindVma(m, start)
           m2 == InsertVma(m1, [VmaOf(start, end, fl) EXCEPT !.shm = shm])
<1>1. r = IF ~UserAccess(start, end) THEN Result(m, FALSE)
          ELSE IF (v # NoVma /\ end > v.s) \/ ~alloc THEN Result(m1, FALSE)
          ELSE Result(m2, TRUE)
  BY DEF MmMap
<1> HIDE DEF r, m1, m2, v
<1>2. Shape(Result(m, FALSE)) /\ Shape(Result(m1, FALSE)) /\ Shape(Result(m2, TRUE))
  BY ResultShape
<1> QED
  BY <1>1, <1>2 DEF r

\* What a call may do to the pages: none that is mapped changes.
LEMMA DoMmapSpec ==
  ASSUME NEW m, MmInv(m), NEW addr \in Int, NEW len \in Int, NEW alloc \in BOOLEAN,
         NEW fl \in SUBSET Flag, NEW shm \in 0 .. NShm,
         shm # NoShmem => \A w \in Areas(m) : w.shm # shm
  PROVE  LET r == DoMmap(m, addr, len, fl, shm, alloc)
         IN  Shape(r) /\ MmInv(r.mm) /\ SameBrk(m, r.mm) /\ PagesKept(m, r.mm)
<1> DEFINE r == DoMmap(m, addr, len, fl, shm, alloc)
           start == RoundDown(addr)
           size == Minus(RoundUp(Plus(addr, len)), start)
           at == IF start = 0 THEN GetUnmappedArea(m, size) ELSE start
           flags == IF shm = NoShmem THEN fl ELSE fl \cup {"share"}
           x == MmMap(m, at, size, flags, shm, alloc)
<1>1. r = IF at = 0 THEN Result(m, FALSE) ELSE x
  BY DEF DoMmap
<1>2. start \in Int /\ RoundUp(Plus(addr, len)) \in Int
  BY RangeTypes DEF Start, Ending
<1>3. size \in Int
  <2> DEFINE e == RoundUp(Plus(addr, len))
  <2>1. e \in Int /\ start \in Int
    BY <1>2
  <2> HIDE DEF e, start
  <2>2. Minus(e, start) \in 0 .. Top - 1
    BY <2>1, PlusType
  <2> QED
    BY <2>2 DEF e
<1> HIDE DEF start, size
<1>4. at \in Int
  BY <1>2, <1>3, GapType DEF MmInv
<1>5. flags \in SUBSET Flag /\ (shm # NoShmem => "share" \in flags)
  BY DEF Flag
<1> HIDE DEF r, at, flags
<1>6. MapArgs(m, flags, shm)
  BY <1>5 DEF MapArgs
<1>7. Shape(x) /\ MmInv(x.mm) /\ SameBrk(m, x.mm) /\ PagesKept(m, x.mm)
  <2>1. Shape(x)
    BY MmMapShape
  <2>2. Mapped(m, x, Start(at), Ending(at, size), flags, shm, alloc)
    BY <1>3, <1>4, <1>6, MmMapSpec
  <2> HIDE DEF x
  <2>3. MmInv(x.mm) /\ SameBrk(m, x.mm)
    BY <2>2 DEF Mapped
  <2>4. PagesKept(m, x.mm)
    <3> DEFINE s == Start(at)
               e == Ending(at, size)
    <3>1. Aligned(s) /\ Aligned(e) /\ Sorted(m.vmas)
      BY <1>3, <1>4, RangeTypes DEF MmInv
    <3>2. ASSUME NEW p \in PageStart, x.ok, s <= p, p < e PROVE PageMap(m)[p] = Unmapped
      <4>1. UserAccess(s, e) /\ Clear(m, s, e)
        BY <2>2, <3>2 DEF Mapped
      <4>2. UserBase <= s /\ s < e /\ e <= UserTop
        BY <4>1 DEF UserAccess
      <4>3. p \in PagesIn(s, e)
        BY <3>2 DEF PagesIn
      <4> HIDE DEF s, e
      <4> QED
        BY <3>1, <4>1, <4>2, <4>3, PagesClear
    <3>3. \A p \in PageStart :
            PageMap(x.mm)[p] =
              IF x.ok /\ s <= p /\ p < e
              THEN [fl |-> flags, shm |-> shm, pos |-> IF shm = NoShmem THEN 0 ELSE p - s]
              ELSE PageMap(m)[p]
      BY <1>3, <1>4, <1>6, MmMapKeeps DEF x
    <3> HIDE DEF s, e
    <3> QED
      BY <3>2, <3>3 DEF PagesKept
  <2> QED
    BY <2>1, <2>3, <2>4
<1> HIDE DEF x
<1>8. /\ Shape(Result(m, FALSE)) /\ Result(m, FALSE).mm = m /\ SameBrk(m, m) /\ PagesKept(m, m)
  BY ResultShape DEF SameBrk, PagesKept
<1> QED
  BY <1>1, <1>7, <1>8 DEF r

-----------------------------------------------------------------------------
\* One step of user_mem_check, with the next area of the list.
CheckNext(v, end, write, x) ==
  IF x \in {0} \cup end .. Top \/ v.e <= x THEN x
  ELSE IF Refuses(v, x, write) THEN 0
  ELSE v.e

ChecksBy(g, l, addr, end, write) ==
  /\ g \in [0 .. Len(l) -> Int]
  /\ g[0] = addr
  /\ \A i \in 1 .. Len(l) : g[i] = CheckNext(l[i], end, write, g[i - 1])

\* UserMemCheck takes its answer from such a function.
LEMMA CheckFunction ==
  ASSUME NEW m, Sorted(m.vmas), NEW addr \in Int, NEW len \in Int, NEW write \in BOOLEAN
  PROVE  \E g : /\ ChecksBy(g, m.vmas, addr, Plus(addr, len), write)
                /\ UserMemCheck(m, addr, len, write) <=>
                     UserAccess(addr, Plus(addr, len)) /\ g[Len(m.vmas)] >= Plus(addr, len)
<1> DEFINE l == m.vmas
           n == Len(l)
           end == Plus(addr, len)
           F == [k \in 1 .. n |-> [x \in Int |-> CheckNext(l[k], end, write, x)]]
           E(h) == h = [i \in 0 .. Len(m.vmas) |->
                         IF i = 0 THEN addr
                         ELSE IF h[i - 1] \in {0} \cup end .. Top
                                 \/ m.vmas[i].e <= h[i - 1]
                         THEN h[i - 1]
                         ELSE IF Refuses(m.vmas[i], h[i - 1], write) THEN 0
                         ELSE m.vmas[i].e]
           w == CHOOSE h : E(h)
<1>0. n \in Nat
  BY SortedFacts
<1>1. \A i \in 1 .. n : l[i].s \in Int /\ l[i].e \in Int
  BY SortedFacts
<1> HIDE DEF end
<1>2. \A i \in 1 .. n, x \in Int : CheckNext(l[i], end, write, x) \in Int
  BY <1>1 DEF CheckNext
<1>3. F \in [1 .. n -> [Int -> Int]]
  BY <1>2
<1>4. PICK g : LoopsBy(g, n, Int, addr, F)
  <2> HIDE DEF n, F
  <2> QED
    BY <1>0, <1>3, LoopFunctionExists
<1>5. /\ g \in [0 .. n -> Int] /\ g[0] = addr
      /\ \A k \in 1 .. n : g[k] = CheckNext(l[k], end, write, g[k - 1])
  <2>1. /\ g \in [0 .. n -> Int] /\ g[0] = addr
        /\ \A k \in 1 .. n : g[k] = F[k][g[k - 1]]
    BY <1>4 DEF LoopsBy
  <2>2. \A k \in 1 .. n : F[k] = [x \in Int |-> CheckNext(l[k], end, write, x)]
    OBVIOUS
  <2>3. \A k \in 1 .. n : g[k - 1] \in Int
    BY <1>0, <2>1
  <2> HIDE DEF F
  <2>4. ASSUME NEW k \in 1 .. n PROVE g[k] = CheckNext(l[k], end, write, g[k - 1])
    <3>1. g[k] = F[k][g[k - 1]] /\ g[k - 1] \in Int
      BY <2>1, <2>3
    <3>2. F[k][g[k - 1]] = CheckNext(l[k], end, write, g[k - 1])
      BY <2>2, <3>1
    <3> QED
      BY <3>1, <3>2
  <2> QED
    BY <2>1, <2>4
<1>6. E(g)
  <2>1. g = [i \in 0 .. n |-> g[i]]
    BY <1>5
  <2>2. \A i \in 0 .. n : g[i] =
                         IF i = 0 THEN addr
                         ELSE IF g[i - 1] \in {0} \cup end .. Top
                                 \/ m.vmas[i].e <= g[i - 1]
                         THEN g[i - 1]
                         ELSE IF Refuses(m.vmas[i], g[i - 1], write) THEN 0
                         ELSE m.vmas[i].e
    <3> TAKE i \in 0 .. n
    <3>1. i = 0 \/ i \in 1 .. n
      BY <1>0
    <3> QED
      BY <1>5, <3>1 DEF CheckNext
  <2> QED
    BY <2>1, <2>2
<1>7. E(w)
  BY <1>6, Zenon
<1>8. UserMemCheck(m, addr, len, write) <=> UserAccess(addr, end) /\ w[Len(m.vmas)] >= end
  BY Zenon DEF UserMemCheck, end
<1> HIDE DEF w
<1>9. w = g
  <2> DEFINE S == {k \in 0 .. n : w[k] = g[k]}
  <2>1. /\ w[0] = addr
        /\ \A i \in 1 .. n : w[i] = CheckNext(l[i], end, write, w[i - 1])
    <3>1. \A i \in 1 .. n : i \in 0 .. n /\ i # 0
      BY <1>0
    <3>2. 0 \in 0 .. n
      BY <1>0
    <3> QED
      BY <1>7, <3>1, <3>2 DEF CheckNext
  <2>2. 0 \in S
    BY <1>0, <1>5, <2>1
  <2>3. \A k \in 1 .. n : k - 1 \in S => k \in S
    <3>1. \A k \in 1 .. n : k \in 0 .. n
      BY <1>0
    <3> QED
      BY <1>5, <2>1, <3>1
  <2>4. \A k \in 0 .. n : k \in S
    <3> HIDE DEF S, n
    <3> QED
      BY <1>0, <2>2, <2>3, UpToInduction
  <2>5. w = [i \in 0 .. n |-> w[i]]
    BY <1>7
  <2>6. g = [i \in 0 .. n |-> g[i]]
    BY <1>5
  <2> QED
    BY <2>4, <2>5, <2>6
<1>10. ChecksBy(g, m.vmas, addr, end, write)
  BY <1>5 DEF ChecksBy
<1> QED
  BY <1>8, <1>9, <1>10 DEF end

\* An access of byte x is right in area v.
Allows(v, x, write) ==
  /\ Holds(v, x)
  /\ write => "w" \in v.fl
  /\ write /\ "stack" \in v.fl => x >= v.s + PgSize

\* Byte x lies in an area that allows the access.
Covered(l, x, write) == \E k \in 1 .. Len(l) : Allows(l[k], x, write)

\* After i areas the check has come to x: all bytes below are covered and the areas behind
\* it are of no more use; or it has met a byte that is not covered.
CheckedTo(l, addr, end, write, i, x) ==
  /\ x \in Int /\ x <= UserTop
  /\ \/ /\ x = 0
        /\ \E y \in Int : addr <= y /\ y < end /\ ~Covered(l, y, write)
     \/ /\ addr <= x
        /\ \A y \in Int : addr <= y /\ y < end /\ y < x => Covered(l, y, write)
        /\ x < end => \A j \in 1 .. i : l[j].e <= x

\* One area more keeps that.
LEMMA CheckStep ==
  ASSUME NEW l, Sorted(l), NEW addr \in Int, NEW end \in Int, NEW write \in BOOLEAN,
         UserAccess(addr, end), NEW i \in 1 .. Len(l),
         NEW x, CheckedTo(l, addr, end, write, i - 1, x)
  PROVE  CheckedTo(l, addr, end, write, i, CheckNext(l[i], end, write, x))
<1> DEFINE v == l[i]
           z == CheckNext(v, end, write, x)
<1>0. /\ Len(l) \in Nat /\ i \in Int /\ UserBase \in Nat /\ UserTop \in Nat /\ UserBase > 0
      /\ PgSize \in Nat /\ Top \in Nat /\ UserTop < Top
      /\ \A j \in 1 .. i : j = i \/ j \in 1 .. i - 1
  BY SortedFacts, VmaAssumption
<1>1. /\ addr > 0 /\ addr < end /\ end <= UserTop /\ x \in Int /\ x <= UserTop
  BY <1>0 DEF UserAccess, CheckedTo
<1>2. /\ v.s \in Int /\ v.e \in Int /\ v.s < v.e /\ UserBase <= v.s /\ v.e <= UserTop
      /\ \A k \in 1 .. Len(l) : l[k].s \in Int /\ l[k].e \in Int /\ l[k].s < l[k].e
      /\ \A j, k \in 1 .. Len(l) : j < k => l[j].e <= l[k].s
  BY SortedFacts DEF Area, UserAccess, Sorted
<1>3. CASE x \in {0} \cup end .. Top
  <2>1. z = x
    BY <1>3 DEF CheckNext
  <2>2. CASE x = 0
    BY <1>0, <1>1, <2>1, <2>2 DEF CheckedTo
  <2>3. CASE x \in end .. Top
    <3>1. ~(x < end) /\ x # 0
      BY <1>0, <1>1, <2>3
    <3> QED
      BY <2>1, <3>1 DEF CheckedTo
  <2> QED
    BY <1>3, <2>2, <2>3
<1>4. CASE x \notin {0} \cup end .. Top
  <2>1. /\ x < end /\ x # 0 /\ addr <= x
        /\ \A y \in Int : addr <= y /\ y < end /\ y < x => Covered(l, y, write)
        /\ \A j \in 1 .. i - 1 : l[j].e <= x
    <3>1. x < end /\ x # 0
      BY <1>0, <1>1, <1>4
    <3> QED
      BY <3>1 DEF CheckedTo
  <2>2. CASE v.e <= x
    <3>1. z = x
      BY <2>2 DEF CheckNext
    <3>2. \A j \in 1 .. i : l[j].e <= x
      BY <1>0, <2>1, <2>2
    <3> QED
      BY <1>1, <2>1, <3>1, <3>2 DEF CheckedTo
  <2>3. CASE x < v.e /\ Refuses(v, x, write)
    <3>1. z = 0
      BY <1>1, <1>2, <1>4, <2>3 DEF CheckNext
    <3>2. ASSUME NEW k \in 1 .. Len(l), Allows(l[k], x, write) PROVE FALSE
      <4>1. l[k].s <= x /\ x < l[k].e
        BY <3>2 DEF Allows, Holds
      <4>2. k = i
        <5>1. ~(k < i)
          <6>1. k < i => k \in 1 .. i - 1
            BY <1>0
          <6> QED
            BY <1>1, <1>2, <2>1, <4>1, <6>1
        <5>2. ~(i < k)
          <6>1. i < k => v.e <= l[k].s
            BY <1>2
          <6> QED
            BY <1>1, <1>2, <2>3, <4>1, <6>1
        <5> QED
          BY <1>0, <5>1, <5>2
      <4>3. v.s <= x
        BY <4>1, <4>2
      <4>4. v.s \in Int /\ v.s + PgSize \in Int
        BY <1>0, <1>2
      <4> QED
        BY <1>1, <2>3, <3>2, <4>2, <4>3, <4>4 DEF Refuses, Allows
    <3>3. ~Covered(l, x, write)
      BY <3>2 DEF Covered
    <3> QED
      BY <1>0, <1>1, <2>1, <3>1, <3>3 DEF CheckedTo
  <2>4. CASE x < v.e /\ ~Refuses(v, x, write)
    <3>1. z = v.e
      BY <1>1, <1>2, <1>4, <2>4 DEF CheckNext
    <3>2. ASSUME NEW y \in Int, addr <= y, y < end, y < v.e PROVE Covered(l, y, write)
      <4>1. CASE y < x
        BY <2>1, <3>2, <4>1
      <4>2. CASE x <= y
        <5>1. v.s <= x /\ (write => "w" \in v.fl) /\ (write /\ "stack" \in v.fl => x >= v.s + PgSize)
          BY <1>0, <1>1, <1>2, <2>4 DEF Refuses
        <5>2. Holds(v, y)
          BY <1>1, <1>2, <3>2, <4>2, <5>1 DEF Holds
        <5>3. write /\ "stack" \in v.fl => y >= v.s + PgSize
          BY <1>0, <1>1, <1>2, <4>2, <5>1
        <5> QED
          BY <5>1, <5>2, <5>3 DEF Allows, Covered
      <4> QED
        BY <1>1, <4>1, <4>2
    <3>3. ASSUME NEW j \in 1 .. i PROVE l[j].e <= v.e
      <4>1. CASE j = i
        BY <1>2, <4>1
      <4>2. CASE j \in 1 .. i - 1
        <5>1. j \in 1 .. Len(l) /\ j < i
          BY <1>0, <4>2
        <5>2. l[j].e <= v.s
          BY <1>2, <5>1
        <5> QED
          BY <1>2, <5>1, <5>2
      <4> QED
        BY <1>0, <4>1, <4>2
    <3> QED
      BY <1>1, <1>2, <2>1, <2>4, <3>1, <3>2, <3>3 DEF CheckedTo
  <2> QED
    BY <1>1, <1>2, <2>2, <2>3, <2>4
<1> QED
  BY <1>3, <1>4

\* user_mem_check allows exactly the accesses whose bytes are all covered.
LEMMA MemCheckSpec ==
  ASSUME NEW m, Sorted(m.vmas), NEW addr \in 0 .. Top - 1, NEW len \in 1 .. Top - 1,
         NEW write \in BOOLEAN
  PROVE  UserMemCheck(m, addr, len, write) <=>
           /\ UserBase <= addr /\ addr + len <= UserTop
           /\ \A x \in addr .. addr + len - 1 : Covered(m.vmas, x, write)
<1> DEFINE l == m.vmas
           n == Len(l)
           end == Plus(addr, len)
<1>0. /\ n \in Nat /\ UserBase \in Nat /\ UserTop \in Nat /\ UserBase > 0
      /\ Top \in Nat /\ UserTop < Top /\ addr \in Int /\ len \in Int /\ end \in Int
  <2>1. addr \in Int /\ len \in Int
    OBVIOUS
  <2>2. end \in 0 .. Top - 1
    BY <2>1, PlusType
  <2>3. n \in Nat
    BY SortedFacts
  <2>4. PgSize \in Nat /\ UserTop + PgSize < Top /\ Top \in Nat /\ UserTop \in Nat /\ UserBase \in Nat /\ UserBase > 0
    BY VmaAssumption
  <2> HIDE DEF end, n
  <2> QED
    BY <2>1, <2>2, <2>3, <2>4
<1>1. PICK g : /\ ChecksBy(g, m.vmas, addr, end, write)
               /\ UserMemCheck(m, addr, len, write) <=> UserAccess(addr, end) /\ g[n] >= end
  BY <1>0, CheckFunction
<1>2. addr + len < Top => end = addr + len
  BY <1>0, NoWrap
<1>3. addr + len >= Top => ~(addr < end)
  <2>1. SUFFICES ASSUME addr + len >= Top PROVE end = addr + len - Top
    BY <1>0
  <2>2. 0 <= addr + len - Top /\ addr + len - Top < Top /\ Top > 0
    BY <1>0, <2>1
  <2>3. (addr + len) % Top = addr + len - Top
    BY <1>0, <2>2
  <2> QED
    BY <2>3 DEF Plus
<1>4. UserAccess(addr, end) <=> UserBase <= addr /\ addr + len <= UserTop
  <2>1. CASE addr + len < Top
    BY <1>0, <1>2, <2>1 DEF UserAccess
  <2>2. CASE addr + len >= Top
    BY <1>0, <1>3, <2>2 DEF UserAccess
  <2> QED
    BY <1>0, <2>1, <2>2
<1>5. CASE ~UserAccess(addr, end)
  BY <1>1, <1>4, <1>5
<1>6. CASE UserAccess(addr, end)
  <2>1. end = addr + len
    BY <1>0, <1>2, <1>4, <1>6
  <2> HIDE DEF end
  <2> DEFINE S == {k \in 0 .. n : CheckedTo(l, addr, end, write, k, g[k])}
  <2>2. g[0] = addr /\ \A i \in 1 .. n : g[i] = CheckNext(l[i], end, write, g[i - 1])
    BY <1>1 DEF ChecksBy
  <2>3. 0 \in S
    <3>1. CheckedTo(l, addr, end, write, 0, addr)
      BY <1>0, <1>6 DEF CheckedTo, UserAccess
    <3> QED
      BY <1>0, <2>2, <3>1
  <2>4. ASSUME NEW k \in 1 .. n, k - 1 \in S PROVE k \in S
    <3>1. CheckedTo(l, addr, end, write, k - 1, g[k - 1])
      BY <2>4
    <3>2. CheckedTo(l, addr, end, write, k, CheckNext(l[k], end, write, g[k - 1]))
      BY <1>0, <1>6, <3>1, CheckStep
    <3>3. k \in 0 .. n
      BY <1>0
    <3> QED
      BY <2>2, <3>2, <3>3
  <2>5. \A k \in 0 .. n : k \in S
    <3> HIDE DEF S, n
    <3> QED
      BY <1>0, <2>3, <2>4, UpToInduction
  <2>6. CheckedTo(l, addr, end, write, n, g[n])
    BY <1>0, <2>5
  <2> DEFINE z == g[n]
             all == \A x \in addr .. addr + len - 1 : Covered(m.vmas, x, write)
  <2>7. z \in Int /\ 0 < end
    BY <1>0, <1>6, <2>6 DEF CheckedTo, UserAccess
  <2>8. z >= end <=> all
    <3>1. CASE z >= end
      <4>1. \A x \in addr .. addr + len - 1 : x \in Int /\ addr <= x /\ x < end /\ x < z
        BY <1>0, <2>1, <2>7, <3>1
      <4> QED
        BY <2>6, <2>7, <3>1, <4>1 DEF CheckedTo
    <3>2. CASE z < end
      <4>1. CASE \E y \in Int : addr <= y /\ y < end /\ ~Covered(l, y, write)
        <5>1. PICK y \in Int : addr <= y /\ y < end /\ ~Covered(l, y, write)
          BY <4>1
        <5>2. y \in addr .. addr + len - 1
          BY <1>0, <2>1, <5>1
        <5>3. ~all
          BY <5>1, <5>2
        <5> HIDE DEF all, z
        <5> QED
          BY <1>0, <2>7, <3>2, <5>3
      <4>2. CASE addr <= z /\ \A j \in 1 .. n : l[j].e <= z
        <5>1. \A j \in 1 .. n : ~Holds(l[j], z)
          BY <2>7, <4>2, SortedFacts DEF Holds
        <5>2. ~Covered(l, z, write)
          BY <5>1 DEF Covered, Allows
        <5>3. z \in addr .. addr + len - 1
          BY <1>0, <2>1, <2>7, <3>2, <4>2
        <5>4. ~all
          BY <5>2, <5>3
        <5> HIDE DEF all, z
        <5> QED
          BY <1>0, <2>7, <3>2, <5>4
      <4> QED
        BY <2>6, <3>2, <4>1, <4>2 DEF CheckedTo
    <3> QED
      BY <1>0, <2>7, <3>1, <3>2
  <2> QED
    BY <1>1, <1>4, <1>6, <2>8
<1> QED
  BY <1>5, <1>6

\* The inductive invariant.
VmaInv == MmInv(mm) /\ BrkInv(mm) /\ halted \in BOOLEAN

\* What it says of each area.
LEMMA VmaFacts ==
  ASSUME MmInv(mm)
  PROVE  /\ Sorted(mm.vmas)
         /\ \A v \in Areas(mm) :
              /\ Area(v) /\ v.s \in Int /\ v.e \in Int /\ v.s < v.e
              /\ UserBase <= v.s /\ v.e <= UserTop
<1>1. Sorted(mm.vmas)
  BY DEF MmInv
<1>2. \A v \in Areas(mm) : Area(v)
  BY <1>1, AreasDisjoint
<1> QED
  BY <1>1, <1>2 DEF Area, VmaT, UserAccess

\* The parts of LookupsExact follow from it: the types,
LEMMA InvTypeOK == VmaInv => TypeOK
<1> SUFFICES ASSUME VmaInv PROVE TypeOK
  OBVIOUS
<1>0. MmInv(mm) /\ BrkInv(mm) /\ halted \in BOOLEAN
  BY DEF VmaInv
<1>1. UserTop \in Nat /\ UserBase \in Nat
  BY VmaAssumption
<1>2. ASSUME NEW v \in Areas(mm)
      PROVE  /\ v.s \in PageStart /\ v.e % PgSize = 0
             /\ v.fl \subseteq Flag /\ v.shm \in 0 .. NShm /\ v.off \in 0 .. UserTop
  <2>1. Area(v) /\ v.s \in Int /\ v.e \in Int /\ v.s < v.e /\ UserBase <= v.s /\ v.e <= UserTop
    BY <1>0, VmaFacts
  <2>2. v.s \in PageStart /\ v.e % PgSize = 0
    BY <1>1, <2>1 DEF Area, Aligned, PageStart
  <2>3. v.off \in Int /\ 0 <= v.off /\ v.off + (v.e - v.s) <= UserTop
    BY <2>1 DEF Area, VmaT
  <2>4. v.off \in 0 .. UserTop
    BY <1>1, <2>1, <2>3
  <2>5. v.fl \subseteq Flag /\ v.shm \in 0 .. NShm
    BY <2>1 DEF Area, VmaT
  <2> QED
    BY <2>2, <2>4, <2>5
<1>3. mm.cache \in PageStart \cup {NoCache}
  BY <1>0, <1>2 DEF MmInv, CacheIn
<1> QED
  BY <1>0, <1>2, <1>3 DEF TypeOK, BrkInv, Aligned

\* Two pages of one object show different places of it.
LEMMA InvPositions ==
  ASSUME MmInv(mm), NEW p \in PageStart, NEW q \in PageStart, p # q,
         PageMap(mm)[p].shm # NoShmem, PageMap(mm)[p].shm = PageMap(mm)[q].shm
  PROVE  PageMap(mm)[p].pos # PageMap(mm)[q].pos
<1>0. Sorted(mm.vmas) /\ OneBase(mm) /\ p \in Int /\ q \in Int
  BY PageIn DEF MmInv
<1>1. ASSUME NEW x \in PageStart, PageMap(mm)[x].shm # NoShmem
      PROVE  \E v \in Areas(mm) : PageMap(mm)[x] = PageOf(v, x)
  <2>1. Unmapped.shm = NoShmem
    BY DEF Unmapped
  <2>2. \E v \in Areas(mm) : Holds(v, x)
    BY <1>0, <1>1, <2>1, PageMapAt
  <2> QED
    BY <1>0, <2>2, PageMapAt
<1>2. PICK v \in Areas(mm) : PageMap(mm)[p] = PageOf(v, p)
  BY <1>1
<1>3. PICK w \in Areas(mm) : PageMap(mm)[q] = PageOf(w, q)
  BY <1>1
<1>4. /\ PageOf(v, p).shm = v.shm /\ PageOf(w, q).shm = w.shm
      /\ v.shm # NoShmem => PageOf(v, p).pos = v.off + (p - v.s)
      /\ w.shm # NoShmem => PageOf(w, q).pos = w.off + (q - w.s)
  BY DEF PageOf
<1>5. v.shm # NoShmem /\ v.shm = w.shm
  BY <1>2, <1>3, <1>4
<1>6. v.off - v.s = w.off - w.s
  BY <1>0, <1>5 DEF OneBase
<1>7. v.s \in Int /\ v.off \in Int /\ w.s \in Int /\ w.off \in Int
  BY VmaFacts DEF Area, VmaT
<1> QED
  BY <1>0, <1>2, <1>3, <1>4, <1>5, <1>6, <1>7

\* the order of the list,
LEMMA InvOrdered == VmaInv => AreasOrdered
<1> SUFFICES ASSUME VmaInv PROVE AreasOrdered
  OBVIOUS
<1>0. MmInv(mm) /\ BrkInv(mm) /\ Sorted(mm.vmas) /\ Len(mm.vmas) \in Nat
  BY SortedFacts DEF VmaInv, MmInv
<1>1. TypeOK
  BY InvTypeOK
<1>2. \A i \in 1 .. Len(mm.vmas) : UserAccess(mm.vmas[i].s, mm.vmas[i].e)
  BY <1>0, SortedFacts DEF Area
<1>3. \A i \in 1 .. Len(mm.vmas) - 1 : mm.vmas[i].e <= mm.vmas[i + 1].s
  <2>1. \A i \in 1 .. Len(mm.vmas) - 1 : i \in 1 .. Len(mm.vmas) /\ i + 1 \in 1 .. Len(mm.vmas) /\ i < i + 1
    BY <1>0
  <2> QED
    BY <1>0, <2>1 DEF Sorted
<1>4. mm.cache # NoCache => \E v \in Areas(mm) : v.s = mm.cache
  BY <1>0 DEF MmInv, CacheIn
<1>5. \A p, q \in PageStart :
        p # q /\ PageMap(mm)[p].shm # NoShmem /\ PageMap(mm)[p].shm = PageMap(mm)[q].shm
          => PageMap(mm)[p].pos # PageMap(mm)[q].pos
  BY <1>0, InvPositions
<1> QED
  BY <1>1, <1>2, <1>3, <1>4, <1>5 DEF AreasOrdered

\* find_vma,
LEMMA InvFind == VmaInv => FindExact
<1> SUFFICES ASSUME VmaInv, NEW a \in 0 .. Top - 1
             PROVE  LET after == {v \in Areas(mm) : a < v.e}
                    IN  FindVma(mm, a) =
                          IF after = {} THEN NoVma
                          ELSE CHOOSE v \in after : \A w \in after : v.e <= w.e
  BY DEF FindExact
<1> DEFINE after == {v \in Areas(mm) : a < v.e}
           x == FindVma(mm, a)
<1>0. Sorted(mm.vmas) /\ a \in Int /\ MmInv(mm)
  BY DEF VmaInv, MmInv
<1>1. /\ x = NoVma <=> \A v \in Areas(mm) : v.e <= a
      /\ x # NoVma =>
               /\ x \in Areas(mm) /\ a < x.e
               /\ \A w \in Areas(mm) : a < w.e => x = w \/ x.e <= w.s
  BY <1>0, FindVmaArea
<1>2. \A v \in Areas(mm) : v.s \in Int /\ v.e \in Int /\ v.s < v.e
  BY <1>0, VmaFacts
<1> HIDE DEF x
<1>3. CASE after = {}
  <2>1. \A v \in Areas(mm) : v.e <= a
    BY <1>0, <1>2, <1>3
  <2> QED
    BY <1>1, <1>3, <2>1 DEF x
<1>4. CASE after # {}
  <2>1. x # NoVma
    BY <1>0, <1>1, <1>2, <1>4
  <2>2. x \in after /\ \A w \in after : x.e <= w.e
    BY <1>0, <1>1, <1>2, <2>1
  <2>3. ASSUME NEW y \in after, \A w \in after : y.e <= w.e PROVE y = x
    <3>1. y.e <= x.e /\ x.e <= y.e /\ y \in Areas(mm) /\ x \in Areas(mm)
      BY <2>2, <2>3
    <3>2. y.e = x.e
      BY <1>2, <3>1
    <3> QED
      BY <1>0, <3>1, <3>2, AreasDisjoint
  <2> HIDE DEF after
  <2>4. x = CHOOSE v \in after : \A w \in after : v.e <= w.e
    BY <2>2, <2>3
  <2> QED
    BY <1>4, <2>4 DEF x, after
<1> QED
  BY <1>3, <1>4

\* and user_mem_check.
LEMMA InvMemCheck == VmaInv => MemCheckExact
<1> SUFFICES ASSUME VmaInv, NEW a \in Addrs, NEW len \in Lens, NEW write \in BOOLEAN
             PROVE  UserMemCheck(mm, a, len, write) <=>
                      /\ UserBase <= a /\ a + len <= UserTop
                      /\ \A x \in a .. a + len - 1 : \E v \in Areas(mm) :
                           /\ Holds(v, x)
                           /\ write => "w" \in v.fl
                           /\ write /\ "stack" \in v.fl => x >= v.s + PgSize
  BY DEF MemCheckExact
<1>1. Sorted(mm.vmas) /\ a \in 0 .. Top - 1 /\ len \in 1 .. Top - 1
  BY VmaAssumption DEF VmaInv, MmInv
<1>2. UserMemCheck(mm, a, len, write) <=>
           /\ UserBase <= a /\ a + len <= UserTop
           /\ \A x \in a .. a + len - 1 : Covered(mm.vmas, x, write)
  BY <1>1, MemCheckSpec
<1>3. \A x : Covered(mm.vmas, x, write) <=>
               \E v \in Areas(mm) : /\ Holds(v, x)
                                    /\ write => "w" \in v.fl
                                    /\ write /\ "stack" \in v.fl => x >= v.s + PgSize
  BY DEF Covered, Allows, Areas
<1> QED
  BY <1>2, <1>3

\* In every state of the invariant both look-ups are right.
LEMMA InvLookups == VmaInv => LookupsExact
BY InvOrdered, InvFind, InvMemCheck DEF LookupsExact

\* The range mm_map and mm_unmap compute is the one their caller names.
LEMMA RangeIs ==
  ASSUME NEW a \in 0 .. Top - 1, NEW len \in 1 .. Top - 1, a + len < Top
  PROVE  /\ Start(a) = RoundDown(a) /\ Ending(a, len) = RoundUp(a + len)
         /\ UserAccess(Start(a), Ending(a, len)) <=> InUserRange(a, len)
         /\ InUserRange(a, len) => Named(a, len) = PagesIn(Start(a), Ending(a, len))
<1> DEFINE s == Start(a)
           e == Ending(a, len)
<1>0. /\ PgSize \in Nat \ {0} /\ Top \in Nat /\ UserBase \in Nat /\ UserTop \in Nat
      /\ UserTop + PgSize < Top /\ UserBase > 0
      /\ a \in Int /\ len \in Int /\ 0 < len /\ a + len \in 0 .. Top
  BY VmaAssumption
<1>1. s = RoundDown(a) /\ e = RoundUp(a + len)
  BY <1>0, NoWrap DEF Start, Ending
<1>2. s \in Int /\ Aligned(s) /\ s <= a /\ a < s + PgSize
  BY <1>0, <1>1, RoundDownSpec DEF Aligned
<1>3. /\ e \in Int /\ Aligned(e)
      /\ a + len <= Top - PgSize => a + len <= e /\ e < a + len + PgSize
      /\ a + len > Top - PgSize => e = 0
  BY <1>0, <1>1, RoundUpSpec DEF Aligned
<1> HIDE DEF s, e
<1>4. UserAccess(s, e) <=> UserBase <= s /\ a + len <= UserTop
  <2>1. CASE a + len > Top - PgSize
    BY <1>0, <1>2, <1>3, <2>1 DEF UserAccess
  <2>2. CASE a + len <= Top - PgSize
    <3>1. a + len <= e /\ e < a + len + PgSize /\ s < e
      BY <1>0, <1>2, <1>3, <2>2
    <3>2. UserTop < e => UserTop + PgSize <= e
      BY <1>3, AlignedConstants, AlignedGap
    <3> QED
      BY <1>0, <1>2, <1>3, <3>1, <3>2 DEF UserAccess
  <2> QED
    BY <1>0, <2>1, <2>2
<1>5. ASSUME InUserRange(a, len) PROVE Named(a, len) = PagesIn(s, e)
  <2>1. a + len <= e /\ e < a + len + PgSize
    BY <1>0, <1>3, <1>5 DEF InUserRange
  <2>2. ASSUME NEW p \in PageStart
        PROVE  p + PgSize > a /\ p < a + len <=> s <= p /\ p < e
    <3>1. p \in Int /\ Aligned(p)
      BY PageIn
    <3>2. p < s => p + PgSize <= s
      BY <1>2, <3>1, AlignedGap
    <3>3. p < e => p + PgSize <= e
      BY <1>3, <3>1, AlignedGap
    <3> QED
      BY <1>0, <1>2, <1>3, <2>1, <3>1, <3>2, <3>3
  <2> QED
    BY <2>2 DEF Named, PagesIn
<1> QED
  BY <1>1, <1>4, <1>5 DEF s, e, InUserRange

\* The parts of MappingExact follow from the invariant: mm_unmap,
LEMMA InvUnmap == VmaInv => UnmapExact
<1> SUFFICES ASSUME VmaInv, NEW a \in Addrs, NEW len \in Lens, NEW alloc \in BOOLEAN, a + len < Top
             PROVE  LET r == MmUnmap(mm, a, len, alloc)
                        end == RoundUp(a + len)
                    IN  /\ alloc => (r.ok <=> InUserRange(a, len))
                        /\ PageMap(r.mm) = IF r.ok THEN Cleared(mm, RoundDown(a), end)
                                           ELSE PageMap(mm)
  BY DEF UnmapExact
<1> DEFINE r == MmUnmap(mm, a, len, alloc)
           s == Start(a)
           e == Ending(a, len)
<1>0. a \in 0 .. Top - 1 /\ len \in 1 .. Top - 1 /\ a \in Int /\ len \in Int
  BY VmaAssumption
<1>1. MmInv(mm) /\ Sorted(mm.vmas)
  BY DEF VmaInv, MmInv
<1>2. /\ MmInv(r.mm) /\ r.ok \in BOOLEAN
      /\ r.ok => UserAccess(s, e) /\ Areas(r.mm) = AreasAfter(mm, s, e)
      /\ ~r.ok => r.mm.vmas = mm.vmas /\ Areas(r.mm) = Areas(mm)
      /\ UserAccess(s, e) /\ alloc => r.ok
  BY <1>0, <1>1, MmUnmapSpec
<1>3. s = RoundDown(a) /\ e = RoundUp(a + len) /\ (UserAccess(s, e) <=> InUserRange(a, len))
  BY <1>0, RangeIs
<1>4. Aligned(s) /\ Aligned(e)
  BY <1>0, RangeTypes
<1> HIDE DEF r, s, e
<1>5. alloc => (r.ok <=> InUserRange(a, len))
  BY <1>2, <1>3
<1>6. CASE r.ok
  <2>1. Sorted(r.mm.vmas) /\ s < e
    BY <1>2, <1>6 DEF MmInv, UserAccess
  <2>2. PageMap(r.mm) = Cleared(mm, s, e)
    BY <1>1, <1>2, <1>4, <1>6, <2>1, PagesCut
  <2> QED
    BY <1>3, <1>5, <1>6, <2>2 DEF r
<1>7. CASE ~r.ok
  <2>1. PageMap(r.mm) = PageMap(mm)
    BY <1>2, <1>7, SamePages
  <2> QED
    BY <1>5, <1>7, <2>1 DEF r
<1> QED
  BY <1>6, <1>7

\* get_unmapped_area,
LEMMA InvGap == VmaInv => HighestGap
<1> SUFFICES ASSUME VmaInv, NEW n \in 1 .. (UserTop \div PgSize) + 1
             PROVE  LET len == n * PgSize
                        gaps == {p \in PageStart : p + len <= UserTop
                                   /\ \A q \in PagesIn(p, p + len) : PageMap(mm)[q] = Unmapped}
                        at == GetUnmappedArea(mm, len)
                    IN  IF gaps = {} THEN at = 0
                        ELSE at \in gaps /\ \A p \in gaps : p <= at
  BY DEF HighestGap
<1> DEFINE len == n * PgSize
           gaps == {p \in PageStart : p + len <= UserTop
                      /\ \A q \in PagesIn(p, p + len) : PageMap(mm)[q] = Unmapped}
           at == GetUnmappedArea(mm, len)
<1>0. PgSize \in Nat \ {0} /\ UserTop \in Nat /\ n \in Int /\ 1 <= n /\ Sorted(mm.vmas)
  BY VmaAssumption DEF VmaInv, MmInv
<1>1. len \in Int /\ Aligned(len) /\ 0 < len
  <2>1. len = PgSize * n /\ len \in Int
    BY <1>0
  <2>2. (PgSize * n) % PgSize = 0
    BY <1>0, MultipleAligned
  <2>3. 0 < PgSize * n
    BY <1>0
  <2> QED
    BY <2>1, <2>2, <2>3 DEF Aligned
<1> HIDE DEF len
<1>2. /\ at # 0 => at \in PageStart /\ at + len <= UserTop /\ Clear(mm, at, at + len)
      /\ \A p \in PageStart : p + len <= UserTop /\ Clear(mm, p, p + len) => at # 0 /\ p <= at
  BY <1>0, <1>1, GapSpec
<1> HIDE DEF at
<1>3. ASSUME NEW p \in PageStart, p + len <= UserTop
      PROVE  Clear(mm, p, p + len) <=> \A q \in PagesIn(p, p + len) : PageMap(mm)[q] = Unmapped
  <2>1. p \in Int /\ Aligned(p) /\ UserBase <= p /\ Aligned(p + len) /\ p < p + len
    BY <1>1, PageIn, AlignedSum
  <2> DEFINE e == p + len
  <2>2. Aligned(e) /\ p < e /\ e <= UserTop
    BY <1>3, <2>1
  <2> HIDE DEF e
  <2>3. Clear(mm, p, e) <=> \A q \in PagesIn(p, e) : PageMap(mm)[q] = Unmapped
    BY <1>0, <2>1, <2>2, PagesClear
  <2> QED
    BY <2>3 DEF e
<1>4. /\ at # 0 => at \in gaps
      /\ \A p \in gaps : at # 0 /\ p <= at
  BY <1>2, <1>3
<1> HIDE DEF gaps
<1>5. IF gaps = {} THEN at = 0 ELSE at \in gaps /\ \A p \in gaps : p <= at
  BY <1>4
<1> QED
  BY <1>5 DEF gaps, at, len

\* mm_map,
LEMMA InvMap == VmaInv => MapExact
<1> SUFFICES ASSUME VmaInv, NEW a \in Addrs, NEW len \in Lens, NEW fl \in MmapFlags,
                    NEW alloc \in BOOLEAN, a + len < Top
             PROVE  LET r == MmMap(mm, a, len, fl, NoShmem, alloc)
                        new == Named(a, len)
                    IN  /\ r.ok <=> /\ alloc /\ InUserRange(a, len)
                                    /\ \A p \in new : PageMap(mm)[p] = Unmapped
                        /\ PageMap(r.mm) = [p \in PageStart |->
                              IF r.ok /\ p \in new
                              THEN [fl |-> fl, shm |-> NoShmem, pos |-> 0]
                              ELSE PageMap(mm)[p]]
  BY InvGap DEF MapExact
<1> DEFINE r == MmMap(mm, a, len, fl, NoShmem, alloc)
           new == Named(a, len)
           s == Start(a)
           e == Ending(a, len)
<1>0. a \in 0 .. Top - 1 /\ len \in 1 .. Top - 1 /\ a \in Int /\ len \in Int
  BY VmaAssumption
<1>1. MmInv(mm) /\ Sorted(mm.vmas)
  BY DEF VmaInv, MmInv
<1>2. MapArgs(mm, fl, NoShmem)
  BY VmaAssumption DEF MapArgs, NoShmem, Flag
<1>3. Mapped(mm, r, s, e, fl, NoShmem, alloc)
  BY <1>0, <1>1, <1>2, MmMapSpec
<1>4. \A p \in PageStart :
        PageMap(r.mm)[p] = IF r.ok /\ s <= p /\ p < e
                           THEN [fl |-> fl, shm |-> NoShmem, pos |-> IF NoShmem = NoShmem THEN 0 ELSE p - s]
                           ELSE PageMap(mm)[p]
  BY <1>0, <1>1, <1>2, MmMapKeeps
<1>5. /\ UserAccess(s, e) <=> InUserRange(a, len)
      /\ InUserRange(a, len) => new = PagesIn(s, e)
  BY <1>0, RangeIs
<1>6. Aligned(s) /\ Aligned(e)
  BY <1>0, RangeTypes
<1>7. new \in SUBSET PageStart
  BY DEF Named
<1> HIDE DEF r, s, e, new
<1>8. r.ok <=> UserAccess(s, e) /\ alloc /\ Clear(mm, s, e)
  BY <1>3 DEF Mapped
<1>9. UserAccess(s, e) => (Clear(mm, s, e) <=> \A p \in new : PageMap(mm)[p] = Unmapped)
  <2>1. SUFFICES ASSUME UserAccess(s, e)
                 PROVE  Clear(mm, s, e) <=> \A p \in PagesIn(s, e) : PageMap(mm)[p] = Unmapped
    BY <1>5
  <2> QED
    BY <1>1, <1>6, <2>1, PagesClear DEF UserAccess
<1>10. r.ok <=> /\ alloc /\ InUserRange(a, len)
                /\ \A p \in new : PageMap(mm)[p] = Unmapped
  BY <1>5, <1>8, <1>9
<1>11. \A p \in PageStart : r.ok => (p \in new <=> s <= p /\ p < e)
  BY <1>5, <1>8 DEF PagesIn
<1>12. PageMap(r.mm) = [p \in PageStart |->
                          IF r.ok /\ p \in new
                          THEN [fl |-> fl, shm |-> NoShmem, pos |-> 0]
                          ELSE PageMap(mm)[p]]
  <2>1. PageMap(r.mm) = [p \in PageStart |-> PageMap(r.mm)[p]]
    BY PageMapFunction
  <2>2. \A p \in PageStart : PageMap(r.mm)[p] =
                          IF r.ok /\ p \in new
                          THEN [fl |-> fl, shm |-> NoShmem, pos |-> 0]
                          ELSE PageMap(mm)[p]
    BY <1>4, <1>11
  <2> QED
    BY <2>1, <2>2
<1> QED
  BY <1>10, <1>12 DEF r, new

\* and do_brk.
LEMMA InvBrk == VmaInv => BrkExact
<1> SUFFICES ASSUME VmaInv, NEW a \in Addrs, NEW alloc \in BOOLEAN
             PROVE  LET r == DoBrk(mm, a, alloc)
                        new == r.mm.brk
                        grown == PagesIn(mm.brk, new)
                    IN  IF new = mm.brk THEN PageMap(r.mm) = PageMap(mm)
                        ELSE IF new < mm.brk
                        THEN /\ mm.brkStart <= new
                             /\ PageMap(r.mm) = Cleared(mm, new, mm.brk)
                        ELSE /\ new = RoundUp(a)
                             /\ \A p \in PagesIn(mm.brk, new + PgSize) :
                                    PageMap(mm)[p] = Unmapped
                             /\ PageMap(r.mm) = [p \in PageStart |->
                                    IF p \in grown
                                    THEN [fl |-> {"w"}, shm |-> NoShmem, pos |-> 0]
                                    ELSE PageMap(mm)[p]]
  BY DEF BrkExact
<1> DEFINE r == DoBrk(mm, a, alloc)
           q == r.mm
           new == q.brk
           old == mm.brk
<1>0. a \in 0 .. Top - 1 /\ MmInv(mm) /\ BrkInv(mm) /\ Sorted(mm.vmas)
  BY VmaAssumption DEF VmaInv, MmInv
<1>1. MmInv(q) /\ BrkInv(q) /\ (Kept(mm, q) \/ Shrunk(mm, q) \/ Grown(mm, q, a))
  BY <1>0, DoBrkSpec
<1>2. new \in Int /\ old \in Int /\ Aligned(new) /\ Aligned(old) /\ Sorted(q.vmas)
  BY <1>0, <1>1 DEF BrkInv, MmInv
<1> HIDE DEF r, q
<1>3. CASE Kept(mm, q)
  <2>1. new = old /\ PageMap(q) = PageMap(mm)
    BY <1>3, SamePages DEF Kept
  <2> QED
    BY <2>1 DEF r, q
<1>4. CASE Shrunk(mm, q)
  <2>1. new < old /\ mm.brkStart <= new /\ Areas(q) = AreasAfter(mm, new, old)
    BY <1>4 DEF Shrunk
  <2>2. PageMap(q) = Cleared(mm, new, old)
    BY <1>0, <1>2, <2>1, PagesCut
  <2>3. new # old
    BY <1>2, <2>1
  <2> QED
    BY <2>1, <2>2, <2>3 DEF r, q
<1>5. CASE Grown(mm, q, a)
  <2>1. old < new /\ new = RoundUp(a) /\ Clear(mm, old, new + PgSize) /\ HeapGrown(mm, q, old, new)
    BY <1>5 DEF Grown
  <2>2. ASSUME NEW p \in PagesIn(old, new + PgSize) PROVE PageMap(mm)[p] = Unmapped
    <3>1. p \in PageStart /\ p \in Int /\ old <= p /\ p < new + PgSize
      BY PageIn DEF PagesIn
    <3>2. new + PgSize \in Int
      BY <1>2, VmaAssumption
    <3>3. \A v \in Areas(mm) : ~Holds(v, p)
      BY <1>0, <1>2, <2>1, <3>1, <3>2, VmaFacts DEF Clear, Holds
    <3> QED
      BY <1>0, <3>1, <3>3, UnmappedIff
  <2>3. PageMap(q) = [p \in PageStart |->
                        IF p \in PagesIn(old, new)
                        THEN [fl |-> {"w"}, shm |-> NoShmem, pos |-> 0]
                        ELSE PageMap(mm)[p]]
    <3>1. PageMap(q) = [p \in PageStart |-> PageMap(q)[p]]
      BY PageMapFunction
    <3>2. \A p \in PageStart : PageMap(q)[p] =
                        IF p \in PagesIn(old, new)
                        THEN [fl |-> {"w"}, shm |-> NoShmem, pos |-> 0]
                        ELSE PageMap(mm)[p]
      BY <2>1 DEF HeapGrown, HeapPage, PagesIn
    <3> QED
      BY <3>1, <3>2
  <2>4. new # old /\ ~(new < old)
    BY <1>2, <2>1
  <2> QED
    BY <2>1, <2>2, <2>3, <2>4 DEF r, q
<1> QED
  BY <1>1, <1>3, <1>4, <1>5

\* In every state of the invariant the three calls are right.
LEMMA InvMapping == VmaInv => MappingExact
BY InvUnmap, InvMap, InvBrk DEF MappingExact

\* What BackingStable says of a step from m to r.
Steady(m, r) ==
  \A p \in PageStart :
    PageMap(m)[p] # Unmapped /\ PageMap(r)[p] # Unmapped =>
      \/ PageMap(r)[p] = PageMap(m)[p]
      \/ /\ PageMap(r)[p] = Detached(PageMap(m)[p])
         /\ \E q \in PageStart : /\ q > p /\ PageMap(r)[q] = Unmapped
                                 /\ PageMap(m)[q].shm = PageMap(m)[p].shm

\* mm_unmap drops the object of a page only in a split, whose range lies above the page.
LEMMA ClearedSteady ==
  ASSUME NEW m, Sorted(m.vmas), NEW start, NEW end, Aligned(start), Aligned(end), start < end,
         NEW r, PageMap(r) = Cleared(m, start, end)
  PROVE  Steady(m, r)
<1>0. start \in Int /\ end \in Int
  BY DEF Aligned
<1>1. \A p \in PageStart :
        PageMap(r)[p] = IF start <= p /\ p < end THEN Unmapped
                        ELSE IF p \in SplitLow(m, start, end) THEN Detached(PageMap(m)[p])
                        ELSE PageMap(m)[p]
  BY DEF Cleared
<1>2. ASSUME NEW p \in PageStart, p \in SplitLow(m, start, end)
      PROVE  \E q \in PageStart : /\ q > p /\ PageMap(r)[q] = Unmapped
                                  /\ PageMap(m)[q].shm = PageMap(m)[p].shm
  <2>1. PICK v \in Areas(m) : v.s < start /\ end < v.e /\ v.s <= p /\ p < start
    BY <1>2 DEF SplitLow
  <2>2. v.s \in Int /\ v.e \in Int /\ UserBase <= v.s /\ v.e <= UserTop
    BY AreasDisjoint DEF Area, VmaT, UserAccess
  <2>3. p \in Int /\ UserBase \in Int /\ UserTop \in Int
    BY PageIn, VmaAssumption
  <2>4. start \in PageStart
    BY <1>0, <2>1, <2>2, <2>3 DEF PageStart, Aligned
  <2>5. Holds(v, p) /\ Holds(v, start)
    BY <1>0, <2>1, <2>2, <2>3 DEF Holds
  <2>6. PageMap(m)[p] = PageOf(v, p) /\ PageMap(m)[start] = PageOf(v, start)
    BY <2>4, <2>5, PageMapAt
  <2>7. PageMap(m)[p].shm = v.shm /\ PageMap(m)[start].shm = v.shm
    BY <2>6 DEF PageOf
  <2>8. PageMap(r)[start] = Unmapped /\ start > p
    BY <1>0, <1>1, <2>1, <2>3, <2>4
  <2> QED
    BY <2>4, <2>7, <2>8
<1> QED
  BY <1>1, <1>2 DEF Steady

\* A step that keeps the mapped pages, or the list.
LEMMA KeptSteady ==
  ASSUME NEW m, NEW r, PagesKept(m, r)
  PROVE  Steady(m, r)
BY DEF PagesKept, Steady

LEMMA SameSteady ==
  ASSUME NEW m, NEW r, r.vmas = m.vmas
  PROVE  Steady(m, r)
<1>1. PageMap(r) = PageMap(m)
  BY SamePages
<1> QED
  BY <1>1 DEF Steady

\* A call on what a look-up has left is a call on m.
LEMMA SteadyFrom ==
  ASSUME NEW m, NEW k, k.vmas = m.vmas, NEW r, Steady(k, r)
  PROVE  Steady(m, r)
<1>1. PageMap(k) = PageMap(m)
  BY SamePages
<1> QED
  BY <1>1 DEF Steady

\* mm_unmap and do_brk keep the invariant and the pages.
LEMMA UnmapSteady ==
  ASSUME NEW m, MmInv(m), NEW addr \in Int, NEW len \in Int, NEW alloc \in BOOLEAN
  PROVE  LET r == MmUnmap(m, addr, len, alloc)
         IN  Shape(r) /\ MmInv(r.mm) /\ SameBrk(m, r.mm) /\ Steady(m, r.mm)
<1> DEFINE r == MmUnmap(m, addr, len, alloc)
           s == Start(addr)
           e == Ending(addr, len)
<1>1. /\ MmInv(r.mm) /\ SameBrk(m, r.mm) /\ r.ok \in BOOLEAN
      /\ r.ok => UserAccess(s, e) /\ Areas(r.mm) = AreasAfter(m, s, e)
      /\ ~r.ok => r.mm.vmas = m.vmas
  BY MmUnmapSpec
<1>2. Shape(r)
  BY UnmapShape
<1>3. Aligned(s) /\ Aligned(e)
  BY RangeTypes
<1> HIDE DEF r, s, e
<1>4. CASE r.ok
  <2>1. Sorted(m.vmas) /\ Sorted(r.mm.vmas) /\ s < e
    BY <1>1, <1>4 DEF MmInv, UserAccess
  <2>2. PageMap(r.mm) = Cleared(m, s, e)
    BY <1>1, <1>3, <1>4, <2>1, PagesCut
  <2>3. Steady(m, r.mm)
    BY <1>3, <2>1, <2>2, ClearedSteady
  <2> QED
    BY <1>1, <1>2, <2>3 DEF r
<1>5. CASE ~r.ok
  BY <1>1, <1>2, <1>5, SameSteady DEF r
<1> QED
  BY <1>1, <1>4, <1>5

LEMMA BrkSteady ==
  ASSUME NEW m, MmInv(m), BrkInv(m), NEW brk \in 0 .. Top - 1, NEW alloc \in BOOLEAN
  PROVE  LET r == DoBrk(m, brk, alloc)
         IN  Shape(r) /\ MmInv(r.mm) /\ BrkInv(r.mm) /\ Steady(m, r.mm)
<1> DEFINE r == DoBrk(m, brk, alloc)
           q == r.mm
<1>1. Shape(r) /\ MmInv(q) /\ BrkInv(q) /\ (Kept(m, q) \/ Shrunk(m, q) \/ Grown(m, q, brk))
  BY DoBrkSpec
<1>2. /\ Aligned(q.brk) /\ Aligned(m.brk) /\ Sorted(m.vmas) /\ Sorted(q.vmas)
      /\ q.brk \in Int /\ m.brk \in Int
  BY <1>1 DEF BrkInv, MmInv
<1> HIDE DEF r, q
<1>3. CASE Kept(m, q)
  BY <1>1, <1>3, SameSteady DEF Kept, r, q
<1>4. CASE Shrunk(m, q)
  <2>1. q.brk < m.brk /\ Areas(q) = AreasAfter(m, q.brk, m.brk)
    BY <1>4 DEF Shrunk
  <2>2. PageMap(q) = Cleared(m, q.brk, m.brk)
    BY <1>2, <2>1, PagesCut
  <2>3. Steady(m, q)
    BY <1>2, <2>1, <2>2, ClearedSteady
  <2> QED
    BY <1>1, <2>3 DEF r, q
<1>5. CASE Grown(m, q, brk)
  <2>1. Clear(m, m.brk, q.brk + PgSize) /\ HeapGrown(m, q, m.brk, q.brk)
    BY <1>5 DEF Grown
  <2>2. ASSUME NEW p \in PageStart, m.brk <= p, p < q.brk PROVE PageMap(m)[p] = Unmapped
    <3>1. p \in Int /\ PgSize \in Nat
      BY PageIn, VmaAssumption
    <3>2. \A v \in Areas(m) : v.s \in Int /\ v.e \in Int
      BY <1>2, AreasDisjoint DEF Area, VmaT
    <3>3. \A v \in Areas(m) : ~Holds(v, p)
      BY <1>2, <2>1, <2>2, <3>1, <3>2 DEF Clear, Holds
    <3> QED
      BY <1>2, <3>3, UnmappedIff
  <2>3. PagesKept(m, q)
    BY <2>1, <2>2 DEF HeapGrown, PagesKept
  <2> QED
    BY <1>1, <2>3, KeptSteady DEF r, q
<1> QED
  BY <1>1, <1>3, <1>4, <1>5

\* A call keeps the invariant and, unless it starts a new image, the pages.
CallKeeps(r) == Shape(r) /\ MmInv(r.mm) /\ BrkInv(r.mm) /\ (r.mm = InitMm \/ Steady(mm, r.mm))

\* A step that is such a call.
LEMMA CallStep ==
  ASSUME NEW r, CallKeeps(r), Call(r)
  PROVE  VmaInv' /\ (mm' = InitMm \/ Steady(mm, mm'))
<1>1. mm' = r.mm /\ halted' = r.crash
  BY DEF Call
<1> QED
  BY <1>1 DEF CallKeeps, Shape, VmaInv

\* The invariant of the break depends on the break only.
LEMMA BrkSame ==
  ASSUME NEW m, BrkInv(m), NEW r, SameBrk(m, r)
  PROVE  BrkInv(r)
BY DEF BrkInv, SameBrk

\* Reading the argument of a call changes the cache only.
LEMMA CopyInKeeps ==
  ASSUME VmaInv, NEW st \in Stores
  PROVE  LET k == CopyIn(st)
         IN  MmInv(k) /\ BrkInv(k) /\ k.vmas = mm.vmas /\ Areas(k) = Areas(mm)
<1>1. st \in Int /\ MmInv(mm) /\ BrkInv(mm)
  BY VmaAssumption DEF VmaInv
<1>2. /\ MmInv(Find(mm, st)) /\ Find(mm, st).vmas = mm.vmas
      /\ Areas(Find(mm, st)) = Areas(mm) /\ SameBrk(mm, Find(mm, st))
  BY <1>1, FindInv
<1> QED
  BY <1>1, <1>2, BrkSame DEF CopyIn

\* do_mmap and do_shmem.
LEMMA MmapKeeps ==
  ASSUME VmaInv, NEW st \in Stores, NEW a \in Addrs, NEW len \in Lens, NEW fl \in SUBSET Flag,
         NEW shm \in 0 .. NShm, shm # NoShmem => \A v \in Areas(mm) : v.shm # shm,
         NEW alloc \in BOOLEAN
  PROVE  CallKeeps(DoMmap(CopyIn(st), a, len, fl, shm, alloc))
<1> DEFINE k == CopyIn(st)
           r == DoMmap(k, a, len, fl, shm, alloc)
<1>1. MmInv(k) /\ BrkInv(k) /\ k.vmas = mm.vmas /\ Areas(k) = Areas(mm)
  BY CopyInKeeps
<1>2. a \in Int /\ len \in Int
  BY VmaAssumption
<1> HIDE DEF k
<1>3. shm # NoShmem => \A w \in Areas(k) : w.shm # shm
  BY <1>1
<1>4. Shape(r) /\ MmInv(r.mm) /\ SameBrk(k, r.mm) /\ PagesKept(k, r.mm)
  BY <1>1, <1>2, <1>3, DoMmapSpec
<1> HIDE DEF r
<1>5. Steady(mm, r.mm)
  <2>1. Steady(k, r.mm)
    BY <1>4, KeptSteady
  <2> QED
    BY <1>1, <2>1, SteadyFrom
<1>6. BrkInv(r.mm)
  BY <1>1, <1>4, BrkSame
<1> QED
  BY <1>4, <1>5, <1>6 DEF CallKeeps, k, r

\* What a look-up leaves.
LEMMA FindKeeps ==
  ASSUME VmaInv, NEW a \in Int, NEW ok \in BOOLEAN
  PROVE  CallKeeps(Result(Find(mm, a), ok))
<1>1. /\ MmInv(Find(mm, a)) /\ Find(mm, a).vmas = mm.vmas /\ SameBrk(mm, Find(mm, a))
  BY FindInv DEF VmaInv
<1>2. BrkInv(Find(mm, a)) /\ Steady(mm, Find(mm, a))
  BY <1>1, BrkSame, SameSteady DEF VmaInv
<1> QED
  BY <1>1, <1>2, ResultShape DEF CallKeeps

\* Every step.
LEMMA StepKeeps ==
  ASSUME VmaInv, Next
  PROVE  VmaInv' /\ (mm' = InitMm \/ Steady(mm, mm'))
<1>0. MmInv(mm) /\ BrkInv(mm) /\ NShm \in Nat
  BY VmaAssumption DEF VmaInv
<1>1. CASE Mmap
  <2>1. PICK st \in Stores, a \in Addrs, len \in Lens, fl \in MmapFlags, alloc \in BOOLEAN :
          Call(DoMmap(CopyIn(st), a, len, fl, NoShmem, alloc))
    BY <1>1 DEF Mmap
  <2>2. fl \in SUBSET Flag /\ NoShmem \in 0 .. NShm
    BY <1>0, VmaAssumption DEF Flag, NoShmem
  <2>3. CallKeeps(DoMmap(CopyIn(st), a, len, fl, NoShmem, alloc))
    BY <2>2, MmapKeeps
  <2> QED
    BY <2>1, <2>3, CallStep
<1>2. CASE Shmem
  <2>1. PICK st \in Stores, a \in Addrs, len \in Lens, k \in FreshShm, alloc \in BOOLEAN :
          Call(DoMmap(CopyIn(st), a, len, {"w"}, k, alloc))
    BY <1>2 DEF Shmem
  <2>2. {"w"} \in SUBSET Flag /\ k \in 0 .. NShm /\ \A v \in Areas(mm) : v.shm # k
    BY <1>0 DEF Flag, FreshShm
  <2>3. CallKeeps(DoMmap(CopyIn(st), a, len, {"w"}, k, alloc))
    BY <2>2, MmapKeeps
  <2> QED
    BY <2>1, <2>3, CallStep
<1>3. CASE Munmap
  <2>1. PICK a \in Addrs, len \in Lens, alloc \in BOOLEAN : Call(MmUnmap(mm, a, len, alloc))
    BY <1>3 DEF Munmap
  <2> DEFINE r == MmUnmap(mm, a, len, alloc)
  <2>2. a \in Int /\ len \in Int
    BY VmaAssumption
  <2>3. Shape(r) /\ MmInv(r.mm) /\ SameBrk(mm, r.mm) /\ Steady(mm, r.mm)
    BY <1>0, <2>2, UnmapSteady
  <2> HIDE DEF r
  <2>4. CallKeeps(r)
    BY <1>0, <2>3, BrkSame DEF CallKeeps
  <2> QED
    BY <2>1, <2>4, CallStep DEF r
<1>4. CASE Brk
  <2>1. PICK st \in Stores, a \in Addrs, alloc \in BOOLEAN : Call(DoBrk(CopyIn(st), a, alloc))
    BY <1>4 DEF Brk
  <2> DEFINE k == CopyIn(st)
             r == DoBrk(k, a, alloc)
  <2>2. a \in 0 .. Top - 1
    BY VmaAssumption
  <2>3. MmInv(k) /\ BrkInv(k) /\ k.vmas = mm.vmas
    BY CopyInKeeps
  <2> HIDE DEF k
  <2>4. Shape(r) /\ MmInv(r.mm) /\ BrkInv(r.mm) /\ Steady(k, r.mm)
    BY <2>2, <2>3, BrkSteady
  <2> HIDE DEF r
  <2>5. Steady(mm, r.mm)
    BY <2>3, <2>4, SteadyFrom
  <2>6. CallKeeps(r)
    BY <2>4, <2>5 DEF CallKeeps
  <2> QED
    BY <2>1, <2>6, CallStep DEF k, r
<1>5. CASE Refused
  <2>1. PICK st \in Stores : Call(Result(Find(mm, st), FALSE))
    BY <1>5 DEF Refused, Refuse, CopyIn
  <2>2. st \in Int
    BY VmaAssumption
  <2> QED
    BY <2>1, <2>2, FindKeeps, CallStep
<1>6. CASE Lookup
  <2>1. PICK a \in Addrs : Call(Result(Find(mm, a), TRUE))
    BY <1>6 DEF Lookup
  <2>2. a \in Int
    BY VmaAssumption
  <2> QED
    BY <2>1, <2>2, FindKeeps, CallStep
<1>7. CASE Fork
  <2> DEFINE c == \E v \in Areas(mm) : Dangles(v)
             q == DupMmap(mm)
             r == [Result(q, TRUE) EXCEPT !.crash = c]
  <2>1. Call(r)
    BY <1>7 DEF Fork
  <2>2. c \in BOOLEAN
    OBVIOUS
  <2>3. MmInv(q) /\ SameBrk(mm, q) /\ q.vmas = mm.vmas
    BY <1>0, DupInv
  <2> HIDE DEF c, q
  <2>4. Shape(r) /\ r.mm = q
    BY <2>2, CrashShape
  <2> HIDE DEF r
  <2>5. CallKeeps(r)
    BY <1>0, <2>3, <2>4, BrkSame, SameSteady DEF CallKeeps
  <2> QED
    BY <2>1, <2>5, CallStep
<1>8. CASE Exec
  <2> DEFINE c == \E v \in Areas(mm) : Dangles(v)
             r == [Result(InitMm, TRUE) EXCEPT !.crash = c]
  <2>1. Call(r)
    BY <1>8 DEF Exec
  <2>2. c \in BOOLEAN
    OBVIOUS
  <2> HIDE DEF c
  <2>4. Shape(r) /\ r.mm = InitMm
    BY <2>2, CrashShape
  <2> HIDE DEF r
  <2>5. CallKeeps(r)
    BY <2>4, InitMmInv DEF CallKeeps
  <2> QED
    BY <2>1, <2>5, CallStep
<1> QED
  BY <1>1, <1>2, <1>3, <1>4, <1>5, <1>6, <1>7, <1>8 DEF Next

\* VmaInv holds in every state.
THEOREM AddressSpaceInvariant == Spec => []VmaInv
<1>1. Init => VmaInv
  BY InitMmInv DEF Init, VmaInv
<1>2. VmaInv /\ [Next]_vars => VmaInv'
  <2>1. ASSUME VmaInv, UNCHANGED vars PROVE VmaInv'
    BY <2>1 DEF VmaInv, MmInv, OneBase, CacheIn, Areas, BrkInv, vars
  <2> QED
    BY <2>1, StepKeeps
<1> QED
  BY <1>1, <1>2, PTL DEF Spec

\* find_vma and user_mem_check are right in every state, for every size of the address
\* space and of the pages, whatever was mapped, split, trimmed, cached or inherited before.
THEOREM LookupsAlwaysExact == Spec => []LookupsExact
BY AddressSpaceInvariant, InvLookups, PTL

\* mm_unmap, mm_map with get_unmapped_area, and do_brk do to the pages exactly what is asked
\* of them or nothing, in every state that earlier calls can leave.
THEOREM MappingAlwaysExact == Spec => []MappingExact
BY AddressSpaceInvariant, InvMapping, PTL

\* A page that stays mapped keeps its permissions and its place in the shared object through
\* every call and through fork; only a split of a shared area takes the object away, from
\* pages below a range that was unmapped.
THEOREM BackingKept == Spec => BackingStable
<1>1. VmaInv /\ [Next]_vars =>
        [LET old == PageMap(mm)
             new == PageMap(mm')
         IN  mm'.vmas # mm.vmas /\ mm' # InitMm =>
             \A p \in PageStart :
                old[p] # Unmapped /\ new[p] # Unmapped =>
                   \/ new[p] = old[p]
                   \/ /\ new[p] = Detached(old[p])
                      /\ \E q \in PageStart : /\ q > p /\ new[q] = Unmapped
                                              /\ old[q].shm = old[p].shm]_vars
  <2>1. ASSUME VmaInv, Next PROVE mm' = InitMm \/ Steady(mm, mm')
    BY <2>1, StepKeeps
  <2> QED
    BY <2>1 DEF Steady
<1> QED
  BY <1>1, AddressSpaceInvariant, PTL DEF Spec, BackingStable
=============================================================================
