--------------------------- MODULE BuddyPmmProofs ----------------------------
(***************************************************************************)
(* Proofs about module BuddyPmm, for every memory, every division of it    *)
(* into zones and every largest order.                                     *)
(*                                                                         *)
(* That each page has one owner is not inductive: a free block may only be *)
(* taken apart or put together where it lies at a multiple of its size in  *)
(* one zone.  BuddyInv says that of every free block (AreaInv), of the     *)
(* block that is split (SplitInv) or merged (MergeInv), of what is left of *)
(* the range that is freed (RangeInv), and of init_memmap, which fills a   *)
(* zone with blocks of falling order (MemmapInv).  Merged says that two    *)
(* halves of a block are never both free; that alone makes RoomIsFound     *)
(* true, by an argument about the smallest free block in a free range.     *)
(* Multiples are products here (Aligned), and the bit and modulo           *)
(* operations of the code are related to them once (AlignedMod,            *)
(* BitAligned); after that the arithmetic is linear.                       *)
(***************************************************************************)
EXTENDS BuddyPmm, InductionLemmas

\* OrderSize is the function its recursive definition describes.
LEMMA SizeFacts ==
  /\ \A o \in 0 .. MaxOrder + 1 : OrderSize[o] \in Nat /\ OrderSize[o] >= 1
  /\ OrderSize[0] = 1
  /\ \A o \in 1 .. MaxOrder + 1 : OrderSize[o] = 2 * OrderSize[o - 1]
  /\ \A o \in 0 .. MaxOrder : OrderSize[o + 1] = 2 * OrderSize[o]
<1> DEFINE n == MaxOrder + 1
           T == Nat \ {0}
           F == [k \in 1 .. n |-> [x \in T |-> 2 * x]]
           E(h) == h = [o \in 0 .. MaxOrder + 1 |-> IF o = 0 THEN 1 ELSE 2 * h[o - 1]]
<1>1. n \in Nat /\ 1 \in T /\ F \in [1 .. n -> [T -> T]]
  BY BuddyAssumption
<1>2. PICK g : LoopsBy(g, n, T, 1, F)
  <2> HIDE DEF n, T, F
  <2> QED
    BY <1>1, LoopFunctionExists
<1>3. g \in [0 .. n -> T] /\ g[0] = 1 /\ \A k \in 1 .. n : g[k] = F[k][g[k - 1]]
  BY <1>2 DEF LoopsBy
<1>4. ASSUME NEW k \in 1 .. n PROVE g[k - 1] \in T /\ g[k] = 2 * g[k - 1]
  <2>1. k - 1 \in 0 .. n
    BY <1>1
  <2>2. g[k - 1] \in T /\ F[k] = [x \in T |-> 2 * x]
    BY <1>3, <2>1
  <2> QED
    BY <1>3, <2>2
<1>5. E(g)
  BY <1>3, <1>4
<1>6. OrderSize = CHOOSE h : E(h)
  BY Zenon DEF OrderSize
<1>7. E(OrderSize)
  BY <1>5, <1>6, Zenon
<1>8. /\ OrderSize[0] = 1
      /\ \A o \in 1 .. n : OrderSize[o] = 2 * OrderSize[o - 1]
  BY <1>1, <1>7
<1> DEFINE S == {o \in 0 .. n : OrderSize[o] \in Nat /\ OrderSize[o] >= 1}
<1>9. \A o \in 0 .. n : o \in S
  <2>1. 0 \in S
    BY <1>1, <1>8
  <2>2. \A o \in 1 .. n : o - 1 \in S => o \in S
    BY <1>1, <1>8
  <2> HIDE DEF S, n
  <2> QED
    BY <1>1, <2>1, <2>2, UpToInduction
<1>10. \A o \in 0 .. MaxOrder : o + 1 \in 1 .. n /\ (o + 1) - 1 = o
  BY BuddyAssumption
<1>11. \A o \in 0 .. MaxOrder : OrderSize[o + 1] = 2 * OrderSize[o]
  BY <1>8, <1>10
<1> QED
  BY <1>8, <1>9, <1>11

\* x is a multiple of the size of a block of order o.
Aligned(x, o) == \E k \in Int : x = k * OrderSize[o]

LEMMA SizeType ==
  ASSUME NEW o \in 0 .. MaxOrder + 1
  PROVE  o \in Nat /\ OrderSize[o] \in Nat /\ OrderSize[o] >= 1
BY SizeFacts, BuddyAssumption

\* Sums and differences of multiples.
LEMMA AlignedAdd ==
  ASSUME NEW o \in 0 .. MaxOrder + 1, NEW x \in Int, NEW y \in Int,
         Aligned(x, o), Aligned(y, o)
  PROVE  Aligned(x + y, o) /\ Aligned(x - y, o)
<1> DEFINE s == OrderSize[o]
<1>1. s \in Nat
  BY SizeType
<1>2. PICK j \in Int, k \in Int : x = j * s /\ y = k * s
  BY DEF Aligned
<1> HIDE DEF s
<1>3. x + y = (j + k) * s /\ x - y = (j - k) * s
  BY <1>1, <1>2
<1>4. j + k \in Int /\ j - k \in Int
  OBVIOUS
<1> QED
  BY <1>3, <1>4 DEF Aligned, s

\* Two multiples are a whole block apart.
LEMMA AlignedGap ==
  ASSUME NEW o \in 0 .. MaxOrder + 1, NEW x \in Int, NEW y \in Int,
         Aligned(x, o), Aligned(y, o), x < y
  PROVE  x + OrderSize[o] <= y
<1> DEFINE s == OrderSize[o]
<1>1. s \in Nat /\ s >= 1
  BY SizeType
<1>2. PICK j \in Int, k \in Int : x = j * s /\ y = k * s
  BY DEF Aligned
<1> HIDE DEF s
<1>3. j + 1 <= k
  BY <1>1, <1>2
<1>4. j * s + s <= k * s
  BY <1>1, <1>3
<1> QED
  BY <1>2, <1>4 DEF s

LEMMA AlignedSelf ==
  ASSUME NEW o \in 0 .. MaxOrder + 1
  PROVE  Aligned(0, o) /\ Aligned(OrderSize[o], o)
<1>1. OrderSize[o] \in Nat /\ OrderSize[o] = 1 * OrderSize[o] /\ 0 = 0 * OrderSize[o]
  BY SizeType
<1> QED
  BY <1>1 DEF Aligned

\* A multiple of a size is one of every smaller size.
LEMMA AlignedDown ==
  ASSUME NEW o \in 0 .. MaxOrder + 1, NEW x \in Int, Aligned(x, o),
         NEW k \in 0 .. o
  PROVE  Aligned(x, k)
<1> DEFINE S == {i \in 0 .. o : Aligned(x, o - i)}
<1>0. o \in Nat /\ MaxOrder \in Nat
  BY BuddyAssumption
<1>1. 0 \in S
  BY <1>0
<1>2. ASSUME NEW i \in 1 .. o, i - 1 \in S PROVE i \in S
  <2>1. Aligned(x, o - (i - 1))
    BY <1>2
  <2>2. o - (i - 1) \in 1 .. MaxOrder + 1 /\ (o - (i - 1)) - 1 = o - i /\ o - i \in 0 .. MaxOrder + 1
    BY <1>0
  <2> DEFINE s == OrderSize[o - i]
  <2>3. s \in Nat /\ OrderSize[o - (i - 1)] = 2 * s
    BY <2>2, SizeFacts
  <2>4. PICK j \in Int : x = j * OrderSize[o - (i - 1)]
    BY <2>1 DEF Aligned
  <2> HIDE DEF s
  <2>5. x = (2 * j) * s
    BY <2>3, <2>4
  <2>6. Aligned(x, o - i)
    BY <2>5 DEF Aligned, s
  <2> QED
    BY <2>6, <1>0
<1>3. \A i \in 0 .. o : i \in S
  <2> HIDE DEF S
  <2> QED
    BY <1>0, <1>1, <1>2, UpToInduction
<1>4. o - k \in 0 .. o /\ o - (o - k) = k
  BY <1>0
<1> QED
  BY <1>3, <1>4

\* A larger block consists of smaller ones.
LEMMA SizeMonotone ==
  ASSUME NEW o \in 0 .. MaxOrder + 1, NEW k \in 0 .. o
  PROVE  OrderSize[k] <= OrderSize[o] /\ Aligned(OrderSize[o], k) /\ k \in 0 .. MaxOrder + 1
<1>1. k \in 0 .. MaxOrder + 1
  BY BuddyAssumption
<1>2. /\ OrderSize[k] \in Nat /\ OrderSize[o] \in Nat
      /\ OrderSize[k] >= 1 /\ OrderSize[o] >= 1
  BY <1>1, SizeType
<1>3. Aligned(0, k) /\ Aligned(OrderSize[o], k)
  BY <1>1, <1>2, AlignedSelf, AlignedDown
<1>4. 0 + OrderSize[k] <= OrderSize[o]
  BY <1>1, <1>2, <1>3, AlignedGap
<1> QED
  BY <1>1, <1>2, <1>3, <1>4

\* The assert page_idx % (1 << order) == 0.
LEMMA AlignedMod ==
  ASSUME NEW o \in 0 .. MaxOrder + 1, NEW x \in Nat
  PROVE  Aligned(x, o) <=> x % OrderSize[o] = 0
<1> DEFINE s == OrderSize[o]
<1>1. s \in Nat /\ s >= 1
  BY SizeType
<1>2. ASSUME NEW k \in Int, x = k * s PROVE x % s = 0
  <2> HIDE DEF s
  <2> QED
    BY <1>1, <1>2
<1>3. x % s = 0 => x = (x \div s) * s /\ x \div s \in Int
  <2> HIDE DEF s
  <2>1. x = s * (x \div s) + (x % s) /\ x \div s \in Int
    BY <1>1
  <2> QED
    BY <1>1, <2>1
<1> QED
  BY <1>2, <1>3 DEF Aligned

\* page_idx & (1 << order) tells which half of the next larger block a block is.
LEMMA BitAligned ==
  ASSUME NEW o \in Order, NEW x \in Nat, Aligned(x, o)
  PROVE  /\ Bit(x, o) \in {0, 1}
         /\ Bit(x, o) = 0 => Aligned(x, o + 1)
         /\ Bit(x, o) = 1 => /\ Aligned(x - OrderSize[o], o + 1)
                             /\ Aligned(x + OrderSize[o], o + 1)
                             /\ x >= OrderSize[o]
<1> DEFINE s == OrderSize[o]
<1>0. o \in 0 .. MaxOrder + 1 /\ o \in 0 .. MaxOrder /\ o + 1 \in 0 .. MaxOrder + 1
  BY BuddyAssumption DEF Order
<1>1. s \in Nat /\ s >= 1 /\ OrderSize[o + 1] = 2 * s
  BY <1>0, SizeType, SizeFacts
<1>2. PICK k \in Int : x = k * s
  BY DEF Aligned
<1> HIDE DEF s
<1>3. x \div s = k
  BY <1>1, <1>2
<1>4. Bit(x, o) = k % 2
  BY <1>3 DEF Bit, s
<1>5. k \in Nat
  BY <1>1, <1>2
<1>6. CASE k % 2 = 0
  <2>1. PICK j \in Int : k = 2 * j
    BY <1>5, <1>6
  <2>2. x = j * OrderSize[o + 1]
    BY <1>1, <1>2, <2>1
  <2> QED
    BY <2>2, <1>4, <1>6 DEF Aligned
<1>7. CASE k % 2 = 1
  <2>1. PICK j \in Int : k = 2 * j + 1
    BY <1>5, <1>7
  <2>2. x - s = j * OrderSize[o + 1] /\ x + s = (j + 1) * OrderSize[o + 1]
    BY <1>1, <1>2, <2>1
  <2>3. x >= s
    BY <1>1, <1>2, <1>5, <1>7
  <2>4. j + 1 \in Int
    OBVIOUS
  <2> QED
    BY <2>2, <2>3, <2>4, <1>4, <1>7 DEF Aligned, s
<1>8. k % 2 \in {0, 1}
  BY <1>5
<1> QED
  BY <1>6, <1>7, <1>8

\* A block of order o that begins at page p lies in zone z, at a multiple of its size.
Sits(p, o, z) ==
  /\ o \in Order /\ p \in Page
  /\ MemBase[z] <= p /\ p + OrderSize[o] <= MemBase[z] + ZoneSize[z]
  /\ Aligned(p - MemBase[z], o)

Zoned == {p \in Page : InZone(p)}

\* The pages of the blocks in lists fl, and their first pages.
Cover(fl) == {q \in Page : \E o \in Order : \E b \in fl[o] : q \in Block(b, o)}
Heads(fl) == UNION {fl[o] : o \in Order}

\* The pages that the counts nf of blocks stand for.
PagesIn(nf) ==
  LET Sum[o \in 0 .. MaxOrder + 1] ==
        IF o = 0 THEN 0 ELSE Sum[o - 1] + nf[o - 1] * OrderSize[o - 1]
  IN Sum[MaxOrder + 1]

\* The free lists hold blocks that do not overlap, with the counts nf and the orders pr.
AreaInv(fl, nf, pr) ==
  /\ fl \in [Order -> SUBSET Page] /\ nf \in [Order -> 0 .. NPage] /\ pr \in [Page -> Order]
  /\ \A o \in Order : \A p \in fl[o] : \E z \in Zone : Sits(p, o, z)
  /\ \A o, u \in Order : \A p \in fl[o], q \in fl[u] : q \in Block(p, o) => p = q /\ o = u
  /\ \A o \in Order : nf[o] = Cardinality(fl[o]) /\ \A p \in fl[o] : pr[p] = o
  /\ PagesIn(nf) = Cardinality(Cover(fl))

\* The two halves of a block are not both free.
Merged(fl) ==
  \A z \in Zone, o \in 0 .. MaxOrder - 1, p \in Page :
    Sits(p, o + 1, z) => ~ (p \in fl[o] /\ p + OrderSize[o] \in fl[o])

\* Every page of a zone is held, in flight or in a free block, and only one of these.
Owned(h, f, c) ==
  /\ h \cap f = {} /\ h \cap c = {} /\ f \cap c = {}
  /\ h \cup f \cup c = Zoned

\* The zones are filled from the front with blocks of falling order.
MemmapInv ==
  /\ fr.order \in Order
  /\ fr.base >= MemBase[fr.zone] /\ Aligned(fr.base - MemBase[fr.zone], fr.order)
  /\ fr.base + fr.n = MemBase[fr.zone] + ZoneSize[fr.zone]
  /\ fr.order < MaxOrder => fr.n < OrderSize[fr.order + 1]
  /\ \A o \in Order : \A p \in freeList[o] : p \in PagesOf(fr.zone) =>
       o >= fr.order /\ (o = fr.order /\ o < MaxOrder => fr.n < OrderSize[o])

\* The block that is split, of which a part is wanted.
SplitInv ==
  /\ al.order <= al.cur /\ 1 <= al.n /\ al.n <= OrderSize[al.order]
  /\ \E z \in Zone : Sits(al.page, al.cur, z)

\* A range that is freed lies in one zone and begins at a multiple of the next block.
RangeInv ==
  /\ fr.n <= OrderSize[MaxOrder]
  /\ \E z \in Zone : /\ MemBase[z] <= fr.base
                     /\ fr.base + fr.n <= MemBase[z] + ZoneSize[z]
                     /\ Aligned(fr.base - MemBase[z], fr.order)

\* The block that is merged is no part of the range that is still to be freed.
MergeInv ==
  /\ mg.then # "idle" /\ Sits(MemBase[mg.zone] + mg.idx, mg.order, mg.zone)
  /\ Block(MemBase[mg.zone] + mg.idx, mg.order) \cap (fr.base .. fr.base + fr.n - 1) = {}

BuddyInv ==
  /\ TypeOK /\ op # "failed"
  /\ AreaInv(freeList, nrFree, property)
  /\ flagged = Heads(freeList) \cup (IF op = "split" THEN {al.page} ELSE {})
  /\ Merged(freeList)
  /\ Owned(held, InFlight, Cover(freeList))
  /\ op = "memmap" => MemmapInv
  /\ op = "split" => SplitInv
  /\ op \in {"round", "rest", "merge"} => RangeInv
  /\ op = "merge" => MergeInv

-----------------------------------------------------------------------------
\* The loop of buddy_nr_free_pages.
LEMMA SumFacts ==
  ASSUME NEW nf \in [Order -> Int]
  PROVE  \E g : /\ LoopsBy(g, MaxOrder + 1, Int, 0,
                           [k \in 1 .. MaxOrder + 1 |->
                              [x \in Int |-> x + nf[k - 1] * OrderSize[k - 1]]])
                /\ PagesIn(nf) = g[MaxOrder + 1]
<1> DEFINE n == MaxOrder + 1
           F == [k \in 1 .. n |-> [x \in Int |-> x + nf[k - 1] * OrderSize[k - 1]]]
           E(h) == h = [o \in 0 .. MaxOrder + 1 |->
                          IF o = 0 THEN 0 ELSE h[o - 1] + nf[o - 1] * OrderSize[o - 1]]
           w == CHOOSE h : E(h)
<1>0. n \in Nat /\ 0 \in Int
  BY BuddyAssumption
<1>1. ASSUME NEW k \in 1 .. n
      PROVE  k - 1 \in 0 .. n /\ nf[k - 1] * OrderSize[k - 1] \in Int
  <2>1. k - 1 \in Order /\ k - 1 \in 0 .. n
    BY <1>0, BuddyAssumption DEF Order
  <2>2. nf[k - 1] \in Int /\ OrderSize[k - 1] \in Int
    BY <2>1, SizeType
  <2> QED
    BY <2>1, <2>2
<1>2. F \in [1 .. n -> [Int -> Int]]
  BY <1>1
<1>3. PICK g : LoopsBy(g, n, Int, 0, F)
  <2> HIDE DEF n, F
  <2> QED
    BY <1>0, <1>2, LoopFunctionExists
<1>4. g \in [0 .. n -> Int] /\ g[0] = 0 /\ \A k \in 1 .. n : g[k] = F[k][g[k - 1]]
  BY <1>3 DEF LoopsBy
<1>5. ASSUME NEW k \in 1 .. n PROVE g[k] = g[k - 1] + nf[k - 1] * OrderSize[k - 1]
  <2>1. g[k - 1] \in Int
    BY <1>1, <1>4
  <2>2. F[k] = [x \in Int |-> x + nf[k - 1] * OrderSize[k - 1]]
    OBVIOUS
  <2> QED
    BY <1>4, <2>1, <2>2
<1>6. E(g)
  <2>1. g = [o \in 0 .. n |-> g[o]]
    BY <1>4
  <2>2. \A o \in 0 .. n : g[o] = IF o = 0 THEN 0 ELSE g[o - 1] + nf[o - 1] * OrderSize[o - 1]
    BY <1>0, <1>4, <1>5
  <2> QED
    BY <2>1, <2>2
<1>7. E(w)
  BY <1>6, Zenon
<1>8. PagesIn(nf) = w[MaxOrder + 1]
  BY Zenon DEF PagesIn
<1>9. LoopsBy(w, n, Int, 0, F)
  <2> DEFINE S == {o \in 0 .. n : w[o] = g[o]}
  <2>1. w[0] = 0 /\ \A k \in 1 .. n : w[k] = w[k - 1] + nf[k - 1] * OrderSize[k - 1]
    <3> HIDE DEF w
    <3> QED
      BY <1>0, <1>7
  <2>2. 0 \in S
    BY <1>0, <1>4, <2>1
  <2>3. \A k \in 1 .. n : k - 1 \in S => k \in S
    BY <1>5, <2>1
  <2>4. \A k \in 0 .. n : k \in S
    <3> HIDE DEF S, n
    <3> QED
      BY <1>0, <2>2, <2>3, UpToInduction
  <2>5. w = [o \in 0 .. n |-> w[o]]
    BY <1>7
  <2>6. w = g
    BY <1>4, <2>4, <2>5
  <2> QED
    BY <1>3, <2>6
<1> QED
  BY <1>8, <1>9

\* From nf to ng the count of order o changes by d.
CountMoves(nf, ng, o, d) ==
  /\ nf \in [Order -> Int] /\ ng \in [Order -> Int]
  /\ ng[o] = nf[o] + d /\ \A u \in Order : u # o => ng[u] = nf[u]

LEMMA SumChange ==
  ASSUME NEW nf, NEW ng, NEW o \in Order, NEW d \in Int,
         CountMoves(nf, ng, o, d)
  PROVE  /\ PagesIn(nf) \in Int /\ PagesIn(ng) = PagesIn(nf) + d * OrderSize[o]
<1> DEFINE n == MaxOrder + 1
           F == [k \in 1 .. n |-> [x \in Int |-> x + nf[k - 1] * OrderSize[k - 1]]]
           G == [k \in 1 .. n |-> [x \in Int |-> x + ng[k - 1] * OrderSize[k - 1]]]
<1>0. n \in Nat /\ o \in 0 .. n - 1
  BY BuddyAssumption DEF Order
<1>a. /\ nf \in [Order -> Int] /\ ng \in [Order -> Int]
      /\ ng[o] = nf[o] + d /\ \A u \in Order : u # o => ng[u] = nf[u]
  BY DEF CountMoves
<1>1. PICK f : LoopsBy(f, n, Int, 0, F) /\ PagesIn(nf) = f[n]
  BY <1>a, SumFacts
<1>2. PICK g : LoopsBy(g, n, Int, 0, G) /\ PagesIn(ng) = g[n]
  BY <1>a, SumFacts
<1>3. f \in [0 .. n -> Int] /\ f[0] = 0 /\ \A k \in 1 .. n : f[k] = F[k][f[k - 1]]
  BY <1>1 DEF LoopsBy
<1>4. g \in [0 .. n -> Int] /\ g[0] = 0 /\ \A k \in 1 .. n : g[k] = G[k][g[k - 1]]
  BY <1>2 DEF LoopsBy
<1>5. ASSUME NEW k \in 1 .. n
      PROVE  /\ f[k - 1] \in Int /\ g[k - 1] \in Int /\ k - 1 \in Order /\ OrderSize[k - 1] \in Int
             /\ f[k] = f[k - 1] + nf[k - 1] * OrderSize[k - 1]
             /\ g[k] = g[k - 1] + ng[k - 1] * OrderSize[k - 1]
  <2>1. k - 1 \in 0 .. n /\ k - 1 \in Order
    BY <1>0, BuddyAssumption DEF Order
  <2>2. f[k - 1] \in Int /\ g[k - 1] \in Int
    BY <1>3, <1>4, <2>1
  <2>5. OrderSize[k - 1] \in Int
    BY <2>1, SizeType
  <2>3. F[k] = [x \in Int |-> x + nf[k - 1] * OrderSize[k - 1]]
    OBVIOUS
  <2>4. G[k] = [x \in Int |-> x + ng[k - 1] * OrderSize[k - 1]]
    OBVIOUS
  <2> QED
    BY <1>3, <1>4, <2>1, <2>2, <2>3, <2>4, <2>5
<1> DEFINE D == d * OrderSize[o]
<1>6. OrderSize[o] \in Int /\ D \in Int
  BY <1>0, SizeType
<1> DEFINE S == {k \in 0 .. n : g[k] = f[k] + IF k > o THEN D ELSE 0}
<1>7. 0 \in S
  BY <1>0, <1>3, <1>4
<1>8. ASSUME NEW k \in 1 .. n, k - 1 \in S PROVE k \in S
  <2>1. g[k - 1] = f[k - 1] + IF k - 1 > o THEN D ELSE 0
    BY <1>8
  <2> DEFINE a == f[k - 1]
             b == g[k - 1]
             s == OrderSize[k - 1]
             x == nf[k - 1]
             y == ng[k - 1]
  <2>2. a \in Int /\ b \in Int /\ s \in Int /\ x \in Int /\ y \in Int
    BY <1>a, <1>5
  <2>3. f[k] = a + x * s /\ g[k] = b + y * s
    BY <1>5
  <2>4. CASE k - 1 = o
    <3>1. y = x + d /\ D = d * s
      BY <1>a, <2>4
    <3>2. b = a
      BY <2>1, <2>4, <2>2, <1>0
    <3> HIDE DEF a, b, s, x, y, D
    <3>3. y * s = x * s + D
      BY <2>2, <3>1
    <3>4. g[k] = f[k] + D
      BY <2>2, <2>3, <3>2, <3>3, <1>6
    <3> QED
      BY <3>4, <2>4, <1>0
  <2>5. CASE k - 1 # o
    <3>1. y = x
      BY <1>a, <2>5, <1>5
    <3>2. b = a + IF k > o THEN D ELSE 0
      BY <2>1, <2>5, <1>0
    <3> HIDE DEF a, b, s, x, y, D
    <3>3. g[k] = f[k] + IF k > o THEN D ELSE 0
      BY <1>6, <2>2, <2>3, <3>1, <3>2
    <3> QED
      BY <3>3
  <2> QED
    BY <2>4, <2>5
<1>9. n \in S
  <2> HIDE DEF S, n
  <2>1. \A k \in 0 .. n : k \in S
    BY <1>0, <1>7, <1>8, UpToInduction
  <2> QED
    BY <1>0, <2>1
<1>10. g[n] = f[n] + D /\ f[n] \in Int
  BY <1>0, <1>3, <1>9
<1> QED
  BY <1>1, <1>2, <1>10

\* Without blocks there are no pages.
LEMMA SumZero ==
  PagesIn([o \in Order |-> 0]) = 0
<1> DEFINE n == MaxOrder + 1
           nf == [o \in Order |-> 0]
           F == [k \in 1 .. n |-> [x \in Int |-> x + nf[k - 1] * OrderSize[k - 1]]]
<1>0. n \in Nat /\ nf \in [Order -> Int]
  BY BuddyAssumption
<1>1. PICK f : LoopsBy(f, n, Int, 0, F) /\ PagesIn(nf) = f[n]
  <2> HIDE DEF nf
  <2> QED
    BY <1>0, SumFacts
<1>3. f \in [0 .. n -> Int] /\ f[0] = 0 /\ \A k \in 1 .. n : f[k] = F[k][f[k - 1]]
  BY <1>1 DEF LoopsBy
<1> DEFINE S == {k \in 0 .. n : f[k] = 0}
<1>4. ASSUME NEW k \in 1 .. n, k - 1 \in S PROVE k \in S
  <2>1. k - 1 \in Order /\ k - 1 \in 0 .. n
    BY <1>0, BuddyAssumption DEF Order
  <2>2. nf[k - 1] = 0 /\ OrderSize[k - 1] \in Int
    BY <2>1, SizeType
  <2>3. F[k] = [x \in Int |-> x + nf[k - 1] * OrderSize[k - 1]]
    OBVIOUS
  <2>4. f[k - 1] = 0 /\ 0 \in Int
    BY <1>4
  <2>5. f[k] = 0 + 0 * OrderSize[k - 1]
    BY <1>3, <2>2, <2>3, <2>4
  <2>6. f[k] = 0
    BY <2>2, <2>5
  <2> QED
    BY <2>6
<1>5. n \in S
  <2>1. 0 \in S
    BY <1>0, <1>3
  <2> HIDE DEF S, n
  <2>2. \A k \in 0 .. n : k \in S
    BY <1>0, <1>4, <2>1, UpToInduction
  <2> QED
    BY <1>0, <2>2
<1> QED
  BY <1>1, <1>5

\* Zones lie in memory and do not overlap.
LEMMA ZoneFacts ==
  ASSUME NEW z \in Zone
  PROVE  /\ MemBase[z] \in Nat /\ ZoneSize[z] \in Nat /\ ZoneSize[z] >= 1
         /\ MemBase[z] + ZoneSize[z] <= NPage /\ NPage \in Nat
<1>1. MemBase[z] \in Nat /\ ZoneSize[z] \in Nat /\ ZoneSize[z] >= 1 /\ NPage \in Nat
  BY BuddyAssumption DEF Page
<1>2. MemBase[z] + ZoneSize[z] - 1 \in PagesOf(z)
  BY <1>1 DEF PagesOf
<1>3. MemBase[z] + ZoneSize[z] - 1 \in Page
  BY <1>2, BuddyAssumption
<1> QED
  BY <1>1, <1>3 DEF Page

LEMMA ZoneUnique ==
  ASSUME NEW y \in Zone, NEW z \in Zone, NEW p, p \in PagesOf(y), p \in PagesOf(z)
  PROVE  y = z
BY BuddyAssumption

LEMMA ZoneOfPage ==
  ASSUME NEW z \in Zone, NEW p \in PagesOf(z)
  PROVE  /\ ZoneOf(p) = z /\ InZone(p) /\ PageIdx(p) = p - MemBase[z]
         /\ p \in Page /\ p \in Zoned
<1>1. ZoneOf(p) \in Zone /\ p \in PagesOf(ZoneOf(p))
  BY DEF ZoneOf
<1>2. ZoneOf(p) = z
  BY <1>1, ZoneUnique
<1>3. p \in Page
  BY BuddyAssumption
<1> QED
  BY <1>2, <1>3 DEF InZone, PageIdx, Zoned

\* The pages of a block that lies in a zone.
LEMMA SitsFacts ==
  ASSUME NEW z \in Zone, NEW p, NEW o, Sits(p, o, z)
  PROVE  /\ o \in Order /\ o \in 0 .. MaxOrder + 1 /\ o \in Nat /\ p \in Nat /\ p \in Page
         /\ OrderSize[o] \in Nat /\ OrderSize[o] >= 1 /\ p + OrderSize[o] <= NPage
         /\ p \in Block(p, o) /\ Block(p, o) \subseteq PagesOf(z) /\ Block(p, o) \subseteq Zoned
<1>1. o \in Order /\ o \in 0 .. MaxOrder + 1 /\ o \in Nat /\ p \in Nat /\ p \in Page
  BY BuddyAssumption DEF Sits, Order, Page
<1>2. OrderSize[o] \in Nat /\ OrderSize[o] >= 1
  BY <1>1, SizeType
<1>3. p + OrderSize[o] <= NPage
  BY <1>1, <1>2, ZoneFacts DEF Sits
<1>4. p \in Block(p, o)
  BY <1>1, <1>2 DEF Block
<1>5. Block(p, o) \subseteq PagesOf(z)
  BY <1>1, <1>2, ZoneFacts DEF Sits, Block, PagesOf
<1>6. Block(p, o) \subseteq Zoned
  BY <1>5, ZoneOfPage
<1> QED
  BY <1>1, <1>2, <1>3, <1>4, <1>5, <1>6

LEMMA PageFinite == IsFiniteSet(Page) /\ Cardinality(Page) = NPage
<1>1. NPage \in Nat /\ 0 \in Int /\ NPage - 1 \in Int
  BY BuddyAssumption
<1>2. /\ IsFiniteSet(0 .. NPage - 1)
      /\ Cardinality(0 .. NPage - 1) = IF 0 > NPage - 1 THEN 0 ELSE (NPage - 1) - 0 + 1
  BY <1>1, FS_Interval
<1>3. (IF 0 > NPage - 1 THEN 0 ELSE (NPage - 1) - 0 + 1) = NPage
  BY <1>1
<1> QED
  BY <1>2, <1>3 DEF Page

\* Block p of order o goes on its list, or leaves it.
Added(fl, nf, pr, fl2, nf2, pr2, p, o) ==
  /\ fl2 = [fl EXCEPT ![o] = @ \cup {p}]
  /\ nf2 = [nf EXCEPT ![o] = @ + 1]
  /\ pr2 = [pr EXCEPT ![p] = o]

Dropped(fl, nf, fl2, nf2, p, o) ==
  /\ fl2 = [fl EXCEPT ![o] = @ \ {p}]
  /\ nf2 = [nf EXCEPT ![o] = @ - 1]

\* A block that overlaps with no free block goes on its list.
LEMMA AreaAdd ==
  ASSUME NEW fl, NEW nf, NEW pr, AreaInv(fl, nf, pr),
         NEW z \in Zone, NEW p, NEW o, Sits(p, o, z), Block(p, o) \cap Cover(fl) = {},
         NEW fl2, NEW nf2, NEW pr2, Added(fl, nf, pr, fl2, nf2, pr2, p, o)
  PROVE  /\ AreaInv(fl2, nf2, pr2)
         /\ Cover(fl2) = Cover(fl) \cup Block(p, o)
         /\ Heads(fl2) = Heads(fl) \cup {p}
<1>1. /\ o \in Order /\ p \in Nat /\ p \in Page /\ p \in Block(p, o)
      /\ OrderSize[o] \in Nat /\ OrderSize[o] >= 1 /\ p + OrderSize[o] <= NPage
      /\ Block(p, o) \subseteq Page
  BY SitsFacts DEF Zoned
<1>2. /\ fl \in [Order -> SUBSET Page] /\ nf \in [Order -> 0 .. NPage] /\ pr \in [Page -> Order]
      /\ fl2[o] = fl[o] \cup {p} /\ \A u \in Order : u # o => fl2[u] = fl[u]
      /\ fl2 \in [Order -> SUBSET Page]
  BY <1>1 DEF AreaInv, Added
<1>3. \A u \in Order : \A q \in fl[u] : q \in Block(q, u) /\ q \in Cover(fl)
  <2>1. ASSUME NEW u \in Order, NEW q \in fl[u] PROVE q \in Block(q, u) /\ q \in Page
    <3>1. PICK y \in Zone : Sits(q, u, y)
      BY DEF AreaInv
    <3> QED
      BY <3>1, SitsFacts
  <2> QED
    BY <2>1 DEF Cover
<1>4. \A u \in Order : p \notin fl[u]
  BY <1>1, <1>3
<1>5. Cover(fl2) = Cover(fl) \cup Block(p, o)
  BY <1>1, <1>2 DEF Cover
<1>6. Heads(fl2) = Heads(fl) \cup {p}
  <2>1. ASSUME NEW x PROVE x \in Heads(fl2) <=> x \in Heads(fl) \/ x = p
    <3>1. x \in Heads(fl2) <=> \E u \in Order : x \in fl2[u]
      BY DEF Heads
    <3>2. x \in Heads(fl) <=> \E u \in Order : x \in fl[u]
      BY DEF Heads
    <3> QED
      BY <1>1, <1>2, <3>1, <3>2
  <2> QED
    BY <2>1
<1>7. \A u \in Order : \A q \in fl2[u] : \E y \in Zone : Sits(q, u, y)
  BY <1>2 DEF AreaInv
<1>8. ASSUME NEW v \in Order, NEW u \in Order, NEW r \in fl2[v], NEW q \in fl2[u], q \in Block(r, v)
      PROVE  r = q /\ v = u
  <2>1. CASE r \in fl[v] /\ q \in fl[u]
    BY <2>1, <1>8 DEF AreaInv
  <2>2. CASE r \in fl[v] /\ q \notin fl[u]
    <3>1. q = p /\ u = o
      BY <2>2, <1>2
    <3>2. p \in Cover(fl)
      BY <3>1, <2>2, <1>8, <1>1 DEF Cover
    <3> QED
      BY <3>2, <1>1
  <2>3. CASE r \notin fl[v] /\ q \in fl[u]
    <3>1. r = p /\ v = o
      BY <2>3, <1>2
    <3>2. q \in Cover(fl) /\ q \in Block(p, o)
      BY <2>3, <1>3, <1>8, <3>1
    <3> QED
      BY <3>2
  <2>4. CASE r \notin fl[v] /\ q \notin fl[u]
    BY <2>4, <1>2
  <2> QED
    BY <2>1, <2>2, <2>3, <2>4
<1>9. IsFiniteSet(Page) /\ Cardinality(Page) = NPage
  BY PageFinite
<1>10. \A u \in Order : IsFiniteSet(fl[u]) /\ nf[u] = Cardinality(fl[u])
  BY <1>2, <1>9, FS_Subset DEF AreaInv
<1>11. Cardinality(fl2[o]) = nf[o] + 1 /\ Cardinality(fl2[o]) \in 0 .. NPage
  <2> DEFINE A == fl[o]
  <2>1. IsFiniteSet(A) /\ p \notin A /\ fl2[o] = A \cup {p} /\ Cardinality(A) = nf[o]
    BY <1>1, <1>2, <1>4, <1>10
  <2> HIDE DEF A
  <2>2. Cardinality(fl2[o]) = nf[o] + 1
    BY <2>1, FS_AddElement
  <2>3. fl2[o] \in SUBSET Page
    BY <1>1, <1>2
  <2>4. Cardinality(fl2[o]) <= NPage
    BY <2>3, <1>9, FS_Subset
  <2> QED
    BY <2>2, <2>4, <1>1, <1>2
<1>12. /\ nf2 \in [Order -> 0 .. NPage] /\ nf2[o] = nf[o] + 1
       /\ \A u \in Order : u # o => nf2[u] = nf[u]
       /\ \A u \in Order : nf2[u] = Cardinality(fl2[u])
  BY <1>1, <1>2, <1>10, <1>11 DEF Added
<1>13. pr2 \in [Page -> Order] /\ \A u \in Order : \A q \in fl2[u] : pr2[q] = u
  BY <1>1, <1>2, <1>4 DEF AreaInv, Added
<1>14. PagesIn(nf2) = Cardinality(Cover(fl2))
  <2>1. nf \in [Order -> Int] /\ nf2 \in [Order -> Int]
    BY <1>2, <1>12
  <2>2. PagesIn(nf) \in Int /\ PagesIn(nf2) = PagesIn(nf) + OrderSize[o]
    <3> DEFINE d == 1
    <3>1. d \in Int /\ nf2[o] = nf[o] + d
      BY <1>1, <1>2, <1>12
    <3>2. d * OrderSize[o] = OrderSize[o]
      BY <1>1
    <3> HIDE DEF d
    <3>3. PagesIn(nf) \in Int /\ PagesIn(nf2) = PagesIn(nf) + d * OrderSize[o]
      <4>1. o \in Order /\ CountMoves(nf, nf2, o, d)
        BY <1>1, <1>12, <2>1, <3>1 DEF CountMoves
      <4> QED
        BY <4>1, <3>1, SumChange
    <3> QED
      BY <1>1, <3>2, <3>3
  <2> DEFINE C == Cover(fl)
             B == Block(p, o)
  <2>3. IsFiniteSet(C) /\ IsFiniteSet(B)
    <3>1. C \in SUBSET Page /\ B \in SUBSET Page
      BY <1>1 DEF Cover
    <3> HIDE DEF C, B
    <3> QED
      BY <3>1, <1>9, FS_Subset
  <2>4. Cardinality(B) = OrderSize[o]
    <3>1. p \in Int /\ p + OrderSize[o] - 1 \in Int /\ ~(p > p + OrderSize[o] - 1)
      BY <1>1
    <3>2. Cardinality(B) = (p + OrderSize[o] - 1) - p + 1
      BY <3>1, FS_Interval DEF Block
    <3> QED
      BY <1>1, <3>2
  <2>5. C \cap B = {} /\ Cover(fl2) = C \cup B /\ PagesIn(nf) = Cardinality(C)
    BY <1>5 DEF AreaInv
  <2> HIDE DEF C, B
  <2>6. Cardinality(C \cup B) = Cardinality(C) + Cardinality(B) - Cardinality({})
    BY <2>3, <2>5, FS_Union
  <2>7. Cardinality({}) = 0 /\ Cardinality(C) \in Nat
    BY <2>3, FS_EmptySet, FS_CardinalityType
  <2>8. Cardinality(C \cup B) = PagesIn(nf) + OrderSize[o]
    BY <1>1, <2>2, <2>4, <2>5, <2>6, <2>7
  <2> QED
    BY <2>2, <2>5, <2>8, Zenon
<1> QED
  BY <1>2, <1>5, <1>6, <1>7, <1>8, <1>12, <1>13, <1>14 DEF AreaInv

\* A block leaves its list.
LEMMA AreaDrop ==
  ASSUME NEW fl, NEW nf, NEW pr, AreaInv(fl, nf, pr), NEW o \in Order, NEW p \in fl[o],
         NEW fl2, NEW nf2, Dropped(fl, nf, fl2, nf2, p, o)
  PROVE  /\ AreaInv(fl2, nf2, pr)
         /\ Cover(fl2) = Cover(fl) \ Block(p, o) /\ Block(p, o) \subseteq Cover(fl)
         /\ Heads(fl2) = Heads(fl) \ {p}
         /\ \A u \in Order : fl2[u] \subseteq fl[u]
<1>0. PICK z \in Zone : Sits(p, o, z)
  BY DEF AreaInv
<1>1. /\ p \in Nat /\ p \in Page /\ p \in Block(p, o)
      /\ OrderSize[o] \in Nat /\ OrderSize[o] >= 1 /\ p + OrderSize[o] <= NPage
      /\ Block(p, o) \subseteq Page
  BY <1>0, SitsFacts DEF Zoned
<1>2. /\ fl \in [Order -> SUBSET Page] /\ nf \in [Order -> 0 .. NPage] /\ pr \in [Page -> Order]
      /\ fl2[o] = fl[o] \ {p} /\ \A u \in Order : u # o => fl2[u] = fl[u]
      /\ fl2 \in [Order -> SUBSET Page] /\ \A u \in Order : fl2[u] \subseteq fl[u]
  BY <1>1 DEF AreaInv, Dropped
<1>3. \A u \in Order : \A q \in fl[u] : q \in Nat /\ OrderSize[u] \in Nat /\ q \in Block(q, u)
  <2>1. ASSUME NEW u \in Order, NEW q \in fl[u]
        PROVE  q \in Block(q, u) /\ q \in Nat /\ OrderSize[u] \in Nat
    <3>1. PICK y \in Zone : Sits(q, u, y)
      BY DEF AreaInv
    <3> QED
      BY <3>1, SitsFacts
  <2> QED
    BY <2>1
<1>4. \A u \in Order : \A q \in fl2[u] : Block(q, u) \cap Block(p, o) = {}
  <2>1. ASSUME NEW u \in Order, NEW q \in fl2[u], NEW x \in Block(q, u), x \in Block(p, o)
        PROVE  FALSE
    <3>1. q \in fl[u] /\ ~(q = p /\ u = o) /\ x \in Int
      BY <1>2, <1>3, <2>1 DEF Block
    <3>2. q \in Block(p, o) \/ p \in Block(q, u)
      BY <1>1, <1>3, <2>1, <3>1 DEF Block
    <3> QED
      BY <3>1, <3>2 DEF AreaInv
  <2> QED
    BY <2>1
<1>5. Block(p, o) \subseteq Cover(fl)
  BY <1>1 DEF Cover
<1>6. Cover(fl2) = Cover(fl) \ Block(p, o)
  <2>1. Cover(fl2) \subseteq Cover(fl) \ Block(p, o)
    BY <1>2, <1>4 DEF Cover
  <2>2. Cover(fl) \ Block(p, o) \subseteq Cover(fl2)
    BY <1>2 DEF Cover
  <2> QED
    BY <2>1, <2>2
<1>7. Heads(fl2) = Heads(fl) \ {p}
  <2>1. ASSUME NEW x PROVE x \in Heads(fl2) <=> x \in Heads(fl) /\ x # p
    <3>1. x \in Heads(fl2) <=> \E u \in Order : x \in fl2[u]
      BY DEF Heads
    <3>2. x \in Heads(fl) <=> \E u \in Order : x \in fl[u]
      BY DEF Heads
    <3>3. \A u \in Order : p \notin fl2[u]
      BY <1>1, <1>2 DEF AreaInv
    <3> QED
      BY <1>1, <1>2, <3>1, <3>2, <3>3
  <2> QED
    BY <2>1
<1>8. /\ \A u \in Order : \A q \in fl2[u] : \E y \in Zone : Sits(q, u, y)
      /\ \A v, u \in Order : \A r \in fl2[v], q \in fl2[u] : q \in Block(r, v) => r = q /\ v = u
      /\ \A u \in Order : \A q \in fl2[u] : pr[q] = u
  BY <1>2 DEF AreaInv
<1>9. IsFiniteSet(Page) /\ Cardinality(Page) = NPage
  BY PageFinite
<1>10. \A u \in Order : IsFiniteSet(fl[u]) /\ nf[u] = Cardinality(fl[u])
  BY <1>2, <1>9, FS_Subset DEF AreaInv
<1>11. Cardinality(fl2[o]) = nf[o] - 1 /\ Cardinality(fl2[o]) \in Nat
  <2> DEFINE A == fl[o]
  <2>1. IsFiniteSet(A) /\ p \in A /\ fl2[o] = A \ {p} /\ Cardinality(A) = nf[o]
    BY <1>1, <1>2, <1>10
  <2> HIDE DEF A
  <2>2. Cardinality(fl2[o]) = nf[o] - 1
    BY <2>1, FS_RemoveElement
  <2>3. IsFiniteSet(fl2[o])
    BY <2>1, FS_RemoveElement
  <2> QED
    BY <2>2, <2>3, FS_CardinalityType
<1>12. /\ nf2 \in [Order -> 0 .. NPage] /\ nf2[o] = nf[o] - 1
       /\ \A u \in Order : u # o => nf2[u] = nf[u]
       /\ \A u \in Order : nf2[u] = Cardinality(fl2[u])
  <2>1. nf[o] \in 0 .. NPage /\ nf[o] - 1 \in 0 .. NPage
    BY <1>2, <1>11, BuddyAssumption
  <2>2. nf2 \in [Order -> 0 .. NPage] /\ nf2[o] = nf[o] - 1 /\ \A u \in Order : u # o => nf2[u] = nf[u]
    BY <1>2, <2>1 DEF Dropped
  <2> QED
    BY <1>2, <1>10, <1>11, <2>2
<1>14. PagesIn(nf2) = Cardinality(Cover(fl2))
  <2>1. nf \in [Order -> Int] /\ nf2 \in [Order -> Int]
    BY <1>2, <1>12
  <2>2. PagesIn(nf) \in Int /\ PagesIn(nf2) = PagesIn(nf) - OrderSize[o]
    <3> DEFINE d == 0 - 1
    <3>1. d \in Int /\ nf2[o] = nf[o] + d
      BY <1>1, <1>2, <1>12
    <3>2. d * OrderSize[o] = 0 - OrderSize[o]
      BY <1>1
    <3> HIDE DEF d
    <3>3. PagesIn(nf) \in Int /\ PagesIn(nf2) = PagesIn(nf) + d * OrderSize[o]
      <4>1. o \in Order /\ CountMoves(nf, nf2, o, d)
        BY <1>1, <1>12, <2>1, <3>1 DEF CountMoves
      <4> QED
        BY <4>1, <3>1, SumChange
    <3> QED
      BY <1>1, <3>2, <3>3
  <2> DEFINE C == Cover(fl)
             D == Cover(fl2)
             B == Block(p, o)
  <2>3. IsFiniteSet(D) /\ IsFiniteSet(B)
    <3>1. D \in SUBSET Page /\ B \in SUBSET Page
      BY <1>1 DEF Cover
    <3> HIDE DEF D, B
    <3> QED
      BY <3>1, <1>9, FS_Subset
  <2>4. Cardinality(B) = OrderSize[o]
    <3>1. p \in Int /\ p + OrderSize[o] - 1 \in Int /\ ~(p > p + OrderSize[o] - 1)
      BY <1>1
    <3>2. Cardinality(B) = (p + OrderSize[o] - 1) - p + 1
      BY <3>1, FS_Interval DEF Block
    <3> QED
      BY <1>1, <3>2
  <2>5. D \cap B = {} /\ C = D \cup B /\ PagesIn(nf) = Cardinality(C)
    BY <1>5, <1>6 DEF AreaInv
  <2> HIDE DEF C, B, D
  <2>6. Cardinality(D \cup B) = Cardinality(D) + Cardinality(B) - Cardinality({})
    BY <2>3, <2>5, FS_Union
  <2>7. Cardinality({}) = 0 /\ Cardinality(D) \in Nat
    BY <2>3, FS_EmptySet, FS_CardinalityType
  <2>8. Cardinality(D \cup B) = PagesIn(nf)
    BY <2>5, Zenon
  <2>9. PagesIn(nf2) = Cardinality(D)
    BY <1>1, <2>2, <2>4, <2>6, <2>7, <2>8
  <2> QED
    BY <2>9 DEF D
<1> QED
  BY <1>2, <1>5, <1>6, <1>7, <1>8, <1>12, <1>14 DEF AreaInv

\* The two halves of a block that p of order o may be one of.
NoTwin(fl, p, o, z) ==
  o < MaxOrder => /\ Sits(p, o + 1, z) => p + OrderSize[o] \notin fl[o]
                  /\ Sits(p - OrderSize[o], o + 1, z) => p - OrderSize[o] \notin fl[o]

\* A block of which no other half is free may go on its list.
LEMMA MergedAdd ==
  ASSUME NEW fl \in [Order -> SUBSET Page], Merged(fl),
         NEW z \in Zone, NEW p, NEW o, Sits(p, o, z), NoTwin(fl, p, o, z),
         NEW fl2, fl2 = [fl EXCEPT ![o] = @ \cup {p}]
  PROVE  Merged(fl2)
<1>0. /\ MaxOrder \in Nat /\ o \in Order /\ p \in Nat /\ p \in Block(p, o)
      /\ OrderSize[o] \in Nat /\ OrderSize[o] >= 1 /\ p \in PagesOf(z)
  BY SitsFacts, BuddyAssumption
<1>1. fl2[o] = fl[o] \cup {p} /\ \A u \in Order : u # o => fl2[u] = fl[u]
  BY <1>0
<1>2. SUFFICES ASSUME NEW y \in Zone, NEW u \in 0 .. MaxOrder - 1, NEW q \in Page,
                      Sits(q, u + 1, y), q \in fl2[u], q + OrderSize[u] \in fl2[u]
               PROVE  FALSE
  BY DEF Merged
<1>3. u \in Order /\ u \in Nat /\ u < MaxOrder /\ u \in 0 .. MaxOrder + 1
  BY <1>0 DEF Order
<1>4. q \in Nat /\ OrderSize[u] \in Nat /\ OrderSize[u] >= 1 /\ OrderSize[u + 1] = 2 * OrderSize[u]
  BY <1>2, <1>3, SitsFacts, SizeType, SizeFacts, <1>0
<1>5. q \in Block(q, u + 1) /\ q + OrderSize[u] \in Block(q, u + 1)
  BY <1>4 DEF Block
<1>6. q \in PagesOf(y) /\ q + OrderSize[u] \in PagesOf(y)
  BY <1>2, <1>5, SitsFacts
<1>7. u = o
  BY <1>0, <1>1, <1>2, <1>3 DEF Merged
<1>8. CASE q = p
  <2>1. y = z
    BY <1>0, <1>6, <1>8, ZoneUnique
  <2>2. p + OrderSize[o] \in fl[o]
    BY <1>0, <1>1, <1>2, <1>4, <1>7, <1>8
  <2> QED
    BY <1>2, <1>3, <1>7, <1>8, <2>1, <2>2 DEF NoTwin
<1>9. CASE q + OrderSize[o] = p
  <2>1. y = z
    BY <1>0, <1>6, <1>7, <1>9, ZoneUnique
  <2>2. q \in fl[o] /\ q = p - OrderSize[o]
    BY <1>0, <1>1, <1>2, <1>4, <1>7, <1>9
  <2> QED
    BY <1>2, <1>3, <1>7, <1>9, <2>1, <2>2 DEF NoTwin
<1> QED
  BY <1>1, <1>2, <1>3, <1>7, <1>8, <1>9 DEF Merged

LEMMA MergedDrop ==
  ASSUME NEW fl, NEW fl2, Merged(fl), \A u \in Order : fl2[u] \subseteq fl[u]
  PROVE  Merged(fl2)
<1>1. \A u \in 0 .. MaxOrder - 1 : u \in Order
  BY BuddyAssumption DEF Order
<1> QED
  BY <1>1 DEF Merged

\* The first page of a free block is one of its pages.
LEMMA HeadsCovered ==
  ASSUME NEW fl, NEW nf, NEW pr, AreaInv(fl, nf, pr)
  PROVE  /\ Heads(fl) \subseteq Cover(fl)
         /\ \A o \in Order : fl[o] \subseteq Heads(fl) /\ fl[o] \subseteq Cover(fl)
<1>1. ASSUME NEW u \in Order, NEW q \in fl[u] PROVE q \in Cover(fl) /\ q \in Heads(fl)
  <2>1. PICK y \in Zone : Sits(q, u, y)
    BY DEF AreaInv
  <2>2. q \in Block(q, u) /\ q \in Page
    BY <2>1, SitsFacts
  <2> QED
    BY <2>2 DEF Cover, Heads
<1>2. ASSUME NEW x \in Heads(fl) PROVE x \in Cover(fl)
  <2>1. PICK u \in Order : x \in fl[u]
    BY DEF Heads
  <2> QED
    BY <1>1, <2>1
<1> QED
  BY <1>1, <1>2

LEMMA AlignedOne ==
  ASSUME NEW x \in Int
  PROVE  Aligned(x, 0) /\ 0 \in 0 .. MaxOrder + 1 /\ 0 \in Order /\ OrderSize[0] = 1
<1>1. OrderSize[0] = 1
  BY SizeFacts
<1>2. x = x * OrderSize[0]
  BY <1>1
<1> QED
  BY <1>1, <1>2, BuddyAssumption DEF Aligned, Order

LEMMA Orders ==
  /\ MaxOrder \in Nat /\ NPage \in Nat /\ NPage >= 1 /\ NZone \in Nat /\ 0 \in Zone /\ 0 \in Page /\ 0 \in Order
  /\ MaxOrder \in Order
  /\ \A o \in Order : /\ o \in Nat /\ o <= MaxOrder
                      /\ o \in 0 .. MaxOrder + 1 /\ o + 1 \in 0 .. MaxOrder + 1
                      /\ OrderSize[o] \in Nat /\ OrderSize[o] >= 1
                      /\ OrderSize[o + 1] = 2 * OrderSize[o]
<1>1. MaxOrder \in Nat /\ NPage \in Nat /\ NZone \in Nat /\ 0 \in Zone
  BY BuddyAssumption DEF Zone
<1>2. NPage >= 1
  BY <1>1, ZoneFacts
<1>3. ASSUME NEW o \in Order
      PROVE  /\ o \in Nat /\ o <= MaxOrder /\ o \in 0 .. MaxOrder + 1 /\ o + 1 \in 0 .. MaxOrder + 1
             /\ OrderSize[o] \in Nat /\ OrderSize[o] >= 1
             /\ OrderSize[o + 1] = 2 * OrderSize[o]
  <2>1. o \in Nat /\ o <= MaxOrder /\ o \in 0 .. MaxOrder + 1 /\ o + 1 \in 0 .. MaxOrder + 1
    BY <1>1 DEF Order
  <2> QED
    BY <1>1, <2>1, SizeFacts DEF Order
<1> QED
  BY <1>1, <1>2, <1>3 DEF Page, Order

\* The registers, whatever runs.
LEMMA Registers ==
  ASSUME BuddyInv
  PROVE  /\ freeList \in [Order -> SUBSET Page]
         /\ fr \in [base : 0 .. NPage, n : 0 .. NPage, order : 0 .. MaxOrder + 1, zone : Zone]
         /\ fr.base \in Nat /\ fr.n \in Nat /\ fr.order \in Nat /\ fr.zone \in Zone
         /\ fr.base <= NPage /\ fr.n <= NPage /\ fr.order <= MaxOrder + 1
         /\ fr.order \in 0 .. MaxOrder + 1
         /\ al \in [page : Page, cur : Order, order : Order, n : 0 .. OrderSize[MaxOrder]]
         /\ al.page \in Page /\ al.cur \in Order /\ al.order \in Order /\ al.n \in Nat /\ al.page \in Nat
         /\ mg \in [zone : Zone, idx : Page, order : Order, then : {"idle", "round", "rest"}]
         /\ mg.zone \in Zone /\ mg.idx \in Page /\ mg.idx \in Nat /\ mg.order \in Order
         /\ mg.then \in {"idle", "round", "rest"}
         /\ held \subseteq Page
<1>1. TypeOK
  BY DEF BuddyInv
<1>2. OrderSize[MaxOrder] \in Nat
  BY Orders
<1> QED
  BY <1>1, <1>2, Orders DEF TypeOK, Page

\* page_init starts with one zone to fill.
LEMMA InitInv == Init => BuddyInv
<1> SUFFICES ASSUME Init PROVE BuddyInv
  OBVIOUS
<1> DEFINE fl == [o \in Order |-> {}]
           nf == [o \in Order |-> 0]
           pr == [p \in Page |-> 0]
<1>1. freeList = fl /\ nrFree = nf /\ property = pr /\ flagged = {} /\ held = {} /\ op = "memmap"
  BY DEF Init
<1>2. Cover(fl) = {} /\ Heads(fl) = {}
  BY DEF Cover, Heads
<1>3. AreaInv(fl, nf, pr)
  <2>1. PagesIn(nf) = Cardinality(Cover(fl))
    BY <1>2, SumZero, FS_EmptySet
  <2>2. fl \in [Order -> SUBSET Page] /\ nf \in [Order -> 0 .. NPage] /\ pr \in [Page -> Order]
    BY Orders
  <2>3. \A o \in Order : fl[o] = {} /\ nf[o] = Cardinality(fl[o])
    BY FS_EmptySet
  <2> HIDE DEF fl, nf, pr
  <2> QED
    BY <2>1, <2>2, <2>3 DEF AreaInv
<1>4. Merged(fl)
  BY BuddyAssumption DEF Merged, Order
<1>5. /\ fr.base = MemBase[0] /\ fr.n = ZoneSize[0] /\ fr.order = MaxOrder /\ fr.zone = 0
      /\ MemBase[0] \in Nat /\ ZoneSize[0] \in Nat /\ ZoneSize[0] >= 1
      /\ MemBase[0] + ZoneSize[0] <= NPage
  BY Orders, ZoneFacts DEF Init
<1>6. TypeOK
  <2>1. OrderSize[MaxOrder] \in Nat
    BY Orders
  <2>2. al \in [page : Page, cur : Order, order : Order, n : 0 .. OrderSize[MaxOrder]]
    BY <2>1, Orders DEF Init, NoAl
  <2>3. fr \in [base : 0 .. NPage, n : 0 .. NPage, order : 0 .. MaxOrder + 1, zone : Zone]
    BY <1>5, Orders DEF Init
  <2>4. mg \in [zone : Zone, idx : Page, order : Order, then : {"idle", "round", "rest"}]
    BY Orders DEF Init, NoMg
  <2> HIDE DEF fl, nf, pr
  <2> QED
    BY <1>1, <1>3, <2>2, <2>3, <2>4 DEF TypeOK, AreaInv
<1>7. InFlight = Zoned
  <2>1. InFlight = (fr.base .. fr.base + fr.n - 1) \cup UNION {PagesOf(z) : z \in fr.zone + 1 .. NZone - 1}
    BY <1>1 DEF InFlight
  <2>2. fr.base .. fr.base + fr.n - 1 = PagesOf(0)
    BY <1>5 DEF PagesOf
  <2>3. Zone = {0} \cup (0 + 1 .. NZone - 1)
    BY Orders DEF Zone
  <2>4. ASSUME NEW x PROVE x \in Zoned <=> \E z \in Zone : x \in PagesOf(z)
    BY ZoneOfPage DEF Zoned, InZone
  <2> QED
    BY <1>5, <2>1, <2>2, <2>3, <2>4
<1>8. MemmapInv
  <2>1. Aligned(0, MaxOrder) /\ fr.base - MemBase[fr.zone] = 0
    BY <1>5, Orders, AlignedSelf
  <2> QED
    BY <1>1, <1>5, <2>1, Orders DEF MemmapInv
<1> HIDE DEF fl, nf, pr
<1>9. Owned(held, InFlight, Cover(freeList))
  BY <1>1, <1>2, <1>7 DEF Owned
<1> QED
  BY <1>1, <1>2, <1>3, <1>4, <1>6, <1>8, <1>9 DEF BuddyInv

Later(z) == UNION {PagesOf(y) : y \in z + 1 .. NZone - 1}

\* The zones that are still to be filled.
LEMMA LaterFacts ==
  ASSUME NEW z \in Zone
  PROVE  /\ Later(z) \cap PagesOf(z) = {}
         /\ z + 1 \in Zone => Later(z) = PagesOf(z + 1) \cup Later(z + 1)
         /\ z + 1 \notin Zone => Later(z) = {}
         /\ z \in Nat
<1>1. z \in Nat /\ z + 1 .. NZone - 1 \subseteq Zone /\ z \notin z + 1 .. NZone - 1
  BY Orders DEF Zone
<1>2. Later(z) \cap PagesOf(z) = {}
  <2>1. SUFFICES ASSUME NEW x \in Later(z), x \in PagesOf(z) PROVE FALSE
    OBVIOUS
  <2>2. PICK y \in z + 1 .. NZone - 1 : x \in PagesOf(y)
    BY <2>1 DEF Later
  <2>3. y \in Zone /\ y # z
    BY <1>1
  <2> QED
    BY <2>1, <2>2, <2>3, ZoneUnique
<1>3. ASSUME z + 1 \in Zone PROVE Later(z) = PagesOf(z + 1) \cup Later(z + 1)
  <2>1. z + 1 .. NZone - 1 = {z + 1} \cup (z + 1 + 1 .. NZone - 1)
    BY <1>1, <1>3, Orders DEF Zone
  <2> QED
    BY <2>1 DEF Later
<1>4. ASSUME z + 1 \notin Zone PROVE Later(z) = {}
  <2>1. z + 1 .. NZone - 1 = {}
    BY <1>1, <1>4, Orders DEF Zone
  <2> QED
    BY <2>1 DEF Later
<1> QED
  BY <1>1, <1>2, <1>3, <1>4

\* Blocks of falling order: below the largest order each occurs once, so none is the
\* other half of another.
LEMMA MemmapKeeps ==
  ASSUME BuddyInv, Memmap
  PROVE  BuddyInv'
<1> DEFINE R == fr.base .. fr.base + fr.n - 1
           z == fr.zone
           s == OrderSize[fr.order]
<1>1. /\ op = "memmap" /\ MemmapInv /\ AreaInv(freeList, nrFree, property)
      /\ Merged(freeList) /\ flagged = Heads(freeList)
      /\ Owned(held, InFlight, Cover(freeList)) /\ TypeOK
  BY DEF Memmap, BuddyInv
<1>2. InFlight = R \cup Later(z)
  BY <1>1 DEF InFlight, Later
<1>3. al' = al /\ mg' = mg /\ held' = held
  BY DEF Memmap
<1>4. /\ fr.base \in Nat /\ fr.n \in Nat /\ fr.order \in Order /\ z \in Zone
      /\ s \in Nat /\ s >= 1 /\ fr.base >= MemBase[z] /\ Aligned(fr.base - MemBase[z], fr.order)
      /\ fr.base + fr.n = MemBase[z] + ZoneSize[z]
      /\ MemBase[z] \in Nat /\ ZoneSize[z] \in Nat /\ MemBase[z] + ZoneSize[z] <= NPage
      /\ fr.order \in Nat /\ fr.order <= MaxOrder /\ fr.order \in 0 .. MaxOrder + 1
      /\ NPage \in Nat
  BY <1>1, Registers, Orders, ZoneFacts DEF MemmapInv
<1>5. R \subseteq PagesOf(z) /\ R \cap Later(z) = {}
  <2>1. R \subseteq PagesOf(z)
    BY <1>4 DEF PagesOf
  <2> QED
    BY <1>4, <2>1, LaterFacts
<1>6. fr \in [base : 0 .. NPage, n : 0 .. NPage, order : 0 .. MaxOrder + 1, zone : Zone]
  BY Registers
<1>a. CASE /\ fr.n # 0 /\ fr.n >= s /\ AddBlock(fr.base, fr.order)
           /\ fr' = [fr EXCEPT !.base = @ + s, !.n = @ - s] /\ op' = op
  <2> DEFINE B == Block(fr.base, fr.order)
  <2>1. Sits(fr.base, fr.order, z)
    BY <1>4, <1>a DEF Sits, Page
  <2>2. B \subseteq R
    BY <1>4, <1>a DEF Block
  <2>3. B \cap Cover(freeList) = {}
    BY <1>1, <1>2, <2>2 DEF Owned
  <2>4. /\ freeList' = [freeList EXCEPT ![fr.order] = @ \cup {fr.base}]
        /\ nrFree' = [nrFree EXCEPT ![fr.order] = @ + 1]
        /\ property' = [property EXCEPT ![fr.base] = fr.order]
        /\ flagged' = flagged \cup {fr.base}
    BY <1>a DEF AddBlock
  <2>5. /\ AreaInv(freeList', nrFree', property')
        /\ Cover(freeList') = Cover(freeList) \cup B
        /\ Heads(freeList') = Heads(freeList) \cup {fr.base}
    <3> DEFINE p == fr.base
               o == fr.order
               fl2 == freeList'
               nf2 == nrFree'
               pr2 == property'
    <3>1. /\ Sits(p, o, z) /\ Block(p, o) \cap Cover(freeList) = {} /\ z \in Zone
          /\ Added(freeList, nrFree, property, fl2, nf2, pr2, p, o)
      BY <1>4, <2>1, <2>3, <2>4 DEF Added
    <3> HIDE DEF p, o, z, fl2, nf2, pr2
    <3>2. /\ AreaInv(fl2, nf2, pr2)
          /\ Cover(fl2) = Cover(freeList) \cup Block(p, o)
          /\ Heads(fl2) = Heads(freeList) \cup {p}
      BY <1>1, <3>1, AreaAdd
    <3> QED
      BY <3>2 DEF p, o, fl2, nf2, pr2
  <2>6. /\ fr'.base = fr.base + s /\ fr'.n = fr.n - s /\ fr'.order = fr.order /\ fr'.zone = z
        /\ fr' \in [base : 0 .. NPage, n : 0 .. NPage, order : 0 .. MaxOrder + 1, zone : Zone]
    <3>1. fr.base + s \in 0 .. NPage /\ fr.n - s \in 0 .. NPage
      BY <1>4, <1>a
    <3>2. fr' = [fr EXCEPT !.base = @ + s, !.n = @ - s]
      BY <1>a
    <3> HIDE DEF s
    <3> QED
      BY <1>6, <3>1, <3>2
  <2>7. InFlight' = InFlight \ B
    <3>1. InFlight' = (fr'.base .. fr'.base + fr'.n - 1) \cup Later(fr'.zone)
      BY <1>1, <1>a DEF InFlight, Later
    <3>2. fr'.base .. fr'.base + fr'.n - 1 = R \ B
      BY <1>4, <2>6 DEF Block
    <3>3. B \cap Later(z) = {}
      BY <1>5, <2>2
    <3> HIDE DEF R, B
    <3> QED
      BY <1>2, <2>6, <3>1, <3>2, <3>3
  <2>8. Owned(held', InFlight', Cover(freeList'))
    <3> HIDE DEF B
    <3>1. B \subseteq InFlight
      BY <1>2, <2>2
    <3> QED
      BY <1>1, <1>3, <2>5, <2>7, <3>1 DEF Owned
  <2>9. NoTwin(freeList, fr.base, fr.order, z)
    <3>1. SUFFICES ASSUME fr.order < MaxOrder, NEW q, q \in freeList[fr.order], q \in PagesOf(z)
                   PROVE  FALSE
      <4>1. ASSUME fr.order < MaxOrder, Sits(fr.base, fr.order + 1, z)
            PROVE  fr.base + s \in PagesOf(z)
        BY <1>4, <4>1, Orders DEF Sits, PagesOf
      <4>2. ASSUME fr.order < MaxOrder, Sits(fr.base - s, fr.order + 1, z)
            PROVE  fr.base - s \in PagesOf(z)
        BY <1>4, <4>2, Orders DEF Sits, PagesOf
      <4> QED
        BY <3>1, <4>1, <4>2 DEF NoTwin
    <3>2. fr.n < s
      BY <1>1, <1>4, <3>1 DEF MemmapInv
    <3> QED
      BY <1>4, <1>a, <3>2
  <2>10. Merged(freeList')
    BY <1>1, <1>4, <2>1, <2>4, <2>9, MergedAdd, Registers
  <2>11. MemmapInv'
    <3>1. Aligned(fr.base + s - MemBase[z], fr.order)
      <4>1. Aligned(s, fr.order) /\ fr.base - MemBase[z] \in Int
        BY <1>4, AlignedSelf
      <4> DEFINE x == fr.base - MemBase[z]
      <4>2. Aligned(x + s, fr.order)
        <5>1. x \in Int /\ s \in Int /\ Aligned(x, fr.order) /\ Aligned(s, fr.order)
          BY <1>4, <4>1
        <5> HIDE DEF x, s
        <5> QED
          BY <1>4, <5>1, AlignedAdd
      <4>3. (fr.base - MemBase[z]) + s = fr.base + s - MemBase[z]
        BY <1>4
      <4> QED
        BY <4>2, <4>3
    <3>2. fr.order < MaxOrder => fr.n < 2 * s /\ OrderSize[fr.order + 1] = 2 * s
      BY <1>1, <1>4, Orders DEF MemmapInv
    <3>3. \A o \in Order : \A p \in freeList'[o] : p \in PagesOf(z) =>
            o >= fr.order /\ (o = fr.order /\ o < MaxOrder => fr.n - s < OrderSize[o])
      <4>1. SUFFICES ASSUME NEW o \in Order, NEW p \in freeList'[o], p \in PagesOf(z)
                     PROVE  o >= fr.order /\ (o = fr.order /\ o < MaxOrder => fr.n - s < OrderSize[o])
        OBVIOUS
      <4>2. o \in Nat
        BY Orders
      <4>3. CASE p \in freeList[o]
        <5>1. o >= fr.order
          BY <1>1, <4>1, <4>3 DEF MemmapInv
        <5> QED
          BY <1>4, <3>2, <4>2, <5>1
      <4>4. CASE p \notin freeList[o]
        <5>1. o = fr.order
          BY <1>4, <2>4, <4>1, <4>4, Registers
        <5> QED
          BY <1>4, <3>2, <5>1
      <4> QED
        BY <4>3, <4>4
    <3>4. fr.n - s < fr.n
      BY <1>4
    <3>5. /\ fr'.base >= MemBase[z] /\ fr'.base + fr'.n = MemBase[z] + ZoneSize[z]
          /\ fr.order < MaxOrder => fr'.n < OrderSize[fr.order + 1]
      BY <1>4, <2>6, <3>2
    <3> QED
      BY <1>4, <2>6, <3>1, <3>3, <3>5 DEF MemmapInv
  <2>12. TypeOK'
    <3>1. flagged' \subseteq Page
      BY <1>1, <2>1, <2>4 DEF TypeOK, Sits
    <3> QED
      BY <1>1, <1>3, <1>a, <2>5, <2>6, <3>1 DEF TypeOK, AreaInv
  <2> QED
    BY <1>1, <1>a, <2>4, <2>5, <2>8, <2>10, <2>11, <2>12 DEF BuddyInv
<1>b. CASE /\ fr.n # 0 /\ fr.n < s
           /\ fr' = [fr EXCEPT !.order = @ - 1] /\ UNCHANGED <<areaVars, op>>
  <2>1. /\ freeList' = freeList /\ nrFree' = nrFree /\ property' = property /\ flagged' = flagged
        /\ op' = op
    BY <1>b DEF areaVars
  <2>2. fr.order >= 1 /\ fr.order - 1 \in Order
    BY <1>4, <1>b, Orders, SizeFacts DEF Order
  <2>3. /\ fr'.base = fr.base /\ fr'.n = fr.n /\ fr'.order = fr.order - 1 /\ fr'.zone = z
        /\ fr' \in [base : 0 .. NPage, n : 0 .. NPage, order : 0 .. MaxOrder + 1, zone : Zone]
    BY <1>6, <1>b, <2>2, Orders
  <2>4. InFlight' = InFlight
    BY <1>1, <2>1, <2>3 DEF InFlight
  <2>5. MemmapInv'
    <3>1. Aligned(fr.base - MemBase[z], fr.order - 1)
      <4>1. fr.order - 1 \in 0 .. fr.order /\ fr.base - MemBase[z] \in Int
        BY <1>4, <2>2
      <4> QED
        BY <1>4, <4>1, AlignedDown
    <3>2. (fr.order - 1) + 1 = fr.order
      BY <1>4
    <3>3. \A o \in Order : \A p \in freeList[o] : p \in PagesOf(z) =>
            o >= fr.order - 1 /\ o # fr.order - 1
      <4>1. SUFFICES ASSUME NEW o \in Order, NEW p \in freeList[o], p \in PagesOf(z)
                     PROVE  o >= fr.order - 1 /\ o # fr.order - 1
        OBVIOUS
      <4>2. o \in Nat /\ o >= fr.order
        BY <1>1, <4>1, Orders DEF MemmapInv
      <4> QED
        BY <1>4, <4>2
    <3> QED
      BY <1>4, <1>b, <2>1, <2>2, <2>3, <3>1, <3>2, <3>3 DEF MemmapInv
  <2>6. TypeOK'
    BY <1>1, <1>3, <2>1, <2>3 DEF TypeOK
  <2> QED
    BY <1>1, <1>3, <2>1, <2>4, <2>5, <2>6 DEF BuddyInv
<1>c. CASE /\ fr.n = 0 /\ z + 1 \in Zone
           /\ fr' = [base |-> MemBase[z + 1], n |-> ZoneSize[z + 1], order |-> MaxOrder, zone |-> z + 1]
           /\ UNCHANGED <<areaVars, op>>
  <2>1. /\ freeList' = freeList /\ nrFree' = nrFree /\ property' = property /\ flagged' = flagged
        /\ op' = op
    BY <1>c DEF areaVars
  <2>2. /\ MemBase[z + 1] \in Nat /\ ZoneSize[z + 1] \in Nat
        /\ MemBase[z + 1] + ZoneSize[z + 1] <= NPage
    BY <1>c, ZoneFacts
  <2>3. /\ fr'.base = MemBase[z + 1] /\ fr'.n = ZoneSize[z + 1] /\ fr'.order = MaxOrder
        /\ fr'.zone = z + 1
        /\ fr' \in [base : 0 .. NPage, n : 0 .. NPage, order : 0 .. MaxOrder + 1, zone : Zone]
    BY <1>4, <1>c, <2>2, Orders
  <2>4. InFlight' = InFlight
    <3>1. InFlight' = (fr'.base .. fr'.base + fr'.n - 1) \cup Later(fr'.zone)
      BY <1>1, <2>1 DEF InFlight, Later
    <3>2. fr'.base .. fr'.base + fr'.n - 1 = PagesOf(z + 1)
      BY <2>2, <2>3 DEF PagesOf
    <3>3. R = {}
      BY <1>4, <1>c
    <3>4. Later(z) = PagesOf(z + 1) \cup Later(z + 1)
      BY <1>4, <1>c, LaterFacts
    <3> QED
      BY <1>2, <2>3, <3>1, <3>2, <3>3, <3>4
  <2>5. MemmapInv'
    <3>1. Aligned(0, MaxOrder) /\ fr'.base - MemBase[fr'.zone] = 0
      BY <2>2, <2>3, Orders, AlignedSelf
    <3>2. \A o \in Order : \A p \in freeList[o] : p \notin PagesOf(z + 1)
      <4>1. PagesOf(z + 1) \subseteq InFlight
        BY <1>2, <1>4, <1>c, LaterFacts
      <4> QED
        BY <1>1, <4>1, HeadsCovered DEF Owned
    <3>3. MaxOrder \in Order /\ ~ (MaxOrder < MaxOrder)
      BY Orders
    <3> QED
      BY <2>1, <2>2, <2>3, <3>1, <3>2, <3>3 DEF MemmapInv
  <2>6. TypeOK'
    BY <1>1, <1>3, <2>1, <2>3 DEF TypeOK
  <2> QED
    BY <1>1, <1>3, <2>1, <2>4, <2>5, <2>6 DEF BuddyInv
<1>d. CASE /\ fr.n = 0 /\ z + 1 \notin Zone
           /\ fr' = NoFr /\ op' = "idle" /\ UNCHANGED areaVars
  <2>1. freeList' = freeList /\ nrFree' = nrFree /\ property' = property /\ flagged' = flagged
    BY <1>d DEF areaVars
  <2>2. fr' \in [base : 0 .. NPage, n : 0 .. NPage, order : 0 .. MaxOrder + 1, zone : Zone]
    BY <1>d, Orders DEF NoFr
  <2>3. InFlight = {} /\ InFlight' = {}
    <3>1. R = {} /\ Later(z) = {}
      BY <1>4, <1>d, LaterFacts
    <3> QED
      BY <1>2, <1>d, <3>1 DEF InFlight
  <2>4. TypeOK'
    BY <1>1, <1>3, <1>d, <2>1, <2>2 DEF TypeOK
  <2> QED
    BY <1>1, <1>3, <1>d, <2>1, <2>3, <2>4 DEF BuddyInv
<1> QED
  BY <1>a, <1>b, <1>c, <1>d DEF Memmap

\* getorder gives an order whose blocks are large enough.
LEMMA GetOrderFits ==
  ASSUME NEW n \in 1 .. OrderSize[MaxOrder]
  PROVE  GetOrder(n) \in Order /\ n <= OrderSize[GetOrder(n)]
<1> DEFINE S == {o \in Order : n <= OrderSize[o]}
           P(o) == n <= OrderSize[o] /\ \A k \in 0 .. o - 1 : n > OrderSize[k]
<1>1. S \in SUBSET Nat /\ MaxOrder \in S
  <2>1. \A o \in Order : o \in Nat
    BY Orders
  <2>2. MaxOrder \in Order /\ n <= OrderSize[MaxOrder]
    BY Orders
  <2> QED
    BY <2>1, <2>2
<1>2. PICK m \in S : \A k \in S : m <= k
  <2> HIDE DEF S
  <2> QED
    BY <1>1, LeastOfNats
<1>3. m \in Order /\ n \in Nat
  BY Orders
<1>4. ASSUME NEW k \in 0 .. m - 1 PROVE n > OrderSize[k]
  <2>1. k \in Order /\ k \in Nat /\ k < m
    BY <1>3, Orders DEF Order
  <2>2. k \notin S
    BY <1>2, <2>1, <1>3, Orders
  <2> QED
    BY <1>3, <2>1, <2>2, Orders
<1>5. P(m)
  BY <1>2, <1>4
<1>6. GetOrder(n) = CHOOSE o \in Order : P(o)
  BY DEF GetOrder
<1> HIDE DEF P
<1>7. GetOrder(n) \in Order /\ P(GetOrder(n))
  BY <1>3, <1>5, <1>6
<1> QED
  BY <1>7 DEF P

LEMMA MinOfOrders ==
  ASSUME NEW S \in SUBSET Nat, S # {}
  PROVE  Min(S) \in S
<1>1. \E m \in S : \A k \in S : m <= k
  BY LeastOfNats
<1> QED
  BY <1>1 DEF Min

\* buddy_alloc_pages takes a block off the first list that has one.
LEMMA AllocKeeps ==
  ASSUME BuddyInv, NEW n \in 1 .. OrderSize[MaxOrder], AllocPages(n)
  PROVE  BuddyInv'
<1> DEFINE order == GetOrder(n)
           Usable == {c \in order .. MaxOrder : freeList[c] # {}}
           c == Min(Usable)
<1>1. /\ op = "idle" /\ AreaInv(freeList, nrFree, property)
      /\ Merged(freeList) /\ flagged = Heads(freeList)
      /\ Owned(held, InFlight, Cover(freeList)) /\ TypeOK
  BY DEF AllocPages, BuddyInv
<1>2. order \in Order /\ n <= OrderSize[order] /\ n \in Nat /\ n >= 1
  BY GetOrderFits, Orders
<1>a. CASE UNCHANGED vars
  BY <1>a DEF vars, BuddyInv, TypeOK, InFlight, MemmapInv, SplitInv, RangeInv, MergeInv
<1>b. CASE /\ Usable # {}
           /\ \E page \in freeList[c] :
                /\ freeList' = [freeList EXCEPT ![c] = @ \ {page}]
                /\ nrFree' = [nrFree EXCEPT ![c] = @ - 1]
                /\ al' = [page |-> page, cur |-> c, order |-> order, n |-> n]
           /\ op' = "split"
           /\ UNCHANGED <<property, flagged, fr, mg, held>>
  <2>1. c \in Order /\ order <= c
    <3>1. Usable \in SUBSET Nat
      <4>1. order \in Nat /\ MaxOrder \in Nat
        BY <1>2, Orders
      <4> HIDE DEF order
      <4> QED
        BY <4>1
    <3>2. c \in Usable
      <4> HIDE DEF Usable
      <4> QED
        BY <1>b, <3>1, MinOfOrders
    <3> QED
      BY <1>2, <3>2, Orders DEF Order
  <2> HIDE DEF c, Usable, order
  <2>2. PICK page \in freeList[c] :
          /\ Dropped(freeList, nrFree, freeList', nrFree', page, c)
          /\ al' = [page |-> page, cur |-> c, order |-> order, n |-> n]
    BY <1>b DEF Dropped
  <2>3. PICK z \in Zone : Sits(page, c, z)
    BY <1>1, <2>1 DEF AreaInv
  <2> DEFINE fl2 == freeList'
             nf2 == nrFree'
  <2>4. /\ AreaInv(fl2, nf2, property)
        /\ Cover(fl2) = Cover(freeList) \ Block(page, c) /\ Block(page, c) \subseteq Cover(freeList)
        /\ Heads(fl2) = Heads(freeList) \ {page}
        /\ \A u \in Order : fl2[u] \subseteq freeList[u]
    <3>1. Dropped(freeList, nrFree, fl2, nf2, page, c)
      BY <2>2
    <3> HIDE DEF fl2, nf2
    <3> QED
      BY <1>1, <2>1, <3>1, AreaDrop
  <2>5. Merged(fl2)
    <3> HIDE DEF fl2, nf2
    <3> QED
      BY <1>1, <2>4, MergedDrop
  <2>6. al'.page = page /\ al'.cur = c /\ al'.order = order /\ al'.n = n
    BY <2>2
  <2>7. Owned(held', InFlight', Cover(fl2))
    <3>1. InFlight = {} /\ InFlight' = Block(page, c)
      BY <1>1, <1>b, <2>6 DEF InFlight
    <3> HIDE DEF fl2, nf2
    <3> QED
      BY <1>1, <1>b, <2>4, <3>1 DEF Owned
  <2>8. page \in Page /\ page \in Heads(freeList)
    BY <1>1, <2>1, <2>3 DEF Sits, Heads
  <2>9. flagged' = Heads(fl2) \cup {al'.page}
    <3> HIDE DEF fl2, nf2
    <3> QED
      BY <1>1, <1>b, <2>4, <2>6, <2>8
  <2>10. n <= OrderSize[MaxOrder] /\ OrderSize[MaxOrder] \in Nat
    BY Orders
  <2>11. TypeOK'
    BY <1>1, <1>2, <1>b, <2>1, <2>2, <2>4, <2>8, <2>10 DEF TypeOK, AreaInv
  <2>12. SplitInv'
    BY <1>2, <2>1, <2>3, <2>6 DEF SplitInv
  <2> QED
    BY <1>b, <2>4, <2>5, <2>7, <2>9, <2>11, <2>12 DEF BuddyInv
<1> QED
  BY <1>a, <1>b DEF AllocPages

\* The common part of the ends of an allocation and of the start of a free.
LEMMA StartFreeFacts ==
  ASSUME NEW base \in 0 .. NPage, NEW n \in 1 .. NPage, StartFree(base, n)
  PROVE  /\ fr'.base = base /\ fr'.n = n /\ fr'.order = 0
         /\ op' \in {"rest", "round"}
         /\ fr' \in [base : 0 .. NPage, n : 0 .. NPage, order : 0 .. MaxOrder + 1, zone : Zone]
<1>1. fr' = [[base |-> 0, n |-> 0, order |-> 0, zone |-> 0] EXCEPT !.base = base, !.n = n]
  BY DEF StartFree, NoFr
<1>2. fr' = [base |-> base, n |-> n, order |-> 0, zone |-> 0]
  BY <1>1
<1>3. n \in 0 .. NPage /\ 0 \in 0 .. MaxOrder + 1 /\ 0 \in Zone
  BY Orders
<1>4. op' \in {"rest", "round"}
  BY DEF StartFree
<1>5. fr'.base = base /\ fr'.n = n /\ fr'.order = 0
  BY <1>2
<1>6. fr' \in [base : 0 .. NPage, n : 0 .. NPage, order : 0 .. MaxOrder + 1, zone : Zone]
  BY <1>2, <1>3
<1> QED
  BY <1>4, <1>5, <1>6

\* The upper half goes back on a list, its other half is the block that is split.
LEMMA SplitKeeps ==
  ASSUME BuddyInv, Split
  PROVE  BuddyInv'
<1> DEFINE s == OrderSize[al.cur]
           p == al.page
<1>1. /\ op = "split" /\ AreaInv(freeList, nrFree, property) /\ SplitInv
      /\ Merged(freeList) /\ flagged = Heads(freeList) \cup {p}
      /\ Owned(held, InFlight, Cover(freeList)) /\ TypeOK
      /\ InFlight = Block(p, al.cur)
  BY DEF Split, BuddyInv, InFlight
<1>2. /\ p \in Page /\ p \in Nat /\ al.cur \in Order /\ al.order \in Order /\ al.n \in Nat
      /\ al.cur \in Nat /\ al.order \in Nat /\ s \in Nat /\ s >= 1
      /\ al.order <= al.cur /\ 1 <= al.n /\ al.n <= OrderSize[al.order]
      /\ OrderSize[al.order] \in Nat /\ al.cur <= MaxOrder /\ MaxOrder \in Nat
      /\ held \subseteq Page
  BY <1>1, Registers, Orders DEF SplitInv
<1>3. PICK z \in Zone : Sits(p, al.cur, z)
  BY <1>1 DEF SplitInv
<1>4. /\ MemBase[z] \in Nat /\ ZoneSize[z] \in Nat /\ MemBase[z] + ZoneSize[z] <= NPage /\ NPage \in Nat
      /\ MemBase[z] <= p /\ p + s <= MemBase[z] + ZoneSize[z] /\ Aligned(p - MemBase[z], al.cur)
  BY <1>3, ZoneFacts DEF Sits
<1>5. mg' = mg
  BY DEF Split
<1>a. CASE /\ al.cur > al.order
           /\ AddBlock(p + OrderSize[al.cur - 1], al.cur - 1)
           /\ al' = [al EXCEPT !.cur = @ - 1]
           /\ UNCHANGED <<op, fr, held>>
  <2> DEFINE o == al.cur - 1
             h == OrderSize[o]
             q == p + h
             B == Block(q, o)
             fl2 == freeList'
             nf2 == nrFree'
             pr2 == property'
  <2>1. /\ o \in Order /\ o \in Nat /\ o + 1 = al.cur /\ h \in Nat /\ h >= 1 /\ s = 2 * h
        /\ o \in 0 .. MaxOrder + 1 /\ o \in 0 .. al.cur /\ al.order <= o
        /\ al.cur \in 0 .. MaxOrder + 1
    <3>1. o \in Order /\ o \in Nat /\ o + 1 = al.cur /\ al.order <= o /\ o \in 0 .. al.cur
      BY <1>2, <1>a DEF Order
    <3> QED
      BY <1>2, <3>1, Orders
  <2>2. Added(freeList, nrFree, property, fl2, nf2, pr2, q, o) /\ flagged' = flagged \cup {q}
    BY <1>a DEF Added, AddBlock
  <2>3. Aligned(p - MemBase[z], o) /\ Aligned(h, o) /\ Aligned(p + h - MemBase[z], o)
    <3> DEFINE x == p - MemBase[z]
    <3>1. x \in Int /\ Aligned(x, al.cur)
      BY <1>2, <1>4
    <3> HIDE DEF x
    <3>2. Aligned(x, o)
      <4> HIDE DEF o
      <4> QED
        BY <2>1, <3>1, AlignedDown
    <3>3. Aligned(h, o)
      BY <2>1, AlignedSelf
    <3>4. Aligned(x + h, o)
      <4> HIDE DEF o, h
      <4> QED
        BY <2>1, <3>1, <3>2, <3>3, AlignedAdd
    <3>5. x + h = p + h - MemBase[z]
      BY <1>2, <1>4, <2>1 DEF x
    <3> QED
      BY <3>2, <3>3, <3>4, <3>5 DEF x
  <2>4. Sits(q, o, z)
    BY <1>2, <1>4, <2>1, <2>3 DEF Sits, Page
  <2>5. B \subseteq InFlight /\ Block(p, o) = InFlight \ B
    <3>1. InFlight = p .. p + 2 * h - 1 /\ B = p + h .. p + h + h - 1 /\ Block(p, o) = p .. p + h - 1
      BY <1>1, <1>2, <2>1 DEF Block
    <3> HIDE DEF h, p, B
    <3> QED
      BY <1>2, <2>1, <3>1
  <2>6. B \cap Cover(freeList) = {}
    <3> HIDE DEF B
    <3> QED
      BY <1>1, <2>5 DEF Owned
  <2>7. /\ AreaInv(fl2, nf2, pr2)
        /\ Cover(fl2) = Cover(freeList) \cup B
        /\ Heads(fl2) = Heads(freeList) \cup {q}
    <3> HIDE DEF fl2, nf2, pr2, q, o
    <3> QED
      BY <1>1, <2>2, <2>4, <2>6, AreaAdd DEF B
  <2>8. NoTwin(freeList, q, o, z)
    <3>1. ~ Sits(q, o + 1, z)
      <4>1. SUFFICES ASSUME Sits(q, o + 1, z) PROVE FALSE
        OBVIOUS
      <4> DEFINE x == p - MemBase[z]
                 y == q - MemBase[z]
      <4>2. x \in Int /\ y \in Int /\ x < y /\ y < x + s /\ Aligned(x, al.cur) /\ Aligned(y, al.cur)
        BY <1>2, <1>4, <2>1, <4>1 DEF Sits
      <4> HIDE DEF x, y
      <4>3. x + s <= y
        BY <2>1, <4>2, AlignedGap
      <4> QED
        BY <1>2, <4>2, <4>3
    <3>2. q - h = p
      BY <1>2, <2>1
    <3>3. p \notin freeList[o]
      <4>1. p \in InFlight
        BY <1>1, <1>2 DEF Block
      <4> QED
        BY <1>1, <2>1, <4>1, HeadsCovered DEF Owned
    <3> QED
      BY <3>1, <3>2, <3>3 DEF NoTwin
  <2>9. Merged(fl2)
    <3>1. fl2 = [freeList EXCEPT ![o] = @ \cup {q}] /\ freeList \in [Order -> SUBSET Page]
      BY <2>2, Registers DEF Added
    <3> HIDE DEF fl2, nf2, pr2, q, o
    <3> QED
      BY <1>1, <2>4, <2>8, <3>1, MergedAdd
  <2>10. /\ al'.page = p /\ al'.cur = o /\ al'.order = al.order /\ al'.n = al.n
         /\ al' \in [page : Page, cur : Order, order : Order, n : 0 .. OrderSize[MaxOrder]]
    BY <1>1, <1>a, <2>1 DEF TypeOK
  <2>11. InFlight' = Block(p, o) /\ op' = "split" /\ held' = held
    BY <1>1, <1>a, <2>10 DEF InFlight
  <2>12. Owned(held', InFlight', Cover(fl2))
    <3> HIDE DEF B, fl2
    <3> QED
      BY <1>1, <2>5, <2>7, <2>11 DEF Owned
  <2>13. flagged' = Heads(fl2) \cup {al'.page}
    <3> HIDE DEF fl2, q
    <3> QED
      BY <1>1, <2>2, <2>7, <2>10
  <2>14. SplitInv'
    <3>1. Sits(p, o, z)
      BY <1>2, <1>4, <2>1, <2>3 DEF Sits
    <3> QED
      BY <1>2, <2>1, <2>10, <3>1 DEF SplitInv
  <2>15. TypeOK'
    <3>1. q \in Page
      BY <2>4 DEF Sits
    <3> HIDE DEF q
    <3>2. flagged' \subseteq Page
      BY <1>1, <2>2, <3>1 DEF TypeOK
    <3> QED
      BY <1>1, <1>5, <1>a, <2>7, <2>10, <3>2 DEF TypeOK, AreaInv
  <2> QED
    BY <2>7, <2>9, <2>11, <2>12, <2>13, <2>14, <2>15 DEF BuddyInv
<1>b. CASE /\ al.cur = al.order
           /\ flagged' = flagged \ {p}
           /\ held' = held \cup p .. p + al.n - 1
           /\ al' = NoAl
           /\ IF al.n # OrderSize[al.order]
                THEN StartFree(p + al.n, OrderSize[al.order] - al.n)
                ELSE op' = "idle" /\ UNCHANGED fr
           /\ UNCHANGED <<freeList, nrFree, property>>
  <2> DEFINE H == p .. p + al.n - 1
  <2>1. freeList' = freeList /\ nrFree' = nrFree /\ property' = property /\ held' = held \cup H
    BY <1>b
  <2>2. H \subseteq InFlight /\ H \subseteq Page /\ InFlight = p .. p + s - 1 /\ al.n <= s
    <3>1. InFlight = p .. p + s - 1 /\ al.n <= s
      BY <1>1, <1>2, <1>b DEF Block
    <3>2. p + s <= NPage
      BY <1>2, <1>4
    <3>3. p \in Nat /\ s \in Nat /\ al.n \in Nat
      BY <1>2
    <3> DEFINE m == al.n
    <3>4. H = p .. p + m - 1
      OBVIOUS
    <3> HIDE DEF s, p, m, H
    <3>5. H \subseteq InFlight
      BY <3>1, <3>3, <3>4 DEF m
    <3>6. H \subseteq Page
      BY <1>4, <3>1, <3>2, <3>3, <3>4 DEF m, Page
    <3> QED
      BY <3>1, <3>5, <3>6
  <2>3. flagged' = Heads(freeList')
    <3>1. p \in InFlight
      BY <1>1, <1>2 DEF Block
    <3>2. p \notin Heads(freeList)
      BY <1>1, <3>1, HeadsCovered DEF Owned
    <3> QED
      BY <1>1, <1>b, <2>1, <3>2
  <2>4. al' \in [page : Page, cur : Order, order : Order, n : 0 .. OrderSize[MaxOrder]]
    BY <1>b, Orders DEF NoAl
  <2>5. CASE al.n # OrderSize[al.order]
    <3> DEFINE b == p + al.n
               n == s - al.n
    <3>1. b \in 0 .. NPage /\ n \in 1 .. NPage /\ StartFree(b, n)
      BY <1>2, <1>4, <1>b, <2>5
    <3>2. /\ fr'.base = b /\ fr'.n = n /\ fr'.order = 0
          /\ op' \in {"rest", "round"}
          /\ fr' \in [base : 0 .. NPage, n : 0 .. NPage, order : 0 .. MaxOrder + 1, zone : Zone]
      <4> HIDE DEF b, n
      <4> QED
        BY <3>1, StartFreeFacts
    <3>3. InFlight' = InFlight \ H
      <4>1. InFlight' = b .. b + n - 1
        BY <3>2 DEF InFlight
      <4>2. b + n - 1 = p + s - 1 /\ b = p + al.n
        BY <1>2
      <4> HIDE DEF s, p, b, n
      <4> QED
        BY <1>2, <2>2, <4>1, <4>2
    <3>4. Owned(held', InFlight', Cover(freeList'))
      <4> HIDE DEF H
      <4> QED
        BY <1>1, <2>1, <2>2, <3>3 DEF Owned
    <3>5. RangeInv'
      <4>1. n <= OrderSize[MaxOrder]
        <5>1. s <= OrderSize[MaxOrder] /\ OrderSize[MaxOrder] \in Nat
          <6>1. al.cur \in 0 .. MaxOrder /\ MaxOrder \in 0 .. MaxOrder + 1
            BY <1>2
          <6> QED
            BY <6>1, SizeMonotone, Orders
        <5> QED
          BY <1>2, <5>1
      <4>2. Aligned(b - MemBase[z], 0)
        <5>1. b - MemBase[z] \in Int
          BY <1>2, <1>4
        <5> QED
          BY <5>1, AlignedOne
      <4>3. MemBase[z] <= b /\ b + n <= MemBase[z] + ZoneSize[z]
        BY <1>2, <1>4
      <4> HIDE DEF b, n
      <4> QED
        BY <3>2, <4>1, <4>2, <4>3 DEF RangeInv
    <3>6. TypeOK'
      BY <1>1, <1>2, <1>5, <1>b, <2>1, <2>2, <2>4, <3>2 DEF TypeOK
    <3> QED
      BY <1>1, <2>1, <2>3, <3>2, <3>4, <3>5, <3>6 DEF BuddyInv
  <2>6. CASE al.n = OrderSize[al.order]
    <3>1. op' = "idle" /\ fr' = fr
      BY <1>b, <2>6
    <3>2. InFlight' = {} /\ H = InFlight
      BY <1>1, <1>b, <2>6, <3>1 DEF InFlight, Block
    <3>3. Owned(held', InFlight', Cover(freeList'))
      <4> HIDE DEF H
      <4> QED
        BY <1>1, <2>1, <3>2 DEF Owned
    <3>4. TypeOK'
      BY <1>1, <1>2, <1>5, <1>b, <2>1, <2>2, <2>4, <3>1 DEF TypeOK
    <3> QED
      BY <1>1, <2>1, <2>3, <3>1, <3>3, <3>4 DEF BuddyInv
  <2> QED
    BY <2>5, <2>6
<1> QED
  BY <1>a, <1>b DEF Split

\* buddy_free_pages starts with pages of one zone that the caller held.
LEMMA FreePagesKeeps ==
  ASSUME BuddyInv, NEW base \in held, NEW n \in 1 .. OrderSize[MaxOrder], FreePages(base, n)
  PROVE  BuddyInv'
<1> DEFINE z == ZoneOf(base)
           R == base .. base + n - 1
<1>1. /\ op = "idle" /\ AreaInv(freeList, nrFree, property)
      /\ Merged(freeList) /\ flagged = Heads(freeList)
      /\ Owned(held, InFlight, Cover(freeList)) /\ TypeOK /\ InFlight = {}
  BY DEF FreePages, BuddyInv, InFlight
<1>2. /\ R \subseteq held /\ base + n - 1 \in PagesOf(z) /\ held' = held \ R
      /\ StartFree(base, n) /\ UNCHANGED <<areaVars, al, mg>>
  BY DEF FreePages
<1>3. /\ freeList' = freeList /\ nrFree' = nrFree /\ property' = property /\ flagged' = flagged
      /\ al' = al /\ mg' = mg
  BY <1>2 DEF areaVars
<1>4. z \in Zone /\ base \in PagesOf(z)
  <2>1. base \in Zoned
    BY <1>1 DEF Owned
  <2> QED
    BY <2>1 DEF Zoned, InZone, ZoneOf
<1>5. /\ MemBase[z] \in Nat /\ ZoneSize[z] \in Nat /\ MemBase[z] + ZoneSize[z] <= NPage /\ NPage \in Nat
      /\ OrderSize[MaxOrder] \in Nat /\ n \in Nat /\ n >= 1 /\ n <= OrderSize[MaxOrder]
  BY <1>4, ZoneFacts, Orders
<1> HIDE DEF z
<1>6. /\ MemBase[z] <= base /\ base + n <= MemBase[z] + ZoneSize[z] /\ base \in Nat
      /\ base \in 0 .. NPage /\ n \in 1 .. NPage
  BY <1>2, <1>4, <1>5 DEF PagesOf
<1>7. /\ fr'.base = base /\ fr'.n = n /\ fr'.order = 0
      /\ op' \in {"rest", "round"}
      /\ fr' \in [base : 0 .. NPage, n : 0 .. NPage, order : 0 .. MaxOrder + 1, zone : Zone]
  BY <1>2, <1>6, StartFreeFacts
<1>8. InFlight' = R
  BY <1>7 DEF InFlight
<1>9. Owned(held', InFlight', Cover(freeList'))
  <2> HIDE DEF R
  <2> QED
    BY <1>1, <1>2, <1>3, <1>8 DEF Owned
<1>10. RangeInv'
  <2>1. Aligned(base - MemBase[z], 0)
    BY <1>5, <1>6, AlignedOne
  <2> QED
    BY <1>4, <1>5, <1>6, <1>7, <2>1 DEF RangeInv
<1>11. TypeOK'
  BY <1>1, <1>2, <1>3, <1>7 DEF TypeOK
<1> QED
  BY <1>1, <1>3, <1>7, <1>9, <1>10, <1>11 DEF BuddyInv

\* The facts a step of buddy_free_pages starts from.
LEMMA RangeFacts ==
  ASSUME BuddyInv, op \in {"round", "rest"}
  PROVE  /\ AreaInv(freeList, nrFree, property) /\ Merged(freeList) /\ flagged = Heads(freeList)
         /\ Owned(held, InFlight, Cover(freeList)) /\ TypeOK
         /\ InFlight = fr.base .. fr.base + fr.n - 1
         /\ fr.base \in Nat /\ fr.n \in Nat /\ fr.order \in Nat
         /\ fr.order \in 0 .. MaxOrder + 1 /\ OrderSize[fr.order] \in Nat /\ OrderSize[fr.order] >= 1
         /\ OrderSize[MaxOrder] \in Nat /\ fr.n <= OrderSize[MaxOrder]
         /\ \E z \in Zone : /\ MemBase[z] <= fr.base
                            /\ fr.base + fr.n <= MemBase[z] + ZoneSize[z]
                            /\ Aligned(fr.base - MemBase[z], fr.order)
BY Registers, SizeType, Orders DEF BuddyInv, InFlight, RangeInv

\* A block of order o at the start of the range goes to buddy_free_pages_sub, and the
\* next one will be tried with order u.
Frees(o, u, then) ==
  /\ FreeSub(fr.base, o, then)
  /\ fr' = [fr EXCEPT !.base = @ + OrderSize[o], !.n = @ - OrderSize[o], !.order = u]
  /\ UNCHANGED <<areaVars, al, held>>

\* The asserts of buddy_free_pages_sub hold for an aligned block at the start of the
\* range; it is merged, the rest of the range waits.
LEMMA FreeSubKeeps ==
  ASSUME BuddyInv, op \in {"round", "rest"}, NEW z \in Zone, NEW o \in Order, NEW u \in 0 .. MaxOrder + 1,
         MemBase[z] <= fr.base, fr.base + fr.n <= MemBase[z] + ZoneSize[z],
         Aligned(fr.base - MemBase[z], o), fr.n >= OrderSize[o],
         Aligned(fr.base + OrderSize[o] - MemBase[z], u),
         NEW then \in {"round", "rest"}, Frees(o, u, then)
  PROVE  BuddyInv'
<1> DEFINE b == fr.base
           n == fr.n
           s == OrderSize[o]
           B == Block(b, o)
           m == MemBase[z]
           e == MemBase[z] + ZoneSize[z]
<1>1. /\ AreaInv(freeList, nrFree, property) /\ Merged(freeList) /\ flagged = Heads(freeList)
      /\ Owned(held, InFlight, Cover(freeList)) /\ TypeOK
      /\ InFlight = b .. b + n - 1
      /\ b \in Nat /\ n \in Nat /\ OrderSize[MaxOrder] \in Nat /\ n <= OrderSize[MaxOrder]
  BY RangeFacts
<1>2. /\ MemBase[z] \in Nat /\ ZoneSize[z] \in Nat /\ MemBase[z] + ZoneSize[z] <= NPage /\ NPage \in Nat
      /\ s \in Nat /\ s >= 1 /\ o \in 0 .. MaxOrder + 1
  BY ZoneFacts, Orders
<1>x. /\ b \in Nat /\ n \in Nat /\ s \in Nat /\ m \in Nat /\ e \in Nat /\ NPage \in Nat
      /\ s >= 1 /\ n >= s /\ m <= b /\ b + n <= e /\ e <= NPage
      /\ n <= OrderSize[MaxOrder] /\ OrderSize[MaxOrder] \in Nat
  BY <1>1, <1>2
<1>y. B = b .. b + s - 1 /\ B \subseteq InFlight
  <2>1. B = b .. b + s - 1 /\ InFlight = b .. b + n - 1
    BY <1>1 DEF Block
  <2> HIDE DEF b, n, s, m, e, B
  <2> QED
    BY <1>x, <2>1
<1>3. Sits(b, o, z)
  <2>1. b \in Page /\ b + s <= e
    <3> HIDE DEF b, n, s, m, e
    <3> QED
      BY <1>x DEF Page
  <2> QED
    BY <2>1 DEF Sits
<1>4. /\ b \in PagesOf(z) /\ ZoneOf(b) = z /\ PageIdx(b) = b - MemBase[z]
      /\ B \subseteq PagesOf(z)
  <2>1. b \in PagesOf(z) /\ B \subseteq PagesOf(z)
    BY <1>3, SitsFacts
  <2> QED
    BY <2>1, ZoneOfPage
<1>5. /\ PageIdx(b) % s = 0
      /\ \A p \in B : InZone(p) /\ p \notin flagged
  <2>1. PageIdx(b) \in Nat
    BY <1>1, <1>2, <1>4
  <2>2. PageIdx(b) % s = 0
    BY <1>2, <1>4, <2>1, AlignedMod
  <2>4. \A p \in B : p \notin flagged
    BY <1>1, <1>y, HeadsCovered DEF Owned
  <2> QED
    BY <1>4, <2>2, <2>4, ZoneOfPage
<1>6. /\ op' = "merge"
      /\ mg' = [zone |-> z, idx |-> b - MemBase[z], order |-> o, then |-> then]
  BY <1>4, <1>5 DEF FreeSub, Frees
<1>7. /\ freeList' = freeList /\ nrFree' = nrFree /\ property' = property /\ flagged' = flagged
      /\ al' = al /\ held' = held
  BY DEF areaVars, Frees
<1>8. /\ fr'.base = b + s /\ fr'.n = n - s /\ fr'.order = u
      /\ fr' \in [base : 0 .. NPage, n : 0 .. NPage, order : 0 .. MaxOrder + 1, zone : Zone]
  <2>1. b + s \in 0 .. NPage /\ n - s \in 0 .. NPage
    <3> HIDE DEF b, n, s, m, e
    <3> QED
      BY <1>x
  <2>2. fr \in [base : 0 .. NPage, n : 0 .. NPage, order : 0 .. MaxOrder + 1, zone : Zone]
    BY Registers
  <2>3. fr' = [fr EXCEPT !.base = fr.base + s, !.n = fr.n - s, !.order = u]
    BY DEF Frees
  <2> DEFINE x == b + s
             y == n - s
  <2>4. fr' = [fr EXCEPT !.base = x, !.n = y, !.order = u]
    BY <2>3
  <2> HIDE DEF x, y
  <2>5. fr'.base = x /\ fr'.n = y /\ fr'.order = u
    BY <2>2, <2>4
  <2>6. fr' \in [base : 0 .. NPage, n : 0 .. NPage, order : 0 .. MaxOrder + 1, zone : Zone]
    BY <2>1, <2>2, <2>4 DEF x, y
  <2> QED
    BY <2>5, <2>6 DEF x, y
<1>9. /\ mg'.zone = z /\ mg'.idx = b - MemBase[z] /\ mg'.order = o /\ mg'.then = then
      /\ MemBase[z] + (b - MemBase[z]) = b
      /\ mg' \in [zone : Zone, idx : Page, order : Order, then : {"idle", "round", "rest"}]
  <2>1. b - MemBase[z] \in Page
    <3>1. b - m \in Page
      <4> HIDE DEF b, n, s, m, e
      <4> QED
        BY <1>x DEF Page
    <3> QED
      BY <3>1
  <2> QED
    BY <1>1, <1>2, <1>6, <2>1
<1>10. InFlight' = InFlight /\ B \cap (fr'.base .. fr'.base + fr'.n - 1) = {}
  <2>1. InFlight' = (fr'.base .. fr'.base + fr'.n - 1) \cup B
    BY <1>6, <1>9 DEF InFlight
  <2>2. InFlight = b .. b + n - 1 /\ fr'.base = b + s /\ fr'.n = n - s
    BY <1>1, <1>8
  <2> HIDE DEF b, s, n, B, m, e
  <2>3. fr'.base .. fr'.base + fr'.n - 1 = b + s .. b + n - 1
    BY <1>x, <2>2
  <2> QED
    BY <1>x, <1>y, <2>1, <2>2, <2>3
<1>11. Owned(held', InFlight', Cover(freeList'))
  BY <1>1, <1>7, <1>10
<1>12. RangeInv'
  <2>1. n - s <= OrderSize[MaxOrder] /\ m <= b + s /\ b + s + (n - s) <= e
    <3> HIDE DEF b, n, s, m, e
    <3> QED
      BY <1>x
  <2>2. Aligned(b + s - m, u)
    OBVIOUS
  <2>3. fr'.base = b + s /\ fr'.n = n - s /\ fr'.order = u
    BY <1>8
  <2> DEFINE x == b + s
             y == n - s
  <2>4. /\ fr'.base = x /\ fr'.n = y /\ y <= OrderSize[MaxOrder] /\ MemBase[z] <= x
        /\ x + y <= MemBase[z] + ZoneSize[z]
    BY <2>1, <2>3
  <2>5. Aligned(x - MemBase[z], fr'.order)
    <3>0. b + s - m = (b + s) - m
      BY <1>x
    <3> HIDE DEF b, s, m
    <3>1. fr'.order = u /\ Aligned(b + s - m, u)
      BY <2>2, <2>3
    <3> QED
      BY <3>0, <3>1 DEF m
  <2> HIDE DEF x, y
  <2> QED
    BY <2>4, <2>5 DEF RangeInv
<1>13. MergeInv'
  BY <1>3, <1>9, <1>10 DEF MergeInv
<1>14. TypeOK'
  BY <1>1, <1>6, <1>7, <1>8, <1>9 DEF TypeOK
<1> QED
  BY <1>1, <1>6, <1>7, <1>11, <1>12, <1>13, <1>14 DEF BuddyInv

\* buddy_free_pages rounds base up: at a set bit a block is freed, at a clear one base is
\* aligned to the next order already.
LEMMA RoundKeeps ==
  ASSUME BuddyInv, Round
  PROVE  BuddyInv'
<1> DEFINE b == fr.base
           o == fr.order
           s == OrderSize[o]
<1>0. op = "round" /\ UNCHANGED <<areaVars, al, held>>
  BY DEF Round
<1>1. /\ AreaInv(freeList, nrFree, property) /\ Merged(freeList) /\ flagged = Heads(freeList)
      /\ Owned(held, InFlight, Cover(freeList)) /\ TypeOK
      /\ InFlight = b .. b + fr.n - 1
      /\ b \in Nat /\ fr.n \in Nat /\ OrderSize[MaxOrder] \in Nat /\ fr.n <= OrderSize[MaxOrder]
      /\ o \in Nat /\ o \in 0 .. MaxOrder + 1 /\ s \in Nat /\ s >= 1
  BY <1>0, RangeFacts
<1>2. PICK z \in Zone : /\ MemBase[z] <= b /\ b + fr.n <= MemBase[z] + ZoneSize[z]
                        /\ Aligned(b - MemBase[z], o)
  BY <1>0, RangeFacts
<1>3. MemBase[z] \in Nat /\ ZoneSize[z] \in Nat /\ MemBase[z] + ZoneSize[z] <= NPage /\ NPage \in Nat
  BY ZoneFacts
<1>4. /\ freeList' = freeList /\ nrFree' = nrFree /\ property' = property /\ flagged' = flagged
      /\ al' = al /\ held' = held
  BY <1>0 DEF areaVars
<1>a. CASE fr.n >= s
  <2>1. o <= MaxOrder /\ o \in Order /\ o + 1 \in 0 .. MaxOrder + 1
    <3>1. OrderSize[MaxOrder + 1] = 2 * OrderSize[MaxOrder] /\ OrderSize[MaxOrder] >= 1 /\ MaxOrder \in Nat
      BY Orders
    <3>2. o # MaxOrder + 1
      BY <1>1, <1>a, <3>1
    <3> QED
      BY <1>1, <3>1, <3>2 DEF Order
  <2>2. b \in PagesOf(z) /\ PageIdx(b) = b - MemBase[z] /\ PageIdx(b) \in Nat
    <3>1. b \in PagesOf(z)
      <4> DEFINE n == fr.n
                 m == MemBase[z]
                 e == ZoneSize[z]
      <4>1. /\ b \in Nat /\ n \in Nat /\ m \in Nat /\ e \in Nat /\ s \in Nat
            /\ n >= s /\ s >= 1 /\ m <= b /\ b + n <= m + e
        BY <1>1, <1>2, <1>3, <1>a
      <4> HIDE DEF b, n, m, e, s
      <4>2. b \in m .. m + e - 1
        BY <4>1
      <4> QED
        BY <4>2 DEF PagesOf, m, e
    <3> QED
      BY <1>1, <1>2, <1>3, <3>1, ZoneOfPage
  <2> DEFINE x == PageIdx(b)
  <2>3. /\ Bit(x, o) \in {0, 1}
        /\ Bit(x, o) = 0 => Aligned(x, o + 1)
        /\ Bit(x, o) = 1 => Aligned(x + s, o + 1)
    BY <1>2, <2>1, <2>2, BitAligned
  <2>4. CASE Bit(x, o) = 1
    <3>1. FreeSub(fr.base, fr.order, "round") /\ fr' = NextOrder(Freed(fr))
      BY <1>1, <1>a, <2>1, <2>4, Orders DEF Round
    <3>2. fr' = [fr EXCEPT !.base = @ + s, !.n = @ - s, !.order = o + 1]
      <4>1. fr \in [base : 0 .. NPage, n : 0 .. NPage, order : 0 .. MaxOrder + 1, zone : Zone]
        BY Registers
      <4> QED
        BY <3>1, <4>1 DEF NextOrder, Freed
    <3>3. Aligned(b + s - MemBase[z], o + 1)
      <4>1. x + s = b + s - MemBase[z]
        BY <1>1, <1>3, <2>2
      <4> QED
        BY <2>3, <2>4, <4>1
    <3>4. Frees(o, o + 1, "round")
      BY <1>0, <3>1, <3>2 DEF Frees
    <3> QED
      BY <1>0, <1>2, <1>a, <2>1, <3>3, <3>4, FreeSubKeeps
  <2>5. CASE Bit(x, o) = 0
    <3>1. fr' = [fr EXCEPT !.order = @ + 1] /\ op' = op /\ mg' = mg
      BY <1>1, <1>a, <2>1, <2>5, Orders DEF Round, NextOrder
    <3>2. /\ fr'.base = fr.base /\ fr'.n = fr.n /\ fr'.order = fr.order + 1
          /\ fr' \in [base : 0 .. NPage, n : 0 .. NPage, order : 0 .. MaxOrder + 1, zone : Zone]
      BY <2>1, <3>1, Registers
    <3>3. InFlight' = InFlight
      BY <1>0, <3>1, <3>2 DEF InFlight
    <3>4. RangeInv'
      BY <1>1, <1>2, <2>2, <2>3, <2>5, <3>2 DEF RangeInv
    <3>5. TypeOK'
      BY <1>1, <1>4, <3>1, <3>2 DEF TypeOK
    <3> QED
      BY <1>0, <1>1, <1>4, <3>1, <3>3, <3>4, <3>5 DEF BuddyInv
  <2> QED
    BY <2>3, <2>4, <2>5
<1>b. CASE ~ (fr.n >= s)
  <2>1. op' = "rest" /\ fr' = fr /\ mg' = mg
    BY <1>b DEF Round
  <2>2. InFlight' = InFlight
    BY <1>0, <2>1 DEF InFlight
  <2>3. RangeInv'
    BY <1>1, <1>2, <2>1 DEF RangeInv
  <2>4. TypeOK'
    BY <1>1, <1>4, <2>1 DEF TypeOK
  <2> QED
    BY <1>1, <1>4, <2>1, <2>2, <2>3, <2>4 DEF BuddyInv
<1> QED
  BY <1>a, <1>b

\* The inner loop of the second loop of buddy_free_pages finds an order.
LEMMA FittingOrder ==
  ASSUME NEW k \in 0 .. MaxOrder + 1, NEW n \in Nat, n >= 1, n < OrderSize[k]
  PROVE  \E o \in 0 .. k - 1 : OrderSize[o] <= n /\ n < OrderSize[o + 1]
<1> DEFINE S == {o \in 0 .. k : n < OrderSize[o]}
<1>0. MaxOrder \in Nat /\ k \in Nat
  BY Orders
<1>1. S \in SUBSET Nat /\ k \in S
  BY <1>0
<1>2. PICK m \in S : \A o \in S : m <= o
  <2> HIDE DEF S
  <2> QED
    BY <1>1, LeastOfNats
<1>3. m \in 1 .. k /\ m - 1 \in 0 .. k - 1 /\ (m - 1) + 1 = m
  <2>1. m # 0
    BY <1>2, SizeFacts
  <2> QED
    BY <1>0, <1>2, <2>1
<1>4. m - 1 \notin S /\ m - 1 \in 0 .. k
  BY <1>0, <1>2, <1>3
<1>5. OrderSize[m - 1] \in Nat /\ ~ (n < OrderSize[m - 1])
  BY <1>0, <1>3, <1>4, SizeType
<1>6. OrderSize[m - 1] <= n
  BY <1>5
<1>7. n < OrderSize[(m - 1) + 1]
  BY <1>2, <1>3
<1> QED
  BY <1>3, <1>6, <1>7

\* Then it frees the largest blocks that fit, in falling order.
LEMMA RestKeeps ==
  ASSUME BuddyInv, Rest
  PROVE  BuddyInv'
<1> DEFINE b == fr.base
           P(o) == OrderSize[o] <= fr.n /\ fr.n < OrderSize[o + 1]
           w == CHOOSE o \in 0 .. fr.order - 1 : P(o)
           o == IF fr.n < OrderSize[fr.order] THEN w ELSE fr.order
<1>0. op = "rest" /\ UNCHANGED <<areaVars, al, held>>
  BY DEF Rest
<1>1. /\ AreaInv(freeList, nrFree, property) /\ Merged(freeList) /\ flagged = Heads(freeList)
      /\ Owned(held, InFlight, Cover(freeList)) /\ TypeOK
      /\ InFlight = b .. b + fr.n - 1
      /\ b \in Nat /\ fr.n \in Nat /\ OrderSize[MaxOrder] \in Nat /\ fr.n <= OrderSize[MaxOrder]
      /\ fr.order \in Nat /\ fr.order \in 0 .. MaxOrder + 1
      /\ OrderSize[fr.order] \in Nat /\ OrderSize[fr.order] >= 1
  BY <1>0, RangeFacts
<1>2. PICK z \in Zone : /\ MemBase[z] <= b /\ b + fr.n <= MemBase[z] + ZoneSize[z]
                        /\ Aligned(b - MemBase[z], fr.order)
  BY <1>0, RangeFacts
<1>3. MemBase[z] \in Nat /\ ZoneSize[z] \in Nat /\ MemBase[z] + ZoneSize[z] <= NPage /\ NPage \in Nat
  BY ZoneFacts
<1>4. /\ freeList' = freeList /\ nrFree' = nrFree /\ property' = property /\ flagged' = flagged
      /\ al' = al /\ held' = held
  BY <1>0 DEF areaVars
<1>a. CASE fr.n # 0
  <2>1. FreeSub(fr.base, o, "rest") /\ fr' = Freed([fr EXCEPT !.order = o])
    BY <1>a DEF Rest
  <2>2. o \in Order /\ o \in 0 .. fr.order /\ fr.n >= OrderSize[o]
    <3>1. CASE fr.n < OrderSize[fr.order]
      <4>1. \E k \in 0 .. fr.order - 1 : P(k)
        <5>1. fr.n \in Nat /\ fr.n >= 1
          BY <1>1, <1>a
        <5> QED
          BY <1>1, <3>1, <5>1, FittingOrder
      <4> HIDE DEF P
      <4>2. w \in 0 .. fr.order - 1 /\ P(w)
        BY <4>1
      <4>3. w \in Order /\ w \in 0 .. fr.order
        BY <1>1, <4>2, Orders DEF Order
      <4>4. OrderSize[w] \in Nat
        BY <4>3, Orders
      <4> QED
        BY <1>1, <3>1, <4>2, <4>3, <4>4 DEF P
    <3>2. CASE ~ (fr.n < OrderSize[fr.order])
      <4>1. OrderSize[MaxOrder + 1] = 2 * OrderSize[MaxOrder] /\ OrderSize[MaxOrder] >= 1 /\ MaxOrder \in Nat
        BY Orders
      <4>2. fr.order # MaxOrder + 1
        BY <1>1, <3>2, <4>1
      <4> QED
        BY <1>1, <3>2, <4>1, <4>2 DEF Order
    <3> QED
      BY <3>1, <3>2
  <2> HIDE DEF o
  <2>3. OrderSize[o] \in Nat /\ o \in 0 .. MaxOrder + 1
    BY <2>2, Orders
  <2>4. Aligned(b - MemBase[z], o) /\ Aligned(b + OrderSize[o] - MemBase[z], o)
    <3> DEFINE x == b - MemBase[z]
               s == OrderSize[o]
    <3>1. x \in Int /\ s \in Nat /\ s \in Int /\ x + s = b + s - MemBase[z]
      BY <1>1, <1>3, <2>3
    <3>2. Aligned(x, fr.order)
      BY <1>2
    <3>3. Aligned(s, o)
      BY <2>3, AlignedSelf
    <3> HIDE DEF x, s
    <3>4. Aligned(x, o)
      BY <1>1, <2>2, <3>1, <3>2, AlignedDown
    <3>5. Aligned(x + s, o)
      BY <2>3, <3>1, <3>3, <3>4, AlignedAdd
    <3> QED
      BY <3>1, <3>4, <3>5 DEF x, s
  <2>5. fr' = [fr EXCEPT !.base = @ + OrderSize[o], !.n = @ - OrderSize[o], !.order = o]
    <3>1. fr \in [base : 0 .. NPage, n : 0 .. NPage, order : 0 .. MaxOrder + 1, zone : Zone]
      BY Registers
    <3> QED
      BY <2>1, <3>1 DEF Freed
  <2>6. Frees(o, o, "rest")
    BY <1>0, <2>1, <2>5 DEF Frees
  <2> QED
    BY <1>0, <1>2, <2>2, <2>3, <2>4, <2>6, FreeSubKeeps
<1>b. CASE fr.n = 0
  <2>1. op' = "idle" /\ fr' = NoFr /\ mg' = mg
    BY <1>b DEF Rest
  <2>2. fr' \in [base : 0 .. NPage, n : 0 .. NPage, order : 0 .. MaxOrder + 1, zone : Zone]
    BY <2>1, Orders DEF NoFr
  <2>3. InFlight' = {} /\ InFlight = {}
    <3>1. InFlight' = {}
      BY <2>1 DEF InFlight
    <3>2. InFlight = {}
      BY <1>1, <1>b
    <3> QED
      BY <3>1, <3>2
  <2>4. TypeOK'
    BY <1>1, <1>4, <2>1, <2>2 DEF TypeOK
  <2> QED
    BY <1>1, <1>4, <2>1, <2>3, <2>4 DEF BuddyInv
<1> QED
  BY <1>a, <1>b

\* A buddy that page_is_buddy accepts is a free block of the same order and zone; when it
\* accepts none, the block that goes on its list is the half of no free block.
LEMMA MergeKeeps ==
  ASSUME BuddyInv, Merge
  PROVE  BuddyInv'
<1> DEFINE z == mg.zone
           o == mg.order
           x == mg.idx
           m == MemBase[z]
           s == OrderSize[o]
           p == m + x
           B == Block(p, o)
           R == fr.base .. fr.base + fr.n - 1
<1>1. /\ op = "merge" /\ AreaInv(freeList, nrFree, property) /\ Merged(freeList)
      /\ flagged = Heads(freeList) /\ RangeInv /\ MergeInv
      /\ Owned(held, InFlight, Cover(freeList)) /\ TypeOK
      /\ InFlight = R \cup B
  BY DEF Merge, BuddyInv, InFlight
<1>2. /\ z \in Zone /\ o \in Order /\ x \in Nat /\ x \in Page /\ m \in Nat /\ ZoneSize[z] \in Nat
      /\ m + ZoneSize[z] <= NPage /\ NPage \in Nat /\ s \in Nat /\ s >= 1 /\ o \in Nat
      /\ o \in 0 .. MaxOrder + 1 /\ o <= MaxOrder /\ MaxOrder \in Nat
      /\ o + 1 \in 0 .. MaxOrder + 1 /\ OrderSize[o + 1] = 2 * s
      /\ mg.then \in {"round", "rest"}
  BY <1>1, Registers, ZoneFacts, Orders DEF MergeInv
<1>3. Sits(p, o, z) /\ R \cap B = {}
  BY <1>1 DEF MergeInv
<1>4. Aligned(x, o) /\ p + s <= m + ZoneSize[z] /\ p \in Nat
  <2>1. p - m = x
    BY <1>2
  <2> QED
    BY <1>2, <1>3, <2>1 DEF Sits
<1>5. al' = al /\ fr' = fr /\ held' = held
  BY DEF Merge
<1>6. /\ Bit(x, o) \in {0, 1}
      /\ Bit(x, o) = 0 => Aligned(x, o + 1)
      /\ Bit(x, o) = 1 => Aligned(x - s, o + 1) /\ Aligned(x + s, o + 1) /\ x >= s
  BY <1>2, <1>4, BitAligned
<1>7. Buddy = IF Bit(x, o) = 1 THEN m + (x - s) ELSE m + (x + s)
  BY <1>6 DEF Buddy, BuddyIdx
<1>8. ASSUME NEW q, q \in freeList[o], q \in PagesOf(z)
      PROVE  PageIsBuddy(q, o, z)
  <2>1. q \in Page /\ property[q] = o /\ q \in Heads(freeList)
    BY <1>1, <1>2, <1>8, HeadsCovered DEF AreaInv
  <2> QED
    BY <1>1, <1>2, <1>8, <2>1 DEF PageIsBuddy, Page
<1>a. CASE Absorbs
  <2> DEFINE b == Buddy
             fl2 == freeList'
             nf2 == nrFree'
             C == Block(b, o)
             lx == LowerIdx(x, o)
             lp == m + lx
  <2>1. /\ nrFree' = [nrFree EXCEPT ![o] = @ - 1]
        /\ freeList' = [freeList EXCEPT ![o] = @ \ {b}]
        /\ flagged' = flagged \ {b}
        /\ mg' = [mg EXCEPT !.idx = lx, !.order = @ + 1]
        /\ property' = property /\ op' = op
    BY <1>a DEF Merge, TakeBuddy
  <2>2. o < MaxOrder /\ o + 1 \in Order /\ b \in PagesOf(z) /\ b \in flagged /\ property[b] = o
    <3>1. o < MaxOrder /\ b \in PagesOf(z) /\ b \in flagged /\ property[b] = o
      BY <1>a DEF Absorbs, PageIsBuddy
    <3> QED
      BY <1>2, <3>1 DEF Order
  <2>3. b \in freeList[o]
    <3>1. PICK u \in Order : b \in freeList[u]
      BY <1>1, <2>2 DEF Heads
    <3>2. u = o
      BY <1>1, <2>2, <3>1 DEF AreaInv
    <3> QED
      BY <3>1, <3>2
  <2>4. Sits(b, o, z)
    <3>1. PICK y \in Zone : Sits(b, o, y)
      BY <1>1, <1>2, <2>3 DEF AreaInv
    <3>2. b \in PagesOf(y)
      BY <3>1, SitsFacts
    <3>3. y = z
      BY <1>2, <2>2, <3>2, ZoneUnique
    <3> QED
      BY <3>1, <3>3
  <2>5. Dropped(freeList, nrFree, fl2, nf2, b, o)
    BY <2>1 DEF Dropped
  <2>6. /\ AreaInv(fl2, nf2, property)
        /\ Cover(fl2) = Cover(freeList) \ C /\ C \subseteq Cover(freeList)
        /\ Heads(fl2) = Heads(freeList) \ {b}
        /\ \A u \in Order : fl2[u] \subseteq freeList[u]
    <3> HIDE DEF fl2, nf2, b, o
    <3> QED
      BY <1>1, <1>2, <2>3, <2>5, AreaDrop
  <2>7. Merged(fl2)
    <3> HIDE DEF fl2, nf2
    <3> QED
      BY <1>1, <2>6, MergedDrop
  <2>8. /\ lx \in Nat /\ lx \in Page /\ Aligned(lx, o + 1) /\ lp \in Nat
        /\ Block(lp, o + 1) = B \cup C
        /\ lp + 2 * s <= m + ZoneSize[z]
    <3>0. b + s <= m + ZoneSize[z] /\ b \in Nat
      <4>1. b \in Nat
        BY <1>2, <2>4, SitsFacts
      <4>2. b + s <= m + ZoneSize[z]
        <5> HIDE DEF b
        <5> QED
          BY <2>4 DEF Sits
      <4> QED
        BY <4>1, <4>2
    <3> DEFINE e == m + ZoneSize[z]
    <3>1. CASE Bit(x, o) = 1
      <4>1. lx = x - 1 * s /\ b = m + (x - s)
        BY <1>7, <3>1 DEF LowerIdx
      <4>2. lx = x - s
        BY <1>2, <4>1
      <4>3. /\ Block(lp, o + 1) = lp .. lp + 2 * s - 1 /\ B = p .. p + s - 1 /\ C = b .. b + s - 1
        BY <1>2 DEF Block
      <4>4. Aligned(lx, o + 1) /\ x >= s /\ p = m + x /\ lp = m + lx /\ e \in Nat
        BY <1>2, <1>6, <3>1, <4>2
      <4>5. p + s <= e /\ e <= NPage
        BY <1>2, <1>4
      <4> HIDE DEF b, lx, lp, p, x, s, m, B, C, e
      <4>6. lx \in Nat /\ lx \in Page /\ lp \in Nat /\ lp + 2 * s <= e
        BY <1>2, <4>1, <4>2, <4>4, <4>5 DEF Page
      <4>7. Block(lp, o + 1) = B \cup C
        <5> DEFINE L == Block(lp, o + 1)
        <5>1. L = lp .. lp + 2 * s - 1 /\ s \in Nat /\ lp \in Nat
          BY <1>2, <4>3, <4>6
        <5>2. p = lp + s /\ b = lp
          BY <1>2, <4>1, <4>2, <4>4
        <5> HIDE DEF L
        <5> QED
          BY <4>3, <5>1, <5>2
      <4> QED
        BY <4>4, <4>6, <4>7 DEF e
    <3>2. CASE Bit(x, o) = 0
      <4>1. lx = x - 0 * s /\ b = m + (x + s)
        BY <1>7, <3>2 DEF LowerIdx
      <4>2. lx = x
        BY <1>2, <4>1
      <4>3. /\ Block(lp, o + 1) = lp .. lp + 2 * s - 1 /\ B = p .. p + s - 1 /\ C = b .. b + s - 1
        BY <1>2 DEF Block
      <4>4. Aligned(lx, o + 1) /\ p = m + x /\ lp = m + lx /\ e \in Nat
        BY <1>2, <1>6, <3>2, <4>2
      <4>5. b + s <= e /\ e <= NPage
        BY <1>2, <3>0
      <4> HIDE DEF b, lx, lp, p, x, s, m, B, C, e
      <4>6. lx \in Nat /\ lx \in Page /\ lp \in Nat /\ lp + 2 * s <= e
        BY <1>2, <4>1, <4>2, <4>4, <4>5 DEF Page
      <4>7. Block(lp, o + 1) = B \cup C
        <5> DEFINE L == Block(lp, o + 1)
        <5>1. L = lp .. lp + 2 * s - 1 /\ s \in Nat /\ lp \in Nat
          BY <1>2, <4>3, <4>6
        <5>2. p = lp /\ b = lp + s
          BY <1>2, <4>1, <4>2, <4>4
        <5> HIDE DEF L
        <5> QED
          BY <4>3, <5>1, <5>2
      <4> QED
        BY <4>4, <4>6, <4>7 DEF e
    <3> QED
      BY <1>6, <3>1, <3>2
  <2>9. /\ mg'.zone = z /\ mg'.idx = lx /\ mg'.order = o + 1 /\ mg'.then = mg.then
        /\ mg' \in [zone : Zone, idx : Page, order : Order, then : {"idle", "round", "rest"}]
    <3>1. mg \in [zone : Zone, idx : Page, order : Order, then : {"idle", "round", "rest"}]
      BY Registers
    <3> HIDE DEF lx
    <3> QED
      BY <2>1, <2>2, <2>8, <3>1
  <2>10. InFlight' = R \cup (B \cup C)
    <3>1. InFlight' = R \cup Block(lp, o + 1)
      BY <1>1, <1>5, <2>1, <2>9 DEF InFlight
    <3> QED
      BY <2>8, <3>1
  <2>11. Owned(held', InFlight', Cover(fl2)) /\ R \cap (B \cup C) = {}
    <3> HIDE DEF B, C, R, fl2
    <3> QED
      BY <1>1, <1>3, <1>5, <2>6, <2>10 DEF Owned
  <2>12. MergeInv'
    <3>1. Sits(lp, o + 1, z)
      <4>1. lp - m = lx
        BY <1>2, <2>8
      <4>2. lp \in Page
        <5>1. lp < NPage
          BY <1>2, <2>8
        <5> QED
          BY <1>2, <2>8, <5>1 DEF Page
      <4> QED
        BY <1>2, <2>2, <2>8, <4>1, <4>2 DEF Sits
    <3> HIDE DEF lp, B, C, R, lx
    <3>2. MemBase[mg'.zone] + mg'.idx = lp
      BY <2>9 DEF lp
    <3>3. R = fr'.base .. fr'.base + fr'.n - 1
      BY <1>5 DEF R
    <3> QED
      BY <1>2, <2>8, <2>9, <2>11, <3>1, <3>2, <3>3 DEF MergeInv
  <2>13. RangeInv'
    BY <1>1, <1>5 DEF RangeInv
  <2>14. flagged' = Heads(fl2)
    <3> HIDE DEF fl2, b
    <3> QED
      BY <1>1, <2>1, <2>6
  <2>15. TypeOK'
    BY <1>1, <1>5, <2>1, <2>6, <2>9 DEF TypeOK, AreaInv
  <2> QED
    BY <1>1, <2>1, <2>6, <2>7, <2>11, <2>12, <2>13, <2>14, <2>15 DEF BuddyInv
<1>b. CASE ~ Absorbs
  <2> DEFINE fl2 == freeList'
             nf2 == nrFree'
             pr2 == property'
  <2>1. /\ AddBlock(p, o) /\ op' = mg.then /\ mg' = NoMg
    BY <1>b DEF Merge
  <2>2. Added(freeList, nrFree, property, fl2, nf2, pr2, p, o) /\ flagged' = flagged \cup {p}
    BY <2>1 DEF Added, AddBlock
  <2>3. B \cap Cover(freeList) = {}
    BY <1>1 DEF Owned
  <2>4. /\ AreaInv(fl2, nf2, pr2)
        /\ Cover(fl2) = Cover(freeList) \cup B
        /\ Heads(fl2) = Heads(freeList) \cup {p}
    <3> HIDE DEF fl2, nf2, pr2, p, o, z
    <3> QED
      BY <1>1, <1>2, <1>3, <2>2, <2>3, AreaAdd DEF B
  <2>5. NoTwin(freeList, p, o, z)
    <3>1. ASSUME o < MaxOrder, Sits(p, o + 1, z), p + s \in freeList[o] PROVE FALSE
      <4>1. Aligned(x, o + 1)
        <5>1. p - m = x
          BY <1>2
        <5> QED
          BY <3>1, <5>1 DEF Sits
      <4>2. Bit(x, o) = 0
        <5>1. SUFFICES ASSUME Bit(x, o) = 1 PROVE FALSE
          BY <1>6
        <5>2. Aligned(x + s, o + 1) /\ x < x + s /\ x \in Int /\ x + s \in Int
          BY <1>2, <1>6, <5>1
        <5>3. x + OrderSize[o + 1] <= x + s
          <6> DEFINE y == x + s
          <6>1. Aligned(y, o + 1) /\ x < y /\ y \in Int
            BY <5>2
          <6> HIDE DEF y
          <6>2. x + OrderSize[o + 1] <= y
            BY <1>2, <4>1, <5>2, <6>1, AlignedGap
          <6> QED
            BY <6>2 DEF y
        <5> QED
          BY <1>2, <5>3
      <4>3. Buddy = p + s
        BY <1>2, <1>7, <4>2
      <4>4. p + s \in PagesOf(z)
        <5>1. p + 2 * s <= m + ZoneSize[z]
          BY <1>2, <3>1 DEF Sits
        <5>2. p + s \in m .. m + ZoneSize[z] - 1
          BY <1>2, <5>1
        <5> QED
          BY <5>2 DEF PagesOf
      <4>5. PageIsBuddy(p + s, o, z)
        <5> DEFINE q == p + s
        <5>1. q \in freeList[o] /\ q \in PagesOf(z)
          BY <3>1, <4>4
        <5> HIDE DEF q
        <5>2. PageIsBuddy(q, o, z)
          BY <1>8, <5>1
        <5> QED
          BY <5>2 DEF q
      <4> QED
        BY <1>b, <3>1, <4>3, <4>5 DEF Absorbs
    <3>2. ASSUME o < MaxOrder, Sits(p - s, o + 1, z), p - s \in freeList[o] PROVE FALSE
      <4>1. Aligned(x - s, o + 1) /\ m <= p - s
        <5>1. (p - s) - m = x - s
          BY <1>2
        <5> QED
          BY <3>2, <5>1 DEF Sits
      <4>2. Bit(x, o) = 1
        <5>1. SUFFICES ASSUME Bit(x, o) = 0 PROVE FALSE
          BY <1>6
        <5> DEFINE y == x - s
        <5>2. Aligned(y, o + 1) /\ Aligned(x, o + 1) /\ y < x /\ x \in Int /\ y \in Int
          BY <1>2, <1>6, <4>1, <5>1
        <5>3. y + OrderSize[o + 1] <= x
          <6> HIDE DEF y
          <6> QED
            BY <1>2, <5>2, AlignedGap
        <5> QED
          BY <1>2, <5>3
      <4>3. Buddy = p - s
        BY <1>2, <1>7, <4>2
      <4>4. p - s \in PagesOf(z)
        <5>1. p - s \in m .. m + ZoneSize[z] - 1
          BY <1>2, <1>4, <4>1
        <5> QED
          BY <5>1 DEF PagesOf
      <4>5. PageIsBuddy(p - s, o, z)
        <5> DEFINE q == p - s
        <5>1. q \in freeList[o] /\ q \in PagesOf(z)
          BY <3>2, <4>4
        <5> HIDE DEF q
        <5>2. PageIsBuddy(q, o, z)
          BY <1>8, <5>1
        <5> QED
          BY <5>2 DEF q
      <4> QED
        BY <1>b, <3>2, <4>3, <4>5 DEF Absorbs
    <3> QED
      BY <3>1, <3>2 DEF NoTwin
  <2>6. Merged(fl2)
    <3>1. fl2 = [freeList EXCEPT ![o] = @ \cup {p}] /\ freeList \in [Order -> SUBSET Page]
      BY <2>2, Registers DEF Added
    <3> HIDE DEF fl2, nf2, pr2, p, o, z
    <3> QED
      BY <1>1, <1>2, <1>3, <2>5, <3>1, MergedAdd
  <2>7. InFlight' = R
    BY <1>2, <1>5, <2>1 DEF InFlight
  <2>8. Owned(held', InFlight', Cover(fl2))
    <3> HIDE DEF B, R, fl2
    <3> QED
      BY <1>1, <1>3, <1>5, <2>4, <2>7 DEF Owned
  <2>9. RangeInv'
    BY <1>1, <1>5 DEF RangeInv
  <2>10. TypeOK'
    <3>1. p \in Page
      BY <1>3 DEF Sits
    <3> HIDE DEF p
    <3>2. flagged' \subseteq Page
      BY <1>1, <2>2, <3>1 DEF TypeOK
    <3>3. mg' \in [zone : Zone, idx : Page, order : Order, then : {"idle", "round", "rest"}]
      BY <2>1, Orders DEF NoMg
    <3> QED
      BY <1>1, <1>2, <1>5, <2>1, <2>4, <3>2, <3>3 DEF TypeOK, AreaInv
  <2>11. flagged' = Heads(fl2)
    <3> HIDE DEF fl2, p
    <3> QED
      BY <1>1, <2>2, <2>4
  <2> QED
    BY <1>2, <2>1, <2>4, <2>6, <2>8, <2>9, <2>10, <2>11 DEF BuddyInv
<1> QED
  BY <1>a, <1>b

LEMMA NextInv == BuddyInv /\ [Next]_vars => BuddyInv'
<1> SUFFICES ASSUME BuddyInv, [Next]_vars PROVE BuddyInv'
  OBVIOUS
<1>1. CASE UNCHANGED vars
  BY <1>1 DEF vars, BuddyInv, TypeOK, InFlight, MemmapInv, SplitInv, RangeInv, MergeInv
<1> QED
  BY <1>1, MemmapKeeps, AllocKeeps, SplitKeeps, FreePagesKeeps, RoundKeeps, RestKeeps, MergeKeeps
     DEF Next

\* The loops of buddy_pmm.c keep the free area, the registers and the ownership of pages
\* in order, in every iteration.
THEOREM BuddyInvariant == Spec => []BuddyInv
<1> QED
  BY InitInv, NextInv, PTL DEF Spec

\* How many owners a page has, when the owners are three disjoint sets.
LEMMA OwnersCounted ==
  ASSUME BuddyInv, NEW p \in Page
  PROVE  Owners(p) = IF InZone(p) THEN 1 ELSE 0
<1> DEFINE C == Cover(freeList)
           Bs == {b \in Page \X Order : b[1] \in freeList[b[2]] /\ p \in Block(b[1], b[2])}
           a == Cardinality({p} \cap held)
           f == Cardinality({p} \cap InFlight)
           c == Cardinality(Bs)
<1>1. AreaInv(freeList, nrFree, property) /\ Owned(held, InFlight, C)
  BY DEF BuddyInv
<1>2. a = IF p \in held THEN 1 ELSE 0
  <2>1. CASE p \in held
    <3>1. {p} \cap held = {p}
      BY <2>1
    <3> QED
      BY <2>1, <3>1, FS_Singleton
  <2>2. CASE p \notin held
    <3>1. {p} \cap held = {}
      BY <2>2
    <3> QED
      BY <2>2, <3>1, FS_EmptySet
  <2> QED
    BY <2>1, <2>2
<1>3. f = IF p \in InFlight THEN 1 ELSE 0
  <2>1. CASE p \in InFlight
    <3>1. {p} \cap InFlight = {p}
      BY <2>1
    <3> QED
      BY <2>1, <3>1, FS_Singleton
  <2>2. CASE p \notin InFlight
    <3>1. {p} \cap InFlight = {}
      BY <2>2
    <3> QED
      BY <2>2, <3>1, FS_EmptySet
  <2> QED
    BY <2>1, <2>2
<1>4. c = IF p \in C THEN 1 ELSE 0
  <2>1. CASE p \in C
    <3>1. PICK o \in Order : \E b \in freeList[o] : p \in Block(b, o)
      BY <2>1 DEF Cover
    <3>2. PICK b \in freeList[o] : p \in Block(b, o)
      BY <3>1
    <3>3. b \in Page /\ <<b, o>> \in Bs
      BY <1>1, <3>2 DEF AreaInv
    <3>4. ASSUME NEW q \in Page, NEW u \in Order, q \in freeList[u], p \in Block(q, u)
          PROVE  q = b /\ u = o
      <4>1. PICK z \in Zone : Sits(q, u, z)
        BY <1>1, <3>4 DEF AreaInv
      <4>2. PICK y \in Zone : Sits(b, o, y)
        BY <1>1, <3>2 DEF AreaInv
      <4>3. q \in Nat /\ b \in Nat /\ p \in Nat /\ OrderSize[u] \in Nat /\ OrderSize[o] \in Nat
        BY <4>1, <4>2, SitsFacts, Orders DEF Page
      <4>4. q \in Block(b, o) \/ b \in Block(q, u)
        BY <3>2, <3>4, <4>3 DEF Block
      <4> QED
        BY <1>1, <3>2, <3>4, <4>4 DEF AreaInv
    <3>5. Bs = {<<b, o>>}
      <4>1. ASSUME NEW e \in Bs PROVE e = <<b, o>>
        <5>1. e[1] = b /\ e[2] = o
          BY <3>4, <4>1
        <5> QED
          BY <4>1, <5>1
      <4> QED
        BY <3>3, <4>1
    <3>6. Cardinality({<<b, o>>}) = 1
      BY FS_Singleton
    <3> QED
      BY <2>1, <3>5, <3>6
  <2>2. CASE p \notin C
    <3>1. Bs = {}
      BY <2>2 DEF Cover
    <3> QED
      BY <2>2, <3>1, FS_EmptySet
  <2> QED
    BY <2>1, <2>2
<1>5. Owners(p) = a + f + c
  BY DEF Owners
<1>6. p \in Zoned <=> InZone(p)
  BY DEF Zoned
<1> HIDE DEF a, f, c, C
<1> QED
  BY <1>1, <1>2, <1>3, <1>4, <1>5, <1>6 DEF Owned

\* No page is lost and none is given away twice, between any two iterations of the loops
\* of buddy_alloc_pages_sub and buddy_free_pages_sub, and no assert of a free fails.
THEOREM PagesOwned == Spec => []Partition
<1>1. BuddyInv => Partition
  BY OwnersCounted DEF Partition, BuddyInv
<1> QED
  BY <1>1, BuddyInvariant, PTL

\* PG_property, p->property and nr_free agree with the free lists whenever page_is_buddy
\* reads them, and buddy_nr_free_pages counts the pages that nobody holds.
THEOREM FlagsTruthful == Spec => []FlagsMatchLists
<1>1. ASSUME BuddyInv PROVE FlagsMatchLists
  <2>1. TypeOK /\ AreaInv(freeList, nrFree, property) /\ Owned(held, InFlight, Cover(freeList))
    BY <1>1 DEF BuddyInv
  <2>2. flagged = (UNION {freeList[o] : o \in Order}) \cup (IF op = "split" THEN {al.page} ELSE {})
    BY <1>1 DEF BuddyInv, Heads
  <2>3. ASSUME op = "idle" PROVE NrFreePages = Cardinality({p \in Page : InZone(p)} \ held)
    <3>1. NrFreePages = PagesIn(nrFree)
      BY Zenon DEF NrFreePages, PagesIn
    <3>2. InFlight = {}
      BY <2>3 DEF InFlight
    <3>3. Zoned \ held = Cover(freeList)
      BY <2>1, <3>2 DEF Owned
    <3>4. PagesIn(nrFree) = Cardinality(Zoned \ held)
      BY <2>1, <3>3 DEF AreaInv
    <3> QED
      BY <3>1, <3>4 DEF Zoned
  <2>4. \A o \in Order : /\ nrFree[o] = Cardinality(freeList[o])
                         /\ \A p \in freeList[o] : property[p] = o
    BY <2>1 DEF AreaInv
  <2> QED
    BY <2>1, <2>2, <2>3, <2>4 DEF FlagsMatchLists
<1> QED
  BY <1>1, BuddyInvariant, PTL

\* In an aligned block of which every page is free, not all free blocks are smaller: take
\* the smallest one that meets it; its other half would have to be free as well.
LEMMA WholeBlockFree ==
  ASSUME BuddyInv, NEW z \in Zone, NEW o, NEW b, Sits(b, o, z), Block(b, o) \subseteq Cover(freeList)
  PROVE  \E c \in o .. MaxOrder : freeList[c] # {}
<1> DEFINE S == {c \in Order : \E q \in freeList[c] : Block(q, c) \cap Block(b, o) # {}}
<1>1. AreaInv(freeList, nrFree, property) /\ Merged(freeList)
  BY DEF BuddyInv
<1>2. /\ o \in Order /\ o \in Nat /\ o <= MaxOrder /\ MaxOrder \in Nat /\ b \in Nat
      /\ OrderSize[o] \in Nat /\ OrderSize[o] >= 1 /\ o \in 0 .. MaxOrder + 1
      /\ b \in Block(b, o) /\ Block(b, o) \subseteq PagesOf(z)
      /\ MemBase[z] \in Nat /\ ZoneSize[z] \in Nat
      /\ b + OrderSize[o] <= MemBase[z] + ZoneSize[z] /\ MemBase[z] <= b
      /\ Aligned(b - MemBase[z], o)
  BY SitsFacts, Orders, ZoneFacts DEF Sits
<1>3. ASSUME NEW x \in Block(b, o)
      PROVE  \E c \in Order, q \in Page : q \in freeList[c] /\ x \in Block(q, c)
  <2>1. PICK c \in Order : \E q \in freeList[c] : x \in Block(q, c)
    BY DEF Cover
  <2>2. freeList[c] \subseteq Page
    BY Registers
  <2> QED
    BY <2>1, <2>2
<1>4. S \in SUBSET Nat /\ S # {}
  <2>1. S # {}
    BY <1>2, <1>3
  <2> QED
    BY <2>1, Orders
<1>5. PICK k \in S : \A c \in S : k <= c
  <2> HIDE DEF S
  <2> QED
    BY <1>4, LeastOfNats
<1>6. CASE k >= o
  BY <1>2, <1>5, <1>6, Orders
<1>7. CASE k < o
  <2>1. k \in Order /\ k \in Nat /\ k \in 0 .. MaxOrder + 1 /\ k + 1 \in 0 .. o /\ k \in 0 .. MaxOrder - 1
        /\ k + 1 \in 0 .. MaxOrder + 1 /\ k + 1 \in Order
        /\ OrderSize[k] \in Nat /\ OrderSize[k] >= 1 /\ OrderSize[k + 1] = 2 * OrderSize[k]
    BY <1>2, <1>5, <1>7, Orders DEF Order
  <2>2. PICK q \in freeList[k] : Block(q, k) \cap Block(b, o) # {}
    BY <1>5
  <2>3. PICK x : x \in Block(q, k) /\ x \in Block(b, o)
    BY <2>2
  <2>4. Sits(q, k, z) /\ q \in Nat
    <3>1. PICK y \in Zone : Sits(q, k, y)
      BY <1>1, <2>1 DEF AreaInv
    <3>2. x \in PagesOf(y) /\ x \in PagesOf(z)
      BY <1>2, <2>3, <3>1, SitsFacts
    <3>3. y = z
      BY <3>2, ZoneUnique
    <3> QED
      BY <3>1, <3>3, SitsFacts
  <2> DEFINE m == MemBase[z]
             s == OrderSize[k]
             t == OrderSize[o]
             i == q - m
             j == b - m
  <2>5. i \in Nat /\ Aligned(i, k) /\ j \in Nat /\ Aligned(j, o) /\ Aligned(j, k + 1) /\ Aligned(t, k + 1)
        /\ t \in Nat
    <3>1. i \in Nat /\ j \in Nat
      BY <1>2, <2>4 DEF Sits
    <3>2. Aligned(j, k + 1)
      <4>1. Aligned(j, o) /\ j \in Int
        BY <1>2, <3>1
      <4> HIDE DEF j
      <4> QED
        BY <1>2, <2>1, <4>1, AlignedDown
    <3>3. Aligned(t, k + 1)
      BY <1>2, <2>1, SizeMonotone
    <3> QED
      BY <1>2, <2>4, <3>1, <3>2, <3>3 DEF Sits
  \* The pair of halves that q belongs to begins at h and lies in block b.
  <2>6. PICK h \in Nat : /\ i = h \/ i = h + s
                         /\ Aligned(h, k + 1)
    <3>1. /\ Bit(i, k) \in {0, 1}
          /\ Bit(i, k) = 0 => Aligned(i, k + 1)
          /\ Bit(i, k) = 1 => Aligned(i - s, k + 1) /\ i >= s
      <4> HIDE DEF i
      <4> QED
        BY <2>1, <2>5, BitAligned
    <3>2. CASE Bit(i, k) = 0
      BY <2>5, <3>1, <3>2
    <3>3. CASE Bit(i, k) = 1
      <4>1. i - s \in Nat /\ i = (i - s) + s
        BY <2>1, <2>5, <3>1, <3>3
      <4> HIDE DEF i, s
      <4> QED
        BY <3>1, <3>3, <4>1
    <3> QED
      BY <3>1, <3>2, <3>3
  <2>7. j <= h /\ h + 2 * s <= j + t
    <3>1. x \in Nat /\ q <= x /\ x < q + s /\ b <= x /\ x < b + t
      BY <1>2, <2>1, <2>3, <2>4 DEF Block
    <3>2. h < j + t /\ j < h + 2 * s
      BY <1>2, <2>1, <2>4, <2>5, <2>6, <3>1
    <3> DEFINE e == j + t
               r == k + 1
    <3>3. Aligned(e, r) /\ e \in Int
      <4> HIDE DEF j, t, r
      <4>1. Aligned(j, r) /\ Aligned(t, r) /\ r \in 0 .. MaxOrder + 1
        BY <2>1, <2>5 DEF r
      <4> QED
        BY <2>5, <4>1, AlignedAdd
    <3>4. h + OrderSize[r] <= e
      <4> HIDE DEF e, r
      <4>1. h < e /\ Aligned(h, r) /\ r \in 0 .. MaxOrder + 1
        BY <2>1, <2>6, <3>2 DEF e, r
      <4>2. h \in Int /\ Aligned(e, r) /\ e \in Int
        BY <2>6, <3>3
      <4> QED
        BY <2>6, <3>3, <4>1, <4>2, AlignedGap
    <3>5. ~ (h < j)
      <4>1. SUFFICES ASSUME h < j PROVE FALSE
        OBVIOUS
      <4>2. h + OrderSize[r] <= j
        <5> HIDE DEF j, r
        <5>1. Aligned(h, r) /\ Aligned(j, r) /\ r \in 0 .. MaxOrder + 1
          BY <2>1, <2>5, <2>6 DEF r
        <5> QED
          BY <2>5, <2>6, <4>1, <5>1, AlignedGap
      <4> QED
        BY <2>1, <2>5, <2>6, <3>2, <4>2
    <3> QED
      BY <2>1, <2>5, <2>6, <3>4, <3>5
  <2> DEFINE p == m + h
  <2>8. Sits(p, k + 1, z)
    <3>1. p - m = h /\ p \in Nat /\ m <= p /\ p + 2 * s <= m + ZoneSize[z]
      BY <1>2, <2>1, <2>5, <2>6, <2>7
    <3>2. p \in Page
      <4>1. p < NPage /\ NPage \in Nat
        BY <1>2, <2>1, <3>1, ZoneFacts
      <4> QED
        BY <3>1, <4>1 DEF Page
    <3> HIDE DEF p
    <3> QED
      BY <2>1, <2>6, <3>1, <3>2 DEF Sits
  \* Each half is a free block: a larger one would hold both, and q with them.
  <2>9. ASSUME NEW v \in {p, p + s} PROVE v \in freeList[k]
    <3>1. v \in Block(b, o) /\ v \in Nat /\ v - m \in Nat /\ Aligned(v - m, k)
      <4>0. p \in Nat /\ b = m + j /\ b \in Nat
        BY <1>2, <2>6
      <4>1. v \in Block(b, o)
        <5>1. b <= v /\ v < b + t /\ v \in Nat
          BY <1>2, <2>1, <2>5, <2>6, <2>7, <4>0
        <5> QED
          BY <1>2, <5>1 DEF Block
      <4>2. Aligned(h, k)
        <5>1. k \in 0 .. k + 1 /\ h \in Int
          BY <2>1
        <5> QED
          BY <2>1, <2>6, <5>1, AlignedDown
      <4>3. Aligned(s, k) /\ s \in Int
        BY <2>1, AlignedSelf
      <4>4. Aligned(h + s, k)
        <5> HIDE DEF s
        <5> QED
          BY <2>1, <2>6, <4>2, <4>3, AlignedAdd
      <4>5. v - m = h \/ v - m = h + s
        BY <1>2, <2>1, <2>6
      <4>6. v \in Nat /\ v - m \in Nat
        BY <1>2, <2>1, <2>6, <4>0
      <4> HIDE DEF p, s
      <4> QED
        BY <4>1, <4>2, <4>4, <4>5, <4>6
    <3>2. PICK c \in Order, w \in Page : w \in freeList[c] /\ v \in Block(w, c)
      BY <1>3, <3>1
    <3>3. c \in S
      BY <3>1, <3>2
    <3>4. k <= c /\ c \in Nat /\ OrderSize[c] \in Nat /\ OrderSize[c] >= 1 /\ c \in 0 .. MaxOrder + 1
      BY <1>5, <3>3, Orders
    <3>5. Sits(w, c, z) /\ w \in Nat
      <4>1. PICK y \in Zone : Sits(w, c, y)
        BY <1>1, <3>2 DEF AreaInv
      <4>2. v \in PagesOf(y) /\ v \in PagesOf(z)
        BY <1>2, <3>1, <3>2, <4>1, SitsFacts
      <4>3. y = z
        BY <4>2, ZoneUnique
      <4> QED
        BY <4>1, <4>3, SitsFacts
    <3> DEFINE g == w - m
               f == OrderSize[c]
    <3>6. g \in Nat /\ Aligned(g, c) /\ Aligned(f, c) /\ f \in Nat /\ f >= 1
          /\ g <= v - m /\ v - m < g + f
      <4>1. g \in Nat /\ Aligned(g, c) /\ Aligned(f, c)
        BY <1>2, <3>4, <3>5, AlignedSelf DEF Sits
      <4>2. w <= v /\ v < w + f
        BY <3>1, <3>2, <3>4, <3>5 DEF Block
      <4> QED
        BY <1>2, <3>1, <3>4, <3>5, <4>1, <4>2
    <3>7. CASE c = k
      <4>1. ~ (g < v - m)
        <5>1. SUFFICES ASSUME g < v - m PROVE FALSE
          OBVIOUS
        <5> DEFINE d == v - m
        <5>2. d \in Nat /\ Aligned(d, k) /\ g < d
          BY <3>1, <5>1
        <5>3. g + OrderSize[k] <= d
          <6>1. g \in Int /\ d \in Int /\ Aligned(g, k) /\ Aligned(d, k) /\ g < d
            BY <3>6, <3>7, <5>2
          <6> HIDE DEF d, g
          <6> QED
            BY <2>1, <6>1, AlignedGap
        <5> QED
          BY <3>6, <3>7, <5>2, <5>3
      <4>2. w = v
        BY <1>2, <3>1, <3>5, <3>6, <4>1
      <4> QED
        BY <3>2, <3>7, <4>2
    <3>8. CASE c # k
      <4> DEFINE r == k + 1
                 e == g + f
      <4>1. r \in 0 .. c /\ r \in 0 .. MaxOrder + 1
        BY <2>1, <3>4, <3>8
      <4>2. Aligned(g, r) /\ Aligned(f, r) /\ Aligned(e, r) /\ e \in Int /\ g \in Int
        <5> HIDE DEF g, f, r
        <5>1. Aligned(g, r) /\ Aligned(f, r)
          BY <3>4, <3>6, <4>1, AlignedDown
        <5> QED
          BY <3>6, <4>1, <5>1, AlignedAdd
      <4>3. v - m = h \/ v - m = h + s
        BY <1>2, <2>1, <2>6
      <4>4. h < e /\ Aligned(h, r) /\ h \in Nat
        BY <2>1, <2>6, <3>6, <4>3
      <4>5. h + OrderSize[r] <= e
        <5> HIDE DEF e, r
        <5>1. h \in Int /\ h < e /\ Aligned(h, r) /\ Aligned(e, r) /\ e \in Int /\ r \in 0 .. MaxOrder + 1
          BY <4>1, <4>2, <4>4
        <5> QED
          BY <5>1, AlignedGap
      <4>6. g <= h
        <5>1. SUFFICES ASSUME h < g PROVE FALSE
          BY <2>6, <3>6
        <5>2. h + OrderSize[r] <= g
          <6> HIDE DEF g, r
          <6> QED
            BY <4>1, <4>2, <4>4, <5>1, AlignedGap
        <5> QED
          BY <2>1, <2>6, <3>6, <4>3, <5>2
      <4>7. g <= i /\ i < e
        BY <2>1, <2>5, <2>6, <4>2, <4>5, <4>6
      <4>8. q \in Block(w, c)
        <5>1. w <= q /\ q < w + f
          BY <1>2, <2>4, <3>5, <3>6, <4>7
        <5> QED
          BY <2>4, <3>5, <3>6, <5>1 DEF Block
      <4>9. c = k
        BY <1>1, <2>1, <3>2, <4>8 DEF AreaInv
      <4> QED
        BY <3>8, <4>9
    <3> QED
      BY <3>7, <3>8
  <2>10. p \in freeList[k] /\ p + s \in freeList[k]
    <3> HIDE DEF p, s
    <3> QED
      BY <2>9
  <2>11. p \in Page
    BY <2>8 DEF Sits
  <2> HIDE DEF p
  <2> QED
    BY <1>1, <2>1, <2>8, <2>10, <2>11 DEF Merged
<1> QED
  BY <1>4, <1>5, <1>6, <1>7, <1>2

\* buddy_free_pages_sub merges all that can be merged: buddy_alloc_pages fails for no
\* order of which an aligned block is free.
THEOREM FreedPagesMerged == Spec => []RoomIsFound
<1>1. ASSUME BuddyInv PROVE RoomIsFound
  <2>1. SUFFICES ASSUME op = "idle", NEW z \in Zone, NEW o \in Order,
                        NEW i \in 0 .. ZoneSize[z] - OrderSize[o],
                        i % OrderSize[o] = 0, Block(MemBase[z] + i, o) \cap held = {}
                 PROVE  \E c \in o .. MaxOrder : freeList[c] # {}
    BY DEF RoomIsFound
  <2> DEFINE b == MemBase[z] + i
  <2>2. /\ MemBase[z] \in Nat /\ ZoneSize[z] \in Nat /\ OrderSize[o] \in Nat /\ OrderSize[o] >= 1
        /\ MemBase[z] + ZoneSize[z] <= NPage /\ NPage \in Nat /\ i \in Nat
        /\ i <= ZoneSize[z] - OrderSize[o] /\ o \in 0 .. MaxOrder + 1
    BY ZoneFacts, Orders
  <2>3. Aligned(i, o) /\ b - MemBase[z] = i
    BY <2>1, <2>2, AlignedMod
  <2>4. b \in Page /\ MemBase[z] <= b /\ b + OrderSize[o] <= MemBase[z] + ZoneSize[z]
    BY <2>2 DEF Page
  <2>5. Sits(b, o, z)
    <3> HIDE DEF b
    <3> QED
      BY <2>3, <2>4 DEF Sits
  <2>6. Block(b, o) \subseteq Zoned
    <3> HIDE DEF b
    <3> QED
      BY <2>5, SitsFacts
  <2>7. Block(b, o) \subseteq Cover(freeList)
    <3>1. InFlight = {}
      BY <2>1 DEF InFlight
    <3>2. Owned(held, InFlight, Cover(freeList))
      BY <1>1 DEF BuddyInv
    <3> QED
      BY <2>1, <2>6, <3>1, <3>2 DEF Owned
  <2> HIDE DEF b
  <2> QED
    BY <1>1, <2>5, <2>7, WholeBlockFree
<1> QED
  BY <1>1, BuddyInvariant, PTL
=============================================================================
