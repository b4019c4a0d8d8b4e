---------------------------- MODULE SwapMemProofs ----------------------------
(***************************************************************************)
(* TLAPS proofs about SwapMem, for every number of threads, address        *)
(* spaces, pages, frames and swap entries: the reference counts are exact, *)
(* no frame is lost and none is used twice, and no thread that sleeps for  *)
(* a frame is forgotten.                                                   *)
(*                                                                         *)
(* The argument has two halves.  Booked says what page->ref, the swap      *)
(* cache, mem_map and the free list owe to each other when entry e of the  *)
(* swap space has n[e] holders and the frames of H are in somebody's       *)
(* private hands; every operation of swap.c, pmm.c and shmem.c keeps it,   *)
(* with the numbers changed by what it takes or gives.  Counted says that  *)
(* the numbers are those of the tables.  Between two operations inside one *)
(* handler only the first half holds.                                      *)
(***************************************************************************)
EXTENDS SwapMem, InductionLemmas

MemType ==
  [pte : [Mm -> [Addr -> Pte]], sh : [Shared -> Pte],
   ref : [Frame -> Int], data : [Frame -> Val],
   cache : [Frame -> Entry \cup {NoEntry}],
   active : SUBSET Frame, dirty : SUBSET Frame, free : SUBSET Frame,
   map : [Entry -> Int], disk : [Entry -> Val]]

\* An entry that maps frame f, and one that holds swap entry e.
Maps(p, f) == p.k = "page" /\ p.f = f
Holds(p, e) == p.k = "swap" /\ p.e = e
MapsBit(p, f) == IF Maps(p, f) THEN 1 ELSE 0
HoldsBit(p, e) == IF Holds(p, e) THEN 1 ELSE 0

\* From s to u one reference passes from entry p to entry q, and the numbers n
\* of holders become Moved(n, p, q).
RefsMoved(s, u, p, q) ==
  \A f \in Frame : u.ref[f] = s.ref[f] - MapsBit(p, f) + MapsBit(q, f)
Moved(n, p, q) ==
  [e \in Entry |-> n[e] - HoldsBit(p, e) + HoldsBit(q, e)]

PteMapping(s, f) == {x \in Mm \X Addr : Maps(s.pte[x[1]][x[2]], f)}
ShMapping(s, f) == {a \in Shared : Maps(s.sh[a], f)}
PteHolding(s, e) == {x \in Mm \X Addr : Holds(s.pte[x[1]][x[2]], e)}
ShHolding(s, e) == {a \in Shared : Holds(s.sh[a], e)}

Mappers(s, f) == Cardinality(PteMapping(s, f)) + Cardinality(ShMapping(s, f))
Holders(s) ==
  [e \in Entry |-> Cardinality(PteHolding(s, e)) + Cardinality(ShHolding(s, e))]

Booked(s, n, H) ==
  /\ \A f \in Frame : s.ref[f] >= 0
  /\ \A e \in Entry :
        \/ s.map[e] = n[e] /\ n[e] > 0
        \/ s.map[e] = 0 /\ n[e] = 0 /\ \E f \in Frame : s.cache[f] = e
        \/ s.map[e] = Unused /\ n[e] = 0 /\ \A f \in Frame : s.cache[f] # e
  /\ \A f, g \in Frame :
        s.cache[f] = s.cache[g] /\ s.cache[f] # NoEntry => f = g
  /\ \A f \in Frame :
        f \in s.free <=> s.ref[f] = 0 /\ s.cache[f] = NoEntry /\ f \notin H
  /\ \A f \in H : f \in Frame => s.ref[f] = 0 /\ s.cache[f] = NoEntry

Counted(s) == \A f \in Frame : s.ref[f] = Mappers(s, f)

\* H: the frames that somebody keeps for himself.
MemInv(s, H) == s \in MemType /\ Booked(s, Holders(s), H) /\ Counted(s)

-----------------------------------------------------------------------------
(* The threads. *)

Hands == {th[t].new : t \in Thread}

ThreadType ==
  [ph : Phases, mm : Mm \cup {NoMm}, a : Addr, w : BOOLEAN, v : Val,
   new : Frame \cup {NoFrame}, wait : BOOLEAN, to : Mm \cup {NoMm}]

\* The list of address spaces, and who uses which.
SpacesInv ==
  /\ mmList \in Seq(Mm) /\ IsInjective(mmList)
  /\ \A t \in Thread :
        /\ th[t].ph = "dead" <=> th[t].mm = NoMm
        /\ th[t].ph # "dead" => th[t].mm \in Range(mmList)
        /\ th[t].ph = "copy" <=> th[t].to # NoMm
        /\ th[t].to \notin Range(mmList)
  /\ \A t, u \in Thread :
        /\ th[t].to = th[u].to /\ th[t].to # NoMm => t = u
        /\ th[t].mm = th[u].mm /\ th[t].ph \in Locked /\ th[u].ph \in Locked
              => t = u

\* An address space that is not in the list is empty, but for what a fork has
\* copied into it so far.
BlankInv ==
  \A m \in Mm, a \in Addr :
     \/ m \in Range(mmList)
     \/ mem.pte[m][a] = NoPte
     \/ \E t \in Thread : th[t].to = m /\ a > th[t].a

\* What a thread that sleeps inside do_pgfault finds again when it goes on.
FaultInv ==
  \A t \in Thread :
     /\ th[t].wait => th[t].ph \in AllocPhase
     /\ th[t].ph = "shm" => th[t].a \in Shared /\ mem.sh[th[t].a] = NoPte
     /\ th[t].ph = "cow" => th[t].a \notin Shared /\ PteOf(t).k # "none"
     /\ th[t].ph = "read" => /\ PteOf(t).k = "swap"
                             /\ th[t].new = NoFrame <=> th[t].a \in Shared
     /\ th[t].ph # "read" => th[t].new = NoFrame
     /\ \A u \in Thread :
           /\ th[t].ph = "shm" /\ th[u].ph = "shm" => t = u
           /\ th[t].new = th[u].new /\ th[t].new # NoFrame => t = u

Sleepers == {t \in Thread : th[t].wait}

KswapdInv ==
  /\ kswapd \in [pc : {"sleep", "ready", "out"}, needs : Int, rounds : 0 .. Rounds]
  /\ pressure \in Nat /\ pressure <= Cardinality(Sleepers)
  /\ kswapd.pc = "out" => pressure > 0
  /\ NoLostWaiter

SwapInv ==
  /\ MemInv(mem, Hands)
  /\ th \in [Thread -> ThreadType]
  /\ cur \in Thread \cup {NoThread} /\ halted \in BOOLEAN
  /\ SpacesInv /\ BlankInv /\ FaultInv /\ KswapdInv

-----------------------------------------------------------------------------
(* Page-table entries and the counts over the tables. *)

LEMMA PteCases ==
  ASSUME NEW p \in Pte
  PROVE  /\ p.k \in {"none", "swap", "page"}
         /\ p.k = "none" => p = NoPte
         /\ p.k = "swap" => p.e \in Entry
         /\ p.k = "page" => /\ p.f \in Frame /\ p.w \in BOOLEAN /\ p.d \in BOOLEAN
                            /\ p = Page(p.f, p.w, p.d)
BY DEF Pte, NoPte, Swapped, Page

LEMMA PteKinds ==
  /\ NoPte \in Pte /\ NoPte.k = "none"
  /\ \A e \in Entry : Swapped(e) \in Pte /\ Swapped(e).k = "swap" /\ Swapped(e).e = e
  /\ \A f \in Frame, w, d \in BOOLEAN :
        /\ Page(f, w, d) \in Pte /\ Page(f, w, d).k = "page"
        /\ Page(f, w, d).f = f /\ Page(f, w, d).w = w /\ Page(f, w, d).d = d
<1>1. /\ NoPte \in Pte /\ NoPte.k = "none"
      /\ \A e \in Entry : Swapped(e) \in Pte /\ Swapped(e).k = "swap"
                          /\ Swapped(e).e = e
  BY DEF Pte, NoPte, Swapped
<1>2. ASSUME NEW f \in Frame, NEW w \in BOOLEAN, NEW d \in BOOLEAN
      PROVE  /\ Page(f, w, d) \in Pte /\ Page(f, w, d).k = "page"
             /\ Page(f, w, d).f = f /\ Page(f, w, d).w = w /\ Page(f, w, d).d = d
  BY DEF Pte, Page
<1> QED
  BY <1>1, <1>2

\* Swap entries are positive, so that NoEntry and Unused are none of them.
LEMMA EntryPositive ==
  /\ Entry \subseteq Nat \ {0}
  /\ NoEntry \notin Entry
<1>1. Cardinality(Entry) \in Nat /\ Entry = 1 .. Cardinality(Entry)
  BY SwapMemAssumption, FS_CardinalityType
<1> QED
  BY <1>1 DEF NoEntry

LEMMA FiniteTables ==
  IsFiniteSet(Mm \X Addr) /\ IsFiniteSet(Shared)
BY SwapMemAssumption, FS_Product, FS_Subset

\* The counts when one entry of a page table changes from p to q.
LEMMA PteChange ==
  ASSUME NEW s \in MemType, NEW r \in MemType, NEW m \in Mm, NEW a \in Addr,
         r.sh = s.sh,
         \A i \in Mm, b \in Addr : <<i, b>> # <<m, a>> => r.pte[i][b] = s.pte[i][b]
  PROVE  /\ \A f \in Frame :
               /\ Mappers(s, f) \in Nat
               /\ Mappers(r, f) = Mappers(s, f) - MapsBit(s.pte[m][a], f)
                                                + MapsBit(r.pte[m][a], f)
         /\ Holders(s) \in [Entry -> Nat]
         /\ Holders(r) = [e \in Entry |-> Holders(s)[e] - HoldsBit(s.pte[m][a], e)
                                                        + HoldsBit(r.pte[m][a], e)]
<1>1. ASSUME NEW f \in Frame
      PROVE  /\ Mappers(s, f) \in Nat
             /\ Mappers(r, f) = Mappers(s, f) - MapsBit(s.pte[m][a], f)
                                              + MapsBit(r.pte[m][a], f)
  <2> DEFINE A == PteMapping(s, f)
             B == PteMapping(r, f)
  <2>1. A \in SUBSET (Mm \X Addr) /\ B \in SUBSET (Mm \X Addr)
    BY DEF PteMapping
  <2>2. \A y \in Mm \X Addr : y # <<m, a>> => (y \in A <=> y \in B)
    BY DEF PteMapping
  <2>3. /\ <<m, a>> \in A <=> Maps(s.pte[m][a], f)
        /\ <<m, a>> \in B <=> Maps(r.pte[m][a], f)
    BY DEF PteMapping
  <2>4. ShMapping(r, f) = ShMapping(s, f)
    BY DEF ShMapping
  <2>5. Cardinality(ShMapping(s, f)) \in Nat
    BY FiniteTables, FS_Subset, FS_CardinalityType DEF ShMapping
  <2> HIDE DEF A, B
  <2>6. /\ Cardinality(A) \in Nat /\ Cardinality(B) \in Nat
        /\ Cardinality(B) = Cardinality(A) - (IF <<m, a>> \in A THEN 1 ELSE 0)
                                           + (IF <<m, a>> \in B THEN 1 ELSE 0)
    BY <2>1, <2>2, FiniteTables, CountChange
  <2> QED
    BY <2>3, <2>4, <2>5, <2>6 DEF Mappers, MapsBit, A, B
<1>2. ASSUME NEW e \in Entry
      PROVE  /\ Holders(s)[e] \in Nat
             /\ Holders(r)[e] = Holders(s)[e] - HoldsBit(s.pte[m][a], e)
                                              + HoldsBit(r.pte[m][a], e)
  <2> DEFINE A == PteHolding(s, e)
             B == PteHolding(r, e)
  <2>1. A \in SUBSET (Mm \X Addr) /\ B \in SUBSET (Mm \X Addr)
    BY DEF PteHolding
  <2>2. \A y \in Mm \X Addr : y # <<m, a>> => (y \in A <=> y \in B)
    BY DEF PteHolding
  <2>3. /\ <<m, a>> \in A <=> Holds(s.pte[m][a], e)
        /\ <<m, a>> \in B <=> Holds(r.pte[m][a], e)
    BY DEF PteHolding
  <2>4. ShHolding(r, e) = ShHolding(s, e)
    BY DEF ShHolding
  <2>5. Cardinality(ShHolding(s, e)) \in Nat
    BY FiniteTables, FS_Subset, FS_CardinalityType DEF ShHolding
  <2> HIDE DEF A, B
  <2>6. /\ Cardinality(A) \in Nat /\ Cardinality(B) \in Nat
        /\ Cardinality(B) = Cardinality(A) - (IF <<m, a>> \in A THEN 1 ELSE 0)
                                           + (IF <<m, a>> \in B THEN 1 ELSE 0)
    BY <2>1, <2>2, FiniteTables, CountChange
  <2> QED
    BY <2>3, <2>4, <2>5, <2>6 DEF Holders, HoldsBit, A, B
<1>3. /\ Holders(s) = [e \in Entry |-> Holders(s)[e]]
      /\ Holders(r) = [e \in Entry |-> Holders(r)[e]]
  BY DEF Holders
<1> QED
  BY <1>1, <1>2, <1>3

\* The same for one entry of the shared memory object.
LEMMA ShChange ==
  ASSUME NEW s \in MemType, NEW r \in MemType, NEW a \in Shared,
         r.pte = s.pte,
         \A b \in Shared : b # a => r.sh[b] = s.sh[b]
  PROVE  /\ \A f \in Frame :
               /\ Mappers(s, f) \in Nat
               /\ Mappers(r, f) = Mappers(s, f) - MapsBit(s.sh[a], f)
                                                + MapsBit(r.sh[a], f)
         /\ Holders(s) \in [Entry -> Nat]
         /\ Holders(r) = [e \in Entry |-> Holders(s)[e] - HoldsBit(s.sh[a], e)
                                                        + HoldsBit(r.sh[a], e)]
<1>1. ASSUME NEW f \in Frame
      PROVE  /\ Mappers(s, f) \in Nat
             /\ Mappers(r, f) = Mappers(s, f) - MapsBit(s.sh[a], f)
                                              + MapsBit(r.sh[a], f)
  <2> DEFINE A == ShMapping(s, f)
             B == ShMapping(r, f)
  <2>1. A \in SUBSET Shared /\ B \in SUBSET Shared
    BY DEF ShMapping
  <2>2. \A y \in Shared : y # a => (y \in A <=> y \in B)
    BY DEF ShMapping
  <2>3. /\ a \in A <=> Maps(s.sh[a], f)
        /\ a \in B <=> Maps(r.sh[a], f)
    BY DEF ShMapping
  <2>4. PteMapping(r, f) = PteMapping(s, f)
    BY DEF PteMapping
  <2>5. Cardinality(PteMapping(s, f)) \in Nat
    BY FiniteTables, FS_Subset, FS_CardinalityType DEF PteMapping
  <2> HIDE DEF A, B
  <2>6. /\ Cardinality(A) \in Nat /\ Cardinality(B) \in Nat
        /\ Cardinality(B) = Cardinality(A) - (IF a \in A THEN 1 ELSE 0)
                                           + (IF a \in B THEN 1 ELSE 0)
    BY <2>1, <2>2, FiniteTables, CountChange
  <2> QED
    BY <2>3, <2>4, <2>5, <2>6 DEF Mappers, MapsBit, A, B
<1>2. ASSUME NEW e \in Entry
      PROVE  /\ Holders(s)[e] \in Nat
             /\ Holders(r)[e] = Holders(s)[e] - HoldsBit(s.sh[a], e)
                                              + HoldsBit(r.sh[a], e)
  <2> DEFINE A == ShHolding(s, e)
             B == ShHolding(r, e)
  <2>1. A \in SUBSET Shared /\ B \in SUBSET Shared
    BY DEF ShHolding
  <2>2. \A y \in Shared : y # a => (y \in A <=> y \in B)
    BY DEF ShHolding
  <2>3. /\ a \in A <=> Holds(s.sh[a], e)
        /\ a \in B <=> Holds(r.sh[a], e)
    BY DEF ShHolding
  <2>4. PteHolding(r, e) = PteHolding(s, e)
    BY DEF PteHolding
  <2>5. Cardinality(PteHolding(s, e)) \in Nat
    BY FiniteTables, FS_Subset, FS_CardinalityType DEF PteHolding
  <2> HIDE DEF A, B
  <2>6. /\ Cardinality(A) \in Nat /\ Cardinality(B) \in Nat
        /\ Cardinality(B) = Cardinality(A) - (IF a \in A THEN 1 ELSE 0)
                                           + (IF a \in B THEN 1 ELSE 0)
    BY <2>1, <2>2, FiniteTables, CountChange
  <2> QED
    BY <2>3, <2>4, <2>5, <2>6 DEF Holders, HoldsBit, A, B
<1>3. /\ Holders(s) = [e \in Entry |-> Holders(s)[e]]
      /\ Holders(r) = [e \in Entry |-> Holders(r)[e]]
  BY DEF Holders
<1> QED
  BY <1>1, <1>2, <1>3

\* An entry that is in a table is counted.
LEMMA InTableCounted ==
  ASSUME NEW s \in MemType, NEW p,
         (\E m \in Mm, a \in Addr : p = s.pte[m][a])
            \/ (\E a \in Shared : p = s.sh[a])
  PROVE  /\ p \in Pte
         /\ \A f \in Frame : Maps(p, f) => Mappers(s, f) > 0
         /\ \A e \in Entry : Holds(p, e) => Holders(s)[e] > 0
<1>1. CASE \E m \in Mm, a \in Addr : p = s.pte[m][a]
  <2>1. PICK m \in Mm, a \in Addr : p = s.pte[m][a]
    BY <1>1
  <2>2. p \in Pte
    BY <2>1 DEF MemType
  <2>3. ASSUME NEW f \in Frame, Maps(p, f)
        PROVE  Mappers(s, f) > 0
    <3>1. <<m, a>> \in PteMapping(s, f)
      BY <2>1, <2>3 DEF PteMapping
    <3>2. IsFiniteSet(PteMapping(s, f)) /\ IsFiniteSet(ShMapping(s, f))
      BY FiniteTables, FS_Subset DEF PteMapping, ShMapping
    <3>3. /\ Cardinality(PteMapping(s, f)) \in Nat \ {0}
          /\ Cardinality(ShMapping(s, f)) \in Nat
      BY <3>1, <3>2, FS_CardinalityType, FS_EmptySet
    <3> QED
      BY <3>3 DEF Mappers
  <2>4. ASSUME NEW e \in Entry, Holds(p, e)
        PROVE  Holders(s)[e] > 0
    <3>1. <<m, a>> \in PteHolding(s, e)
      BY <2>1, <2>4 DEF PteHolding
    <3>2. IsFiniteSet(PteHolding(s, e)) /\ IsFiniteSet(ShHolding(s, e))
      BY FiniteTables, FS_Subset DEF PteHolding, ShHolding
    <3>3. /\ Cardinality(PteHolding(s, e)) \in Nat \ {0}
          /\ Cardinality(ShHolding(s, e)) \in Nat
      BY <3>1, <3>2, FS_CardinalityType, FS_EmptySet
    <3> QED
      BY <3>3 DEF Holders
  <2> QED
    BY <2>2, <2>3, <2>4
<1>2. CASE \E a \in Shared : p = s.sh[a]
  <2>1. PICK a \in Shared : p = s.sh[a]
    BY <1>2
  <2>2. p \in Pte
    BY <2>1 DEF MemType
  <2>3. ASSUME NEW f \in Frame, Maps(p, f)
        PROVE  Mappers(s, f) > 0
    <3>1. a \in ShMapping(s, f)
      BY <2>1, <2>3 DEF ShMapping
    <3>2. IsFiniteSet(PteMapping(s, f)) /\ IsFiniteSet(ShMapping(s, f))
      BY FiniteTables, FS_Subset DEF PteMapping, ShMapping
    <3>3. /\ Cardinality(PteMapping(s, f)) \in Nat
          /\ Cardinality(ShMapping(s, f)) \in Nat \ {0}
      BY <3>1, <3>2, FS_CardinalityType, FS_EmptySet
    <3> QED
      BY <3>3 DEF Mappers
  <2>4. ASSUME NEW e \in Entry, Holds(p, e)
        PROVE  Holders(s)[e] > 0
    <3>1. a \in ShHolding(s, e)
      BY <2>1, <2>4 DEF ShHolding
    <3>2. IsFiniteSet(PteHolding(s, e)) /\ IsFiniteSet(ShHolding(s, e))
      BY FiniteTables, FS_Subset DEF PteHolding, ShHolding
    <3>3. /\ Cardinality(PteHolding(s, e)) \in Nat
          /\ Cardinality(ShHolding(s, e)) \in Nat \ {0}
      BY <3>1, <3>2, FS_CardinalityType, FS_EmptySet
    <3> QED
      BY <3>3 DEF Holders
  <2> QED
    BY <2>2, <2>3, <2>4
<1> QED
  BY <1>1, <1>2

-----------------------------------------------------------------------------
(* The operations on frames and swap entries, below the tables. *)

LEMMA FreePageFields ==
  ASSUME NEW s \in MemType, NEW f \in Frame
  PROVE  /\ FreePage(s, f) \in MemType
         /\ FreePage(s, f).pte = s.pte /\ FreePage(s, f).sh = s.sh
         /\ FreePage(s, f).cache = s.cache /\ FreePage(s, f).map = s.map
         /\ FreePage(s, f).ref = [s.ref EXCEPT ![f] = 0]
         /\ FreePage(s, f).free = s.free \cup {f}
<1> DEFINE ref == [s.ref EXCEPT ![f] = 0]
           data == [s.data EXCEPT ![f] = 0]
           active == s.active \ {f}
           dirty == s.dirty \ {f}
           free == s.free \cup {f}
           r == [s EXCEPT !.free = free, !.ref = ref, !.data = data,
                          !.active = active, !.dirty = dirty]
<1>1. FreePage(s, f) = r
  BY DEF MemType, FreePage
<1>2. /\ ref \in [Frame -> Int] /\ data \in [Frame -> Val]
      /\ active \in SUBSET Frame /\ dirty \in SUBSET Frame /\ free \in SUBSET Frame
  BY SwapMemAssumption DEF MemType
<1> HIDE DEF ref, data, active, dirty, free
<1>3. /\ r \in MemType /\ r.pte = s.pte /\ r.sh = s.sh /\ r.cache = s.cache
      /\ r.map = s.map /\ r.ref = ref /\ r.free = free
  BY <1>2 DEF MemType
<1> QED
  BY <1>1, <1>3 DEF ref, free

\* A change of mem_map alone.
LEMMA SetMap ==
  ASSUME NEW s \in MemType, NEW v \in [Entry -> Int]
  PROVE  LET r == [s EXCEPT !.map = v] IN
         /\ r \in MemType /\ r.pte = s.pte /\ r.sh = s.sh /\ r.ref = s.ref
         /\ r.cache = s.cache /\ r.free = s.free /\ r.map = v
BY DEF MemType

LEMMA SwapFreePageFields ==
  ASSUME NEW s \in MemType, NEW f \in Frame
  PROVE  /\ SwapFreePage(s, f) \in MemType
         /\ SwapFreePage(s, f).pte = s.pte /\ SwapFreePage(s, f).sh = s.sh
         /\ SwapFreePage(s, f).cache = [s.cache EXCEPT ![f] = NoEntry]
         /\ SwapFreePage(s, f).map = s.map
         /\ SwapFreePage(s, f).ref = [s.ref EXCEPT ![f] = 0]
         /\ SwapFreePage(s, f).free = s.free \cup {f}
<1> DEFINE d == SwapPageDel(s, f)
<1>1. /\ d \in MemType /\ d.pte = s.pte /\ d.sh = s.sh /\ d.map = s.map
      /\ d.cache = [s.cache EXCEPT ![f] = NoEntry]
      /\ d.ref = s.ref /\ d.free = s.free
  BY DEF MemType, SwapPageDel
<1>2. SwapFreePage(s, f) = FreePage(d, f)
  BY DEF SwapFreePage
<1> HIDE DEF d
<1> QED
  BY <1>1, <1>2, FreePageFields

\* swap_remove_entry gives one reference to entry x back.
LEMMA SwapRemoveEntryBooked ==
  ASSUME NEW s \in MemType, NEW n \in [Entry -> Nat], NEW H,
         Booked(s, n, H), NEW x \in Entry, n[x] > 0
  PROVE  LET r == SwapRemoveEntry(s, x) IN
         /\ r \in MemType /\ r.pte = s.pte /\ r.sh = s.sh /\ r.ref = s.ref
         /\ Booked(r, [n EXCEPT ![x] = @ - 1], H)
<1> DEFINE s1 == [s EXCEPT !.map[x] = @ - 1]
           s2 == [s1 EXCEPT !.map[x] = Unused]
           r == SwapRemoveEntry(s, x)
           n1 == [n EXCEPT ![x] = @ - 1]
<1>1. /\ s1 \in MemType /\ s1.pte = s.pte /\ s1.sh = s.sh /\ s1.ref = s.ref
      /\ s1.cache = s.cache /\ s1.free = s.free
      /\ s1.map = [s.map EXCEPT ![x] = @ - 1]
  <2> DEFINE v == [s.map EXCEPT ![x] = s.map[x] - 1]
  <2>1. s1 = [s EXCEPT !.map = v] /\ v \in [Entry -> Int]
    BY DEF MemType
  <2> HIDE DEF s1, v
  <2>2. /\ s1 \in MemType /\ s1.pte = s.pte /\ s1.sh = s.sh /\ s1.ref = s.ref
        /\ s1.cache = s.cache /\ s1.free = s.free /\ s1.map = v
    BY <2>1, SetMap
  <2> QED
    BY <2>2 DEF v
<1>2. /\ s2 \in MemType /\ s2.pte = s.pte /\ s2.sh = s.sh /\ s2.ref = s.ref
      /\ s2.cache = s.cache /\ s2.free = s.free
      /\ s2.map = [s.map EXCEPT ![x] = Unused]
  <2> DEFINE v == [s.map EXCEPT ![x] = Unused]
  <2>1. s2 = [s1 EXCEPT !.map = v] /\ v \in [Entry -> Int]
    <3> HIDE DEF s1
    <3> QED
      BY <1>1 DEF MemType, Unused
  <2> HIDE DEF s1, s2, v
  <2>2. /\ s2 \in MemType /\ s2.pte = s1.pte /\ s2.sh = s1.sh /\ s2.ref = s1.ref
        /\ s2.cache = s1.cache /\ s2.free = s1.free /\ s2.map = v
    BY <1>1, <2>1, SetMap
  <2> QED
    BY <1>1, <2>2 DEF v
<1>3. s.map[x] = n[x] /\ s1.map[x] = n[x] - 1
  <2> HIDE DEF s1
  <2>1. s.map[x] = n[x] /\ s.map \in [Entry -> Int]
    BY DEF Booked, MemType
  <2> QED
    BY <1>1, <2>1
<1>4. /\ n1 \in [Entry -> Nat] /\ n1[x] = n[x] - 1
      /\ \A e \in Entry : e # x => n1[e] = n[e]
  OBVIOUS
<1>5. r = IF s1.map[x] # 0 THEN s1
          ELSE IF \E f \in CachedIn(s1, x) : s1.ref[f] # 0 THEN s1
          ELSE IF CachedIn(s1, x) = {} THEN s2
          ELSE SwapFreePage(s2, CHOOSE f \in CachedIn(s1, x) : TRUE)
  BY DEF SwapRemoveEntry
<1>6. CachedIn(s1, x) = {f \in Frame : s.cache[f] = x}
  BY <1>1 DEF CachedIn
<1>7. s.ref \in [Frame -> Int] /\ s.map \in [Entry -> Int]
      /\ s.cache \in [Frame -> Entry \cup {NoEntry}] /\ s.free \in SUBSET Frame
  BY DEF MemType
<1>8. x # NoEntry
  BY EntryPositive
<1> HIDE DEF s1, s2, r, n1
<1>9. CASE s1.map[x] # 0
  <2>1. Booked(s1, n1, H)
    BY <1>1, <1>3, <1>4, <1>7, <1>9 DEF Booked
  <2> QED
    BY <1>1, <1>5, <1>9, <2>1 DEF r, n1
<1>10. CASE s1.map[x] = 0 /\ \E f \in CachedIn(s1, x) : s1.ref[f] # 0
  <2>1. Booked(s1, n1, H)
    BY <1>1, <1>3, <1>4, <1>6, <1>7, <1>10 DEF Booked
  <2> QED
    BY <1>1, <1>5, <1>10, <2>1 DEF r, n1
<1>11. CASE s1.map[x] = 0 /\ CachedIn(s1, x) = {}
  <2>1. Booked(s2, n1, H)
    BY <1>2, <1>3, <1>4, <1>6, <1>7, <1>11 DEF Booked
  <2> QED
    BY <1>2, <1>5, <1>11, <2>1 DEF r, n1
<1>12. CASE /\ s1.map[x] = 0 /\ CachedIn(s1, x) # {}
            /\ ~ \E f \in CachedIn(s1, x) : s1.ref[f] # 0
  <2> DEFINE f == CHOOSE f \in CachedIn(s1, x) : TRUE
  <2>1. f \in CachedIn(s1, x)
    BY <1>12
  <2>2. f \in Frame /\ s.cache[f] = x /\ s.ref[f] = 0
    BY <1>1, <1>6, <1>12, <2>1
  <2>3. r = SwapFreePage(s2, f)
    BY <1>5, <1>12
  <2> HIDE DEF f
  <2>4. /\ r \in MemType /\ r.pte = s.pte /\ r.sh = s.sh
        /\ r.cache = [s.cache EXCEPT ![f] = NoEntry]
        /\ r.map = [s.map EXCEPT ![x] = Unused]
        /\ r.ref = [s.ref EXCEPT ![f] = 0]
        /\ r.free = s.free \cup {f}
    <3>1. /\ r \in MemType /\ r.pte = s2.pte /\ r.sh = s2.sh
          /\ r.cache = [s2.cache EXCEPT ![f] = NoEntry]
          /\ r.map = s2.map
          /\ r.ref = [s2.ref EXCEPT ![f] = 0]
          /\ r.free = s2.free \cup {f}
      BY <1>2, <2>2, <2>3, SwapFreePageFields
    <3> QED
      BY <1>2, <3>1
  <2>5. r.ref = s.ref
    BY <1>7, <2>2, <2>4
  <2>6. \A g \in Frame : s.cache[g] = x => g = f
    BY <1>8, <2>2 DEF Booked
  <2>7. f \notin H
    BY <1>8, <2>2 DEF Booked
  <2>8. Booked(r, n1, H)
    <3>1. ASSUME NEW e \in Entry
          PROVE  \/ r.map[e] = n1[e] /\ n1[e] > 0
                 \/ r.map[e] = 0 /\ n1[e] = 0 /\ \E g \in Frame : r.cache[g] = e
                 \/ r.map[e] = Unused /\ n1[e] = 0
                    /\ \A g \in Frame : r.cache[g] # e
      <4>1. CASE e = x
        BY <1>3, <1>4, <1>7, <1>8, <1>12, <2>2, <2>4, <2>6, <4>1
      <4>2. CASE e # x
        <5>1. n1[e] = n[e] /\ r.map[e] = s.map[e]
          BY <1>4, <1>7, <2>4, <4>2
        <5>2. \A g \in Frame : r.cache[g] = e <=> s.cache[g] = e
          BY <1>7, <2>2, <2>4, <4>2, EntryPositive
        <5> QED
          BY <5>1, <5>2 DEF Booked
      <4> QED
        BY <4>1, <4>2
    <3>2. \A g \in Frame : r.cache[g] = IF g = f THEN NoEntry ELSE s.cache[g]
      BY <1>7, <2>4
    <3> QED
      BY <1>7, <2>2, <2>4, <2>5, <2>7, <3>1, <3>2 DEF Booked
  <2> QED
    BY <2>4, <2>5, <2>8 DEF r, n1
<1> QED
  BY <1>9, <1>10, <1>11, <1>12

LEMMA SetRef ==
  ASSUME NEW s \in MemType, NEW f \in Frame, NEW i \in Int
  PROVE  LET r == [s EXCEPT !.ref[f] = i] IN
         /\ r \in MemType /\ r.pte = s.pte /\ r.sh = s.sh /\ r.map = s.map
         /\ r.cache = s.cache /\ r.free = s.free
         /\ r.ref = [s.ref EXCEPT ![f] = i]
<1> DEFINE v == [s.ref EXCEPT ![f] = i]
           r == [s EXCEPT !.ref[f] = i]
<1>1. r = [s EXCEPT !.ref = v] /\ v \in [Frame -> Int]
  BY DEF MemType
<1> HIDE DEF v, r
<1>2. /\ r \in MemType /\ r.pte = s.pte /\ r.sh = s.sh /\ r.map = s.map
      /\ r.cache = s.cache /\ r.free = s.free /\ r.ref = v
  BY <1>1 DEF MemType
<1> QED
  BY <1>2 DEF v, r

LEMMA SetDirty ==
  ASSUME NEW s \in MemType, NEW D \in SUBSET Frame
  PROVE  LET r == [s EXCEPT !.dirty = D] IN
         /\ r \in MemType /\ r.pte = s.pte /\ r.sh = s.sh /\ r.map = s.map
         /\ r.cache = s.cache /\ r.free = s.free /\ r.ref = s.ref
BY DEF MemType

\* page_remove_pte and shmem_remove_entry_pte give back what the entry held.
LEMMA RemovePteBooked ==
  ASSUME NEW s \in MemType, NEW n \in [Entry -> Nat], NEW H,
         Booked(s, n, H), NEW p \in Pte,
         \A f \in Frame : Maps(p, f) => s.ref[f] > 0,
         \A e \in Entry : Holds(p, e) => n[e] > 0
  PROVE  /\ RemovePte(s, p) \in MemType
         /\ RemovePte(s, p).pte = s.pte /\ RemovePte(s, p).sh = s.sh
         /\ RemovePte(s, p).ref = [f \in Frame |-> s.ref[f] - MapsBit(p, f)]
         /\ Booked(RemovePte(s, p), [e \in Entry |-> n[e] - HoldsBit(p, e)], H)
<1> DEFINE r == RemovePte(s, p)
           n1 == [e \in Entry |-> n[e] - HoldsBit(p, e)]
<1>0. s.ref \in [Frame -> Int] /\ s.map \in [Entry -> Int]
      /\ s.cache \in [Frame -> Entry \cup {NoEntry}] /\ s.free \in SUBSET Frame
      /\ s.dirty \in SUBSET Frame
  BY DEF MemType
<1>1. CASE p.k = "none"
  <2>1. r = s
    BY <1>1 DEF RemovePte
  <2>2. n1 = n /\ s.ref = [f \in Frame |-> s.ref[f] - MapsBit(p, f)]
    BY <1>0, <1>1 DEF MapsBit, HoldsBit, Maps, Holds
  <2> QED
    BY <2>1, <2>2
<1>2. CASE p.k = "swap"
  <2>1. r = SwapRemoveEntry(s, p.e) /\ p.e \in Entry
    BY <1>2, PteCases DEF RemovePte
  <2>2. n1 = [n EXCEPT ![p.e] = @ - 1]
    <3>1. \A e \in Entry : HoldsBit(p, e) = IF e = p.e THEN 1 ELSE 0
      BY <1>2 DEF HoldsBit, Holds
    <3>2. \A e \in Entry : n1[e] = IF e = p.e THEN n[e] - 1 ELSE n[e]
      BY <3>1
    <3>3. n1 = [e \in Entry |-> n1[e]]
      OBVIOUS
    <3> HIDE DEF n1
    <3> QED
      BY <2>1, <3>2, <3>3
  <2>3. s.ref = [f \in Frame |-> s.ref[f] - MapsBit(p, f)]
    BY <1>0, <1>2 DEF MapsBit, Maps
  <2>4. n[p.e] > 0
    BY <1>2, <2>1 DEF Holds
  <2> HIDE DEF n1, r
  <2>5. /\ r \in MemType /\ r.pte = s.pte /\ r.sh = s.sh /\ r.ref = s.ref
        /\ Booked(r, n1, H)
    BY <2>1, <2>2, <2>4, SwapRemoveEntryBooked
  <2> QED
    BY <2>3, <2>5 DEF r, n1
<1>3. CASE p.k = "page"
  <2> DEFINE f == p.f
             s1 == [s EXCEPT !.ref[f] = s.ref[f] - 1]
             v == [s.ref EXCEPT ![f] = s.ref[f] - 1]
  <2>1. f \in Frame /\ s.ref[f] > 0 /\ s.ref[f] - 1 \in Int
    BY <1>0, <1>3, PteCases DEF Maps
  <2>2. n1 = n
    BY <1>3 DEF HoldsBit, Holds
  <2>3. v = [g \in Frame |-> s.ref[g] - MapsBit(p, g)]
    BY <1>0, <1>3, <2>1 DEF MapsBit, Maps
  <2>4. r = IF s.cache[f] # NoEntry
            THEN IF p.d THEN [s1 EXCEPT !.dirty = s1.dirty \cup {f}] ELSE s1
            ELSE IF s1.ref[f] = 0 THEN FreePage(s1, f) ELSE s1
    BY <1>3 DEF RemovePte
  <2> HIDE DEF r, n1, f
  <2>5. /\ s1 \in MemType /\ s1.pte = s.pte /\ s1.sh = s.sh /\ s1.map = s.map
        /\ s1.cache = s.cache /\ s1.free = s.free /\ s1.ref = v
    BY <2>1, SetRef
  <2> HIDE DEF s1
  <2>6. f \notin H /\ f \notin s.free
    BY <2>1 DEF Booked
  <2>7. \A g \in Frame : v[g] = IF g = f THEN s.ref[f] - 1 ELSE s.ref[g]
    BY <1>0, <2>1
  <2> HIDE DEF v
  <2>8. CASE s.cache[f] # NoEntry
    <3>1. /\ r \in MemType /\ r.pte = s.pte /\ r.sh = s.sh /\ r.map = s.map
          /\ r.cache = s.cache /\ r.free = s.free /\ r.ref = v
      <4>1. s1.dirty \cup {f} \in SUBSET Frame
        BY <2>1, <2>5 DEF MemType
      <4> QED
        BY <2>4, <2>5, <2>8, <4>1, SetDirty
    <3>2. Booked(r, n, H)
      BY <1>0, <2>1, <2>6, <2>7, <2>8, <3>1 DEF Booked
    <3> QED
      BY <2>2, <2>3, <3>1, <3>2 DEF r, n1
  <2>9. CASE s.cache[f] = NoEntry /\ v[f] # 0
    <3>1. r = s1
      BY <2>4, <2>5, <2>9
    <3>2. Booked(s1, n, H)
      BY <1>0, <2>1, <2>5, <2>6, <2>7, <2>9 DEF Booked
    <3> QED
      BY <2>2, <2>3, <2>5, <3>1, <3>2 DEF r, n1
  <2>10. CASE s.cache[f] = NoEntry /\ v[f] = 0
    <3>1. r = FreePage(s1, f)
      BY <2>4, <2>5, <2>10
    <3>2. /\ r \in MemType /\ r.pte = s1.pte /\ r.sh = s1.sh /\ r.map = s1.map
          /\ r.cache = s1.cache /\ r.free = s1.free \cup {f}
          /\ r.ref = [s1.ref EXCEPT ![f] = 0]
      BY <2>1, <2>5, <3>1, FreePageFields
    <3>3. r.ref = v
      BY <1>0, <2>1, <2>3, <2>5, <2>10, <3>2
    <3>4. Booked(r, n, H)
      BY <1>0, <2>1, <2>5, <2>6, <2>7, <2>10, <3>2, <3>3 DEF Booked
    <3> QED
      BY <2>2, <2>3, <2>5, <3>2, <3>3, <3>4 DEF r, n1
  <2> QED
    BY <2>8, <2>9, <2>10
<1> QED
  BY <1>1, <1>2, <1>3, PteCases

\* Booked looks at four of the fields only.
LEMMA BookedSame ==
  ASSUME NEW s, NEW r, NEW n, NEW H, Booked(s, n, H),
         r.ref = s.ref, r.cache = s.cache, r.map = s.map, r.free = s.free
  PROVE  Booked(r, n, H)
BY DEF Booked

-----------------------------------------------------------------------------
(* The operations on the tables. *)

LEMMA SetPte ==
  ASSUME NEW s \in MemType, NEW m \in Mm, NEW a \in Addr, NEW q \in Pte
  PROVE  LET r == [s EXCEPT !.pte[m][a] = q] IN
         /\ r \in MemType /\ r.sh = s.sh /\ r.ref = s.ref /\ r.map = s.map
         /\ r.cache = s.cache /\ r.free = s.free
         /\ r.pte[m][a] = q
         /\ \A i \in Mm, b \in Addr :
               <<i, b>> # <<m, a>> => r.pte[i][b] = s.pte[i][b]
<1> DEFINE v == [s.pte EXCEPT ![m][a] = q]
           r == [s EXCEPT !.pte[m][a] = q]
<1>1. r = [s EXCEPT !.pte = v]
  BY DEF MemType
<1>2. /\ v \in [Mm -> [Addr -> Pte]] /\ v[m][a] = q
      /\ \A i \in Mm, b \in Addr : <<i, b>> # <<m, a>> => v[i][b] = s.pte[i][b]
  BY DEF MemType
<1> HIDE DEF v, r
<1>3. /\ r \in MemType /\ r.sh = s.sh /\ r.ref = s.ref /\ r.map = s.map
      /\ r.cache = s.cache /\ r.free = s.free /\ r.pte = v
  BY <1>1, <1>2 DEF MemType
<1> QED
  BY <1>2, <1>3 DEF r

LEMMA SetSh ==
  ASSUME NEW s \in MemType, NEW a \in Shared, NEW q \in Pte
  PROVE  LET r == [s EXCEPT !.sh[a] = q] IN
         /\ r \in MemType /\ r.pte = s.pte /\ r.ref = s.ref /\ r.map = s.map
         /\ r.cache = s.cache /\ r.free = s.free
         /\ r.sh[a] = q
         /\ \A b \in Shared : b # a => r.sh[b] = s.sh[b]
<1> DEFINE v == [s.sh EXCEPT ![a] = q]
           r == [s EXCEPT !.sh[a] = q]
<1>1. r = [s EXCEPT !.sh = v]
  BY DEF MemType
<1>2. /\ v \in [Shared -> Pte] /\ v[a] = q
      /\ \A b \in Shared : b # a => v[b] = s.sh[b]
  BY DEF MemType
<1> HIDE DEF v, r
<1>3. /\ r \in MemType /\ r.pte = s.pte /\ r.ref = s.ref /\ r.map = s.map
      /\ r.cache = s.cache /\ r.free = s.free /\ r.sh = v
  BY <1>1, <1>2 DEF MemType
<1> QED
  BY <1>2, <1>3 DEF r

\* What r has changed of the page tables of s: at most the entry of (m, a).
OnlyPte(s, r, m, a) ==
  /\ r.sh = s.sh
  /\ \A i \in Mm, b \in Addr : <<i, b>> # <<m, a>> => r.pte[i][b] = s.pte[i][b]

PteSet(s, m, a, q) == [s EXCEPT !.pte[m][a] = q]
ShSet(s, a, q) == [s EXCEPT !.sh[a] = q]

\* Entry (m, a) is set to q once its old contents have been given back and
\* what q holds has been taken: the books stay balanced.
LEMMA PteSetInv ==
  ASSUME NEW s \in MemType, NEW u \in MemType, NEW H,
         NEW m \in Mm, NEW a \in Addr, NEW q \in Pte,
         Counted(s), u.pte = s.pte, u.sh = s.sh,
         RefsMoved(s, u, s.pte[m][a], q),
         Booked(u, Moved(Holders(s), s.pte[m][a], q), H)
  PROVE  /\ MemInv(PteSet(u, m, a, q), H)
         /\ OnlyPte(s, PteSet(u, m, a, q), m, a)
         /\ PteSet(u, m, a, q).pte[m][a] = q
<1> DEFINE r == PteSet(u, m, a, q)
<1>1. /\ r \in MemType /\ r.sh = u.sh /\ r.ref = u.ref /\ r.map = u.map
      /\ r.cache = u.cache /\ r.free = u.free
      /\ r.pte[m][a] = q
      /\ \A i \in Mm, b \in Addr :
            <<i, b>> # <<m, a>> => r.pte[i][b] = u.pte[i][b]
  BY SetPte DEF PteSet
<1> HIDE DEF r
<1>2. OnlyPte(s, r, m, a)
  BY <1>1 DEF OnlyPte
<1>3. /\ \A f \in Frame :
            /\ Mappers(s, f) \in Nat
            /\ Mappers(r, f) = Mappers(s, f) - MapsBit(s.pte[m][a], f)
                                             + MapsBit(q, f)
      /\ Holders(r) = [e \in Entry |-> Holders(s)[e] - HoldsBit(s.pte[m][a], e)
                                                     + HoldsBit(q, e)]
  BY <1>1, PteChange
<1>4. Counted(r)
  BY <1>1, <1>3 DEF Counted, RefsMoved
<1>5. Booked(r, Holders(r), H)
  BY <1>1, <1>3, BookedSame DEF Moved
<1> QED
  BY <1>1, <1>2, <1>4, <1>5 DEF MemInv, r

LEMMA ShSetInv ==
  ASSUME NEW s \in MemType, NEW u \in MemType, NEW H,
         NEW a \in Shared, NEW q \in Pte,
         Counted(s), u.pte = s.pte, u.sh = s.sh,
         RefsMoved(s, u, s.sh[a], q),
         Booked(u, Moved(Holders(s), s.sh[a], q), H)
  PROVE  /\ MemInv(ShSet(u, a, q), H)
         /\ ShSet(u, a, q).pte = s.pte /\ ShSet(u, a, q).sh[a] = q
         /\ \A b \in Shared : b # a => ShSet(u, a, q).sh[b] = s.sh[b]
<1> DEFINE r == ShSet(u, a, q)
<1>1. /\ r \in MemType /\ r.pte = u.pte /\ r.ref = u.ref /\ r.map = u.map
      /\ r.cache = u.cache /\ r.free = u.free
      /\ r.sh[a] = q
      /\ \A b \in Shared : b # a => r.sh[b] = u.sh[b]
  BY SetSh DEF ShSet
<1> HIDE DEF r
<1>2. /\ \A f \in Frame :
            /\ Mappers(s, f) \in Nat
            /\ Mappers(r, f) = Mappers(s, f) - MapsBit(s.sh[a], f)
                                             + MapsBit(q, f)
      /\ Holders(r) = [e \in Entry |-> Holders(s)[e] - HoldsBit(s.sh[a], e)
                                                     + HoldsBit(q, e)]
  BY <1>1, ShChange
<1>3. Counted(r)
  BY <1>1, <1>2 DEF Counted, RefsMoved
<1>4. Booked(r, Holders(r), H)
  BY <1>1, <1>2, BookedSame DEF Moved
<1> QED
  BY <1>1, <1>3, <1>4 DEF MemInv, r

LEMMA HoldersType ==
  ASSUME NEW s \in MemType
  PROVE  Holders(s) \in [Entry -> Nat] /\ \A f \in Frame : Mappers(s, f) \in Nat
<1>1. \A f \in Frame : IsFiniteSet(PteMapping(s, f)) /\ IsFiniteSet(ShMapping(s, f))
  BY FiniteTables, FS_Subset DEF PteMapping, ShMapping
<1>2. \A e \in Entry : IsFiniteSet(PteHolding(s, e)) /\ IsFiniteSet(ShHolding(s, e))
  BY FiniteTables, FS_Subset DEF PteHolding, ShHolding
<1> QED
  BY <1>1, <1>2, FS_CardinalityType DEF Mappers, Holders

LEMMA Bits ==
  /\ \A p, f : MapsBit(p, f) \in {0, 1}
  /\ \A p, e : HoldsBit(p, e) \in {0, 1}
  /\ \A f : MapsBit(NoPte, f) = 0
  /\ \A e : HoldsBit(NoPte, e) = 0
  /\ \A f, g \in Frame, w, d \in BOOLEAN :
        MapsBit(Page(f, w, d), g) = IF g = f THEN 1 ELSE 0
  /\ \A f \in Frame, w, d \in BOOLEAN : \A e : HoldsBit(Page(f, w, d), e) = 0
  /\ \A x, e \in Entry : HoldsBit(Swapped(x), e) = IF e = x THEN 1 ELSE 0
  /\ \A x \in Entry : \A f : MapsBit(Swapped(x), f) = 0
BY PteKinds DEF MapsBit, HoldsBit, Maps, Holds

\* An entry of a table can be given back.
LEMMA RemoveFromTable ==
  ASSUME NEW s, NEW H, MemInv(s, H), NEW p,
         (\E m \in Mm, a \in Addr : p = s.pte[m][a])
            \/ (\E a \in Shared : p = s.sh[a])
  PROVE  /\ p \in Pte
         /\ RemovePte(s, p) \in MemType
         /\ RemovePte(s, p).pte = s.pte /\ RemovePte(s, p).sh = s.sh
         /\ RefsMoved(s, RemovePte(s, p), p, NoPte)
         /\ Booked(RemovePte(s, p), Moved(Holders(s), p, NoPte), H)
<1> DEFINE r == RemovePte(s, p)
<1>1. s \in MemType /\ Booked(s, Holders(s), H) /\ Counted(s)
      /\ s.ref \in [Frame -> Int]
  BY DEF MemInv, MemType
<1>2. Holders(s) \in [Entry -> Nat]
  BY <1>1, HoldersType
<1>3. /\ p \in Pte
      /\ \A f \in Frame : Maps(p, f) => s.ref[f] > 0
      /\ \A e \in Entry : Holds(p, e) => Holders(s)[e] > 0
  BY <1>1, InTableCounted DEF Counted
<1>4. /\ r \in MemType /\ r.pte = s.pte /\ r.sh = s.sh
      /\ r.ref = [f \in Frame |-> s.ref[f] - MapsBit(p, f)]
      /\ Booked(r, [e \in Entry |-> Holders(s)[e] - HoldsBit(p, e)], H)
  BY <1>1, <1>2, <1>3, RemovePteBooked
<1> HIDE DEF r
<1>5. RefsMoved(s, r, p, NoPte)
  BY <1>1, <1>4, Bits DEF RefsMoved
<1>6. [e \in Entry |-> Holders(s)[e] - HoldsBit(p, e)] = Moved(Holders(s), p, NoPte)
  BY <1>2, Bits DEF Moved
<1> QED
  BY <1>3, <1>4, <1>5, <1>6 DEF r

LEMMA PageRemoveInv ==
  ASSUME NEW s, NEW H, MemInv(s, H), NEW m \in Mm, NEW a \in Addr
  PROVE  /\ MemInv(PageRemove(s, m, a), H)
         /\ OnlyPte(s, PageRemove(s, m, a), m, a)
         /\ PageRemove(s, m, a).pte[m][a] = NoPte
<1> DEFINE u == RemovePte(s, s.pte[m][a])
<1>1. /\ u \in MemType /\ u.pte = s.pte /\ u.sh = s.sh
      /\ RefsMoved(s, u, s.pte[m][a], NoPte)
      /\ Booked(u, Moved(Holders(s), s.pte[m][a], NoPte), H)
  BY RemoveFromTable
<1>2. s \in MemType /\ Counted(s) /\ NoPte \in Pte
  BY PteKinds DEF MemInv
<1>3. PageRemove(s, m, a) = PteSet(u, m, a, NoPte)
  BY DEF PageRemove, PteSet
<1> HIDE DEF u
<1> QED
  BY <1>1, <1>2, <1>3, PteSetInv

ShRemove(s, a) == [RemovePte(s, s.sh[a]) EXCEPT !.sh[a] = NoPte]

LEMMA ShRemoveInv ==
  ASSUME NEW s, NEW H, MemInv(s, H), NEW a \in Shared
  PROVE  /\ MemInv(ShRemove(s, a), H)
         /\ ShRemove(s, a).pte = s.pte /\ ShRemove(s, a).sh[a] = NoPte
         /\ \A b \in Shared : b # a => ShRemove(s, a).sh[b] = s.sh[b]
<1> DEFINE u == RemovePte(s, s.sh[a])
<1>1. /\ u \in MemType /\ u.pte = s.pte /\ u.sh = s.sh
      /\ RefsMoved(s, u, s.sh[a], NoPte)
      /\ Booked(u, Moved(Holders(s), s.sh[a], NoPte), H)
  BY RemoveFromTable
<1>2. s \in MemType /\ Counted(s) /\ NoPte \in Pte
  BY PteKinds DEF MemInv
<1>3. ShRemove(s, a) = ShSet(u, a, NoPte)
  BY DEF ShRemove, ShSet
<1> HIDE DEF u
<1>4. /\ MemInv(ShSet(u, a, NoPte), H)
      /\ ShSet(u, a, NoPte).pte = s.pte /\ ShSet(u, a, NoPte).sh[a] = NoPte
      /\ \A b \in Shared : b # a => ShSet(u, a, NoPte).sh[b] = s.sh[b]
  BY <1>1, <1>2, ShSetInv
<1> QED
  BY <1>3, <1>4

\* page_insert: frame f is in use or in private hands, which it leaves.
LEMMA PageInsertInv ==
  ASSUME NEW s, NEW H, MemInv(s, H), NEW m \in Mm, NEW a \in Addr,
         NEW f \in Frame, f \notin s.free, NEW w \in BOOLEAN, NEW d \in BOOLEAN
  PROVE  /\ MemInv(PageInsert(s, m, a, Page(f, w, d)), H \ {f})
         /\ OnlyPte(s, PageInsert(s, m, a, Page(f, w, d)), m, a)
         /\ PageInsert(s, m, a, Page(f, w, d)).pte[m][a] = Page(f, w, d)
<1> DEFINE q == Page(f, w, d)
           old == s.pte[m][a]
           G == H \ {f}
<1>1. /\ s \in MemType /\ Counted(s) /\ Booked(s, Holders(s), H)
      /\ s.ref \in [Frame -> Int] /\ Holders(s) \in [Entry -> Nat]
  BY HoldersType DEF MemInv, MemType
<1>2. q \in Pte /\ q.k = "page" /\ q.f = f
  BY PteKinds
<1>3. /\ old \in Pte
      /\ \A g \in Frame : Maps(old, g) => s.ref[g] > 0
      /\ \A e \in Entry : Holds(old, e) => Holders(s)[e] > 0
  BY <1>1, InTableCounted DEF Counted
<1>4. CASE old.k = "page" /\ old.f = f
  <2>1. PageInsert(s, m, a, q) = PteSet(s, m, a, q)
    BY <1>2, <1>4 DEF PageInsert, PteSet
  <2>2. /\ \A g \in Frame : MapsBit(old, g) = MapsBit(q, g)
        /\ \A e \in Entry : HoldsBit(old, e) = HoldsBit(q, e)
    BY <1>2, <1>4 DEF MapsBit, HoldsBit, Maps, Holds
  <2>3. RefsMoved(s, s, old, q)
    BY <1>1, <2>2, Bits DEF RefsMoved
  <2>4. Moved(Holders(s), old, q) = Holders(s)
    BY <1>1, <2>2, Bits DEF Moved
  <2>5. Booked(s, Holders(s), G)
    <3>1. s.ref[f] > 0
      BY <1>3, <1>4 DEF Maps
    <3> QED
      BY <1>1, <3>1 DEF Booked
  <2> HIDE DEF q, G
  <2>6. /\ MemInv(PteSet(s, m, a, q), G)
        /\ OnlyPte(s, PteSet(s, m, a, q), m, a)
        /\ PteSet(s, m, a, q).pte[m][a] = q
    BY <1>1, <1>2, <2>3, <2>4, <2>5, PteSetInv
  <2> QED
    BY <2>1, <2>6 DEF q, G
<1>5. CASE ~(old.k = "page" /\ old.f = f)
  <2> DEFINE s0 == [s EXCEPT !.ref[f] = s.ref[f] + 1]
             u == RemovePte(s0, old)
  <2>1. PageInsert(s, m, a, q) = PteSet(u, m, a, q)
    BY <1>2, <1>5 DEF PageInsert, PteSet
  <2>2. /\ s0 \in MemType /\ s0.pte = s.pte /\ s0.sh = s.sh /\ s0.map = s.map
        /\ s0.cache = s.cache /\ s0.free = s.free
        /\ s0.ref = [s.ref EXCEPT ![f] = s.ref[f] + 1]
    BY <1>1, SetRef
  <2> HIDE DEF s0, q
  <2>3. \A g \in Frame : s0.ref[g] = IF g = f THEN s.ref[f] + 1 ELSE s.ref[g]
    BY <1>1, <2>2
  <2>4. Booked(s0, Holders(s), G)
    BY <1>1, <2>2, <2>3 DEF Booked
  <2>5. \A g \in Frame : Maps(old, g) => s0.ref[g] > 0
    BY <1>1, <1>3, <2>3
  <2> HIDE DEF old, G
  <2>6. /\ u \in MemType /\ u.pte = s0.pte /\ u.sh = s0.sh
        /\ u.ref = [g \in Frame |-> s0.ref[g] - MapsBit(old, g)]
        /\ Booked(u, [e \in Entry |-> Holders(s)[e] - HoldsBit(old, e)], G)
    BY <1>1, <1>3, <2>2, <2>4, <2>5, RemovePteBooked
  <2> HIDE DEF u
  <2>7. RefsMoved(s, u, old, q)
    BY <1>1, <2>3, <2>6, Bits DEF RefsMoved, q
  <2>8. [e \in Entry |-> Holders(s)[e] - HoldsBit(old, e)]
          = Moved(Holders(s), old, q)
    BY <1>1, Bits DEF Moved, q
  <2>9. Booked(u, Moved(Holders(s), old, q), G)
    BY <2>6, <2>8
  <2>10. u \in MemType /\ u.pte = s.pte /\ u.sh = s.sh
    BY <2>2, <2>6
  <2>11. /\ MemInv(PteSet(u, m, a, q), G)
         /\ OnlyPte(s, PteSet(u, m, a, q), m, a)
         /\ PteSet(u, m, a, q).pte[m][a] = q
    BY <1>1, <1>2, <2>7, <2>9, <2>10, PteSetInv DEF old
  <2> QED
    BY <2>1, <2>11 DEF q, G
<1> QED
  BY <1>4, <1>5

\* The counts depend on the tables only.
LEMMA SameTables ==
  ASSUME NEW s, NEW r, r.pte = s.pte, r.sh = s.sh
  PROVE  /\ \A f : Mappers(r, f) = Mappers(s, f)
         /\ Holders(r) = Holders(s)
BY DEF Mappers, Holders, PteMapping, ShMapping, PteHolding, ShHolding

\* A frame in private hands is given back to the allocator.
LEMMA FreeHandInv ==
  ASSUME NEW s, NEW H, MemInv(s, H), NEW f \in Frame, f \in H
  PROVE  /\ MemInv(FreePage(s, f), H \ {f})
         /\ FreePage(s, f).pte = s.pte /\ FreePage(s, f).sh = s.sh
<1> DEFINE r == FreePage(s, f)
<1>1. /\ s \in MemType /\ Counted(s) /\ Booked(s, Holders(s), H)
      /\ s.ref \in [Frame -> Int]
  BY DEF MemInv, MemType
<1>2. /\ r \in MemType /\ r.pte = s.pte /\ r.sh = s.sh
      /\ r.cache = s.cache /\ r.map = s.map
      /\ r.ref = [s.ref EXCEPT ![f] = 0] /\ r.free = s.free \cup {f}
  BY <1>1, FreePageFields
<1>3. s.ref[f] = 0 /\ s.cache[f] = NoEntry
  BY <1>1 DEF Booked
<1> HIDE DEF r
<1>4. r.ref = s.ref
  BY <1>1, <1>2, <1>3
<1>5. Holders(r) = Holders(s) /\ Counted(r)
  BY <1>1, <1>2, <1>4, SameTables DEF Counted
<1>6. Booked(r, Holders(s), H \ {f})
  BY <1>1, <1>2, <1>3, <1>4 DEF Booked
<1> QED
  BY <1>2, <1>5, <1>6 DEF MemInv, r

\* alloc_page hands out frame f.
LEMMA TakeInv ==
  ASSUME NEW s, NEW H, MemInv(s, H), NEW f \in s.free
  PROVE  /\ f \in Frame /\ f \notin H
         /\ s.ref[f] = 0 /\ s.cache[f] = NoEntry
         /\ MemInv(Take(s, f), H \cup {f})
         /\ Take(s, f).pte = s.pte /\ Take(s, f).sh = s.sh
         /\ Take(s, f).cache = s.cache /\ Take(s, f).ref = s.ref
         /\ Take(s, f).map = s.map /\ f \notin Take(s, f).free
<1> DEFINE r == Take(s, f)
           v == s.free \ {f}
<1>1. /\ s \in MemType /\ Counted(s) /\ Booked(s, Holders(s), H)
      /\ s.free \in SUBSET Frame
  BY DEF MemInv, MemType
<1>2. v \in SUBSET Frame /\ r = [s EXCEPT !.free = v]
  BY <1>1 DEF Take
<1> HIDE DEF r, v
<1>3. /\ r \in MemType /\ r.pte = s.pte /\ r.sh = s.sh
      /\ r.cache = s.cache /\ r.map = s.map /\ r.ref = s.ref /\ r.free = v
  BY <1>1, <1>2 DEF MemType
<1>4. Holders(r) = Holders(s) /\ Counted(r)
  BY <1>1, <1>3, SameTables DEF Counted
<1>5. /\ f \in Frame /\ f \notin H /\ s.ref[f] = 0 /\ s.cache[f] = NoEntry
  BY <1>1 DEF Booked
<1>6. Booked(r, Holders(s), H \cup {f})
  BY <1>1, <1>3, <1>5 DEF Booked, v
<1> QED
  BY <1>3, <1>4, <1>5, <1>6 DEF MemInv, r, v

\* swap_duplicate on an entry in use.
LEMMA SwapDuplicateBooked ==
  ASSUME NEW s \in MemType, NEW n \in [Entry -> Nat], NEW H,
         Booked(s, n, H), NEW x \in Entry, s.map[x] # Unused
  PROVE  /\ SwapDuplicate(s, x) \in MemType
         /\ SwapDuplicate(s, x).pte = s.pte /\ SwapDuplicate(s, x).sh = s.sh
         /\ SwapDuplicate(s, x).ref = s.ref /\ SwapDuplicate(s, x).free = s.free
         /\ SwapDuplicate(s, x).cache = s.cache
         /\ Booked(SwapDuplicate(s, x),
                   [e \in Entry |-> n[e] + (IF e = x THEN 1 ELSE 0)], H)
<1> DEFINE r == SwapDuplicate(s, x)
           v == [s.map EXCEPT ![x] = s.map[x] + 1]
           n1 == [e \in Entry |-> n[e] + (IF e = x THEN 1 ELSE 0)]
<1>0. s.map \in [Entry -> Int]
  BY DEF MemType
<1>1. v \in [Entry -> Int] /\ r = [s EXCEPT !.map = v]
  BY <1>0 DEF SwapDuplicate, MemType
<1>2. s.map[x] = n[x]
  BY DEF Booked
<1>3. \A e \in Entry : v[e] = IF e = x THEN n[x] + 1 ELSE s.map[e]
  BY <1>0, <1>2
<1>4. \A e \in Entry : n1[e] = IF e = x THEN n[x] + 1 ELSE n[e]
  OBVIOUS
<1> HIDE DEF r, v, n1
<1>5. /\ r \in MemType /\ r.pte = s.pte /\ r.sh = s.sh /\ r.ref = s.ref
      /\ r.cache = s.cache /\ r.free = s.free /\ r.map = v
  BY <1>1, SetMap
<1>6. Booked(r, n1, H)
  BY <1>2, <1>3, <1>4, <1>5 DEF Booked
<1> QED
  BY <1>5, <1>6 DEF r, n1

\* copy_range for a page of an address space that the child does not have yet.
LEMMA CopyPteInv ==
  ASSUME NEW s, NEW H, MemInv(s, H), NEW m \in Mm, NEW to \in Mm, m # to,
         NEW a \in Addr, s.pte[to][a] = NoPte
  PROVE  /\ MemInv(CopyPte(s, m, to, a), H)
         /\ CopyPte(s, m, to, a).sh = s.sh
         /\ \A i \in Mm, b \in Addr :
               b # a \/ i \notin {m, to}
                  => CopyPte(s, m, to, a).pte[i][b] = s.pte[i][b]
<1> DEFINE p == s.pte[m][a]
           r == CopyPte(s, m, to, a)
<1>1. /\ s \in MemType /\ Counted(s) /\ Booked(s, Holders(s), H)
      /\ s.ref \in [Frame -> Int] /\ Holders(s) \in [Entry -> Nat]
  BY HoldersType DEF MemInv, MemType
<1>2. /\ p \in Pte
      /\ \A g \in Frame : Maps(p, g) => s.ref[g] > 0
      /\ \A e \in Entry : Holds(p, e) => Holders(s)[e] > 0
  BY <1>1, InTableCounted DEF Counted
<1>3. CASE p.k = "none"
  <2>1. r = s
    BY <1>3 DEF CopyPte
  <2> QED
    BY <2>1
<1>4. CASE p.k = "swap"
  <2> DEFINE u == SwapDuplicate(s, p.e)
  <2>1. r = PteSet(u, to, a, p)
    BY <1>4 DEF CopyPte, PteSet
  <2>2. p.e \in Entry /\ s.map[p.e] # Unused
    <3>1. p.e \in Entry /\ Holders(s)[p.e] > 0
      BY <1>2, <1>4, PteCases DEF Holds
    <3> QED
      BY <1>1, <3>1 DEF Booked, Unused
  <2>3. /\ u \in MemType /\ u.pte = s.pte /\ u.sh = s.sh /\ u.ref = s.ref
        /\ Booked(u, [e \in Entry |-> Holders(s)[e] + (IF e = p.e THEN 1 ELSE 0)], H)
    BY <1>1, <2>2, SwapDuplicateBooked
  <2> HIDE DEF u, r
  <2>4. /\ \A e \in Entry : HoldsBit(p, e) = IF e = p.e THEN 1 ELSE 0
        /\ \A f \in Frame : MapsBit(p, f) = 0
    BY <1>4 DEF HoldsBit, Holds, MapsBit, Maps
  <2>5. RefsMoved(s, u, s.pte[to][a], p)
    BY <1>1, <2>3, <2>4, Bits DEF RefsMoved
  <2>6. [e \in Entry |-> Holders(s)[e] + (IF e = p.e THEN 1 ELSE 0)]
          = Moved(Holders(s), s.pte[to][a], p)
    BY <1>1, <2>4, Bits DEF Moved
  <2>7. Booked(u, Moved(Holders(s), s.pte[to][a], p), H)
    BY <2>3, <2>6
  <2> HIDE DEF p
  <2>8. MemInv(r, H) /\ OnlyPte(s, r, to, a)
    BY <1>1, <1>2, <2>1, <2>3, <2>5, <2>7, PteSetInv
  <2> QED
    BY <2>8 DEF OnlyPte, r
<1>5. CASE p.k = "page"
  <2> DEFINE w == p.w /\ a \in Shared
             f == p.f
             d == p.d
             s1 == PageInsert(s, m, a, Page(f, w, d))
  <2>1. f \in Frame /\ d \in BOOLEAN /\ p = Page(f, p.w, d) /\ w \in BOOLEAN
    BY <1>2, <1>5, PteCases
  <2>2. [p EXCEPT !.w = w] = Page(f, w, d)
    BY <2>1 DEF Page
  <2>3. r = PageInsert(s1, to, a, Page(f, w, FALSE))
    BY <1>5, <2>2 DEF CopyPte
  <2>4. s.ref[f] > 0
    BY <1>2, <1>5, <2>1 DEF Maps
  <2> HIDE DEF r, s1, w, f, d
  <2>5. f \notin s.free /\ H \ {f} = H
    BY <1>1, <2>1, <2>4 DEF Booked
  <2>6. /\ MemInv(s1, H \ {f}) /\ OnlyPte(s, s1, m, a)
        /\ s1.pte[m][a] = Page(f, w, d)
    BY <2>1, <2>5, PageInsertInv DEF s1
  <2>7. MemInv(s1, H)
    BY <2>5, <2>6
  <2>8. s1 \in MemType /\ Counted(s1) /\ Booked(s1, Holders(s1), H)
        /\ s1.ref \in [Frame -> Int]
    BY <2>7 DEF MemInv, MemType
  <2>9. s1.ref[f] > 0
    <3>1. Maps(s1.pte[m][a], f)
      BY <2>1, <2>6, PteKinds DEF Maps
    <3> QED
      BY <2>1, <2>8, <3>1, InTableCounted DEF Counted
  <2>10. f \notin s1.free
    BY <2>1, <2>8, <2>9 DEF Booked
  <2>11. MemInv(r, H \ {f}) /\ OnlyPte(s1, r, to, a)
    BY <2>1, <2>3, <2>7, <2>10, PageInsertInv
  <2>12. MemInv(r, H)
    BY <2>5, <2>11
  <2> QED
    BY <2>6, <2>11, <2>12 DEF OnlyPte, r
<1> QED
  BY <1>2, <1>3, <1>4, <1>5, PteCases

\* An instruction that completes changes contents and the dirty bit.
LEMMA TouchInv ==
  ASSUME NEW s, NEW H, MemInv(s, H), NEW m \in Mm, NEW a \in Addr,
         NEW w \in BOOLEAN, NEW v \in Val, s.pte[m][a].k = "page"
  PROVE  /\ MemInv(Touch(s, m, a, w, v), H)
         /\ OnlyPte(s, Touch(s, m, a, w, v), m, a)
         /\ Touch(s, m, a, w, v).pte[m][a].k = "page"
<1> DEFINE p == s.pte[m][a]
           q == [p EXCEPT !.d = @ \/ w]
           c == IF w THEN v ELSE s.data[p.f]
           data == [s.data EXCEPT ![p.f] = c]
           u == [s EXCEPT !.data = data]
           r == Touch(s, m, a, w, v)
<1>1. /\ s \in MemType /\ Counted(s) /\ Booked(s, Holders(s), H)
      /\ s.ref \in [Frame -> Int] /\ Holders(s) \in [Entry -> Nat]
      /\ s.data \in [Frame -> Val]
  BY HoldersType DEF MemInv, MemType
<1>2. p \in Pte /\ p.f \in Frame /\ p.w \in BOOLEAN /\ p.d \in BOOLEAN
      /\ p = Page(p.f, p.w, p.d)
  BY <1>1, InTableCounted, PteCases
<1>3. q = Page(p.f, p.w, p.d \/ w) /\ (p.d \/ w) \in BOOLEAN
  BY <1>2 DEF Page
<1>4. q \in Pte /\ q.k = "page" /\ q.f = p.f
  BY <1>2, <1>3, PteKinds
<1>5. data \in [Frame -> Val]
  BY <1>1, <1>2
<1>6. r = PteSet(u, m, a, q)
  BY <1>1 DEF Touch, PteSet, MemType
<1> HIDE DEF q, data, r, p
<1>7. /\ u \in MemType /\ u.pte = s.pte /\ u.sh = s.sh /\ u.ref = s.ref
      /\ u.cache = s.cache /\ u.map = s.map /\ u.free = s.free
  BY <1>1, <1>5 DEF MemType
<1> HIDE DEF u
<1>8. /\ \A g \in Frame : MapsBit(p, g) = MapsBit(q, g)
      /\ \A e \in Entry : HoldsBit(p, e) = HoldsBit(q, e)
  BY <1>4 DEF MapsBit, HoldsBit, Maps, Holds, p
<1>9. RefsMoved(s, u, p, q)
  BY <1>1, <1>7, <1>8, Bits DEF RefsMoved
<1>10. Moved(Holders(s), p, q) = Holders(s)
  BY <1>1, <1>8, Bits DEF Moved
<1>11. Booked(u, Moved(Holders(s), p, q), H)
  BY <1>1, <1>7, <1>10, BookedSame
<1>12. MemInv(r, H) /\ OnlyPte(s, r, m, a) /\ r.pte[m][a] = q
  BY <1>1, <1>4, <1>6, <1>7, <1>9, <1>11, PteSetInv DEF p
<1> QED
  BY <1>4, <1>12 DEF r

\* A change of contents alone.
LEMMA SetDataInv ==
  ASSUME NEW s, NEW H, MemInv(s, H), NEW d \in [Frame -> Val]
  PROVE  LET u == [s EXCEPT !.data = d] IN
         /\ MemInv(u, H) /\ u.pte = s.pte /\ u.sh = s.sh /\ u.ref = s.ref
         /\ u.cache = s.cache /\ u.map = s.map /\ u.free = s.free
<1> DEFINE u == [s EXCEPT !.data = d]
<1>1. s \in MemType /\ Counted(s) /\ Booked(s, Holders(s), H)
  BY DEF MemInv
<1>2. /\ u \in MemType /\ u.pte = s.pte /\ u.sh = s.sh /\ u.ref = s.ref
      /\ u.cache = s.cache /\ u.map = s.map /\ u.free = s.free
  BY <1>1 DEF MemType
<1> HIDE DEF u
<1>3. Holders(u) = Holders(s) /\ Counted(u)
  BY <1>1, <1>2, SameTables DEF Counted
<1>4. Booked(u, Holders(u), H)
  BY <1>1, <1>2, <1>3, BookedSame
<1> QED
  BY <1>2, <1>3, <1>4 DEF MemInv, u

\* Of the hands only the frames in them matter.
LEMMA SameHands ==
  ASSUME NEW s, NEW H, NEW G, MemInv(s, H),
         \A f \in Frame : f \in H <=> f \in G
  PROVE  MemInv(s, G)
BY DEF MemInv, Booked

\* The same for an entry p that maps a page, with the frame in nobody's hands.
LEMMA PageInserted ==
  ASSUME NEW s, NEW H, MemInv(s, H), NEW m \in Mm, NEW a \in Addr,
         NEW p \in Pte, p.k = "page", p.f \notin s.free
  PROVE  /\ MemInv(PageInsert(s, m, a, p), H \ {p.f})
         /\ OnlyPte(s, PageInsert(s, m, a, p), m, a)
         /\ PageInsert(s, m, a, p).pte[m][a] = p
<1> DEFINE f == p.f
           w == p.w
           d == p.d
<1>1. f \in Frame /\ w \in BOOLEAN /\ d \in BOOLEAN /\ p = Page(f, w, d)
      /\ f \notin s.free
  BY PteCases
<1> HIDE DEF f, w, d
<1>2. /\ MemInv(PageInsert(s, m, a, Page(f, w, d)), H \ {f})
      /\ OnlyPte(s, PageInsert(s, m, a, Page(f, w, d)), m, a)
      /\ PageInsert(s, m, a, Page(f, w, d)).pte[m][a] = Page(f, w, d)
  BY <1>1, PageInsertInv
<1> QED
  BY <1>1, <1>2 DEF f

\* The page at hand is mapped, and what was allocated for a copy is freed.
InsertAndFree(s, m, a, p, new) ==
  IF new = NoFrame THEN PageInsert(s, m, a, p)
  ELSE FreePage(PageInsert(s, m, a, p), new)

LEMMA InsertAndFreeInv ==
  ASSUME NEW s, NEW H, MemInv(s, H), NEW m \in Mm, NEW a \in Addr,
         NEW p \in Pte, p.k = "page", p.f \notin s.free, p.f \notin H,
         NEW new, new # NoFrame => new \in Frame /\ new \in H
  PROVE  /\ MemInv(InsertAndFree(s, m, a, p, new), H \ {new})
         /\ OnlyPte(s, InsertAndFree(s, m, a, p, new), m, a)
         /\ InsertAndFree(s, m, a, p, new).pte[m][a] = p
<1> DEFINE s1 == PageInsert(s, m, a, p)
           r == InsertAndFree(s, m, a, p, new)
<1>1. MemInv(s1, H \ {p.f}) /\ OnlyPte(s, s1, m, a) /\ s1.pte[m][a] = p
  BY PageInserted
<1>2. r = IF new = NoFrame THEN s1 ELSE FreePage(s1, new)
  BY DEF InsertAndFree
<1>3. H \ {p.f} = H
  OBVIOUS
<1> HIDE DEF s1, r
<1>4. CASE new = NoFrame
  <2>1. \A g \in Frame : g \in H <=> g \in H \ {new}
    BY <1>4, SwapMemAssumption
  <2>2. MemInv(s1, H \ {new})
    BY <1>1, <1>3, <2>1, SameHands
  <2> QED
    BY <1>1, <1>2, <1>4, <2>2 DEF r
<1>5. CASE new # NoFrame
  <2>1. r = FreePage(s1, new) /\ new \in Frame /\ new \in H /\ MemInv(s1, H)
    BY <1>1, <1>2, <1>3, <1>5
  <2>2. /\ MemInv(FreePage(s1, new), H \ {new})
        /\ FreePage(s1, new).pte = s1.pte /\ FreePage(s1, new).sh = s1.sh
    BY <2>1, FreeHandInv
  <2> QED
    BY <1>1, <2>1, <2>2 DEF OnlyPte, r
<1> QED
  BY <1>4, <1>5

\* From s to r the entry of (m, a), and no other, has come to map a page.
NowMapped(s, r, m, a) == OnlyPte(s, r, m, a) /\ r.pte[m][a].k = "page"

\* do_pgfault maps page f, or a copy of it in new; new leaves the hands.
LEMMA MapPageInv ==
  ASSUME NEW s, NEW H, MemInv(s, H), NEW t,
         th[t].mm \in Mm, th[t].a \in Addr, th[t].w \in BOOLEAN,
         NEW f \in Frame, f \notin s.free, f \notin H,
         NEW new \in Frame \cup {NoFrame},
         new # NoFrame => new \in H,
         new = NoFrame => th[t].a \in Shared
  PROVE  /\ MemInv(MapPage(s, t, f, new), H \ {new})
         /\ NowMapped(s, MapPage(s, t, f, new), th[t].mm, th[t].a)
<1> DEFINE m == th[t].mm
           a == th[t].a
           readOnly == s.pte[m][a].k = "swap" /\ ~th[t].w /\ Cow(a)
           copy == Cow(a) /\ ~readOnly /\ s.ref[f] + SwapPageCount(s, f) > 1
           d == [s.data EXCEPT ![new] = s.data[f]]
           u == [s EXCEPT !.data = d]
           p == Page(f, ~readOnly, FALSE)
           q == Page(new, TRUE, FALSE)
           r == MapPage(s, t, f, new)
<1>1. s \in MemType /\ s.data \in [Frame -> Val] /\ Booked(s, Holders(s), H)
      /\ s.free \in SUBSET Frame
  BY DEF MemInv, MemType
<1>2. [s EXCEPT !.data[new] = s.data[f]] = u
  BY <1>1 DEF MemType
<1>3. r = IF copy THEN PageInsert(u, m, a, q)
          ELSE InsertAndFree(s, m, a, p, new)
  BY <1>2 DEF MapPage, InsertAndFree
<1>4. copy => new # NoFrame
  BY DEF Cow
<1>5. p \in Pte /\ p.k = "page" /\ p.f = f
  BY DEF Pte, Page
<1>6. new # NoFrame => /\ new \in Frame /\ new \in H
                       /\ q \in Pte /\ q.k = "page" /\ q.f = new
  BY DEF Pte, Page
<1>7. NoFrame \notin Frame /\ m \in Mm /\ a \in Addr
  BY SwapMemAssumption
<1> HIDE DEF copy, readOnly, r, m, a, p, q
<1>8. CASE copy
  <2>1. d \in [Frame -> Val] /\ new \in Frame /\ new \in H
        /\ q \in Pte /\ q.k = "page" /\ q.f = new
    BY <1>1, <1>4, <1>6, <1>8
  <2> HIDE DEF d
  <2>2. MemInv(u, H) /\ u.pte = s.pte /\ u.sh = s.sh /\ u.free = s.free
    BY <2>1, SetDataInv
  <2>3. q.f \notin u.free
    BY <1>1, <2>1, <2>2 DEF Booked
  <2> HIDE DEF u
  <2>4. /\ MemInv(PageInsert(u, m, a, q), H \ {q.f})
        /\ OnlyPte(u, PageInsert(u, m, a, q), m, a)
        /\ PageInsert(u, m, a, q).pte[m][a] = q
    BY <1>7, <2>1, <2>2, <2>3, PageInserted
  <2>5. r = PageInsert(u, m, a, q)
    BY <1>3, <1>8
  <2>6. MemInv(r, H \ {new}) /\ OnlyPte(u, r, m, a) /\ r.pte[m][a].k = "page"
    BY <2>1, <2>4, <2>5
  <2> QED
    BY <2>2, <2>6 DEF OnlyPte, NowMapped, r, m, a
<1>9. CASE ~copy
  <2>1. r = InsertAndFree(s, m, a, p, new)
    BY <1>3, <1>9
  <2>2. p.f \notin s.free /\ p.f \notin H
    BY <1>5
  <2> HIDE DEF d, u
  <2>3. /\ MemInv(InsertAndFree(s, m, a, p, new), H \ {new})
        /\ OnlyPte(s, InsertAndFree(s, m, a, p, new), m, a)
        /\ InsertAndFree(s, m, a, p, new).pte[m][a] = p
    BY <1>5, <1>6, <1>7, <2>2, InsertAndFreeInv
  <2> QED
    BY <1>5, <2>1, <2>3 DEF NowMapped, r, m, a
<1> QED
  BY <1>8, <1>9

-----------------------------------------------------------------------------
(* Swapping out. *)

LEMMA NearestIn ==
  ASSUME NEW S \in SUBSET Entry, S # {}, NEW start \in Entry
  PROVE  Nearest(S, start) \in S
<1> DEFINE N == Cardinality(Entry)
           D == {(x - start) % N : x \in S}
<1>1. N \in Nat \ {0}
  BY SwapMemAssumption, FS_CardinalityType, FS_EmptySet
<1>2. S \subseteq Int /\ start \in Int
  BY EntryPositive
<1> HIDE DEF N
<1>3. \A x \in S : (x - start) % N \in Nat
  BY <1>1, <1>2
<1>4. D \in SUBSET Nat /\ D # {}
  BY <1>3
<1> HIDE DEF D
<1>5. PICK d \in D : \A c \in D : d <= c
  BY <1>4, LeastOfNats
<1>6. \E e \in S : \A x \in S : (e - start) % N <= (x - start) % N
  BY <1>5 DEF D
<1> QED
  BY <1>6 DEF Nearest, N

\* try_alloc_swap_entry: the entry it returns is unused and cached nowhere.
LEMMA TryAllocEntryBooked ==
  ASSUME NEW s \in MemType, NEW n \in [Entry -> Nat], NEW H,
         Booked(s, n, H), NEW start \in Entry
  PROVE  LET r == TryAllocEntry(s, start) IN
         /\ r.mem \in MemType /\ r.mem.pte = s.pte /\ r.mem.sh = s.sh
         /\ r.mem.ref = s.ref
         /\ Booked(r.mem, n, H)
         /\ \A g \in Frame : s.cache[g] = NoEntry => r.mem.cache[g] = NoEntry
         /\ r.e # NoEntry => r.e \in Entry /\ r.mem.map[r.e] = Unused
<1> DEFINE empty == {e \in Entry : s.map[e] = Unused}
           zero == {e \in Entry : s.map[e] = 0}
           r == TryAllocEntry(s, start)
<1>1. CASE empty # {}
  <2>1. r = [mem |-> s, e |-> Nearest(empty, start)]
    BY <1>1 DEF TryAllocEntry
  <2>2. Nearest(empty, start) \in empty
    BY <1>1, NearestIn
  <2> QED
    BY <2>1, <2>2
<1>2. CASE empty = {} /\ zero = {}
  <2>1. r = [mem |-> s, e |-> NoEntry]
    BY <1>2 DEF TryAllocEntry
  <2> QED
    BY <2>1
<1>3. CASE empty = {} /\ zero # {}
  <2> DEFINE x == Nearest(zero, start)
             f == CHOOSE g \in CachedIn(s, x) : TRUE
             v == [s.map EXCEPT ![x] = Unused]
             s1 == [s EXCEPT !.map = v, !.active = s.active \ {f}]
             u == IF s.ref[f] = 0 THEN SwapFreePage(s1, f) ELSE SwapPageDel(s1, f)
  <2>0. /\ s.map \in [Entry -> Int] /\ s.ref \in [Frame -> Int]
        /\ s.cache \in [Frame -> Entry \cup {NoEntry}]
        /\ s.active \in SUBSET Frame /\ s.free \in SUBSET Frame
    BY DEF MemType
  <2>1. [s EXCEPT !.map[x] = Unused, !.active = @ \ {f}] = s1
    BY DEF MemType
  <2>2. r = [e |-> x, mem |-> u]
    BY <1>3, <2>1 DEF TryAllocEntry
  <2>3. x \in zero
    BY <1>3, NearestIn
  <2>4. x \in Entry /\ s.map[x] = 0 /\ n[x] = 0
    BY <2>3 DEF Booked, Unused
  <2>5. \E g \in Frame : s.cache[g] = x
    <3> HIDE DEF x
    <3>1. \A e \in Entry : s.map[e] = 0 => \E g \in Frame : s.cache[g] = e
      BY DEF Booked, Unused
    <3> QED
      BY <2>4, <3>1
  <2>6. f \in Frame /\ s.cache[f] = x
    BY <2>5 DEF CachedIn
  <2>7. v \in [Entry -> Int] /\ v[x] = Unused
        /\ \A e \in Entry : e # x => v[e] = s.map[e]
    BY <2>0, <2>4 DEF Unused
  <2> HIDE DEF x, f, v
  <2>8. /\ s1 \in MemType /\ s1.pte = s.pte /\ s1.sh = s.sh /\ s1.ref = s.ref
        /\ s1.cache = s.cache /\ s1.free = s.free /\ s1.map = v
    <3> DEFINE act == s.active \ {f}
    <3>1. act \in SUBSET Frame
      BY <2>0
    <3> HIDE DEF act
    <3>2. /\ [s EXCEPT !.map = v, !.active = act] \in MemType
          /\ [s EXCEPT !.map = v, !.active = act].pte = s.pte
          /\ [s EXCEPT !.map = v, !.active = act].sh = s.sh
          /\ [s EXCEPT !.map = v, !.active = act].ref = s.ref
          /\ [s EXCEPT !.map = v, !.active = act].cache = s.cache
          /\ [s EXCEPT !.map = v, !.active = act].free = s.free
          /\ [s EXCEPT !.map = v, !.active = act].map = v
      BY <2>7, <3>1 DEF MemType
    <3> QED
      BY <3>2 DEF act
  <2> HIDE DEF s1
  <2>9. /\ u \in MemType /\ u.pte = s.pte /\ u.sh = s.sh /\ u.ref = s.ref
        /\ u.map = v /\ u.cache = [s.cache EXCEPT ![f] = NoEntry]
        /\ u.free = IF s.ref[f] = 0 THEN s.free \cup {f} ELSE s.free
    <3>1. CASE s.ref[f] = 0
      <4>1. /\ u \in MemType /\ u.pte = s1.pte /\ u.sh = s1.sh /\ u.map = s1.map
            /\ u.cache = [s1.cache EXCEPT ![f] = NoEntry]
            /\ u.ref = [s1.ref EXCEPT ![f] = 0]
            /\ u.free = s1.free \cup {f}
        BY <2>6, <2>8, <3>1, SwapFreePageFields
      <4>2. u.ref = s.ref
        BY <2>0, <2>6, <2>8, <3>1, <4>1
      <4> HIDE DEF u
      <4> QED
        BY <2>8, <3>1, <4>1, <4>2
    <3>2. CASE s.ref[f] # 0
      <4>1. u = SwapPageDel(s1, f)
        BY <3>2
      <4> DEFINE c == [s1.cache EXCEPT ![f] = NoEntry]
      <4>2. u = [s1 EXCEPT !.cache = c] /\ c \in [Frame -> Entry \cup {NoEntry}]
        BY <2>8, <4>1 DEF SwapPageDel, MemType
      <4> HIDE DEF u, c
      <4>3. /\ u \in MemType /\ u.pte = s1.pte /\ u.sh = s1.sh /\ u.map = s1.map
            /\ u.cache = c /\ u.ref = s1.ref /\ u.free = s1.free
        BY <2>8, <4>2 DEF MemType
      <4> QED
        BY <2>8, <3>2, <4>3 DEF c
    <3> QED
      BY <3>1, <3>2
  <2> HIDE DEF u
  <2>10. \A g \in Frame : u.cache[g] = IF g = f THEN NoEntry ELSE s.cache[g]
    BY <2>0, <2>9
  <2>11. \A g \in Frame : s.cache[g] = x => g = f
    BY <2>4, <2>6, EntryPositive DEF Booked
  <2>12. f \notin H
    BY <2>4, <2>6, EntryPositive DEF Booked
  <2>13. Booked(u, n, H)
    <3>1. ASSUME NEW e \in Entry
          PROVE  \/ u.map[e] = n[e] /\ n[e] > 0
                 \/ u.map[e] = 0 /\ n[e] = 0 /\ \E g \in Frame : u.cache[g] = e
                 \/ u.map[e] = Unused /\ n[e] = 0
                    /\ \A g \in Frame : u.cache[g] # e
      <4>1. CASE e = x
        BY <2>4, <2>7, <2>9, <2>10, <2>11, <4>1, EntryPositive
      <4>2. CASE e # x
        <5>1. u.map[e] = s.map[e]
          BY <2>7, <2>9, <4>2
        <5>2. \A g \in Frame : u.cache[g] = e <=> s.cache[g] = e
          BY <2>6, <2>10, <4>2, EntryPositive
        <5> QED
          BY <5>1, <5>2 DEF Booked
      <4> QED
        BY <4>1, <4>2
    <3> QED
      BY <2>0, <2>6, <2>9, <2>10, <2>12, <3>1 DEF Booked
  <2>14. r.mem = u /\ r.e = x
    BY <2>2
  <2> HIDE DEF r
  <2> QED
    BY <2>4, <2>7, <2>9, <2>10, <2>13, <2>14 DEF r
<1> QED
  BY <1>1, <1>2, <1>3

\* A page that is mapped is put in the swap cache, if an entry can be had.
LEMMA EnsureSwapInv ==
  ASSUME NEW s, NEW H, MemInv(s, H), NEW p \in Pte, p.k = "page",
         s.ref[p.f] > 0, NEW start \in Entry
  PROVE  LET r == EnsureSwap(s, p, start) IN
         /\ MemInv(r, H) /\ r.pte = s.pte /\ r.sh = s.sh /\ r.ref = s.ref
         /\ r.cache[p.f] # NoEntry =>
               r.cache[p.f] \in Entry /\ r.map[r.cache[p.f]] # Unused
<1> DEFINE f == p.f
           n == Holders(s)
           r == EnsureSwap(s, p, start)
<1>0. /\ s \in MemType /\ Counted(s) /\ Booked(s, n, H)
      /\ s.ref \in [Frame -> Int] /\ n \in [Entry -> Nat] /\ f \in Frame
      /\ s.dirty \in SUBSET Frame /\ s.active \in SUBSET Frame
  BY HoldersType, PteCases DEF MemInv, MemType
<1>1. CASE s.cache[f] # NoEntry
  <2> DEFINE D == IF p.d THEN s.dirty \cup {f} ELSE s.dirty
  <2>1. D \in SUBSET Frame
    BY <1>0
  <2>2. r = [s EXCEPT !.dirty = D]
    BY <1>0, <1>1 DEF EnsureSwap, MemType
  <2> HIDE DEF D, r, n, f
  <2>3. /\ r \in MemType /\ r.pte = s.pte /\ r.sh = s.sh /\ r.map = s.map
        /\ r.cache = s.cache /\ r.free = s.free /\ r.ref = s.ref
    BY <1>0, <2>1, <2>2, SetDirty
  <2>4. Holders(r) = n /\ Counted(r)
    BY <1>0, <2>3, SameTables DEF Counted, n
  <2>5. Booked(r, n, H)
    BY <1>0, <2>3, BookedSame
  <2>6. s.cache[f] \in Entry /\ s.map[s.cache[f]] # Unused
    <3>1. s.cache[f] \in Entry
      BY <1>0, <1>1 DEF MemType
    <3> DEFINE x == s.cache[f]
    <3>2. x \in Entry /\ \E g \in Frame : s.cache[g] = x
      BY <1>0, <3>1
    <3> HIDE DEF x
    <3>3. s.map[x] # Unused
      BY <1>0, <3>2 DEF Booked, Unused
    <3> QED
      BY <3>1, <3>3 DEF x
  <2> QED
    BY <2>3, <2>4, <2>5, <2>6 DEF MemInv, r, f
<1>2. CASE s.cache[f] = NoEntry
  <2> DEFINE o == TryAllocEntry(s, start)
             x == o.e
             s1 == o.mem
  <2>1. /\ s1 \in MemType /\ s1.pte = s.pte /\ s1.sh = s.sh
        /\ s1.ref = s.ref /\ Booked(s1, n, H)
        /\ \A g \in Frame : s.cache[g] = NoEntry => s1.cache[g] = NoEntry
        /\ x # NoEntry => x \in Entry /\ s1.map[x] = Unused
    <3> HIDE DEF n, f
    <3> QED
      BY <1>0, TryAllocEntryBooked
  <2>2. CASE x = NoEntry
    <3>1. r = s
      BY <1>2, <2>2 DEF EnsureSwap
    <3> QED
      BY <1>2, <3>1
  <2>3. CASE x # NoEntry
    <3> DEFINE v == [s1.map EXCEPT ![x] = 0]
               c == [s1.cache EXCEPT ![f] = x]
               D == s1.dirty \cup {f}
               A == s1.active \cup {f}
               u == [s1 EXCEPT !.map = v, !.dirty = D, !.cache = c, !.active = A]
    <3>0. /\ s1.map \in [Entry -> Int]
          /\ s1.cache \in [Frame -> Entry \cup {NoEntry}]
          /\ s1.dirty \in SUBSET Frame /\ s1.active \in SUBSET Frame
      <4> HIDE DEF s1
      <4> QED
        BY <2>1 DEF MemType
    <3>1. x \in Entry /\ s1.map[x] = Unused
      BY <2>1, <2>3
    <3>2. r = u
      <4>1. r = SwapPageAdd([s1 EXCEPT !.map[x] = 0, !.dirty = @ \cup {f}], f, x)
        BY <1>2, <2>3 DEF EnsureSwap
      <4> HIDE DEF s1, r, x
      <4> QED
        BY <2>1, <4>1 DEF SwapPageAdd, MemType
    <3>3. /\ v \in [Entry -> Int] /\ c \in [Frame -> Entry \cup {NoEntry}]
          /\ D \in SUBSET Frame /\ A \in SUBSET Frame
          /\ \A e \in Entry : v[e] = IF e = x THEN 0 ELSE s1.map[e]
          /\ \A g \in Frame : c[g] = IF g = f THEN x ELSE s1.cache[g]
      <4> HIDE DEF s1, x
      <4> QED
        BY <1>0, <3>0, <3>1
    <3> HIDE DEF v, c, D, A, s1, x, r, n, f
    <3>4. /\ u \in MemType /\ u.pte = s1.pte /\ u.sh = s1.sh /\ u.ref = s1.ref
          /\ u.map = v /\ u.cache = c /\ u.free = s1.free
      BY <2>1, <3>3 DEF MemType
    <3> HIDE DEF u
    <3>5. s1.cache[f] = NoEntry /\ s1.ref[f] > 0 /\ f \notin H
      <4>1. s1.cache[f] = NoEntry /\ s1.ref[f] > 0
        BY <1>0, <1>2, <2>1 DEF f
      <4> QED
        BY <1>0, <2>1, <4>1 DEF Booked
    <3>6. n[x] = 0 /\ \A g \in Frame : s1.cache[g] # x
      BY <1>0, <2>1, <3>1 DEF Booked, Unused
    <3>7. ASSUME NEW e \in Entry
          PROVE  \/ u.map[e] = n[e] /\ n[e] > 0
                 \/ u.map[e] = 0 /\ n[e] = 0 /\ \E g \in Frame : u.cache[g] = e
                 \/ u.map[e] = Unused /\ n[e] = 0
                    /\ \A g \in Frame : u.cache[g] # e
      <4>1. CASE e = x
        BY <1>0, <3>3, <3>4, <3>6, <4>1
      <4>2. CASE e # x
        <5>1. u.map[e] = s1.map[e]
          BY <3>3, <3>4, <4>2
        <5>2. \A g \in Frame : u.cache[g] = e <=> s1.cache[g] = e
          BY <3>3, <3>4, <3>5, <4>2, EntryPositive
        <5> QED
          BY <2>1, <5>1, <5>2 DEF Booked
      <4> QED
        BY <4>1, <4>2
    <3>8. Booked(u, n, H)
      BY <1>0, <2>1, <3>3, <3>4, <3>5, <3>6, <3>7 DEF Booked
    <3>9. Holders(u) = n /\ Counted(u)
      BY <1>0, <2>1, <3>4, SameTables DEF Counted, n
    <3>10. u.cache[f] = x /\ u.map[x] = 0
      BY <1>0, <3>1, <3>3, <3>4
    <3> QED
      BY <2>1, <3>1, <3>2, <3>4, <3>8, <3>9, <3>10 DEF MemInv, Unused, r, f
  <2> QED
    BY <2>2, <2>3
<1> QED
  BY <1>1, <1>2

\* Swapping out turns entries that map a page into entries that hold a swap
\* entry, and changes no other.
SwappedOnly(s, r) ==
  /\ \A i \in Mm, b \in Addr :
        \/ r.pte[i][b] = s.pte[i][b]
        \/ s.pte[i][b].k = "page" /\ r.pte[i][b].k = "swap"
  /\ \A b \in Shared :
        \/ r.sh[b] = s.sh[b]
        \/ s.sh[b].k = "page" /\ r.sh[b].k = "swap"

\* The reference of the shared object to a frame becomes one to swap entry x,
\* which somebody else holds already.
LEMMA ShmemInsertEntryInv ==
  ASSUME NEW s, NEW H, MemInv(s, H), NEW a \in Shared, s.sh[a].k = "page",
         NEW x \in Entry, Holders(s)[x] > 0
  PROVE  /\ MemInv(ShmemInsertEntry(s, a, x), H)
         /\ SwappedOnly(s, ShmemInsertEntry(s, a, x))
<1> DEFINE p == s.sh[a]
           q == Swapped(x)
           n == Holders(s)
           u == RemovePte(s, p)
           w == SwapDuplicate(u, x)
           r == ShmemInsertEntry(s, a, x)
<1>1. /\ s \in MemType /\ Counted(s) /\ s.ref \in [Frame -> Int]
      /\ n \in [Entry -> Nat]
  BY HoldersType DEF MemInv, MemType
<1>2. /\ p \in Pte /\ u \in MemType /\ u.pte = s.pte /\ u.sh = s.sh
      /\ RefsMoved(s, u, p, NoPte) /\ Booked(u, Moved(n, p, NoPte), H)
  BY RemoveFromTable
<1>3. /\ \A e \in Entry : HoldsBit(p, e) = 0
      /\ \A e \in Entry : HoldsBit(q, e) = IF e = x THEN 1 ELSE 0
      /\ \A f \in Frame : MapsBit(q, f) = 0
      /\ q \in Pte /\ q.k = "swap"
  <2>1. \A e \in Entry : HoldsBit(p, e) = 0
    BY DEF HoldsBit, Holds
  <2> HIDE DEF p
  <2> QED
    BY <2>1, Bits, PteKinds
<1>4. r = ShSet(w, a, q)
  BY DEF ShmemInsertEntry, ShSet
<1> HIDE DEF p, q, n, u, r
<1>5. Moved(n, p, NoPte) = n
  BY <1>1, <1>3, Bits DEF Moved
<1>6. Booked(u, n, H) /\ u.map[x] # Unused
  BY <1>1, <1>2, <1>5 DEF Booked, Unused, n
<1>7. /\ w \in MemType /\ w.pte = u.pte /\ w.sh = u.sh /\ w.ref = u.ref
      /\ Booked(w, [e \in Entry |-> n[e] + (IF e = x THEN 1 ELSE 0)], H)
  BY <1>1, <1>2, <1>6, SwapDuplicateBooked
<1> HIDE DEF w
<1>8. [e \in Entry |-> n[e] + (IF e = x THEN 1 ELSE 0)] = Moved(n, p, q)
  BY <1>1, <1>3 DEF Moved
<1>9. RefsMoved(s, w, p, q)
  BY <1>1, <1>2, <1>3, <1>7, Bits DEF RefsMoved
<1>10. /\ w \in MemType /\ w.pte = s.pte /\ w.sh = s.sh
       /\ Booked(w, Moved(n, p, q), H)
  BY <1>2, <1>7, <1>8
<1>11. /\ MemInv(ShSet(w, a, q), H)
       /\ ShSet(w, a, q).pte = s.pte /\ ShSet(w, a, q).sh[a] = q
       /\ \A b \in Shared : b # a => ShSet(w, a, q).sh[b] = s.sh[b]
  BY <1>1, <1>3, <1>9, <1>10, ShSetInv DEF p, n
<1>12. SwappedOnly(s, r)
  BY <1>3, <1>4, <1>11 DEF SwappedOnly
<1> QED
  BY <1>4, <1>11, <1>12 DEF r

\* swap_out_vma on one page.
LEMMA SwapOutPageInv ==
  ASSUME NEW s, NEW H, MemInv(s, H), NEW m \in Mm, NEW a \in Addr,
         NEW start \in Entry
  PROVE  /\ MemInv(SwapOutPage(s, m, a, start).mem, H)
         /\ SwappedOnly(s, SwapOutPage(s, m, a, start).mem)
         /\ SwapOutPage(s, m, a, start).n \in {0, 1}
<1> DEFINE p == s.pte[m][a]
           s1 == EnsureSwap(s, p, start)
           x == s1.cache[p.f]
           d == SwapDuplicate(s1, x)
           u == [d EXCEPT !.ref[p.f] = d.ref[p.f] - 1]
           q == Swapped(x)
           s2 == PteSet(u, m, a, q)
           n == Holders(s)
           o == SwapOutPage(s, m, a, start)
<1>0. /\ s \in MemType /\ Counted(s) /\ s.ref \in [Frame -> Int]
      /\ n \in [Entry -> Nat] /\ p \in Pte
  BY HoldersType, InTableCounted DEF MemInv, MemType
<1>1. SwappedOnly(s, s)
  BY DEF SwappedOnly
<1>2. CASE p.k # "page"
  <2>1. o = [mem |-> s, n |-> 0]
    BY <1>2 DEF SwapOutPage
  <2> QED
    BY <1>1, <2>1
<1>3. CASE p.k = "page" /\ x = NoEntry
  <2>1. o = [mem |-> s, n |-> 0]
    BY <1>3 DEF SwapOutPage
  <2> QED
    BY <1>1, <2>1
<1>4. CASE p.k = "page" /\ x # NoEntry
  <2>1. o = [n |-> 1,
             mem |-> IF a \in Shared /\ s2.ref[p.f] = 1 /\ s2.sh[a].k = "page"
                     THEN ShmemInsertEntry(s2, a, x) ELSE s2]
    <3> DEFINE s3 == [SwapDuplicate(s1, x) EXCEPT !.ref[p.f] = @ - 1,
                                                  !.pte[m][a] = Swapped(x)]
    <3>1. s3 = s2
      BY DEF PteSet
    <3>2. o = IF p.k # "page" THEN [mem |-> s, n |-> 0]
              ELSE IF x = NoEntry THEN [mem |-> s, n |-> 0]
              ELSE [n |-> 1,
                    mem |-> IF a \in Shared /\ s3.ref[p.f] = 1
                                 /\ s3.sh[a].k = "page"
                            THEN ShmemInsertEntry(s3, a, x) ELSE s3]
      BY DEF SwapOutPage
    <3> HIDE DEF s3, s2, o, x, p
    <3> QED
      BY <1>4, <3>1, <3>2
  <2>2. p.f \in Frame /\ s.ref[p.f] > 0
    <3>1. p.f \in Frame
      BY <1>0, <1>4, PteCases
    <3>2. Mappers(s, p.f) > 0
      BY <1>0, <1>4, <3>1, InTableCounted DEF Maps
    <3> QED
      BY <1>0, <3>1, <3>2 DEF Counted
  <2> DEFINE f == p.f
  <2>3. /\ MemInv(s1, H) /\ s1.pte = s.pte /\ s1.sh = s.sh /\ s1.ref = s.ref
        /\ x \in Entry /\ s1.map[x] # Unused
    <3> HIDE DEF p
    <3> QED
      BY <1>0, <1>4, <2>2, EnsureSwapInv DEF p
  <2>4. s1.cache[f] = x
    OBVIOUS
  <2> HIDE DEF s1, x, o, n, p
  <2>5. /\ s1 \in MemType /\ Booked(s1, n, H)
    <3>1. Holders(s1) = n
      BY <2>3, SameTables DEF n
    <3> QED
      BY <2>3, <3>1 DEF MemInv
  <2> DEFINE n1 == [e \in Entry |-> n[e] + (IF e = x THEN 1 ELSE 0)]
  <2>6. /\ d \in MemType /\ d.pte = s1.pte /\ d.sh = s1.sh /\ d.ref = s1.ref
        /\ d.free = s1.free /\ d.cache = s1.cache /\ Booked(d, n1, H)
    BY <1>0, <2>3, <2>5, SwapDuplicateBooked
  <2> HIDE DEF d, n1, f
  <2>7. f \in Frame /\ d.ref \in [Frame -> Int] /\ d.ref[f] > 0
        /\ d.ref[f] - 1 \in Int
    BY <1>0, <2>2, <2>3, <2>6 DEF f
  <2>8. /\ u \in MemType /\ u.pte = d.pte /\ u.sh = d.sh /\ u.map = d.map
        /\ u.cache = d.cache /\ u.free = d.free
        /\ u.ref = [d.ref EXCEPT ![f] = d.ref[f] - 1]
    BY <2>6, <2>7, SetRef DEF f
  <2> HIDE DEF u
  <2>9. \A g \in Frame : u.ref[g] = IF g = f THEN d.ref[f] - 1 ELSE d.ref[g]
    BY <2>7, <2>8
  <2>10. Booked(u, n1, H)
    <3>1. f \notin H /\ f \notin d.free /\ d.cache[f] # NoEntry
      <4>1. f \notin H /\ f \notin d.free
        BY <2>6, <2>7 DEF Booked
      <4> QED
        BY <1>4, <2>4, <2>6, <4>1
    <3> QED
      BY <2>6, <2>7, <2>8, <2>9, <3>1 DEF Booked
  <2>11. /\ \A e \in Entry : HoldsBit(p, e) = 0
         /\ \A e \in Entry : HoldsBit(q, e) = IF e = x THEN 1 ELSE 0
         /\ \A g \in Frame : MapsBit(q, g) = 0
         /\ \A g \in Frame : MapsBit(p, g) = IF g = f THEN 1 ELSE 0
         /\ q \in Pte /\ q.k = "swap" /\ q.e = x
    <3>1. /\ \A e \in Entry : HoldsBit(p, e) = 0
          /\ \A g \in Frame : MapsBit(p, g) = IF g = f THEN 1 ELSE 0
      BY <1>4 DEF HoldsBit, Holds, MapsBit, Maps, f
    <3> QED
      BY <2>3, <3>1, Bits, PteKinds
  <2> HIDE DEF q
  <2>12. n1 = Moved(n, p, q)
    BY <1>0, <2>11 DEF Moved, n1
  <2>13. RefsMoved(s, u, p, q)
    BY <1>0, <2>3, <2>6, <2>9, <2>11 DEF RefsMoved
  <2>14. u \in MemType /\ u.pte = s.pte /\ u.sh = s.sh
         /\ Booked(u, Moved(n, p, q), H)
    BY <2>3, <2>6, <2>8, <2>10, <2>12
  <2>15. /\ MemInv(s2, H) /\ OnlyPte(s, s2, m, a) /\ s2.pte[m][a] = q
    BY <1>0, <2>11, <2>13, <2>14, PteSetInv DEF p, n
  <2> HIDE DEF s2
  <2>16. SwappedOnly(s, s2)
    BY <1>4, <2>11, <2>15 DEF SwappedOnly, OnlyPte, p
  <2>17. CASE ~(a \in Shared /\ s2.ref[p.f] = 1 /\ s2.sh[a].k = "page")
    <3>1. o.mem = s2 /\ o.n = 1
      BY <2>1, <2>17
    <3> QED
      BY <2>15, <2>16, <3>1 DEF o
  <2>18. CASE a \in Shared /\ s2.ref[p.f] = 1 /\ s2.sh[a].k = "page"
    <3> DEFINE s3 == ShmemInsertEntry(s2, a, x)
    <3>1. o.mem = s3 /\ o.n = 1
      BY <2>1, <2>18
    <3>2. Holders(s2)[x] > 0
      <4>1. s2 \in MemType /\ Holds(s2.pte[m][a], x)
        BY <2>11, <2>15 DEF Holds, MemInv
      <4> QED
        BY <2>3, <4>1, InTableCounted
    <3>3. MemInv(s3, H) /\ SwappedOnly(s2, s3)
      BY <2>3, <2>15, <2>18, <3>2, ShmemInsertEntryInv
    <3> HIDE DEF s3
    <3>4. SwappedOnly(s, s3)
      BY <2>16, <3>3 DEF SwappedOnly
    <3> QED
      BY <3>1, <3>3, <3>4 DEF o
  <2> QED
    BY <2>17, <2>18
<1> QED
  BY <1>2, <1>3, <1>4

-----------------------------------------------------------------------------
(* exit_mmap: the entries of an address space, one after the other. *)

Good(H) == {x \in MemType : MemInv(x, H)}

ExitPages(s, m) ==
  FoldLeft(LAMBDA r, a : PageRemove(r, m, a), s, [a \in Addr |-> a])

LEMMA ExitPagesLoop ==
  ASSUME NEW s, NEW H, MemInv(s, H), NEW m \in Mm
  PROVE  \E g \in [0 .. Cardinality(Addr) -> Good(H)] :
            /\ g[0] = s /\ g[Cardinality(Addr)] = ExitPages(s, m)
            /\ \A k \in Addr : g[k] = PageRemove(g[k - 1], m, k)
<1> DEFINE n == Cardinality(Addr)
           q == [a \in Addr |-> a]
           T == Good(H)
           F == [i \in 1 .. n |-> [x \in T |-> PageRemove(x, m, i)]]
           E(h) == h = [i \in SUBSET DOMAIN q |->
                          IF i = {} THEN s
                          ELSE PageRemove(h[i \ {Max(i)}], m, q[Max(i)])]
           c == CHOOSE h : E(h)
<1>1. n \in Nat /\ Addr = 1 .. n /\ DOMAIN q = 1 .. n
  BY SwapMemAssumption, FS_CardinalityType
<1>2. ExitPages(s, m) = c[DOMAIN q]
  <2> HIDE DEF E
  <2> QED
    BY Zenon DEF ExitPages, E, FoldLeft, MapThenFoldSet
<1>3. \A i \in 1 .. n, x \in T : PageRemove(x, m, i) \in T
  <2>1. \A i \in 1 .. n, x \in T : MemInv(PageRemove(x, m, i), H)
    BY <1>1, PageRemoveInv DEF Good
  <2> QED
    BY <2>1 DEF Good, MemInv
<1>4. s \in T
  BY DEF Good, MemInv
<1>5. F \in [1 .. n -> [T -> T]]
  BY <1>3
<1>6. \A i \in 1 .. n, x \in T : F[i][x] = PageRemove(x, m, i)
  OBVIOUS
<1>7. \A i \in 1 .. n : q[i] = i
  BY <1>1
<1> HIDE DEF n, T, F, q
<1>8. PICK h : FoldsBy(h, n, T, s, F)
  BY <1>1, <1>4, <1>5, FoldFunctionExists
<1>9. E(h)
  <2> DEFINE rhs == [i \in SUBSET DOMAIN q |->
                       IF i = {} THEN s
                       ELSE PageRemove(h[i \ {Max(i)}], m, q[Max(i)])]
  <2>1. ASSUME NEW i \in SUBSET (1 .. n)
        PROVE  h[i] = IF i = {} THEN s
                      ELSE PageRemove(h[i \ {Max(i)}], m, q[Max(i)])
    <3>1. i # {} => Max(i) \in 1 .. n
      BY <1>1, MaxInIndices
    <3>2. i # {} => i \ {Max(i)} \in SUBSET (1 .. n)
      OBVIOUS
    <3>3. /\ h \in [SUBSET (1 .. n) -> T]
          /\ h[i] = IF i = {} THEN s ELSE F[Max(i)][h[i \ {Max(i)}]]
      BY <1>8 DEF FoldsBy
    <3> QED
      BY <1>6, <1>7, <3>1, <3>2, <3>3
  <2>2. h \in [SUBSET (1 .. n) -> T]
    BY <1>8 DEF FoldsBy
  <2>3. /\ rhs = [i \in SUBSET (1 .. n) |-> rhs[i]]
        /\ \A i \in SUBSET (1 .. n) :
              rhs[i] = IF i = {} THEN s
                       ELSE PageRemove(h[i \ {Max(i)}], m, q[Max(i)])
    BY <1>1
  <2> HIDE DEF rhs
  <2>4. h = rhs
    BY <2>1, <2>2, <2>3
  <2> QED
    BY <2>4 DEF rhs
<1> HIDE DEF E
<1>10. E(c)
  BY <1>9
<1> HIDE DEF c
<1>11. c[{}] = s
  BY <1>10 DEF E
<1>12. ASSUME NEW k \in 1 .. n, c[1 .. k - 1] \in T
       PROVE  c[1 .. k] = F[k][c[1 .. k - 1]]
  <2>0. k \in Nat /\ k # 0
    BY <1>1
  <2>1. 1 .. k # {} /\ Max(1 .. k) = k /\ (1 .. k) \ {k} = 1 .. k - 1
    BY <2>0, Indices
  <2>2. 1 .. k \in SUBSET DOMAIN q
    BY <1>1
  <2>3. c[1 .. k] = PageRemove(c[(1 .. k) \ {Max(1 .. k)}], m, q[Max(1 .. k)])
    BY <1>10, <2>1, <2>2 DEF E
  <2>4. c[1 .. k] = PageRemove(c[1 .. k - 1], m, k)
    BY <1>7, <2>1, <2>3
  <2> QED
    BY <1>6, <1>12, <2>4
<1> DEFINE g == [k \in 0 .. n |-> c[1 .. k]]
<1>13. LoopsBy(g, n, T, s, F)
  BY <1>1, <1>4, <1>5, <1>11, <1>12, FoldValues
<1>14. g[n] = ExitPages(s, m)
  BY <1>1, <1>2
<1> HIDE DEF g
<1>15. /\ g \in [0 .. n -> T] /\ g[0] = s
       /\ \A k \in 1 .. n : g[k] = F[k][g[k - 1]]
  BY <1>13 DEF LoopsBy
<1>16. \A k \in 1 .. n : g[k] = PageRemove(g[k - 1], m, k)
  BY <1>1, <1>6, <1>15
<1> QED
  BY <1>1, <1>14, <1>15, <1>16 DEF n, T

\* shmem_destroy: the entries of the shared object.
ExitShared(s) ==
  FoldLeft(LAMBDA r, a : [RemovePte(r, r.sh[a]) EXCEPT !.sh[a] = NoPte],
           s, SetToSeq(Shared))

LEMMA ExitSharedLoop ==
  ASSUME NEW s, NEW H, MemInv(s, H)
  PROVE  \E g \in [0 .. Cardinality(Shared) -> Good(H)] :
            /\ g[0] = s /\ g[Cardinality(Shared)] = ExitShared(s)
            /\ \A k \in 1 .. Cardinality(Shared) : g[k] = ShRemove(g[k - 1], SetToSeq(Shared)[k])
<1> DEFINE n == Cardinality(Shared)
           q == SetToSeq(Shared)
           T == Good(H)
           b == s
           F == [i \in 1 .. n |-> [x \in T |-> ShRemove(x, q[i])]]
           E(h) == h = [i \in SUBSET DOMAIN q |->
                          IF i = {} THEN b
                          ELSE ShRemove(h[i \ {Max(i)}], q[Max(i)])]
           c == CHOOSE h : E(h)
<1>1. n \in Nat /\ DOMAIN q = 1 .. n
  BY FiniteTables, FS_CardinalityType, SetToSeqLists
<1>2. ExitShared(s) = c[DOMAIN q]
  <2> HIDE DEF E
  <2> QED
    BY Zenon DEF ExitShared, ShRemove, E, FoldLeft, MapThenFoldSet
<1>3. \A i \in 1 .. n, x \in T : ShRemove(x, q[i]) \in T
  <2>1. \A i \in 1 .. n : q[i] \in Shared
    BY FiniteTables, SetToSeqLists
  <2>2. \A i \in 1 .. n, x \in T : MemInv(ShRemove(x, q[i]), H)
    BY <2>1, ShRemoveInv DEF Good
  <2> QED
    BY <2>2 DEF Good, MemInv
<1>4. b \in T
  BY DEF Good, MemInv
<1>5. F \in [1 .. n -> [T -> T]]
  BY <1>3
<1>6. \A i \in 1 .. n, x \in T : F[i][x] = ShRemove(x, q[i])
  OBVIOUS
<1>7. \A h : E(h) => h[{}] = b
  BY Zenon
<1> HIDE DEF n, T, F, q, b
<1>8. PICK h : FoldsBy(h, n, T, b, F)
  BY <1>1, <1>4, <1>5, FoldFunctionExists
<1>9. E(h)
  <2> DEFINE rhs == [i \in SUBSET DOMAIN q |->
                       IF i = {} THEN b
                       ELSE ShRemove(h[i \ {Max(i)}], q[Max(i)])]
  <2>1. ASSUME NEW i \in SUBSET (1 .. n)
        PROVE  h[i] = IF i = {} THEN b
                      ELSE ShRemove(h[i \ {Max(i)}], q[Max(i)])
    <3>1. i # {} => Max(i) \in 1 .. n
      BY <1>1, MaxInIndices
    <3>2. i # {} => i \ {Max(i)} \in SUBSET (1 .. n)
      OBVIOUS
    <3>3. /\ h \in [SUBSET (1 .. n) -> T]
          /\ h[i] = IF i = {} THEN b ELSE F[Max(i)][h[i \ {Max(i)}]]
      BY <1>8 DEF FoldsBy
    <3> QED
      BY <1>6, <3>1, <3>2, <3>3
  <2>2. h \in [SUBSET (1 .. n) -> T]
    BY <1>8 DEF FoldsBy
  <2>3. /\ rhs = [i \in SUBSET (1 .. n) |-> rhs[i]]
        /\ \A i \in SUBSET (1 .. n) :
              rhs[i] = IF i = {} THEN b
                       ELSE ShRemove(h[i \ {Max(i)}], q[Max(i)])
    BY <1>1
  <2> HIDE DEF rhs
  <2>4. h = rhs
    BY <2>1, <2>2, <2>3
  <2> QED
    BY <2>4 DEF rhs
<1> HIDE DEF E
<1>10. E(c)
  BY <1>9
<1> HIDE DEF c
<1>11. c[{}] = b
  BY <1>7, <1>10
<1>12. ASSUME NEW k \in 1 .. n, c[1 .. k - 1] \in T
       PROVE  c[1 .. k] = F[k][c[1 .. k - 1]]
  <2>0. k \in Nat /\ k # 0
    BY <1>1
  <2>1. 1 .. k # {} /\ Max(1 .. k) = k /\ (1 .. k) \ {k} = 1 .. k - 1
    BY <2>0, Indices
  <2>2. 1 .. k \in SUBSET DOMAIN q
    BY <1>1
  <2> DEFINE i == 1 .. k
  <2> HIDE DEF i
  <2>3. c[i] = ShRemove(c[i \ {Max(i)}], q[Max(i)])
    BY <1>10, <2>1, <2>2 DEF E, i
  <2>4. c[1 .. k] = ShRemove(c[1 .. k - 1], q[k])
    BY <2>1, <2>3 DEF i
  <2> QED
    BY <1>6, <1>12, <2>4
<1> DEFINE g == [k \in 0 .. n |-> c[1 .. k]]
<1>13. LoopsBy(g, n, T, b, F)
  BY <1>1, <1>4, <1>5, <1>11, <1>12, FoldValues
<1>14. g[n] = ExitShared(s)
  BY <1>1, <1>2
<1> HIDE DEF g
<1>15. /\ g \in [0 .. n -> T] /\ g[0] = b
       /\ \A k \in 1 .. n : g[k] = F[k][g[k - 1]]
  BY <1>13 DEF LoopsBy
<1>16. \A k \in 1 .. n : g[k] = ShRemove(g[k - 1], q[k])
  BY <1>1, <1>6, <1>15
<1> QED
  BY <1>14, <1>15, <1>16 DEF n, T, b, q

LEMMA ExitPagesInv ==
  ASSUME NEW s, NEW H, MemInv(s, H), NEW m \in Mm
  PROVE  /\ MemInv(ExitPages(s, m), H) /\ ExitPages(s, m).sh = s.sh
         /\ \A a \in Addr : ExitPages(s, m).pte[m][a] = NoPte
         /\ \A i \in Mm, a \in Addr :
               i # m => ExitPages(s, m).pte[i][a] = s.pte[i][a]
<1> DEFINE n == Cardinality(Addr)
<1>1. n \in Nat /\ Addr = 1 .. n
  BY SwapMemAssumption, FS_CardinalityType
<1>2. PICK g \in [0 .. n -> Good(H)] :
         /\ g[0] = s /\ g[n] = ExitPages(s, m)
         /\ \A k \in Addr : g[k] = PageRemove(g[k - 1], m, k)
  BY ExitPagesLoop
<1> HIDE DEF n
<1> DEFINE S == {k \in 0 .. n :
                   /\ g[k].sh = s.sh
                   /\ \A a \in Addr : a <= k => g[k].pte[m][a] = NoPte
                   /\ \A i \in Mm, a \in Addr : i # m => g[k].pte[i][a] = s.pte[i][a]}
<1>3. 0 \in S
  BY <1>1, <1>2
<1>4. ASSUME NEW k \in 1 .. n, k - 1 \in S
      PROVE  k \in S
  <2> DEFINE x == g[k - 1]
             y == g[k]
  <2>1. k \in Addr /\ x \in Good(H) /\ y = PageRemove(x, m, k)
    BY <1>1, <1>2
  <2>2. MemInv(x, H)
    BY <2>1 DEF Good
  <2> HIDE DEF x
  <2>3. /\ OnlyPte(x, y, m, k) /\ y.pte[m][k] = NoPte
    <3> HIDE DEF y
    <3>1. /\ OnlyPte(x, PageRemove(x, m, k), m, k)
          /\ PageRemove(x, m, k).pte[m][k] = NoPte
      BY <2>1, <2>2, PageRemoveInv
    <3> QED
      BY <2>1, <3>1
  <2>4. /\ x.sh = s.sh
        /\ \A a \in Addr : a <= k - 1 => x.pte[m][a] = NoPte
        /\ \A i \in Mm, a \in Addr : i # m => x.pte[i][a] = s.pte[i][a]
    BY <1>4 DEF x
  <2> HIDE DEF y
  <2>5. /\ y.sh = s.sh
        /\ \A a \in Addr : a <= k => y.pte[m][a] = NoPte
        /\ \A i \in Mm, a \in Addr : i # m => y.pte[i][a] = s.pte[i][a]
    <3>1. \A a \in Addr : a <= k /\ a # k => a <= k - 1
      BY <1>1
    <3> QED
      BY <2>1, <2>3, <2>4, <3>1 DEF OnlyPte
  <2> QED
    BY <2>5 DEF y
<1> HIDE DEF S
<1>5. \A k \in 0 .. n : k \in S
  BY <1>1, <1>3, <1>4, UpToInduction
<1>6. n \in S /\ g[n] \in Good(H)
  BY <1>1, <1>5
<1> QED
  BY <1>1, <1>2, <1>6 DEF S, Good

LEMMA ExitSharedInv ==
  ASSUME NEW s, NEW H, MemInv(s, H)
  PROVE  /\ MemInv(ExitShared(s), H) /\ ExitShared(s).pte = s.pte
         /\ \A b \in Shared : s.sh[b] = NoPte => ExitShared(s).sh[b] = NoPte
<1> DEFINE n == Cardinality(Shared)
           q == SetToSeq(Shared)
<1>1. n \in Nat /\ \A k \in 1 .. n : q[k] \in Shared
  BY FiniteTables, FS_CardinalityType, SetToSeqLists
<1>2. PICK g \in [0 .. n -> Good(H)] :
         /\ g[0] = s /\ g[n] = ExitShared(s)
         /\ \A k \in 1 .. n : g[k] = ShRemove(g[k - 1], q[k])
  BY ExitSharedLoop
<1> HIDE DEF n, q
<1> DEFINE S == {k \in 0 .. n :
                   /\ g[k].pte = s.pte
                   /\ \A b \in Shared : s.sh[b] = NoPte => g[k].sh[b] = NoPte}
<1>3. 0 \in S
  BY <1>1, <1>2
<1>4. ASSUME NEW k \in 1 .. n, k - 1 \in S
      PROVE  k \in S
  <2> DEFINE x == g[k - 1]
             y == g[k]
             a == q[k]
  <2>1. a \in Shared /\ x \in Good(H) /\ y = ShRemove(x, a)
    BY <1>1, <1>2
  <2>2. MemInv(x, H)
    BY <2>1 DEF Good
  <2> HIDE DEF x, a
  <2>3. /\ y.pte = x.pte /\ y.sh[a] = NoPte
        /\ \A b \in Shared : b # a => y.sh[b] = x.sh[b]
    <3> HIDE DEF y
    <3>1. /\ ShRemove(x, a).pte = x.pte /\ ShRemove(x, a).sh[a] = NoPte
          /\ \A b \in Shared : b # a => ShRemove(x, a).sh[b] = x.sh[b]
      BY <2>1, <2>2, ShRemoveInv
    <3> QED
      BY <2>1, <3>1
  <2>4. x.pte = s.pte /\ \A b \in Shared : s.sh[b] = NoPte => x.sh[b] = NoPte
    BY <1>4 DEF x
  <2> HIDE DEF y
  <2>5. y.pte = s.pte /\ \A b \in Shared : s.sh[b] = NoPte => y.sh[b] = NoPte
    BY <2>3, <2>4
  <2> QED
    BY <2>5 DEF y
<1> HIDE DEF S
<1>5. \A k \in 0 .. n : k \in S
  BY <1>1, <1>3, <1>4, UpToInduction
<1>6. n \in S /\ g[n] \in Good(H)
  BY <1>1, <1>5
<1> QED
  BY <1>1, <1>2, <1>6 DEF S, Good

\* exit_mmap, with or without the end of the shared object.
LEMMA ExitMmapInv ==
  ASSUME NEW s, NEW H, MemInv(s, H), NEW m \in Mm, NEW last
  PROVE  /\ MemInv(ExitMmap(s, m, last), H)
         /\ \A a \in Addr : ExitMmap(s, m, last).pte[m][a] = NoPte
         /\ \A i \in Mm, a \in Addr :
               i # m => ExitMmap(s, m, last).pte[i][a] = s.pte[i][a]
         /\ \A b \in Shared :
               s.sh[b] = NoPte => ExitMmap(s, m, last).sh[b] = NoPte
<1> DEFINE s1 == ExitPages(s, m)
<1>1. ExitMmap(s, m, last) = IF ~last THEN s1 ELSE ExitShared(s1)
  BY Zenon DEF ExitMmap, ExitPages, ExitShared
<1>2. /\ MemInv(s1, H) /\ s1.sh = s.sh
      /\ \A a \in Addr : s1.pte[m][a] = NoPte
      /\ \A i \in Mm, a \in Addr : i # m => s1.pte[i][a] = s.pte[i][a]
  BY ExitPagesInv
<1> HIDE DEF s1
<1>3. /\ MemInv(ExitShared(s1), H) /\ ExitShared(s1).pte = s1.pte
      /\ \A b \in Shared : s1.sh[b] = NoPte => ExitShared(s1).sh[b] = NoPte
  BY <1>2, ExitSharedInv
<1>4. CASE ~last
  BY <1>1, <1>2, <1>4
<1>5. CASE last
  <2>1. ExitMmap(s, m, last) = ExitShared(s1)
    BY <1>1, <1>5
  <2> QED
    BY <1>2, <1>3, <2>1
<1> QED
  BY <1>4, <1>5

-----------------------------------------------------------------------------
(* swap_out_mm and page_launder. *)

Visits(from) ==
  [i \in 1 .. Cardinality(Addr) + 1 |-> ((from + i - 2) % Cardinality(Addr)) + 1]

LEMMA VisitsAddr ==
  ASSUME NEW from \in Addr
  PROVE  /\ Cardinality(Addr) + 1 \in Nat
         /\ DOMAIN Visits(from) = 1 .. Cardinality(Addr) + 1
         /\ \A i \in 1 .. Cardinality(Addr) + 1 : Visits(from)[i] \in Addr
<1> DEFINE n == Cardinality(Addr)
<1>1. n \in Nat \ {0} /\ Addr = 1 .. n
  BY SwapMemAssumption, FS_CardinalityType, FS_EmptySet
<1> HIDE DEF n
<1>2. \A i \in 1 .. n + 1 : ((from + i - 2) % n) + 1 \in 1 .. n
  BY <1>1
<1> QED
  BY <1>1, <1>2 DEF Visits, n

OutStep(r, a, m, require, hot, start) ==
  IF r.n = require \/ a \in hot THEN r
  ELSE [mem |-> SwapOutPage(r.mem, m, a, start).mem,
        n |-> r.n + SwapOutPage(r.mem, m, a, start).n]

\* What swap_out_mm has done to s so far.
OutSet(s, H) ==
  {x \in [mem : Good(H), n : Nat] : SwappedOnly(s, x.mem)}

LEMMA OutStepInv ==
  ASSUME NEW s, NEW H, NEW r \in OutSet(s, H), NEW m \in Mm, NEW a \in Addr,
         NEW require, NEW hot, NEW start \in Entry
  PROVE  OutStep(r, a, m, require, hot, start) \in OutSet(s, H)
<1> DEFINE x == r.mem
           o == SwapOutPage(x, m, a, start)
<1>1. /\ x \in Good(H) /\ r.n \in Nat /\ SwappedOnly(s, x) /\ MemInv(x, H)
  BY DEF OutSet, Good
<1> HIDE DEF x
<1>2. /\ MemInv(o.mem, H) /\ SwappedOnly(x, o.mem) /\ o.n \in {0, 1}
  BY <1>1, SwapOutPageInv
<1> DEFINE y == o.mem
           k == o.n
<1>3. OutStep(r, a, m, require, hot, start) = r
      \/ OutStep(r, a, m, require, hot, start) = [mem |-> y, n |-> r.n + k]
  BY DEF OutStep, x
<1> HIDE DEF o
<1>4. y \in Good(H) /\ r.n + k \in Nat
  BY <1>1, <1>2 DEF Good, MemInv
<1>5. SwappedOnly(s, y)
  BY <1>1, <1>2 DEF SwappedOnly
<1> HIDE DEF y, k
<1>6. [mem |-> y, n |-> r.n + k] \in OutSet(s, H)
  BY <1>4, <1>5 DEF OutSet
<1> QED
  BY <1>3, <1>6

LEMMA SwapOutMmLoop ==
  ASSUME NEW s, NEW H, MemInv(s, H), NEW m \in Mm, NEW from \in Addr,
         NEW require, NEW hot, NEW start \in Entry
  PROVE  SwapOutMm(s, m, require, hot, from, start) \in OutSet(s, H)
<1> DEFINE n == Cardinality(Addr) + 1
           q == Visits(from)
           T == OutSet(s, H)
           b == [mem |-> s, n |-> 0]
           F == [i \in 1 .. n |-> [x \in T |-> OutStep(x, q[i], m, require, hot, start)]]
           E(h) == h = [i \in SUBSET DOMAIN q |->
                          IF i = {} THEN b
                          ELSE OutStep(h[i \ {Max(i)}], q[Max(i)], m, require, hot, start)]
           c == CHOOSE h : E(h)
<1>1. n \in Nat /\ DOMAIN q = 1 .. n
  BY VisitsAddr
<1>2. SwapOutMm(s, m, require, hot, from, start) = c[DOMAIN q]
  <2> HIDE DEF E
  <2> QED
    BY Zenon DEF SwapOutMm, OutStep, Visits, E, FoldLeft, MapThenFoldSet
<1>3. \A i \in 1 .. n, x \in T : OutStep(x, q[i], m, require, hot, start) \in T
  BY VisitsAddr, OutStepInv
<1>4. b \in T
  <2>1. s \in Good(H) /\ SwappedOnly(s, s)
    BY DEF Good, MemInv, SwappedOnly
  <2> QED
    BY <2>1 DEF OutSet
<1>5. F \in [1 .. n -> [T -> T]]
  BY <1>3
<1>6. \A i \in 1 .. n, x \in T :
         F[i][x] = OutStep(x, q[i], m, require, hot, start)
  OBVIOUS
<1>7. \A h : E(h) => h[{}] = b
  BY Zenon
<1> HIDE DEF n, T, F, q, b
<1>8. PICK h : FoldsBy(h, n, T, b, F)
  BY <1>1, <1>4, <1>5, FoldFunctionExists
<1>9. E(h)
  <2> DEFINE rhs == [i \in SUBSET DOMAIN q |->
                       IF i = {} THEN b
                       ELSE OutStep(h[i \ {Max(i)}], q[Max(i)], m, require, hot, start)]
  <2>1. ASSUME NEW i \in SUBSET (1 .. n)
        PROVE  h[i] = IF i = {} THEN b
                      ELSE OutStep(h[i \ {Max(i)}], q[Max(i)], m, require, hot, start)
    <3>1. i # {} => Max(i) \in 1 .. n
      BY <1>1, MaxInIndices
    <3>2. i # {} => i \ {Max(i)} \in SUBSET (1 .. n)
      OBVIOUS
    <3>3. /\ h \in [SUBSET (1 .. n) -> T]
          /\ h[i] = IF i = {} THEN b ELSE F[Max(i)][h[i \ {Max(i)}]]
      BY <1>8 DEF FoldsBy
    <3> QED
      BY <1>6, <3>1, <3>2, <3>3
  <2>2. h \in [SUBSET (1 .. n) -> T]
    BY <1>8 DEF FoldsBy
  <2>3. /\ rhs = [i \in SUBSET (1 .. n) |-> rhs[i]]
        /\ \A i \in SUBSET (1 .. n) :
              rhs[i] = IF i = {} THEN b
                       ELSE OutStep(h[i \ {Max(i)}], q[Max(i)], m, require, hot, start)
    BY <1>1
  <2> HIDE DEF rhs
  <2>4. h = rhs
    BY <2>1, <2>2, <2>3
  <2> QED
    BY <2>4 DEF rhs
<1> HIDE DEF E
<1>10. E(c)
  BY <1>9
<1> HIDE DEF c
<1>11. c[{}] = b
  BY <1>7, <1>10
<1>12. ASSUME NEW k \in 1 .. n, c[1 .. k - 1] \in T
       PROVE  c[1 .. k] = F[k][c[1 .. k - 1]]
  <2>0. k \in Nat /\ k # 0
    BY <1>1
  <2>1. 1 .. k # {} /\ Max(1 .. k) = k /\ (1 .. k) \ {k} = 1 .. k - 1
    BY <2>0, Indices
  <2>2. 1 .. k \in SUBSET DOMAIN q
    BY <1>1
  <2> DEFINE i == 1 .. k
  <2> HIDE DEF i
  <2>3. c[i] = OutStep(c[i \ {Max(i)}], q[Max(i)], m, require, hot, start)
    BY <1>10, <2>1, <2>2 DEF E, i
  <2>4. c[1 .. k] = OutStep(c[1 .. k - 1], q[k], m, require, hot, start)
    BY <2>1, <2>3 DEF i
  <2> QED
    BY <1>6, <1>12, <2>4
<1> DEFINE g == [k \in 0 .. n |-> c[1 .. k]]
<1>13. LoopsBy(g, n, T, b, F)
  BY <1>1, <1>4, <1>5, <1>11, <1>12, FoldValues
<1>14. g[n] = SwapOutMm(s, m, require, hot, from, start)
  BY <1>1, <1>2
<1> HIDE DEF g
<1>15. g \in [0 .. n -> T]
  BY <1>13 DEF LoopsBy
<1> QED
  BY <1>1, <1>14, <1>15 DEF T

LEMMA SwapOutMmInv ==
  ASSUME NEW s, NEW H, MemInv(s, H), NEW m \in Mm, NEW from \in Addr,
         NEW require, NEW hot, NEW start \in Entry
  PROVE  /\ MemInv(SwapOutMm(s, m, require, hot, from, start).mem, H)
         /\ SwappedOnly(s, SwapOutMm(s, m, require, hot, from, start).mem)
         /\ SwapOutMm(s, m, require, hot, from, start).n \in Nat
<1> DEFINE r == SwapOutMm(s, m, require, hot, from, start)
<1>1. r \in OutSet(s, H)
  BY SwapOutMmLoop
<1> HIDE DEF r
<1> QED
  BY <1>1 DEF OutSet, Good, r

LEMMA SetActive ==
  ASSUME NEW s \in MemType, NEW A \in SUBSET Frame
  PROVE  LET r == [s EXCEPT !.active = A] IN
         /\ r \in MemType /\ r.pte = s.pte /\ r.sh = s.sh /\ r.map = s.map
         /\ r.cache = s.cache /\ r.free = s.free /\ r.ref = s.ref
BY DEF MemType

LEMMA SetDisk ==
  ASSUME NEW s \in MemType, NEW D \in [Entry -> Val]
  PROVE  LET r == [s EXCEPT !.disk = D] IN
         /\ r \in MemType /\ r.pte = s.pte /\ r.sh = s.sh /\ r.map = s.map
         /\ r.cache = s.cache /\ r.free = s.free /\ r.ref = s.ref
BY DEF MemType

\* The outcomes of page_launder for a page: it stays, or it is freed, and its
\* swap entry with it if nobody refers to that.
LEMMA LaunderPageCases ==
  ASSUME NEW s \in MemType, NEW f \in Frame, NEW bad
  PROVE  LET r == LaunderPage(s, f, bad) IN
         /\ r \in MemType /\ r.pte = s.pte /\ r.sh = s.sh
         /\ \/ /\ r.map = s.map /\ r.cache = s.cache
               /\ r.free = s.free /\ r.ref = s.ref
            \/ /\ s.ref[f] = 0
               /\ r.map = IF s.map[s.cache[f]] = 0
                          THEN [s.map EXCEPT ![s.cache[f]] = Unused] ELSE s.map
               /\ r.cache = [s.cache EXCEPT ![f] = NoEntry]
               /\ r.ref = [s.ref EXCEPT ![f] = 0]
               /\ r.free = s.free \cup {f}
<1> DEFINE e == s.cache[f]
           v == [s.map EXCEPT ![e] = Unused]
           D == [s.disk EXCEPT ![e] = s.data[f]]
           A == s.active \cup {f}
           s1 == [s EXCEPT !.map = v]
           s2 == [s EXCEPT !.disk = D]
           s3 == [s EXCEPT !.active = A]
           r == LaunderPage(s, f, bad)
<1>1. /\ [s EXCEPT !.map[e] = Unused] = s1
      /\ [s EXCEPT !.disk[e] = s.data[f]] = s2
      /\ [s EXCEPT !.active = @ \cup {f}] = s3
  BY DEF MemType
<1>2. r = IF s.ref[f] # 0 THEN s3
          ELSE IF s.map[e] = 0 THEN SwapFreePage(s1, f)
          ELSE IF f \notin s.dirty THEN SwapFreePage(s, f)
          ELSE IF f \in bad THEN s
          ELSE SwapFreePage(s2, f)
  BY <1>1 DEF LaunderPage
<1>3. /\ v \in [Entry -> Int] /\ D \in [Entry -> Val] /\ A \in SUBSET Frame
  <2>1. /\ s.map \in [Entry -> Int] /\ s.disk \in [Entry -> Val]
        /\ s.data[f] \in Val /\ s.active \in SUBSET Frame /\ Unused \in Int
    BY DEF MemType, Unused
  <2> QED
    BY <2>1
<1> HIDE DEF v, D, A, e, r
<1>4. /\ s1 \in MemType /\ s1.pte = s.pte /\ s1.sh = s.sh /\ s1.ref = s.ref
      /\ s1.cache = s.cache /\ s1.free = s.free /\ s1.map = v
  BY <1>3, SetMap
<1>5. /\ s2 \in MemType /\ s2.pte = s.pte /\ s2.sh = s.sh /\ s2.ref = s.ref
      /\ s2.cache = s.cache /\ s2.free = s.free /\ s2.map = s.map
  BY <1>3, SetDisk
<1>6. /\ s3 \in MemType /\ s3.pte = s.pte /\ s3.sh = s.sh /\ s3.ref = s.ref
      /\ s3.cache = s.cache /\ s3.free = s.free /\ s3.map = s.map
  BY <1>3, SetActive
<1> HIDE DEF s1, s2, s3
<1>7. \A x \in MemType :
         /\ SwapFreePage(x, f) \in MemType
         /\ SwapFreePage(x, f).pte = x.pte /\ SwapFreePage(x, f).sh = x.sh
         /\ SwapFreePage(x, f).cache = [x.cache EXCEPT ![f] = NoEntry]
         /\ SwapFreePage(x, f).map = x.map
         /\ SwapFreePage(x, f).ref = [x.ref EXCEPT ![f] = 0]
         /\ SwapFreePage(x, f).free = x.free \cup {f}
  BY SwapFreePageFields
<1>8. CASE s.ref[f] # 0
  BY <1>2, <1>6, <1>8 DEF r
<1>9. CASE s.ref[f] = 0 /\ s.map[e] = 0
  <2>1. r = SwapFreePage(s1, f)
    BY <1>2, <1>9
  <2> QED
    BY <1>4, <1>7, <1>9, <2>1 DEF r, v, e
<1>10. CASE s.ref[f] = 0 /\ s.map[e] # 0
  <2>1. CASE r = SwapFreePage(s, f)
    BY <1>7, <1>10, <2>1 DEF r, e
  <2>2. CASE r = s
    BY <2>2 DEF r
  <2>3. CASE r = SwapFreePage(s2, f)
    BY <1>5, <1>7, <1>10, <2>3 DEF r, e
  <2> QED
    BY <1>2, <1>10, <2>1, <2>2, <2>3
<1> QED
  BY <1>8, <1>9, <1>10

LEMMA LaunderPageInv ==
  ASSUME NEW s, NEW H, MemInv(s, H), NEW f \in Frame, s.cache[f] # NoEntry, NEW bad
  PROVE  /\ MemInv(LaunderPage(s, f, bad), H)
         /\ LaunderPage(s, f, bad).pte = s.pte /\ LaunderPage(s, f, bad).sh = s.sh
         /\ s.free \subseteq LaunderPage(s, f, bad).free
         /\ \A g \in Frame : g # f => LaunderPage(s, f, bad).cache[g] = s.cache[g]
<1> DEFINE r == LaunderPage(s, f, bad)
           n == Holders(s)
           x == s.cache[f]
<1>1. /\ s \in MemType /\ Counted(s) /\ Booked(s, n, H)
      /\ s.ref \in [Frame -> Int] /\ s.cache \in [Frame -> Entry \cup {NoEntry}]
      /\ s.map \in [Entry -> Int] /\ n \in [Entry -> Nat] /\ x \in Entry
  BY HoldersType DEF MemInv, MemType
<1>2. /\ r \in MemType /\ r.pte = s.pte /\ r.sh = s.sh
      /\ \/ /\ r.map = s.map /\ r.cache = s.cache
            /\ r.free = s.free /\ r.ref = s.ref
         \/ /\ s.ref[f] = 0
            /\ r.map = IF s.map[x] = 0 THEN [s.map EXCEPT ![x] = Unused] ELSE s.map
            /\ r.cache = [s.cache EXCEPT ![f] = NoEntry]
            /\ r.ref = [s.ref EXCEPT ![f] = 0]
            /\ r.free = s.free \cup {f}
  BY <1>1, LaunderPageCases
<1>0. x = s.cache[f] /\ x # NoEntry
  OBVIOUS
<1> HIDE DEF r, n, x
<1>3. CASE /\ r.map = s.map /\ r.cache = s.cache
           /\ r.free = s.free /\ r.ref = s.ref
  <2>1. Holders(r) = n /\ Counted(r)
    BY <1>1, <1>2, <1>3, SameTables DEF Counted, n
  <2>2. Booked(r, n, H)
    BY <1>1, <1>3, BookedSame
  <2> QED
    BY <1>2, <1>3, <2>1, <2>2 DEF MemInv, r
<1>4. CASE /\ s.ref[f] = 0
           /\ r.map = IF s.map[x] = 0 THEN [s.map EXCEPT ![x] = Unused] ELSE s.map
           /\ r.cache = [s.cache EXCEPT ![f] = NoEntry]
           /\ r.ref = [s.ref EXCEPT ![f] = 0]
           /\ r.free = s.free \cup {f}
  <2>1. r.ref = s.ref
    BY <1>1, <1>4
  <2>2. \A g \in Frame : r.cache[g] = IF g = f THEN NoEntry ELSE s.cache[g]
    BY <1>1, <1>4
  <2>3. \A g \in Frame : s.cache[g] = x => g = f
    BY <1>0, <1>1 DEF Booked
  <2>4. f \notin H
    BY <1>0, <1>1 DEF Booked
  <2>5. s.map[x] = n[x]
    BY <1>0, <1>1 DEF Booked
  <2>6. ASSUME NEW e \in Entry
        PROVE  \/ r.map[e] = n[e] /\ n[e] > 0
               \/ r.map[e] = 0 /\ n[e] = 0 /\ \E g \in Frame : r.cache[g] = e
               \/ r.map[e] = Unused /\ n[e] = 0
                  /\ \A g \in Frame : r.cache[g] # e
    <3>1. CASE e = x
      <4>1. \A g \in Frame : r.cache[g] # x
        BY <1>0, <2>2, <2>3
      <4>2. r.map[x] = IF n[x] = 0 THEN Unused ELSE n[x]
        BY <1>1, <1>4, <2>5
      <4> QED
        BY <1>1, <3>1, <4>1, <4>2
    <3>2. CASE e # x
      <4>1. r.map[e] = s.map[e]
        BY <1>1, <1>4, <3>2
      <4>2. \A g \in Frame : r.cache[g] = e <=> s.cache[g] = e
        BY <1>0, <2>2, <3>2, EntryPositive
      <4> QED
        BY <1>1, <4>1, <4>2 DEF Booked
    <3> QED
      BY <3>1, <3>2
  <2>7. Booked(r, n, H)
    <3>1. \A g, i \in Frame :
             r.cache[g] = r.cache[i] /\ r.cache[g] # NoEntry => g = i
      BY <1>1, <2>2 DEF Booked
    <3>2. \A g \in Frame :
             g \in r.free <=> r.ref[g] = 0 /\ r.cache[g] = NoEntry /\ g \notin H
      BY <1>1, <1>4, <2>1, <2>2, <2>4 DEF Booked
    <3>3. \A g \in H : g \in Frame => r.ref[g] = 0 /\ r.cache[g] = NoEntry
      BY <1>1, <2>1, <2>2, <2>4 DEF Booked
    <3>4. \A g \in Frame : r.ref[g] >= 0
      BY <1>1, <2>1 DEF Booked
    <3> QED
      BY <2>6, <3>1, <3>2, <3>3, <3>4 DEF Booked
  <2>8. Holders(r) = n /\ Counted(r)
    BY <1>1, <1>2, <2>1, SameTables DEF Counted, n
  <2> QED
    BY <1>2, <1>4, <2>2, <2>7, <2>8 DEF MemInv, r
<1> QED
  BY <1>2, <1>3, <1>4


LEMMA InactiveListed ==
  ASSUME NEW s \in MemType
  PROVE  /\ Cardinality(Inactive(s)) \in Nat
         /\ DOMAIN SetToSeq(Inactive(s)) = 1 .. Cardinality(Inactive(s))
         /\ \A i \in 1 .. Cardinality(Inactive(s)) :
               SetToSeq(Inactive(s))[i] \in Inactive(s)
         /\ \A i, j \in 1 .. Cardinality(Inactive(s)) :
               SetToSeq(Inactive(s))[i] = SetToSeq(Inactive(s))[j] => i = j
         /\ \A f \in Inactive(s) : f \in Frame /\ s.cache[f] # NoEntry
<1>1. Inactive(s) \subseteq Frame /\ \A f \in Inactive(s) : s.cache[f] # NoEntry
  BY DEF Inactive
<1>2. IsFiniteSet(Inactive(s))
  BY <1>1, SwapMemAssumption, FS_Subset
<1> DEFINE I == Inactive(s)
<1> HIDE DEF I
<1>3. /\ Cardinality(I) \in Nat
      /\ SetToSeq(I) \in [1 .. Cardinality(I) -> I]
      /\ \A i, j \in 1 .. Cardinality(I) : SetToSeq(I)[i] = SetToSeq(I)[j] => i = j
  BY <1>2, FS_CardinalityType, SetToSeqLists DEF I
<1> QED
  BY <1>1, <1>3 DEF I

LEMMA PageLaunderLoop ==
  ASSUME NEW s \in MemType, NEW bad
  PROVE  \E g \in [0 .. Cardinality(Inactive(s)) -> MemType] :
            /\ g[0] = s /\ g[Cardinality(Inactive(s))] = PageLaunder(s, bad)
            /\ \A k \in 1 .. Cardinality(Inactive(s)) : g[k] = LaunderPage(g[k - 1], SetToSeq(Inactive(s))[k], bad)
<1> DEFINE n == Cardinality(Inactive(s))
           q == SetToSeq(Inactive(s))
           T == MemType
           b == s
           F == [i \in 1 .. n |-> [x \in T |-> LaunderPage(x, q[i], bad)]]
           E(h) == h = [i \in SUBSET DOMAIN q |->
                          IF i = {} THEN b
                          ELSE LaunderPage(h[i \ {Max(i)}], q[Max(i)], bad)]
           c == CHOOSE h : E(h)
<1>1. n \in Nat /\ DOMAIN q = 1 .. n
  BY InactiveListed
<1>2. PageLaunder(s, bad) = c[DOMAIN q]
  <2> HIDE DEF E
  <2> QED
    BY Zenon DEF PageLaunder, E, FoldLeft, MapThenFoldSet
<1>3. \A i \in 1 .. n, x \in T : LaunderPage(x, q[i], bad) \in T
  <2>1. \A i \in 1 .. n : q[i] \in Frame
    BY InactiveListed
  <2> HIDE DEF q, n
  <2> QED
    BY <2>1, LaunderPageCases
<1>4. b \in T
  OBVIOUS
<1>5. F \in [1 .. n -> [T -> T]]
  BY <1>3
<1>6. \A i \in 1 .. n, x \in T : F[i][x] = LaunderPage(x, q[i], bad)
  OBVIOUS
<1>7. \A h : E(h) => h[{}] = b
  BY Zenon
<1> HIDE DEF n, T, F, q, b
<1>8. PICK h : FoldsBy(h, n, T, b, F)
  BY <1>1, <1>4, <1>5, FoldFunctionExists
<1>9. E(h)
  <2> DEFINE rhs == [i \in SUBSET DOMAIN q |->
                       IF i = {} THEN b
                       ELSE LaunderPage(h[i \ {Max(i)}], q[Max(i)], bad)]
  <2>1. ASSUME NEW i \in SUBSET (1 .. n)
        PROVE  h[i] = IF i = {} THEN b
                      ELSE LaunderPage(h[i \ {Max(i)}], q[Max(i)], bad)
    <3>1. i # {} => Max(i) \in 1 .. n
      BY <1>1, MaxInIndices
    <3>2. i # {} => i \ {Max(i)} \in SUBSET (1 .. n)
      OBVIOUS
    <3>3. /\ h \in [SUBSET (1 .. n) -> T]
          /\ h[i] = IF i = {} THEN b ELSE F[Max(i)][h[i \ {Max(i)}]]
      BY <1>8 DEF FoldsBy
    <3> QED
      BY <1>6, <3>1, <3>2, <3>3
  <2>2. h \in [SUBSET (1 .. n) -> T]
    BY <1>8 DEF FoldsBy
  <2>3. /\ rhs = [i \in SUBSET (1 .. n) |-> rhs[i]]
        /\ \A i \in SUBSET (1 .. n) :
              rhs[i] = IF i = {} THEN b
                       ELSE LaunderPage(h[i \ {Max(i)}], q[Max(i)], bad)
    BY <1>1
  <2> HIDE DEF rhs
  <2>4. h = rhs
    BY <2>1, <2>2, <2>3
  <2> QED
    BY <2>4 DEF rhs
<1> HIDE DEF E
<1>10. E(c)
  BY <1>9
<1> HIDE DEF c
<1>11. c[{}] = b
  BY <1>7, <1>10
<1>12. ASSUME NEW k \in 1 .. n, c[1 .. k - 1] \in T
       PROVE  c[1 .. k] = F[k][c[1 .. k - 1]]
  <2>0. k \in Nat /\ k # 0
    BY <1>1
  <2>1. 1 .. k # {} /\ Max(1 .. k) = k /\ (1 .. k) \ {k} = 1 .. k - 1
    BY <2>0, Indices
  <2>2. 1 .. k \in SUBSET DOMAIN q
    BY <1>1
  <2> DEFINE i == 1 .. k
  <2> HIDE DEF i
  <2>3. c[i] = LaunderPage(c[i \ {Max(i)}], q[Max(i)], bad)
    BY <1>10, <2>1, <2>2 DEF E, i
  <2>4. c[1 .. k] = LaunderPage(c[1 .. k - 1], q[k], bad)
    BY <2>1, <2>3 DEF i
  <2> QED
    BY <1>6, <1>12, <2>4
<1> DEFINE g == [k \in 0 .. n |-> c[1 .. k]]
<1>13. LoopsBy(g, n, T, b, F)
  BY <1>1, <1>4, <1>5, <1>11, <1>12, FoldValues
<1>14. g[n] = PageLaunder(s, bad)
  BY <1>1, <1>2
<1> HIDE DEF g
<1>15. /\ g \in [0 .. n -> T] /\ g[0] = b
       /\ \A k \in 1 .. n : g[k] = F[k][g[k - 1]]
  BY <1>13 DEF LoopsBy
<1>16. \A k \in 1 .. n : g[k] = LaunderPage(g[k - 1], q[k], bad)
  BY <1>1, <1>6, <1>15
<1> QED
  BY <1>14, <1>15, <1>16 DEF n, T, b, q

\* What page_launder leaves after k of the pages of the inactive list.
LEMMA PageLaunderInv ==
  ASSUME NEW s, NEW H, MemInv(s, H), NEW bad
  PROVE  /\ MemInv(PageLaunder(s, bad), H)
         /\ PageLaunder(s, bad).pte = s.pte /\ PageLaunder(s, bad).sh = s.sh
         /\ s.free \subseteq PageLaunder(s, bad).free
<1> DEFINE n == Cardinality(Inactive(s))
           q == SetToSeq(Inactive(s))
           P(x, k) == /\ MemInv(x, H) /\ x.pte = s.pte /\ x.sh = s.sh
                      /\ s.free \subseteq x.free
                      /\ \A j \in 1 .. n : j > k => x.cache[q[j]] # NoEntry
<1>1. s \in MemType
  BY DEF MemInv
<1>2. /\ n \in Nat
      /\ \A i \in 1 .. n : q[i] \in Frame /\ s.cache[q[i]] # NoEntry
      /\ \A i, j \in 1 .. n : q[i] = q[j] => i = j
  BY <1>1, InactiveListed
<1>3. PICK g \in [0 .. n -> MemType] :
         /\ g[0] = s /\ g[n] = PageLaunder(s, bad)
         /\ \A k \in 1 .. n : g[k] = LaunderPage(g[k - 1], q[k], bad)
  BY <1>1, PageLaunderLoop
<1> HIDE DEF n, q
<1> DEFINE S == {k \in 0 .. n : P(g[k], k)}
<1>4. 0 \in S
  <2>1. P(s, 0)
    BY <1>2
  <2> QED
    BY <1>2, <1>3, <2>1
<1>5. ASSUME NEW k \in 1 .. n, k - 1 \in S
      PROVE  k \in S
  <2> DEFINE x == g[k - 1]
             f == q[k]
             y == LaunderPage(x, f, bad)
  <2>1. P(x, k - 1) /\ g[k] = y
    BY <1>3, <1>5
  <2>2. f \in Frame /\ x.cache[f] # NoEntry
    BY <1>2, <2>1
  <2> HIDE DEF x
  <2>3. MemInv(x, H)
    BY <2>1
  <2>4. \A j \in 1 .. n : j > k => q[j] # f /\ q[j] \in Frame
    BY <1>2
  <2>5. \A j \in 1 .. n : j > k => x.cache[q[j]] # NoEntry
    BY <2>1
  <2> HIDE DEF f
  <2>6. /\ MemInv(y, H) /\ y.pte = x.pte /\ y.sh = x.sh /\ x.free \subseteq y.free
        /\ \A i \in Frame : i # f => y.cache[i] = x.cache[i]
    BY <2>2, <2>3, LaunderPageInv
  <2> HIDE DEF y
  <2>7. P(y, k)
    BY <2>1, <2>4, <2>5, <2>6
  <2> QED
    BY <2>1, <2>7
<1> HIDE DEF S
<1>6. \A k \in 0 .. n : k \in S
  BY <1>2, <1>4, <1>5, UpToInduction
<1>7. n \in S
  BY <1>2, <1>6
<1> QED
  BY <1>3, <1>7 DEF S

LEMMA RefillInv ==
  ASSUME NEW s, NEW H, MemInv(s, H)
  PROVE  /\ MemInv(RefillInactiveScan(s), H)
         /\ RefillInactiveScan(s).pte = s.pte /\ RefillInactiveScan(s).sh = s.sh
         /\ RefillInactiveScan(s).free = s.free
<1> DEFINE A == {f \in s.active : s.ref[f] # 0}
           r == [s EXCEPT !.active = A]
<1>1. s \in MemType /\ Counted(s) /\ Booked(s, Holders(s), H)
  BY DEF MemInv
<1>2. RefillInactiveScan(s) = r
  BY DEF RefillInactiveScan
<1>3. A \in SUBSET Frame
  BY <1>1 DEF MemType
<1> HIDE DEF A
<1>4. /\ r \in MemType /\ r.pte = s.pte /\ r.sh = s.sh /\ r.map = s.map
      /\ r.cache = s.cache /\ r.free = s.free /\ r.ref = s.ref
  BY <1>1, <1>3, SetActive
<1> HIDE DEF r
<1>5. Holders(r) = Holders(s) /\ Counted(r)
  BY <1>1, <1>4, SameTables DEF Counted
<1>6. Booked(r, Holders(r), H)
  BY <1>1, <1>4, <1>5, BookedSame
<1> QED
  BY <1>2, <1>4, <1>5, <1>6 DEF MemInv


-----------------------------------------------------------------------------
(* The steps of a thread that stays in its address space. *)

OneThread(t) ==
  /\ th' \in [Thread -> ThreadType] /\ cur' \in Thread \cup {NoThread}
  /\ \A u \in Thread : u # t => th'[u] = th[u]
  /\ UNCHANGED <<mmList, kswapd, pressure, halted>>

StaysIn(t) ==
  /\ th[t].ph \notin {"dead", "copy"} /\ th'[t].ph \notin {"dead", "copy"}
  /\ th'[t].mm = th[t].mm /\ th'[t].to = NoMm
  /\ ~th[t].wait /\ ~th'[t].wait
  /\ th'[t].ph \in Locked => MmFree(t) \/ th[t].ph \in Locked

\* It changes its own page table only, and only the contents of an entry that
\* is there if it does not hold the mm_lock.
OwnTables(t) ==
  /\ \A i \in Mm, b \in Addr : i # th[t].mm => mem'.pte[i][b] = mem.pte[i][b]
  /\ mem'.sh = mem.sh \/ th[t].ph = "shm"
  /\ \/ MmFree(t) \/ th[t].ph \in Locked
     \/ \A b \in Addr : mem'.pte[th[t].mm][b].k = mem.pte[th[t].mm][b].k

\* What it will find when it goes on.
FoundAgain(t) ==
  /\ th'[t].ph = "shm" => /\ th'[t].a \in Shared /\ mem'.sh[th'[t].a] = NoPte
                          /\ \A u \in Thread : u # t => th[u].ph # "shm"
  /\ th'[t].ph = "cow" => /\ th'[t].a \notin Shared
                          /\ mem'.pte[th'[t].mm][th'[t].a].k # "none"
  /\ th'[t].ph = "read" => /\ mem'.pte[th'[t].mm][th'[t].a].k = "swap"
                           /\ th'[t].new = NoFrame <=> th'[t].a \in Shared
  /\ th'[t].ph # "read" => th'[t].new = NoFrame
  /\ th'[t].new # NoFrame => \A u \in Thread : u # t => th[u].new # th'[t].new

LEMMA SamePressure ==
  ASSUME KswapdInv, UNCHANGED <<kswapd, pressure>>,
         \A u \in Thread : th'[u].wait = th[u].wait
  PROVE  KswapdInv'
<1>1. Sleepers' = Sleepers
  BY DEF Sleepers
<1> QED
  BY <1>1 DEF KswapdInv, NoLostWaiter

LEMMA ThreadStepInv ==
  ASSUME SwapInv, NEW t \in Thread, MemInv(mem', Hands'),
         OneThread(t), StaysIn(t), OwnTables(t), FoundAgain(t)
  PROVE  SwapInv'
<1>0. /\ th \in [Thread -> ThreadType] /\ th' \in [Thread -> ThreadType]
      /\ mmList' = mmList /\ NoMm \notin Mm
  BY SwapMemAssumption DEF SwapInv, OneThread
<1>1. KswapdInv'
  <2>1. \A u \in Thread : th'[u].wait = th[u].wait
    BY <1>0 DEF OneThread, StaysIn, ThreadType
  <2> QED
    BY <2>1, SamePressure DEF OneThread, SwapInv
<1>2. SpacesInv'
  <2>1. SpacesInv
    BY DEF SwapInv
  <2>2. mmList' \in Seq(Mm) /\ IsInjective(mmList')
    BY <1>0, <2>1 DEF SpacesInv
  <2>3. ASSUME NEW u \in Thread
        PROVE  /\ th'[u].ph = "dead" <=> th'[u].mm = NoMm
               /\ th'[u].ph # "dead" => th'[u].mm \in Range(mmList)
               /\ th'[u].ph = "copy" <=> th'[u].to # NoMm
               /\ th'[u].to \notin Range(mmList)
    <3>1. CASE u = t
      BY <2>1, <3>1 DEF SpacesInv, StaysIn
    <3>2. CASE u # t
      BY <2>1, <3>2 DEF SpacesInv, OneThread
    <3> QED
      BY <3>1, <3>2
  <2>4. ASSUME NEW u \in Thread, NEW v \in Thread
        PROVE  th'[u].to = th'[v].to /\ th'[u].to # NoMm => u = v
    BY <2>1, <2>4 DEF SpacesInv, OneThread, StaysIn
  <2>5. ASSUME NEW u \in Thread, NEW v \in Thread, u # v,
               th'[u].mm = th'[v].mm, th'[u].ph \in Locked, th'[v].ph \in Locked
        PROVE  FALSE
    <3>1. CASE u # t /\ v # t
      BY <2>1, <2>5, <3>1 DEF SpacesInv, OneThread
    <3>2. CASE u = t
      BY <2>1, <2>5, <3>2 DEF SpacesInv, OneThread, StaysIn, MmFree
    <3>3. CASE v = t
      BY <2>1, <2>5, <3>3 DEF SpacesInv, OneThread, StaysIn, MmFree
    <3> QED
      BY <3>1, <3>2, <3>3
  <2> QED
    BY <1>0, <2>2, <2>3, <2>4, <2>5 DEF SpacesInv
<1>3. BlankInv'
  <2>1. th[t].mm \in Range(mmList) /\ th[t].to = NoMm
    BY DEF SwapInv, SpacesInv, StaysIn
  <2>2. ASSUME NEW m \in Mm, NEW a \in Addr, m \notin Range(mmList)
        PROVE  \/ mem'.pte[m][a] = NoPte
               \/ \E u \in Thread : th'[u].to = m /\ a > th'[u].a
    <3>1. mem'.pte[m][a] = mem.pte[m][a]
      BY <2>1, <2>2 DEF OwnTables
    <3>2. \/ mem.pte[m][a] = NoPte
          \/ \E u \in Thread : th[u].to = m /\ a > th[u].a
      BY <2>2 DEF SwapInv, BlankInv
    <3> QED
      BY <1>0, <2>1, <3>1, <3>2 DEF OneThread
  <2> QED
    BY <1>0, <2>2 DEF BlankInv
<1>4. FaultInv'
  <2>1. FaultInv /\ SpacesInv
    BY DEF SwapInv
  <2>2. ASSUME NEW u \in Thread, u # t
        PROVE  /\ th'[u].wait => th'[u].ph \in AllocPhase
               /\ th'[u].ph = "shm" => th'[u].a \in Shared /\ mem'.sh[th'[u].a] = NoPte
               /\ th'[u].ph = "cow" => /\ th'[u].a \notin Shared
                                       /\ mem'.pte[th'[u].mm][th'[u].a].k # "none"
               /\ th'[u].ph = "read" => /\ mem'.pte[th'[u].mm][th'[u].a].k = "swap"
                                        /\ th'[u].new = NoFrame <=> th'[u].a \in Shared
               /\ th'[u].ph # "read" => th'[u].new = NoFrame
    <3>1. th'[u] = th[u]
      BY <2>2 DEF OneThread
    <3>2. th[u].ph = "shm" => th[u].a \in Shared /\ mem'.sh[th[u].a] = NoPte
      BY <2>1, <2>2 DEF FaultInv, OwnTables
    <3>3. th[u].ph \in {"cow", "read"} =>
             mem'.pte[th[u].mm][th[u].a].k = mem.pte[th[u].mm][th[u].a].k
      <4>1. SUFFICES ASSUME th[u].ph \in {"cow", "read"}
                     PROVE  mem'.pte[th[u].mm][th[u].a].k = mem.pte[th[u].mm][th[u].a].k
        BY <4>1
      <4>2. th[u].ph \in Locked /\ th[u].ph # "dead"
        BY <4>1 DEF Locked, AllocPhase
      <4>3. th[u].mm \in Mm /\ th[u].a \in Addr
        <5>1. th[u].mm \in Range(mmList) /\ mmList \in Seq(Mm)
          BY <2>1, <4>2 DEF SpacesInv
        <5>2. th[u].a \in Addr
          BY <1>0 DEF ThreadType
        <5> QED
          BY <5>1, <5>2 DEF Range
      <4>4. CASE th[u].mm # th[t].mm
        BY <4>3, <4>4 DEF OwnTables
      <4>5. CASE th[u].mm = th[t].mm
        <5>1. ~MmFree(t)
          BY <2>2, <4>2, <4>5 DEF MmFree
        <5>2. th[t].ph \notin Locked
          BY <2>1, <2>2, <4>2, <4>5 DEF SpacesInv
        <5> QED
          BY <4>3, <4>5, <5>1, <5>2 DEF OwnTables
      <4> QED
        BY <4>4, <4>5
    <3> QED
      BY <2>1, <3>1, <3>2, <3>3 DEF FaultInv, PteOf
  <2>3. /\ th'[t].wait => th'[t].ph \in AllocPhase
        /\ th'[t].ph = "shm" => th'[t].a \in Shared /\ mem'.sh[th'[t].a] = NoPte
        /\ th'[t].ph = "cow" => /\ th'[t].a \notin Shared
                                /\ mem'.pte[th'[t].mm][th'[t].a].k # "none"
        /\ th'[t].ph = "read" => /\ mem'.pte[th'[t].mm][th'[t].a].k = "swap"
                                 /\ th'[t].new = NoFrame <=> th'[t].a \in Shared
        /\ th'[t].ph # "read" => th'[t].new = NoFrame
    BY DEF FoundAgain, StaysIn
  <2>4. ASSUME NEW u \in Thread, NEW v \in Thread
        PROVE  /\ th'[u].ph = "shm" /\ th'[v].ph = "shm" => u = v
               /\ th'[u].new = th'[v].new /\ th'[u].new # NoFrame => u = v
    <3>1. CASE u # t /\ v # t
      BY <2>1, <3>1 DEF FaultInv, OneThread
    <3>2. CASE u = t \/ v = t
      BY <3>2 DEF FoundAgain, OneThread
    <3> QED
      BY <3>1, <3>2
  <2>5. \A u \in Thread : PteOf(u)' = mem'.pte[th'[u].mm][th'[u].a]
    BY DEF PteOf
  <2> QED
    BY <2>2, <2>3, <2>4, <2>5 DEF FaultInv
<1> QED
  BY <1>0, <1>1, <1>2, <1>3, <1>4 DEF SwapInv, OneThread

\* The facts every step starts from.
LEMMA Running ==
  ASSUME SwapInv, NEW t \in Thread, NEW ph, Runs(t, ph), ph # "dead"
  PROVE  /\ th \in [Thread -> ThreadType] /\ th[t] \in ThreadType
         /\ th[t].ph = ph /\ ~th[t].wait
         /\ th[t].mm \in Range(mmList) /\ th[t].mm \in Mm /\ th[t].a \in Addr
         /\ th[t].w \in BOOLEAN /\ th[t].v \in Val
         /\ th[t].new \in Frame \cup {NoFrame}
         /\ ph # "copy" => th[t].to = NoMm
         /\ ph # "read" => th[t].new = NoFrame
         /\ MemInv(mem, Hands)
<1>1. /\ th \in [Thread -> ThreadType] /\ SpacesInv /\ FaultInv
      /\ MemInv(mem, Hands)
  BY DEF SwapInv
<1>2. th[t] \in ThreadType
  BY <1>1
<1>3. /\ th[t].a \in Addr /\ th[t].w \in BOOLEAN /\ th[t].v \in Val
      /\ th[t].new \in Frame \cup {NoFrame}
  BY <1>2 DEF ThreadType
<1>4. th[t].ph = ph /\ ~th[t].wait
  BY DEF Runs
<1>5. th[t].mm \in Range(mmList) /\ mmList \in Seq(Mm)
      /\ (ph # "copy" => th[t].to = NoMm)
  BY <1>1, <1>4 DEF SpacesInv
<1>6. th[t].mm \in Mm
  BY <1>5 DEF Range
<1>7. ph # "read" => th[t].new = NoFrame
  BY <1>1, <1>4 DEF FaultInv
<1> QED
  BY <1>1, <1>2, <1>3, <1>4, <1>5, <1>6, <1>7

LEMMA IdleType ==
  ASSUME NEW ph \in Phases, NEW m \in Mm \cup {NoMm}
  PROVE  /\ Idle(ph, m) \in ThreadType
         /\ Idle(ph, m).ph = ph /\ Idle(ph, m).mm = m
         /\ Idle(ph, m).new = NoFrame /\ Idle(ph, m).to = NoMm
         /\ ~Idle(ph, m).wait
<1>1. 1 \in Addr
  <2>1. Cardinality(Addr) \in Nat /\ Addr = 1 .. Cardinality(Addr) /\ Addr # {}
    BY SwapMemAssumption, FS_CardinalityType
  <2> QED
    BY <2>1
<1> QED
  BY <1>1, SwapMemAssumption DEF Idle, ThreadType

LEMMA Becoming ==
  ASSUME th \in [Thread -> ThreadType], NEW t \in Thread, NEW r \in ThreadType,
         Become(t, r), UNCHANGED <<mmList, kswapd, pressure, halted>>
  PROVE  OneThread(t) /\ th'[t] = r
BY DEF Become, OneThread

\* Whose hands a frame is in after a step of t.
LEMMA HandsMoved ==
  ASSUME SwapInv, NEW t \in Thread, OneThread(t)
  PROVE  \A f \in Frame :
            f \in Hands' <=> \/ f = th'[t].new
                             \/ f \in Hands /\ f # th[t].new
<1>1. \A u, v \in Thread : th[u].new = th[v].new /\ th[u].new # NoFrame => u = v
  BY DEF SwapInv, FaultInv
<1>2. \A u \in Thread : u # t => th'[u] = th[u]
  BY DEF OneThread
<1>3. NoFrame \notin Frame
  BY SwapMemAssumption
<1> QED
  BY <1>1, <1>2, <1>3 DEF Hands

LEMMA InstructionInv ==
  ASSUME SwapInv, NEW t \in Thread, Runs(t, "user") \/ Runs(t, "retry"),
         NEW a \in Addr, NEW w \in BOOLEAN, NEW v \in Val,
         Instruction(t, a, w, v)
  PROVE  SwapInv'
<1> DEFINE m == th[t].mm
<1>1. /\ th \in [Thread -> ThreadType] /\ th[t].ph \in {"user", "retry"}
      /\ ~th[t].wait /\ m \in Mm /\ th[t].new = NoFrame /\ MemInv(mem, Hands)
  BY Running
<1>2. UNCHANGED <<mmList, kswapd, pressure, halted>>
  BY DEF Instruction
<1>3. NoFrame \notin Frame
  BY SwapMemAssumption
<1>4. CASE Allowed(mem.pte[m][a], w)
  <2> DEFINE r == Idle("user", m)
  <2>1. mem' = Touch(mem, m, a, w, v) /\ Become(t, r)
    BY <1>4 DEF Instruction
  <2>2. /\ r \in ThreadType /\ r.ph = "user" /\ r.mm = m
        /\ r.new = NoFrame /\ r.to = NoMm /\ ~r.wait
    BY <1>1, IdleType DEF Phases
  <2> HIDE DEF r, m
  <2>3. OneThread(t) /\ th'[t] = r
    BY <1>1, <1>2, <2>1, <2>2, Becoming
  <2>4. mem.pte[m][a].k = "page"
    BY <1>4 DEF Allowed
  <2>5. /\ MemInv(mem', Hands) /\ OnlyPte(mem, mem', m, a)
        /\ mem'.pte[m][a].k = "page"
    BY <1>1, <2>1, <2>4, TouchInv
  <2>6. MemInv(mem', Hands')
    <3>1. \A f \in Frame : f \in Hands <=> f \in Hands'
      BY <1>1, <1>3, <2>2, <2>3, HandsMoved
    <3> QED
      BY <2>5, <3>1, SameHands
  <2>7. StaysIn(t)
    BY <1>1, <2>2, <2>3 DEF StaysIn, Locked, AllocPhase, m
  <2>8. OwnTables(t)
    BY <1>1, <2>4, <2>5 DEF OwnTables, OnlyPte, m
  <2>9. FoundAgain(t)
    BY <2>2, <2>3 DEF FoundAgain
  <2> QED
    BY <2>3, <2>6, <2>7, <2>8, <2>9, ThreadStepInv
<1>5. CASE ~Allowed(mem.pte[m][a], w)
  <2> DEFINE i == Idle("fault", m)
             r == [i EXCEPT !.a = a, !.w = w, !.v = v]
  <2>1. mem' = mem /\ Become(t, r)
    BY <1>5 DEF Instruction
  <2>2. /\ i \in ThreadType /\ i.ph = "fault" /\ i.mm = m
        /\ i.new = NoFrame /\ i.to = NoMm /\ ~i.wait
    BY <1>1, IdleType DEF Phases
  <2> HIDE DEF i, m
  <2>3. /\ r \in ThreadType /\ r.ph = "fault" /\ r.mm = m
        /\ r.new = NoFrame /\ r.to = NoMm /\ ~r.wait
    BY <2>2 DEF ThreadType
  <2> HIDE DEF r
  <2>4. OneThread(t) /\ th'[t] = r
    BY <1>1, <1>2, <2>1, <2>3, Becoming
  <2>5. MemInv(mem', Hands')
    <3>1. \A f \in Frame : f \in Hands <=> f \in Hands'
      BY <1>1, <1>3, <2>3, <2>4, HandsMoved
    <3> QED
      BY <1>1, <2>1, <3>1, SameHands
  <2>6. StaysIn(t)
    BY <1>1, <2>3, <2>4 DEF StaysIn, Locked, AllocPhase, m
  <2>7. OwnTables(t)
    BY <2>1 DEF OwnTables
  <2>8. FoundAgain(t)
    BY <2>3, <2>4 DEF FoundAgain
  <2> QED
    BY <2>4, <2>5, <2>6, <2>7, <2>8, ThreadStepInv
<1> QED
  BY <1>4, <1>5

LEMMA InstructionsInv ==
  ASSUME SwapInv, NEW t \in Thread, Read(t) \/ Write(t) \/ Retry(t)
  PROVE  SwapInv'
<1>1. 0 \in Val /\ Stored \subseteq Val /\ TRUE \in BOOLEAN /\ FALSE \in BOOLEAN
  BY SwapMemAssumption
<1>2. CASE Read(t)
  BY <1>1, <1>2, InstructionInv DEF Read
<1>3. CASE Write(t)
  BY <1>1, <1>3, InstructionInv DEF Write
<1>4. CASE Retry(t)
  <2>1. Runs(t, "retry") /\ Instruction(t, th[t].a, th[t].w, th[t].v)
    BY <1>4 DEF Retry
  <2>2. th[t].a \in Addr /\ th[t].w \in BOOLEAN /\ th[t].v \in Val
    BY <2>1, Running
  <2> QED
    BY <2>1, <2>2, InstructionInv
<1> QED
  BY <1>2, <1>3, <1>4

LEMMA Going ==
  ASSUME th \in [Thread -> ThreadType], NEW t \in Thread, NEW ph \in Phases,
         Goto(t, ph), UNCHANGED <<mmList, kswapd, pressure, halted>>
  PROVE  /\ OneThread(t) /\ th'[t].ph = ph /\ th'[t].mm = th[t].mm
         /\ th'[t].a = th[t].a /\ th'[t].new = th[t].new
         /\ th'[t].wait = th[t].wait /\ th'[t].to = th[t].to
<1> DEFINE r == [th[t] EXCEPT !.ph = ph]
<1>1. th[t] \in ThreadType
  OBVIOUS
<1>2. /\ r \in ThreadType /\ r.ph = ph /\ r.mm = th[t].mm /\ r.a = th[t].a
      /\ r.new = th[t].new /\ r.wait = th[t].wait /\ r.to = th[t].to
  BY <1>1 DEF ThreadType
<1>3. Become(t, r)
  BY DEF Goto
<1> HIDE DEF r
<1>4. OneThread(t) /\ th'[t] = r
  BY <1>2, <1>3, Becoming
<1> QED
  BY <1>2, <1>4

\* The same with the page for a copy taken or given away.
BecomeWith(t, ph, new) == Become(t, [th[t] EXCEPT !.ph = ph, !.new = new])

LEMMA GoingWith ==
  ASSUME th \in [Thread -> ThreadType], NEW t \in Thread, NEW ph \in Phases,
         NEW new \in Frame \cup {NoFrame},
         BecomeWith(t, ph, new),
         UNCHANGED <<mmList, kswapd, pressure, halted>>
  PROVE  /\ OneThread(t) /\ th'[t].ph = ph /\ th'[t].mm = th[t].mm
         /\ th'[t].a = th[t].a /\ th'[t].new = new
         /\ th'[t].wait = th[t].wait /\ th'[t].to = th[t].to
<1> DEFINE r == [th[t] EXCEPT !.ph = ph, !.new = new]
<1>1. th[t] \in ThreadType
  OBVIOUS
<1>2. /\ r \in ThreadType /\ r.ph = ph /\ r.mm = th[t].mm /\ r.a = th[t].a
      /\ r.new = new /\ r.wait = th[t].wait /\ r.to = th[t].to
  BY <1>1 DEF ThreadType
<1>3. Become(t, r)
  BY DEF BecomeWith
<1> HIDE DEF r
<1>4. OneThread(t) /\ th'[t] = r
  BY <1>2, <1>3, Becoming
<1> QED
  BY <1>2, <1>4

\* A frame that is mapped or cached is neither free nor in anybody's hands.
LEMMA InUseFrames ==
  ASSUME NEW s, NEW H, MemInv(s, H), NEW f \in Frame,
         \/ s.cache[f] # NoEntry
         \/ \E m \in Mm, a \in Addr : Maps(s.pte[m][a], f)
         \/ \E a \in Shared : Maps(s.sh[a], f)
  PROVE  f \notin s.free /\ f \notin H
<1>1. /\ s \in MemType /\ Counted(s) /\ Booked(s, Holders(s), H)
      /\ s.ref \in [Frame -> Int]
  BY DEF MemInv, MemType
<1>2. s.cache[f] # NoEntry \/ s.ref[f] > 0
  BY <1>1, InTableCounted DEF Counted
<1> QED
  BY <1>1, <1>2 DEF Booked

\* swap_in_page as do_pgfault calls it.
LEMMA SwapInInv ==
  ASSUME SwapInv, NEW t \in Thread, NEW ph \in {"fault", "lockshm", "cow"},
         Runs(t, ph), MmFree(t) \/ ph = "cow",
         NEW s, NEW new \in Frame \cup {NoFrame}, new \notin Hands \cap Frame,
         MemInv(s, Hands \cup {new}), s.pte = mem.pte, s.sh = mem.sh,
         new = NoFrame <=> th[t].a \in Shared,
         PteOf(t).k = "swap", SwapIn(s, t, new),
         UNCHANGED <<mmList, kswapd, pressure, halted>>
  PROVE  SwapInv'
<1> DEFINE m == th[t].mm
           a == th[t].a
           e == PteOf(t).e
           H == Hands \cup {new}
<1>1. /\ th \in [Thread -> ThreadType] /\ th[t].ph = ph
      /\ ~th[t].wait /\ m \in Mm /\ a \in Addr /\ th[t].w \in BOOLEAN
      /\ th[t].new = NoFrame /\ th[t].to = NoMm /\ MemInv(mem, Hands)
  BY Running
<1>2. NoFrame \notin Frame /\ (ph = "cow" => th[t].ph \in Locked)
  BY <1>1, SwapMemAssumption DEF Locked, AllocPhase
<1>3. PteOf(t) = mem.pte[m][a] /\ PteOf(t) \in Pte /\ e \in Entry
  <2>1. PteOf(t) = mem.pte[m][a] /\ mem \in MemType
    BY <1>1 DEF PteOf, MemInv
  <2>2. mem.pte[m][a] \in Pte
    BY <1>1, <2>1 DEF MemType
  <2> HIDE DEF m, a
  <2> QED
    BY <2>1, <2>2, PteCases
<1> HIDE DEF e, H
<1>4. CASE CachedIn(s, e) # {}
  <2> DEFINE f == CHOOSE x \in CachedIn(s, e) : TRUE
  <2>1. mem' = MapPage(s, t, f, new) /\ Mapped(t)
    BY <1>4 DEF SwapIn, e
  <2>2. f \in Frame /\ s.cache[f] = e /\ s.cache[f] # NoEntry
    BY <1>3, <1>4, EntryPositive DEF CachedIn
  <2> HIDE DEF f, m, a
  <2>3. f \notin s.free /\ f \notin H
    BY <2>2, InUseFrames DEF H
  <2>4. new # NoFrame => new \in H
    BY DEF H
  <2>5. th[t].mm \in Mm /\ th[t].a \in Addr /\ MemInv(s, H)
        /\ (new = NoFrame => th[t].a \in Shared)
    BY <1>1 DEF m, a, H
  <2>6. /\ MemInv(mem', H \ {new})
        /\ OnlyPte(s, mem', th[t].mm, th[t].a)
        /\ mem'.pte[th[t].mm][th[t].a].k = "page"
    <3>1. /\ MemInv(MapPage(s, t, f, new), H \ {new})
          /\ NowMapped(s, MapPage(s, t, f, new), th[t].mm, th[t].a)
      BY <1>1, <2>2, <2>3, <2>4, <2>5, MapPageInv
    <3> QED
      BY <2>1, <3>1 DEF NowMapped
  <2>7. /\ OneThread(t) /\ th'[t].ph = "retry" /\ th'[t].mm = m
        /\ th'[t].new = NoFrame /\ ~th'[t].wait /\ th'[t].to = NoMm
    <3>1. "retry" \in Phases /\ NoFrame \in Frame \cup {NoFrame}
      BY DEF Phases
    <3>2. BecomeWith(t, "retry", NoFrame)
      BY <2>1 DEF Mapped, BecomeWith
    <3> QED
      BY <1>1, <3>1, <3>2, GoingWith DEF m
  <2>8. MemInv(mem', Hands')
    <3>1. \A g \in Frame : g \in H \ {new} <=> g \in Hands'
      BY <1>1, <1>2, <2>7, HandsMoved DEF H
    <3> QED
      BY <2>6, <3>1, SameHands
  <2>9. StaysIn(t)
    BY <1>1, <2>7 DEF StaysIn, Locked, AllocPhase, m
  <2>10. OwnTables(t)
    BY <1>1, <1>2, <2>6 DEF OwnTables, OnlyPte
  <2>11. FoundAgain(t)
    BY <2>7 DEF FoundAgain
  <2> QED
    BY <2>7, <2>8, <2>9, <2>10, <2>11, ThreadStepInv
<1>5. CASE CachedIn(s, e) = {}
  <2>1. mem' = s /\ Become(t, [th[t] EXCEPT !.ph = "read", !.new = new])
    BY <1>5 DEF SwapIn, e
  <2>2. /\ OneThread(t) /\ th'[t].ph = "read" /\ th'[t].mm = m
        /\ th'[t].a = a
        /\ th'[t].new = new /\ ~th'[t].wait /\ th'[t].to = NoMm
    <3>1. "read" \in Phases
      BY DEF Phases, Locked, AllocPhase
    <3>2. BecomeWith(t, "read", new)
      BY <2>1 DEF BecomeWith
    <3> QED
      BY <1>1, <3>1, <3>2, GoingWith
  <2>3. MemInv(mem', Hands')
    <3>1. \A g \in Frame : g \in H <=> g \in Hands'
      BY <1>1, <1>2, <2>2, HandsMoved DEF H
    <3> QED
      BY <2>1, <3>1, SameHands DEF H
  <2>4. StaysIn(t)
    BY <1>1, <1>2, <2>2 DEF StaysIn
  <2>5. OwnTables(t)
    BY <1>1, <2>1 DEF OwnTables
  <2>6. FoundAgain(t)
    <3>1. new # NoFrame => \A u \in Thread : u # t => th[u].new # new
      BY DEF Hands
    <3>2. mem'.pte[th'[t].mm][th'[t].a].k = "swap"
      BY <1>3, <2>1, <2>2
    <3> QED
      BY <2>2, <3>1, <3>2 DEF FoundAgain
  <2> QED
    BY <2>2, <2>3, <2>4, <2>5, <2>6, ThreadStepInv
<1> QED
  BY <1>4, <1>5

\* A fault goes on to another phase and leaves the memory as it is.
LEMMA GotoInv ==
  ASSUME SwapInv, NEW t \in Thread, NEW ph, Runs(t, ph), ph \in {"fault", "lockshm"},
         NEW next \in {"zero", "shm", "cow", "lockshm"}, Goto(t, next), mem' = mem,
         MmFree(t),
         next = "shm" => th[t].a \in Shared /\ mem.sh[th[t].a].k = "none" /\ ShmemFree,
         next = "cow" => th[t].a \notin Shared /\ PteOf(t).k # "none",
         UNCHANGED <<mmList, kswapd, pressure, halted>>
  PROVE  SwapInv'
<1>1. /\ th \in [Thread -> ThreadType] /\ th[t].ph = ph
      /\ ~th[t].wait /\ th[t].new = NoFrame /\ th[t].to = NoMm /\ MemInv(mem, Hands)
  BY Running
<1>2. next \in Phases /\ next \in Locked
  BY DEF Phases, Locked, AllocPhase
<1>3. /\ OneThread(t) /\ th'[t].ph = next /\ th'[t].mm = th[t].mm
      /\ th'[t].a = th[t].a /\ th'[t].new = NoFrame /\ ~th'[t].wait
      /\ th'[t].to = NoMm
  BY <1>1, <1>2, Going
<1>4. MemInv(mem', Hands')
  <2>1. \A f \in Frame : f \in Hands <=> f \in Hands'
    BY <1>1, <1>3, HandsMoved, SwapMemAssumption
  <2> QED
    BY <1>1, <2>1, SameHands
<1>5. StaysIn(t)
  BY <1>1, <1>3 DEF StaysIn
<1>6. OwnTables(t)
  BY DEF OwnTables
<1>7. FoundAgain(t)
  <2>1. next = "shm" => mem.sh[th[t].a] = NoPte
    <3>1. next = "shm" => mem.sh[th[t].a] \in Pte
      BY <1>1 DEF MemInv, MemType
    <3> QED
      BY <3>1, PteCases
  <2>2. next = "shm" => \A u \in Thread : u # t => th[u].ph # "shm"
    BY DEF ShmemFree
  <2> QED
    BY <1>3, <2>1, <2>2 DEF FoundAgain, PteOf
<1> QED
  BY <1>3, <1>4, <1>5, <1>6, <1>7, ThreadStepInv

\* A fault is served by page_insert; t held nothing.
LEMMA ServedInv ==
  ASSUME SwapInv, NEW t \in Thread, NEW ph, Runs(t, ph),
         ph \in {"fault", "lockshm", "zero", "shm", "cow"},
         Goto(t, "retry"), MmFree(t) \/ ph \in Locked,
         MemInv(mem', Hands),
         \A i \in Mm, b \in Addr : i # th[t].mm => mem'.pte[i][b] = mem.pte[i][b],
         mem'.sh = mem.sh \/ ph = "shm",
         UNCHANGED <<mmList, kswapd, pressure, halted>>
  PROVE  SwapInv'
<1>1. /\ th \in [Thread -> ThreadType] /\ th[t].ph = ph
      /\ ~th[t].wait /\ th[t].new = NoFrame /\ th[t].to = NoMm
  BY Running
<1>2. "retry" \in Phases /\ "retry" \notin Locked
  BY DEF Phases, Locked, AllocPhase
<1>3. /\ OneThread(t) /\ th'[t].ph = "retry" /\ th'[t].mm = th[t].mm
      /\ th'[t].a = th[t].a /\ th'[t].new = NoFrame /\ ~th'[t].wait
      /\ th'[t].to = NoMm
  BY <1>1, <1>2, Going
<1>4. MemInv(mem', Hands')
  <2>1. \A f \in Frame : f \in Hands <=> f \in Hands'
    BY <1>1, <1>3, HandsMoved, SwapMemAssumption
  <2> QED
    BY <2>1, SameHands
<1>5. StaysIn(t)
  BY <1>1, <1>2, <1>3 DEF StaysIn
<1>6. OwnTables(t)
  BY <1>1 DEF OwnTables
<1>7. FoundAgain(t)
  BY <1>3 DEF FoundAgain
<1> QED
  BY <1>3, <1>4, <1>5, <1>6, <1>7, ThreadStepInv

LEMMA PgfaultBeginInv ==
  ASSUME SwapInv, NEW t \in Thread, PgfaultBegin(t)
  PROVE  SwapInv'
<1> DEFINE p == PteOf(t)
           a == th[t].a
           m == th[t].mm
<1>1. PICK ph \in {"fault", "lockshm"} : Runs(t, ph)
  BY DEF PgfaultBegin
<1>2. /\ MmFree(t) /\ AssertHolds(t)
      /\ UNCHANGED <<mmList, kswapd, pressure, halted>>
  BY DEF PgfaultBegin
<1>3. m \in Mm /\ a \in Addr /\ MemInv(mem, Hands) /\ th[t].new = NoFrame
  BY <1>1, Running
<1>4. p = mem.pte[m][a] /\ p \in Pte
  BY <1>3 DEF PteOf, MemInv, MemType
<1>5. CASE p.k = "none" /\ Cow(a) /\ Goto(t, "zero") /\ UNCHANGED mem
  BY <1>1, <1>2, <1>5, GotoInv
<1>6. CASE p.k = "none" /\ ~Cow(a) /\ ShmemFree
           /\ mem.sh[a].k = "none" /\ Goto(t, "shm") /\ UNCHANGED mem
  <2>1. a \in Shared
    BY <1>6 DEF Cow
  <2> QED
    BY <1>1, <1>2, <1>6, <2>1, GotoInv
<1>7. CASE /\ p.k = "none" /\ ~Cow(a) /\ ShmemFree /\ mem.sh[a].k = "page"
           /\ mem' = PageInsert(mem, m, a, Page(mem.sh[a].f, TRUE, FALSE))
           /\ Goto(t, "retry")
  <2> DEFINE f == mem.sh[a].f
             q == Page(f, TRUE, FALSE)
  <2>1. a \in Shared /\ f \in Frame /\ Maps(mem.sh[a], f)
    <3>1. a \in Shared
      BY <1>7 DEF Cow
    <3>2. mem.sh[a] \in Pte
      BY <1>3, <3>1 DEF MemInv, MemType
    <3> QED
      BY <1>7, <3>1, <3>2, PteCases DEF Maps
  <2>2. f \notin mem.free /\ f \notin Hands
    BY <1>3, <2>1, InUseFrames
  <2>3. q \in Pte /\ q.k = "page" /\ q.f = f
    BY <2>1 DEF Page, Pte
  <2> HIDE DEF q, f, m, a
  <2>4. /\ MemInv(PageInsert(mem, m, a, q), Hands \ {q.f})
        /\ OnlyPte(mem, PageInsert(mem, m, a, q), m, a)
    BY <1>3, <2>2, <2>3, PageInserted
  <2>5. mem' = PageInsert(mem, m, a, q) /\ Hands \ {q.f} = Hands
    BY <1>7, <2>2, <2>3 DEF q, f
  <2>6. /\ MemInv(mem', Hands) /\ OnlyPte(mem, mem', m, a)
    BY <2>4, <2>5
  <2>7. /\ \A i \in Mm, b \in Addr : i # th[t].mm => mem'.pte[i][b] = mem.pte[i][b]
        /\ mem'.sh = mem.sh
    BY <2>6 DEF OnlyPte, m
  <2> QED
    BY <1>1, <1>2, <1>7, <2>6, <2>7, ServedInv
<1>8. CASE p.k # "none" /\ Cow(a) /\ Goto(t, "cow") /\ UNCHANGED mem
  <2>1. a \notin Shared
    BY <1>8 DEF Cow
  <2> QED
    BY <1>1, <1>2, <1>8, <2>1, GotoInv
<1>9. CASE p.k # "none" /\ ~Cow(a) /\ SwapIn(mem, t, NoFrame)
  <2>1. a \in Shared
    BY <1>9 DEF Cow
  <2>2. p.k = "swap"
    BY <1>2, <1>4, <1>9, PteCases DEF AssertHolds
  <2>3. MemInv(mem, Hands \cup {NoFrame})
    <3>1. \A f \in Frame : f \in Hands <=> f \in Hands \cup {NoFrame}
      BY SwapMemAssumption
    <3> QED
      BY <1>3, <3>1, SameHands
  <2>4. NoFrame \notin Hands \cap Frame /\ NoFrame \in Frame \cup {NoFrame}
    BY SwapMemAssumption
  <2> HIDE DEF m
  <2> QED
    BY <1>1, <1>2, <1>9, <2>1, <2>2, <2>3, <2>4, SwapInInv
<1>10. \/ p.k = "none" /\ Cow(a) /\ Goto(t, "zero") /\ UNCHANGED mem
       \/ /\ p.k = "none" /\ ~Cow(a) /\ ShmemFree
          /\ mem.sh[a].k = "none" /\ Goto(t, "shm") /\ UNCHANGED mem
       \/ /\ p.k = "none" /\ ~Cow(a) /\ ShmemFree /\ mem.sh[a].k = "page"
          /\ mem' = PageInsert(mem, m, a, Page(mem.sh[a].f, TRUE, FALSE))
          /\ Goto(t, "retry")
       \/ p.k # "none" /\ Cow(a) /\ Goto(t, "cow") /\ UNCHANGED mem
       \/ p.k # "none" /\ ~Cow(a) /\ SwapIn(mem, t, NoFrame)
  BY DEF PgfaultBegin
<1> QED
  BY <1>5, <1>6, <1>7, <1>8, <1>9, <1>10

LEMMA LockShmemInv ==
  ASSUME SwapInv, NEW t \in Thread, LockShmem(t)
  PROVE  SwapInv'
BY GotoInv DEF LockShmem

LEMMA PanicInv ==
  ASSUME SwapInv, NEW t \in Thread, PgfaultPanic(t)
  PROVE  SwapInv'
<1>1. UNCHANGED <<mem, th, cur, mmList, kswapd, pressure>> /\ halted' = TRUE
  BY DEF PgfaultPanic
<1> QED
  BY <1>1 DEF SwapInv, SpacesInv, BlankInv, FaultInv, KswapdInv, NoLostWaiter,
              Sleepers, Hands, PteOf

-----------------------------------------------------------------------------
(* The steps that allocate. *)

LEMMA TryFreePagesInv ==
  ASSUME SwapInv, NEW t \in Thread, TryFreePages(t)
  PROVE  SwapInv'
<1>1. /\ th[t].ph \in AllocPhase /\ ~th[t].wait
      /\ th' = [th EXCEPT ![t].wait = TRUE] /\ cur' = NoThread
      /\ pressure' = pressure + 1
      /\ kswapd' = IF kswapd.pc = "sleep" THEN [kswapd EXCEPT !.pc = "ready"]
                   ELSE kswapd
      /\ UNCHANGED <<mem, mmList, halted>>
  BY DEF TryFreePages, Runs
<1>2. /\ th \in [Thread -> ThreadType] /\ SpacesInv /\ BlankInv /\ FaultInv
      /\ KswapdInv /\ MemInv(mem, Hands) /\ halted \in BOOLEAN
  BY DEF SwapInv
<1>3. /\ th' \in [Thread -> ThreadType]
      /\ \A u \in Thread :
            /\ th'[u].ph = th[u].ph /\ th'[u].mm = th[u].mm /\ th'[u].a = th[u].a
            /\ th'[u].new = th[u].new /\ th'[u].to = th[u].to
            /\ th'[u].wait = IF u = t THEN TRUE ELSE th[u].wait
  <2> DEFINE r == [th[t] EXCEPT !.wait = TRUE]
  <2>1. th[t] \in ThreadType
    BY <1>2
  <2>2. /\ r \in ThreadType /\ r.ph = th[t].ph /\ r.mm = th[t].mm /\ r.a = th[t].a
        /\ r.new = th[t].new /\ r.to = th[t].to /\ r.wait = TRUE
    BY <2>1 DEF ThreadType
  <2>3. th' = [th EXCEPT ![t] = r]
    BY <1>1, <1>2
  <2> HIDE DEF r
  <2>4. th' \in [Thread -> ThreadType] /\ th'[t] = r
        /\ \A u \in Thread : u # t => th'[u] = th[u]
    BY <1>2, <2>2, <2>3
  <2> QED
    BY <2>2, <2>4
<1>4. Hands' = Hands
  BY <1>3 DEF Hands
<1>5. SpacesInv'
  BY <1>1, <1>2, <1>3 DEF SpacesInv
<1>6. BlankInv'
  BY <1>1, <1>2, <1>3 DEF BlankInv
<1>7. FaultInv'
  BY <1>1, <1>2, <1>3 DEF FaultInv, PteOf
<1>8. KswapdInv'
  <2>1. t \notin Sleepers /\ Sleepers' = Sleepers \cup {t}
    BY <1>1, <1>3 DEF Sleepers
  <2>2. IsFiniteSet(Sleepers) /\ Cardinality(Sleepers) \in Nat
    BY SwapMemAssumption, FS_Subset, FS_CardinalityType DEF Sleepers
  <2>3. Cardinality(Sleepers') = Cardinality(Sleepers) + 1
    BY <2>1, <2>2, FS_AddElement
  <2>4. /\ kswapd' \in [pc : {"sleep", "ready", "out"}, needs : Int, rounds : 0 .. Rounds]
        /\ kswapd'.pc # "sleep" /\ (kswapd'.pc = "out" => kswapd.pc = "out")
    BY <1>1, <1>2 DEF KswapdInv
  <2>5. pressure' \in Nat /\ pressure' > 0
        /\ pressure' <= Cardinality(Sleepers')
    BY <1>1, <1>2, <2>2, <2>3 DEF KswapdInv
  <2> QED
    BY <2>4, <2>5 DEF KswapdInv, NoLostWaiter
<1> QED
  BY <1>1, <1>2, <1>3, <1>4, <1>5, <1>6, <1>7, <1>8 DEF SwapInv

LEMMA AllocZeroInv ==
  ASSUME SwapInv, NEW t \in Thread, AllocZero(t)
  PROVE  SwapInv'
<1> DEFINE m == th[t].mm
           a == th[t].a
<1>1. Runs(t, "zero") /\ Goto(t, "retry")
      /\ UNCHANGED <<mmList, kswapd, pressure, halted>>
  BY DEF AllocZero
<1>2. PICK f \in mem.free :
         mem' = PageInsert(Take(mem, f), m, a, Page(f, TRUE, FALSE))
  BY DEF AllocZero
<1>3. m \in Mm /\ a \in Addr /\ MemInv(mem, Hands)
  BY <1>1, Running
<1> DEFINE s == Take(mem, f)
           q == Page(f, TRUE, FALSE)
<1>4. /\ f \in Frame /\ f \notin Hands /\ MemInv(s, Hands \cup {f})
      /\ s.pte = mem.pte /\ s.sh = mem.sh /\ f \notin s.free
  BY <1>3, TakeInv
<1>5. q \in Pte /\ q.k = "page" /\ q.f = f
  BY <1>4 DEF Page, Pte
<1>6. mem' = PageInsert(s, m, a, q) /\ (Hands \cup {f}) \ {f} = Hands
  BY <1>2, <1>4
<1> HIDE DEF s, q, m, a
<1>7. /\ MemInv(PageInsert(s, m, a, q), (Hands \cup {f}) \ {q.f})
      /\ OnlyPte(s, PageInsert(s, m, a, q), m, a)
  BY <1>3, <1>4, <1>5, PageInserted
<1>8. MemInv(mem', Hands) /\ OnlyPte(s, mem', m, a)
  BY <1>5, <1>6, <1>7
<1>9. /\ \A i \in Mm, b \in Addr : i # th[t].mm => mem'.pte[i][b] = mem.pte[i][b]
      /\ mem'.sh = mem.sh
  BY <1>4, <1>8 DEF OnlyPte, m
<1>10. "zero" \in Locked
  BY DEF Locked, AllocPhase
<1> QED
  BY <1>1, <1>8, <1>9, <1>10, ServedInv

\* The shared object takes frame f, which is in somebody's hands: it has its
\* first reference.
ShTakes(s, a, f, q) == ShSet([s EXCEPT !.ref[f] = 1], a, q)

LEMMA ShTakesInv ==
  ASSUME NEW s, NEW H, MemInv(s, H), NEW a \in Shared, s.sh[a] = NoPte,
         NEW f \in Frame, f \in H, NEW q \in Pte, q.k = "page", q.f = f
  PROVE  /\ MemInv(ShTakes(s, a, f, q), H \ {f})
         /\ ShTakes(s, a, f, q).pte = s.pte /\ f \notin ShTakes(s, a, f, q).free
<1> DEFINE w == [s EXCEPT !.ref[f] = 1]
           n == Holders(s)
           G == H \ {f}
<1>1. /\ s \in MemType /\ Counted(s) /\ Booked(s, n, H)
      /\ s.ref \in [Frame -> Int] /\ n \in [Entry -> Nat]
  BY HoldersType DEF MemInv, MemType
<1>2. s.ref[f] = 0 /\ s.cache[f] = NoEntry /\ f \notin s.free
  BY <1>1 DEF Booked
<1>3. /\ w \in MemType /\ w.pte = s.pte /\ w.sh = s.sh /\ w.map = s.map
      /\ w.cache = s.cache /\ w.free = s.free
      /\ w.ref = [s.ref EXCEPT ![f] = 1]
  BY <1>1, SetRef
<1>4. /\ \A g \in Frame : MapsBit(q, g) = IF g = f THEN 1 ELSE 0
      /\ \A e \in Entry : HoldsBit(q, e) = 0
  BY DEF MapsBit, Maps, HoldsBit, Holds
<1> HIDE DEF w, n, G
<1>5. ShTakes(s, a, f, q) = ShSet(w, a, q)
  BY DEF w, ShTakes
<1>6. \A g \in Frame : w.ref[g] = IF g = f THEN 1 ELSE s.ref[g]
  BY <1>1, <1>3
<1>7. RefsMoved(s, w, s.sh[a], q)
  BY <1>1, <1>2, <1>4, <1>6, Bits DEF RefsMoved
<1>8. Moved(n, s.sh[a], q) = n
  BY <1>1, <1>4, Bits DEF Moved
<1>9. Booked(w, n, G)
  BY <1>1, <1>2, <1>3, <1>6 DEF Booked, G
<1>10. Booked(w, Moved(n, s.sh[a], q), G)
  BY <1>8, <1>9
<1>11. /\ MemInv(ShSet(w, a, q), G) /\ ShSet(w, a, q).pte = s.pte
       /\ ShSet(w, a, q).sh[a] = q
  <2>1. Booked(w, Moved(Holders(s), s.sh[a], q), G)
    BY <1>10 DEF n
  <2>2. s \in MemType /\ w \in MemType /\ Counted(s) /\ w.pte = s.pte /\ w.sh = s.sh
    BY <1>1, <1>3
  <2> QED
    BY <1>7, <2>1, <2>2, ShSetInv
<1>12. f \notin ShSet(w, a, q).free
  BY <1>11, <1>5, InUseFrames DEF Maps
<1> QED
  BY <1>5, <1>11, <1>12 DEF G

LEMMA AllocShmInv ==
  ASSUME SwapInv, NEW t \in Thread, AllocShm(t)
  PROVE  SwapInv'
<1> DEFINE m == th[t].mm
           a == th[t].a
<1>1. Runs(t, "shm") /\ Goto(t, "retry")
      /\ UNCHANGED <<mmList, kswapd, pressure, halted>>
  BY DEF AllocShm
<1>2. PICK f \in mem.free :
         mem' = PageInsert([Take(mem, f) EXCEPT !.sh[a] = Page(f, FALSE, FALSE),
                                                !.ref[f] = 1],
                           m, a, Page(f, TRUE, FALSE))
  BY DEF AllocShm
<1>3. /\ m \in Mm /\ a \in Addr /\ MemInv(mem, Hands)
      /\ a \in Shared /\ mem.sh[a] = NoPte
  BY <1>1, Running DEF SwapInv, FaultInv
<1> DEFINE s == Take(mem, f)
           p == Page(f, FALSE, FALSE)
           q == Page(f, TRUE, FALSE)
           H == Hands \cup {f}
           u == ShTakes(s, a, f, p)
<1>4. /\ f \in Frame /\ f \notin Hands /\ MemInv(s, H)
      /\ s.pte = mem.pte /\ s.sh = mem.sh /\ f \notin s.free
  BY <1>3, TakeInv
<1>5. /\ q \in Pte /\ q.k = "page" /\ q.f = f
      /\ p \in Pte /\ p.k = "page" /\ p.f = f
  BY <1>4 DEF Page, Pte
<1>6. mem' = PageInsert(u, m, a, q)
  <2>1. [s EXCEPT !.sh[a] = p, !.ref[f] = 1] = u
    <3>1. s \in MemType
      BY <1>4 DEF MemInv
    <3> HIDE DEF s, p, a
    <3> QED
      BY <3>1 DEF ShTakes, ShSet, MemType
  <2> QED
    BY <1>2, <2>1
<1>7. H \ {f} = Hands /\ f \in H
  BY <1>4
<1> HIDE DEF s, p, q, m, a, H
<1>8. MemInv(u, H \ {f}) /\ u.pte = s.pte /\ f \notin u.free
  BY <1>3, <1>4, <1>5, <1>7, ShTakesInv
<1>9. MemInv(u, Hands) /\ q.f \notin u.free /\ Hands \ {q.f} = Hands
  BY <1>4, <1>5, <1>7, <1>8
<1> HIDE DEF u
<1>10. /\ MemInv(PageInsert(u, m, a, q), Hands \ {q.f})
       /\ OnlyPte(u, PageInsert(u, m, a, q), m, a)
  BY <1>3, <1>5, <1>9, PageInserted
<1>11. MemInv(mem', Hands) /\ OnlyPte(u, mem', m, a)
  BY <1>6, <1>9, <1>10
<1>12. \A i \in Mm, b \in Addr : i # th[t].mm => mem'.pte[i][b] = mem.pte[i][b]
  BY <1>4, <1>8, <1>11 DEF OnlyPte, m
<1>13. "shm" \in Locked
  BY DEF Locked, AllocPhase
<1> QED
  BY <1>1, <1>11, <1>12, <1>13, ServedInv

LEMMA AllocCowInv ==
  ASSUME SwapInv, NEW t \in Thread, AllocCow(t)
  PROVE  SwapInv'
<1> DEFINE m == th[t].mm
           a == th[t].a
           p == PteOf(t)
<1>1. Runs(t, "cow") /\ UNCHANGED <<mmList, kswapd, pressure, halted>>
  BY DEF AllocCow
<1>2. PICK f \in mem.free :
         IF p.k = "page"
         THEN mem' = MapPage(Take(mem, f), t, p.f, f) /\ Goto(t, "retry")
         ELSE SwapIn(Take(mem, f), t, f)
  BY DEF AllocCow
<1>3. /\ m \in Mm /\ a \in Addr /\ th[t].w \in BOOLEAN /\ MemInv(mem, Hands)
      /\ a \notin Shared /\ p.k # "none"
  BY <1>1, Running DEF SwapInv, FaultInv
<1>4. p = mem.pte[m][a] /\ p \in Pte
  BY <1>3 DEF PteOf, MemInv, MemType
<1> DEFINE s == Take(mem, f)
           H == Hands \cup {f}
<1>5. /\ f \in Frame /\ f \notin Hands /\ MemInv(s, H)
      /\ s.pte = mem.pte /\ s.sh = mem.sh /\ f \notin s.free
  BY <1>3, TakeInv
<1>6. f # NoFrame /\ H \ {f} = Hands /\ "cow" \in Locked
  BY <1>5, SwapMemAssumption DEF Locked, AllocPhase
<1>7. CASE p.k = "page"
  <2> DEFINE g == p.f
  <2>1. mem' = MapPage(s, t, g, f) /\ Goto(t, "retry")
    BY <1>2, <1>7
  <2>2. g \in Frame /\ Maps(s.pte[m][a], g)
    <3>1. p.f \in Frame
      BY <1>4, <1>7, PteCases
    <3> QED
      BY <1>4, <1>5, <1>7, <3>1 DEF Maps
  <2> HIDE DEF s, p, g, H
  <2>3. g \notin s.free /\ g \notin H
    BY <1>3, <1>5, <2>2, InUseFrames
  <2>4. f \in Frame \cup {NoFrame} /\ f \in H
    BY <1>5 DEF H
  <2>5. /\ MemInv(MapPage(s, t, g, f), H \ {f})
        /\ NowMapped(s, MapPage(s, t, g, f), th[t].mm, th[t].a)
    BY <1>3, <1>5, <1>6, <2>2, <2>3, <2>4, MapPageInv
  <2>6. MemInv(mem', Hands) /\ OnlyPte(s, mem', m, a)
    BY <1>6, <2>1, <2>5 DEF NowMapped
  <2>7. /\ \A i \in Mm, b \in Addr : i # th[t].mm => mem'.pte[i][b] = mem.pte[i][b]
        /\ mem'.sh = mem.sh
    BY <1>5, <2>6 DEF OnlyPte
  <2> QED
    BY <1>1, <1>6, <2>1, <2>6, <2>7, ServedInv
<1>8. CASE p.k # "page"
  <2>1. SwapIn(s, t, f) /\ p.k = "swap"
    BY <1>2, <1>3, <1>4, <1>8, PteCases
  <2>2. f \notin Hands \cap Frame /\ f \in Frame \cup {NoFrame}
        /\ (f = NoFrame <=> th[t].a \in Shared)
    BY <1>3, <1>5, <1>6
  <2> HIDE DEF s
  <2> QED
    BY <1>1, <1>5, <2>1, <2>2, SwapInInv
<1> QED
  BY <1>7, <1>8

\* A page is read from the disk into frame f, which its swap entry x then has
\* as its cached copy.
CacheRead(s, f, x) ==
  SwapPageAdd([Take(s, f) EXCEPT !.data[f] = s.disk[x]], f, x)

LEMMA CacheReadInv ==
  ASSUME NEW s, NEW H, MemInv(s, H), NEW f \in s.free, NEW x \in Entry,
         Holders(s)[x] > 0, \A g \in Frame : s.cache[g] # x
  PROVE  /\ MemInv(CacheRead(s, f, x), H)
         /\ CacheRead(s, f, x).pte = s.pte /\ CacheRead(s, f, x).sh = s.sh
         /\ CacheRead(s, f, x).cache[f] = x
<1> DEFINE w == Take(s, f)
           d == [w.data EXCEPT ![f] = s.disk[x]]
           c == [w.cache EXCEPT ![f] = x]
           A == w.active \cup {f}
           u == [w EXCEPT !.data = d, !.cache = c, !.active = A]
           n == Holders(s)
           r == CacheRead(s, f, x)
<1>0. /\ s \in MemType /\ Counted(s) /\ Booked(s, n, H)
      /\ s.ref \in [Frame -> Int] /\ s.disk[x] \in Val /\ n \in [Entry -> Nat]
  BY HoldersType DEF MemInv, MemType
<1>1. /\ f \in Frame /\ f \notin H /\ s.ref[f] = 0 /\ s.cache[f] = NoEntry
      /\ MemInv(w, H \cup {f}) /\ w.pte = s.pte /\ w.sh = s.sh
      /\ w.cache = s.cache /\ w.ref = s.ref /\ w.map = s.map /\ f \notin w.free
  BY TakeInv
<1> HIDE DEF w
<1>2. /\ w \in MemType /\ w.data \in [Frame -> Val]
      /\ w.cache \in [Frame -> Entry \cup {NoEntry}]
      /\ w.active \in SUBSET Frame /\ Booked(w, n, H \cup {f})
  <2>1. w \in MemType
    BY <1>1 DEF MemInv
  <2>2. Holders(w) = n
    BY <1>1, SameTables
  <2> QED
    BY <1>1, <2>1, <2>2 DEF MemType, MemInv
<1>3. r = u
  BY <1>2 DEF CacheRead, SwapPageAdd, MemType, w
<1>4. /\ d \in [Frame -> Val] /\ c \in [Frame -> Entry \cup {NoEntry}]
      /\ A \in SUBSET Frame
      /\ \A g \in Frame : c[g] = IF g = f THEN x ELSE s.cache[g]
  BY <1>0, <1>1, <1>2
<1> HIDE DEF d, c, A, r, n
<1>5. /\ u \in MemType /\ u.pte = w.pte /\ u.sh = w.sh /\ u.ref = w.ref
      /\ u.map = w.map /\ u.cache = c /\ u.free = w.free
  BY <1>2, <1>4 DEF MemType
<1> HIDE DEF u
<1>6. ASSUME NEW e \in Entry
      PROVE  \/ u.map[e] = n[e] /\ n[e] > 0
             \/ u.map[e] = 0 /\ n[e] = 0 /\ \E g \in Frame : u.cache[g] = e
             \/ u.map[e] = Unused /\ n[e] = 0
                /\ \A g \in Frame : u.cache[g] # e
  <2>1. u.map[e] = s.map[e]
    BY <1>1, <1>5
  <2>2. CASE e = x
    BY <1>0, <2>1, <2>2 DEF Booked, n
  <2>3. CASE e # x
    <3>1. \A g \in Frame : u.cache[g] = e <=> s.cache[g] = e
      BY <1>1, <1>4, <1>5, <2>3, EntryPositive
    <3> QED
      BY <1>0, <2>1, <3>1 DEF Booked
  <2> QED
    BY <2>2, <2>3
<1>7. Booked(u, n, H)
  <2>1. \A g, i \in Frame : u.cache[g] = u.cache[i] /\ u.cache[g] # NoEntry => g = i
    BY <1>0, <1>4, <1>5 DEF Booked
  <2>2. \A g \in Frame :
           g \in u.free <=> u.ref[g] = 0 /\ u.cache[g] = NoEntry /\ g \notin H
    BY <1>1, <1>2, <1>4, <1>5, EntryPositive DEF Booked
  <2>3. \A g \in H : g \in Frame => u.ref[g] = 0 /\ u.cache[g] = NoEntry
    BY <1>0, <1>1, <1>4, <1>5 DEF Booked
  <2>4. \A g \in Frame : u.ref[g] >= 0
    BY <1>0, <1>1, <1>5 DEF Booked
  <2> QED
    BY <1>6, <2>1, <2>2, <2>3, <2>4 DEF Booked
<1>8. Holders(u) = n /\ Counted(u)
  BY <1>0, <1>1, <1>5, SameTables DEF Counted, n
<1> QED
  BY <1>1, <1>3, <1>4, <1>5, <1>7, <1>8 DEF MemInv, r

\* The fault maps a page that is in the swap cache.
LEMMA MappedInv ==
  ASSUME SwapInv, NEW t \in Thread, Runs(t, "read"), Mapped(t),
         NEW s, MemInv(s, Hands), s.pte = mem.pte, s.sh = mem.sh,
         NEW f \in Frame, s.cache[f] # NoEntry,
         mem' = MapPage(s, t, f, th[t].new),
         UNCHANGED <<mmList, kswapd, pressure, halted>>
  PROVE  SwapInv'
<1> DEFINE m == th[t].mm
           a == th[t].a
           new == th[t].new
<1>1. /\ th \in [Thread -> ThreadType] /\ th[t].ph = "read" /\ ~th[t].wait
      /\ m \in Mm /\ a \in Addr /\ th[t].w \in BOOLEAN /\ th[t].to = NoMm
      /\ new \in Frame \cup {NoFrame}
  BY Running
<1>2. (new = NoFrame <=> a \in Shared) /\ "read" \in Locked /\ new \in Hands
      /\ NoFrame \notin Frame
  BY <1>1, SwapMemAssumption DEF SwapInv, FaultInv, Locked, AllocPhase, Hands
<1>3. f \notin s.free /\ f \notin Hands
  BY InUseFrames
<1> HIDE DEF new
<1>4. /\ MemInv(MapPage(s, t, f, new), Hands \ {new})
      /\ NowMapped(s, MapPage(s, t, f, new), th[t].mm, th[t].a)
  BY <1>1, <1>2, <1>3, MapPageInv
<1>5. MemInv(mem', Hands \ {new}) /\ OnlyPte(s, mem', m, a)
  BY <1>4 DEF NowMapped, new
<1>6. /\ OneThread(t) /\ th'[t].ph = "retry" /\ th'[t].mm = m
      /\ th'[t].new = NoFrame /\ ~th'[t].wait /\ th'[t].to = NoMm
  <2>1. "retry" \in Phases /\ NoFrame \in Frame \cup {NoFrame}
    BY DEF Phases
  <2>2. BecomeWith(t, "retry", NoFrame)
    BY DEF Mapped, BecomeWith
  <2> QED
    BY <1>1, <2>1, <2>2, GoingWith
<1>7. MemInv(mem', Hands')
  <2>1. \A g \in Frame : g \in Hands \ {new} <=> g \in Hands'
    BY <1>2, <1>6, HandsMoved DEF new
  <2> QED
    BY <1>5, <2>1, SameHands
<1>8. StaysIn(t)
  BY <1>1, <1>6 DEF StaysIn, Locked, AllocPhase
<1>9. OwnTables(t)
  BY <1>1, <1>2, <1>5 DEF OwnTables, OnlyPte
<1>10. FoundAgain(t)
  BY <1>6 DEF FoundAgain
<1> QED
  BY <1>6, <1>7, <1>8, <1>9, <1>10, ThreadStepInv

LEMMA SwapInReadInv ==
  ASSUME SwapInv, NEW t \in Thread, SwapInRead(t)
  PROVE  SwapInv'
<1> DEFINE e == PteOf(t).e
           new == th[t].new
<1>1. Runs(t, "read") /\ Mapped(t) /\ UNCHANGED <<mmList, kswapd, pressure, halted>>
  BY DEF SwapInRead
<1>2. PICK f \in mem.free :
         IF CachedIn(mem, e) # {}
         THEN mem' = MapPage(mem, t, CHOOSE x \in CachedIn(mem, e) : TRUE, new)
         ELSE mem' = MapPage(CacheRead(mem, f, e), t, f, new)
  BY DEF SwapInRead, CacheRead
<1>3. /\ th[t].mm \in Mm /\ th[t].a \in Addr /\ MemInv(mem, Hands)
      /\ PteOf(t).k = "swap"
  BY <1>1, Running DEF SwapInv, FaultInv
<1>4. e \in Entry /\ Holders(mem)[e] > 0 /\ mem \in MemType
  <2>1. mem \in MemType /\ PteOf(t) = mem.pte[th[t].mm][th[t].a] /\ PteOf(t) \in Pte
    BY <1>3 DEF PteOf, MemInv, MemType
  <2>2. e \in Entry
    BY <1>3, <2>1, PteCases
  <2>3. Holds(PteOf(t), e)
    BY <1>3 DEF Holds
  <2> HIDE DEF e
  <2> QED
    BY <1>3, <2>1, <2>2, <2>3, InTableCounted
<1> HIDE DEF e
<1>5. CASE CachedIn(mem, e) # {}
  <2> DEFINE x == CHOOSE x \in CachedIn(mem, e) : TRUE
  <2>1. x \in Frame /\ mem.cache[x] # NoEntry
    BY <1>4, <1>5, EntryPositive DEF CachedIn
  <2>2. mem' = MapPage(mem, t, x, new)
    BY <1>2, <1>5
  <2> HIDE DEF x
  <2> QED
    BY <1>1, <1>3, <2>1, <2>2, MappedInv
<1>6. CASE CachedIn(mem, e) = {}
  <2> DEFINE s == CacheRead(mem, f, e)
  <2>1. mem' = MapPage(s, t, f, new)
    BY <1>2, <1>6
  <2>2. f \in Frame /\ \A g \in Frame : mem.cache[g] # e
    BY <1>4, <1>6 DEF CachedIn, MemType
  <2>3. /\ MemInv(s, Hands) /\ s.pte = mem.pte /\ s.sh = mem.sh /\ s.cache[f] = e
    BY <1>3, <1>4, <2>2, CacheReadInv
  <2>4. s.cache[f] # NoEntry
    BY <1>4, <2>3, EntryPositive
  <2> HIDE DEF s
  <2> QED
    BY <1>1, <2>1, <2>2, <2>3, <2>4, MappedInv
<1> QED
  BY <1>5, <1>6

LEMMA BrkInv ==
  ASSUME SwapInv, NEW t \in Thread, Brk(t)
  PROVE  SwapInv'
<1>1. /\ Runs(t, "user") /\ MmFree(t)
      /\ UNCHANGED <<th, cur, mmList, kswapd, pressure, halted>>
  BY DEF Brk
<1>2. PICK a \in Addr \ Shared : mem' = PageRemove(mem, th[t].mm, a)
  BY DEF Brk
<1>3. /\ th \in [Thread -> ThreadType] /\ th[t].ph = "user" /\ ~th[t].wait
      /\ th[t].mm \in Mm /\ th[t].new = NoFrame /\ th[t].to = NoMm
      /\ MemInv(mem, Hands)
  BY <1>1, Running
<1>4. MemInv(mem', Hands) /\ OnlyPte(mem, mem', th[t].mm, a)
  BY <1>2, <1>3, PageRemoveInv
<1>5. Hands' = Hands
  BY <1>1 DEF Hands
<1>6. OneThread(t)
  BY <1>1, <1>3 DEF OneThread, SwapInv
<1>7. StaysIn(t)
  BY <1>1, <1>3 DEF StaysIn, Locked, AllocPhase
<1>8. OwnTables(t)
  BY <1>1, <1>3, <1>4 DEF OwnTables, OnlyPte
<1>9. FoundAgain(t)
  BY <1>1, <1>3 DEF FoundAgain
<1> QED
  BY <1>4, <1>5, <1>6, <1>7, <1>8, <1>9, ThreadStepInv

-----------------------------------------------------------------------------
(* fork. *)

\* A thread's part of SpacesInv and of FaultInv, for its record r.
SpacesOf(r, list) ==
  /\ r.ph = "dead" <=> r.mm = NoMm
  /\ r.ph # "dead" => r.mm \in Range(list)
  /\ r.ph = "copy" <=> r.to # NoMm
  /\ r.to \notin Range(list)

FaultOf(r, s) ==
  /\ r.wait => r.ph \in AllocPhase
  /\ r.ph = "shm" => r.a \in Shared /\ s.sh[r.a] = NoPte
  /\ r.ph = "cow" => r.a \notin Shared /\ s.pte[r.mm][r.a].k # "none"
  /\ r.ph = "read" => /\ s.pte[r.mm][r.a].k = "swap"
                      /\ r.new = NoFrame <=> r.a \in Shared
  /\ r.ph # "read" => r.new = NoFrame

LEMMA ForkInv ==
  ASSUME SwapInv, NEW t \in Thread, Fork(t)
  PROVE  SwapInv'
<1>1. /\ Runs(t, "user") /\ MmFree(t)
      /\ UNCHANGED <<mem, mmList, kswapd, pressure, halted>>
  BY DEF Fork
<1>2. PICK m \in Mm \ InUse :
         Become(t, [th[t] EXCEPT !.ph = "copy", !.a = Cardinality(Addr),
                                 !.to = m])
  BY DEF Fork
<1>3. /\ th \in [Thread -> ThreadType] /\ th[t] \in ThreadType
      /\ th[t].ph = "user" /\ ~th[t].wait
      /\ th[t].mm \in Mm /\ th[t].mm \in Range(mmList)
      /\ th[t].new = NoFrame /\ th[t].to = NoMm /\ MemInv(mem, Hands)
  BY <1>1, Running
<1>4. Cardinality(Addr) \in Addr
  <2>1. Cardinality(Addr) \in Nat /\ Addr = 1 .. Cardinality(Addr) /\ Addr # {}
    BY SwapMemAssumption, FS_CardinalityType
  <2> QED
    BY <2>1
<1> DEFINE r == [th[t] EXCEPT !.ph = "copy", !.a = Cardinality(Addr), !.to = m]
<1>5. /\ r \in ThreadType /\ r.ph = "copy" /\ r.mm = th[t].mm /\ r.to = m
      /\ r.a = Cardinality(Addr) /\ r.new = NoFrame /\ ~r.wait
  BY <1>3, <1>4 DEF ThreadType, Phases, Locked, AllocPhase
<1>6. Become(t, r)
  BY <1>2
<1> HIDE DEF r
<1>7. OneThread(t) /\ th'[t] = r
  BY <1>1, <1>3, <1>5, <1>6, Becoming
<1>8. /\ th' \in [Thread -> ThreadType] /\ cur' \in Thread \cup {NoThread}
      /\ \A u \in Thread : u # t => th'[u] = th[u]
  BY <1>7 DEF OneThread
<1>9. /\ m # NoMm /\ m \notin Range(mmList)
      /\ \A u \in Thread : th[u].to # m
  BY SwapMemAssumption DEF InUse
<1>10. MemInv(mem', Hands')
  <2>1. \A f \in Frame : f \in Hands <=> f \in Hands'
    BY <1>3, <1>5, <1>7, HandsMoved, SwapMemAssumption
  <2> QED
    BY <1>1, <1>3, <2>1, SameHands
<1>11. SpacesInv'
  <2>1. SpacesInv
    BY DEF SwapInv
  <2>2. mmList' \in Seq(Mm) /\ IsInjective(mmList')
    BY <1>1, <2>1 DEF SpacesInv
  <2>3. ASSUME NEW u \in Thread
        PROVE  SpacesOf(th'[u], mmList')
    <3>1. CASE u = t
      BY <1>1, <1>3, <1>5, <1>7, <1>9, <3>1, SwapMemAssumption DEF SpacesOf
    <3>2. CASE u # t
      BY <1>1, <1>8, <2>1, <3>2 DEF SpacesInv, SpacesOf
    <3> QED
      BY <3>1, <3>2
  <2>4. ASSUME NEW u \in Thread, NEW v \in Thread, u # v
        PROVE  /\ th'[u].to = th'[v].to => th'[u].to = NoMm
               /\ ~(th'[u].mm = th'[v].mm /\ th'[u].ph \in Locked
                       /\ th'[v].ph \in Locked)
    <3>1. CASE u # t /\ v # t
      BY <1>8, <2>1, <2>4, <3>1 DEF SpacesInv
    <3>2. CASE u = t
      BY <1>1, <1>5, <1>7, <1>8, <1>9, <2>4, <3>2 DEF MmFree
    <3>3. CASE v = t
      BY <1>1, <1>5, <1>7, <1>8, <1>9, <2>4, <3>3 DEF MmFree
    <3> QED
      BY <3>1, <3>2, <3>3
  <2> QED
    BY <2>2, <2>3, <2>4 DEF SpacesInv, SpacesOf
<1>12. BlankInv'
  <2>1. BlankInv
    BY DEF SwapInv
  <2>2. \A u \in Thread : th[u].to # NoMm => u # t
    BY <1>3
  <2>3. NoMm \notin Mm
    BY SwapMemAssumption
  <2>4. ASSUME NEW i \in Mm, NEW b \in Addr
        PROVE  \/ i \in Range(mmList) \/ mem.pte[i][b] = NoPte
               \/ \E u \in Thread : th'[u].to = i /\ b > th'[u].a
    BY <1>8, <2>1, <2>2, <2>3 DEF BlankInv
  <2> QED
    BY <1>1, <2>4 DEF BlankInv
<1>13. FaultInv'
  <2>1. FaultInv
    BY DEF SwapInv
  <2>2. ASSUME NEW u \in Thread
        PROVE  FaultOf(th'[u], mem')
    <3>1. CASE u = t
      BY <1>5, <1>7, <3>1 DEF FaultOf
    <3>2. CASE u # t
      BY <1>1, <1>8, <2>1, <3>2 DEF FaultInv, FaultOf, PteOf
    <3> QED
      BY <3>1, <3>2
  <2>3. ASSUME NEW u \in Thread, NEW v \in Thread
        PROVE  /\ th'[u].ph = "shm" /\ th'[v].ph = "shm" => u = v
               /\ th'[u].new = th'[v].new /\ th'[u].new # NoFrame => u = v
    BY <1>5, <1>7, <1>8, <2>1 DEF FaultInv
  <2>4. \A u \in Thread : PteOf(u)' = mem'.pte[th'[u].mm][th'[u].a]
    BY DEF PteOf
  <2> QED
    BY <2>2, <2>3, <2>4 DEF FaultInv, FaultOf
<1>14. KswapdInv'
  <2>1. \A u \in Thread : th'[u].wait = th[u].wait
    BY <1>3, <1>5, <1>7, <1>8 DEF ThreadType
  <2> QED
    BY <1>1, <2>1, SamePressure DEF SwapInv
<1> QED
  BY <1>1, <1>8, <1>10, <1>11, <1>12, <1>13, <1>14 DEF SwapInv

LEMMA ListPushed ==
  ASSUME NEW q \in Seq(Mm), IsInjective(q), NEW m \in Mm, m \notin Range(q)
  PROVE  /\ <<m>> \o q \in Seq(Mm) /\ IsInjective(<<m>> \o q)
         /\ Range(<<m>> \o q) = Range(q) \cup {m}
<1> DEFINE n == Len(q)
           p == <<m>> \o q
<1>1. n \in Nat /\ DOMAIN q = 1 .. n /\ q \in [1 .. n -> Mm]
  OBVIOUS
<1>2. /\ p \in Seq(Mm) /\ DOMAIN p = 1 .. n + 1
      /\ p[1] = m /\ \A i \in 1 .. n + 1 : i > 1 => p[i] = q[i - 1]
  BY <1>1
<1> HIDE DEF p, n
<1>3. \A i \in 1 .. n : i + 1 \in 1 .. n + 1 /\ p[i + 1] = q[i]
  <2> TAKE i \in 1 .. n
  <2>1. i + 1 \in 1 .. n + 1 /\ i + 1 > 1 /\ (i + 1) - 1 = i
    BY <1>1
  <2> QED
    BY <1>2, <2>1
<1>4. Range(p) = Range(q) \cup {m}
  <2>1. ASSUME NEW x \in Range(p)
        PROVE  x \in Range(q) \cup {m}
    <3>1. PICK i \in 1 .. n + 1 : x = p[i]
      BY <1>2, <2>1 DEF Range
    <3>2. CASE i = 1
      BY <1>2, <3>1, <3>2
    <3>3. CASE i > 1
      <4>1. i - 1 \in 1 .. n /\ x = q[i - 1]
        BY <1>1, <1>2, <3>1, <3>3
      <4> QED
        BY <1>1, <4>1 DEF Range
    <3> QED
      BY <1>1, <3>1, <3>2, <3>3
  <2>2. ASSUME NEW x \in Range(q)
        PROVE  x \in Range(p)
    BY <1>1, <1>2, <1>3, <2>2 DEF Range
  <2>3. m \in Range(p)
    <3>1. 1 \in 1 .. n + 1
      BY <1>1
    <3> QED
      BY <1>2, <3>1 DEF Range
  <2> QED
    BY <2>1, <2>2, <2>3
<1>5. IsInjective(p)
  <2>1. SUFFICES ASSUME NEW i \in 1 .. n + 1, NEW j \in 1 .. n + 1, p[i] = p[j]
                 PROVE  i = j
    BY <1>2, <2>1 DEF IsInjective
  <2>2. \A k \in 1 .. n : q[k] # m
    BY <1>1 DEF Range
  <2>3. \A k, l \in 1 .. n : q[k] = q[l] => k = l
    BY <1>1 DEF IsInjective
  <2>4. CASE i = 1 /\ j > 1
    <3>1. j - 1 \in 1 .. n /\ p[j] = q[j - 1]
      BY <1>1, <1>2, <2>4
    <3> QED
      BY <1>2, <2>1, <2>2, <2>4, <3>1
  <2>5. CASE i > 1 /\ j = 1
    <3>1. i - 1 \in 1 .. n /\ p[i] = q[i - 1]
      BY <1>1, <1>2, <2>5
    <3> QED
      BY <1>2, <2>1, <2>2, <2>5, <3>1
  <2>6. CASE i > 1 /\ j > 1
    <3>1. /\ i - 1 \in 1 .. n /\ p[i] = q[i - 1]
          /\ j - 1 \in 1 .. n /\ p[j] = q[j - 1]
      BY <1>1, <1>2, <2>6
    <3>2. i - 1 = j - 1
      BY <2>1, <2>3, <3>1
    <3> QED
      BY <1>1, <3>2
  <2> QED
    BY <1>1, <2>4, <2>5, <2>6
<1> QED
  BY <1>2, <1>4, <1>5 DEF p

\* The tables before and after one page of a fork; nobody else sleeps with the
\* mm_lock of m.
LEMMA CopyStep ==
  ASSUME SwapInv, NEW t \in Thread, Runs(t, "copy"),
         mem' = CopyPte(mem, th[t].mm, th[t].to, th[t].a)
  PROVE  /\ th[t].to \in Mm /\ th[t].to \notin Range(mmList)
         /\ MemInv(mem', Hands) /\ mem'.sh = mem.sh
         /\ \A i \in Mm, b \in Addr :
               b # th[t].a \/ i \notin {th[t].mm, th[t].to}
                  => mem'.pte[i][b] = mem.pte[i][b]
         /\ \A u \in Thread : u # t => FaultOf(th[u], mem')
<1> DEFINE m == th[t].mm
           to == th[t].to
           a == th[t].a
<1>1. /\ th \in [Thread -> ThreadType] /\ th[t] \in ThreadType
      /\ th[t].ph = "copy" /\ m \in Mm /\ m \in Range(mmList) /\ a \in Addr
      /\ MemInv(mem, Hands)
  BY Running
<1>2. SpacesInv /\ BlankInv /\ FaultInv
  BY DEF SwapInv
<1>3. to \in Mm /\ to \notin Range(mmList) /\ m # to
  BY <1>1, <1>2 DEF SpacesInv, ThreadType
<1>4. mem.pte[to][a] = NoPte
  <2>1. \A u \in Thread : th[u].to = to => u = t
    BY <1>2, <1>3, SwapMemAssumption DEF SpacesInv
  <2>2. ~(a > a)
    <3>1. a \in 1 .. Cardinality(Addr) /\ Cardinality(Addr) \in Nat
      BY <1>1, SwapMemAssumption, FS_CardinalityType
    <3> QED
      BY <3>1
  <2> QED
    BY <1>1, <1>2, <1>3, <2>1, <2>2 DEF BlankInv
<1> HIDE DEF m, to, a
<1>5. /\ MemInv(CopyPte(mem, m, to, a), Hands)
      /\ CopyPte(mem, m, to, a).sh = mem.sh
      /\ \A i \in Mm, b \in Addr :
            b # a \/ i \notin {m, to}
               => CopyPte(mem, m, to, a).pte[i][b] = mem.pte[i][b]
  BY <1>1, <1>3, <1>4, CopyPteInv
<1>6. mem' = CopyPte(mem, m, to, a)
  BY DEF m, to, a
<1>7. ASSUME NEW u \in Thread, u # t
      PROVE  FaultOf(th[u], mem')
  <2>1. FaultOf(th[u], mem)
    BY <1>2 DEF FaultInv, FaultOf, PteOf
  <2>2. th[u].ph \in {"cow", "read"} =>
           mem'.pte[th[u].mm][th[u].a] = mem.pte[th[u].mm][th[u].a]
    <3>1. SUFFICES ASSUME th[u].ph \in {"cow", "read"}
                   PROVE  mem'.pte[th[u].mm][th[u].a] = mem.pte[th[u].mm][th[u].a]
      BY <3>1
    <3>2. th[u].ph \in Locked /\ th[u].ph # "dead" /\ th[t].ph \in Locked
      BY <1>1, <3>1 DEF Locked, AllocPhase
    <3>3. th[u].mm \in Range(mmList) /\ th[u].mm # m /\ mmList \in Seq(Mm)
      BY <1>2, <1>7, <3>2 DEF SpacesInv, m
    <3>4. th[u].mm \in Mm /\ th[u].a \in Addr
      BY <1>1, <3>3, SwapMemAssumption DEF ThreadType, Range
    <3> QED
      BY <1>3, <1>5, <1>6, <3>3, <3>4
  <2> QED
    BY <1>5, <1>6, <2>1, <2>2 DEF FaultOf
<1> QED
  BY <1>3, <1>5, <1>6, <1>7 DEF m, to, a

LEMMA CopyRangeInv ==
  ASSUME SwapInv, NEW t \in Thread, CopyRange(t)
  PROVE  SwapInv'
<1> DEFINE m == th[t].mm
           to == th[t].to
           a == th[t].a
<1>1. /\ Runs(t, "copy") /\ mem' = CopyPte(mem, th[t].mm, th[t].to, th[t].a)
      /\ UNCHANGED <<kswapd, pressure, halted>>
  BY DEF CopyRange
<1>2. /\ th \in [Thread -> ThreadType] /\ th[t] \in ThreadType
      /\ th[t].ph = "copy" /\ ~th[t].wait /\ th[t].new = NoFrame
      /\ m \in Mm /\ m \in Range(mmList) /\ a \in Addr
  BY <1>1, Running
<1>3. /\ to \in Mm /\ to \notin Range(mmList)
      /\ MemInv(mem', Hands) /\ mem'.sh = mem.sh
      /\ \A i \in Mm, b \in Addr :
            b # a \/ i \notin {m, to} => mem'.pte[i][b] = mem.pte[i][b]
      /\ \A u \in Thread : u # t => FaultOf(th[u], mem')
  BY <1>1, CopyStep
<1>4. SpacesInv /\ BlankInv /\ FaultInv /\ NoMm \notin Mm /\ NoFrame \notin Frame
  BY SwapMemAssumption DEF SwapInv
<1>5. a \in Nat /\ a >= 1 /\ (a > 1 => a - 1 \in Addr)
      /\ \A b \in Addr : b \in Nat
  <2>1. Addr = 1 .. Cardinality(Addr) /\ Cardinality(Addr) \in Nat
    BY SwapMemAssumption, FS_CardinalityType
  <2> QED
    BY <1>2, <2>1
<1>6. CASE a > 1
  <2> DEFINE r == [th[t] EXCEPT !.a = a - 1]
  <2>1. Become(t, r) /\ mmList' = mmList
    BY <1>6 DEF CopyRange
  <2>2. /\ r \in ThreadType /\ r.ph = "copy" /\ r.mm = m /\ r.to = to
        /\ r.a = a - 1 /\ r.new = NoFrame /\ ~r.wait
    BY <1>2, <1>5, <1>6 DEF ThreadType
  <2> HIDE DEF r
  <2>3. OneThread(t) /\ th'[t] = r
    BY <1>1, <1>2, <2>1, <2>2, Becoming
  <2>4. /\ th' \in [Thread -> ThreadType] /\ cur' \in Thread \cup {NoThread}
        /\ \A u \in Thread : u # t => th'[u] = th[u]
    BY <2>3 DEF OneThread
  <2> HIDE DEF m, to, a
  <2>5. MemInv(mem', Hands')
    <3>1. \A f \in Frame : f \in Hands <=> f \in Hands'
      BY <1>2, <1>4, <2>2, <2>3, HandsMoved
    <3> QED
      BY <1>3, <3>1, SameHands
  <2>6. SpacesInv'
    <3>1. \A u \in Thread : /\ th'[u].ph = th[u].ph /\ th'[u].mm = th[u].mm
                            /\ th'[u].to = th[u].to
      BY <1>2, <2>2, <2>3, <2>4 DEF m, to
    <3> QED
      BY <1>4, <2>1, <3>1 DEF SpacesInv
  <2>7. BlankInv'
    <3>1. SUFFICES ASSUME NEW i \in Mm, NEW b \in Addr, i \notin Range(mmList),
                          mem'.pte[i][b] # NoPte
                   PROVE  \E u \in Thread : th'[u].to = i /\ b > th'[u].a
      BY <2>1, <3>1 DEF BlankInv
    <3>2. CASE mem.pte[i][b] = NoPte
      <4>1. b = a /\ i = to
        BY <1>2, <1>3, <3>1, <3>2
      <4>2. th'[t].to = i /\ b > th'[t].a
        BY <1>5, <2>2, <2>3, <4>1
      <4> QED
        BY <4>2
    <3>3. CASE mem.pte[i][b] # NoPte
      <4>1. PICK u \in Thread : th[u].to = i /\ b > th[u].a
        BY <1>4, <3>1, <3>3 DEF BlankInv
      <4>2. CASE u = t
        <5>1. th'[t].to = i /\ b > th'[t].a
          BY <1>5, <2>2, <2>3, <4>1, <4>2 DEF to, a
        <5> QED
          BY <5>1
      <4>3. CASE u # t
        BY <2>4, <4>1, <4>3
      <4> QED
        BY <4>2, <4>3
    <3> QED
      BY <3>2, <3>3
  <2>8. FaultInv'
    <3>1. ASSUME NEW u \in Thread
          PROVE  FaultOf(th'[u], mem')
      <4>1. CASE u = t
        BY <2>2, <2>3, <4>1 DEF FaultOf
      <4>2. CASE u # t
        BY <1>3, <2>4, <4>2
      <4> QED
        BY <4>1, <4>2
    <3>2. ASSUME NEW u \in Thread, NEW v \in Thread
          PROVE  /\ th'[u].ph = "shm" /\ th'[v].ph = "shm" => u = v
                 /\ th'[u].new = th'[v].new /\ th'[u].new # NoFrame => u = v
      BY <1>4, <2>2, <2>3, <2>4 DEF FaultInv
    <3>3. \A u \in Thread : PteOf(u)' = mem'.pte[th'[u].mm][th'[u].a]
      BY DEF PteOf
    <3> QED
      BY <3>1, <3>2, <3>3 DEF FaultInv, FaultOf
  <2>9. KswapdInv'
    <3>1. \A u \in Thread : th'[u].wait = th[u].wait
      BY <1>2, <2>2, <2>3, <2>4 DEF ThreadType
    <3> QED
      BY <1>1, <3>1, SamePressure DEF SwapInv
  <2> QED
    BY <1>1, <2>4, <2>5, <2>6, <2>7, <2>8, <2>9 DEF SwapInv
<1>7. CASE a = 1
  <2> DEFINE r == Idle("user", m)
             c == Idle("user", to)
  <2>1. PICK u \in Thread : th[u].ph = "dead" /\ th' = [th EXCEPT ![t] = r, ![u] = c]
    BY <1>7 DEF CopyRange
  <2>2. cur' = NoThread /\ mmList' = <<to>> \o mmList
    BY <1>7 DEF CopyRange
  <2>3. /\ r \in ThreadType /\ r.ph = "user" /\ r.mm = m
        /\ r.new = NoFrame /\ r.to = NoMm /\ ~r.wait
        /\ c \in ThreadType /\ c.ph = "user" /\ c.mm = to
        /\ c.new = NoFrame /\ c.to = NoMm /\ ~c.wait
    BY <1>2, <1>3, IdleType DEF Phases
  <2> HIDE DEF r, c, m, to, a
  <2>4. /\ th' \in [Thread -> ThreadType] /\ u # t
        /\ th'[t] = r /\ th'[u] = c
        /\ \A v \in Thread : v # t /\ v # u => th'[v] = th[v]
    BY <1>2, <2>1, <2>3
  <2>5. th[u].new = NoFrame /\ ~th[u].wait /\ th[u].to = NoMm
    BY <1>4, <2>1 DEF FaultInv, SpacesInv, AllocPhase
  <2>6. MemInv(mem', Hands')
    <3>1. \A v \in Thread : th'[v].new = th[v].new
      BY <1>2, <2>3, <2>4, <2>5
    <3>2. Hands' = Hands
      BY <3>1 DEF Hands
    <3> QED
      BY <1>3, <3>2
  <2>7. /\ mmList' \in Seq(Mm) /\ IsInjective(mmList')
        /\ Range(mmList') = Range(mmList) \cup {to}
    BY <1>3, <1>4, <2>2, ListPushed DEF SpacesInv
  <2>8. SpacesInv'
    <3>0. Range(mmList) \subseteq Mm
      BY <1>4 DEF SpacesInv, Range
    <3>1. ASSUME NEW v \in Thread
          PROVE  SpacesOf(th'[v], mmList')
      <4>1. CASE v = t
        BY <1>2, <1>3, <1>4, <2>3, <2>4, <2>7, <3>0, <4>1 DEF SpacesOf
      <4>2. CASE v = u
        BY <1>2, <1>3, <1>4, <2>3, <2>4, <2>7, <3>0, <4>2 DEF SpacesOf
      <4>3. CASE v # t /\ v # u
        BY <1>2, <1>3, <1>4, <2>4, <2>7, <4>3 DEF SpacesOf, SpacesInv, to
      <4> QED
        BY <4>1, <4>2, <4>3
    <3>2. "user" \notin Locked
      BY DEF Locked, AllocPhase
    <3>3. ASSUME NEW v \in Thread, NEW w \in Thread, v # w
          PROVE  /\ th'[v].to = th'[w].to => th'[v].to = NoMm
                 /\ ~(th'[v].mm = th'[w].mm /\ th'[v].ph \in Locked
                         /\ th'[w].ph \in Locked)
      BY <1>4, <2>3, <2>4, <3>2, <3>3 DEF SpacesInv
    <3> QED
      BY <2>7, <3>1, <3>3 DEF SpacesInv, SpacesOf
  <2>9. BlankInv'
    <3>1. SUFFICES ASSUME NEW i \in Mm, NEW b \in Addr, i \notin Range(mmList),
                          i # to, mem'.pte[i][b] # NoPte
                   PROVE  \E v \in Thread : th'[v].to = i /\ b > th'[v].a
      BY <2>7, <3>1 DEF BlankInv
    <3>2. mem'.pte[i][b] = mem.pte[i][b]
      BY <1>2, <1>3, <3>1
    <3>3. PICK v \in Thread : th[v].to = i /\ b > th[v].a
      BY <1>4, <3>1, <3>2 DEF BlankInv
    <3>4. v # t /\ v # u
      BY <1>4, <2>5, <3>1, <3>3 DEF to
    <3> QED
      BY <2>4, <3>3, <3>4
  <2>10. FaultInv'
    <3>1. ASSUME NEW v \in Thread
          PROVE  FaultOf(th'[v], mem')
      <4>1. CASE v = t \/ v = u
        BY <2>3, <2>4, <4>1 DEF FaultOf
      <4>2. CASE v # t /\ v # u
        BY <1>3, <2>4, <4>2
      <4> QED
        BY <4>1, <4>2
    <3>2. ASSUME NEW v \in Thread, NEW w \in Thread
          PROVE  /\ th'[v].ph = "shm" /\ th'[w].ph = "shm" => v = w
                 /\ th'[v].new = th'[w].new /\ th'[v].new # NoFrame => v = w
      BY <1>4, <2>3, <2>4 DEF FaultInv
    <3>3. \A v \in Thread : PteOf(v)' = mem'.pte[th'[v].mm][th'[v].a]
      BY DEF PteOf
    <3> QED
      BY <3>1, <3>2, <3>3 DEF FaultInv, FaultOf
  <2>11. KswapdInv'
    <3>1. \A v \in Thread : th'[v].wait = th[v].wait
      BY <1>2, <2>3, <2>4, <2>5 DEF ThreadType
    <3> QED
      BY <1>1, <3>1, SamePressure DEF SwapInv
  <2> QED
    BY <1>1, <2>2, <2>4, <2>6, <2>8, <2>9, <2>10, <2>11 DEF SwapInv
<1> QED
  BY <1>5, <1>6, <1>7

-----------------------------------------------------------------------------
(* exit. *)

LEMMA ListRemoved ==
  ASSUME NEW q \in Seq(Mm), IsInjective(q), NEW k \in DOMAIN q
  PROVE  /\ RemoveAt(q, k) \in Seq(Mm) /\ IsInjective(RemoveAt(q, k))
         /\ Range(RemoveAt(q, k)) = Range(q) \ {q[k]}
<1> DEFINE n == Len(q)
           p == RemoveAt(q, k)
           x == SubSeq(q, 1, k - 1)
           y == SubSeq(q, k + 1, n)
<1>1. n \in Nat /\ DOMAIN q = 1 .. n /\ k \in 1 .. n /\ \A i \in 1 .. n : q[i] \in Mm
  OBVIOUS
<1>2. p = x \o y
  BY DEF RemoveAt
<1>3. /\ x \in Seq(Mm) /\ Len(x) = k - 1 /\ \A i \in 1 .. k - 1 : x[i] = q[i]
  BY <1>1
<1>4. /\ y \in Seq(Mm) /\ Len(y) = n - k /\ \A i \in 1 .. n - k : y[i] = q[k + i]
  <2>1. /\ k + 1 \in 1 .. n + 1 /\ Len(y) = n - k
        /\ y \in Seq(Mm)
    BY <1>1
  <2>2. ASSUME NEW i \in 1 .. n - k
        PROVE  y[i] = q[k + i]
    BY <1>1
  <2> QED
    BY <2>1, <2>2
<1> HIDE DEF x, y, p, n
<1>5. /\ p \in Seq(Mm) /\ Len(p) = n - 1 /\ DOMAIN p = 1 .. n - 1
  <2>1. p \in Seq(Mm) /\ Len(p) = Len(x) + Len(y)
    BY <1>2, <1>3, <1>4
  <2>2. (k - 1) + (n - k) = n - 1
    BY <1>1
  <2>3. Len(p) = n - 1
    BY <1>3, <1>4, <2>1, <2>2
  <2> QED
    BY <2>1, <2>3
<1>6. ASSUME NEW i \in 1 .. n - 1
      PROVE  p[i] = IF i < k THEN q[i] ELSE q[i + 1]
  <2>1. CASE i < k
    <3>1. i \in 1 .. Len(x) /\ p[i] = x[i]
      BY <1>1, <1>2, <1>3, <1>4, <2>1
    <3> QED
      BY <1>1, <1>3, <2>1, <3>1
  <2>2. CASE i >= k
    <3>1. i - (k - 1) \in 1 .. n - k /\ k + (i - (k - 1)) = i + 1
      BY <1>1, <2>2
    <3>2. p[i] = y[i - Len(x)]
      <4>1. i \in 1 .. Len(x) + Len(y) /\ i > Len(x)
        BY <1>1, <1>3, <1>4, <2>2
      <4> QED
        BY <1>2, <1>3, <1>4, <4>1
    <3>3. y[i - (k - 1)] = q[k + (i - (k - 1))]
      BY <1>4, <3>1
    <3> QED
      BY <1>1, <1>3, <2>2, <3>1, <3>2, <3>3
  <2> QED
    BY <1>1, <2>1, <2>2
<1>7. \A i, j \in 1 .. n : q[i] = q[j] => i = j
  BY <1>1 DEF IsInjective
<1>8. IsInjective(p)
  <2>1. SUFFICES ASSUME NEW i \in 1 .. n - 1, NEW j \in 1 .. n - 1, p[i] = p[j]
                 PROVE  i = j
    BY <1>5, <2>1 DEF IsInjective
  <2>2. i \in 1 .. n /\ j \in 1 .. n /\ i + 1 \in 1 .. n /\ j + 1 \in 1 .. n
    BY <1>1
  <2>3. /\ i < k /\ j < k => i = j
        /\ i < k /\ ~(j < k) => i = j + 1
        /\ ~(i < k) /\ j < k => i + 1 = j
        /\ ~(i < k) /\ ~(j < k) => i + 1 = j + 1
    BY <1>6, <1>7, <2>1, <2>2
  <2> QED
    BY <1>1, <2>2, <2>3
<1>9. Range(p) = Range(q) \ {q[k]}
  <2>1. ASSUME NEW v \in Range(p)
        PROVE  v \in Range(q) \ {q[k]}
    <3>1. PICK i \in 1 .. n - 1 : v = p[i]
      BY <1>5, <2>1 DEF Range
    <3>2. CASE i < k
      <4>1. i \in 1 .. n /\ i # k /\ v = q[i]
        BY <1>1, <1>6, <3>1, <3>2
      <4> QED
        BY <1>1, <1>7, <4>1 DEF Range
    <3>3. CASE ~(i < k)
      <4>1. i + 1 \in 1 .. n /\ i + 1 # k /\ v = q[i + 1]
        BY <1>1, <1>6, <3>1, <3>3
      <4> QED
        BY <1>1, <1>7, <4>1 DEF Range
    <3> QED
      BY <3>2, <3>3
  <2>2. ASSUME NEW v \in Range(q) \ {q[k]}
        PROVE  v \in Range(p)
    <3>1. PICK i \in 1 .. n : v = q[i]
      BY <1>1, <2>2 DEF Range
    <3>2. CASE i < k
      <4>1. i \in 1 .. n - 1 /\ p[i] = v
        BY <1>1, <1>6, <3>1, <3>2
      <4> QED
        BY <1>5, <4>1 DEF Range
    <3>3. CASE i > k
      <4>1. i - 1 \in 1 .. n - 1 /\ ~(i - 1 < k) /\ (i - 1) + 1 = i
        BY <1>1, <3>3
      <4>2. p[i - 1] = v
        BY <1>6, <3>1, <4>1
      <4> QED
        BY <1>5, <4>1, <4>2 DEF Range
    <3>4. i # k
      BY <2>2, <3>1
    <3> QED
      BY <1>1, <3>2, <3>3, <3>4
  <2> QED
    BY <2>1, <2>2
<1> QED
  BY <1>5, <1>8, <1>9 DEF p

\* The last thread of an address space.
LEMMA LastUser ==
  ASSUME NEW t \in Thread, ~(MmCount(th[t].mm) > 1)
  PROVE  \A u \in Thread : th[u].mm = th[t].mm => u = t
<1> DEFINE S == {u \in Thread : th[u].mm = th[t].mm}
<1>1. IsFiniteSet(S) /\ t \in S /\ Cardinality(S) \in Nat
  BY SwapMemAssumption, FS_Subset, FS_CardinalityType
<1>2. Cardinality(S) <= 1
  BY <1>1 DEF MmCount
<1> HIDE DEF S
<1>3. /\ IsFiniteSet(S \ {t}) /\ Cardinality(S \ {t}) = Cardinality(S) - 1
      /\ Cardinality(S \ {t}) \in Nat
  BY <1>1, FS_RemoveElement, FS_CardinalityType
<1>4. Cardinality(S \ {t}) = 0
  BY <1>1, <1>2, <1>3
<1>5. S \ {t} = {}
  BY <1>3, <1>4, FS_EmptySet
<1> QED
  BY <1>5 DEF S

LEMMA ExitFromInv ==
  ASSUME SwapInv, NEW t \in Thread, NEW ph \in {"user", "retry", "read"},
         Runs(t, ph), NEW s, MemInv(s, Hands \ {th[t].new}),
         s.pte = mem.pte, s.sh = mem.sh, ExitFrom(s, t)
  PROVE  SwapInv'
<1> DEFINE m == th[t].mm
           r == Idle("dead", NoMm)
           H == Hands \ {th[t].new}
<1>1. /\ th \in [Thread -> ThreadType] /\ th[t].ph = ph
      /\ ~th[t].wait /\ m \in Mm /\ m \in Range(mmList) /\ th[t].to = NoMm
  BY Running
<1>2. SpacesInv /\ BlankInv /\ FaultInv /\ NoMm \notin Mm /\ NoFrame \notin Frame
  BY SwapMemAssumption DEF SwapInv
<1>3. Become(t, r) /\ UNCHANGED <<kswapd, pressure, halted>>
  BY DEF ExitFrom
<1>4. /\ r \in ThreadType /\ r.ph = "dead" /\ r.mm = NoMm
      /\ r.new = NoFrame /\ r.to = NoMm /\ ~r.wait
  BY IdleType DEF Phases
<1> HIDE DEF r
<1>5. /\ th' \in [Thread -> ThreadType] /\ cur' \in Thread \cup {NoThread}
      /\ th'[t] = r /\ \A u \in Thread : u # t => th'[u] = th[u]
  BY <1>1, <1>3, <1>4 DEF Become
<1>6. \A f \in Frame : f \in H <=> f \in Hands'
  <2>1. \A u \in Thread : u # t /\ th[u].new # NoFrame => th[u].new # th[t].new
    BY <1>2 DEF FaultInv
  <2> QED
    BY <1>2, <1>4, <1>5, <2>1 DEF Hands
<1>7. Range(mmList) \subseteq Mm
  BY <1>2 DEF SpacesInv, Range
\* What remains of the address space and of the list.
<1>8. /\ MemInv(mem', H)
      /\ mmList' \in Seq(Mm) /\ IsInjective(mmList')
      /\ Range(mmList') \subseteq Range(mmList)
      /\ \A i \in Mm, b \in Addr : i # m => mem'.pte[i][b] = mem.pte[i][b]
      /\ \A b \in Shared : mem.sh[b] = NoPte => mem'.sh[b] = NoPte
      /\ \/ mem'.pte = mem.pte /\ mmList' = mmList
         \/ /\ Range(mmList') = Range(mmList) \ {m}
            /\ \A b \in Addr : mem'.pte[m][b] = NoPte
            /\ \A u \in Thread : th[u].mm = m => u = t
  <2>1. mmList \in Seq(Mm) /\ IsInjective(mmList)
    BY <1>2 DEF SpacesInv
  <2>2. CASE MmCount(m) > 1
    <3>1. mem' = s /\ mmList' = mmList
      BY <2>2 DEF ExitFrom
    <3> QED
      BY <2>1, <3>1
  <2>3. CASE ~(MmCount(m) > 1)
    <3> DEFINE last == Without(m) = <<>>
    <3>1. mem' = ExitMmap(s, m, last) /\ mmList' = Without(m)
      BY <2>3 DEF ExitFrom
    <3>2. PICK k \in DOMAIN mmList : k = CHOOSE i \in DOMAIN mmList : mmList[i] = m
      BY <1>1 DEF Range
    <3>3. mmList[k] = m
      BY <1>1, <3>2 DEF Range
    <3>4. mmList' = RemoveAt(mmList, k)
      BY <3>1, <3>2 DEF Without
    <3>5. /\ mmList' \in Seq(Mm) /\ IsInjective(mmList')
          /\ Range(mmList') = Range(mmList) \ {m}
      BY <2>1, <3>3, <3>4, ListRemoved
    <3>6. \A u \in Thread : th[u].mm = m => u = t
      BY <2>3, LastUser
    <3> HIDE DEF last, m, H
    <3>7. /\ MemInv(ExitMmap(s, m, last), H)
          /\ \A a \in Addr : ExitMmap(s, m, last).pte[m][a] = NoPte
          /\ \A i \in Mm, a \in Addr :
                i # m => ExitMmap(s, m, last).pte[i][a] = s.pte[i][a]
          /\ \A b \in Shared :
                s.sh[b] = NoPte => ExitMmap(s, m, last).sh[b] = NoPte
      <4>1. MemInv(s, H)
        BY DEF H
      <4> QED
        BY <1>1, <4>1, ExitMmapInv
    <3> QED
      BY <3>1, <3>5, <3>6, <3>7
  <2> QED
    BY <2>2, <2>3
<1>9. MemInv(mem', Hands')
  BY <1>6, <1>8, SameHands
<1> HIDE DEF H, m
<1>10. SpacesInv'
  <2>1. ASSUME NEW u \in Thread
        PROVE  SpacesOf(th'[u], mmList')
    <3>1. CASE u = t
      BY <1>2, <1>4, <1>5, <1>7, <1>8, <3>1 DEF SpacesOf
    <3>2. CASE u # t
      BY <1>2, <1>5, <1>8, <3>2 DEF SpacesOf, SpacesInv
    <3> QED
      BY <3>1, <3>2
  <2>2. "dead" \notin Locked
    BY DEF Locked, AllocPhase
  <2>3. ASSUME NEW v \in Thread, NEW w \in Thread, v # w
        PROVE  /\ th'[v].to = th'[w].to => th'[v].to = NoMm
               /\ ~(th'[v].mm = th'[w].mm /\ th'[v].ph \in Locked
                       /\ th'[w].ph \in Locked)
    BY <1>2, <1>4, <1>5, <2>2, <2>3 DEF SpacesInv
  <2> QED
    BY <1>8, <2>1, <2>3 DEF SpacesInv, SpacesOf
<1>11. BlankInv'
  <2>1. SUFFICES ASSUME NEW i \in Mm, NEW b \in Addr, i \notin Range(mmList'),
                        mem'.pte[i][b] # NoPte
                 PROVE  \E v \in Thread : th'[v].to = i /\ b > th'[v].a
    BY <2>1 DEF BlankInv
  <2>2. mem'.pte[i][b] = mem.pte[i][b] /\ i \notin Range(mmList)
    BY <1>8, <2>1
  <2>3. PICK v \in Thread : th[v].to = i /\ b > th[v].a
    BY <1>2, <2>1, <2>2 DEF BlankInv
  <2>4. v # t
    BY <1>1, <1>2, <2>1, <2>3
  <2> QED
    BY <1>5, <2>3, <2>4
<1>12. FaultInv'
  <2>1. ASSUME NEW u \in Thread
        PROVE  FaultOf(th'[u], mem')
    <3>1. CASE u = t
      BY <1>4, <1>5, <3>1 DEF FaultOf
    <3>2. CASE u # t
      <4>1. FaultOf(th[u], mem)
        BY <1>2 DEF FaultInv, FaultOf, PteOf
      <4>2. th[u].ph \in {"cow", "read"} =>
               mem'.pte[th[u].mm][th[u].a] = mem.pte[th[u].mm][th[u].a]
        <5>1. SUFFICES ASSUME th[u].ph \in {"cow", "read"}
                       PROVE  mem'.pte[th[u].mm][th[u].a] = mem.pte[th[u].mm][th[u].a]
          BY <5>1
        <5>2. th[u].mm \in Range(mmList)
          BY <1>2, <5>1 DEF SpacesInv
        <5>3. th[u].mm \in Mm /\ th[u].a \in Addr
          BY <1>1, <1>7, <5>2 DEF ThreadType
        <5> QED
          BY <1>8, <3>2, <5>3
      <4> QED
        BY <1>5, <1>8, <3>2, <4>1, <4>2 DEF FaultOf
    <3> QED
      BY <3>1, <3>2
  <2>2. ASSUME NEW u \in Thread, NEW v \in Thread
        PROVE  /\ th'[u].ph = "shm" /\ th'[v].ph = "shm" => u = v
               /\ th'[u].new = th'[v].new /\ th'[u].new # NoFrame => u = v
    BY <1>2, <1>4, <1>5 DEF FaultInv
  <2>3. \A u \in Thread : PteOf(u)' = mem'.pte[th'[u].mm][th'[u].a]
    BY DEF PteOf
  <2> QED
    BY <2>1, <2>2, <2>3 DEF FaultInv, FaultOf
<1>13. KswapdInv'
  <2>1. \A u \in Thread : th'[u].wait = th[u].wait
    BY <1>1, <1>4, <1>5 DEF ThreadType
  <2> QED
    BY <1>3, <2>1, SamePressure DEF SwapInv
<1> QED
  BY <1>3, <1>5, <1>9, <1>10, <1>11, <1>12, <1>13 DEF SwapInv

LEMMA ExitsInv ==
  ASSUME SwapInv, NEW t \in Thread, Exit(t) \/ SwapInFails(t)
  PROVE  SwapInv'
<1>1. MemInv(mem, Hands) /\ NoFrame \notin Frame
  BY SwapMemAssumption DEF SwapInv
<1>2. CASE Exit(t)
  <2>1. PICK ph \in {"user", "retry"} : Runs(t, ph)
    BY <1>2 DEF Exit
  <2>2. th[t].new = NoFrame
    BY <2>1, Running
  <2>3. MemInv(mem, Hands \ {th[t].new})
    BY <1>1, <2>2, SameHands
  <2>4. ExitFrom(mem, t)
    BY <1>2 DEF Exit
  <2> QED
    BY <2>1, <2>3, <2>4, ExitFromInv
<1>3. CASE SwapInFails(t)
  <2> DEFINE s == IF th[t].new = NoFrame THEN mem ELSE FreePage(mem, th[t].new)
  <2>1. Runs(t, "read") /\ ExitFrom(s, t)
    BY <1>3 DEF SwapInFails
  <2>2. th[t].new \in Frame \cup {NoFrame} /\ th[t].new \in Hands
    BY <2>1, Running DEF Hands
  <2>3. MemInv(s, Hands \ {th[t].new}) /\ s.pte = mem.pte /\ s.sh = mem.sh
    <3>1. CASE th[t].new = NoFrame
      <4>1. s = mem
        BY <3>1
      <4>2. MemInv(mem, Hands \ {th[t].new})
        BY <1>1, <3>1, SameHands
      <4> QED
        BY <4>1, <4>2
    <3>2. CASE th[t].new # NoFrame
      <4>1. s = FreePage(mem, th[t].new)
        BY <3>2
      <4> QED
        BY <1>1, <2>2, <3>2, <4>1, FreeHandInv
    <3> QED
      BY <3>1, <3>2
  <2> HIDE DEF s
  <2> QED
    BY <2>1, <2>3, ExitFromInv
<1> QED
  BY <1>2, <1>3

-----------------------------------------------------------------------------
(* kswapd. *)

LEMMA ListTurned ==
  ASSUME NEW q \in Seq(Mm), IsInjective(q), q # <<>>
  PROVE  /\ Head(q) \in Mm
         /\ Append(Tail(q), Head(q)) \in Seq(Mm)
         /\ IsInjective(Append(Tail(q), Head(q)))
         /\ Range(Append(Tail(q), Head(q))) = Range(q)
<1> DEFINE n == Len(q)
           p == Append(Tail(q), Head(q))
<1>1. /\ n \in Nat \ {0} /\ DOMAIN q = 1 .. n /\ \A i \in 1 .. n : q[i] \in Mm
      /\ Head(q) = q[1] /\ 1 \in 1 .. n /\ n \in 1 .. n
  OBVIOUS
<1>2. /\ Tail(q) \in Seq(Mm) /\ Len(Tail(q)) = n - 1
      /\ \A i \in 1 .. n - 1 : Tail(q)[i] = q[i + 1]
  BY <1>1
<1>3. /\ p \in Seq(Mm) /\ DOMAIN p = 1 .. n /\ p[n] = q[1]
      /\ \A i \in 1 .. n - 1 : p[i] = q[i + 1]
  BY <1>1, <1>2
<1> HIDE DEF p, n
<1>4. IsInjective(p)
  <2>1. SUFFICES ASSUME NEW i \in 1 .. n, NEW j \in 1 .. n, p[i] = p[j]
                 PROVE  i = j
    BY <1>3, <2>1 DEF IsInjective
  <2>2. \A k, l \in 1 .. n : q[k] = q[l] => k = l
    BY <1>1 DEF IsInjective
  <2>3. ASSUME NEW k \in 1 .. n, k # n
        PROVE  k \in 1 .. n - 1 /\ k + 1 \in 1 .. n /\ k + 1 # 1
    BY <1>1, <2>3
  <2>4. CASE i = n
    BY <1>1, <1>3, <2>1, <2>2, <2>3, <2>4
  <2>5. CASE j = n
    BY <1>1, <1>3, <2>1, <2>2, <2>3, <2>5
  <2>6. CASE i # n /\ j # n
    <3>1. i + 1 = j + 1
      BY <1>3, <2>1, <2>2, <2>3, <2>6
    <3> QED
      BY <1>1, <3>1
  <2> QED
    BY <2>4, <2>5, <2>6
<1>5. Range(p) = Range(q)
  <2>1. ASSUME NEW v \in Range(p)
        PROVE  v \in Range(q)
    <3>1. PICK i \in 1 .. n : v = p[i]
      BY <1>3, <2>1 DEF Range
    <3>2. CASE i = n
      BY <1>1, <1>3, <3>1, <3>2 DEF Range
    <3>3. CASE i # n
      <4>1. i \in 1 .. n - 1 /\ i + 1 \in 1 .. n
        BY <1>1, <3>3
      <4> QED
        BY <1>1, <1>3, <3>1, <4>1 DEF Range
    <3> QED
      BY <3>2, <3>3
  <2>2. ASSUME NEW v \in Range(q)
        PROVE  v \in Range(p)
    <3>1. PICK i \in 1 .. n : v = q[i]
      BY <1>1, <2>2 DEF Range
    <3>2. CASE i = 1
      BY <1>1, <1>3, <3>1, <3>2 DEF Range
    <3>3. CASE i # 1
      <4>1. i - 1 \in 1 .. n - 1 /\ i - 1 \in 1 .. n /\ (i - 1) + 1 = i
        BY <1>1, <3>3
      <4>2. p[i - 1] = v
        BY <1>3, <3>1, <4>1
      <4> QED
        BY <1>3, <4>1, <4>2 DEF Range
    <3> QED
      BY <3>2, <3>3
  <2> QED
    BY <2>1, <2>2
<1> QED
  BY <1>1, <1>3, <1>4, <1>5 DEF p

\* A step of kswapd, which swaps pages out, turns the list round and wakes
\* threads, leaves every thread what it will look for.
LEMMA KswapdTables ==
  ASSUME SwapInv, th' \in [Thread -> ThreadType],
         \A u \in Thread :
            /\ th'[u].ph = th[u].ph /\ th'[u].mm = th[u].mm /\ th'[u].a = th[u].a
            /\ th'[u].new = th[u].new /\ th'[u].to = th[u].to
            /\ th'[u].wait => th[u].wait,
         mmList' \in Seq(Mm), IsInjective(mmList'), Range(mmList') = Range(mmList),
         MemInv(mem', Hands), SwappedOnly(mem, mem')
  PROVE  MemInv(mem', Hands') /\ SpacesInv' /\ BlankInv' /\ FaultInv'
<1>1. /\ SpacesInv /\ BlankInv /\ FaultInv /\ MemInv(mem, Hands)
      /\ th \in [Thread -> ThreadType]
  BY DEF SwapInv
<1>2. Hands' = Hands
  BY DEF Hands
<1>3. SpacesInv'
  BY <1>1 DEF SpacesInv
<1>4. NoPte.k = "none"
  BY PteKinds
<1>5. BlankInv'
  BY <1>1, <1>4 DEF BlankInv, SwappedOnly
<1>6. FaultInv'
  <2>1. ASSUME NEW u \in Thread
        PROVE  FaultOf(th'[u], mem')
    <3>1. FaultOf(th[u], mem)
      BY <1>1 DEF FaultInv, FaultOf, PteOf
    <3>2. th[u].ph \in {"cow", "read"} => th[u].mm \in Mm /\ th[u].a \in Addr
      BY <1>1 DEF ThreadType, SpacesInv
    <3>3. th[u].ph = "shm" => th[u].a \in Shared /\ mem'.sh[th[u].a] = NoPte
      BY <1>4, <3>1 DEF FaultOf, SwappedOnly
    <3>4. th[u].ph = "cow" => mem'.pte[th[u].mm][th[u].a].k # "none"
      BY <3>1, <3>2 DEF FaultOf, SwappedOnly
    <3>5. th[u].ph = "read" => mem'.pte[th[u].mm][th[u].a].k = "swap"
      BY <3>1, <3>2 DEF FaultOf, SwappedOnly
    <3> QED
      BY <3>1, <3>3, <3>4, <3>5 DEF FaultOf
  <2>2. ASSUME NEW u \in Thread, NEW v \in Thread
        PROVE  /\ th'[u].ph = "shm" /\ th'[v].ph = "shm" => u = v
               /\ th'[u].new = th'[v].new /\ th'[u].new # NoFrame => u = v
    BY <1>1 DEF FaultInv
  <2>3. \A u \in Thread : PteOf(u)' = mem'.pte[th'[u].mm][th'[u].a]
    BY DEF PteOf
  <2> QED
    BY <2>1, <2>2, <2>3 DEF FaultInv, FaultOf
<1> QED
  BY <1>2, <1>3, <1>5, <1>6

LEMMA KTimerInv ==
  ASSUME SwapInv, KTimer
  PROVE  SwapInv'
<1>1. /\ kswapd' = [kswapd EXCEPT !.pc = "ready"]
      /\ UNCHANGED <<mem, th, cur, mmList, pressure, halted>>
  BY DEF KTimer
<1>2. /\ kswapd' \in [pc : {"sleep", "ready", "out"}, needs : Int, rounds : 0 .. Rounds]
      /\ kswapd'.pc = "ready"
  BY <1>1 DEF SwapInv, KswapdInv
<1>3. Sleepers' = Sleepers
  BY <1>1 DEF Sleepers
<1>4. KswapdInv'
  BY <1>1, <1>2, <1>3 DEF SwapInv, KswapdInv, NoLostWaiter
<1>5. SpacesInv' /\ BlankInv' /\ FaultInv' /\ Hands' = Hands
  BY <1>1 DEF SwapInv, SpacesInv, BlankInv, FaultInv, PteOf, Hands
<1> QED
  BY <1>1, <1>4, <1>5 DEF SwapInv

LEMMA KSwapOutInv ==
  ASSUME SwapInv, KSwapOut
  PROVE  SwapInv'
<1> DEFINE m == Head(mmList)
<1>1. /\ kswapd.pc # "sleep" /\ KRounds
      /\ mmList' = Append(Tail(mmList), Head(mmList))
      /\ UNCHANGED <<th, cur, pressure, halted>>
  BY DEF KSwapOut
<1>2. PICK hot \in SUBSET Addr, from \in Addr, start \in Entry :
         LET r == SwapOutMm(mem, Head(mmList), Lesser(KLoop.needs, Cluster),
                            hot, from, start)
         IN  /\ mem' = r.mem
             /\ kswapd' = [KLoop EXCEPT !.needs = @ - r.n, !.rounds = @ - 1]
  BY DEF KSwapOut
<1> DEFINE require == Lesser(KLoop.needs, Cluster)
           r == SwapOutMm(mem, m, require, hot, from, start)
<1>3. mem' = r.mem /\ kswapd' = [KLoop EXCEPT !.needs = @ - r.n, !.rounds = @ - 1]
  BY <1>2
<1>4. /\ KswapdInv /\ SpacesInv /\ FaultInv /\ MemInv(mem, Hands)
      /\ th \in [Thread -> ThreadType]
  BY DEF SwapInv
<1>5. /\ KLoop \in [pc : {"sleep", "ready", "out"}, needs : Int, rounds : 0 .. Rounds]
      /\ KLoop.pc = "out" /\ KLoop.needs > 0 /\ KLoop.rounds > 0
      /\ pressure > 0
  <2>1. Cluster \in Nat /\ Rounds \in Nat /\ pressure \in Nat
    BY <1>4, SwapMemAssumption DEF KswapdInv
  <2>2. pressure * Cluster \in Int /\ (pressure = 0 => pressure * Cluster = 0)
    BY <2>1
  <2>3. KLoop.needs > 0 /\ KLoop.rounds > 0
    BY <1>1 DEF KRounds
  <2>4. CASE kswapd.pc = "ready"
    <3>1. KLoop = [pc |-> "out", needs |-> pressure * Cluster, rounds |-> Rounds]
      BY <2>4 DEF KLoop, KRoundsOf
    <3> QED
      BY <2>1, <2>2, <2>3, <3>1
  <2>5. CASE kswapd.pc = "out"
    BY <1>4, <2>3, <2>5 DEF KLoop, KswapdInv
  <2> QED
    BY <1>1, <1>4, <2>4, <2>5 DEF KswapdInv
<1>6. mmList # <<>>
  <2>1. IsFiniteSet(Sleepers)
    BY SwapMemAssumption, FS_Subset DEF Sleepers
  <2>2. Sleepers # {}
    <3>1. SUFFICES ASSUME Sleepers = {}
                   PROVE  FALSE
      BY <3>1
    <3>2. Cardinality(Sleepers) = 0
      BY <3>1, FS_EmptySet
    <3> QED
      BY <1>4, <1>5, <3>2 DEF KswapdInv
  <2>3. PICK u \in Thread : th[u].wait
    BY <2>2 DEF Sleepers
  <2>4. th[u].ph # "dead"
    BY <1>4, <2>3 DEF FaultInv, AllocPhase
  <2>5. th[u].mm \in Range(mmList)
    BY <1>4, <2>4 DEF SpacesInv
  <2> QED
    BY <2>5 DEF Range
<1>7. /\ m \in Mm /\ mmList' \in Seq(Mm) /\ IsInjective(mmList')
      /\ Range(mmList') = Range(mmList)
  BY <1>1, <1>4, <1>6, ListTurned DEF SpacesInv
<1> HIDE DEF m, require
<1>8. /\ MemInv(r.mem, Hands) /\ SwappedOnly(mem, r.mem) /\ r.n \in Nat
  BY <1>4, <1>7, SwapOutMmInv
<1> HIDE DEF r
<1>9. MemInv(mem', Hands') /\ SpacesInv' /\ BlankInv' /\ FaultInv'
  BY <1>1, <1>3, <1>4, <1>7, <1>8, KswapdTables
<1>10. KswapdInv'
  <2>1. Sleepers' = Sleepers
    BY <1>1 DEF Sleepers
  <2>2. Rounds \in Nat
    BY SwapMemAssumption
  <2>3. /\ kswapd' \in [pc : {"sleep", "ready", "out"}, needs : Int, rounds : 0 .. Rounds]
        /\ kswapd'.pc = "out"
    <3> DEFINE needs == KLoop.needs - r.n
               rounds == KLoop.rounds - 1
    <3>1. needs \in Int /\ rounds \in 0 .. Rounds
      BY <1>5, <1>8, <2>2
    <3>2. kswapd' = [KLoop EXCEPT !.needs = needs, !.rounds = rounds]
      BY <1>3
    <3> HIDE DEF needs, rounds
    <3> QED
      BY <1>5, <3>1, <3>2
  <2> QED
    BY <1>1, <1>4, <1>5, <2>1, <2>3 DEF KswapdInv, NoLostWaiter
<1> QED
  BY <1>1, <1>9, <1>10 DEF SwapInv

LEMMA KLaunderInv ==
  ASSUME SwapInv, NEW bad, KLaunder(bad)
  PROVE  SwapInv'
<1> DEFINE s == PageLaunder(mem, bad)
           freed == Cardinality(s.free) - Cardinality(mem.free)
           left == pressure - freed
<1>1. /\ mem' = RefillInactiveScan(s) /\ kswapd.pc # "sleep"
      /\ UNCHANGED <<cur, mmList, halted>>
      /\ IF left > 0
         THEN /\ pressure' = left
              /\ kswapd' = KRoundsOf(left)
              /\ UNCHANGED th
         ELSE /\ pressure' = 0
              /\ kswapd' = KIdle
              /\ th' = [t \in Thread |-> [th[t] EXCEPT !.wait = FALSE]]
  BY DEF KLaunder
<1>2. /\ KswapdInv /\ SpacesInv /\ MemInv(mem, Hands)
      /\ th \in [Thread -> ThreadType]
      /\ cur \in Thread \cup {NoThread} /\ halted \in BOOLEAN
  BY DEF SwapInv
<1>3. /\ MemInv(s, Hands) /\ s.pte = mem.pte /\ s.sh = mem.sh
      /\ mem.free \subseteq s.free
  BY <1>2, PageLaunderInv
<1> HIDE DEF s
<1>4. /\ MemInv(mem', Hands) /\ mem'.pte = mem.pte /\ mem'.sh = mem.sh
  BY <1>1, <1>3, RefillInv
<1>5. SwappedOnly(mem, mem')
  BY <1>4 DEF SwappedOnly
<1>6. freed \in Nat
  <2>1. s.free \subseteq Frame /\ IsFiniteSet(Frame)
    BY <1>3, SwapMemAssumption DEF MemInv, MemType
  <2>2. IsFiniteSet(s.free) /\ IsFiniteSet(mem.free)
        /\ Cardinality(mem.free) <= Cardinality(s.free)
    BY <1>3, <2>1, FS_Subset
  <2>3. Cardinality(mem.free) \in Nat /\ Cardinality(s.free) \in Nat
    BY <2>2, FS_CardinalityType
  <2> QED
    BY <2>2, <2>3
<1>7. left \in Int /\ left <= pressure
  BY <1>2, <1>6 DEF KswapdInv
<1> HIDE DEF left, freed
<1>8. /\ th' \in [Thread -> ThreadType]
      /\ \A u \in Thread :
            /\ th'[u].ph = th[u].ph /\ th'[u].mm = th[u].mm /\ th'[u].a = th[u].a
            /\ th'[u].new = th[u].new /\ th'[u].to = th[u].to
            /\ th'[u].wait => th[u].wait
            /\ left > 0 => th'[u] = th[u]
            /\ ~(left > 0) => ~th'[u].wait
  <2>1. CASE left > 0
    BY <1>1, <1>2, <2>1
  <2>2. CASE ~(left > 0)
    <3>1. th' = [u \in Thread |-> [th[u] EXCEPT !.wait = FALSE]]
      BY <1>1, <2>2
    <3>2. ASSUME NEW u \in Thread
          PROVE  /\ th'[u] \in ThreadType
                 /\ th'[u].ph = th[u].ph /\ th'[u].mm = th[u].mm /\ th'[u].a = th[u].a
                 /\ th'[u].new = th[u].new /\ th'[u].to = th[u].to
                 /\ ~th'[u].wait
      <4>1. th[u] \in ThreadType /\ th'[u] = [th[u] EXCEPT !.wait = FALSE]
        BY <1>2, <3>1
      <4> QED
        BY <4>1 DEF ThreadType
    <3> QED
      BY <2>2, <3>1, <3>2
  <2> QED
    BY <2>1, <2>2
<1>9. MemInv(mem', Hands') /\ SpacesInv' /\ BlankInv' /\ FaultInv'
  <2>1. /\ mmList' \in Seq(Mm) /\ IsInjective(mmList')
        /\ Range(mmList') = Range(mmList)
    BY <1>1, <1>2 DEF SpacesInv
  <2> QED
    BY <1>4, <1>5, <1>8, <2>1, KswapdTables
<1>10. KswapdInv'
  <2>1. Cluster \in Nat /\ Rounds \in Nat
    BY SwapMemAssumption
  <2>2. CASE left > 0
    <3>1. kswapd' = [pc |-> "out", needs |-> left * Cluster, rounds |-> Rounds]
      BY <1>1, <2>2 DEF KRoundsOf
    <3>2. left * Cluster \in Int /\ left \in Nat
      BY <1>7, <2>1, <2>2
    <3>3. /\ kswapd' \in [pc : {"sleep", "ready", "out"}, needs : Int, rounds : 0 .. Rounds]
          /\ kswapd'.pc = "out"
      BY <2>1, <3>1, <3>2
    <3>4. Sleepers' = Sleepers
      BY <1>8, <2>2 DEF Sleepers
    <3>5. pressure' = left
      BY <1>1, <2>2
    <3>6. Cardinality(Sleepers) \in Nat
      BY SwapMemAssumption, FS_Subset, FS_CardinalityType DEF Sleepers
    <3> QED
      BY <1>2, <1>7, <2>2, <3>2, <3>3, <3>4, <3>5, <3>6 DEF KswapdInv, NoLostWaiter
  <2>3. CASE ~(left > 0)
    <3>1. kswapd' = [pc |-> "sleep", needs |-> 0, rounds |-> 0] /\ pressure' = 0
      BY <1>1, <2>3 DEF KIdle
    <3>2. Cardinality(Sleepers') = 0
      <4>1. Sleepers' = {}
        BY <1>8, <2>3 DEF Sleepers
      <4> QED
        BY <4>1, FS_EmptySet
    <3>3. NoLostWaiter'
      BY <1>8, <2>3 DEF NoLostWaiter
    <3> QED
      BY <2>1, <3>1, <3>2, <3>3 DEF KswapdInv
  <2> QED
    BY <2>2, <2>3
<1> QED
  BY <1>1, <1>2, <1>8, <1>9, <1>10 DEF SwapInv

-----------------------------------------------------------------------------
(* The theorems. *)

LEMMA InitInv ==
  ASSUME Init
  PROVE  SwapInv
<1>1. /\ mem = MemInit /\ cur = NoThread /\ mmList = <<FirstMm>>
      /\ kswapd = KIdle /\ pressure = 0 /\ halted = FALSE
      /\ th = [t \in Thread |-> IF t \in First THEN Idle("user", FirstMm)
                                ELSE Idle("dead", NoMm)]
  BY DEF Init
<1>2. /\ FirstMm \in Mm /\ First \subseteq Thread /\ NoMm \notin Mm
      /\ NoFrame \notin Frame /\ 0 \in Val /\ Rounds \in Nat
      /\ IsFiniteSet(Thread)
  BY SwapMemAssumption
<1> DEFINE r == Idle("user", FirstMm)
           d == Idle("dead", NoMm)
<1>3. /\ r \in ThreadType /\ r.ph = "user" /\ r.mm = FirstMm
      /\ r.new = NoFrame /\ r.to = NoMm /\ ~r.wait
      /\ d \in ThreadType /\ d.ph = "dead" /\ d.mm = NoMm
      /\ d.new = NoFrame /\ d.to = NoMm /\ ~d.wait
  BY <1>2, IdleType DEF Phases
<1> HIDE DEF r, d
<1>4. /\ th \in [Thread -> ThreadType]
      /\ \A t \in Thread :
            /\ th[t].new = NoFrame /\ th[t].to = NoMm /\ ~th[t].wait
            /\ \/ th[t].ph = "user" /\ th[t].mm = FirstMm
               \/ th[t].ph = "dead" /\ th[t].mm = NoMm
  BY <1>1, <1>3 DEF r, d
<1>5. mem \in MemType
  <2>1. NoPte \in Pte
    BY PteKinds
  <2> QED
    BY <1>1, <1>2, <2>1 DEF MemInit, MemType, Unused
<1>6. /\ \A m \in Mm, a \in Addr : mem.pte[m][a] = NoPte
      /\ \A a \in Shared : mem.sh[a] = NoPte
      /\ \A f \in Frame : mem.ref[f] = 0 /\ mem.cache[f] = NoEntry /\ f \in mem.free
      /\ \A e \in Entry : mem.map[e] = Unused
  BY <1>1 DEF MemInit
<1>7. NoPte.k = "none"
  BY PteKinds
<1>8. Counted(mem)
  <2>1. ASSUME NEW f \in Frame
        PROVE  PteMapping(mem, f) = {} /\ ShMapping(mem, f) = {}
    <3>1. \A x \in Mm \X Addr : ~Maps(mem.pte[x[1]][x[2]], f)
      BY <1>6, <1>7 DEF Maps
    <3> QED
      BY <1>6, <1>7, <3>1 DEF PteMapping, ShMapping, Maps
  <2>2. ASSUME NEW f \in Frame
        PROVE  mem.ref[f] = Mappers(mem, f)
    <3>1. Mappers(mem, f) = Cardinality({}) + Cardinality({})
      BY <2>1 DEF Mappers
    <3> QED
      BY <1>6, <3>1, FS_EmptySet
  <2> QED
    BY <2>2 DEF Counted
<1>9. \A e \in Entry : Holders(mem)[e] = 0
  <2>1. ASSUME NEW e \in Entry
        PROVE  PteHolding(mem, e) = {} /\ ShHolding(mem, e) = {}
    <3>1. \A x \in Mm \X Addr : ~Holds(mem.pte[x[1]][x[2]], e)
      BY <1>6, <1>7 DEF Holds
    <3> QED
      BY <1>6, <1>7, <3>1 DEF PteHolding, ShHolding, Holds
  <2> QED
    BY <2>1, FS_EmptySet DEF Holders
<1>10. \A f \in Frame : f \notin Hands
  BY <1>2, <1>4 DEF Hands
<1>11. Booked(mem, Holders(mem), Hands)
  BY <1>6, <1>9, <1>10, EntryPositive DEF Booked
<1>12. SpacesInv
  <2>1. mmList \in Seq(Mm) /\ IsInjective(mmList) /\ Range(mmList) = {FirstMm}
    <3>1. mmList \in Seq(Mm) /\ DOMAIN mmList = {1} /\ mmList[1] = FirstMm
      BY <1>1, <1>2
    <3> QED
      BY <3>1 DEF IsInjective, Range
  <2>2. "user" \notin Locked /\ "dead" \notin Locked
    BY DEF Locked, AllocPhase
  <2>3. FirstMm # NoMm
    BY <1>2
  <2> QED
    BY <1>4, <2>1, <2>2, <2>3 DEF SpacesInv
<1>13. BlankInv
  BY <1>6 DEF BlankInv
<1>14. FaultInv
  BY <1>4 DEF FaultInv
<1>15. KswapdInv
  <2>1. Sleepers = {} /\ Cardinality({}) = 0
    BY <1>4, FS_EmptySet DEF Sleepers
  <2> QED
    BY <1>1, <1>2, <1>4, <2>1 DEF KswapdInv, KIdle, NoLostWaiter
<1> QED
  BY <1>1, <1>4, <1>5, <1>8, <1>11, <1>12, <1>13, <1>14, <1>15 DEF SwapInv, MemInv

LEMMA NextInv ==
  ASSUME SwapInv, [Next]_vars
  PROVE  SwapInv'
<1>1. ASSUME NEW t \in Thread, ThreadStep(t)
      PROVE  SwapInv'
  BY <1>1, InstructionsInv, PgfaultBeginInv, PanicInv, LockShmemInv,
     TryFreePagesInv, AllocZeroInv, AllocShmInv, AllocCowInv, SwapInReadInv,
     ExitsInv, BrkInv, ForkInv, CopyRangeInv DEF ThreadStep
<1>2. ASSUME KswapdStep
      PROVE  SwapInv'
  BY <1>2, KSwapOutInv, KLaunderInv DEF KswapdStep
<1>3. CASE UNCHANGED vars
  BY <1>3 DEF vars, SwapInv, MemInv, SpacesInv, BlankInv, FaultInv, KswapdInv,
              NoLostWaiter, Sleepers, Hands, PteOf
<1> QED
  BY <1>1, <1>2, <1>3, KTimerInv DEF Next

LEMMA AtMostOne ==
  ASSUME NEW S, \A x, y \in S : x = y
  PROVE  \/ S = {} /\ Cardinality(S) = 0
         \/ S # {} /\ Cardinality(S) = 1
<1>1. CASE S = {}
  BY <1>1, FS_EmptySet
<1>2. CASE S # {}
  <2>1. PICK x : x \in S
    BY <1>2
  <2>2. S = {x}
    BY <2>1
  <2> QED
    BY <2>2, FS_Singleton
<1> QED
  BY <1>1, <1>2

\* The inductive invariant: the books of frames and swap entries balance, and
\* every thread finds again what it left, after any interleaving of page
\* faults, forks, exits, unmappings and rounds of kswapd.
THEOREM SwapInvariant == Spec => []SwapInv
<1>1. Init => SwapInv
  BY InitInv
<1>2. SwapInv /\ [Next]_vars => SwapInv'
  BY NextInv
<1> QED
  BY <1>1, <1>2, PTL DEF Spec

\* A thread that sleeps in try_free_pages is never forgotten by kswapd.
THEOREM WaitersKnown == Spec => []NoLostWaiter
<1>1. SwapInv => NoLostWaiter
  BY DEF SwapInv, KswapdInv
<1> QED
  BY <1>1, SwapInvariant, PTL

\* alloc_page, free_page, the swap cache and the threads asleep in do_pgfault
\* share the frames out among them: none is lost, none is used twice.
THEOREM FramesShared == Spec => []FramesPartition
<1>1. ASSUME SwapInv
      PROVE  FramesPartition
  <2>1. SUFFICES ASSUME NEW f \in Frame
                 PROVE  LET held == Cardinality({t \in Thread : th[t].new = f}) IN
                        /\ held <= 1
                        /\ f \in mem.free <=>
                              /\ mem.ref[f] = 0 /\ mem.cache[f] = NoEntry /\ held = 0
                        /\ held = 1 => mem.ref[f] = 0 /\ mem.cache[f] = NoEntry
    BY <2>1 DEF FramesPartition
  <2> DEFINE S == {t \in Thread : th[t].new = f}
  <2>2. IsFiniteSet(S) /\ NoFrame \notin Frame
    BY SwapMemAssumption, FS_Subset
  <2>3. \A t, u \in S : t = u
    BY <1>1, <2>2 DEF SwapInv, FaultInv
  <2>4. f \in Hands <=> S # {}
    BY DEF Hands
  <2>5. /\ f \in mem.free <=> mem.ref[f] = 0 /\ mem.cache[f] = NoEntry /\ f \notin Hands
        /\ f \in Hands => mem.ref[f] = 0 /\ mem.cache[f] = NoEntry
    BY <1>1 DEF SwapInv, MemInv, Booked
  <2> HIDE DEF S
  <2>6. \/ S = {} /\ Cardinality(S) = 0
        \/ S # {} /\ Cardinality(S) = 1
    BY <2>3, AtMostOne
  <2> QED
    BY <2>4, <2>5, <2>6 DEF S
<1> QED
  BY <1>1, SwapInvariant, PTL

\* How many entries of the tables there can be.
LEMMA TableBound ==
  ASSUME NEW X \in SUBSET (Mm \X Addr), NEW Y \in SUBSET Shared
  PROVE  /\ Cardinality(X) \in Nat /\ Cardinality(Y) \in Nat
         /\ Cardinality(X) + Cardinality(Y)
               <= (Cardinality(Mm) + 1) * Cardinality(Addr)
<1>1. /\ IsFiniteSet(Mm) /\ IsFiniteSet(Addr) /\ Shared \in SUBSET Addr
      /\ IsFiniteSet(Mm \X Addr)
      /\ Cardinality(Mm \X Addr) = Cardinality(Mm) * Cardinality(Addr)
  BY SwapMemAssumption, FS_Product
<1>2. Cardinality(Mm) \in Nat /\ Cardinality(Addr) \in Nat
  BY <1>1, FS_CardinalityType
<1>3. IsFiniteSet(X) /\ Cardinality(X) <= Cardinality(Mm) * Cardinality(Addr)
  BY <1>1, FS_Subset
<1>4. Y \in SUBSET Addr
  BY <1>1
<1>5. IsFiniteSet(Y) /\ Cardinality(Y) <= Cardinality(Addr)
  BY <1>1, <1>4, FS_Subset
<1>6. Cardinality(X) \in Nat /\ Cardinality(Y) \in Nat
  BY <1>3, <1>5, FS_CardinalityType
<1> QED
  BY <1>2, <1>3, <1>5, <1>6

LEMMA CountsBounded ==
  ASSUME MemInv(mem, Hands)
  PROVE  /\ mem.ref \in [Frame -> 0 .. (Cardinality(Mm) + 1) * Cardinality(Addr)]
         /\ mem.map \in
               [Entry -> Unused .. (Cardinality(Mm) + 1) * Cardinality(Addr)]
<1> DEFINE N == (Cardinality(Mm) + 1) * Cardinality(Addr)
<1>1. /\ mem \in MemType /\ Booked(mem, Holders(mem), Hands) /\ Counted(mem)
      /\ mem.ref \in [Frame -> Int] /\ mem.map \in [Entry -> Int]
  BY DEF MemInv, MemType
<1>2. N \in Nat
  <2>1. Cardinality(Mm) \in Nat /\ Cardinality(Addr) \in Nat
    BY SwapMemAssumption, FS_CardinalityType
  <2> QED
    BY <2>1
<1>3. ASSUME NEW f \in Frame
      PROVE  mem.ref[f] \in 0 .. N
  <2>1. PteMapping(mem, f) \in SUBSET (Mm \X Addr) /\ ShMapping(mem, f) \in SUBSET Shared
    BY DEF PteMapping, ShMapping
  <2>2. Mappers(mem, f) \in Nat /\ Mappers(mem, f) <= N
    BY <2>1, TableBound DEF Mappers
  <2> HIDE DEF N
  <2> QED
    BY <1>1, <1>2, <2>2 DEF Counted
<1>4. ASSUME NEW e \in Entry
      PROVE  mem.map[e] \in Unused .. N
  <2>1. PteHolding(mem, e) \in SUBSET (Mm \X Addr) /\ ShHolding(mem, e) \in SUBSET Shared
    BY DEF PteHolding, ShHolding
  <2>2. Holders(mem)[e] \in Nat /\ Holders(mem)[e] <= N
    BY <2>1, TableBound DEF Holders
  <2> HIDE DEF N
  <2>3. mem.map[e] \in {Holders(mem)[e], 0, Unused}
    BY <1>1 DEF Booked
  <2> QED
    BY <1>2, <2>2, <2>3 DEF Unused
<1> HIDE DEF N
<1> QED
  BY <1>1, <1>3, <1>4 DEF N

LEMMA TypeCorrect ==
  ASSUME SwapInv
  PROVE  TypeOK
<1>1. MemInv(mem, Hands) /\ mem \in MemType
  BY DEF SwapInv, MemInv
<1>2. /\ mem.ref \in [Frame -> 0 .. (Cardinality(Mm) + 1) * Cardinality(Addr)]
      /\ mem.map \in [Entry -> Unused .. (Cardinality(Mm) + 1) * Cardinality(Addr)]
  BY <1>1, CountsBounded
<1>3. pressure \in 0 .. Cardinality(Thread)
  <2>1. Sleepers \in SUBSET Thread /\ IsFiniteSet(Thread)
    BY SwapMemAssumption DEF Sleepers
  <2>2. Cardinality(Sleepers) <= Cardinality(Thread)
        /\ Cardinality(Sleepers) \in Nat /\ Cardinality(Thread) \in Nat
    BY <2>1, FS_Subset, FS_CardinalityType
  <2> QED
    BY <2>2 DEF SwapInv, KswapdInv
<1>4. /\ mem.pte \in [Mm -> [Addr -> Pte]] /\ mem.sh \in [Shared -> Pte]
      /\ mem.data \in [Frame -> Val] /\ mem.disk \in [Entry -> Val]
      /\ mem.cache \in [Frame -> Entry \cup {NoEntry}]
      /\ mem.active \subseteq Frame /\ mem.dirty \subseteq Frame
      /\ mem.free \subseteq Frame
  BY <1>1 DEF MemType
<1>5. /\ th \in [Thread -> [ph : Phases, mm : Mm \cup {NoMm}, a : Addr,
                            w : BOOLEAN, v : Val, new : Frame \cup {NoFrame},
                            wait : BOOLEAN, to : Mm \cup {NoMm}]]
      /\ cur \in Thread \cup {NoThread} /\ halted \in BOOLEAN
      /\ mmList \in Seq(Mm) /\ IsInjective(mmList)
      /\ kswapd \in [pc : {"sleep", "ready", "out"}, needs : Int, rounds : 0 .. Rounds]
  BY DEF SwapInv, ThreadType, SpacesInv, KswapdInv
<1> QED
  BY <1>2, <1>3, <1>4, <1>5 DEF TypeOK

\* page->ref and mem_map are exact, whatever the interleaving of faults, forks,
\* exits, evictions and launderings: swap.c's "page->ref+mem_map[offset]= the
\* total reference number of a page".
THEOREM ReferencesExact == Spec => []RefsExact
<1>1. ASSUME SwapInv
      PROVE  RefsExact
  <2>1. TypeOK
    BY <1>1, TypeCorrect
  <2>2. /\ mem \in MemType /\ Booked(mem, Holders(mem), Hands) /\ Counted(mem)
    BY <1>1 DEF SwapInv, MemInv
  <2>3. ASSUME NEW f \in Frame
        PROVE  mem.ref[f] = CountPte(LAMBDA p : p.k = "page" /\ p.f = f)
    <3>1. CountPte(LAMBDA p : p.k = "page" /\ p.f = f) = Mappers(mem, f)
      BY DEF CountPte, Mappers, PteMapping, ShMapping, Maps
    <3> QED
      BY <2>2, <3>1 DEF Counted
  <2>4. ASSUME NEW e \in Entry
        PROVE  LET n == CountPte(LAMBDA p : p.k = "swap" /\ p.e = e) IN
               /\ mem.map[e] = (IF mem.map[e] = Unused THEN Unused ELSE n)
               /\ mem.map[e] = Unused => n = 0 /\ CachedIn(mem, e) = {}
               /\ Cardinality(CachedIn(mem, e)) <= 1
               /\ mem.map[e] = 0 => CachedIn(mem, e) # {}
    <3> DEFINE n == Holders(mem)[e]
               C == CachedIn(mem, e)
    <3>1. CountPte(LAMBDA p : p.k = "swap" /\ p.e = e) = n
      BY DEF CountPte, Holders, PteHolding, ShHolding, Holds
    <3>2. n \in Nat /\ e # NoEntry
      BY <2>2, HoldersType, EntryPositive
    <3>3. \/ mem.map[e] = n /\ n > 0
          \/ mem.map[e] = 0 /\ n = 0 /\ C # {}
          \/ mem.map[e] = Unused /\ n = 0 /\ C = {}
      BY <2>2 DEF Booked, CachedIn
    <3>4. \A f, g \in C : f = g
      BY <2>2, <3>2 DEF Booked, CachedIn
    <3> HIDE DEF n, C
    <3>5. Cardinality(C) <= 1
      BY <3>4, AtMostOne
    <3>6. /\ mem.map[e] = (IF mem.map[e] = Unused THEN Unused ELSE n)
          /\ mem.map[e] = Unused => n = 0 /\ C = {}
          /\ mem.map[e] = 0 => C # {}
      BY <3>2, <3>3 DEF Unused
    <3> QED
      BY <3>1, <3>5, <3>6 DEF C
  <2> QED
    BY <2>1, <2>3, <2>4 DEF RefsExact
<1> QED
  BY <1>1, SwapInvariant, PTL
=============================================================================
