------------------------------ MODULE BuddyPmm -------------------------------
(***************************************************************************)
(* kern/mm/buddy_pmm.c: the buddy allocator of physical pages.             *)
(*                                                                         *)
(* Every call runs with interrupts off (pmm.c), so one operation is in     *)
(* progress at a time; each iteration of its loops is a step.  A free list *)
(* is a set: no property depends on which of its blocks is the first, so   *)
(* the allocator may take any.  The callers are any that free only pages   *)
(* they were given, in runs of any length.                                 *)
(***************************************************************************)
EXTENDS Integers, FiniteSets, FiniteSetsExt

CONSTANTS NPage,     \* npage: pages 0 .. NPage - 1
          MaxOrder,  \* MAX_ORDER
          NZone,     \* number of calls of init_memmap; zones 0 .. NZone - 1
          MemBase,   \* zones[z].mem_base
          ZoneSize   \* n of the z-th init_memmap

Page == 0 .. NPage - 1

Zone == 0 .. NZone - 1

Order == 0 .. MaxOrder

PagesOf(z) == MemBase[z] .. MemBase[z] + ZoneSize[z] - 1

ASSUME BuddyAssumption ==
  /\ NPage \in Nat /\ MaxOrder \in Nat /\ NZone \in 1 .. 10
  /\ MemBase \in [Zone -> Page]
  /\ ZoneSize \in [Zone -> Nat \ {0}]
  /\ \A z \in Zone : PagesOf(z) \subseteq Page
  /\ \A y, z \in Zone : y # z => PagesOf(y) \cap PagesOf(z) = {}

VARIABLES freeList,  \* free_area[o].free_list: the first pages of the free blocks
          nrFree,    \* free_area[o].nr_free
          property,  \* p->property: the order of the block p begins
          flagged,   \* the pages with PG_property set
          op,        \* the loop that is running, "idle" or "failed"
          al,        \* registers of buddy_alloc_pages and buddy_alloc_pages_sub
          fr,        \* registers of buddy_init_memmap and buddy_free_pages
          mg,        \* registers of buddy_free_pages_sub
          held       \* the pages the callers have

areaVars == <<freeList, nrFree, property, flagged>>
vars == <<freeList, nrFree, property, flagged, op, al, fr, mg, held>>

NoAl == [page |-> 0, cur |-> 0, order |-> 0, n |-> 0]
NoFr == [base |-> 0, n |-> 0, order |-> 0, zone |-> 0]
NoMg == [zone |-> 0, idx |-> 0, order |-> 0, then |-> "idle"]

\* 1 << order: the pages of a block of this order.
OrderSize[o \in 0 .. MaxOrder + 1] == IF o = 0 THEN 1 ELSE 2 * OrderSize[o - 1]

Block(p, o) == p .. p + OrderSize[o] - 1

\* Page p belongs to a zone, and was reserved no more after init_memmap.
InZone(p) == \E z \in Zone : p \in PagesOf(z)

ZoneOf(p) == CHOOSE z \in Zone : p \in PagesOf(z)

\* page2idx
PageIdx(p) == p - MemBase[ZoneOf(p)]

\* Bit o of x.
Bit(x, o) == (x \div OrderSize[o]) % 2

\* page_idx ^ (1 << order)
BuddyIdx(idx, o) == IF Bit(idx, o) = 1 THEN idx - OrderSize[o] ELSE idx + OrderSize[o]

\* Mutant: "|" in place of "&".
LowerIdxOr(idx, o) == idx + (1 - Bit(idx, o)) * OrderSize[o]

\* page_idx & buddy_idx
LowerIdx(idx, o) == idx - Bit(idx, o) * OrderSize[o]

\* getorder
GetOrder(n) == CHOOSE o \in Order : n <= OrderSize[o] /\ \A k \in 0 .. o - 1 : n > OrderSize[k]

\* The first page of a block of order o goes on its free list.
AddBlock(p, o) ==
  /\ property' = [property EXCEPT ![p] = o]
  /\ flagged' = flagged \cup {p}
  /\ nrFree' = [nrFree EXCEPT ![o] = @ + 1]
  /\ freeList' = [freeList EXCEPT ![o] = @ \cup {p}]

\* buddy_init; then page_init calls init_memmap for the first zone.
Init ==
  /\ freeList = [o \in Order |-> {}]
  /\ nrFree = [o \in Order |-> 0]
  /\ property = [p \in Page |-> 0]
  /\ flagged = {}
  /\ op = "memmap"
  /\ al = NoAl
  /\ fr = [base |-> MemBase[0], n |-> ZoneSize[0], order |-> MaxOrder, zone |-> 0]
  /\ mg = NoMg
  /\ held = {}

\* One step of the loops of buddy_init_memmap: the largest blocks first.
Memmap ==
  /\ op = "memmap"
  /\ \/ /\ fr.n # 0
        /\ fr.n >= OrderSize[fr.order]
        /\ AddBlock(fr.base, fr.order)
        /\ fr' = [fr EXCEPT !.base = @ + OrderSize[fr.order], !.n = @ - OrderSize[fr.order]]
        /\ UNCHANGED op
     \/ /\ fr.n # 0
        /\ fr.n < OrderSize[fr.order]
        /\ fr' = [fr EXCEPT !.order = @ - 1]
        /\ UNCHANGED <<areaVars, op>>
     \/ /\ fr.n = 0
        /\ fr.zone + 1 \in Zone
        /\ fr' = [base |-> MemBase[fr.zone + 1], n |-> ZoneSize[fr.zone + 1],
                  order |-> MaxOrder, zone |-> fr.zone + 1]
        /\ UNCHANGED <<areaVars, op>>
     \/ /\ fr.n = 0
        /\ fr.zone + 1 \notin Zone
        /\ fr' = NoFr
        /\ op' = "idle"
        /\ UNCHANGED areaVars
  /\ UNCHANGED <<al, mg, held>>
-----------------------------------------------------------------------------
\* alloc_pages(n): the first list at or above the order that is not empty
\* gives a block, the loop Split follows; NULL when all of them are empty.
AllocPages(n) ==
  LET order == GetOrder(n)
      Usable == {c \in order .. MaxOrder : freeList[c] # {}}
  IN /\ op = "idle"
     /\ \/ /\ Usable = {}
           /\ UNCHANGED vars
        \/ /\ Usable # {}
           /\ \E page \in freeList[Min(Usable)] :
                /\ freeList' = [freeList EXCEPT ![Min(Usable)] = @ \ {page}]
                /\ nrFree' = [nrFree EXCEPT ![Min(Usable)] = @ - 1]
                /\ al' = [page |-> page, cur |-> Min(Usable), order |-> order, n |-> n]
           /\ op' = "split"
           /\ UNCHANGED <<property, flagged, fr, mg, held>>

\* Mutant: base is not rounded up first.
StartFreeNoRound(base, n) ==
  /\ fr' = [NoFr EXCEPT !.base = base, !.n = n, !.order = MaxOrder]
  /\ op' = "rest"

\* buddy_free_pages: the common start of a free by a caller and of the free of
\* the surplus pages of an allocation.
StartFree(base, n) ==
  /\ fr' = [NoFr EXCEPT !.base = base, !.n = n]
  /\ op' = IF n = 1 THEN "rest" ELSE "round"

\* The split loop of buddy_alloc_pages_sub; when it ends, buddy_alloc_pages
\* frees what is more than the caller asked for.
Split ==
  /\ op = "split"
  /\ \/ /\ al.cur > al.order
        /\ AddBlock(al.page + OrderSize[al.cur - 1], al.cur - 1)
        /\ al' = [al EXCEPT !.cur = @ - 1]
        /\ UNCHANGED <<op, fr, held>>
     \/ /\ al.cur = al.order
        /\ flagged' = flagged \ {al.page}
        /\ held' = held \cup al.page .. al.page + al.n - 1
        /\ al' = NoAl
        /\ IF al.n # OrderSize[al.order]
             THEN StartFree(al.page + al.n, OrderSize[al.order] - al.n)
             ELSE op' = "idle" /\ UNCHANGED fr
        /\ UNCHANGED <<freeList, nrFree, property>>
  /\ UNCHANGED mg

\* free_pages(base, n) by a caller.
FreePages(base, n) ==
  /\ op = "idle"
  /\ base .. base + n - 1 \subseteq held
  /\ base + n - 1 \in PagesOf(ZoneOf(base))
  /\ held' = held \ (base .. base + n - 1)
  /\ StartFree(base, n)
  /\ UNCHANGED <<areaVars, al, mg>>

\* The entry of buddy_free_pages_sub; a failed assert is a kernel panic.
FreeSub(base, order, then) ==
  IF /\ PageIdx(base) % OrderSize[order] = 0
     /\ \A p \in Block(base, order) : InZone(p) /\ p \notin flagged
    THEN /\ op' = "merge"
         /\ mg' = [zone |-> ZoneOf(base), idx |-> PageIdx(base), order |-> order, then |-> then]
    ELSE op' = "failed" /\ UNCHANGED mg

\* base and n after a block of order r.order was freed.
Freed(r) == [r EXCEPT !.base = @ + OrderSize[r.order], !.n = @ - OrderSize[r.order]]

\* Mutant: order is not counted up.
NextOrderStays(r) == r

\* order ++, order_size <<= 1
NextOrder(r) == [r EXCEPT !.order = @ + 1]

\* One iteration of the first loop of buddy_free_pages, which rounds base up
\* to larger and larger blocks; its exit.
Round ==
  /\ op = "round"
  /\ \/ /\ fr.n >= OrderSize[fr.order]
        /\ IF fr.order > MaxOrder
             THEN op' = "failed" /\ UNCHANGED <<fr, mg>>
           ELSE IF Bit(PageIdx(fr.base), fr.order) = 1
             THEN /\ FreeSub(fr.base, fr.order, "round")
                  /\ fr' = NextOrder(Freed(fr))
             ELSE /\ fr' = NextOrder(fr)
                  /\ UNCHANGED <<op, mg>>
     \/ /\ fr.n < OrderSize[fr.order]
        /\ op' = "rest"
        /\ UNCHANGED <<fr, mg>>
  /\ UNCHANGED <<areaVars, al, held>>

\* One iteration of the second loop: the largest block that still fits.  The
\* inner loop only counts order down.  A free of one page is one such block.
Rest ==
  /\ op = "rest"
  /\ \/ /\ fr.n # 0
        /\ LET order == IF fr.n < OrderSize[fr.order]
                          THEN CHOOSE o \in 0 .. fr.order - 1 : OrderSize[o] <= fr.n /\ fr.n < OrderSize[o + 1]
                          ELSE fr.order
           IN /\ FreeSub(fr.base, order, "rest")
              /\ fr' = Freed([fr EXCEPT !.order = order])
     \/ /\ fr.n = 0
        /\ op' = "idle"
        /\ fr' = NoFr
        /\ UNCHANGED mg
  /\ UNCHANGED <<areaVars, al, held>>

\* page_is_buddy: the page exists, is of the zone and begins a free block of
\* this very order.  Reserved pages are in no zone.
PageIsBuddy(p, o, z) ==
  p < NPage /\ p \in PagesOf(z) /\ p \in flagged /\ property[p] = o

Buddy == MemBase[mg.zone] + BuddyIdx(mg.idx, mg.order)

\* Mutant: the loop ends one order too early.
AbsorbsShort == mg.order < MaxOrder - 1 /\ PageIsBuddy(Buddy, mg.order, mg.zone)

\* The condition of the merge loop.
Absorbs == mg.order < MaxOrder /\ PageIsBuddy(Buddy, mg.order, mg.zone)

\* Mutant: ClearPageProperty is missing.
TakeBuddyFlagged ==
  /\ nrFree' = [nrFree EXCEPT ![mg.order] = @ - 1]
  /\ freeList' = [freeList EXCEPT ![mg.order] = @ \ {Buddy}]
  /\ UNCHANGED flagged

\* The buddy leaves its free list.
TakeBuddy ==
  /\ nrFree' = [nrFree EXCEPT ![mg.order] = @ - 1]
  /\ freeList' = [freeList EXCEPT ![mg.order] = @ \ {Buddy}]
  /\ flagged' = flagged \ {Buddy}

\* One iteration of the merge loop of buddy_free_pages_sub; its end, where the
\* block goes on its free list.
Merge ==
  /\ op = "merge"
  /\ \/ /\ Absorbs
        /\ TakeBuddy
        /\ mg' = [mg EXCEPT !.idx = LowerIdx(mg.idx, mg.order), !.order = @ + 1]
        /\ UNCHANGED <<property, op>>
     \/ /\ ~Absorbs
        /\ AddBlock(MemBase[mg.zone] + mg.idx, mg.order)
        /\ op' = mg.then
        /\ mg' = NoMg
  /\ UNCHANGED <<al, fr, held>>

\* buddy_nr_free_pages
NrFreePages ==
  LET Sum[o \in 0 .. MaxOrder + 1] ==
        IF o = 0 THEN 0 ELSE Sum[o - 1] + nrFree[o - 1] * OrderSize[o - 1]
  IN Sum[MaxOrder + 1]

Next == \/ Memmap
        \/ \E n \in 1 .. OrderSize[MaxOrder] : AllocPages(n)
        \/ Split
        \/ \E base \in held, n \in 1 .. OrderSize[MaxOrder] : FreePages(base, n)
        \/ Round
        \/ Rest
        \/ Merge

Spec == Init /\ [][Next]_vars

\* A loop that was entered runs on.
FairSpec == Spec /\ WF_vars(Memmap \/ Split \/ Round \/ Rest \/ Merge)
-----------------------------------------------------------------------------
\* Every register and table entry is in its range.
TypeOK ==
  /\ freeList \in [Order -> SUBSET Page]
  /\ nrFree \in [Order -> 0 .. NPage]
  /\ property \in [Page -> Order]
  /\ flagged \subseteq Page
  /\ op \in {"memmap", "idle", "split", "round", "rest", "merge", "failed"}
  /\ al \in [page : Page, cur : Order, order : Order, n : 0 .. OrderSize[MaxOrder]]
  /\ fr \in [base : 0 .. NPage, n : 0 .. NPage, order : 0 .. MaxOrder + 1, zone : Zone]
  /\ mg \in [zone : Zone, idx : Page, order : Order, then : {"idle", "round", "rest"}]
  /\ held \subseteq Page

\* The pages a running loop has taken from one owner and not given to another.
InFlight ==
  CASE op = "memmap" -> fr.base .. fr.base + fr.n - 1 \cup
                        UNION {PagesOf(z) : z \in fr.zone + 1 .. NZone - 1}
    [] op = "split"  -> Block(al.page, al.cur)
    [] op \in {"round", "rest"} -> fr.base .. fr.base + fr.n - 1
    [] op = "merge"  -> fr.base .. fr.base + fr.n - 1 \cup
                        Block(MemBase[mg.zone] + mg.idx, mg.order)
    [] OTHER         -> {}

\* How many owners page p has: callers, the running loop and free blocks.
Owners(p) ==
  Cardinality({p} \cap held) + Cardinality({p} \cap InFlight)
    + Cardinality({b \in Page \X Order : b[1] \in freeList[b[2]] /\ p \in Block(b[1], b[2])})

\* No page is lost and none is given away twice: in every state, also between
\* two iterations of a split or of a merge, each page of a zone has exactly
\* one owner, and a page outside the zones has none.  No assert of
\* buddy_free_pages and buddy_free_pages_sub fails: the blocks they put together
\* are aligned, inside their zone and not free already.
Partition ==
  /\ op # "failed"
  /\ \A p \in Page : Owners(p) = IF InZone(p) THEN 1 ELSE 0

\* PG_property, property and nr_free, which page_is_buddy and the merge rely on,
\* agree with the lists in every state of every loop.  The one exception is
\* the block an allocation is splitting.  Between calls nr_free_pages counts
\* every page that was given back, as init_main asserts at its end.
FlagsMatchLists ==
  /\ TypeOK
  /\ op = "idle" => NrFreePages = Cardinality({p \in Page : InZone(p)} \ held)
  /\ flagged = (UNION {freeList[o] : o \in Order}) \cup (IF op = "split" THEN {al.page} ELSE {})
  /\ \A o \in Order : /\ nrFree[o] = Cardinality(freeList[o])
                      /\ \A p \in freeList[o] : property[p] = o

\* alloc_pages fails only when it must: whenever all pages of an aligned block
\* are free, some list at or above its order is not empty.  This is what
\* the merging is for: freed pages are never left in smaller pieces.
RoomIsFound == op = "idle" =>
  \A z \in Zone, o \in Order : \A i \in 0 .. ZoneSize[z] - OrderSize[o] :
    i % OrderSize[o] = 0 /\ Block(MemBase[z] + i, o) \cap held = {}
      => \E c \in o .. MaxOrder : freeList[c] # {}

\* Every call returns: the loops that round, split and merge end.
CallsReturn == op # "idle" ~> op = "idle"
=============================================================================
