-------------------------------- MODULE Slab ---------------------------------
(***************************************************************************)
(* kern/mm/slab.c: kmalloc and kfree.                                      *)
(*                                                                         *)
(* The first part is the arithmetic of slab_init, with the sizes of the    *)
(* 32-bit build: how many objects a slab of each cache has and where they  *)
(* and the slab's control area lie.  The second part runs the caches: the  *)
(* lists of slabs, the chains of free objects, and threads that sleep      *)
(* inside alloc_pages while others go on.  The kernel is not preempted, so *)
(* a thread that runs keeps the processor until it returns or sleeps.      *)
(*                                                                         *)
(* An object is the pair of the first page of its slab and its index; that *)
(* this page is also the one kva2page gives for its address is part of     *)
(* GeometryFits.  A slab_t is identified by the first page of its slab.    *)
(***************************************************************************)
EXTENDS Integers, FiniteSets, FiniteSetsExt, Sequences, SequencesExt

CONSTANTS NPage,    \* pages 0 .. NPage - 1
          Thread,   \* kernel threads
          Size,     \* arguments of kmalloc
          MaxNum,   \* bound on the number of objects of a slab
          MaxHeld,  \* bound on the objects that are held or asked for
          MaxOther, \* bound on the pages of others
          None

Page == 0 .. NPage - 1

MinSizeOrder == 5
MaxSizeOrder == 17
KmallocMaxOrder == 10
PgSize == 4096
SlabT == 24      \* sizeof(slab_t)
BufctlT == 4     \* sizeof(kmem_bufctl_t)
Align == 16

Cache == MinSizeOrder .. MaxSizeOrder

ASSUME SlabAssumption ==
  /\ NPage \in Nat /\ MaxNum \in Nat \ {0} /\ MaxHeld \in Nat /\ MaxOther \in Nat
  /\ Size \subseteq 1 .. 2^MaxSizeOrder
  /\ None \notin Thread /\ None \notin Page
-----------------------------------------------------------------------------
RoundUp(a, n) == ((a + n - 1) \div n) * n

\* slab_mgmt_size: the slab_t and its array of bufctl.
SlabMgmtSize(num, align) == RoundUp(SlabT + num * BufctlT, align)

\* Mutant: the slab_t is not counted.
CacheEstimateNoSlabT(order, objsize, align, offSlab) ==
  LET size == PgSize * 2^order
      num == IF offSlab THEN size \div objsize ELSE size \div (objsize + BufctlT)
  IN  [num |-> num, remainder |-> size - num * objsize]

\* cache_estimate; a slab is far too small for SLAB_LIMIT to matter.
CacheEstimate(order, objsize, align, offSlab) ==
  LET size == PgSize * 2^order
      fits(n) == SlabMgmtSize(n, align) + n * objsize <= size
      first == (size - SlabT) \div (objsize + BufctlT)
      num == IF offSlab THEN size \div objsize
             ELSE Max({n \in 0 .. first : fits(n)})
  IN  [num |-> num,
       remainder |-> size - num * objsize
                       - (IF offSlab THEN 0 ELSE SlabMgmtSize(num, align))]

\* calculate_slab_order: the smallest slab of which at most an eighth is
\* wasted.  "ok" is false when it panics.
CalculateSlabOrder(objsize, align, offSlab) ==
  LET est(o) == CacheEstimate(o, objsize, align, offSlab)
      good(o) == est(o).num # 0 /\ est(o).remainder * 8 <= PgSize * 2^o
      tooMany(o) == offSlab /\ est(o).num > (objsize - SlabT) \div BufctlT
      some == \E o \in 0 .. KmallocMaxOrder : good(o)
      order == CHOOSE o \in 0 .. KmallocMaxOrder :
                 (good(o) \/ ~some) /\ \A q \in 0 .. o - 1 : ~good(q)
  IN  [ok |-> some /\ \A o \in 0 .. order : ~tooMany(o),
       order |-> order, num |-> est(order).num, leftOver |-> est(order).remainder]

\* getorder; kmalloc's n is at most 2^MaxSizeOrder, else it panics.
GetOrder(n) == Min({o \in Cache : n <= 2^o})

\* init_kmem_cache
InitKmemCache(size, align) ==
  LET objsize == RoundUp(size, align)
      calc == CalculateSlabOrder(objsize, align, objsize >= PgSize \div 8)
      mgmt == SlabMgmtSize(calc.num, align)
      off == objsize >= PgSize \div 8 /\ calc.leftOver < mgmt
  IN  [ok |-> calc.ok /\ calc.num > 0, objsize |-> objsize, num |-> calc.num,
       order |-> calc.order, offSlab |-> off,
       offset |-> IF off THEN 0 ELSE mgmt,
       slabCachep |-> IF off THEN GetOrder(mgmt) ELSE 0]

\* slab_init
SlabInit == [c \in Cache |-> InitKmemCache(2^c, Align)]
-----------------------------------------------------------------------------
VARIABLES slabCache,  \* slab_cache[], indexed by the order of the size
          mem,        \* slabs, page descriptors, lists and free pages
          stack,      \* of each thread: the calls of kmem_cache_alloc it is in
          pc,         \* where the innermost of them is, or "idle"
          cur,        \* the thread that has the processor inside kmalloc
          held,       \* objects kmalloc returned that were not freed
          other,      \* pages that others got from alloc_pages
          swapReady   \* swap_init_ok && kswapd != NULL

vars == <<slabCache, mem, stack, pc, cur, held, other, swapReady>>

\* cachep->num, cut to MaxNum so that slabs fill up in small instances.
Num(c) == IF slabCache[c].num < MaxNum THEN slabCache[c].num ELSE MaxNum

\* The pages of a slab of cache c that begins at page p.
Pages(c, p) == p .. p + 2^slabCache[c].order - 1

End == -1        \* BUFCTL_END
NoSlab == [inuse |-> 0, free |-> End, bufctl |-> <<>>, mgmt |-> None]

\* Where the buddy allocator may place 2^order pages: aligned free blocks.
Room(c) ==
  {p \in Page : p % 2^slabCache[c].order = 0 /\ Pages(c, p) \subseteq mem.free}

Init ==
  /\ slabCache = SlabInit
  /\ mem = [free |-> Page,                           \* free pages
            flag |-> {},                             \* pages with PG_slab
            cache |-> [p \in Page |-> None],         \* GET_PAGE_CACHE
            slab |-> [p \in Page |-> None],          \* GET_PAGE_SLAB
            desc |-> [p \in Page |-> NoSlab],        \* the slab_t of slab p
            full |-> [c \in Cache |-> <<>>],         \* slabs_full
            notfull |-> [c \in Cache |-> <<>>],      \* slabs_notfull
            ok |-> TRUE]                             \* no assertion failed
  /\ stack = [t \in Thread |-> <<>>]
  /\ pc = [t \in Thread |-> "idle"]
  /\ cur = None
  /\ held = {}
  /\ other = {}
  /\ swapReady \in BOOLEAN

\* The rest of kmem_cache_grow(c) once it has its pages, from page p on, and
\* its slab_t: the object mg of another cache, or None when it is on the slab.
GrowSlab(m, c, p, mg) ==
  [m EXCEPT
     !.flag = @ \cup Pages(c, p),
     !.cache = [q \in Page |-> IF q \in Pages(c, p) THEN c ELSE @[q]],
     !.slab = [q \in Page |-> IF q \in Pages(c, p) THEN p ELSE @[q]],
     !.desc[p] = [inuse |-> 0, free |-> 0, mgmt |-> mg,
                  bufctl |-> [i \in 0 .. Num(c) - 1 |->
                                IF i = Num(c) - 1 THEN End ELSE i + 1]],
     !.notfull[c] = <<p>> \o @]

\* kmem_cache_alloc_one(c, p)
AllocOne(m, c, p) ==
  LET next == m.desc[p].bufctl[m.desc[p].free]
      taken == [m EXCEPT !.desc[p].inuse = @ + 1, !.desc[p].free = next]
  IN  IF next = End
      THEN [taken EXCEPT !.notfull[c] = Remove(@, p), !.full[c] = <<p>> \o @]
      ELSE taken

\* kmem_slab_destroy without its last call; free_pages makes page_link part
\* of the buddy allocator's lists again.
SlabDestroy(m, c, p) ==
  [m EXCEPT !.ok = @ /\ Pages(c, p) \subseteq m.flag,
            !.flag = @ \ Pages(c, p),
            !.free = @ \cup Pages(c, p),
            !.cache = [q \in Page |-> IF q \in Pages(c, p) THEN None ELSE @[q]],
            !.slab = [q \in Page |-> IF q \in Pages(c, p) THEN None ELSE @[q]],
            !.desc[p] = NoSlab]

\* list_del of a slab, from whichever list it is on.
ListDel(m, c, p) == [m EXCEPT !.full[c] = Remove(@, p), !.notfull[c] = Remove(@, p)]

\* The slab p with object i put in front of its chain of free objects.
Unused(m, p, i) ==
  [m EXCEPT !.desc[p].bufctl[i] = m.desc[p].free,
            !.desc[p].free = i,
            !.desc[p].inuse = @ - 1]

\* Mutant: a full slab stays on slabs_full until it has two free objects.
FreeOneLate(m, c, p, i) ==
  LET n == Unused(m, p, i)
  IN  IF n.desc[p].inuse = 0 THEN SlabDestroy(ListDel(n, c, p), c, p)
      ELSE IF n.desc[p].inuse = Num(c) - 2
      THEN [ListDel(n, c, p) EXCEPT !.notfull[c] = <<p>> \o @]
      ELSE n

\* kmem_cache_free_one(c, p, i-th object)
FreeOne(m, c, p, i) ==
  LET n == Unused(m, p, i)
  IN  IF n.desc[p].inuse = 0 THEN SlabDestroy(ListDel(n, c, p), c, p)
      ELSE IF n.desc[p].inuse = Num(c) - 1
      THEN [ListDel(n, c, p) EXCEPT !.notfull[c] = <<p>> \o @]
      ELSE n

\* kmem_cache_free(c, obj)
CacheFree(m, c, obj) ==
  IF obj[1] \in m.flag THEN FreeOne(m, c, m.slab[obj[1]], obj[2])
  ELSE [m EXCEPT !.ok = FALSE]

\* kmem_cache_free with the last call of kmem_slab_destroy: the slab_t that
\* was on another cache's slab is freed too.
FreeAll(m, c, obj) ==
  LET n == CacheFree(m, c, obj)
      mg == m.desc[obj[1]].mgmt
  IN  IF mg # None /\ n.desc[obj[1]] = NoSlab
      THEN CacheFree(n, slabCache[c].slabCachep, mg)
      ELSE n
-----------------------------------------------------------------------------
Frame(c) == [cache |-> c, page |-> None]

Top(t) == stack[t][Len(stack[t])]

\* Thread t may run.
OnCpu(t) == cur \in {None, t}

\* kmalloc(n) is called.
Kmalloc(t, n) ==
  /\ cur = None
  /\ pc[t] = "idle"
  /\ Cardinality(held) + Cardinality({u \in Thread : pc[u] # "idle"}) < MaxHeld
  /\ stack' = [stack EXCEPT ![t] = <<Frame(GetOrder(n))>>]
  /\ pc' = [pc EXCEPT ![t] = "try"]
  /\ cur' = t
  /\ UNCHANGED <<slabCache, mem, held, other, swapReady>>

\* try_again: with a slab on slabs_notfull.  The object is returned to
\* kmalloc's caller, or to kmem_cache_slabmgmt as the slab_t of the slab that
\* the calling kmem_cache_grow then finishes.
TakeObject(t) ==
  LET c == Top(t).cache
      p == Head(mem.notfull[c])
      obj == <<p, mem.desc[p].free>>
      m == AllocOne(mem, c, p)
      n == Len(stack[t])
  IN  /\ OnCpu(t)
      /\ pc[t] = "try"
      /\ mem.notfull[c] # <<>>
      /\ \/ /\ n = 1
            /\ mem' = m
            /\ held' = held \cup {obj}
            /\ stack' = [stack EXCEPT ![t] = <<>>]
            /\ pc' = [pc EXCEPT ![t] = "idle"]
            /\ cur' = None
         \/ /\ n = 2
            /\ mem' = GrowSlab(m, stack[t][1].cache, stack[t][1].page, obj)
            /\ stack' = [stack EXCEPT ![t] = <<Frame(stack[t][1].cache)>>]
            /\ cur' = t
            /\ UNCHANGED <<pc, held>>
      /\ UNCHANGED <<slabCache, other, swapReady>>

\* try_again: with no slab that has a free object.
NeedSlab(t) ==
  /\ OnCpu(t)
  /\ pc[t] = "try"
  /\ mem.notfull[Top(t).cache] = <<>>
  /\ pc' = [pc EXCEPT ![t] = "grow"]
  /\ cur' = t
  /\ UNCHANGED <<slabCache, mem, stack, held, other, swapReady>>

\* kmem_cache_grow gets its pages; it finishes the slab, or calls
\* kmem_cache_alloc for a slab_t first.
GrowPages(t, p) ==
  LET c == Top(t).cache
      got == [mem EXCEPT !.free = @ \ Pages(c, p)]
  IN  /\ OnCpu(t)
      /\ pc[t] = "grow"
      /\ p \in Room(c)
      /\ IF slabCache[c].offSlab
         THEN /\ mem' = got
              /\ stack' = [stack EXCEPT ![t] =
                             <<[cache |-> c, page |-> p],
                               Frame(slabCache[c].slabCachep)>>]
         ELSE /\ mem' = GrowSlab(got, c, p, None)
              /\ UNCHANGED stack
      /\ pc' = [pc EXCEPT ![t] = "try"]
      /\ cur' = t
      /\ UNCHANGED <<slabCache, held, other, swapReady>>

\* alloc_pages finds no room and try_free_pages sleeps until kswapd is done.
AwaitPages(t) ==
  /\ OnCpu(t)
  /\ pc[t] = "grow"
  /\ Room(Top(t).cache) = {}
  /\ swapReady
  /\ pc' = [pc EXCEPT ![t] = "asleep"]
  /\ cur' = None
  /\ UNCHANGED <<slabCache, mem, stack, held, other, swapReady>>

\* Mutant: the pages of the outer slab are not given back.
NoPagesLeak(t) ==
  /\ OnCpu(t)
  /\ pc[t] = "grow"
  /\ Room(Top(t).cache) = {}
  /\ ~swapReady
  /\ stack' = [stack EXCEPT ![t] = <<>>]
  /\ pc' = [pc EXCEPT ![t] = "idle"]
  /\ cur' = None
  /\ UNCHANGED <<slabCache, mem, held, other, swapReady>>

\* alloc_pages finds no room before kswapd runs: every call returns NULL, and
\* a kmem_cache_grow that waits for its slab_t gives its pages back (oops).
NoPages(t) ==
  /\ OnCpu(t)
  /\ pc[t] = "grow"
  /\ Room(Top(t).cache) = {}
  /\ ~swapReady
  /\ mem' = [mem EXCEPT !.free = @ \cup
               UNION {Pages(f.cache, f.page) : f \in {g \in ToSet(stack[t]) : g.page # None}}]
  /\ stack' = [stack EXCEPT ![t] = <<>>]
  /\ pc' = [pc EXCEPT ![t] = "idle"]
  /\ cur' = None
  /\ UNCHANGED <<slabCache, held, other, swapReady>>

\* kfree(obj), by any thread that is in the kernel and not inside kmalloc.
Kfree(obj) ==
  /\ cur = None
  /\ mem' = FreeAll(mem, mem.cache[obj[1]], obj)
  /\ held' = held \ {obj}
  /\ UNCHANGED <<slabCache, stack, pc, cur, other, swapReady>>

\* kswapd_wakeup_all: the sleepers call pmm_manager->alloc_pages again.
KswapdDone ==
  /\ cur = None
  /\ \E t \in Thread : pc[t] = "asleep"
  /\ pc' = [t \in Thread |-> IF pc[t] = "asleep" THEN "grow" ELSE pc[t]]
  /\ UNCHANGED <<slabCache, mem, stack, cur, held, other, swapReady>>

\* The other users of alloc_pages and free_pages, kswapd among them.
OtherAlloc(p) ==
  /\ cur = None
  /\ p \in mem.free
  /\ Cardinality(other) < MaxOther
  /\ mem' = [mem EXCEPT !.free = @ \ {p}]
  /\ other' = other \cup {p}
  /\ UNCHANGED <<slabCache, stack, pc, cur, held, swapReady>>

OtherFree(p) ==
  /\ cur = None
  /\ p \in other
  /\ mem' = [mem EXCEPT !.free = @ \cup {p}]
  /\ other' = other \ {p}
  /\ UNCHANGED <<slabCache, stack, pc, cur, held, swapReady>>

\* swap_init and the creation of kswapd, at boot.
SwapInit ==
  /\ ~swapReady
  /\ \A t \in Thread : pc[t] = "idle"
  /\ swapReady' = TRUE
  /\ UNCHANGED <<slabCache, mem, stack, pc, cur, held, other>>

Next ==
  \/ \E t \in Thread :
       \/ \E n \in Size : Kmalloc(t, n)
       \/ TakeObject(t)
       \/ NeedSlab(t)
       \/ \E p \in Page : GrowPages(t, p)
       \/ AwaitPages(t)
       \/ NoPages(t)
  \/ \E obj \in held : Kfree(obj)
  \/ KswapdDone
  \/ \E p \in Page : OtherAlloc(p) \/ OtherFree(p)
  \/ SwapInit

Spec == Init /\ [][Next]_vars
-----------------------------------------------------------------------------
\* The slabs of cache c.
SlabsOf(c) == ToSet(mem.full[c]) \cup ToSet(mem.notfull[c])

AllSlabs == UNION {SlabsOf(c) : c \in Cache}

\* The objects of slab p in use: by callers of kmalloc, or as the slab_t of
\* a slab.
InUse(p) ==
  {o \in held \cup {mem.desc[q].mgmt : q \in AllSlabs} : o # None /\ o[1] = p}

\* The free objects of slab p in the order of their chain.
Chain(p) ==
  LET d == mem.desc[p]
      n == Cardinality(DOMAIN d.bufctl)
      walk[k \in 1 .. n + 1] ==
        IF k = 1 THEN d.free
        ELSE IF walk[k - 1] = End THEN End ELSE d.bufctl[walk[k - 1]]
  IN  SelectSeq([k \in 1 .. n + 1 |-> walk[k]], LAMBDA x : x # End)

\* slab_allocated: the bytes in use, by the lists.
SlabAllocated ==
  LET bytes(c) == slabCache[c].objsize *
        (Len(mem.full[c]) * Num(c) +
         MapThenSumSet(LAMBDA p : mem.desc[p].inuse, ToSet(mem.notfull[c])))
  IN  MapThenSumSet(bytes, Cache)

\* Property: whatever sequence of kmalloc and kfree led here, and whatever
\* other threads did while one slept in alloc_pages, the chain of free objects
\* of every slab has each object that is not in use once and no other, inuse
\* counts the rest, the slab is on slabs_full if and only if that chain is
\* empty, its pages and no others lead back to it, slab_allocated is right,
\* and no PageSlab assertion of slab.c has failed.  So no object is given to
\* two callers, and none is lost (kmem_cache_alloc_one, kmem_cache_free_one).
SlabsExact ==
  /\ mem.ok
  /\ \A c \in Cache :
       LET lists == mem.full[c] \o mem.notfull[c]
       IN  /\ IsInjective(lists)
           /\ \A p \in ToSet(lists) :
                LET d == mem.desc[p]
                    objects == {<<p, i>> : i \in DOMAIN d.bufctl}
                    free == {<<p, i>> : i \in ToSet(Chain(p))}
                IN  /\ IsInjective(Chain(p))
                    /\ free = objects \ InUse(p)
                    /\ InUse(p) \subseteq objects
                    /\ d.inuse = Cardinality(InUse(p))
                    /\ (p \in ToSet(mem.full[c])) <=> free = {}
                    /\ (d.mgmt # None) <=> slabCache[c].offSlab
                    /\ {q \in mem.flag : mem.slab[q] = p /\ mem.cache[q] = c} = Pages(c, p)
  /\ held \subseteq UNION {InUse(p) : p \in AllSlabs}
  /\ SlabAllocated = MapThenSumSet(LAMBDA c : slabCache[c].objsize *
                        MapThenSumSet(LAMBDA p : Cardinality(InUse(p)), SlabsOf(c)), Cache)

\* Pages a thread has for a slab whose slab_t it is still looking for.
Growing(t) ==
  UNION {Pages(f.cache, f.page) : f \in {g \in ToSet(stack[t]) : g.page # None}}

\* Property: every page is free, with others, part of one slab, or held by one
\* thread that is growing a cache, also when the nested allocation of a slab_t
\* fails; and when no thread is between growing a slab and taking an object
\* from it, every slab has an object in use.  So when everything was freed all
\* pages are back (kmem_cache_grow, kmem_slab_destroy).
PagesReturned ==
  /\ LET parts == <<mem.free, other, mem.flag>>
             \o SetToSeq({Growing(t) : t \in Thread} \ {{}})
     IN  /\ UNION ToSet(parts) = Page
         /\ \A i, j \in DOMAIN parts : i # j => parts[i] \cap parts[j] = {}
  /\ \A s, t \in Thread : s # t => Growing(s) \cap Growing(t) = {}
  /\ mem.flag = UNION {UNION {Pages(c, p) : p \in SlabsOf(c)} : c \in Cache}
  /\ cur = None => \A p \in AllSlabs : mem.desc[p].inuse > 0

\* Property: in the table slab_init makes, every cache has at least one object
\* of at least its size per slab; control area and objects fit into the slab
\* without overlap; the first byte of every object is on the first page of the
\* slab, and every object is aligned; the slab_t of an off-slab cache fits an
\* object of slab_cachep, and that cache keeps its own slab_t on the slab, so
\* that kmem_cache_alloc calls itself only once (init_kmem_cache); no panic of
\* calculate_slab_order is reached.
GeometryFits ==
  \A c \in Cache :
    LET k == slabCache[c]
        addr(i) == k.offset + i * k.objsize
        mgmt == SlabT + k.num * BufctlT
    IN  /\ k.ok
        /\ k.num >= 1 /\ k.objsize >= 2^c
        /\ addr(k.num) <= PgSize * 2^k.order
        /\ \A i \in 0 .. k.num - 1 : addr(i) < PgSize /\ addr(i) % Align = 0
        /\ IF k.offSlab
           THEN mgmt <= slabCache[k.slabCachep].objsize /\ ~slabCache[k.slabCachep].offSlab
           ELSE mgmt <= k.offset
=============================================================================
