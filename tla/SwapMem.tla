------------------------------ MODULE SwapMem ------------------------------
(***************************************************************************)
(* Demand paging in kern/mm: do_pgfault with copy-on-write (vmm.c), the    *)
(* page-table operations it uses (pmm.c), fork's copy_range, shared memory *)
(* (shmem.c) and the swap subsystem with the kswapd thread (swap.c).       *)
(*                                                                         *)
(* The kernel is not preempted (trap.c reschedules only on the way back to *)
(* user mode), so an action runs up to the next place where the thread can *)
(* sleep: lock_mm, lock_shmem and alloc_page, which sleeps in              *)
(* try_free_pages while no frame is free.  kswapd never sleeps between the *)
(* top of its loop and do_sleep, so nobody else runs while it does; a      *)
(* round of its loop is one step here.                                     *)
(*                                                                         *)
(* A page's contents are one value.  Nothing clears a frame in the code,   *)
(* and nothing here compares a fresh page with what its frame held before: *)
(* free frames hold 0.  Page-table pages and the nodes of shmem are taken  *)
(* as present; every user address is in a writable area, shared for the    *)
(* addresses of Shared.                                                    *)
(***************************************************************************)
EXTENDS Integers, Sequences, FiniteSets, SequencesExt

CONSTANTS
    Thread,       \* user threads
    First,        \* the threads (CLONE_VM) of the process at the start
    Mm,           \* address spaces (struct mm_struct)
    FirstMm,      \* their address space
    Addr,         \* user pages, 1 .. n
    Shared,       \* the pages that lie in a VM_SHARE area
    Frame,        \* page frames the allocator hands out
    Entry,        \* swap entries, 1 .. n
    Val,          \* contents of a page; 0 is what a fresh page holds
    Stored,       \* the contents programs write
    Cluster,      \* pages one round asks of an address space (32 in the code)
    Rounds,       \* rounds of kswapd before it launders (16 in the code)
    NoFrame, NoMm, NoThread

ASSUME SwapMemAssumption ==
    /\ IsFiniteSet(Thread) /\ IsFiniteSet(Mm)
    /\ IsFiniteSet(Addr) /\ IsFiniteSet(Frame) /\ IsFiniteSet(Entry)
    /\ First \subseteq Thread /\ First # {} /\ FirstMm \in Mm
    /\ Addr = 1 .. Cardinality(Addr) /\ Addr # {} /\ Shared \subseteq Addr
    /\ Entry = 1 .. Cardinality(Entry) /\ Entry # {}
    /\ 0 \in Val /\ Stored \subseteq Val
    /\ Cluster \in Nat \ {0} /\ Rounds \in Nat \ {0}
    /\ NoFrame \notin Frame /\ NoMm \notin Mm /\ NoThread \notin Thread

VARIABLES
    mem,        \* page tables, frames and swap space
    th,         \* the threads
    cur,        \* the thread that runs in the kernel, if any
    mmList,     \* proc_mm_list
    kswapd,     \* the kswapd thread
    pressure,   \* frames the sleepers of kswapd_done wait for
    halted      \* an assertion failed or panic was called

vars == <<mem, th, cur, mmList, kswapd, pressure, halted>>

-----------------------------------------------------------------------------
(* Page-table entries: empty, present, or the entry of a swapped-out page. *)

NoPte == [k |-> "none"]
Page(f, w, d) == [k |-> "page", f |-> f, w |-> w, d |-> d]
Swapped(e) == [k |-> "swap", e |-> e]

Pte ==
    {NoPte} \cup [k : {"swap"}, e : Entry]
            \cup [k : {"page"}, f : Frame, w : BOOLEAN, d : BOOLEAN]

NoEntry == 0
Unused == -1
Cow(a) == a \notin Shared

(* mem: pte and sh are the page tables and the entries of the shared       *)
(* memory object; ref, data, cache (PG_swap and the index), active,        *)
(* dirty and free describe the frames; map and disk the swap space.        *)
MemInit ==
    [pte |-> [m \in Mm |-> [a \in Addr |-> NoPte]],
     sh |-> [a \in Shared |-> NoPte],
     ref |-> [f \in Frame |-> 0],
     data |-> [f \in Frame |-> 0],
     cache |-> [f \in Frame |-> NoEntry],
     active |-> {}, dirty |-> {}, free |-> Frame,
     map |-> [e \in Entry |-> Unused],
     disk |-> [e \in Entry |-> 0]]

(* swap_hash_find. *)
CachedIn(s, e) == {f \in Frame : s.cache[f] = e}

FreePage(s, f) ==
    [s EXCEPT !.free = @ \cup {f}, !.ref[f] = 0, !.data[f] = 0,
              !.active = @ \ {f}, !.dirty = @ \ {f}]

(* swap_page_add on an entry, then swap_active_list_add. *)
SwapPageAdd(s, f, e) == [s EXCEPT !.cache[f] = e, !.active = @ \cup {f}]

(* swap_page_del, the page being off its list. *)
SwapPageDel(s, f) == [s EXCEPT !.cache[f] = NoEntry]

SwapFreePage(s, f) == FreePage(SwapPageDel(s, f), f)

SwapDuplicate(s, e) == [s EXCEPT !.map[e] = @ + 1]

SwapRemoveEntry(s, e) ==
    LET s1 == [s EXCEPT !.map[e] = @ - 1] IN
    IF s1.map[e] # 0 THEN s1
    ELSE IF \E f \in CachedIn(s1, e) : s1.ref[f] # 0 THEN s1
    ELSE LET s2 == [s1 EXCEPT !.map[e] = Unused] IN
         IF CachedIn(s1, e) = {} THEN s2
         ELSE SwapFreePage(s2, CHOOSE f \in CachedIn(s1, e) : TRUE)

(* page_remove_pte and shmem_remove_entry_pte, for what the entry held. *)
RemovePte(s, p) ==
    CASE p.k = "none" -> s
      [] p.k = "swap" -> SwapRemoveEntry(s, p.e)
      [] p.k = "page" ->
           LET s1 == [s EXCEPT !.ref[p.f] = @ - 1] IN
           IF s.cache[p.f] # NoEntry
           THEN IF p.d THEN [s1 EXCEPT !.dirty = @ \cup {p.f}] ELSE s1
           ELSE IF s1.ref[p.f] = 0 THEN FreePage(s1, p.f) ELSE s1

PageRemove(s, m, a) ==
    [RemovePte(s, s.pte[m][a]) EXCEPT !.pte[m][a] = NoPte]

(* page_insert: the new entry p maps a frame. *)
PageInsert(s, m, a, p) ==
    LET old == s.pte[m][a]
        s1 == IF old.k = "page" /\ old.f = p.f THEN s
              ELSE RemovePte([s EXCEPT !.ref[p.f] = @ + 1], old)
    IN  [s1 EXCEPT !.pte[m][a] = p]

(* Mutant: fork copies the entry without counting it. *)
CopyPteUncounted(s, from, to, a) ==
    [s EXCEPT !.pte[to][a] = s.pte[from][a]]

(* copy_range for one page. *)
CopyPte(s, from, to, a) ==
    LET p == s.pte[from][a] IN
    CASE p.k = "none" -> s
      [] p.k = "swap" ->
           [SwapDuplicate(s, p.e) EXCEPT !.pte[to][a] = p]
      [] p.k = "page" ->
           LET w == p.w /\ a \in Shared
           IN  PageInsert(PageInsert(s, from, a, [p EXCEPT !.w = w]),
                          to, a, Page(p.f, w, FALSE))

(* exit_mmap, and shmem_destroy when the last area over it goes. *)
ExitMmap(s, m, last) ==
    LET s1 == FoldLeft(LAMBDA r, a : PageRemove(r, m, a), s,
                       [a \in Addr |-> a])
    IN  IF ~last THEN s1
        ELSE FoldLeft(LAMBDA r, a :
                        [RemovePte(r, r.sh[a]) EXCEPT !.sh[a] = NoPte],
                      s1, SetToSeq(Shared))

-----------------------------------------------------------------------------
(* Swapping out. *)

(* try_alloc_swap_entry: the first unused entry from start on; failing     *)
(* that, the first with no reference, taken from the page cached in it.    *)
Nearest(S, start) ==
    CHOOSE e \in S :
        \A x \in S : (e - start) % Cardinality(Entry)
                        <= (x - start) % Cardinality(Entry)

TryAllocEntry(s, start) ==
    LET empty == {e \in Entry : s.map[e] = Unused}
        zero == {e \in Entry : s.map[e] = 0}
    IN  IF empty # {} THEN [mem |-> s, e |-> Nearest(empty, start)]
        ELSE IF zero = {} THEN [mem |-> s, e |-> NoEntry]
        ELSE LET e == Nearest(zero, start)
                 f == CHOOSE x \in CachedIn(s, e) : TRUE
                 s1 == [s EXCEPT !.map[e] = Unused, !.active = @ \ {f}]
             IN  [e |-> e,
                  mem |-> IF s.ref[f] = 0 THEN SwapFreePage(s1, f)
                          ELSE SwapPageDel(s1, f)]

(* Mutant: the dirty bit of the page-table entry is not looked at. *)
EnsureSwapForgetsDirty(s, p, start) ==
    IF s.cache[p.f] # NoEntry THEN s
    ELSE LET r == TryAllocEntry(s, start) IN
         IF r.e = NoEntry THEN s
         ELSE SwapPageAdd([r.mem EXCEPT !.map[r.e] = 0,
                                        !.dirty = @ \cup {p.f}], p.f, r.e)

(* The page is put in the swap cache if it is not there yet. *)
EnsureSwap(s, p, start) ==
    IF s.cache[p.f] # NoEntry
    THEN IF p.d THEN [s EXCEPT !.dirty = @ \cup {p.f}] ELSE s
    ELSE LET r == TryAllocEntry(s, start) IN
         IF r.e = NoEntry THEN s
         ELSE SwapPageAdd([r.mem EXCEPT !.map[r.e] = 0,
                                        !.dirty = @ \cup {p.f}], p.f, r.e)

(* The last mapping of a shared page went: the shared memory object's      *)
(* reference to the frame becomes one to the swap entry.                   *)
ShmemInsertEntry(s, a, e) ==
    [SwapDuplicate(RemovePte(s, s.sh[a]), e) EXCEPT !.sh[a] = Swapped(e)]

(* swap_out_vma for one page: its state, and whether a page went out. *)
SwapOutPage(s, m, a, start) ==
    LET p == s.pte[m][a] IN
    IF p.k # "page" THEN [mem |-> s, n |-> 0]
    ELSE LET s1 == EnsureSwap(s, p, start)
             e == s1.cache[p.f]
             s2 == [SwapDuplicate(s1, e) EXCEPT !.ref[p.f] = @ - 1,
                                                !.pte[m][a] = Swapped(e)]
         IN  IF e = NoEntry THEN [mem |-> s, n |-> 0]
             ELSE [n |-> 1,
                   mem |-> IF a \in Shared /\ s2.ref[p.f] = 1
                                /\ s2.sh[a].k = "page"
                           THEN ShmemInsertEntry(s2, a, e)
                           ELSE s2]

(* swap_out_mm: the areas from where the last scan of mm stopped, the      *)
(* first of them a second time at the end, until require pages are out.    *)
SwapOutMm(s, m, require, hot, from, start) ==
    LET n == Cardinality(Addr)
        visits == [i \in 1 .. n + 1 |-> ((from + i - 2) % n) + 1]
    IN  FoldLeft(LAMBDA r, a :
                    IF r.n = require \/ a \in hot THEN r
                    ELSE LET o == SwapOutPage(r.mem, m, a, start)
                         IN  [mem |-> o.mem, n |-> r.n + o.n],
                 [mem |-> s, n |-> 0], visits)

(* page_launder on one page of the inactive list; writes to the disk fail  *)
(* for the pages of bad.                                                   *)
LaunderPage(s, f, bad) ==
    LET e == s.cache[f] IN
    IF s.ref[f] # 0 THEN [s EXCEPT !.active = @ \cup {f}]
    ELSE IF s.map[e] = 0
    THEN SwapFreePage([s EXCEPT !.map[e] = Unused], f)
    ELSE IF f \notin s.dirty THEN SwapFreePage(s, f)
    ELSE IF f \in bad THEN s
    ELSE SwapFreePage([s EXCEPT !.disk[e] = s.data[f]], f)

Inactive(s) == {f \in Frame : s.cache[f] # NoEntry} \ s.active

PageLaunder(s, bad) ==
    FoldLeft(LAMBDA r, f : LaunderPage(r, f, bad), s, SetToSeq(Inactive(s)))

RefillInactiveScan(s) ==
    [s EXCEPT !.active = {f \in @ : s.ref[f] # 0}]

-----------------------------------------------------------------------------
(* Threads. *)

Idle(ph, m) ==
    [ph |-> ph, mm |-> m, a |-> 1, w |-> FALSE, v |-> 0,
     new |-> NoFrame, wait |-> FALSE, to |-> NoMm]

KIdle == [pc |-> "sleep", needs |-> 0, rounds |-> 0]

Init ==
    /\ mem = MemInit
    /\ th = [t \in Thread |-> IF t \in First THEN Idle("user", FirstMm)
                              ELSE Idle("dead", NoMm)]
    /\ cur = NoThread
    /\ mmList = <<FirstMm>>
    /\ kswapd = KIdle
    /\ pressure = 0
    /\ halted = FALSE

(* The phases of a thread in do_pgfault or dup_mmap in which it holds the  *)
(* mm_lock, and those in which it calls alloc_page: for a user page, or    *)
(* ("copy") for a page table of the child in get_pte.                      *)
AllocPhase == {"zero", "shm", "cow", "read", "copy"}
Locked == AllocPhase \cup {"lockshm"}

MmFree(t) ==
    \A u \in Thread \ {t} : th[u].mm = th[t].mm => th[u].ph \notin Locked
ShmemFree == ~ \E t \in Thread : th[t].ph = "shm"
MmCount(m) == Cardinality({t \in Thread : th[t].mm = m})

(* Thread t can run: the kernel is not preempted, kswapd keeps the         *)
(* processor until it sleeps, and a thread in kswapd_done sleeps.          *)
Runs(t, ph) ==
    /\ ~halted
    /\ kswapd.pc # "out"
    /\ cur \in {NoThread, t}
    /\ th[t].ph = ph
    /\ ~th[t].wait

(* The thread's next phase.  It keeps the processor in the kernel, unless  *)
(* it has to sleep for a lock; trap returns to user mode with "retry".     *)
Become(t, r) ==
    /\ th' = [th EXCEPT ![t] = r]
    /\ cur' = IF r.ph \in AllocPhase \/ (r.ph = "fault" /\ MmFree(t))
              THEN t ELSE NoThread

Goto(t, ph) == Become(t, [th[t] EXCEPT !.ph = ph])

(* The processor runs an instruction that touches page a: it completes,    *)
(* setting the accessed and dirty bits, or it faults.                      *)
Allowed(p, w) == p.k = "page" /\ (w => p.w)

Touch(s, m, a, w, v) ==
    LET p == s.pte[m][a] IN
    [s EXCEPT !.pte[m][a] = [p EXCEPT !.d = @ \/ w],
              !.data[p.f] = IF w THEN v ELSE @]

Instruction(t, a, w, v) ==
    LET m == th[t].mm IN
    /\ IF Allowed(mem.pte[m][a], w)
       THEN /\ mem' = Touch(mem, m, a, w, v)
            /\ Become(t, Idle("user", m))
       ELSE /\ Become(t, [Idle("fault", m) EXCEPT
                            !.a = a, !.w = w, !.v = v])
            /\ UNCHANGED mem
    /\ UNCHANGED <<mmList, kswapd, pressure, halted>>

Read(t) ==
    /\ Runs(t, "user")
    /\ \E a \in Addr : Instruction(t, a, FALSE, 0)

Write(t) ==
    /\ Runs(t, "user")
    /\ \E a \in Addr, v \in Stored : Instruction(t, a, TRUE, v)

(* Back from a page fault, the same instruction is executed again. *)
Retry(t) ==
    /\ Runs(t, "retry")
    /\ Instruction(t, th[t].a, th[t].w, th[t].v)

PteOf(t) == mem.pte[th[t].mm][th[t].a]

AssertHolds(t) ==
    LET p == PteOf(t) IN
    p.k = "page" => th[t].w /\ ~p.w /\ Cow(th[t].a)

(* swap_duplicate is given the empty entry of the page table where the     *)
(* shared object holds a swapped-out page.                                 *)
DuplicatesNothing(t) ==
    /\ PteOf(t).k = "none" /\ ~Cow(th[t].a)
    /\ mem.sh[th[t].a].k = "swap"

(* Mutant: the page allocated for the copy is kept when it is not needed. *)
MapPageKeepsNew(s, t, f, new) ==
    PageInsert(s, th[t].mm, th[t].a, Page(f, th[t].w, FALSE))

(* do_pgfault once page f is in memory and new, if any, is at hand. *)
SwapPageCount(s, f) == IF s.cache[f] = NoEntry THEN 0 ELSE s.map[s.cache[f]]

MapPage(s, t, f, new) ==
    LET m == th[t].mm
        a == th[t].a
        readOnly == s.pte[m][a].k = "swap" /\ ~th[t].w /\ Cow(a)
        copy == Cow(a) /\ ~readOnly /\ s.ref[f] + SwapPageCount(s, f) > 1
    IN  IF copy
        THEN PageInsert([s EXCEPT !.data[new] = s.data[f]], m, a,
                        Page(new, TRUE, FALSE))
        ELSE LET s1 == PageInsert(s, m, a, Page(f, ~readOnly, FALSE))
             IN  IF new = NoFrame THEN s1 ELSE FreePage(s1, new)

Mapped(t) == Become(t, [th[t] EXCEPT !.ph = "retry", !.new = NoFrame])

(* swap_in_page: the page is in the swap cache, or a frame is needed. *)
SwapIn(s, t, new) ==
    LET cached == CachedIn(s, PteOf(t).e) IN
    IF cached # {}
    THEN /\ mem' = MapPage(s, t, CHOOSE f \in cached : TRUE, new)
         /\ Mapped(t)
    ELSE /\ mem' = s
         /\ Become(t, [th[t] EXCEPT !.ph = "read", !.new = new])

(* do_pgfault from the mm_lock (and the lock of the shared object, where   *)
(* it may have had to wait) to the first alloc_page.                       *)
PgfaultBegin(t) ==
    LET p == PteOf(t)
        a == th[t].a
    IN
    /\ Runs(t, "fault") \/ Runs(t, "lockshm")
    /\ MmFree(t)
    /\ AssertHolds(t) /\ ~DuplicatesNothing(t)
    /\ \/ p.k = "none" /\ Cow(a) /\ Goto(t, "zero") /\ UNCHANGED mem
       \/ p.k = "none" /\ ~Cow(a) /\ ShmemFree
          /\ mem.sh[a].k = "none" /\ Goto(t, "shm") /\ UNCHANGED mem
       \/ p.k = "none" /\ ~Cow(a) /\ ShmemFree /\ mem.sh[a].k = "page"
          /\ mem' = PageInsert(mem, th[t].mm, a,
                               Page(mem.sh[a].f, TRUE, FALSE))
          /\ Goto(t, "retry")
       \/ p.k # "none" /\ Cow(a) /\ Goto(t, "cow") /\ UNCHANGED mem
       \/ p.k # "none" /\ ~Cow(a) /\ SwapIn(mem, t, NoFrame)
    /\ UNCHANGED <<mmList, kswapd, pressure, halted>>

PgfaultPanic(t) ==
    /\ Runs(t, "fault") \/ Runs(t, "lockshm")
    /\ MmFree(t)
    /\ ~AssertHolds(t) \/ (DuplicatesNothing(t) /\ ShmemFree)
    /\ halted' = TRUE
    /\ UNCHANGED <<mem, th, cur, mmList, kswapd, pressure>>

(* Another thread is in shmem_get_entry: lock_shmem sleeps. *)
LockShmem(t) ==
    /\ Runs(t, "fault")
    /\ MmFree(t)
    /\ PteOf(t).k = "none" /\ ~Cow(th[t].a) /\ ~ShmemFree
    /\ Goto(t, "lockshm")
    /\ UNCHANGED <<mem, mmList, kswapd, pressure, halted>>

(* Mutant: kswapd is not woken. *)
TryFreePagesNoWake(t) ==
    /\ th[t].ph \in AllocPhase /\ Runs(t, th[t].ph)
    /\ mem.free = {}
    /\ pressure' = pressure + 1
    /\ th' = [th EXCEPT ![t].wait = TRUE]
    /\ cur' = NoThread
    /\ UNCHANGED <<mem, mmList, kswapd, halted>>

(* alloc_page finds no frame: try_free_pages. *)
TryFreePages(t) ==
    /\ th[t].ph \in AllocPhase /\ Runs(t, th[t].ph)
    /\ mem.free = {}
    /\ pressure' = pressure + 1
    /\ th' = [th EXCEPT ![t].wait = TRUE]
    /\ cur' = NoThread
    /\ kswapd' = IF kswapd.pc = "sleep" THEN [kswapd EXCEPT !.pc = "ready"]
                 ELSE kswapd
    /\ UNCHANGED <<mem, mmList, halted>>

Take(s, f) == [s EXCEPT !.free = @ \ {f}]

(* pgdir_alloc_page. *)
AllocZero(t) ==
    /\ Runs(t, "zero")
    /\ \E f \in mem.free :
          mem' = PageInsert(Take(mem, f), th[t].mm, th[t].a,
                            Page(f, TRUE, FALSE))
    /\ Goto(t, "retry")
    /\ UNCHANGED <<mmList, kswapd, pressure, halted>>

(* shmem_get_entry creates the page; do_pgfault then maps it. *)
AllocShm(t) ==
    /\ Runs(t, "shm")
    /\ \E f \in mem.free :
          mem' = PageInsert([Take(mem, f) EXCEPT
                                !.sh[th[t].a] = Page(f, FALSE, FALSE),
                                !.ref[f] = 1],
                            th[t].mm, th[t].a, Page(f, TRUE, FALSE))
    /\ Goto(t, "retry")
    /\ UNCHANGED <<mmList, kswapd, pressure, halted>>

(* The page to copy is allocated; then the entry is read again. *)
AllocCow(t) ==
    /\ Runs(t, "cow")
    /\ \E f \in mem.free :
          IF PteOf(t).k = "page"
          THEN /\ mem' = MapPage(Take(mem, f), t, PteOf(t).f, f)
               /\ Goto(t, "retry")
          ELSE SwapIn(Take(mem, f), t, f)
    /\ UNCHANGED <<mmList, kswapd, pressure, halted>>

(* The frame is there: somebody else may have brought the page in. *)
SwapInRead(t) ==
    LET e == PteOf(t).e IN
    /\ Runs(t, "read")
    /\ \E f \in mem.free :
          IF CachedIn(mem, e) # {}
          THEN mem' = MapPage(mem, t, CHOOSE x \in CachedIn(mem, e) : TRUE,
                              th[t].new)
          ELSE mem' = MapPage(SwapPageAdd([Take(mem, f) EXCEPT
                                             !.data[f] = mem.disk[e]], f, e),
                              t, f, th[t].new)
    /\ Mapped(t)
    /\ UNCHANGED <<mmList, kswapd, pressure, halted>>

-----------------------------------------------------------------------------
(* fork, exit and brk. *)

(* list_del of mm's entry in proc_mm_list. *)
Without(m) == RemoveAt(mmList, CHOOSE i \in DOMAIN mmList : mmList[i] = m)

(* do_exit: the last thread of an address space takes it down. *)
ExitFrom(s, t) ==
    LET m == th[t].mm IN
    /\ Become(t, Idle("dead", NoMm))
    /\ IF MmCount(m) > 1 THEN mem' = s /\ UNCHANGED mmList
       ELSE /\ mem' = ExitMmap(s, m, Without(m) = <<>>)
            /\ mmList' = Without(m)
    /\ UNCHANGED <<kswapd, pressure, halted>>

Exit(t) ==
    /\ \E ph \in {"user", "retry"} : Runs(t, ph)
    /\ ExitFrom(mem, t)

(* The disk cannot be read: the fault fails and the thread is killed. *)
SwapInFails(t) ==
    /\ Runs(t, "read")
    /\ CachedIn(mem, PteOf(t).e) = {}
    /\ mem.free # {}
    /\ ExitFrom(IF th[t].new = NoFrame THEN mem
                ELSE FreePage(mem, th[t].new), t)

(* mm_brk over a page: it is unmapped, and its area is there again. *)
Brk(t) ==
    /\ Runs(t, "user")
    /\ MmFree(t)
    /\ \E a \in Addr \ Shared : mem' = PageRemove(mem, th[t].mm, a)
    /\ UNCHANGED <<th, cur, mmList, kswapd, pressure, halted>>

InUse == Range(mmList) \cup {th[t].to : t \in Thread}

(* copy_mm: dup_mmap copies area by area, the last one first, and may      *)
(* sleep in get_pte before each.                                           *)
Fork(t) ==
    /\ Runs(t, "user")
    /\ MmFree(t)
    /\ \E u \in Thread : th[u].ph = "dead"
    /\ \E m \in Mm \ InUse :
          Become(t, [th[t] EXCEPT !.ph = "copy", !.a = Cardinality(Addr),
                                  !.to = m])
    /\ UNCHANGED <<mem, mmList, kswapd, pressure, halted>>

CopyRange(t) ==
    LET m == th[t].mm
        to == th[t].to
        a == th[t].a
    IN
    /\ Runs(t, "copy")
    /\ mem' = CopyPte(mem, m, to, a)
    /\ IF a > 1
       THEN Become(t, [th[t] EXCEPT !.a = a - 1]) /\ UNCHANGED mmList
       ELSE /\ \E u \in Thread :
                  /\ th[u].ph = "dead"
                  /\ th' = [th EXCEPT ![t] = Idle("user", m),
                                      ![u] = Idle("user", to)]
            /\ cur' = NoThread
            /\ mmList' = <<to>> \o mmList
    /\ UNCHANGED <<kswapd, pressure, halted>>

-----------------------------------------------------------------------------
(* kswapd. *)

(* Its timer of 1000 ticks expires. *)
KTimer ==
    /\ ~halted /\ cur = NoThread
    /\ kswapd.pc = "sleep"
    /\ kswapd' = [kswapd EXCEPT !.pc = "ready"]
    /\ UNCHANGED <<mem, th, cur, mmList, pressure, halted>>

(* What is left to do of the loop's rounds; at the top, all of them. *)
KRoundsOf(p) == [pc |-> "out", needs |-> p * Cluster, rounds |-> Rounds]
KLoop == IF kswapd.pc = "ready" THEN KRoundsOf(pressure) ELSE kswapd
KRounds == KLoop.needs > 0 /\ KLoop.rounds > 0

Lesser(x, y) == IF x < y THEN x ELSE y

KSwapOut ==
    /\ ~halted /\ cur = NoThread
    /\ kswapd.pc # "sleep" /\ KRounds
    /\ \E hot \in SUBSET Addr, from \in Addr, start \in Entry :
          LET r == SwapOutMm(mem, Head(mmList), Lesser(KLoop.needs, Cluster),
                             hot, from, start)
          IN  /\ mem' = r.mem
              /\ kswapd' = [KLoop EXCEPT !.needs = @ - r.n, !.rounds = @ - 1]
    /\ mmList' = Append(Tail(mmList), Head(mmList))
    /\ UNCHANGED <<th, cur, pressure, halted>>

(* page_launder, refill_inactive_scan, and the end of the loop's body. *)
KLaunder(bad) ==
    /\ ~halted /\ cur = NoThread
    /\ kswapd.pc # "sleep" /\ ~KRounds
    /\ LET s == PageLaunder(mem, bad)
           freed == Cardinality(s.free) - Cardinality(mem.free)
           left == pressure - freed
       IN  /\ mem' = RefillInactiveScan(s)
           /\ IF left > 0
              THEN /\ pressure' = left
                   /\ kswapd' = KRoundsOf(left)
                   /\ UNCHANGED th
              ELSE /\ pressure' = 0
                   /\ kswapd' = KIdle
                   /\ th' = [t \in Thread |-> [th[t] EXCEPT !.wait = FALSE]]
    /\ UNCHANGED <<cur, mmList, halted>>

-----------------------------------------------------------------------------
ThreadStep(t) ==
    \/ Read(t) \/ Write(t) \/ Retry(t)
    \/ PgfaultBegin(t) \/ PgfaultPanic(t)
    \/ LockShmem(t)
    \/ TryFreePages(t)
    \/ AllocZero(t) \/ AllocShm(t) \/ AllocCow(t)
    \/ SwapInRead(t) \/ SwapInFails(t)
    \/ Exit(t) \/ Brk(t) \/ Fork(t) \/ CopyRange(t)

KswapdStep ==
    \/ KSwapOut
    \/ \E bad \in SUBSET Inactive(mem) : KLaunder(bad)

Next ==
    \/ \E t \in Thread : ThreadStep(t)
    \/ KTimer
    \/ KswapdStep

Spec == Init /\ [][Next]_vars

-----------------------------------------------------------------------------
(* Properties. *)

Phases == {"dead", "user", "retry", "fault"} \cup Locked

(* The types of the page tables, frames, swap space, threads and kswapd's  *)
(* counters; kswapd's pressure never exceeds the number of sleepers.       *)
TypeOK ==
    /\ mem.pte \in [Mm -> [Addr -> Pte]]
    /\ mem.sh \in [Shared -> Pte]
    /\ mem.ref \in [Frame -> 0 .. (Cardinality(Mm) + 1) * Cardinality(Addr)]
    /\ mem.data \in [Frame -> Val] /\ mem.disk \in [Entry -> Val]
    /\ mem.cache \in [Frame -> Entry \cup {NoEntry}]
    /\ mem.active \subseteq Frame /\ mem.dirty \subseteq Frame
    /\ mem.free \subseteq Frame
    /\ mem.map \in [Entry -> Unused .. (Cardinality(Mm) + 1) * Cardinality(Addr)]
    /\ th \in [Thread -> [ph : Phases, mm : Mm \cup {NoMm}, a : Addr,
                          w : BOOLEAN, v : Val, new : Frame \cup {NoFrame},
                          wait : BOOLEAN, to : Mm \cup {NoMm}]]
    /\ cur \in Thread \cup {NoThread}
    /\ mmList \in Seq(Mm) /\ IsInjective(mmList)
    /\ kswapd \in [pc : {"sleep", "ready", "out"},
                   needs : Int, rounds : 0 .. Rounds]
    /\ pressure \in 0 .. Cardinality(Thread)
    /\ halted \in BOOLEAN

(* The entries of the page tables and of the shared object with property P *)
CountPte(P(_)) ==
    Cardinality({x \in Mm \X Addr : P(mem.pte[x[1]][x[2]])})
        + Cardinality({a \in Shared : P(mem.sh[a])})

(* "page->ref+mem_map[offset]= the total reference number of a page(in mem *)
(* OR swap space)" (swap.c): the reference count of a frame is exactly the *)
(* number of page-table and shared-memory entries that map it, mem_map of  *)
(* a swap entry exactly the number of those that hold it, over every       *)
(* interleaving of faults, forks, exits, evictions and launderings; an     *)
(* unused entry is in nobody's hands, at most one frame caches an entry,   *)
(* and an entry without references is cached, as try_alloc_swap_entry      *)
(* asserts when it takes one.                                              *)
RefsExact ==
    /\ TypeOK
    /\ \A f \in Frame :
          mem.ref[f] = CountPte(LAMBDA p : p.k = "page" /\ p.f = f)
    /\ \A e \in Entry :
          LET n == CountPte(LAMBDA p : p.k = "swap" /\ p.e = e) IN
          /\ mem.map[e] = (IF mem.map[e] = Unused THEN Unused ELSE n)
          /\ mem.map[e] = Unused => n = 0 /\ CachedIn(mem, e) = {}
          /\ Cardinality(CachedIn(mem, e)) <= 1
          /\ mem.map[e] = 0 => CachedIn(mem, e) # {}

(* No frame is lost and none is used twice: a frame is free exactly when   *)
(* no entry maps it, the swap cache does not hold it and no thread that    *)
(* sleeps inside do_pgfault keeps it for itself.                           *)
FramesPartition ==
    \A f \in Frame :
        LET held == Cardinality({t \in Thread : th[t].new = f}) IN
        /\ held <= 1
        /\ f \in mem.free <=>
              /\ mem.ref[f] = 0 /\ mem.cache[f] = NoEntry /\ held = 0
        /\ held = 1 => mem.ref[f] = 0 /\ mem.cache[f] = NoEntry

(* A thread that sleeps in try_free_pages is never forgotten: kswapd is    *)
(* awake and knows of the frames it lacks until it wakes the thread, also  *)
(* where its timer had already woken it and try_free_pages does not.       *)
NoLostWaiter ==
    \A t \in Thread : th[t].wait => kswapd.pc # "sleep" /\ pressure > 0

Contents(s, p) ==
    IF p.k = "page" THEN s.data[p.f]
    ELSE IF CachedIn(s, p.e) = {} THEN s.disk[p.e]
    ELSE s.data[CHOOSE f \in CachedIn(s, p.e) : TRUE]

Writes(m, a) ==
    /\ Allowed(mem.pte[m][a], TRUE)
    /\ \E v \in Val : mem' = Touch(mem, m, a, TRUE, v)

Unharmed(m, a) ==
    mem.pte[m][a] # NoPte /\ mem'.pte[m][a] # NoPte =>
        \/ Contents(mem', mem'.pte[m][a]) = Contents(mem, mem.pte[m][a])
        \/ \E x \in Mm : (x = m \/ a \in Shared) /\ Writes(x, a)

(* The swap cache holds contents of f that are not on the disk, and no     *)
(* dirty bit says so: page_launder will drop them.                         *)
Unsaved(s, f) ==
    /\ s.cache[f] # NoEntry /\ s.data[f] # s.disk[s.cache[f]]
    /\ f \notin s.dirty
    /\ \A m \in Mm, a \in Addr :
          LET p == s.pte[m][a] IN ~(p.k = "page" /\ p.f = f /\ p.d)

Condemned(m, a) ==
    /\ mem.pte[m][a].k = "swap"
    /\ \E f \in CachedIn(mem, mem.pte[m][a].e) : Unsaved(mem, f)

(* do_pgfault serves a write fault on f by mapping the same page again.    *)
MapsAgain(t, f) ==
    LET m == th[t].mm
        a == th[t].a
    IN  /\ th[t].ph = "cow" /\ th[t].w /\ th'[t].ph = "retry"
        /\ mem.pte[m][a] = Page(f, FALSE, TRUE)
        /\ mem'.pte[m][a] = Page(f, TRUE, FALSE)

(* What a process sees in a page changes only when the process writes to   *)
(* it, or, for a shared page, some process does: not by the writes of the  *)
(* process it was forked from, not by being swapped out and in again, as   *)
(* user/swaptest.c asserts of its buffer.  The one exception is a page     *)
(* swapped out with its last changes marked by no dirty bit, and there is  *)
(* one way to come to that: page_insert of do_pgfault drops the dirty bit  *)
(* of a page when it serves a copy-on-write fault without a copy.  In      *)
(* every other step copy-on-write isolation, the dirty bookkeeping and the *)
(* swap cache keep the contents of every page.                             *)
LossOnlyByRemap ==
    [][/\ \A m \in Mm, a \in Addr : Unharmed(m, a) \/ Condemned(m, a)
       /\ \A f \in Frame : Unsaved(mem', f) =>
             Unsaved(mem, f) \/ \E t \in Thread : MapsAgain(t, f)]_vars
=============================================================================
