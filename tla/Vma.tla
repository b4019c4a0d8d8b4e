-------------------------------- MODULE Vma --------------------------------
(***************************************************************************)
(* The address space of a process (kern/mm/vmm.c): the ordered list of     *)
(* areas (struct vma_struct) with its one-element cache, and the calls     *)
(* that change it: mm_map, mm_map_shmem, mm_unmap, mm_brk, dup_mmap, and   *)
(* do_mmap, do_munmap, do_brk and do_shmem (proc.c) on top of them.        *)
(*                                                                         *)
(* The calls run under the mm_lock and leave a complete list wherever they *)
(* can sleep, so each is one step.  Addresses are bytes modulo Top, with   *)
(* pages of PgSize bytes, so that rounding and wrap-around are the code's. *)
(* kmalloc may fail at any call.  The red-black tree over the same areas   *)
(* is module RbTree; that it answers find_vma as the list does is property *)
(* TreeFinds of MCVma.                                                     *)
(***************************************************************************)
EXTENDS Integers, Sequences

CONSTANTS
    Top,          \* addresses wrap around here (2^32)
    PgSize,       \* PGSIZE
    UserBase,     \* USERBASE
    UserTop,      \* USERTOP
    Addrs, Lens,  \* bound: the addresses and lengths passed to the calls
    Stores,       \* bound: where a caller keeps its in-out argument
    MmapFlags,    \* bound: the vm_flags do_mmap is asked for, a set of sets
    NShm          \* bound: shared-memory objects alive at a time

ASSUME VmaAssumption ==
    /\ PgSize \in Nat \ {0} /\ Top \in Nat /\ Top % PgSize = 0
    /\ UserBase \in Nat /\ UserBase % PgSize = 0
    /\ UserTop \in Nat /\ UserTop % PgSize = 0
    /\ 0 < UserBase /\ UserBase + 2 * PgSize <= UserTop
    /\ UserTop + PgSize < Top             \* else do_brk's check wraps around
    /\ Addrs \subseteq 0 .. Top - 1 /\ Lens \subseteq 1 .. Top - 1
    /\ Stores \subseteq UserBase .. UserTop - 1
    /\ MmapFlags \subseteq SUBSET {"w", "stack"}
    /\ NShm \in Nat

VARIABLES
    mm,           \* the address space of the process we follow
    halted        \* the kernel dereferenced a null pointer

vars == <<mm, halted>>

PageStart == {a \in UserBase .. UserTop - 1 : a % PgSize = 0}

(* vm_flags besides VM_READ, which every area here has. *)
Flag == {"w", "stack", "share"}

NoVma == [s |-> 0, e |-> 0, fl |-> {}, shm |-> 0, off |-> 0]
NoShmem == 0
NoCache == 0

VmaOf(s, e, fl) == [s |-> s, e |-> e, fl |-> fl, shm |-> NoShmem, off |-> 0]

RoundDown(a) == a - (a % PgSize)
RoundUp(a) == ((a + PgSize - 1) - ((a + PgSize - 1) % PgSize)) % Top
Plus(a, b) == (a + b) % Top
Minus(a, b) == (a - b + Top) % Top

UserAccess(s, e) == UserBase <= s /\ s < e /\ e <= UserTop

-----------------------------------------------------------------------------
(* The list.  The cache names its area by vm_start, 0 being NULL. *)

Areas(m) == {m.vmas[i] : i \in 1 .. Len(m.vmas)}
Holds(v, a) == v.s <= a /\ a < v.e
FirstOf(S) == CHOOSE i \in S : \A j \in S : i <= j
LastOf(S) == CHOOSE i \in S : \A j \in S : j <= i

(* Mutant: the cached area is taken for any address below its end. *)
FindVmaCacheBelow(m, a) ==
    LET hit == {i \in 1 .. Len(m.vmas) : m.vmas[i].s = m.cache
                                         /\ a < m.vmas[i].e}
        after == {i \in 1 .. Len(m.vmas) : a < m.vmas[i].e}
    IN  IF hit # {} THEN m.vmas[CHOOSE i \in hit : TRUE]
        ELSE IF after = {} THEN NoVma ELSE m.vmas[FirstOf(after)]

(* find_vma: the cached area, or the first one that ends after a. *)
FindVma(m, a) ==
    LET hit == {i \in 1 .. Len(m.vmas) : m.vmas[i].s = m.cache
                                         /\ Holds(m.vmas[i], a)}
        after == {i \in 1 .. Len(m.vmas) : a < m.vmas[i].e}
    IN  IF hit # {} THEN m.vmas[CHOOSE i \in hit : TRUE]
        ELSE IF after = {} THEN NoVma ELSE m.vmas[FirstOf(after)]

(* find_vma leaves its result in mmap_cache. *)
Find(m, a) ==
    LET v == FindVma(m, a)
    IN  IF v = NoVma THEN m ELSE [m EXCEPT !.cache = v.s]

(* insert_vma_struct: in front of the first area that starts behind v. *)
InsertVma(m, v) ==
    LET n == Len(m.vmas)
        at == FirstOf({i \in 1 .. n : m.vmas[i].s > v.s} \cup {n + 1})
    IN  [m EXCEPT !.vmas = [i \in 1 .. n + 1 |->
                              IF i < at THEN @[i] ELSE IF i = at THEN v ELSE @[i - 1]]]

(* The list s without its elements from the first to the last place of S. *)
Without(s, S) ==
    LET gone == LastOf(S) - FirstOf(S) + 1
    IN  IF S = {} THEN s
        ELSE [i \in 1 .. Len(s) - gone |-> IF i < FirstOf(S) THEN s[i] ELSE s[i + gone]]

(* Mutant: a removed area stays in mmap_cache. *)
CacheWithoutKept(m, S) == m.cache

(* remove_vma_struct for the areas of S: what is left in mmap_cache. *)
CacheWithout(m, S) ==
    IF \E v \in S : v.s = m.cache THEN NoCache ELSE m.cache

(* vma_resize. *)
Resized(v, s, e) ==
    [s |-> s, e |-> e, fl |-> v.fl, shm |-> v.shm,
     off |-> IF "share" \in v.fl THEN v.off + (s - v.s) ELSE 0]

(* vma_destroy drops a reference to the shared-memory object it assumes. *)
Dangles(v) == "share" \in v.fl /\ v.shm = NoShmem

-----------------------------------------------------------------------------
(* mm_map and mm_unmap.  A call's result is the address space, the return  *)
(* value (ok) and whether the kernel faulted on the way (crash).           *)

Result(m, ok) == [mm |-> m, ok |-> ok, crash |-> FALSE]

(* Mutant: only the first page of the range is checked. *)
MmMapFirstPage(m, addr, len, fl, shm, alloc) ==
    LET start == RoundDown(addr)
        end == RoundUp(Plus(addr, len))
        v == FindVma(m, start)
    IN  IF ~UserAccess(start, end) THEN Result(m, FALSE)
        ELSE IF (v # NoVma /\ start >= v.s) \/ ~alloc
        THEN Result(Find(m, start), FALSE)
        ELSE Result(InsertVma(Find(m, start),
                              [VmaOf(start, end, fl) EXCEPT !.shm = shm]), TRUE)

MmMap(m, addr, len, fl, shm, alloc) ==
    LET start == RoundDown(addr)
        end == RoundUp(Plus(addr, len))
        m1 == Find(m, start)
        v == FindVma(m, start)
    IN  IF ~UserAccess(start, end) THEN Result(m, FALSE)
        ELSE IF (v # NoVma /\ end > v.s) \/ ~alloc THEN Result(m1, FALSE)
        ELSE Result(InsertVma(m1, [VmaOf(start, end, fl) EXCEPT !.shm = shm]),
                    TRUE)

(* mm_unmap strictly inside an area: the lower part is a new vma. *)
Split(m, v, start, end) ==
    LET upper == Resized(v, end, v.e)
        m1 == [m EXCEPT !.vmas = [i \in 1 .. Len(@) |->
                                    IF @[i] = v THEN upper ELSE @[i]],
                        !.cache = IF @ = v.s THEN end ELSE @]
    IN  InsertVma(m1, VmaOf(v.s, start, v.fl))

(* Mutant: the part above the range is given up with it. *)
RemainsLosesTail(v, start, end) ==
    IF v.s < start THEN Resized(v, v.s, start) ELSE NoVma

(* What is left of an area that sticks out of the range at one end. *)
Remains(v, start, end) ==
    IF v.s < start THEN Resized(v, v.s, start)
    ELSE IF end < v.e THEN Resized(v, end, v.e)
    ELSE NoVma

(* mm_unmap otherwise: the areas in the range leave the list, and what     *)
(* remains of them comes back to its place.                                *)
MmUnmap(m, addr, len, alloc) ==
    LET start == RoundDown(addr)
        end == RoundUp(Plus(addr, len))
        v == FindVma(m, start)
        m1 == Find(m, start)
        hit == {x \in Areas(m) : x.e > start /\ x.s < end}
        rest == [i \in 1 .. Len(m.vmas) |->
                    IF m.vmas[i] \in hit THEN Remains(m.vmas[i], start, end)
                    ELSE m.vmas[i]]
        gone == {i \in 1 .. Len(rest) : rest[i] = NoVma}
    IN  IF ~UserAccess(start, end) THEN Result(m, FALSE)
        ELSE IF v = NoVma \/ end <= v.s THEN Result(m1, TRUE)
        ELSE IF v.s < start /\ end < v.e
        THEN IF alloc THEN Result(Split(m1, v, start, end), TRUE)
             ELSE Result(m1, FALSE)
        ELSE [Result([m1 EXCEPT
                        !.vmas = Without(rest, gone),
                        !.cache = CacheWithout(m1, hit)], TRUE)
                EXCEPT !.crash = \E x \in hit :
                        Remains(x, start, end) = NoVma /\ Dangles(x)]

(* get_unmapped_area: the highest gap of len bytes, 0 if there is none. *)
GetUnmappedArea(m, len) ==
    LET n == Len(m.vmas)
        start[i \in 1 .. n + 1] ==
            IF i = n + 1 THEN UserTop - len
            ELSE IF start[i + 1] >= m.vmas[i].e THEN start[i + 1]
            ELSE IF start[i + 1] + len <= m.vmas[i].s THEN start[i + 1]
            ELSE IF len >= m.vmas[i].s THEN 0
            ELSE m.vmas[i].s - len
    IN  IF len = 0 \/ len > UserTop \/ start[1] < UserBase THEN 0 ELSE start[1]

(* do_mmap and do_shmem; shm is the new object or NoShmem. *)
DoMmap(m, addr, len, fl, shm, alloc) ==
    LET start == RoundDown(addr)
        size == Minus(RoundUp(Plus(addr, len)), start)
        at == IF start = 0 THEN GetUnmappedArea(m, size) ELSE start
        flags == IF shm = NoShmem THEN fl ELSE fl \cup {"share"}
    IN  IF at = 0 THEN Result(m, FALSE)
        ELSE MmMap(m, at, size, flags, shm, alloc)

-----------------------------------------------------------------------------
(* mm_brk and do_brk. *)

MmBrk(m, addr, len, alloc) ==
    LET start == RoundDown(addr)
        end == RoundUp(Plus(addr, len))
        u == MmUnmap(m, start, Minus(end, start), alloc)
        v == FindVma(u.mm, start - 1)
        m1 == Find(u.mm, start - 1)
    IN  IF ~UserAccess(start, end) THEN Result(m, FALSE)
        ELSE IF ~u.ok THEN u
        ELSE IF v # NoVma /\ v.e = start /\ v.fl = {"w"}
        THEN Result([m1 EXCEPT !.vmas = [i \in 1 .. Len(@) |->
                        IF @[i] = v THEN [v EXCEPT !.e = end] ELSE @[i]]], TRUE)
        ELSE IF ~alloc THEN Result(m1, FALSE)
        ELSE Result(InsertVma(m1, VmaOf(start, end, {"w"})), TRUE)

FindVmaIntersection(m, start, end) ==
    LET v == FindVma(m, start) IN v # NoVma /\ end > v.s

(* Mutant: no page is kept free behind the heap. *)
DoBrkNoGap(m, brk, alloc) ==
    LET new == RoundUp(brk)
        old == m.brk
        r == IF new < old THEN MmUnmap(m, new, old - new, alloc)
             ELSE IF FindVmaIntersection(m, old, new)
             THEN Result(Find(m, old), FALSE)
             ELSE MmBrk(Find(m, old), old, new - old, alloc)
    IN  IF brk < m.brkStart \/ new = old THEN Result(m, TRUE)
        ELSE IF r.ok THEN [r EXCEPT !.mm.brk = new]
        ELSE r

DoBrk(m, brk, alloc) ==
    LET new == RoundUp(brk)
        old == m.brk
        r == IF new < old THEN MmUnmap(m, new, old - new, alloc)
             ELSE IF FindVmaIntersection(m, old, Plus(new, PgSize))
             THEN Result(Find(m, old), FALSE)
             ELSE MmBrk(Find(m, old), old, new - old, alloc)
    IN  IF brk < m.brkStart \/ new = old THEN Result(m, TRUE)
        ELSE IF r.ok THEN [r EXCEPT !.mm.brk = new]
        ELSE r

(* Mutant: the child maps every shared area from the start of its object. *)
DupVmaNoOffset(v) == [VmaOf(v.s, v.e, v.fl) EXCEPT !.shm = v.shm]

DupVma(v) ==
    IF "share" \in v.fl
    THEN [s |-> v.s, e |-> v.e, fl |-> v.fl, shm |-> v.shm, off |-> v.off]
    ELSE VmaOf(v.s, v.e, v.fl)

(* dup_mmap for the child of a fork: from the last area to the first, each *)
(* inserted in front of the others.                                        *)
DupMmap(m) ==
    [m EXCEPT !.vmas = [i \in 1 .. Len(@) |-> DupVma(@[i])], !.cache = NoCache]

(* Mutant: the guard page of a stack area is writable. *)
RefusesNoGuard(v, at, write) == at < v.s \/ (write /\ "w" \notin v.fl)

(* user_mem_check at address at, v being the area it finds. *)
Refuses(v, at, write) ==
    \/ at < v.s
    \/ write /\ "w" \notin v.fl
    \/ write /\ "stack" \in v.fl /\ at < v.s + PgSize

(* user_mem_check: at[i] is how far it comes with the first i areas, 0     *)
(* when one of them refuses.                                               *)
UserMemCheck(m, addr, len, write) ==
    LET end == Plus(addr, len)
        at[i \in 0 .. Len(m.vmas)] ==
            IF i = 0 THEN addr
            ELSE IF at[i - 1] \in {0} \cup end .. Top
                    \/ m.vmas[i].e <= at[i - 1]
            THEN at[i - 1]
            ELSE IF Refuses(m.vmas[i], at[i - 1], write) THEN 0
            ELSE m.vmas[i].e
    IN  UserAccess(addr, end) /\ at[Len(m.vmas)] >= end

-----------------------------------------------------------------------------
(* What load_icode leaves: a segment with the heap behind it, and a stack. *)
InitMm ==
    [vmas |-> <<VmaOf(UserBase, UserBase + PgSize, {"w"}),
                VmaOf(UserTop - PgSize, UserTop, {"w", "stack"})>>,
     cache |-> NoCache,
     brkStart |-> UserBase + PgSize, brk |-> UserBase + PgSize]

Init == mm = InitMm /\ halted = FALSE

Call(r) ==
    /\ ~halted
    /\ mm' = r.mm
    /\ halted' = r.crash

(* do_mmap, do_shmem and do_brk first copy their argument from user memory *)
(* at st, which must be writable; the look-up fills the cache.             *)
CopyIn(st) == Find(mm, st)
CanCopyIn(st) == UserMemCheck(mm, st, 1, TRUE)
Refuse(st) == ~CanCopyIn(st) /\ Call(Result(CopyIn(st), FALSE))

FreshShm == {k \in 1 .. NShm : \A v \in Areas(mm) : v.shm # k}

Mmap ==
    \E st \in Stores :
        /\ CanCopyIn(st)
        /\ \E a \in Addrs, len \in Lens, fl \in MmapFlags, alloc \in BOOLEAN :
              Call(DoMmap(CopyIn(st), a, len, fl, NoShmem, alloc))

Shmem ==
    \E st \in Stores :
        /\ CanCopyIn(st)
        /\ \E a \in Addrs, len \in Lens, k \in FreshShm, alloc \in BOOLEAN :
              Call(DoMmap(CopyIn(st), a, len, {"w"}, k, alloc))

Munmap ==
    \E a \in Addrs, len \in Lens, alloc \in BOOLEAN :
        Call(MmUnmap(mm, a, len, alloc))

Brk ==
    \E st \in Stores :
        /\ CanCopyIn(st)
        /\ \E a \in Addrs, alloc \in BOOLEAN :
              Call(DoBrk(CopyIn(st), a, alloc))

(* An argument that user_mem_check refuses. *)
Refused == \E st \in Stores : Refuse(st)

(* A page fault or kswapd looks an address up. *)
Lookup == \E a \in Addrs : Call(Result(Find(mm, a), TRUE))

(* fork, and we follow the child; shmem_ref_inc on a null object faults. *)
Fork ==
    Call([Result(DupMmap(mm), TRUE) EXCEPT
            !.crash = \E v \in Areas(mm) : Dangles(v)])

(* do_execve: mm_destroy and a new image. *)
Exec ==
    Call([Result(InitMm, TRUE) EXCEPT
            !.crash = \E v \in Areas(mm) : Dangles(v)])

Next == Mmap \/ Shmem \/ Munmap \/ Brk \/ Refused \/ Lookup \/ Fork \/ Exec

Spec == Init /\ [][Next]_vars

-----------------------------------------------------------------------------
(* Reference semantics: what each page of the user range is.  pos is the   *)
(* byte of the shared object behind the page's first byte.                 *)

Unmapped == [fl |-> {}, shm |-> NoShmem, pos |-> -1]

PageOf(v, p) ==
    [fl |-> v.fl, shm |-> v.shm,
     pos |-> IF v.shm = NoShmem THEN 0 ELSE v.off + (p - v.s)]

PageMap(m) ==
    [p \in PageStart |->
        LET over == {v \in Areas(m) : Holds(v, p)}
        IN  IF over = {} THEN Unmapped ELSE PageOf(CHOOSE v \in over : TRUE, p)]

PagesIn(start, end) == {p \in PageStart : start <= p /\ p < end}

(* The page-aligned range a caller names when addr + len does not wrap. *)
Named(addr, len) == {p \in PageStart : p + PgSize > addr /\ p < addr + len}
InUserRange(addr, len) ==
    UserBase <= RoundDown(addr) /\ addr + len <= UserTop

(* The lower pages of a shared area that [start, end) splits: mm_unmap     *)
(* copies vm_flags to their new area but not the shared object.            *)
SplitLow(m, start, end) ==
    {p \in PageStart : \E v \in Areas(m) :
        "share" \in v.fl /\ v.s < start /\ end < v.e /\ v.s <= p /\ p < start}

Detached(page) == [fl |-> page.fl, shm |-> NoShmem, pos |-> 0]

Cleared(m, start, end) ==
    LET page == PageMap(m)
        low == SplitLow(m, start, end)
    IN  [p \in PageStart |->
            IF start <= p /\ p < end THEN Unmapped
            ELSE IF p \in low THEN Detached(page[p])
            ELSE page[p]]

-----------------------------------------------------------------------------
(* The fields of the address space have their types. *)
TypeOK ==
    /\ halted \in BOOLEAN
    /\ mm.brkStart \in 0 .. Top - 1 /\ mm.brk \in 0 .. Top - 1
    /\ mm.brkStart <= mm.brk /\ mm.brk % PgSize = 0
    /\ mm.cache \in PageStart \cup {NoCache}
    /\ \A v \in Areas(mm) :
         /\ v.s \in PageStart /\ v.e % PgSize = 0
         /\ v.fl \subseteq Flag /\ v.shm \in 0 .. NShm /\ v.off \in 0 .. UserTop

(* The list is ordered and its areas are disjoint and in user space (what  *)
(* check_vma_overlap asserts at each insertion), the cache names an area   *)
(* that is still in the list, and two areas on one shared object use       *)
(* different parts of it.                                                  *)
AreasOrdered ==
    /\ TypeOK
    /\ \A i \in 1 .. Len(mm.vmas) : UserAccess(mm.vmas[i].s, mm.vmas[i].e)
    /\ \A i \in 1 .. Len(mm.vmas) - 1 : mm.vmas[i].e <= mm.vmas[i + 1].s
    /\ mm.cache # NoCache => \E v \in Areas(mm) : v.s = mm.cache
    /\ LET page == PageMap(mm) IN
       \A p, q \in PageStart :
          p # q /\ page[p].shm # NoShmem /\ page[p].shm = page[q].shm
              => page[p].pos # page[q].pos

(* find_vma returns the first area that ends after the address, whatever   *)
(* earlier calls left in mmap_cache.                                       *)
FindExact ==
    \A a \in 0 .. Top - 1 :
        LET after == {v \in Areas(mm) : a < v.e}
        IN  FindVma(mm, a) =
                IF after = {} THEN NoVma
                ELSE CHOOSE v \in after : \A w \in after : v.e <= w.e

(* munmap on any range makes exactly the named pages unmapped and keeps    *)
(* flags and shared backing of every other page, across splits, trims and  *)
(* areas swallowed whole; a refused call changes no page; it is refused    *)
(* only outside user space or when the split finds no memory.  (The lower  *)
(* part of a split shared area loses its object: SplitLow.)                *)
UnmapExact ==
    LET page == PageMap(mm) IN
    \A a \in Addrs, len \in Lens, alloc \in BOOLEAN :
        LET r == MmUnmap(mm, a, len, alloc)
            end == RoundUp(a + len)
        IN  a + len < Top =>
            /\ alloc => (r.ok <=> InUserRange(a, len))
            /\ PageMap(r.mm) = IF r.ok THEN Cleared(mm, RoundDown(a), end)
                               ELSE page

HighestGap ==
    LET page == PageMap(mm) IN
    \A n \in 1 .. (UserTop \div PgSize) + 1 :
        LET len == n * PgSize
            gaps == {p \in PageStart : p + len <= UserTop
                        /\ \A q \in PagesIn(p, p + len) : page[q] = Unmapped}
            at == GetUnmappedArea(mm, len)
        IN  IF gaps = {} THEN at = 0
            ELSE at \in gaps /\ \A p \in gaps : p <= at

(* mm_map succeeds exactly when the range is in user space and none of its *)
(* pages is mapped, and then maps these pages and no other; a refused call *)
(* changes no page.  Where the caller leaves the place to the kernel,      *)
(* get_unmapped_area finds the highest gap, and fails only when there is   *)
(* none.                                                                   *)
MapExact ==
    /\ HighestGap
    /\ LET page == PageMap(mm) IN
       \A a \in Addrs, len \in Lens, fl \in MmapFlags, alloc \in BOOLEAN :
           LET r == MmMap(mm, a, len, fl, NoShmem, alloc)
               new == Named(a, len)
           IN  a + len < Top =>
               /\ r.ok <=> /\ alloc /\ InUserRange(a, len)
                           /\ \A p \in new : page[p] = Unmapped
               /\ PageMap(r.mm) = [p \in PageStart |->
                       IF r.ok /\ p \in new
                       THEN [fl |-> fl, shm |-> NoShmem, pos |-> 0]
                       ELSE page[p]]

(* sys_brk moves the break to the rounded request or leaves everything as  *)
(* it was: growing turns unmapped pages into private writable ones and     *)
(* keeps an unmapped page behind them, shrinking clears the pages given    *)
(* up, and no other page changes.                                          *)
BrkExact ==
    LET page == PageMap(mm) IN
    \A a \in Addrs, alloc \in BOOLEAN : \A r \in {DoBrk(mm, a, alloc)} :
        LET new == r.mm.brk
            grown == PagesIn(mm.brk, new)
        IN  IF new = mm.brk THEN PageMap(r.mm) = page
            ELSE IF new < mm.brk
            THEN /\ mm.brkStart <= new
                 /\ PageMap(r.mm) = Cleared(mm, new, mm.brk)
            ELSE /\ new = RoundUp(a)
                 /\ \A p \in PagesIn(mm.brk, new + PgSize) :
                        page[p] = Unmapped
                 /\ PageMap(r.mm) = [p \in PageStart |->
                        IF p \in grown
                        THEN [fl |-> {"w"}, shm |-> NoShmem, pos |-> 0]
                        ELSE page[p]]

(* user_mem_check allows an access exactly when each of its bytes lies in  *)
(* an area with the permission, and a write leaves the lowest page of a    *)
(* stack area alone.                                                       *)
MemCheckExact ==
    \A a \in Addrs, len \in Lens, write \in BOOLEAN :
        UserMemCheck(mm, a, len, write) <=>
            /\ UserBase <= a /\ a + len <= UserTop
            /\ \A x \in a .. a + len - 1 : \E v \in Areas(mm) :
                 /\ Holds(v, x)
                 /\ write => "w" \in v.fl
                 /\ write /\ "stack" \in v.fl => x >= v.s + PgSize

(* Property: the list of areas stays ordered (AreasOrdered) and both ways  *)
(* of looking an address up in it are right, whatever earlier calls left   *)
(* in mmap_cache and however areas were split: find_vma (FindExact) and    *)
(* user_mem_check (MemCheckExact).                                         *)
LookupsExact == AreasOrdered /\ FindExact /\ MemCheckExact

(* Property: mm_unmap, mm_map with get_unmapped_area, and do_brk do to the *)
(* pages of the process exactly what their callers ask, or nothing.        *)
MappingExact == UnmapExact /\ MapExact /\ BrkExact

(* Between one image and the next, a page that stays mapped through a call *)
(* keeps its permissions and the place of the shared object behind it,     *)
(* also in the child of a fork; only the split of a shared area drops it.  *)
BackingStable ==
    [][LET old == PageMap(mm)
           new == PageMap(mm')
       IN  mm'.vmas # mm.vmas /\ mm' # InitMm =>
           \A p \in PageStart :
              old[p] # Unmapped /\ new[p] # Unmapped =>
                 \/ new[p] = old[p]
                 \/ /\ new[p] = Detached(old[p])
                    /\ \E q \in PageStart : /\ q > p /\ new[q] = Unmapped
                                            /\ old[q].shm = old[p].shm]_vars
=============================================================================
