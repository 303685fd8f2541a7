-------------------------------- MODULE Heap --------------------------------
(***************************************************************************)
(* The arena of port/posix_shim.c that brk(), mmap() and munmap() share:   *)
(* a bump pointer, memory hot-plugged from the host when it runs dry, and  *)
(* the address-sorted, coalescing list of the ranges given back.           *)
(*                                                                         *)
(* Its two clients are modelled as the C library behaves: anybody who maps *)
(* and unmaps anonymous memory, and mallocng's alloc_meta(), which grows   *)
(* the break by one page at a time from the break it remembers, whatever   *)
(* has happened to the arena since.                                        *)
(*                                                                         *)
(* Addresses are bytes from __image_base.  The list is a function from the *)
(* address of a block, where its header lives, to its size: the order of   *)
(* the links is the order of the addresses.  Each call is one step: two    *)
(* threads inside the calls at once are not modelled.                      *)
(***************************************************************************)
EXTENDS Integers, FiniteSets

CONSTANTS
  BssStop,     \* __bss_stop: where the arena begins
  Ends,        \* the ends of app RAM the host can grant (multiples of 1 MiB there)
  MapLen,      \* the lengths programs map
  MaxLive      \* bound: blocks mapped at a time

Page == 4096
HeaderSize == 16     \* sizeof(struct free_block)

ASSUME BssStopAssumption == BssStop \in Nat \ {0}
ASSUME EndsAssumption == Ends \subseteq Nat
ASSUME LenAssumption == MapLen \subseteq Nat \ {0}
ASSUME LiveAssumption == MaxLive \in Nat

VARIABLES
  heapCur,     \* heap_cur
  heapEnd,     \* heap_end, from FREE_MEMORY and GROW_MEMORY
  free,        \* free_list: block address -> size
  live,        \* the ranges mapped and not unmapped: address -> size
  meta,        \* the pages mallocng holds through brk(): a set of addresses
  ctxBrk,      \* mallocng's ctx.brk: 0 at first, -1 once brk() has failed it
  ctxPc        \* where mallocng's first alloc_meta() is

heapVars == <<heapCur, heapEnd, free>>
vars == <<heapVars, live, meta, ctxBrk, ctxPc>>

RoundUp(x) == ((x + 4095) \div 4096) * 4096

BlockMap(f) == /\ DOMAIN f \subseteq Nat
            /\ \A a \in DOMAIN f : f[a] \in Nat \ {0}

TypeOK ==
  /\ heapCur \in Nat
  /\ heapEnd \in Ends
  /\ BlockMap(free) /\ BlockMap(live)
  /\ meta \subseteq Nat
  /\ ctxBrk \in Nat \cup {-1}
  /\ ctxPc \in {"idle", "first", "guard"}

Empty == [a \in {} |-> 0]

\* heap_init(), and nothing allocated yet
Fresh ==
  /\ heapCur = BssStop
  /\ heapEnd \in Ends
  /\ free = Empty /\ live = Empty
  /\ meta = {}
  /\ ctxBrk = 0
  /\ ctxPc = "idle"

\* crt0.c does not start a program whose image is larger than its RAM.
Init == Fresh /\ BssStop <= heapEnd

-----------------------------------------------------------------------------
(* The free list *)

Without(f, a) == [b \in DOMAIN f \ {a} |-> f[b]]
With(f, a, n) == [b \in DOMAIN f \cup {a} |-> IF b = a THEN n ELSE f[b]]

\* the block that follows block a in the list, if any
Following(f, a) == {b \in DOMAIN f : b > a /\ \A c \in DOMAIN f : c > a => b <= c}

\* Mutant of Join: blocks are never merged
JoinNever(f, a) == f

\* Block a absorbs the next block if that begins where a ends.
Join(f, a) ==
  IF \E b \in Following(f, a) : a + f[a] = b
    THEN With(Without(f, a + f[a]), a, f[a] + f[a + f[a]])
    ELSE f

\* free_list_insert(): link the block in, merge it with the next, then the
\* previous with it
FreeListInsert(a, n) ==
  LET f == Join(With(free, a, n), a)
      prev == {b \in DOMAIN free : b < a /\ \A c \in DOMAIN free : c < a => c <= b}
  IN free' = IF prev = {} THEN f ELSE Join(f, CHOOSE b \in prev : TRUE)

\* first fit
Fitting(n) ==
  {b \in DOMAIN free : /\ free[b] >= n
                       /\ \A c \in DOMAIN free : free[c] >= n => b <= c}

\* the list once n bytes of block b are taken; a rest too small for a header
\* is dropped
Taken(b, n) ==
  IF free[b] - n >= HeaderSize THEN With(Without(free, b), b + n, free[b] - n)
                               ELSE Without(free, b)

-----------------------------------------------------------------------------
(* The calls *)

\* heap_grow(): the host grants some amount, perhaps nothing
HeapGrow == heapEnd' \in {e \in Ends : e >= heapEnd}

\* sys_mmap(): the address it returns for n bytes, or 0.  heap_alloc() calls
\* heap_grow() until the request fits or the host gives nothing more.
FromFreeList(n, p) ==
  /\ p \in Fitting(n)
  /\ free' = Taken(p, n)
  /\ UNCHANGED <<heapCur, heapEnd>>

\* Mutant of Bump: the end of the window is not looked at
BumpPastEnd(n, p) ==
  /\ Fitting(n) = {}
  /\ p = RoundUp(heapCur)
  /\ heapCur' = p + n
  /\ UNCHANGED <<heapEnd, free>>

Bump(n, p) ==
  /\ Fitting(n) = {}
  /\ p = RoundUp(heapCur)
  /\ IF p + n <= heapEnd THEN UNCHANGED heapEnd ELSE HeapGrow
  /\ p + n <= heapEnd'
  /\ heapCur' = p + n
  /\ UNCHANGED free

OutOfMemory(n) ==
  /\ Fitting(n) = {}
  /\ RoundUp(heapCur) + n > heapEnd
  /\ HeapGrow
  /\ RoundUp(heapCur) + n > heapEnd'
  /\ UNCHANGED <<heapCur, free>>

SysMmap(n, p) == FromFreeList(n, p) \/ Bump(n, p)

SysMunmap(a, n) == FreeListInsert(a, n) /\ UNCHANGED <<heapCur, heapEnd>>

\* Mutant of SysBrk: a break behind the bump pointer is honoured
SysBrkRewinds(addr) ==
  /\ IF addr > heapEnd THEN HeapGrow ELSE UNCHANGED heapEnd
  /\ heapCur' = IF addr >= BssStop /\ addr <= heapEnd' THEN addr ELSE heapCur
  /\ UNCHANGED free

\* sys_brk(): heapCur' is also what it returns.
SysBrk(addr) ==
  /\ IF addr > heapEnd THEN HeapGrow ELSE UNCHANGED heapEnd
  /\ heapCur' = IF addr >= heapCur /\ addr <= heapEnd' THEN addr ELSE heapCur
  /\ UNCHANGED free

-----------------------------------------------------------------------------
(* The clients *)

\* A program, or mallocng for an allocation of 128 KiB and more, or
\* pthread_create() for a stack
Map(len) ==
  /\ Cardinality(DOMAIN live) < MaxLive
  /\ \E p \in DOMAIN free \cup {RoundUp(heapCur)} :
       /\ SysMmap(RoundUp(len), p)
       /\ live' = With(live, p, RoundUp(len))
  /\ UNCHANGED <<meta, ctxBrk, ctxPc>>

MapFails(len) ==
  /\ OutOfMemory(RoundUp(len))
  /\ UNCHANGED <<live, meta, ctxBrk, ctxPc>>

\* The whole of a mapping is given back, or its first or last page.
Unmap(a, from, n) ==
  /\ SysMunmap(from, n)
  /\ live' = IF n = live[a] THEN Without(live, a)
             ELSE IF from = a THEN With(Without(live, a), a + n, live[a] - n)
             ELSE With(live, a, live[a] - n)
  /\ UNCHANGED <<meta, ctxBrk, ctxPc>>

UnmapSome ==
  \E a \in DOMAIN live :
    \/ Unmap(a, a, live[a])
    \/ live[a] > Page /\ (Unmap(a, a, Page) \/ Unmap(a, a + live[a] - Page, Page))

\* alloc_meta(), the first time: ctx.brk = brk(0), rounded up to a page ...
MetaQuery ==
  /\ ctxPc = "idle" /\ ctxBrk = 0
  /\ ctxBrk' = RoundUp(heapCur)
  /\ ctxPc' = "first"
  /\ UNCHANGED <<heapVars, live, meta>>

\* ... brk(ctx.brk + 2 pages): a guard page and a page of metadata ...
MetaFirst ==
  /\ ctxPc = "first"
  /\ SysBrk(ctxBrk + 2 * Page)
  /\ IF heapCur' = ctxBrk + 2 * Page
       THEN /\ meta' = {ctxBrk + Page}
            /\ ctxBrk' = ctxBrk + 2 * Page
            /\ ctxPc' = "guard"
       ELSE /\ ctxBrk' = -1
            /\ ctxPc' = "idle"
            /\ UNCHANGED meta
  /\ UNCHANGED live

\* ... and a MAP_FIXED mapping over the guard page.  The port ignores address
\* and flag and maps some other page, which nobody uses or gives back.
MetaGuard ==
  /\ ctxPc = "guard"
  /\ \/ \E p \in DOMAIN free \cup {RoundUp(heapCur)} : SysMmap(Page, p)
     \/ OutOfMemory(Page)
  /\ ctxPc' = "idle"
  /\ UNCHANGED <<live, meta, ctxBrk>>

\* alloc_meta() later on: one page more than the break it remembers
MetaGrow ==
  /\ ctxPc = "idle" /\ ctxBrk > 0
  /\ SysBrk(ctxBrk + Page)
  /\ IF heapCur' = ctxBrk + Page
       THEN /\ meta' = meta \cup {ctxBrk}
            /\ ctxBrk' = ctxBrk + Page
       ELSE /\ ctxBrk' = -1
            /\ UNCHANGED meta
  /\ UNCHANGED <<live, ctxPc>>

Next ==
  \/ \E len \in MapLen : Map(len) \/ MapFails(len)
  \/ UnmapSome
  \/ MetaQuery \/ MetaFirst \/ MetaGuard \/ MetaGrow

Spec == Init /\ [][Next]_vars

-----------------------------------------------------------------------------
(* Properties *)

Apart(a, n, b, m) == a + n <= b \/ b + m <= a

\* No two mappings share a byte, and nothing mapped is on the free list, where
\* its first bytes would be a list header and the next mmap() would hand it out.
MapsApart ==
  /\ \A a, b \in DOMAIN live : a # b => Apart(a, live[a], b, live[b])
  /\ \A a \in DOMAIN free, b \in DOMAIN live : Apart(a, free[a], b, live[b])

\* No two owners share a byte: the mappings as above, and mallocng's metadata,
\* which it keeps in pages that brk() gave it.
NoOverlap ==
  /\ MapsApart
  /\ \A q \in meta : /\ \A a \in DOMAIN free : Apart(a, free[a], q, Page)
                     /\ \A a \in DOMAIN live : Apart(a, live[a], q, Page)

\* The step that leads to a shared page: somebody's mapping moves the bump
\* pointer to exactly the break that alloc_meta() will ask for next.
NextBreak == ctxBrk + (IF ctxPc = "first" THEN 2 ELSE 1) * Page
Lands == ctxBrk > 0 /\ live' # live /\ heapCur' # heapCur /\ heapCur' = NextBreak

\* "Blocks are kept address-sorted so adjacent frees coalesce into one larger
\* block": no two blocks of the list touch, let alone overlap.
Coalesced == \A a, b \in DOMAIN free : a < b => a + free[a] < b

\* Whatever is in use or free lies inside the window the kernel has mapped,
\* and below the bump pointer, which will hand out the rest.
InArena ==
  /\ heapCur <= heapEnd
  /\ \A a \in DOMAIN live : BssStop <= a /\ a + live[a] <= heapCur
  /\ \A a \in DOMAIN free : BssStop <= a /\ a + free[a] <= heapCur
  /\ \A q \in meta : BssStop <= q /\ q + Page <= heapCur

=============================================================================
