--------------------------- MODULE ProgramProofs ---------------------------
(***************************************************************************)
(* Proofs about Program, and with it about the arena of Heap, for any RAM, *)
(* image, lengths and number of mappings and modules: a program that was   *)
(* started stays in its window, the free list stays coalesced, nothing in  *)
(* use is handed out twice, and dlopen() gives back what it took.          *)
(***************************************************************************)
EXTENDS Program, TLAPS

-----------------------------------------------------------------------------
(* Pages *)

LEMMA RoundedUp ==
  ASSUME NEW x \in Nat
  PROVE  RoundUp(x) \in Nat /\ x <= RoundUp(x) /\ RoundUp(x) % Page = 0
         /\ RoundUp(x) < x + Page
BY Z3 DEF RoundUp, Page

LEMMA RoundedAlready ==
  ASSUME NEW x \in Nat, x % Page = 0
  PROVE  RoundUp(x) = x
BY Z3 DEF RoundUp, Page

LEMMA NextPage ==
  ASSUME NEW x \in Nat, x % Page = 0
  PROVE  (x + Page) % Page = 0 /\ (x + 2 * Page) % Page = 0
BY Z3 DEF Page

\* whole pages: one, two, or more
LEMMA TwoPages ==
  ASSUME NEW x \in Nat \ {0}, x % Page = 0
  PROVE  x = Page \/ x = 2 * Page \/ x >= 3 * Page
BY Z3 DEF Page

-----------------------------------------------------------------------------
(* The free list *)

\* no block of f shares a byte with n bytes at a
Clear(f, a, n) == \A b \in DOMAIN f : Apart(b, f[b], a, n)

\* the blocks of f lie in what f and n bytes at a cover
Disjoint(f) == \A a, b \in DOMAIN f : a # b => Apart(a, f[a], b, f[b])

LEMMA WithoutBlock ==
  ASSUME NEW f, BlockMap(f), NEW a
  PROVE  /\ BlockMap(Without(f, a))
         /\ DOMAIN Without(f, a) = DOMAIN f \ {a}
         /\ \A b \in DOMAIN f : b # a => Without(f, a)[b] = f[b]
BY DEF BlockMap, Without

\* Join merges a block with the one that begins at its end, or there is none.
LEMMA Joined ==
  ASSUME NEW f, BlockMap(f), Disjoint(f), NEW a \in DOMAIN f
  PROVE  LET g == Join(f, a)
             e == a + f[a]
         IN \/ g = f /\ e \notin DOMAIN f
            \/ /\ e \in DOMAIN f /\ e # a
               /\ BlockMap(g) /\ DOMAIN g = DOMAIN f \ {e}
               /\ g[a] = f[a] + f[e]
               /\ \A b \in DOMAIN g : b # a => g[b] = f[b]
<1> DEFINE e == a + f[a]
<1>1. a \in Nat /\ f[a] \in Nat \ {0} /\ e \in Nat /\ e > a
  BY DEF BlockMap
<1>2. CASE e \in DOMAIN f
  <2>1. \A c \in DOMAIN f : c > a => e <= c
    BY <1>1 DEF Disjoint, Apart, BlockMap
  <2>2. e \in Following(f, a)
    BY <1>1, <1>2, <2>1 DEF Following
  <2>3. Join(f, a) = With(Without(f, e), a, f[a] + f[e])
    BY <2>2 DEF Join
  <2>4. f[e] \in Nat \ {0} /\ f[a] + f[e] \in Nat \ {0}
    BY <1>1, <1>2 DEF BlockMap
  <2>5. /\ BlockMap(Without(f, e)) /\ DOMAIN Without(f, e) = DOMAIN f \ {e}
        /\ \A b \in DOMAIN f : b # e => Without(f, e)[b] = f[b]
    BY WithoutBlock
  <2>6. a \in DOMAIN Without(f, e)
    BY <1>1, <2>5
  <2> DEFINE h == Without(f, e)
             n == f[a] + f[e]
  <2> HIDE DEF h, n
  <2>7. /\ BlockMap(With(h, a, n)) /\ DOMAIN With(h, a, n) = DOMAIN h \cup {a}
        /\ With(h, a, n)[a] = n
        /\ \A b \in DOMAIN h : b # a => With(h, a, n)[b] = h[b]
    <3>1. BlockMap(h) /\ n \in Nat \ {0}
      BY <2>4, <2>5 DEF h, n
    <3> QED BY <1>1, <3>1 DEF With, BlockMap
  <2>8. DOMAIN h = DOMAIN f \ {e} /\ a \in DOMAIN h
        /\ \A b \in DOMAIN h : h[b] = f[b]
    BY <2>5, <2>6 DEF h
  <2>9. Join(f, a) = With(h, a, n)
    BY <2>3 DEF h, n
  <2>10. /\ BlockMap(Join(f, a)) /\ DOMAIN Join(f, a) = DOMAIN f \ {e}
         /\ Join(f, a)[a] = f[a] + f[e]
         /\ \A b \in DOMAIN f : b # a /\ b # e => Join(f, a)[b] = f[b]
    BY <2>7, <2>8, <2>9 DEF n
  <2> QED BY <1>1, <1>2, <2>10
<1>3. CASE e \notin DOMAIN f
  BY <1>3 DEF Join, Following
<1> QED BY <1>2, <1>3

\* The two-step merge of free_list_insert(): what is free afterwards is what was
\* free before and the range given back, in blocks that do not touch.
LEMMA Inserted ==
  ASSUME BlockMap(free), Coalesced, NEW a \in Nat, NEW n \in Nat \ {0},
         Clear(free, a, n), FreeListInsert(a, n)
  PROVE  /\ BlockMap(free') /\ Coalesced'
         /\ \A c \in Nat, m \in Nat \ {0} :
              Clear(free, c, m) /\ Apart(c, m, a, n) => Clear(free', c, m)
         /\ \A lo, hi \in Nat :
              /\ lo <= a /\ a + n <= hi
              /\ \A b \in DOMAIN free : lo <= b /\ b + free[b] <= hi
              => \A b \in DOMAIN free' : lo <= b /\ b + free'[b] <= hi
<1> DEFINE f0 == With(free, a, n)
           f1 == Join(f0, a)
           e == a + n
           prev == {b \in DOMAIN free : b < a /\ \A c \in DOMAIN free : c < a => c <= b}
<1>1. a \notin DOMAIN free
  BY DEF Clear, Apart, BlockMap
<1>2. /\ BlockMap(f0) /\ DOMAIN f0 = DOMAIN free \cup {a} /\ f0[a] = n
      /\ \A b \in DOMAIN free : f0[b] = free[b]
  <2>1. /\ BlockMap(f0) /\ DOMAIN f0 = DOMAIN free \cup {a} /\ f0[a] = n
        /\ \A b \in DOMAIN free : b # a => f0[b] = free[b]
    BY DEF With, BlockMap
  <2> HIDE DEF f0
  <2> QED BY <1>1, <2>1
<1>3. Disjoint(f0)
  <2>1. Disjoint(free)
    BY DEF Disjoint, Coalesced, BlockMap, Apart
  <2> HIDE DEF f0
  <2> QED BY <1>1, <1>2, <2>1 DEF Disjoint, Clear, Apart, BlockMap
<1> HIDE DEF f0
<1>4. \/ f1 = f0 /\ e \notin DOMAIN f0
      \/ /\ e \in DOMAIN f0 /\ e # a
         /\ BlockMap(f1) /\ DOMAIN f1 = DOMAIN f0 \ {e}
         /\ f1[a] = n + f0[e]
         /\ \A b \in DOMAIN f1 : b # a => f1[b] = f0[b]
  <2>1. a \in DOMAIN f0 /\ BlockMap(f0) /\ f0[a] = n
    BY <1>2
  <2> QED BY <1>3, <2>1, Joined
<1> HIDE DEF f1
\* after the first merge: as f0, but the block at a does not touch the next
<1>5. /\ BlockMap(f1) /\ DOMAIN f1 \subseteq DOMAIN free \cup {a} /\ a \in DOMAIN f1
      /\ \A b \in DOMAIN f1 : b # a => f1[b] = free[b]
      /\ \A b \in DOMAIN free : b < a => b \in DOMAIN f1
      /\ \/ f1[a] = n
         \/ e \in DOMAIN free /\ f1[a] = n + free[e]
  BY <1>1, <1>2, <1>4 DEF BlockMap
<1>6. \A b \in DOMAIN f1 : b > a => a + f1[a] < b
  BY <1>1, <1>2, <1>3, <1>4 DEF Coalesced, BlockMap, Disjoint, Apart
<1>7. \A b \in DOMAIN f1 : b < a => b + free[b] <= a
  BY <1>5 DEF Clear, Apart, BlockMap
<1>8. \A b, c \in DOMAIN f1 : b # a /\ c # a /\ b < c => b + f1[b] < c
  BY <1>5 DEF Coalesced
<1>9. \A c \in Nat, m \in Nat \ {0} :
        Clear(free, c, m) /\ Apart(c, m, a, n) => Clear(f1, c, m)
  BY <1>5 DEF Clear, Apart, BlockMap
<1>10. \A lo, hi \in Nat :
         /\ lo <= a /\ a + n <= hi
         /\ \A b \in DOMAIN free : lo <= b /\ b + free[b] <= hi
         => \A b \in DOMAIN f1 : lo <= b /\ b + f1[b] <= hi
  BY <1>5 DEF BlockMap
<1>11. free' = IF prev = {} THEN f1 ELSE Join(f1, CHOOSE b \in prev : TRUE)
  BY DEF FreeListInsert, f1, f0
<1>12. CASE \A b \in DOMAIN f1 : b < a => b + free[b] # a
  <2>1. free' = f1
    <3>1. CASE prev = {}
      BY <1>11, <3>1
    <3>2. CASE prev # {}
      <4> DEFINE p == CHOOSE b \in prev : TRUE
      <4>1. p \in DOMAIN free /\ p < a /\ \A c \in DOMAIN free : c < a => c <= p
        BY <3>2
      <4> HIDE DEF p
      <4>2. p \in DOMAIN f1 /\ f1[p] = free[p] /\ p + f1[p] # a /\ p + f1[p] <= a
        BY <1>5, <1>7, <1>12, <4>1
      <4>3. p + f1[p] \notin DOMAIN f1
        BY <1>5, <1>8, <4>1, <4>2 DEF BlockMap
      <4>4. Disjoint(f1)
        BY <1>5, <1>6, <1>7, <1>8 DEF Disjoint, Apart, BlockMap
      <4>5. free' = Join(f1, p)
        BY <1>11, <3>2 DEF p
      <4> QED BY <1>5, <4>2, <4>3, <4>4, <4>5, Joined
    <3> QED BY <3>1, <3>2
  <2>2. Coalesced'
    BY <1>5, <1>6, <1>7, <1>8, <1>12, <2>1 DEF Coalesced, BlockMap
  <2> QED BY <1>5, <1>9, <1>10, <2>1, <2>2
<1>13. ASSUME NEW p \in DOMAIN f1, p < a, p + free[p] = a
       PROVE  /\ BlockMap(free') /\ Coalesced'
              /\ \A c \in Nat, m \in Nat \ {0} : Clear(f1, c, m) => Clear(free', c, m)
              /\ \A lo, hi \in Nat :
                   (\A b \in DOMAIN f1 : lo <= b /\ b + f1[b] <= hi)
                   => \A b \in DOMAIN free' : lo <= b /\ b + free'[b] <= hi
  <2>1. p \in DOMAIN free /\ f1[p] = free[p]
    BY <1>5, <1>13
  <2>2. \A c \in DOMAIN free : c < a => c <= p
    BY <1>5, <1>7, <1>8, <1>13, <2>1 DEF BlockMap
  <2>3. prev = {p}
    BY <1>13, <2>1, <2>2 DEF BlockMap
  <2>4. free' = Join(f1, p)
    BY <1>11, <2>3
  <2>5. Disjoint(f1)
    BY <1>5, <1>6, <1>7, <1>8 DEF Disjoint, Apart, BlockMap
  <2>6. /\ BlockMap(free') /\ DOMAIN free' = DOMAIN f1 \ {a}
        /\ free'[p] = f1[p] + f1[a]
        /\ \A b \in DOMAIN free' : b # p => free'[b] = f1[b]
    BY <1>5, <1>13, <2>1, <2>4, <2>5, Joined
  <2>7. p \in Nat /\ f1[p] \in Nat \ {0} /\ f1[a] \in Nat \ {0} /\ p \in DOMAIN free'
    BY <1>5, <1>13, <2>6 DEF BlockMap
  <2>8. Coalesced'
    BY <1>5, <1>6, <1>7, <1>8, <1>13, <2>1, <2>6, <2>7 DEF Coalesced, BlockMap
  <2>9. \A c \in Nat, m \in Nat \ {0} : Clear(f1, c, m) => Clear(free', c, m)
    BY <1>5, <1>13, <2>1, <2>6, <2>7 DEF Clear, Apart, BlockMap
  <2>10. \A lo, hi \in Nat :
           (\A b \in DOMAIN f1 : lo <= b /\ b + f1[b] <= hi)
           => \A b \in DOMAIN free' : lo <= b /\ b + free'[b] <= hi
    BY <1>5, <1>13, <2>1, <2>6, <2>7 DEF BlockMap
  <2> QED BY <2>6, <2>8, <2>9, <2>10
<1> QED BY <1>9, <1>10, <1>12, <1>13

-----------------------------------------------------------------------------
(* The arena *)

Inside(f) == \A b \in DOMAIN f : BssStop <= b /\ b + f[b] <= heapCur

\* what the break and the list rest on, whatever mallocng's break is used for
ArenaInv ==
  /\ heapCur \in Nat /\ BssStop <= heapCur /\ heapEnd \in Nat
  /\ BlockMap(free) /\ Coalesced /\ Inside(free)
  /\ BlockMap(live) /\ Disjoint(live) /\ Inside(live)
  /\ \A a \in DOMAIN live : Clear(free, a, live[a])
  /\ meta \subseteq Nat /\ \A q \in meta : BssStop <= q /\ q + Page <= heapCur
  /\ ctxBrk \in Nat \cup {-1} /\ ctxPc \in {"idle", "first", "guard"}
  /\ ctxPc # "idle" => ctxBrk > 0
  /\ ctxBrk > 0 => BssStop <= ctxBrk

\* the window only grows, and a bump pointer in it stays in it
Grown == /\ heapEnd' \in Nat /\ heapEnd <= heapEnd'
         /\ heapCur' \in Nat /\ heapCur <= heapCur'
         /\ heapCur <= heapEnd => heapCur' <= heapEnd'

\* sys_mmap() hands out what was on the list or beyond the bump pointer.
LEMMA Allocated ==
  ASSUME ArenaInv, NEW n \in Nat \ {0}, NEW p \in DOMAIN free \cup {RoundUp(heapCur)},
         SysMmap(n, p)
  PROVE  /\ Grown /\ p \in Nat /\ BssStop <= p /\ p + n <= heapCur'
         /\ BlockMap(free') /\ Coalesced' /\ Inside(free)'
         /\ Clear(free', p, n)
         /\ \A c \in Nat, m \in Nat \ {0} : Clear(free, c, m) => Clear(free', c, m)
         /\ \A c \in Nat, m \in Nat \ {0} :
              Clear(free, c, m) /\ c + m <= heapCur => Apart(c, m, p, n)
         /\ heapCur' # heapCur => heapCur' = RoundUp(heapCur) + n /\ free' = free
         /\ \A hi \in Nat :
              heapCur' = heapCur /\ (\A b \in DOMAIN free : b + free[b] <= hi)
              => p + n <= hi /\ \A b \in DOMAIN free' : b + free'[b] <= hi
<1>1. /\ heapCur \in Nat /\ BssStop \in Nat \ {0} /\ BssStop <= heapCur /\ heapEnd \in Nat
      /\ BlockMap(free) /\ Coalesced /\ Inside(free)
  BY BssStopAssumption DEF ArenaInv
<1>2. CASE FromFreeList(n, p)
  <2>1. p \in DOMAIN free /\ free[p] >= n /\ free' = Taken(p, n)
        /\ UNCHANGED <<heapCur, heapEnd>>
    BY <1>2 DEF FromFreeList, Fitting
  <2>2. p \in Nat /\ free[p] \in Nat /\ p + n <= heapCur /\ BssStop <= p
    BY <1>1, <2>1 DEF BlockMap, Inside
  \* what is left of block p is its end, or nothing
  <2>3. \/ /\ DOMAIN free' = (DOMAIN free \ {p}) \cup {p + n}
           /\ free'[p + n] = free[p] - n /\ free[p] - n \in Nat \ {0}
           /\ \A b \in DOMAIN free : b # p => free'[b] = free[b]
        \/ /\ DOMAIN free' = DOMAIN free \ {p}
           /\ \A b \in DOMAIN free : b # p => free'[b] = free[b]
    <3>1. CASE free[p] - n >= HeaderSize
      <4>1. free' = With(Without(free, p), p + n, free[p] - n)
        BY <2>1, <3>1 DEF Taken
      <4>2. \A b \in DOMAIN free : b # p => b # p + n
        BY <1>1, <2>1, <2>2, <3>1 DEF Coalesced, BlockMap, HeaderSize
      <4> QED BY <2>1, <2>2, <3>1, <4>1, <4>2 DEF With, Without, HeaderSize
    <3>2. CASE ~(free[p] - n >= HeaderSize)
      BY <2>1, <3>2 DEF Taken, Without
    <3> QED BY <3>1, <3>2
  <2>4. BlockMap(free')
    BY <1>1, <2>1, <2>2, <2>3 DEF BlockMap
  <2>5. Coalesced'
    BY <1>1, <2>1, <2>2, <2>3 DEF Coalesced, BlockMap
  <2>6. Inside(free)'
    BY <1>1, <2>1, <2>2, <2>3 DEF Inside, BlockMap
  <2>7. Clear(free', p, n)
    BY <1>1, <2>1, <2>2, <2>3 DEF Clear, Apart, Coalesced, BlockMap
  <2>8. \A c \in Nat, m \in Nat \ {0} : Clear(free, c, m) => Clear(free', c, m)
    BY <1>1, <2>1, <2>2, <2>3 DEF Clear, Apart, BlockMap
  <2>9. \A c \in Nat, m \in Nat \ {0} : Clear(free, c, m) => Apart(c, m, p, n)
    BY <2>1, <2>2 DEF Clear, Apart
  <2>10. \A hi \in Nat :
           (\A b \in DOMAIN free : b + free[b] <= hi)
           => p + n <= hi /\ \A b \in DOMAIN free' : b + free'[b] <= hi
    BY <1>1, <2>1, <2>2, <2>3 DEF BlockMap
  <2> QED BY <1>1, <2>1, <2>2, <2>4, <2>5, <2>6, <2>7, <2>8, <2>9, <2>10 DEF Grown
<1>3. CASE Bump(n, p)
  <2>1. p = RoundUp(heapCur) /\ p \in Nat /\ heapCur <= p
    BY <1>1, <1>3, RoundedUp DEF Bump
  <2>2. heapEnd' \in Nat /\ heapEnd <= heapEnd'
    <3>1. HeapGrow => heapEnd' \in Nat /\ heapEnd <= heapEnd'
      BY EndsAssumption DEF HeapGrow
    <3>2. heapEnd' = heapEnd \/ HeapGrow
      BY <1>3 DEF Bump
    <3> QED BY <1>1, <3>1, <3>2
  <2>3. heapCur' = p + n /\ p + n <= heapEnd' /\ free' = free
    BY <1>3 DEF Bump
  <2>4. Coalesced' /\ Inside(free)'
    BY <1>1, <2>1, <2>3 DEF Coalesced, Inside, BlockMap
  <2>5. Clear(free', p, n)
    BY <1>1, <2>1, <2>3 DEF Clear, Apart, Inside, BlockMap
  <2> QED BY <1>1, <2>1, <2>2, <2>3, <2>4, <2>5 DEF Grown, Apart
<1> QED BY <1>2, <1>3 DEF SysMmap

\* A new mapping shares nothing with what was mapped or is free.
LEMMA Mapped ==
  ASSUME ArenaInv, NEW n \in Nat \ {0}, NEW p \in DOMAIN free \cup {RoundUp(heapCur)},
         SysMmap(n, p), live' = With(live, p, n), UNCHANGED <<meta, ctxBrk, ctxPc>>
  PROVE  /\ ArenaInv' /\ Grown
         /\ p # 0 /\ p \notin DOMAIN live /\ DOMAIN live' = DOMAIN live \cup {p}
<1>1. /\ Grown /\ p \in Nat /\ BssStop <= p /\ p + n <= heapCur'
      /\ BlockMap(free') /\ Coalesced' /\ Inside(free)'
      /\ Clear(free', p, n)
      /\ \A c \in Nat, m \in Nat \ {0} : Clear(free, c, m) => Clear(free', c, m)
      /\ \A c \in Nat, m \in Nat \ {0} :
           Clear(free, c, m) /\ c + m <= heapCur => Apart(c, m, p, n)
  BY Allocated
<1>2. /\ heapCur \in Nat /\ BssStop \in Nat \ {0} /\ BssStop <= heapCur
      /\ heapCur' \in Nat /\ heapCur <= heapCur' /\ heapEnd' \in Nat
  BY <1>1, BssStopAssumption DEF ArenaInv, Grown
<1>3. \A a \in DOMAIN live :
        a \in Nat /\ live[a] \in Nat \ {0} /\ Clear(free, a, live[a]) /\ a + live[a] <= heapCur
  BY DEF ArenaInv, BlockMap, Inside
<1>4. \A a \in DOMAIN live : Apart(a, live[a], p, n)
  BY <1>1, <1>3
<1>5. p \notin DOMAIN live
  BY <1>1, <1>3, <1>4 DEF Apart
<1>6. /\ DOMAIN live' = DOMAIN live \cup {p} /\ live'[p] = n
      /\ \A a \in DOMAIN live : live'[a] = live[a]
      /\ BlockMap(live')
  BY <1>1, <1>3, <1>5 DEF With, BlockMap
<1>7. Disjoint(live')
  BY <1>1, <1>3, <1>4, <1>6 DEF Disjoint, Apart, ArenaInv
<1>8. Inside(live)'
  BY <1>1, <1>2, <1>3, <1>6 DEF Inside, ArenaInv
<1>9. \A a \in DOMAIN live' : Clear(free', a, live'[a])
  BY <1>1, <1>3, <1>6
<1>10. /\ meta' \subseteq Nat /\ \A q \in meta' : BssStop <= q /\ q + Page <= heapCur'
       /\ ctxBrk' \in Nat \cup {-1} /\ ctxPc' \in {"idle", "first", "guard"}
       /\ ctxPc' # "idle" => ctxBrk' > 0
       /\ ctxBrk' > 0 => BssStop <= ctxBrk'
  BY <1>2 DEF ArenaInv, Page
<1> QED BY <1>1, <1>2, <1>5, <1>6, <1>7, <1>8, <1>9, <1>10 DEF ArenaInv

\* What is given back, wholly or a part of it, is free and no longer in use.
\* The range left over, if there is one, is what is in use of block a then.
LEMMA Released ==
  ASSUME ArenaInv, NEW a \in DOMAIN live, NEW from \in Nat, NEW n \in Nat \ {0},
         a <= from, from + n <= a + live[a], SysMunmap(from, n),
         UNCHANGED <<meta, ctxBrk, ctxPc>>,
         BlockMap(live'), DOMAIN live \ {a} \subseteq DOMAIN live',
         \A b \in DOMAIN live : b # a => live'[b] = live[b],
         \A b \in DOMAIN live' : b \notin DOMAIN live \ {a} =>
            a <= b /\ b + live'[b] <= a + live[a] /\ Apart(b, live'[b], from, n),
         \A b, c \in DOMAIN live' : b \notin DOMAIN live \ {a} /\ c \notin DOMAIN live \ {a}
            => b = c
  PROVE  ArenaInv' /\ UNCHANGED <<heapCur, heapEnd>>
         /\ \A c \in Nat, m \in Nat \ {0} :
              Clear(free, c, m) /\ Apart(a, live[a], c, m) => Clear(free', c, m)
<1>1. /\ heapCur \in Nat /\ BssStop \in Nat /\ heapEnd \in Nat
      /\ BlockMap(free) /\ Coalesced /\ Inside(free)
      /\ BlockMap(live) /\ Disjoint(live) /\ Inside(live)
      /\ \A b \in DOMAIN live : Clear(free, b, live[b])
  BY BssStopAssumption DEF ArenaInv
<1>2. FreeListInsert(from, n) /\ UNCHANGED <<heapCur, heapEnd>>
  BY DEF SysMunmap
<1>3. a \in Nat /\ live[a] \in Nat \ {0} /\ BssStop <= a /\ a + live[a] <= heapCur
  BY <1>1 DEF BlockMap, Inside
<1>4. Clear(free, from, n)
  BY <1>1, <1>3 DEF Clear, Apart, BlockMap
<1>5. /\ BlockMap(free') /\ Coalesced'
      /\ \A c \in Nat, m \in Nat \ {0} :
           Clear(free, c, m) /\ Apart(c, m, from, n) => Clear(free', c, m)
      /\ \A lo, hi \in Nat :
           /\ lo <= from /\ from + n <= hi
           /\ \A b \in DOMAIN free : lo <= b /\ b + free[b] <= hi
           => \A b \in DOMAIN free' : lo <= b /\ b + free'[b] <= hi
  BY <1>1, <1>2, <1>4, Inserted
<1>6. Inside(free)'
  BY <1>1, <1>2, <1>3, <1>5 DEF Inside
<1>7. \A b \in DOMAIN live' : b \in Nat /\ live'[b] \in Nat \ {0}
  BY DEF BlockMap
<1>8. \A b \in DOMAIN live : b # a => Apart(b, live[b], from, n)
  BY <1>1, <1>3 DEF Disjoint, Apart, BlockMap
<1>9. \A b \in DOMAIN live' : Clear(free', b, live'[b])
  <2> TAKE b \in DOMAIN live'
  <2>1. CASE b \in DOMAIN live \ {a}
    BY <1>1, <1>5, <1>7, <1>8, <2>1
  <2>2. CASE b \notin DOMAIN live \ {a}
    <3>1. Clear(free, b, live'[b])
      BY <1>1, <1>3, <1>7, <2>2 DEF Clear, Apart, BlockMap
    <3> QED BY <1>5, <1>7, <2>2, <3>1
  <2> QED BY <2>1, <2>2
<1>10. Disjoint(live')
  <2> SUFFICES ASSUME NEW b \in DOMAIN live', NEW c \in DOMAIN live', b # c
               PROVE  Apart(b, live'[b], c, live'[c])
    BY DEF Disjoint
  <2>1. CASE b \in DOMAIN live \ {a} /\ c \in DOMAIN live \ {a}
    BY <1>1, <2>1 DEF Disjoint
  <2>2. CASE b \in DOMAIN live \ {a} /\ c \notin DOMAIN live \ {a}
    BY <1>1, <1>3, <1>7, <2>2 DEF Disjoint, Apart
  <2>3. CASE b \notin DOMAIN live \ {a} /\ c \in DOMAIN live \ {a}
    BY <1>1, <1>3, <1>7, <2>3 DEF Disjoint, Apart
  <2> QED BY <2>1, <2>2, <2>3
<1>11. Inside(live)'
  BY <1>1, <1>2, <1>3, <1>7 DEF Inside
<1>12. \A c \in Nat, m \in Nat \ {0} :
         Clear(free, c, m) /\ Apart(a, live[a], c, m) => Clear(free', c, m)
  BY <1>3, <1>5 DEF Apart
<1> QED BY <1>1, <1>2, <1>5, <1>6, <1>9, <1>10, <1>11, <1>12 DEF ArenaInv

-----------------------------------------------------------------------------
(* mallocng's break *)

\* The four steps of alloc_meta() keep the arena, wherever the bump pointer is.
LEMMA MetaArena ==
  ASSUME ArenaInv, MetaQuery \/ MetaFirst \/ MetaGuard \/ MetaGrow
  PROVE  ArenaInv' /\ Grown /\ live' = live
<1>1. /\ heapCur \in Nat /\ BssStop \in Nat \ {0} /\ BssStop <= heapCur /\ heapEnd \in Nat
      /\ BlockMap(free) /\ Coalesced /\ Inside(free)
      /\ BlockMap(live) /\ Disjoint(live) /\ Inside(live)
      /\ \A b \in DOMAIN live : Clear(free, b, live[b])
      /\ meta \subseteq Nat /\ \A q \in meta : BssStop <= q /\ q + Page <= heapCur
      /\ ctxBrk \in Nat \cup {-1}
      /\ ctxPc # "idle" => ctxBrk > 0
      /\ ctxBrk > 0 => BssStop <= ctxBrk
  BY BssStopAssumption DEF ArenaInv
<1>2. ASSUME NEW addr \in Nat, SysBrk(addr)
      PROVE  Grown /\ free' = free
  <2>1. HeapGrow => heapEnd' \in Nat /\ heapEnd <= heapEnd'
    BY EndsAssumption DEF HeapGrow
  <2>2. heapEnd' = heapEnd \/ HeapGrow
    BY <1>2 DEF SysBrk
  <2>3. heapEnd' \in Nat /\ heapEnd <= heapEnd'
    BY <1>1, <2>1, <2>2
  <2>4. free' = free
    BY <1>2 DEF SysBrk
  <2>5. heapCur' = heapCur \/ (heapCur' = addr /\ addr >= heapCur /\ addr <= heapEnd')
    BY <1>2 DEF SysBrk
  <2> QED BY <1>1, <2>3, <2>4, <2>5 DEF Grown
<1>3. ASSUME Grown, UNCHANGED <<free, live>>, NEW q \in Nat,
             meta' \subseteq meta \cup {q}, BssStop <= q,
             q \in meta' => q + Page <= heapCur',
             ctxBrk' \in Nat \cup {-1}, ctxBrk' > 0 => BssStop <= ctxBrk',
             ctxPc' \in {"idle", "first", "guard"}, ctxPc' # "idle" => ctxBrk' > 0
      PROVE  ArenaInv'
  <2>1. heapCur' \in Nat /\ heapCur <= heapCur' /\ heapEnd' \in Nat
    BY <1>3 DEF Grown
  <2>2. Inside(free)' /\ Inside(live)'
    BY <1>1, <1>3, <2>1 DEF Inside, BlockMap
  <2>3. Coalesced' /\ meta' \subseteq Nat /\ \A x \in meta' : BssStop <= x /\ x + Page <= heapCur'
    BY <1>1, <1>3, <2>1 DEF Coalesced, Page
  <2> QED BY <1>1, <1>3, <2>1, <2>2, <2>3 DEF ArenaInv
<1>4. CASE MetaQuery
  <2>1. RoundUp(heapCur) \in Nat /\ heapCur <= RoundUp(heapCur)
    BY <1>1, RoundedUp
  <2>2. UNCHANGED <<heapCur, heapEnd, free, live, meta>> /\ ctxBrk' = RoundUp(heapCur)
        /\ ctxPc' = "first"
    BY <1>4 DEF MetaQuery, heapVars
  <2>3. Grown
    BY <1>1, <2>2 DEF Grown
  <2>4. BssStop <= ctxBrk' /\ ctxBrk' \in Nat /\ ctxBrk' > 0
    BY <1>1, <2>1, <2>2
  <2>5. meta' \subseteq meta \cup {BssStop} /\ (BssStop \in meta' => BssStop + Page <= heapCur')
    BY <1>1, <2>2
  <2> QED BY <1>1, <1>3, <2>2, <2>3, <2>4, <2>5
<1>5. CASE MetaFirst
  <2>1. ctxBrk \in Nat /\ ctxBrk > 0 /\ SysBrk(ctxBrk + 2 * Page) /\ live' = live
    BY <1>1, <1>5 DEF MetaFirst
  <2>2. Grown /\ free' = free
    BY <1>2, <2>1 DEF Page
  <2>3. ctxBrk + Page \in Nat /\ BssStop <= ctxBrk + Page
    BY <1>1, <2>1 DEF Page
  <2>4. CASE heapCur' = ctxBrk + 2 * Page
    <3>1. meta' = {ctxBrk + Page} /\ ctxBrk' = ctxBrk + 2 * Page /\ ctxPc' = "guard"
      BY <1>5, <2>4 DEF MetaFirst
    <3>2. ctxBrk' \in Nat /\ ctxBrk' > 0 /\ BssStop <= ctxBrk'
          /\ ctxBrk + Page + Page <= heapCur'
      BY <1>1, <2>1, <2>4, <3>1 DEF Page
    <3> QED BY <1>3, <2>1, <2>2, <2>3, <3>1, <3>2
  <2>5. CASE heapCur' # ctxBrk + 2 * Page
    <3>1. meta' = meta /\ ctxBrk' = -1 /\ ctxPc' = "idle"
      BY <1>5, <2>5 DEF MetaFirst
    <3>2. ctxBrk + Page \in meta' => ctxBrk + Page + Page <= heapCur'
      BY <1>1, <2>1, <2>2, <3>1 DEF Grown, Page
    <3> QED BY <1>3, <2>1, <2>2, <2>3, <3>1, <3>2
  <2> QED BY <2>4, <2>5
<1>6. CASE MetaGuard
  <2>1. UNCHANGED <<live, meta, ctxBrk>> /\ ctxPc' = "idle"
    BY <1>6 DEF MetaGuard
  <2>2. CASE \E p \in DOMAIN free \cup {RoundUp(heapCur)} : SysMmap(Page, p)
    <3>1. /\ Grown /\ BlockMap(free') /\ Coalesced' /\ Inside(free)'
          /\ \A c \in Nat, m \in Nat \ {0} : Clear(free, c, m) => Clear(free', c, m)
      BY <2>2, Allocated DEF Page
    <3>2. heapCur' \in Nat /\ heapCur <= heapCur' /\ heapEnd' \in Nat
      BY <3>1 DEF Grown
    <3>3. Inside(live)' /\ \A q \in meta' : BssStop <= q /\ q + Page <= heapCur'
      BY <1>1, <2>1, <3>2 DEF Inside, BlockMap, Page
    <3>4. \A b \in DOMAIN live' : Clear(free', b, live'[b])
      BY <1>1, <2>1, <3>1 DEF BlockMap
    <3> QED BY <1>1, <2>1, <3>1, <3>2, <3>3, <3>4 DEF ArenaInv
  <2>3. CASE OutOfMemory(Page)
    <3>1. UNCHANGED <<heapCur, free>> /\ HeapGrow
      BY <2>3 DEF OutOfMemory
    <3>2. Grown
      BY <1>1, <3>1, EndsAssumption DEF Grown, HeapGrow
    <3>3. BssStop \in meta' => BssStop + Page <= heapCur'
      BY <1>1, <2>1, <3>1
    <3> QED BY <1>1, <1>3, <2>1, <3>1, <3>2, <3>3
  <2> QED BY <1>6, <2>1, <2>2, <2>3 DEF MetaGuard
<1>7. CASE MetaGrow
  <2>1. ctxBrk \in Nat /\ ctxBrk > 0 /\ SysBrk(ctxBrk + Page) /\ UNCHANGED <<live, ctxPc>>
        /\ ctxPc = "idle"
    BY <1>1, <1>7 DEF MetaGrow
  <2>2. Grown /\ free' = free
    BY <1>2, <2>1 DEF Page
  <2>3. CASE heapCur' = ctxBrk + Page
    <3>1. meta' = meta \cup {ctxBrk} /\ ctxBrk' = ctxBrk + Page
      BY <1>7, <2>3 DEF MetaGrow
    <3>2. ctxBrk' \in Nat /\ BssStop <= ctxBrk' /\ BssStop <= ctxBrk
      BY <1>1, <2>1, <3>1 DEF Page
    <3> QED BY <1>3, <2>1, <2>2, <2>3, <3>1, <3>2
  <2>4. CASE heapCur' # ctxBrk + Page
    <3>1. meta' = meta /\ ctxBrk' = -1
      BY <1>7, <2>4 DEF MetaGrow
    <3>2. ctxBrk \in meta' => ctxBrk + Page <= heapCur'
      BY <1>1, <2>1, <2>2, <3>1 DEF Grown, Page
    <3> QED BY <1>1, <1>3, <2>1, <2>2, <3>1, <3>2
  <2> QED BY <2>3, <2>4
<1> QED BY <1>4, <1>5, <1>6, <1>7

-----------------------------------------------------------------------------
(* Mappings given back *)

\* The three ways to unmap, one by one
Unmapped(a) ==
  \/ Unmap(a, a, live[a])
  \/ live[a] > Page /\ (Unmap(a, a, Page) \/ Unmap(a, a + live[a] - Page, Page))

\* What remains of block a is in its place or a page further up, and whatever
\* was apart from the list and the mappings still is.
LEMMA UnmapStep ==
  ASSUME ArenaInv, NEW a \in DOMAIN live, Unmapped(a)
  PROVE  /\ ArenaInv' /\ UNCHANGED <<heapCur, heapEnd, meta, ctxBrk, ctxPc>>
         /\ \/ DOMAIN live' = DOMAIN live \ {a} \/ DOMAIN live' = DOMAIN live
            \/ /\ DOMAIN live' = (DOMAIN live \ {a}) \cup {a + Page}
               /\ a + Page \notin DOMAIN live /\ a + Page # 0
         /\ (\E n \in {live[a]} : Unmap(a, a, n)) => DOMAIN live' = DOMAIN live \ {a}
         /\ \A c \in Nat, m \in Nat \ {0} :
              Clear(free, c, m) /\ Clear(live, c, m) => Clear(free', c, m) /\ Clear(live', c, m)
         /\ \A hi \in Nat :
              /\ \A b \in DOMAIN free : b + free[b] <= hi
              /\ \A b \in DOMAIN live : b + live[b] <= hi
              => /\ \A b \in DOMAIN free' : b + free'[b] <= hi
                 /\ \A b \in DOMAIN live' : b + live'[b] <= hi
<1>1. /\ BlockMap(live) /\ Disjoint(live) /\ BlockMap(free) /\ Coalesced
      /\ \A b \in DOMAIN live : Clear(free, b, live[b])
      /\ a \in Nat /\ live[a] \in Nat \ {0} /\ Page \in Nat \ {0}
  BY DEF ArenaInv, BlockMap, Page
<1>2. ASSUME NEW from \in Nat, NEW n \in Nat \ {0}, a <= from, from + n <= a + live[a],
             SysMunmap(from, n), UNCHANGED <<meta, ctxBrk, ctxPc>>,
             BlockMap(live'), DOMAIN live \ {a} \subseteq DOMAIN live',
             \A b \in DOMAIN live : b # a => live'[b] = live[b],
             \A b \in DOMAIN live' : b \notin DOMAIN live \ {a} =>
                a <= b /\ b + live'[b] <= a + live[a] /\ Apart(b, live'[b], from, n),
             \A b, c \in DOMAIN live' :
                b \notin DOMAIN live \ {a} /\ c \notin DOMAIN live \ {a} => b = c
      PROVE  /\ ArenaInv' /\ UNCHANGED <<heapCur, heapEnd, meta, ctxBrk, ctxPc>>
             /\ \A c \in Nat, m \in Nat \ {0} :
                  Clear(free, c, m) /\ Clear(live, c, m)
                  => Clear(free', c, m) /\ Clear(live', c, m)
             /\ \A hi \in Nat :
                  /\ \A b \in DOMAIN free : b + free[b] <= hi
                  /\ \A b \in DOMAIN live : b + live[b] <= hi
                  => /\ \A b \in DOMAIN free' : b + free'[b] <= hi
                     /\ \A b \in DOMAIN live' : b + live'[b] <= hi
  <2>1. /\ ArenaInv' /\ UNCHANGED <<heapCur, heapEnd>>
        /\ \A c \in Nat, m \in Nat \ {0} :
             Clear(free, c, m) /\ Apart(a, live[a], c, m) => Clear(free', c, m)
    BY <1>2, Released
  <2>2. \A c \in Nat, m \in Nat \ {0} : Clear(live, c, m) => Clear(live', c, m)
    BY <1>1, <1>2 DEF Clear, Apart, BlockMap
  <2>3. \A hi \in Nat :
          (\A b \in DOMAIN live : b + live[b] <= hi)
          => \A b \in DOMAIN live' : b + live'[b] <= hi
    BY <1>1, <1>2 DEF BlockMap
  <2>4. Clear(free, from, n)
    BY <1>1, <1>2 DEF Clear, Apart, BlockMap
  <2>5. \A hi \in Nat :
          from + n <= hi /\ (\A b \in DOMAIN free : b + free[b] <= hi)
          => \A b \in DOMAIN free' : b + free'[b] <= hi
    <3>1. FreeListInsert(from, n)
      BY <1>2 DEF SysMunmap
    <3>2. \A lo, hi \in Nat :
            /\ lo <= from /\ from + n <= hi
            /\ \A b \in DOMAIN free : lo <= b /\ b + free[b] <= hi
            => \A b \in DOMAIN free' : lo <= b /\ b + free'[b] <= hi
      BY <1>1, <1>2, <2>4, <3>1, Inserted
    <3>3. 0 \in Nat /\ 0 <= from /\ \A b \in DOMAIN free : 0 <= b
      BY <1>1 DEF BlockMap
    <3> QED BY <3>2, <3>3
  <2>6. \A hi \in Nat : (\A b \in DOMAIN live : b + live[b] <= hi) => from + n <= hi
    BY <1>1, <1>2
  <2> QED BY <1>1, <1>2, <2>1, <2>2, <2>3, <2>5, <2>6 DEF Clear
<1>3. CASE Unmap(a, a, live[a])
  <2>1. live' = Without(live, a) /\ SysMunmap(a, live[a]) /\ UNCHANGED <<meta, ctxBrk, ctxPc>>
    BY <1>3 DEF Unmap
  <2>2. DOMAIN live' = DOMAIN live \ {a} /\ \A b \in DOMAIN live' : live'[b] = live[b]
    BY <2>1 DEF Without
  <2>3. BlockMap(live')
    BY <1>1, <2>2 DEF BlockMap
  <2> QED BY <1>1, <1>2, <2>1, <2>2, <2>3
<1>4. CASE live[a] > Page /\ Unmap(a, a, Page)
  <2>1. live' = With(Without(live, a), a + Page, live[a] - Page)
        /\ SysMunmap(a, Page) /\ UNCHANGED <<meta, ctxBrk, ctxPc>>
    BY <1>1, <1>4 DEF Unmap
  <2>2. a + Page \notin DOMAIN live
    BY <1>1, <1>4 DEF Disjoint, Apart, BlockMap
  <2>3. /\ DOMAIN live' = (DOMAIN live \ {a}) \cup {a + Page}
        /\ live'[a + Page] = live[a] - Page
        /\ \A b \in DOMAIN live : b # a => live'[b] = live[b]
    BY <2>1, <2>2 DEF With, Without
  <2>4. BlockMap(live')
    BY <1>1, <1>4, <2>2, <2>3 DEF BlockMap
  <2>5. ~Unmap(a, a, live[a])
    <3>1. Unmap(a, a, live[a]) => DOMAIN live' = DOMAIN live \ {a}
      BY DEF Unmap, Without
    <3>2. a + Page # a
      BY <1>1
    <3> QED BY <2>2, <2>3, <3>1, <3>2
  <2>6. \A b \in DOMAIN live' : b \notin DOMAIN live \ {a} =>
          a <= b /\ b + live'[b] <= a + live[a] /\ Apart(b, live'[b], a, Page)
    BY <1>1, <1>4, <2>3 DEF Apart
  <2>7. a <= a /\ a + Page <= a + live[a] /\ a + Page # 0
    BY <1>1, <1>4
  <2> QED BY <1>1, <1>2, <1>4, <2>1, <2>2, <2>3, <2>4, <2>5, <2>6, <2>7
<1>5. CASE live[a] > Page /\ Unmap(a, a + live[a] - Page, Page)
  <2> DEFINE from == a + live[a] - Page
  <2>1. live' = With(live, a, live[a] - Page)
        /\ SysMunmap(from, Page) /\ UNCHANGED <<meta, ctxBrk, ctxPc>>
    BY <1>1, <1>5 DEF Unmap
  <2>2. /\ DOMAIN live' = DOMAIN live /\ live'[a] = live[a] - Page
        /\ \A b \in DOMAIN live : b # a => live'[b] = live[b]
    BY <2>1 DEF With
  <2>3. BlockMap(live')
    BY <1>1, <1>5, <2>2 DEF BlockMap
  <2>4. from \in Nat /\ a <= from /\ from + Page <= a + live[a] /\ from # a
    BY <1>1, <1>5
  <2>5. ~Unmap(a, a, live[a])
    <3>1. Unmap(a, a, live[a]) => DOMAIN live' = DOMAIN live \ {a}
      BY DEF Unmap, Without
    <3> QED BY <2>2, <3>1
  <2>6. \A b \in DOMAIN live' : b \notin DOMAIN live \ {a} =>
          a <= b /\ b + live'[b] <= a + live[a] /\ Apart(b, live'[b], from, Page)
    BY <1>1, <1>5, <2>2 DEF Apart
  <2> HIDE DEF from
  <2> QED BY <1>1, <1>2, <2>1, <2>2, <2>3, <2>4, <2>5, <2>6
<1> QED BY <1>3, <1>4, <1>5 DEF Unmapped

-----------------------------------------------------------------------------
(* mallocng's metadata *)

Below(f, hi) == \A b \in DOMAIN f : b + f[b] <= hi

\* The bump pointer is where mallocng's break is; or one page further, the one
\* that alloc_meta() has asked for and does not use; or a page further before
\* the first metadata, which will lie beyond it; or beyond the next break, which
\* brk() then refuses.
AtBreak == RoundUp(heapCur) = ctxBrk
AfterGuard == /\ heapCur = ctxBrk + Page /\ ctxPc = "idle"
              /\ Below(free, ctxBrk) /\ Below(live, ctxBrk)
BeforeFirst == heapCur = ctxBrk + Page /\ ctxPc = "first"
Beyond == heapCur > NextBreak

BrkInv ==
  ctxBrk > 0 => ctxBrk % Page = 0 /\ (AtBreak \/ AfterGuard \/ BeforeFirst \/ Beyond)

MetaInv ==
  /\ \A q \in meta : Clear(free, q, Page) /\ Clear(live, q, Page)
  /\ BrkInv

\* The page that brk() grants as metadata belongs to nobody.
LEMMA AboveBreak ==
  ASSUME ArenaInv, MetaInv, ctxBrk > 0, ~Beyond,
         NEW q \in Nat, q = NextBreak - Page
  PROVE  Clear(free, q, Page) /\ Clear(live, q, Page)
<1>1. heapCur \in Nat /\ ctxBrk \in Nat /\ Inside(free) /\ Inside(live)
      /\ BlockMap(free) /\ BlockMap(live) /\ Page \in Nat \ {0}
  BY DEF ArenaInv, Page
<1>2. q >= ctxBrk /\ (ctxPc = "first" => q = ctxBrk + Page)
  BY <1>1 DEF NextBreak, Page
<1>3. Below(free, q) /\ Below(live, q)
  <2>1. CASE heapCur <= q
    BY <1>1, <2>1, BssStopAssumption DEF Inside, Below, BlockMap
  <2>2. CASE AfterGuard
    BY <1>1, <1>2, <2>2 DEF AfterGuard, Below, BlockMap
  <2>3. CASE AtBreak
    <3>1. heapCur <= ctxBrk
      BY <1>1, <2>3, RoundedUp DEF AtBreak
    <3> QED BY <1>1, <1>2, <2>1, <3>1
  <2>4. CASE BeforeFirst
    BY <1>1, <1>2, <2>1, <2>4 DEF BeforeFirst
  <2> QED BY <2>2, <2>3, <2>4 DEF MetaInv, BrkInv
<1> QED BY <1>1, <1>3 DEF Below, Clear, Apart, BlockMap

LEMMA MetaMapped ==
  ASSUME ArenaInv, MetaInv, NEW n \in Nat \ {0}, n % Page = 0,
         NEW p \in DOMAIN free \cup {RoundUp(heapCur)},
         SysMmap(n, p), live' = With(live, p, n), UNCHANGED <<meta, ctxBrk, ctxPc>>,
         ~Lands
  PROVE  MetaInv'
<1>2. /\ Grown /\ p \in Nat
      /\ \A c \in Nat, m \in Nat \ {0} : Clear(free, c, m) => Clear(free', c, m)
      /\ \A c \in Nat, m \in Nat \ {0} :
           Clear(free, c, m) /\ c + m <= heapCur => Apart(c, m, p, n)
      /\ heapCur' # heapCur => heapCur' = RoundUp(heapCur) + n /\ free' = free
      /\ \A hi \in Nat :
           heapCur' = heapCur /\ (\A b \in DOMAIN free : b + free[b] <= hi)
           => p + n <= hi /\ \A b \in DOMAIN free' : b + free'[b] <= hi
  BY Allocated
<1>3. p \notin DOMAIN live /\ DOMAIN live' = DOMAIN live \cup {p}
  BY Mapped
<1>4. live'[p] = n /\ \A b \in DOMAIN live : live'[b] = live[b]
  BY <1>3 DEF With
<1>5. /\ heapCur \in Nat /\ ctxBrk \in Nat \cup {-1}
      /\ \A q \in meta : q \in Nat /\ q + Page <= heapCur
      /\ heapCur' \in Nat /\ heapCur <= heapCur'
  BY <1>2 DEF ArenaInv, Grown
<1>6. \A q \in meta' : Clear(free', q, Page) /\ Clear(live', q, Page)
  <2> TAKE q \in meta'
  <2>1. q \in meta /\ Page \in Nat \ {0} /\ Clear(free, q, Page) /\ Clear(live, q, Page)
    BY DEF MetaInv, Page
  <2>2. Apart(q, Page, p, n) /\ Clear(free', q, Page)
    BY <1>2, <1>5, <2>1
  <2> QED BY <1>3, <1>4, <2>1, <2>2 DEF Clear, Apart
<1>7. ASSUME ctxBrk > 0
      PROVE  BrkInv'
  <2>1. ctxBrk \in Nat /\ ctxBrk % Page = 0 /\ ctxBrk' = ctxBrk /\ ctxPc' = ctxPc
    BY <1>5, <1>7 DEF MetaInv, BrkInv
  <2>2. CASE heapCur' = heapCur
    <3>1. Below(free, ctxBrk) /\ Below(live, ctxBrk)
          => Below(free', ctxBrk) /\ Below(live', ctxBrk)
      BY <1>2, <1>3, <1>4, <1>5, <2>1, <2>2 DEF Below
    <3>2. AfterGuard => AfterGuard'
      BY <2>1, <2>2, <3>1 DEF AfterGuard
    <3>3. (AtBreak => AtBreak') /\ (BeforeFirst => BeforeFirst') /\ (Beyond => Beyond')
      BY <2>1, <2>2 DEF AtBreak, BeforeFirst, Beyond, NextBreak
    <3> QED BY <1>7, <2>1, <3>2, <3>3 DEF MetaInv, BrkInv
  \* A mapping moves the pointer by whole pages: by one, by two, or by more.
  <2>3. CASE heapCur' # heapCur
    <3>1. heapCur' = RoundUp(heapCur) + n /\ RoundUp(heapCur) \in Nat
          /\ heapCur <= RoundUp(heapCur)
      BY <1>2, <1>5, <2>3, RoundedUp
    <3>2. heapCur' # NextBreak
      BY <1>3, <1>7, <2>3 DEF Lands
    <3>3. n = Page \/ n = 2 * Page \/ n >= 3 * Page
      BY TwoPages
    <3>4. CASE AtBreak
      BY <2>1, <3>1, <3>2, <3>3, <3>4
      DEF AtBreak, BeforeFirst, Beyond, NextBreak, Page, MetaInv, BrkInv
    <3>5. CASE AfterGuard
      BY <2>1, <3>1, <3>3, <3>5, <1>5
      DEF AfterGuard, Beyond, NextBreak, Page, MetaInv, BrkInv
    <3>6. CASE BeforeFirst
      BY <2>1, <3>1, <3>2, <3>3, <3>6, <1>5
      DEF BeforeFirst, Beyond, NextBreak, Page, MetaInv, BrkInv
    <3>7. CASE Beyond
      BY <2>1, <3>7, <1>5 DEF Beyond, NextBreak, Page, MetaInv, BrkInv
    <3> QED BY <1>7, <3>4, <3>5, <3>6, <3>7 DEF MetaInv, BrkInv
  <2> QED BY <2>2, <2>3
<1>8. BrkInv'
  BY <1>7 DEF BrkInv
<1> QED BY <1>6, <1>8 DEF MetaInv

LEMMA MetaUnmapped ==
  ASSUME ArenaInv, MetaInv, NEW a \in DOMAIN live, Unmapped(a)
  PROVE  MetaInv'
<1>1. /\ UNCHANGED <<heapCur, meta, ctxBrk, ctxPc>>
      /\ \A c \in Nat, m \in Nat \ {0} :
           Clear(free, c, m) /\ Clear(live, c, m) => Clear(free', c, m) /\ Clear(live', c, m)
      /\ \A hi \in Nat :
           /\ \A b \in DOMAIN free : b + free[b] <= hi
           /\ \A b \in DOMAIN live : b + live[b] <= hi
           => /\ \A b \in DOMAIN free' : b + free'[b] <= hi
              /\ \A b \in DOMAIN live' : b + live'[b] <= hi
  BY UnmapStep
<1>2. meta \subseteq Nat /\ ctxBrk \in Nat \cup {-1} /\ Page \in Nat \ {0}
  BY DEF ArenaInv, Page
<1>3. \A q \in meta' : Clear(free', q, Page) /\ Clear(live', q, Page)
  BY <1>1, <1>2 DEF MetaInv
<1>4. ctxBrk > 0 /\ AfterGuard => AfterGuard'
  BY <1>1, <1>2 DEF AfterGuard, Below
<1>5. (AtBreak => AtBreak') /\ (BeforeFirst => BeforeFirst') /\ (Beyond => Beyond')
  BY <1>1 DEF AtBreak, BeforeFirst, Beyond, NextBreak
<1>6. BrkInv'
  BY <1>1, <1>4, <1>5 DEF MetaInv, BrkInv
<1> QED BY <1>3, <1>6 DEF MetaInv

\* brk() succeeds only when the bump pointer is still near mallocng's break.
LEMMA MetaStep ==
  ASSUME ArenaInv, MetaInv, MetaQuery \/ MetaFirst \/ MetaGuard \/ MetaGrow
  PROVE  MetaInv'
<1>1. /\ heapCur \in Nat /\ ctxBrk \in Nat \cup {-1} /\ meta \subseteq Nat
      /\ \A q \in meta : q + Page <= heapCur
      /\ ctxPc # "idle" => ctxBrk > 0
      /\ BlockMap(free) /\ BlockMap(live)
  BY DEF ArenaInv
<1>2. heapCur' \in Nat /\ heapCur <= heapCur' /\ live' = live
  BY MetaArena DEF Grown
<1>3. ctxBrk > 0 => ctxBrk \in Nat /\ ctxBrk % Page = 0
  BY <1>1 DEF MetaInv, BrkInv
\* the break is where the bump pointer is
<1>5. ASSUME ctxBrk' = heapCur', ctxBrk' % Page = 0
      PROVE  BrkInv'
  BY <1>2, <1>5, RoundedAlready DEF BrkInv, AtBreak
<1>6. CASE MetaQuery
  <2>1. /\ UNCHANGED <<heapCur, free, live, meta>> /\ ctxBrk' = RoundUp(heapCur)
    BY <1>6 DEF MetaQuery, heapVars
  <2>2. ctxBrk' % Page = 0
    BY <1>1, <2>1, RoundedUp
  <2>3. BrkInv'
    BY <2>1, <2>2 DEF BrkInv, AtBreak
  <2> QED BY <2>1, <2>3 DEF MetaInv
<1>7. CASE MetaFirst
  <2>1. ctxBrk > 0 /\ SysBrk(ctxBrk + 2 * Page) /\ free' = free
    BY <1>1, <1>7 DEF MetaFirst, SysBrk
  <2>2. CASE heapCur' = ctxBrk + 2 * Page
    <3>1. meta' = {ctxBrk + Page} /\ ctxBrk' = ctxBrk + 2 * Page
      BY <1>7, <2>2 DEF MetaFirst
    <3>2. ctxPc = "first" /\ NextBreak = ctxBrk + 2 * Page /\ ~Beyond
      BY <1>1, <1>2, <1>3, <1>7, <2>1, <2>2 DEF MetaFirst, NextBreak, Beyond, Page
    <3>3. ctxBrk + Page \in Nat /\ ctxBrk + Page = NextBreak - Page
      BY <1>3, <2>1, <3>2 DEF Page
    <3>4. Clear(free, ctxBrk + Page, Page) /\ Clear(live, ctxBrk + Page, Page)
      BY <2>1, <3>2, <3>3, AboveBreak
    <3>5. ctxBrk' = heapCur' /\ ctxBrk' % Page = 0
      BY <1>3, <2>1, <2>2, <3>1, NextPage
    <3> QED BY <1>2, <1>5, <2>1, <3>1, <3>4, <3>5 DEF MetaInv
  <2>3. CASE heapCur' # ctxBrk + 2 * Page
    <3>1. meta' = meta /\ ctxBrk' = -1
      BY <1>7, <2>3 DEF MetaFirst
    <3> QED BY <1>2, <2>1, <3>1 DEF MetaInv, BrkInv
  <2> QED BY <2>2, <2>3
<1>8. CASE MetaGuard
  <2>1. UNCHANGED <<live, meta, ctxBrk>> /\ ctxPc = "guard" /\ ctxPc' = "idle"
        /\ ctxBrk > 0
    BY <1>1, <1>8 DEF MetaGuard
  <2>2. AtBreak \/ Beyond
    BY <2>1 DEF MetaInv, BrkInv, AfterGuard, BeforeFirst
  <2>3. CASE \E p \in DOMAIN free \cup {RoundUp(heapCur)} : SysMmap(Page, p)
    <3>1. /\ \A c \in Nat, m \in Nat \ {0} : Clear(free, c, m) => Clear(free', c, m)
          /\ heapCur' # heapCur => heapCur' = RoundUp(heapCur) + Page /\ free' = free
      BY <2>3, Allocated DEF Page
    <3>2. \A q \in meta' : Clear(free', q, Page) /\ Clear(live', q, Page)
      BY <1>1, <2>1, <3>1 DEF MetaInv, Page
    <3>3. BrkInv'
      <4>1. CASE heapCur' = heapCur
        BY <1>3, <2>1, <2>2, <4>1 DEF BrkInv, AtBreak, Beyond, NextBreak
      <4>2. CASE heapCur' # heapCur /\ AtBreak
        <5>1. heapCur <= ctxBrk
          BY <1>1, <4>2, RoundedUp DEF AtBreak
        <5>2. Below(free, ctxBrk) /\ Below(live, ctxBrk)
          BY <1>1, <1>3, <2>1, <5>1 DEF ArenaInv, Inside, Below, BlockMap
        <5> QED BY <1>3, <2>1, <3>1, <4>2, <5>2 DEF BrkInv, AtBreak, AfterGuard, Below
      <4>3. CASE Beyond
        <5>1. Beyond'
          BY <1>1, <1>2, <1>3, <2>1, <4>3 DEF Beyond, NextBreak, Page
        <5> QED BY <1>3, <2>1, <5>1 DEF BrkInv
      <4> QED BY <2>2, <4>1, <4>2, <4>3
    <3> QED BY <3>2, <3>3 DEF MetaInv
  <2>4. CASE OutOfMemory(Page)
    <3>1. UNCHANGED <<heapCur, free>>
      BY <2>4 DEF OutOfMemory
    <3>2. AtBreak' \/ Beyond'
      BY <2>1, <2>2, <3>1 DEF AtBreak, Beyond, NextBreak
    <3> QED BY <1>3, <2>1, <3>1, <3>2 DEF MetaInv, BrkInv
  <2> QED BY <1>8, <2>3, <2>4 DEF MetaGuard
<1>9. CASE MetaGrow
  <2>1. ctxBrk > 0 /\ SysBrk(ctxBrk + Page) /\ free' = free
    BY <1>9 DEF MetaGrow, SysBrk
  <2>2. CASE heapCur' = ctxBrk + Page
    <3>1. meta' = meta \cup {ctxBrk} /\ ctxBrk' = ctxBrk + Page
      BY <1>9, <2>2 DEF MetaGrow
    <3>2. ctxPc = "idle" /\ NextBreak = ctxBrk + Page /\ ~Beyond
      BY <1>1, <1>2, <1>3, <1>9, <2>1, <2>2 DEF MetaGrow, NextBreak, Beyond, Page
    <3>3. Clear(free, ctxBrk, Page) /\ Clear(live, ctxBrk, Page)
      <4>1. ctxBrk \in Nat /\ ctxBrk = NextBreak - Page
        BY <1>3, <2>1, <3>2 DEF Page
      <4> QED BY <2>1, <3>2, <4>1, AboveBreak
    <3>4. ctxBrk' = heapCur' /\ ctxBrk' % Page = 0
      BY <1>3, <2>1, <2>2, <3>1, NextPage
    <3> QED BY <1>2, <1>5, <2>1, <3>1, <3>3, <3>4 DEF MetaInv
  <2>3. CASE heapCur' # ctxBrk + Page
    <3>1. meta' = meta /\ ctxBrk' = -1
      BY <1>9, <2>3 DEF MetaGrow
    <3> QED BY <1>2, <2>1, <3>1 DEF MetaInv, BrkInv
  <2> QED BY <2>2, <2>3
<1> QED BY <1>6, <1>7, <1>8, <1>9

-----------------------------------------------------------------------------
(* The program *)

\* What a step does to the arena, once the program has been started
MapSome == \E len \in MapLen : \E p \in DOMAIN free \cup {RoundUp(heapCur)} : Malloc(len, p)
UnmapOne == \E a \in DOMAIN live : Unmapped(a)
NothingGiven == \E len \in MapLen : MapFails(len)
BreakMoves == MetaQuery \/ MetaFirst \/ MetaGuard \/ MetaGrow
ArenaStep == MapSome \/ UnmapOne \/ NothingGiven \/ BreakMoves \/ UNCHANGED vars

\* a handle, a descriptor or a copy of the file exists only where dlopen() is
LoaderInv ==
  /\ LoaderGivesBack
  /\ fd \in BOOLEAN /\ (pc \in {"file", "read"} => fd)
  /\ \/ pc \in {"idle", "file"} /\ filebuf = 0 /\ block = 0
     \/ pc \in {"read", "check", "nomem"} /\ filebuf # 0 /\ block = 0
     \/ pc = "link" /\ filebuf # 0 /\ block # 0
     \/ pc = "handle" /\ filebuf = 0 /\ block # 0

ProgInv ==
  /\ ArenaInv /\ LoaderInv
  /\ phase = "boot" => heapCur = BssStop
  /\ phase = "main" => heapCur <= heapEnd

LEMMA ProgInit == ProgramInit => ProgInv /\ MetaInv
<1> SUFFICES ASSUME ProgramInit
             PROVE  ProgInv /\ MetaInv
  OBVIOUS
<1>1. /\ BssStop \in Nat /\ heapCur = BssStop /\ heapEnd \in Nat
      /\ free = Empty /\ live = Empty /\ meta = {} /\ ctxBrk = 0 /\ ctxPc = "idle"
  BY BssStopAssumption, EndsAssumption DEF ProgramInit, Fresh
<1>2. DOMAIN free = {} /\ DOMAIN live = {}
  BY <1>1 DEF Empty
<1>3. ArenaInv
  BY <1>1, <1>2 DEF ArenaInv, BlockMap, Coalesced, Inside, Disjoint
<1>4. LoaderInv
  BY <1>2 DEF ProgramInit, LoaderInv, LoaderGivesBack, Held
<1> QED BY <1>1, <1>3, <1>4 DEF ProgInv, MetaInv, BrkInv, ProgramInit

LEMMA LenRounded ==
  ASSUME NEW len \in MapLen
  PROVE  RoundUp(len) \in Nat \ {0} /\ RoundUp(len) % Page = 0
<1>1. len \in Nat \ {0}
  BY LenAssumption
<1>2. RoundUp(len) \in Nat /\ len <= RoundUp(len) /\ RoundUp(len) % Page = 0
  BY <1>1, RoundedUp
<1> QED BY <1>1, <1>2

\* A mapping adds one block to those in use.
LEMMA MallocStep ==
  ASSUME ArenaInv, NEW len \in MapLen, NEW p \in DOMAIN free \cup {RoundUp(heapCur)},
         Malloc(len, p)
  PROVE  /\ ArenaInv' /\ Grown
         /\ p # 0 /\ p \notin DOMAIN live /\ DOMAIN live' = DOMAIN live \cup {p}
<1>1. RoundUp(len) \in Nat \ {0}
  BY LenRounded
<1>2. SysMmap(RoundUp(len), p) /\ live' = With(live, p, RoundUp(len))
      /\ UNCHANGED <<meta, ctxBrk, ctxPc>>
  BY DEF Malloc
<1> QED BY <1>1, <1>2, Mapped

\* free() takes one block off those in use.
LEMMA FreeStep ==
  ASSUME ArenaInv, NEW a \in DOMAIN live, Free(a)
  PROVE  Unmapped(a) /\ DOMAIN live' = DOMAIN live \ {a}
BY DEF Free, Unmapped, Unmap, Without

LEMMA FailStep ==
  ASSUME ArenaInv, NothingGiven
  PROVE  ArenaInv' /\ Grown /\ UNCHANGED <<heapCur, free, live, meta, ctxBrk, ctxPc>>
<1>1. UNCHANGED <<heapCur, free, live, meta, ctxBrk, ctxPc>> /\ HeapGrow
  BY DEF NothingGiven, MapFails, OutOfMemory
<1>2. heapEnd' \in Nat /\ heapEnd <= heapEnd'
  BY <1>1, EndsAssumption DEF HeapGrow
<1> QED BY <1>1, <1>2 DEF ArenaInv, Grown, Coalesced, Inside

LEMMA ArenaKept ==
  ASSUME ArenaInv, ArenaStep
  PROVE  ArenaInv' /\ Grown
<1>1. CASE MapSome
  BY <1>1, MallocStep DEF MapSome
<1>2. CASE UnmapOne
  <2>1. PICK a \in DOMAIN live : Unmapped(a)
    BY <1>2 DEF UnmapOne
  <2>2. ArenaInv' /\ UNCHANGED <<heapCur, heapEnd>>
    BY <2>1, UnmapStep
  <2> QED BY <2>2 DEF Grown, ArenaInv
<1>3. CASE NothingGiven
  BY <1>3, FailStep
<1>4. CASE BreakMoves
  BY <1>4, MetaArena DEF BreakMoves
<1>5. CASE UNCHANGED vars
  BY <1>5 DEF vars, heapVars, ArenaInv, Grown, Coalesced, Inside
<1> QED BY <1>1, <1>2, <1>3, <1>4, <1>5 DEF ArenaStep

LEMMA MetaKept ==
  ASSUME ArenaInv, MetaInv, ArenaStep, ~Lands
  PROVE  MetaInv'
<1>1. CASE MapSome
  <2>1. PICK len \in MapLen, p \in DOMAIN free \cup {RoundUp(heapCur)} : Malloc(len, p)
    BY <1>1 DEF MapSome
  <2>2. RoundUp(len) \in Nat \ {0} /\ RoundUp(len) % Page = 0
    BY LenRounded
  <2> QED BY <2>1, <2>2, MetaMapped DEF Malloc
<1>2. CASE UnmapOne
  BY <1>2, MetaUnmapped DEF UnmapOne
<1>3. CASE NothingGiven
  BY <1>3, FailStep DEF MetaInv, BrkInv, AtBreak, AfterGuard, BeforeFirst, Beyond, NextBreak
<1>4. CASE BreakMoves
  BY <1>4, MetaStep DEF BreakMoves
<1>5. CASE UNCHANGED vars
  BY <1>5 DEF vars, heapVars, MetaInv, BrkInv, AtBreak, AfterGuard, BeforeFirst, Beyond, NextBreak
<1> QED BY <1>1, <1>2, <1>3, <1>4, <1>5 DEF ArenaStep

\* crt0.c lets the program start only inside its window.
LEMMA BootStep ==
  ASSUME ProgInv, Boot
  PROVE  ProgInv'
<1>1. phase = "boot" /\ UNCHANGED <<heapCur, free, live, meta, ctxBrk, ctxPc, others, loaderVars>>
  BY DEF Boot
<1>2. heapEnd' \in Nat
  <2>1. heapEnd' = heapEnd \/ HeapGrow
    BY DEF Boot
  <2> QED BY <2>1, EndsAssumption DEF HeapGrow, ProgInv, ArenaInv
<1>3. ArenaInv'
  BY <1>1, <1>2 DEF ProgInv, ArenaInv, Coalesced, Inside
<1>4. LoaderInv'
  BY <1>1 DEF ProgInv, LoaderInv, LoaderGivesBack, Held, loaderVars
<1>5. phase' # "boot" /\ (phase' = "main" => BssStop <= heapEnd')
  BY DEF Boot, Fits
<1>6. heapCur' = BssStop
  BY <1>1 DEF ProgInv
<1> QED BY <1>3, <1>4, <1>5, <1>6 DEF ProgInv

\* The program's own mappings, and mallocng
LEMMA OthersStep ==
  ASSUME ProgInv, Mallocng \/ ProgramUnmap \/ \E len \in MapLen : ProgramMap(len)
  PROVE  ArenaStep /\ LoaderInv' /\ phase = "main" /\ phase' = "main"
<1>1. /\ ArenaInv /\ LoaderGivesBack /\ DOMAIN live = others \cup modules \cup Held
      /\ 0 \notin DOMAIN live
  BY BssStopAssumption DEF ProgInv, LoaderInv, LoaderGivesBack, ArenaInv, Inside
<1>2. Held \subseteq DOMAIN live /\ (UNCHANGED loaderVars => Held' = Held)
  BY <1>1 DEF Held, loaderVars
<1>3. CASE Mallocng
  <2>1. UNCHANGED <<phase, others, loaderVars>> /\ phase = "main"
        /\ (NothingGiven \/ BreakMoves)
    BY <1>3 DEF Mallocng, NothingGiven, BreakMoves
  <2>2. live' = live
    BY <1>1, <2>1, FailStep, MetaArena DEF BreakMoves
  <2>3. LoaderInv'
    BY <1>1, <1>2, <2>1, <2>2 DEF ProgInv, LoaderInv, LoaderGivesBack, loaderVars
  <2> QED BY <2>1, <2>3 DEF ArenaStep
<1>4. ASSUME NEW len \in MapLen, ProgramMap(len)
      PROVE  ArenaStep /\ LoaderInv' /\ phase = "main" /\ phase' = "main"
  <2>1. PICK p \in DOMAIN free \cup {RoundUp(heapCur)} : Malloc(len, p)
    BY <1>4 DEF ProgramMap, Map, Malloc
  <2>2. p # 0 /\ p \notin DOMAIN live /\ DOMAIN live' = DOMAIN live \cup {p}
    BY <1>1, <2>1, MallocStep
  <2>3. /\ others' = others \cup (DOMAIN live' \ DOMAIN live)
        /\ UNCHANGED <<phase, loaderVars>> /\ phase = "main"
    BY <1>4 DEF ProgramMap
  <2>4. others' = (others \ {}) \cup {p}
    BY <2>2, <2>3
  <2>5. LoaderInv'
    BY <1>1, <1>2, <2>2, <2>3, <2>4 DEF ProgInv, LoaderInv, LoaderGivesBack, loaderVars
  <2> QED BY <2>1, <2>3, <2>5 DEF ArenaStep, MapSome
<1>5. CASE ProgramUnmap
  <2>1. PICK a \in others : Unmapped(a)
    BY <1>5 DEF ProgramUnmap, Unmapped
  <2>2. /\ others' = (others \cap DOMAIN live') \cup (DOMAIN live' \ DOMAIN live)
        /\ UNCHANGED <<phase, loaderVars>> /\ phase = "main"
    BY <1>5 DEF ProgramUnmap
  <2>3. a \in DOMAIN live
    BY <1>1
  <2>4. \/ DOMAIN live' = DOMAIN live \ {a} \/ DOMAIN live' = DOMAIN live
        \/ /\ DOMAIN live' = (DOMAIN live \ {a}) \cup {a + Page}
           /\ a + Page \notin DOMAIN live /\ a + Page # 0
    BY <1>1, <2>1, <2>3, UnmapStep
  <2>5. a \notin modules \cup Held
    BY <1>1 DEF LoaderGivesBack
  <2>6. LoaderGivesBack'
    <3>1. CASE DOMAIN live' = DOMAIN live \ {a}
      <4>1. others' = others \ {a}
        BY <1>1, <2>2, <3>1
      <4> QED BY <1>1, <1>2, <2>2, <2>5, <3>1, <4>1 DEF LoaderGivesBack, loaderVars
    <3>2. CASE DOMAIN live' = DOMAIN live
      <4>1. others' = others
        BY <1>1, <2>2, <3>2
      <4> QED BY <1>1, <1>2, <2>2, <3>2, <4>1 DEF LoaderGivesBack, loaderVars
    <3>3. CASE /\ DOMAIN live' = (DOMAIN live \ {a}) \cup {a + Page}
               /\ a + Page \notin DOMAIN live /\ a + Page # 0
      <4>1. others' = (others \ {a}) \cup {a + Page}
        BY <1>1, <2>2, <2>3, <3>3
      <4> QED BY <1>1, <1>2, <2>2, <2>5, <3>3, <4>1 DEF LoaderGivesBack, loaderVars
    <3> QED BY <2>4, <3>1, <3>2, <3>3
  <2>7. LoaderInv'
    BY <2>2, <2>6 DEF ProgInv, LoaderInv, loaderVars
  <2> QED BY <2>1, <2>2, <2>3, <2>7 DEF ArenaStep, UnmapOne
<1> QED BY <1>3, <1>4, <1>5

\* dlopen() takes a block, gives one back, hands one over, or fails.
LEMMA LoaderStep ==
  ASSUME ProgInv, Dlopen \/ DlClose
  PROVE  ArenaStep /\ LoaderInv' /\ phase = "main" /\ phase' = "main"
<1> DEFINE Goal == ArenaStep /\ LoaderInv' /\ phase = "main" /\ phase' = "main"
<1>1. /\ ArenaInv /\ LoaderInv /\ DOMAIN live = others \cup modules \cup Held
      /\ 0 \notin DOMAIN live
  BY BssStopAssumption DEF ProgInv, LoaderInv, LoaderGivesBack, ArenaInv, Inside
<1>2. ASSUME NEW a \in DOMAIN live, Free(a)
      PROVE  ArenaStep /\ DOMAIN live' = DOMAIN live \ {a}
  BY <1>1, <1>2, FreeStep DEF ArenaStep, UnmapOne
<1>3. ASSUME NEW len \in MapLen, NEW p \in DOMAIN free \cup {RoundUp(heapCur)}, Malloc(len, p)
      PROVE  ArenaStep /\ p # 0 /\ p \notin DOMAIN live /\ DOMAIN live' = DOMAIN live \cup {p}
  BY <1>1, <1>3, MallocStep DEF ArenaStep, MapSome
<1>4. ASSUME NEW len \in MapLen, MallocFails(len)
      PROVE  ArenaStep /\ live' = live
  BY <1>1, <1>4, FailStep DEF ArenaStep, NothingGiven, MallocFails
<1>5. UNCHANGED vars => ArenaStep /\ live' = live
  BY DEF ArenaStep, vars
<1>6. CASE DlOpen
  BY <1>1, <1>5, <1>6 DEF DlOpen, Loader, Keep, LoaderInv, LoaderGivesBack, Held
<1>7. ASSUME NEW len \in MapLen, DlFile(len)
      PROVE  Goal
  <2>1. CASE MallocFails(len) /\ DlReturns
    BY <1>1, <1>4, <1>7, <2>1 DEF DlFile, Loader, Keep, DlReturns, LoaderInv, LoaderGivesBack, Held
  <2>2. ASSUME NEW p \in DOMAIN free \cup {RoundUp(heapCur)}, Malloc(len, p), filebuf' = p,
               pc' = "read", UNCHANGED <<fd, block>>
        PROVE  Goal
    <3>1. /\ pc = "file" /\ phase = "main" /\ filebuf = 0 /\ block = 0
          /\ UNCHANGED <<phase, others, modules>>
      BY <1>1, <1>7 DEF DlFile, Loader, Keep, LoaderInv
    <3>2. Held = {} /\ Held' = {p}
      BY <1>3, <2>2, <3>1 DEF Held
    <3>3. LoaderGivesBack'
      BY <1>1, <1>3, <2>2, <3>1, <3>2 DEF LoaderInv, LoaderGivesBack
    <3> QED BY <1>1, <1>3, <2>2, <3>1, <3>3 DEF LoaderInv
  <2> QED BY <1>7, <2>1, <2>2 DEF DlFile
<1>8. CASE DlRead
  <2>1. CASE Free(filebuf) /\ DlReturns
    BY <1>1, <1>2, <1>8, <2>1 DEF DlRead, Loader, Keep, DlReturns, LoaderInv, LoaderGivesBack, Held
  <2>2. CASE UNCHANGED vars /\ pc' = "check" /\ fd' = FALSE /\ UNCHANGED <<filebuf, block>>
    BY <1>1, <1>5, <1>8, <2>2 DEF DlRead, Loader, Keep, LoaderInv, LoaderGivesBack, Held
  <2> QED BY <1>8, <2>1, <2>2 DEF DlRead
<1>9. ASSUME NEW len \in MapLen, DlCheck(len)
      PROVE  Goal
  <2>1. CASE Free(filebuf) /\ DlReturns
    BY <1>1, <1>2, <1>9, <2>1 DEF DlCheck, Loader, Keep, DlReturns, LoaderInv, LoaderGivesBack, Held
  <2>2. CASE MallocFails(len) /\ pc' = "nomem" /\ UNCHANGED <<fd, filebuf, block>>
    BY <1>1, <1>4, <1>9, <2>2 DEF DlCheck, Loader, Keep, LoaderInv, LoaderGivesBack, Held
  <2>3. ASSUME NEW p \in DOMAIN free \cup {RoundUp(heapCur)}, Malloc(len, p), block' = p,
               pc' = "link", UNCHANGED <<fd, filebuf>>
        PROVE  Goal
    <3>1. /\ pc = "check" /\ phase = "main" /\ filebuf # 0 /\ block = 0
          /\ UNCHANGED <<phase, others, modules>>
      BY <1>1, <1>9 DEF DlCheck, Loader, Keep, LoaderInv
    <3>2. Held = {filebuf} /\ Held' = {filebuf, p}
      BY <1>3, <2>3, <3>1 DEF Held
    <3>3. LoaderGivesBack'
      BY <1>1, <1>3, <2>3, <3>1, <3>2 DEF LoaderInv, LoaderGivesBack
    <3> QED BY <1>1, <1>3, <2>3, <3>1, <3>3 DEF LoaderInv
  <2> QED BY <1>9, <2>1, <2>2, <2>3 DEF DlCheck
<1>10. CASE DlNoMemory
  BY <1>1, <1>2, <1>10
  DEF DlNoMemory, Loader, Keep, DlReturns, LoaderInv, LoaderGivesBack, Held
<1>11. CASE DlLink
  <2>1. CASE Free(block) /\ block' = 0 /\ pc' = "nomem" /\ UNCHANGED <<fd, filebuf>>
    BY <1>1, <1>2, <1>11, <2>1 DEF DlLink, Loader, Keep, LoaderInv, LoaderGivesBack, Held
  <2>2. CASE Free(filebuf) /\ filebuf' = 0 /\ pc' = "handle" /\ UNCHANGED <<fd, block>>
    BY <1>1, <1>2, <1>11, <2>2 DEF DlLink, Loader, Keep, LoaderInv, LoaderGivesBack, Held
  <2> QED BY <1>11, <2>1, <2>2 DEF DlLink
<1>12. CASE DlHandle
  <2>1. CASE Free(block) /\ UNCHANGED modules
    BY <1>1, <1>2, <1>12, <2>1
    DEF DlHandle, Loader, Keep, DlReturns, LoaderInv, LoaderGivesBack, Held
  <2>2. CASE modules' = modules \cup {block} /\ UNCHANGED vars
    BY <1>1, <1>5, <1>12, <2>2
    DEF DlHandle, Loader, Keep, DlReturns, LoaderInv, LoaderGivesBack, Held
  <2> QED BY <1>12, <2>1, <2>2 DEF DlHandle
<1>13. CASE DlClose
  <2>1. PICK b \in modules : Free(b) /\ modules' = modules \ {b}
    BY <1>13 DEF DlClose
  <2> QED BY <1>1, <1>2, <1>13, <2>1 DEF DlClose, Loader, Keep, LoaderInv, LoaderGivesBack, Held
<1> QED BY <1>6, <1>7, <1>8, <1>9, <1>10, <1>11, <1>12, <1>13 DEF Dlopen

LEMMA ProgStep ==
  ASSUME ProgInv, [ProgramNext]_progVars
  PROVE  ProgInv'
<1>1. ASSUME ArenaStep, LoaderInv', phase = "main", phase' = "main"
      PROVE  ProgInv'
  BY <1>1, ArenaKept DEF ProgInv, Grown
<1>2. CASE Boot
  BY <1>2, BootStep
<1>3. CASE UNCHANGED progVars
  BY <1>3 DEF progVars, vars, heapVars, loaderVars, ProgInv, ArenaInv, Coalesced, Inside,
              LoaderInv, LoaderGivesBack, Held
<1> QED BY <1>1, <1>2, <1>3, OthersStep, LoaderStep DEF ProgramNext

LEMMA MetaInvStep ==
  ASSUME ProgInv, MetaInv, [ProgramNext]_progVars, ~Lands
  PROVE  MetaInv'
<1>1. ArenaStep => MetaInv'
  BY MetaKept DEF ProgInv
<1>2. Boot => MetaInv'
  BY DEF Boot, MetaInv, BrkInv, AtBreak, AfterGuard, BeforeFirst, Beyond, NextBreak
<1>3. UNCHANGED progVars => ArenaStep
  BY DEF progVars, ArenaStep
<1> QED BY <1>1, <1>2, <1>3, OthersStep, LoaderStep DEF ProgramNext

-----------------------------------------------------------------------------
(* The theorems *)

LEMMA ProgInductive == ProgramSpec => []ProgInv
<1>1. ProgInv /\ [ProgramNext]_progVars => ProgInv'
  BY ProgStep
<1> QED BY ProgInit, <1>1, PTL DEF ProgramSpec

\* A program that was started stays inside its RAM.
THEOREM StaysInWindow == ProgramSpec => []InWindow
<1>1. ProgInv => InWindow
  BY DEF ProgInv, ArenaInv, InWindow, InArena, Inside
<1> QED BY ProgInductive, <1>1, PTL

\* No two blocks of the free list touch.
THEOREM ListCoalesces == ProgramSpec => []Coalesced
<1>1. ProgInv => Coalesced
  BY DEF ProgInv, ArenaInv
<1> QED BY ProgInductive, <1>1, PTL

\* dlopen() gives back what it took, whichever of its steps fails.
THEOREM LoaderCleansUp == ProgramSpec => []LoaderGivesBack
<1>1. ProgInv => LoaderGivesBack
  BY DEF ProgInv, LoaderInv
<1> QED BY ProgInductive, <1>1, PTL

\* No two mappings share a byte and nothing mapped is free, whatever is mapped
\* and whatever brk() is asked for.
THEOREM MappingsApart == ProgramSpec => []MapsApart
<1>1. ProgInv => MapsApart
  BY DEF ProgInv, ArenaInv, MapsApart, Disjoint, Clear
<1> QED BY ProgInductive, <1>1, PTL

\* mallocng's metadata has no second owner either, unless somebody's mapping
\* once moved the bump pointer to exactly the break mallocng asks for next: the
\* test of sys_brk() has no other gap.
THEOREM OnlyLandingShares ==
  ProgramSpec /\ [][~Lands]_progVars => []NoOverlap
<1> DEFINE Both == ProgInv /\ MetaInv
           Step == [ProgramNext]_progVars
           Clean == [~Lands]_progVars
<1>1. Both /\ Step /\ Clean => Both'
  <2> SUFFICES ASSUME Both, Step, Clean
               PROVE  Both'
    OBVIOUS
  <2>1. CASE ~Lands
    BY <2>1, ProgStep, MetaInvStep
  <2>2. CASE UNCHANGED progVars
    <3>1. ~Lands
      BY <2>2 DEF progVars, vars, Lands
    <3> QED BY <3>1, ProgStep, MetaInvStep
  <2> QED BY <2>1, <2>2
<1>2. ProgramSpec /\ [][~Lands]_progVars => []Both
  <2>1. ProgramInit => Both
    BY ProgInit
  <2> HIDE DEF Both
  <2> QED BY <1>1, <2>1, PTL DEF ProgramSpec
<1>3. Both => NoOverlap
  BY DEF ProgInv, ArenaInv, MetaInv, NoOverlap, MapsApart, Disjoint, Clear
<1> HIDE DEF Both
<1> QED BY <1>2, <1>3, PTL

=============================================================================
