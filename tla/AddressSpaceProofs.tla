--------------------------- MODULE AddressSpaceProofs ---------------------------
(***************************************************************************)
(* The frames, the heap and the pointer checks of vmm.c, elf_loader.c and  *)
(* syscall.c for every number of processes and frames and every layout.    *)
(***************************************************************************)
EXTENDS AddressSpace, FiniteSetTheorems, TLAPS

Kinds == {"dir", "table", "leaf"}

\* In the spaces <<d, tb, lf>> process p uses frame f: as a directory, as page
\* table x, or as page x.
Uses(d, tb, lf, kind, p, x, f) ==
    \/ kind = "dir" /\ x = 0 /\ f \in d[p]
    \/ kind = "table" /\ x \in Tables /\ tb[p][x] = f
    \/ kind = "leaf" /\ x \in Pages /\ lf[p][x].frame = f

\* A free frame is used nowhere, any other in exactly one place.
UsedOnce(fr, d, tb, lf) ==
    \A f \in Frames :
        /\ f \in fr => \A kind \in Kinds, p \in Processes, x \in Int :
                          ~Uses(d, tb, lf, kind, p, x, f)
        /\ f \notin fr => \E kind \in Kinds, p \in Processes, x \in Int :
                             Uses(d, tb, lf, kind, p, x, f)
        /\ \A k1, k2 \in Kinds, p1, p2 \in Processes, x1, x2 \in Int :
             Uses(d, tb, lf, k1, p1, x1, f) /\ Uses(d, tb, lf, k2, p2, x2, f)
               => k1 = k2 /\ p1 = p2 /\ x1 = x2

UseInv == UsedOnce(free, dirs, tables, leaf)

\* pmm_alloc_page() hands out the pool in order.
PoolInv == \E k \in 1 .. NumFrames + 1 : free = k .. NumFrames

\* A present page has its table and a frame, is open to the program, and if it
\* lies above the program's segments is writable.
LeafInv ==
    \A p \in Processes, page \in Pages : leaf[p][page] # Absent =>
        /\ tables[p][Table(page)] # 0
        /\ leaf[p][page].user /\ leaf[p][page].frame # 0
        /\ page >= HeapPage => leaf[p][page].write

\* What the walk and the tests on a leaf come to inside the window
Present(p, page) ==
    page \in Pages /\ tables[p][Table(page)] # 0 /\ leaf[p][page] # Absent
Granted(p, page, write) ==
    Present(p, page) /\ leaf[p][page].user /\ (write => leaf[p][page].write)

\* BrkBacked, in these terms
HeapInv ==
    \A p \in Processes : \A page \in HeapPage .. RoundUpPage(brk[p]) - 1 :
        Granted(p, page, TRUE)

\* How far the operation a process is in has come
ProgressInv(p) ==
    /\ pc[p] = "new" =>
        /\ dirs[p] = {}
        /\ \A t \in Tables : tables[p][t] = 0
        /\ \A page \in Pages : leaf[p][page] = Absent
    /\ pc[p] = "load" =>
        /\ cursor[p] \in 1 .. Len(Segments) + 1
        /\ \A page \in Pages : leaf[p][page] # Absent =>
             page = 0 \/ \E j \in 1 .. cursor[p] - 1 : Segments[j].page = page
    /\ pc[p] = "sbrk" =>
        \A page \in HeapPage .. cursor[p] - 1 : Granted(p, page, TRUE)
    /\ pc[p] = "fb" => cursor[p] \in 0 .. FbPages

Running == {"run", "sbrk", "fb"}

\* What is there of the program: its segments as far as they are loaded and,
\* once it runs, the top page of its stack
ImageInv(p) ==
    /\ pc[p] = "load" =>
        \A j \in 1 .. cursor[p] - 1 : Granted(p, Segments[j].page, Segments[j].write)
    /\ pc[p] \in Running =>
        /\ \A j \in 1 .. Len(Segments) : Granted(p, Segments[j].page, Segments[j].write)
        /\ Granted(p, StackTopPage - 1, TRUE)

SpaceInv ==
    /\ TypeOK
    /\ PoolInv
    /\ UseInv
    /\ LeafInv
    /\ HeapInv
    /\ panicked = None => \A p \in Processes : ProgressInv(p) /\ ImageInv(p)

--------------------------------------------------------------------------------
(* Arithmetic of pages *)

\* Division with remainder by a page size
LEMMA DivIs ==
    ASSUME NEW x \in Int, NEW n \in Nat \ {0}
    PROVE  /\ x \div n \in Int
           /\ n * (x \div n) <= x
           /\ x < n * (x \div n) + n
           /\ x % n \in 0 .. n - 1
           /\ x % n = x - n * (x \div n)
  BY SMT

\* Multiplication by a positive number keeps the order, strictly.
LEMMA MulOrder ==
    ASSUME NEW a \in Int, NEW b \in Int, NEW n \in Nat \ {0}
    PROVE  /\ n * a \in Int
           /\ a < b => n * a + n <= n * b
           /\ a <= b => n * a <= n * b
  <1>1. a < b => n * (b - a) >= n
    BY SMT
  <1>2. n * (b - a) = n * b - n * a
    BY SMT
  <1> QED
    BY <1>1, <1>2, SMT

\* The quotient is the only one.
LEMMA DivUnique ==
    ASSUME NEW x \in Int, NEW n \in Nat \ {0}, NEW q \in Int, n * q <= x, x < n * q + n
    PROVE  x \div n = q
  <1> DEFINE d == x \div n
  <1>1. d \in Int /\ n * d <= x /\ x < n * d + n
    BY DivIs, Zenon
  <1> HIDE DEF d
  <1>2. n * d \in Int /\ n * q \in Int
    BY <1>1, MulOrder, Zenon
  <1>3. ~(d < q)
    BY <1>1, <1>2, MulOrder
  <1>4. ~(q < d)
    BY <1>1, <1>2, MulOrder
  <1>5. d = q
    BY <1>1, <1>3, <1>4
  <1> QED
    BY <1>5, Zenon DEF d

\* Division keeps the order.
LEMMA DivOrder ==
    ASSUME NEW x \in Int, NEW y \in Int, NEW n \in Nat \ {0}, x <= y
    PROVE  x \div n <= y \div n
  <1> DEFINE c == x \div n
             d == y \div n
  <1>1. c \in Int /\ n * c <= x /\ d \in Int /\ y < n * d + n
    BY DivIs, Zenon
  <1> HIDE DEF c, d
  <1>2. n * c \in Int /\ n * d \in Int /\ (d < c => n * d + n <= n * c)
    BY <1>1, MulOrder, Zenon
  <1>3. c <= d
    BY <1>1, <1>2
  <1> QED
    BY <1>3, Zenon DEF c, d

--------------------------------------------------------------------------------
(* The layout *)

\* The layout assumption, one fact per constant.
LEMMA LayoutFacts ==
    /\ PAGE \in Nat \ {0} /\ TableSpan \in Nat \ {0}
    /\ FbPages \in Nat \ {0} /\ StackMaxPages \in Nat \ {0}
    /\ NumFrames \in Nat /\ Window \in Nat /\ HeapPage \in Nat
    /\ FbPage \in Nat /\ StackTopPage \in Nat
    /\ HeapPage < FbPage /\ FbPage + FbPages + StackMaxPages <= StackTopPage
    /\ StackTopPage <= Window
    /\ IdentityPages \in Nat /\ ExecLimit \in Nat /\ Private \in Nat /\ SPACE \in Nat \ {0}
    /\ Aliases \in Nat \ {0}
    /\ ExecLimit <= IdentityPages /\ IdentityPages <= Private /\ Private + Window < SPACE
  BY LayoutAssumption

\* Every page of the window has a page table; page 0 is in the first.
LEMMA TableFacts ==
    /\ Tables \subseteq Int
    /\ \A page \in Pages : Table(page) \in Tables
    /\ 0 \in Pages /\ Table(0) = 0 /\ 0 \in Tables
  <1>1. Pages \subseteq Int /\ 0 \in Pages
    BY LayoutFacts DEF Pages
  <1>2. \A page \in Pages : Table(page) \in Int
    BY <1>1, LayoutFacts, DivIs, Zenon DEF Table
  <1>3. Table(0) = 0
    BY LayoutFacts, DivUnique DEF Table
  <1> QED
    BY <1>1, <1>2, <1>3, Zenon DEF Tables

\* In the window the walk ends at the process's own page table.
LEMMA WindowWalk ==
    ASSUME NEW p, NEW page \in Pages
    PROVE  /\ walk_to_leaf(p, Private + page)
                = IF tables[p][Table(page)] # 0 THEN leaf[p][page] ELSE Absent
           /\ vmm_page_present(p, Private + page) <=> Present(p, page)
           /\ \A write : Allows(p, Private + page, write) <=> Granted(p, page, write)
  <1>0. /\ page \in Nat /\ page < Window /\ Private + page \in Int
        /\ SPACE * 0 <= Private + page /\ Private + page < SPACE * 0 + SPACE
        /\ ~(Private + page < IdentityPages) /\ (Private + page) - Private = page
    BY LayoutFacts DEF Pages
  <1>1. (Private + page) % SPACE = Private + page
    <2>1. (Private + page) \div SPACE = 0
      BY <1>0, LayoutFacts, DivUnique
    <2>2. (Private + page) % SPACE = (Private + page) - SPACE * ((Private + page) \div SPACE)
      BY <1>0, LayoutFacts, DivIs, Zenon
    <2> QED BY <1>0, <2>1, <2>2, LayoutFacts
  <1>2. walk_to_leaf(p, Private + page)
          = IF tables[p][Table(page)] # 0 THEN leaf[p][page] ELSE Absent
    BY <1>0, <1>1, Zenon DEF walk_to_leaf
  <1>3. vmm_page_present(p, Private + page) <=> Present(p, page)
    BY <1>2, Zenon DEF vmm_page_present, Present
  <1>4. ASSUME NEW write PROVE Allows(p, Private + page, write) <=> Granted(p, page, write)
    BY <1>2, Zenon DEF Allows, Granted, Present
  <1> QED BY <1>2, <1>3, <1>4, Zenon

\* The pages of a program are distinct and lie below the heap, so there are
\* fewer of them than pages in the window.
LEMMA SegmentFacts ==
    /\ Len(Segments) \in Nat
    /\ Len(Segments) + 1 <= Window
    /\ \A i \in 1 .. Len(Segments) :
         /\ Segments[i].page \in Pages \ {0}
         /\ Segments[i].page < HeapPage
         /\ Segments[i].write \in BOOLEAN
  <1> DEFINE n == Len(Segments)
             f == [i \in 1 .. n |-> Segments[i].page]
  <1>1. n \in Nat /\ DOMAIN Segments = 1 .. n
    BY LayoutAssumption
  <1>2. \A i \in 1 .. n : Segments[i] \in [page : Nat, write : BOOLEAN]
    <2> DEFINE R == [page : Nat, write : BOOLEAN]
    <2>1. Segments \in Seq(R)
      BY LayoutAssumption, Zenon
    <2> HIDE DEF R
    <2>2. \A i \in 1 .. Len(Segments) : Segments[i] \in R
      BY <2>1
    <2> QED
      BY <2>2, Zenon DEF R
  <1>3. \A i \in 1 .. n : Segments[i].page \in 1 .. HeapPage - 1
    BY <1>1, LayoutAssumption, Zenon
  <1>4. ASSUME n + 1 > Window PROVE FALSE
    <2>0. n \in Nat /\ n >= HeapPage /\ n >= 1
      BY <1>1, <1>4, LayoutFacts
    <2>1. IsFiniteSet(1 .. n) /\ Cardinality(1 .. n) = n
      <3> HIDE DEF n
      <3>1. /\ IsFiniteSet(1 .. n)
            /\ Cardinality(1 .. n) = IF 1 > n THEN 0 ELSE n - 1 + 1
        BY <2>0, FS_Interval
      <3> QED BY <2>0, <3>1
    <2>2. IsFiniteSet(1 .. HeapPage - 1) /\ Cardinality(1 .. HeapPage - 1) < n
      <3> HIDE DEF n
      <3>1. HeapPage - 1 \in Int /\ 1 \in Int
        BY LayoutFacts
      <3>2. /\ IsFiniteSet(1 .. HeapPage - 1)
            /\ Cardinality(1 .. HeapPage - 1)
                 = IF 1 > HeapPage - 1 THEN 0 ELSE (HeapPage - 1) - 1 + 1
        BY <3>1, FS_Interval, Zenon
      <3> QED BY <2>0, <3>2, LayoutFacts
    <2>3. f \in [1 .. n -> 1 .. HeapPage - 1]
      BY <1>3, Zenon
    <2>4. \E x, y \in 1 .. n : x # y /\ f[x] = f[y]
      <3> HIDE DEF f, n
      <3> QED BY <2>1, <2>2, <2>3, FS_PigeonHole, Zenon
    <2> QED
      BY <2>4, <1>1, LayoutAssumption, Zenon
  <1>5. \A i \in 1 .. n : Segments[i].page \in Pages \ {0} /\ Segments[i].page < HeapPage
    BY <1>3, LayoutFacts DEF Pages
  <1> QED
    BY <1>1, <1>2, <1>4, <1>5, LayoutFacts

\* pmm_alloc_page() returns the first frame of the pool.
LEMMA MinOfPool ==
    ASSUME NEW a \in Int, NEW b \in Int, a <= b
    PROVE  Min(a .. b) = a
  <1>1. a \in a .. b /\ \A y \in a .. b : a =< y
    OBVIOUS
  <1>2. \E x \in a .. b : \A y \in a .. b : x =< y
    BY <1>1, Zenon
  <1>3. Min(a .. b) \in a .. b /\ \A y \in a .. b : Min(a .. b) =< y
    BY <1>2, Zenon DEF Min
  <1> QED
    BY <1>1, <1>3

--------------------------------------------------------------------------------
(* Frames *)

\* The second spaces use what the first do, and each frame f of F as kd[f] says
AddsUses(d, tb, lf, d2, tb2, lf2, F, kd, pr, ix) ==
    \A f \in Frames, kind \in Kinds, p \in Processes, x \in Int :
        Uses(d2, tb2, lf2, kind, p, x, f) <=>
            \/ Uses(d, tb, lf, kind, p, x, f)
            \/ f \in F /\ kind = kd[f] /\ p = pr[f] /\ x = ix[f]

\* Frames that leave the pool for one place each are still used once.
LEMMA NewUses ==
    ASSUME NEW fr, NEW d, NEW tb, NEW lf, UsedOnce(fr, d, tb, lf), fr \subseteq Frames,
           NEW d2, NEW tb2, NEW lf2,
           NEW F \in SUBSET fr, NEW kd \in [F -> Kinds], NEW pr \in [F -> Processes],
           NEW ix \in [F -> Int],
           AddsUses(d, tb, lf, d2, tb2, lf2, F, kd, pr, ix)
    PROVE  UsedOnce(fr \ F, d2, tb2, lf2)
  <1> SUFFICES ASSUME NEW f \in Frames
               PROVE  /\ f \in fr \ F => \A kind \in Kinds, p \in Processes, x \in Int :
                            ~Uses(d2, tb2, lf2, kind, p, x, f)
                      /\ f \notin fr \ F => \E kind \in Kinds, p \in Processes, x \in Int :
                            Uses(d2, tb2, lf2, kind, p, x, f)
                      /\ \A k1, k2 \in Kinds, p1, p2 \in Processes, x1, x2 \in Int :
                           Uses(d2, tb2, lf2, k1, p1, x1, f) /\ Uses(d2, tb2, lf2, k2, p2, x2, f)
                             => k1 = k2 /\ p1 = p2 /\ x1 = x2
    BY Zenon DEF UsedOnce
  <1>1. /\ f \in fr => \A kind \in Kinds, p \in Processes, x \in Int :
                          ~Uses(d, tb, lf, kind, p, x, f)
        /\ f \notin fr => \E kind \in Kinds, p \in Processes, x \in Int :
                             Uses(d, tb, lf, kind, p, x, f)
        /\ \A k1, k2 \in Kinds, p1, p2 \in Processes, x1, x2 \in Int :
             Uses(d, tb, lf, k1, p1, x1, f) /\ Uses(d, tb, lf, k2, p2, x2, f)
               => k1 = k2 /\ p1 = p2 /\ x1 = x2
    BY Zenon DEF UsedOnce
  <1>2. CASE f \in F
    <2>1. kd[f] \in Kinds /\ pr[f] \in Processes /\ ix[f] \in Int /\ f \in fr
      BY <1>2, Zenon
    <2> QED BY <1>1, <1>2, <2>1 DEF AddsUses
  <1>3. CASE f \notin F
    BY <1>1, <1>3 DEF AddsUses
  <1> QED BY <1>2, <1>3, Zenon

\* Each frame's three counts of uses add up to 0 if it is free and to 1 if not.
LEMMA UsesCounted ==
    ASSUME TypeOK, UseInv, NEW f \in Frames
    PROVE  Cardinality({ p \in Processes : f \in dirs[p] })
             + Cardinality({ u \in Processes \X Tables : tables[u[1]][u[2]] = f })
             + Cardinality({ u \in Processes \X Pages : leaf[u[1]][u[2]].frame = f })
             = IF f \in free THEN 0 ELSE 1
  <1> DEFINE D == { p \in Processes : f \in dirs[p] }
             T == { u \in Processes \X Tables : tables[u[1]][u[2]] = f }
             L == { u \in Processes \X Pages : leaf[u[1]][u[2]].frame = f }
             At3(kind, p, x) == Uses(dirs, tables, leaf, kind, p, x, f)
  <1> SUFFICES Cardinality(D) + Cardinality(T) + Cardinality(L) = IF f \in free THEN 0 ELSE 1
    BY Zenon
  <1>0. Pages \subseteq Int /\ Tables \subseteq Int /\ 0 \in Int
    BY TableFacts, LayoutFacts DEF Pages
  <1>d. \A p \in Processes : p \in D <=> At3("dir", p, 0)
    BY Zenon DEF Uses
  <1>t. \A p \in Processes, x \in Tables : <<p, x>> \in T <=> At3("table", p, x)
    BY Zenon DEF Uses
  <1>l. \A p \in Processes, x \in Pages : <<p, x>> \in L <=> At3("leaf", p, x)
    BY Zenon DEF Uses
  <1>k. "dir" \in Kinds /\ "table" \in Kinds /\ "leaf" \in Kinds
    BY Zenon DEF Kinds
  <1>u. /\ f \in free => \A kind \in Kinds, p \in Processes, x \in Int : ~At3(kind, p, x)
        /\ f \notin free => \E kind \in Kinds, p \in Processes, x \in Int : At3(kind, p, x)
        /\ \A k1, k2 \in Kinds, p1, p2 \in Processes, x1, x2 \in Int :
             At3(k1, p1, x1) /\ At3(k2, p2, x2) => k1 = k2 /\ p1 = p2 /\ x1 = x2
    BY Zenon DEF UseInv, UsedOnce
  <1>s. /\ D \subseteq Processes
        /\ \A u \in T : \E p \in Processes, x \in Tables : u = <<p, x>> /\ At3("table", p, x)
        /\ \A u \in L : \E p \in Processes, x \in Pages : u = <<p, x>> /\ At3("leaf", p, x)
    BY DEF Uses
  <1>x. \A kind, p, x : At3(kind, p, x) =>
          \/ kind = "dir" /\ x = 0
          \/ kind = "table" /\ x \in Tables
          \/ kind = "leaf" /\ x \in Pages
    BY Zenon DEF Uses
  <1>e. Cardinality({}) = 0 /\ \A x : Cardinality({x}) = 1
    BY FS_EmptySet, FS_Singleton, Zenon
  <1> HIDE DEF D, T, L, At3
  <1>1. CASE f \in free
    <2>0. \A kind \in Kinds, p \in Processes, x \in Int : ~At3(kind, p, x)
      BY <1>1, <1>u, Zenon
    <2>1. D = {} /\ T = {} /\ L = {}
      BY <1>0, <1>d, <1>k, <1>s, <2>0, Zenon
    <2> QED BY <1>1, <2>1, <1>e
  <1>2. CASE f \notin free
    <2>1. PICK kind \in Kinds, p \in Processes, x \in Int : At3(kind, p, x)
      BY <1>2, <1>u, Zenon
    <2>2. \A k2 \in Kinds, p2 \in Processes, x2 \in Int :
             At3(k2, p2, x2) => k2 = kind /\ p2 = p /\ x2 = x
      BY <1>u, <2>1, Zenon
    <2>3. CASE kind = "dir" /\ x = 0
      <3>d. D = {p}
        BY <1>0, <1>d, <1>k, <1>s, <2>1, <2>2, <2>3, Zenon
      <3>t. T = {}
        BY <1>0, <1>t, <1>k, <1>s, <2>1, <2>2, <2>3, Zenon
      <3>l. L = {}
        BY <1>0, <1>l, <1>k, <1>s, <2>1, <2>2, <2>3, Zenon
      <3>1. Cardinality(D) = 1 /\ Cardinality(T) = 0 /\ Cardinality(L) = 0
        BY <3>d, <3>t, <3>l, <1>e, Zenon
      <3> QED BY <1>2, <3>1
    <2>4. CASE kind = "table" /\ x \in Tables
      <3>d. D = {}
        BY <1>0, <1>d, <1>k, <1>s, <2>1, <2>2, <2>4, Zenon
      <3>t. T = {<<p, x>>}
        BY <1>0, <1>t, <1>k, <1>s, <2>1, <2>2, <2>4
      <3>l. L = {}
        BY <1>0, <1>l, <1>k, <1>s, <2>1, <2>2, <2>4, Zenon
      <3>1. Cardinality(D) = 0 /\ Cardinality(T) = 1 /\ Cardinality(L) = 0
        BY <3>d, <3>t, <3>l, <1>e, Zenon
      <3> QED BY <1>2, <3>1
    <2>5. CASE kind = "leaf" /\ x \in Pages
      <3>d. D = {}
        BY <1>0, <1>d, <1>k, <1>s, <2>1, <2>2, <2>5, Zenon
      <3>t. T = {}
        BY <1>0, <1>t, <1>k, <1>s, <2>1, <2>2, <2>5, Zenon
      <3>l. L = {<<p, x>>}
        BY <1>0, <1>l, <1>k, <1>s, <2>1, <2>2, <2>5
      <3>1. Cardinality(D) = 0 /\ Cardinality(T) = 0 /\ Cardinality(L) = 1
        BY <3>d, <3>t, <3>l, <1>e, Zenon
      <3> QED BY <1>2, <3>1
    <2> QED BY <1>x, <2>1, <2>3, <2>4, <2>5, Zenon
  <1> QED BY <1>1, <1>2, Zenon

--------------------------------------------------------------------------------
(* Mapping one page *)

SpaceTypes ==
    /\ free \subseteq Frames
    /\ dirs \in [Processes -> SUBSET Frames]
    /\ tables \in [Processes -> [Tables -> Frames \cup {0}]]
    /\ leaf \in [Processes -> [Pages -> Leaves]]

\* The part of the invariant that is about page tables and frames alone
TablesInv == SpaceTypes /\ PoolInv /\ UseInv /\ LeafInv

\* What a step of process p leaves of the others' spaces, and of all pages
OthersKept(p) == \A q \in Processes \ {p} :
    dirs'[q] = dirs[q] /\ tables'[q] = tables[q] /\ leaf'[q] = leaf[q]
PagesKept == \A q \in Processes, x \in Pages, w \in BOOLEAN :
    Granted(q, x, w) => Granted(q, x, w)'

\* One page of process p, absent before, is now there.
MapDone(p, page, write) ==
    /\ panicked' = panicked
    /\ TablesInv'
    /\ OthersKept(p)
    /\ PagesKept
    /\ \A x \in Pages \ {page} : leaf'[p][x] = leaf[p][x]
    /\ Granted(p, page, write)'

Refused(call) == panicked' = call /\ UNCHANGED <<free, dirs, tables, leaf>>

\* vmm_map_page() of an absent page maps it and leaves the rest as it was, or panics.
LEMMA MapStep ==
    ASSUME TablesInv, NEW a \in 1 .. NumFrames + 1, NEW p \in Processes, NEW page \in Pages,
           NEW frame \in Int, NEW write \in BOOLEAN, NEW call, page >= HeapPage => write,
           leaf[p][page] = Absent,
           \/ free = a .. NumFrames /\ frame \in NumFrames + 1 .. NumFrames + FbPages
           \/ frame = a - 1 /\ frame \in Frames /\ free = frame .. NumFrames,
           vmm_map_page(p, page, frame, write, a .. NumFrames, call)
    PROVE  Refused(call) \/ MapDone(p, page, write)
  <1> DEFINE t == Table(page)
             new == tables[p][t] = 0
             e == UserLeaf(frame, write)
             taken == IF frame \in Frames THEN {frame} ELSE {}
             F == taken \cup (IF new THEN {a} ELSE {})
  <1>0. /\ NumFrames \in Nat /\ FbPages \in Nat /\ a \in Int /\ t \in Tables
        /\ Tables \subseteq Int /\ Pages \subseteq Int
    BY LayoutFacts, TableFacts DEF Pages
  <1>f. /\ 1 <= a /\ a <= NumFrames + 1
        /\ \/ /\ free = a .. NumFrames /\ frame \notin Frames
              /\ NumFrames < frame /\ frame <= NumFrames + FbPages
           \/ /\ frame = a - 1 /\ 1 <= frame /\ frame <= NumFrames /\ frame \in Frames
              /\ free = frame .. NumFrames
    BY <1>0 DEF Frames
  <1>t. SpaceTypes
    BY Zenon DEF TablesInv
  <1>e. /\ e \in Leaves
        /\ e # Absent /\ e.frame = frame /\ e.write = write /\ e.user
        /\ frame # 0 /\ (a \in Frames => frame # a)
    <2>1. frame \in 1 .. NumFrames + FbPages /\ (a \in Frames => frame # a)
      BY <1>0, <1>f DEF Frames
    <2>2. /\ e = [frame |-> frame, write |-> write, user |-> TRUE]
          /\ e.frame = frame /\ e.write = write /\ e.user /\ Absent.frame = 0
      BY Zenon DEF Absent, UserLeaf
    <2>3. e \in Leaves
      <3>1. frame \in 0 .. NumFrames + FbPages
        BY <1>0, <2>1
      <3> QED BY <2>2, <3>1, Zenon DEF Leaves
    <2>4. frame # 0
      BY <1>0, <2>1
    <2> QED BY <2>1, <2>2, <2>3, <2>4, Zenon
  <1>1. CASE new /\ a .. NumFrames = {}
    BY <1>1, Zenon DEF vmm_map_page, panic, Refused
  <1>2. CASE ~(new /\ a .. NumFrames = {})
    <2>1. /\ leaf' = [leaf EXCEPT ![p][page] = e]
          /\ tables' = IF new THEN [tables EXCEPT ![p][t] = Min(a .. NumFrames)] ELSE tables
          /\ free' = IF new THEN (a .. NumFrames) \ {Min(a .. NumFrames)} ELSE a .. NumFrames
          /\ dirs' = dirs /\ panicked' = panicked
      BY <1>2, Zenon DEF vmm_map_page
    <2>2. new => a <= NumFrames /\ Min(a .. NumFrames) = a
      <3>1. new => a <= NumFrames
        BY <1>2, <1>0
      <3> QED BY <1>0, <3>1, MinOfPool
    <2>3. /\ leaf' \in [Processes -> [Pages -> Leaves]]
          /\ \A q \in Processes, x \in Pages :
               leaf'[q][x] = IF q = p /\ x = page THEN e ELSE leaf[q][x]
      <3> HIDE DEF e
      <3> QED BY <1>t, <1>e, <2>1, Zenon DEF SpaceTypes
    <2>4. /\ tables' \in [Processes -> [Tables -> Frames \cup {0}]]
          /\ \A q \in Processes, x \in Tables :
               tables'[q][x] = IF new /\ q = p /\ x = t THEN a ELSE tables[q][x]
      <3>1. CASE new
        <4>1. a \in Frames
          BY <1>0, <1>f, <2>2, <3>1 DEF Frames
        <4>2. tables' = [tables EXCEPT ![p][t] = a]
          BY <2>1, <2>2, <3>1, Zenon
        <4> HIDE DEF t
        <4> QED BY <1>0, <1>t, <3>1, <4>1, <4>2, Zenon DEF SpaceTypes
      <3>2. CASE ~new
        BY <1>t, <2>1, <3>2, Zenon DEF SpaceTypes
      <3> QED BY <3>1, <3>2, Zenon
    <2>5. /\ F \subseteq free /\ free' = free \ F
          /\ free' = (IF new THEN a + 1 ELSE a) .. NumFrames
      <3>1. free' = (IF new THEN a + 1 ELSE a) .. NumFrames
        <4>1. (a .. NumFrames) \ {a} = a + 1 .. NumFrames
          BY <1>0
        <4> QED BY <2>1, <2>2, <4>1, Zenon
      <3> HIDE DEF new
      <3>2. CASE frame \in Frames
        <4>1. free = (a - 1) .. NumFrames /\ a - 1 <= NumFrames
          BY <1>0, <1>f, <3>2, Zenon
        <4>2. F = IF new THEN {a - 1, a} ELSE {a - 1}
          BY <1>f, <3>2, Zenon
        <4> QED BY <1>0, <2>2, <3>1, <4>1, <4>2 DEF new
      <3>3. CASE frame \notin Frames
        <4>1. free = a .. NumFrames
          BY <1>f, <3>3, Zenon
        <4>2. F = IF new THEN {a} ELSE {}
          BY <3>3, Zenon
        <4> QED BY <1>0, <2>2, <3>1, <4>1, <4>2 DEF new
      <3> QED BY <3>2, <3>3, Zenon
    <2>6. SpaceTypes' /\ PoolInv'
      <3> DEFINE k == IF new THEN a + 1 ELSE a
      <3>0. k \in 1 .. NumFrames + 1 /\ free' = k .. NumFrames
        BY <1>0, <1>f, <2>2, <2>5
      <3> HIDE DEF k
      <3>1. free' \subseteq Frames /\ PoolInv'
        BY <1>0, <3>0 DEF Frames, PoolInv
      <3> QED BY <1>t, <2>1, <2>3, <2>4, <3>1, Zenon DEF SpaceTypes
    <2> HIDE DEF e, t
    <2>7. UseInv'
      <3> DEFINE kd == [f \in F |-> IF f = frame THEN "leaf" ELSE "table"]
                 pr == [f \in F |-> p]
                 ix == [f \in F |-> IF f = frame THEN page ELSE t]
      <3>0. kd \in [F -> Kinds] /\ pr \in [F -> Processes] /\ ix \in [F -> Int]
        BY <1>0, Zenon DEF Kinds
      <3>1. ASSUME NEW f \in Frames, NEW kind \in Kinds, NEW q \in Processes, NEW x \in Int
            PROVE  Uses(dirs', tables', leaf', kind, q, x, f) <=>
                     \/ Uses(dirs, tables, leaf, kind, q, x, f)
                     \/ f \in F /\ kind = kd[f] /\ q = pr[f] /\ x = ix[f]
        <4>0. f # 0 /\ f \in Int
          BY <1>0 DEF Frames
        <4>1. CASE kind = "dir"
          BY <2>1, <4>1, Zenon DEF Uses
        <4>2. CASE kind = "table"
          <5>1. f \in F /\ kind = kd[f] /\ q = pr[f] /\ x = ix[f]
                   <=> new /\ f = a /\ q = p /\ x = t
            BY <1>e, <4>2, Zenon
          <5>2. x \in Tables => (tables'[q][x] = f
                   <=> tables[q][x] = f \/ (new /\ f = a /\ q = p /\ x = t))
            BY <2>4, <4>0
          <5> QED BY <1>0, <4>2, <5>1, <5>2, Zenon DEF Uses
        <4>3. CASE kind = "leaf"
          <5>1. f \in F /\ kind = kd[f] /\ q = pr[f] /\ x = ix[f]
                   <=> f = frame /\ q = p /\ x = page
            BY <1>e, <4>3, Zenon
          <5>2. x \in Pages => (leaf'[q][x].frame = f
                   <=> leaf[q][x].frame = f \/ (f = frame /\ q = p /\ x = page))
            BY <1>e, <2>3, <4>0 DEF Absent
          <5> QED BY <4>3, <5>1, <5>2, Zenon DEF Uses
        <4> QED BY <4>1, <4>2, <4>3, Zenon DEF Kinds
      <3> HIDE DEF kd, pr, ix, F
      <3>2. UsedOnce(free \ F, dirs', tables', leaf')
        <4>1. UsedOnce(free, dirs, tables, leaf) /\ free \subseteq Frames /\ F \in SUBSET free
          BY <1>t, <2>5, Zenon DEF TablesInv, UseInv, SpaceTypes
        <4>2. AddsUses(dirs, tables, leaf, dirs', tables', leaf', F, kd, pr, ix)
          BY <3>1, Zenon DEF AddsUses
        <4> QED BY <3>0, <4>1, <4>2, NewUses, Zenon
      <3> QED BY <2>5, <3>2, Zenon DEF UseInv
    <2>8. \A q \in Processes, x \in Tables : tables[q][x] # 0 => tables'[q][x] # 0
      BY <1>0, <2>4, Zenon
    <2>9. tables'[p][t] # 0
      BY <1>0, <2>4
    <2>10. LeafInv'
      <3> SUFFICES ASSUME NEW q \in Processes, NEW x \in Pages, leaf'[q][x] # Absent
                   PROVE  /\ tables'[q][Table(x)] # 0
                          /\ leaf'[q][x].user /\ leaf'[q][x].frame # 0
                          /\ x >= HeapPage => leaf'[q][x].write
        BY Zenon DEF LeafInv
      <3>1. CASE q = p /\ x = page
        BY <1>e, <2>3, <2>9, <3>1, Zenon DEF t
      <3>2. CASE ~(q = p /\ x = page)
        BY <2>3, <2>8, <3>2, TableFacts, ZenonT(60) DEF TablesInv, LeafInv
      <3> QED BY <3>1, <3>2, Zenon
    <2>11. OthersKept(p)
      <3> SUFFICES ASSUME NEW q \in Processes \ {p}
                   PROVE  tables'[q] = tables[q] /\ leaf'[q] = leaf[q]
        BY <2>1, Zenon DEF OthersKept
      <3>1. leaf'[q] = leaf[q]
        BY <1>t, <2>1, Zenon DEF SpaceTypes
      <3>2. tables'[q] = tables[q]
        BY <1>t, <2>1, Zenon DEF SpaceTypes
      <3> QED BY <3>1, <3>2, Zenon
    <2>12. PagesKept
      <3> SUFFICES ASSUME NEW q \in Processes, NEW x \in Pages, NEW w \in BOOLEAN, Granted(q, x, w)
                   PROVE  Granted(q, x, w)'
        BY Zenon DEF PagesKept
      <3>1. tables'[q][Table(x)] # 0 /\ leaf'[q][x] = leaf[q][x]
        BY <2>3, <2>8, TableFacts, Zenon DEF Granted, Present
      <3> QED BY <3>1, Zenon DEF Granted, Present
    <2>13. /\ \A x \in Pages \ {page} : leaf'[p][x] = leaf[p][x]
           /\ Granted(p, page, write)'
      BY <1>e, <2>3, <2>9, Zenon DEF Granted, Present, t
    <2> QED BY <2>1, <2>6, <2>7, <2>10, <2>11, <2>12, <2>13, Zenon DEF MapDone, TablesInv
  <1> QED BY <1>1, <1>2, Zenon

\* The page gets the first frame of the pool, its table the next.
LEMMA FreshStep ==
    ASSUME TablesInv, NEW p \in Processes, NEW page \in Pages, NEW write \in BOOLEAN, NEW call,
           page >= HeapPage => write, leaf[p][page] = Absent, free # {},
           MapFresh(p, page, write, call)
    PROVE  Refused(call) \/ MapDone(p, page, write)
  <1>1. PICK k \in 1 .. NumFrames + 1 : free = k .. NumFrames
    BY Zenon DEF TablesInv, PoolInv
  <1>2. k \in Int /\ NumFrames \in Int /\ 1 <= k /\ k <= NumFrames
    BY <1>1, LayoutFacts
  <1>3. Min(free) = k
    BY <1>1, <1>2, MinOfPool, Zenon
  <1>4. free \ {Min(free)} = (k + 1) .. NumFrames
    BY <1>1, <1>2, <1>3
  <1>5. vmm_map_page(p, page, k, write, (k + 1) .. NumFrames, call)
    BY <1>3, <1>4, Zenon DEF MapFresh
  <1>6. /\ k + 1 \in 1 .. NumFrames + 1 /\ k = (k + 1) - 1 /\ k \in Frames
    BY <1>2 DEF Frames
  <1> QED BY <1>1, <1>2, <1>5, <1>6, MapStep, Zenon

\* A page of the framebuffer takes no frame of the pool but for its table.
LEMMA FramebufferStep ==
    ASSUME TablesInv, NEW p \in Processes, NEW i \in 0 .. FbPages - 1, NEW page \in Pages,
           leaf[p][page] = Absent, vmm_map_page(p, page, FbFrame(i), TRUE, free, "fb")
    PROVE  Refused("fb") \/ MapDone(p, page, TRUE)
  <1>1. PICK k \in 1 .. NumFrames + 1 : free = k .. NumFrames
    BY Zenon DEF TablesInv, PoolInv
  <1>2. FbFrame(i) \in Int /\ FbFrame(i) \in NumFrames + 1 .. NumFrames + FbPages
    BY LayoutFacts DEF FbFrame
  <1>3. vmm_map_page(p, page, FbFrame(i), TRUE, k .. NumFrames, "fb")
    BY <1>1, Zenon
  <1> HIDE DEF FbFrame
  <1> QED BY <1>1, <1>2, <1>3, MapStep, Zenon

\* walk_to_leaf() finds nothing only where no leaf has been installed.
LEMMA NotPresent ==
    ASSUME TablesInv, NEW p \in Processes, NEW page \in Pages, ~vmm_page_present(p, Private + page)
    PROVE  leaf[p][page] = Absent
  <1>1. ~Present(p, page)
    BY WindowWalk, Zenon
  <1> QED BY <1>1, Zenon DEF TablesInv, LeafInv, Present

\* The new space: directories, the first page table, and its page 0
LEMMA CreateStep ==
    ASSUME TablesInv, NEW p \in Processes, dirs[p] = {},
           \A t \in Tables : tables[p][t] = 0,
           \A page \in Pages : leaf[p][page] = Absent,
           vmm_create_address_space(p)
    PROVE  \/ Refused("spawn")
           \/ /\ panicked' = panicked
              /\ TablesInv'
              /\ OthersKept(p)
              /\ PagesKept
              /\ \A x \in Pages \ {0} : leaf'[p][x] = Absent
  <1>1. PICK k \in 1 .. NumFrames + 1 : free = k .. NumFrames
    BY Zenon DEF TablesInv, PoolInv
  <1>0. /\ NumFrames \in Nat /\ FbPages \in Nat /\ k \in Int /\ 1 <= k
        /\ 0 \in Tables /\ 0 \in Pages /\ Table(0) = 0 /\ Tables \subseteq Int
    BY <1>1, LayoutFacts, TableFacts
  <1>t. SpaceTypes
    BY Zenon DEF TablesInv
  <1>2. CASE Cardinality(free) < 5
    BY <1>2, Zenon DEF vmm_create_address_space, panic, Refused
  <1>3. CASE ~(Cardinality(free) < 5)
    <2> DEFINE F == k .. k + 4
               e == UserLeaf(k + 4, TRUE)
    <2>0. k + 4 <= NumFrames
      <3>1. Cardinality(k .. NumFrames) = IF k > NumFrames THEN 0 ELSE NumFrames - k + 1
        <4>1. k \in Int /\ NumFrames \in Int
          BY <1>0
        <4> QED BY <4>1, FS_Interval, Zenon
      <3> QED BY <1>0, <1>1, <1>3, <3>1
    <2>1. Min(free) = k
      BY <1>0, <1>1, <2>0, MinOfPool
    <2>2. free \ (k .. k + 2) = k + 3 .. NumFrames /\ Min(k + 3 .. NumFrames) = k + 3
      <3>1. free \ (k .. k + 2) = k + 3 .. NumFrames
        BY <1>0, <1>1, <2>0
      <3> QED BY <1>0, <2>0, <3>1, MinOfPool
    <2>3. /\ free \ ((k .. k + 2) \cup {k + 3}) = k + 4 .. NumFrames
          /\ Min(k + 4 .. NumFrames) = k + 4
      <3>1. free \ ((k .. k + 2) \cup {k + 3}) = k + 4 .. NumFrames
        BY <1>0, <1>1, <2>0
      <3> QED BY <1>0, <2>0, <3>1, MinOfPool
    <2>4. /\ dirs' = [dirs EXCEPT ![p] = k .. k + 2]
          /\ tables' = [tables EXCEPT ![p][0] = k + 3]
          /\ leaf' = [leaf EXCEPT ![p][0] = e]
          /\ free' = free \ ((k .. k + 2) \cup {k + 3, k + 4})
          /\ panicked' = panicked
      BY <1>3, <2>1, <2>2, <2>3, Zenon DEF vmm_create_address_space
    <2>5. /\ F \subseteq free /\ free' = free \ F /\ free' = k + 5 .. NumFrames
          /\ F \subseteq Frames /\ k .. k + 2 \subseteq Frames
          /\ k + 3 \in Frames /\ k + 4 \in Frames /\ free' \subseteq Frames
      <3>1. F = (k .. k + 2) \cup {k + 3, k + 4}
        BY <1>0
      <3>2. free' = free \ F
        BY <2>4, <3>1, Zenon
      <3>3. F \subseteq free /\ free \ F = k + 5 .. NumFrames
        BY <1>0, <1>1, <2>0
      <3>4. F \subseteq Frames /\ k .. k + 2 \subseteq Frames
            /\ k + 3 \in Frames /\ k + 4 \in Frames /\ k + 5 .. NumFrames \subseteq Frames
        BY <1>0, <2>0 DEF Frames
      <3> QED BY <3>2, <3>3, <3>4, Zenon
    <2>6. PoolInv'
      <3>1. k + 5 \in 1 .. NumFrames + 1
        BY <1>0, <2>0
      <3> QED BY <2>5, <3>1, Zenon DEF PoolInv
    <2>e. /\ e \in Leaves
          /\ e # Absent /\ e.frame = k + 4 /\ e.write /\ e.user /\ e.frame # 0
      <3>1. k + 4 \in 0 .. NumFrames + FbPages /\ k + 4 # 0
        BY <1>0, <2>0
      <3>2. /\ e = [frame |-> k + 4, write |-> TRUE, user |-> TRUE]
            /\ e.frame = k + 4 /\ e.write /\ e.user /\ Absent.frame = 0
        BY Zenon DEF Absent, UserLeaf
      <3>3. e \in Leaves
        BY <3>1, <3>2, Zenon DEF Leaves
      <3> QED BY <3>1, <3>2, <3>3, Zenon
    <2> HIDE DEF e
    <2>7. /\ leaf' \in [Processes -> [Pages -> Leaves]]
          /\ \A q \in Processes, x \in Pages :
               leaf'[q][x] = IF q = p /\ x = 0 THEN e ELSE leaf[q][x]
      BY <1>0, <1>t, <2>e, <2>4, Zenon DEF SpaceTypes
    <2>8. /\ tables' \in [Processes -> [Tables -> Frames \cup {0}]]
          /\ \A q \in Processes, x \in Tables :
               tables'[q][x] = IF q = p /\ x = 0 THEN k + 3 ELSE tables[q][x]
      BY <1>0, <1>t, <2>4, <2>5, Zenon DEF SpaceTypes
    <2>9. /\ dirs' \in [Processes -> SUBSET Frames]
          /\ \A q \in Processes : dirs'[q] = IF q = p THEN k .. k + 2 ELSE dirs[q]
      BY <1>t, <2>4, <2>5, Zenon DEF SpaceTypes
    <2>10. SpaceTypes'
      BY <2>5, <2>7, <2>8, <2>9, Zenon DEF SpaceTypes
    <2>11. UseInv'
      <3> DEFINE kd == [f \in F |-> IF f <= k + 2 THEN "dir" ELSE IF f = k + 3 THEN "table" ELSE "leaf"]
                 pr == [f \in F |-> p]
                 ix == [f \in F |-> 0]
      <3>0. kd \in [F -> Kinds] /\ pr \in [F -> Processes] /\ ix \in [F -> Int]
        BY DEF Kinds
      <3>1. ASSUME NEW f \in Frames, NEW kind \in Kinds, NEW q \in Processes, NEW x \in Int
            PROVE  Uses(dirs', tables', leaf', kind, q, x, f) <=>
                     \/ Uses(dirs, tables, leaf, kind, q, x, f)
                     \/ f \in F /\ kind = kd[f] /\ q = pr[f] /\ x = ix[f]
        <4>0. f # 0 /\ f \in Int
          BY <1>0 DEF Frames
        <4>1. CASE kind = "dir"
          <5>1. f \in F /\ kind = kd[f] /\ q = pr[f] /\ x = ix[f]
                   <=> f \in k .. k + 2 /\ q = p /\ x = 0
            BY <1>0, <4>0, <4>1
          <5>2. f \in dirs'[q] <=> f \in dirs[q] \/ (f \in k .. k + 2 /\ q = p)
            BY <2>9, Zenon
          <5> QED BY <4>1, <5>1, <5>2, Zenon DEF Uses
        <4>2. CASE kind = "table"
          <5>1. f \in F /\ kind = kd[f] /\ q = pr[f] /\ x = ix[f]
                   <=> f = k + 3 /\ q = p /\ x = 0
            BY <1>0, <4>0, <4>2
          <5>2. x \in Tables => (tables'[q][x] = f
                   <=> tables[q][x] = f \/ (f = k + 3 /\ q = p /\ x = 0))
            BY <2>8, <4>0, Zenon
          <5> QED BY <1>0, <4>2, <5>1, <5>2, Zenon DEF Uses
        <4>3. CASE kind = "leaf"
          <5>1. f \in F /\ kind = kd[f] /\ q = pr[f] /\ x = ix[f]
                   <=> f = k + 4 /\ q = p /\ x = 0
            BY <1>0, <4>0, <4>3
          <5>2. x \in Pages => (leaf'[q][x].frame = f
                   <=> leaf[q][x].frame = f \/ (f = k + 4 /\ q = p /\ x = 0))
            BY <2>e, <2>7, <4>0 DEF Absent
          <5> QED BY <1>0, <4>3, <5>1, <5>2, Zenon DEF Uses
        <4> QED BY <4>1, <4>2, <4>3, Zenon DEF Kinds
      <3> HIDE DEF kd, pr, ix, F
      <3>2. UsedOnce(free \ F, dirs', tables', leaf')
        <4>1. UsedOnce(free, dirs, tables, leaf) /\ free \subseteq Frames /\ F \in SUBSET free
          BY <1>t, <2>5, Zenon DEF TablesInv, UseInv, SpaceTypes
        <4>2. AddsUses(dirs, tables, leaf, dirs', tables', leaf', F, kd, pr, ix)
          BY <3>1, Zenon DEF AddsUses
        <4> QED BY <3>0, <4>1, <4>2, NewUses, Zenon
      <3> QED BY <2>5, <3>2, Zenon DEF UseInv
    <2>12. LeafInv'
      <3> SUFFICES ASSUME NEW q \in Processes, NEW x \in Pages, leaf'[q][x] # Absent
                   PROVE  /\ tables'[q][Table(x)] # 0
                          /\ leaf'[q][x].user /\ leaf'[q][x].frame # 0
                          /\ x >= HeapPage => leaf'[q][x].write
        BY Zenon DEF LeafInv
      <3>1. CASE q = p /\ x = 0
        BY <1>0, <2>e, <2>7, <2>8, <3>1
      <3>2. CASE ~(q = p /\ x = 0)
        <4>1. q # p /\ leaf'[q][x] = leaf[q][x]
          BY <2>7, <3>2, ZenonT(60)
        <4>2. tables'[q][Table(x)] = tables[q][Table(x)]
          BY <2>8, <4>1, TableFacts, Zenon
        <4>3. /\ tables[q][Table(x)] # 0
              /\ leaf[q][x].user /\ leaf[q][x].frame # 0
              /\ x >= HeapPage => leaf[q][x].write
          <5>1. leaf[q][x] # Absent /\ LeafInv
            BY <4>1, Zenon DEF TablesInv
          <5> QED BY <5>1, Zenon DEF LeafInv
        <4> QED BY <4>1, <4>2, <4>3, Zenon
      <3> QED BY <3>1, <3>2, Zenon
    <2>13. OthersKept(p)
      <3> SUFFICES ASSUME NEW q \in Processes \ {p}
                   PROVE  dirs'[q] = dirs[q] /\ tables'[q] = tables[q] /\ leaf'[q] = leaf[q]
        BY Zenon DEF OthersKept
      <3> QED BY <1>t, <2>4, Zenon DEF SpaceTypes
    <2>14. PagesKept
      <3> SUFFICES ASSUME NEW q \in Processes, NEW x \in Pages, NEW w \in BOOLEAN, Granted(q, x, w)
                   PROVE  Granted(q, x, w)'
        BY Zenon DEF PagesKept
      <3>1. q # p
        BY Zenon DEF Granted, Present
      <3>2. tables'[q] = tables[q] /\ leaf'[q] = leaf[q]
        BY <2>13, <3>1, Zenon DEF OthersKept
      <3> QED BY <3>2, Zenon DEF Granted, Present
    <2>15. \A x \in Pages \ {0} : leaf'[p][x] = Absent
      BY <2>7, Zenon
    <2> QED BY <2>4, <2>6, <2>10, <2>11, <2>12, <2>13, <2>14, <2>15, Zenon DEF TablesInv
  <1> QED BY <1>2, <1>3, Zenon

--------------------------------------------------------------------------------
(* The invariant *)

Panics == {None, "spawn", "sbrk", "fb", "stack", "buffer"}
Places == {"new", "load", "run", "sbrk", "fb", "dead"}

\* The invariant holds before any process exists.
LEMMA InitInv == Init => SpaceInv
  <1> SUFFICES ASSUME Init PROVE SpaceInv
    BY Zenon
  <1>0. /\ NumFrames \in Nat /\ FbPages \in Nat /\ Window \in Nat /\ HeapPage \in Nat
        /\ PAGE \in Nat \ {0} /\ HeapPage < Window
    BY LayoutFacts
  <1>1. HeapStart \in HeapStart .. Window * PAGE
    <2>1. PAGE * HeapPage <= PAGE * Window /\ PAGE * HeapPage \in Int /\ PAGE * Window \in Int
      BY <1>0, MulOrder
    <2>2. PAGE * HeapPage = HeapPage * PAGE /\ PAGE * Window = Window * PAGE
      BY <1>0
    <2> QED BY <2>1, <2>2 DEF HeapStart
  <1>2. Absent \in Leaves
    BY <1>0 DEF Absent, Leaves
  <1>3. TypeOK
    <2>1. free \subseteq Frames /\ dirs \in [Processes -> SUBSET Frames]
          /\ tables \in [Processes -> [Tables -> Frames \cup {0}]]
      BY Zenon DEF Init
    <2>2. leaf \in [Processes -> [Pages -> Leaves]]
      BY <1>2, Zenon DEF Init
    <2>3. brk \in [Processes -> HeapStart .. Window * PAGE]
          /\ goal \in [Processes -> HeapStart .. Window * PAGE]
      <3> HIDE DEF HeapStart
      <3> QED BY <1>1, Zenon DEF Init
    <2>4. pc \in [Processes -> {"new", "load", "run", "sbrk", "fb", "dead"}]
          /\ cursor \in [Processes -> 0 .. Window]
          /\ panicked \in {None, "spawn", "sbrk", "fb", "stack", "buffer"}
      BY <1>0 DEF Init
    <2> QED BY <2>1, <2>2, <2>3, <2>4, Zenon DEF TypeOK
  <1>4. PoolInv
    BY <1>0 DEF Init, PoolInv, Frames
  <1>5. UseInv
    <2>1. \A f \in Frames : f \in free /\ f # 0
      BY <1>0 DEF Init, Frames
    <2>2. \A f \in Frames, kind \in Kinds, p \in Processes, x \in Int :
             ~Uses(dirs, tables, leaf, kind, p, x, f)
      BY <2>1, Zenon DEF Init, Uses, Absent
    <2> QED BY <2>1, <2>2, ZenonT(60) DEF UseInv, UsedOnce
  <1>6. LeafInv
    BY Zenon DEF Init, LeafInv
  <1>7. HeapInv
    <2>1. RoundUpPage(HeapStart) = HeapPage
      <3>1. /\ HeapStart + PAGE - 1 \in Int /\ PAGE * HeapPage <= HeapStart + PAGE - 1
            /\ HeapStart + PAGE - 1 < PAGE * HeapPage + PAGE
        BY <1>0, MulOrder DEF HeapStart
      <3> QED BY <1>0, <3>1, DivUnique DEF RoundUpPage
    <2>2. \A p \in Processes : HeapPage .. RoundUpPage(brk[p]) - 1 = {}
      BY <1>0, <2>1 DEF Init
    <2> QED BY <2>2, Zenon DEF HeapInv
  <1>8. \A p \in Processes : ProgressInv(p) /\ ImageInv(p)
    BY Zenon DEF Init, ProgressInv, ImageInv, Running
  <1> QED BY <1>3, <1>4, <1>5, <1>6, <1>7, <1>8, Zenon DEF SpaceInv

\* Rounding an address up to a page
LEMMA RoundUpBound ==
    ASSUME NEW x \in Int, NEW w \in Int
    PROVE  /\ RoundUpPage(x) \in Int
           /\ RoundUpPage(x) <= w <=> x <= PAGE * w
           /\ x \div PAGE \in Int
           /\ x \div PAGE <= RoundUpPage(x)
  <1>0. PAGE \in Nat \ {0} /\ x + PAGE - 1 \in Int /\ x <= x + PAGE - 1
    BY LayoutFacts
  <1> DEFINE q == (x + PAGE - 1) \div PAGE
  <1>1. q \in Int /\ PAGE * q <= x + PAGE - 1 /\ x + PAGE - 1 < PAGE * q + PAGE
    BY <1>0, DivIs, Zenon
  <1>2. RoundUpPage(x) = q
    BY Zenon DEF RoundUpPage
  <1>3. x \div PAGE \in Int /\ x \div PAGE <= q
    BY <1>0, DivIs, DivOrder, Zenon
  <1> HIDE DEF q
  <1>4. PAGE * q \in Int /\ PAGE * w \in Int
        /\ (q <= w => PAGE * q <= PAGE * w) /\ (w < q => PAGE * w + PAGE <= PAGE * q)
    BY <1>0, <1>1, MulOrder, Zenon
  <1>5. q <= w <=> x <= PAGE * w
    BY <1>0, <1>1, <1>4
  <1> QED BY <1>1, <1>2, <1>3, <1>5, Zenon

\* Pages that stay keep the heap backed up to an unchanged break.
LEMMA HeapKept ==
    ASSUME HeapInv, PagesKept, brk' = brk
    PROVE  HeapInv'
  <1> SUFFICES ASSUME NEW p \in Processes, NEW page \in HeapPage .. RoundUpPage(brk[p]) - 1
               PROVE  Granted(p, page, TRUE)'
    BY Zenon DEF HeapInv
  <1>1. Granted(p, page, TRUE) /\ page \in Pages
    BY Zenon DEF HeapInv, Granted, Present
  <1> QED BY <1>1, Zenon DEF PagesKept

\* A step that touches no page table keeps what is mapped.
LEMMA SpacesKept ==
    ASSUME TablesInv, UNCHANGED <<free, dirs, tables, leaf>>, NEW p \in Processes
    PROVE  TablesInv' /\ OthersKept(p) /\ PagesKept
  <1>1. TablesInv'
    BY Zenon DEF TablesInv, SpaceTypes, PoolInv, UseInv, LeafInv
  <1>2. OthersKept(p) /\ PagesKept
    BY Zenon DEF OthersKept, PagesKept, Granted, Present
  <1> QED BY <1>1, <1>2, Zenon

\* A step of process p keeps the invariant if it keeps it for the page tables,
\* the break and p's own progress.
LEMMA StepInv ==
    ASSUME SpaceInv, panicked = None, NEW p \in Processes, NEW place \in Places,
           NEW at \in 0 .. Window, Goto(p, place, at),
           TablesInv', OthersKept(p), PagesKept, HeapInv',
           brk' \in [Processes -> HeapStart .. Window * PAGE],
           goal' \in [Processes -> HeapStart .. Window * PAGE],
           panicked' \in Panics, panicked' = None => ProgressInv(p)',
           \/ pc[p] \in Running /\ place # "load"
           \/ panicked' = None => ImageInv(p)'
    PROVE  SpaceInv'
  <1>1. /\ pc' \in [Processes -> Places] /\ cursor' \in [Processes -> 0 .. Window]
        /\ \A q \in Processes \ {p} : pc'[q] = pc[q] /\ cursor'[q] = cursor[q]
    BY Zenon DEF SpaceInv, TypeOK, Goto, Places
  <1>2. TypeOK'
    BY <1>1, Zenon DEF TypeOK, TablesInv, SpaceTypes, Places, Panics
  <1>3. ASSUME NEW q \in Processes \ {p} PROVE ProgressInv(q)' /\ ImageInv(q)'
    <2>1. ProgressInv(q) /\ ImageInv(q)
      BY Zenon DEF SpaceInv
    <2>2. /\ dirs'[q] = dirs[q] /\ tables'[q] = tables[q] /\ leaf'[q] = leaf[q]
          /\ pc'[q] = pc[q] /\ cursor'[q] = cursor[q]
      BY <1>1, Zenon DEF OthersKept
    <2>3. \A x, w : Granted(q, x, w)' <=> Granted(q, x, w)
      BY <2>2, Zenon DEF Granted, Present
    <2>4. ProgressInv(q)'
      BY <2>1, <2>2, <2>3 DEF ProgressInv
    <2>5. ImageInv(q)'
      BY <2>1, <2>2, <2>3 DEF ImageInv
    <2> QED BY <2>4, <2>5, Zenon
  <1>4. panicked' = None => ImageInv(p)'
    <2> SUFFICES ASSUME pc[p] \in Running, place # "load" PROVE ImageInv(p)'
      BY Zenon
    <2>1. ImageInv(p) /\ pc'[p] = place
      BY Zenon DEF SpaceInv, TypeOK, Goto
    <2>2. /\ \A j \in 1 .. Len(Segments) : Granted(p, Segments[j].page, Segments[j].write)'
          /\ Granted(p, StackTopPage - 1, TRUE)'
      <3>1. /\ \A j \in 1 .. Len(Segments) : Granted(p, Segments[j].page, Segments[j].write)
            /\ Granted(p, StackTopPage - 1, TRUE)
        BY <2>1, Zenon DEF ImageInv
      <3>2. \A x \in Pages, w \in BOOLEAN : Granted(p, x, w) => Granted(p, x, w)'
        BY Zenon DEF PagesKept
      <3>3. \A j \in 1 .. Len(Segments) : Segments[j].page \in Pages /\ Segments[j].write \in BOOLEAN
        BY SegmentFacts, Zenon
      <3>4. StackTopPage - 1 \in Pages
        BY <3>1, Zenon DEF Granted, Present
      <3> QED BY <3>1, <3>2, <3>3, <3>4, Zenon
    <2> QED BY <2>1, <2>2, Zenon DEF ImageInv
  <1>5. panicked' = None => \A q \in Processes : ProgressInv(q)' /\ ImageInv(q)'
    BY <1>3, <1>4, Zenon
  <1> QED BY <1>2, <1>5, Zenon DEF SpaceInv, TablesInv

\* The invariant, taken apart.
LEMMA InvParts ==
    ASSUME SpaceInv
    PROVE  /\ TablesInv /\ HeapInv /\ TypeOK
           /\ brk \in [Processes -> HeapStart .. Window * PAGE]
           /\ goal \in [Processes -> HeapStart .. Window * PAGE]
           /\ pc \in [Processes -> Places] /\ cursor \in [Processes -> 0 .. Window]
           /\ panicked \in Panics
  BY Zenon DEF SpaceInv, TablesInv, SpaceTypes, TypeOK, Places, Panics

\* A step that only moves process p on, to an operation in which nothing is
\* claimed of its progress
LEMMA MoveOn ==
    ASSUME SpaceInv, panicked = None, NEW p \in Processes, pc[p] \in Running,
           NEW place \in {"run", "dead"},
           Goto(p, place, 0), UNCHANGED <<free, dirs, tables, leaf, brk, goal, panicked>>
    PROVE  SpaceInv'
  <1>1. TablesInv' /\ OthersKept(p) /\ PagesKept
    BY InvParts, SpacesKept, Zenon
  <1>2. HeapInv'
    BY <1>1, InvParts, HeapKept, Zenon
  <1>3. ProgressInv(p)'
    BY InvParts, Zenon DEF Goto, ProgressInv
  <1>4. 0 \in 0 .. Window /\ place \in Places /\ place # "load"
    BY LayoutFacts DEF Places
  <1> QED BY <1>1, <1>2, <1>3, <1>4, InvParts, StepInv, Zenon

\* A mapping step in which the kernel halts
LEMMA Halts ==
    ASSUME SpaceInv, panicked = None, NEW p \in Processes, NEW place \in Places,
           NEW at \in 0 .. Window, Goto(p, place, at), UNCHANGED <<brk, goal>>,
           NEW call \in Panics \ {None}, Refused(call)
    PROVE  SpaceInv'
  <1>1. TablesInv' /\ OthersKept(p) /\ PagesKept
    BY InvParts, SpacesKept, Zenon DEF Refused
  <1>2. HeapInv'
    BY <1>1, InvParts, HeapKept, Zenon
  <1>3. panicked' \in Panics /\ panicked' # None
    BY Zenon DEF Refused
  <1> QED BY <1>1, <1>2, <1>3, InvParts, StepInv, Zenon

\* A mapping step that succeeds
LEMMA Maps ==
    ASSUME SpaceInv, panicked = None, NEW p \in Processes, NEW place \in Places,
           NEW at \in 0 .. Window, Goto(p, place, at), UNCHANGED <<brk, goal>>,
           NEW page, NEW write, MapDone(p, page, write), ProgressInv(p)',
           \/ pc[p] \in Running /\ place # "load"
           \/ ImageInv(p)'
    PROVE  SpaceInv'
  <1>1. TablesInv' /\ OthersKept(p) /\ PagesKept /\ panicked' = None
    BY Zenon DEF MapDone
  <1>2. HeapInv'
    BY <1>1, InvParts, HeapKept, Zenon
  <1> QED BY <1>1, <1>2, InvParts, StepInv, Zenon DEF Panics

\* vmm_create_address_space().
LEMMA CreateInv ==
    ASSUME SpaceInv, NEW p \in Processes, vmm_create_address_space(p)
    PROVE  SpaceInv'
  <1>0. panicked = None /\ pc[p] = "new" /\ Goto(p, "load", 1) /\ brk' = brk /\ goal' = goal
    BY Zenon DEF vmm_create_address_space, At
  <1>1. "load" \in Places /\ 1 \in 0 .. Window /\ "spawn" \in Panics \ {None}
    BY LayoutFacts DEF Places, Panics, None
  <1>2. /\ dirs[p] = {} /\ \A t \in Tables : tables[p][t] = 0
        /\ \A page \in Pages : leaf[p][page] = Absent
    BY <1>0, Zenon DEF SpaceInv, ProgressInv
  <1>3. CASE Refused("spawn")
    BY <1>0, <1>1, <1>3, Halts, Zenon
  <1>4. CASE /\ panicked' = panicked /\ TablesInv' /\ OthersKept(p) /\ PagesKept
             /\ \A x \in Pages \ {0} : leaf'[p][x] = Absent
    <2>1. HeapInv'
      BY <1>0, <1>4, InvParts, HeapKept, Zenon
    <2>2. pc'[p] = "load" /\ cursor'[p] = 1
      BY <1>0, InvParts, Zenon DEF Goto
    <2>3. ProgressInv(p)'
      BY <1>4, <2>2, SegmentFacts DEF ProgressInv
    <2>4. ImageInv(p)'
      <3>1. 1 .. 1 - 1 = {}
        OBVIOUS
      <3> QED BY <2>2, <3>1, Zenon DEF ImageInv, Running
    <2> QED BY <1>0, <1>1, <1>4, <2>1, <2>3, <2>4, InvParts, StepInv, Zenon
  <1> QED BY <1>2, <1>3, <1>4, InvParts, CreateStep, Zenon

\* elf_load_user_program(): one page of a segment, or the first page of the stack.
LEMMA LoadInv ==
    ASSUME SpaceInv, NEW p \in Processes, LoadPage(p)
    PROVE  SpaceInv'
  <1>i. PICK i \in 0 .. Window : i = cursor[p]
    BY InvParts, Zenon
  <1> DEFINE stack == i > Len(Segments)
             page == IF stack THEN StackTopPage - 1 ELSE Segments[i].page
             write == stack \/ Segments[i].write
  <1>0. /\ panicked = None /\ pc[p] = "load" /\ brk' = brk /\ goal' = goal
        /\ IF free = {} THEN panic("spawn") ELSE MapFresh(p, page, write, "spawn")
        /\ IF stack THEN Goto(p, "run", 0) ELSE Goto(p, "load", i + 1)
    BY <1>i, Zenon DEF LoadPage, At
  <1>1. /\ i \in 1 .. Len(Segments) + 1
        /\ \A x \in Pages : leaf[p][x] # Absent =>
             x = 0 \/ \E j \in 1 .. i - 1 : Segments[j].page = x
    BY <1>0, <1>i, Zenon DEF SpaceInv, ProgressInv
  <1>2. /\ Len(Segments) \in Nat /\ i \in Int /\ (~stack => i \in 1 .. Len(Segments))
        /\ i - 1 <= Len(Segments) /\ (~stack => i + 1 \in 0 .. Window)
    BY <1>1, SegmentFacts, LayoutFacts
  <1>3. page \in Pages /\ write \in BOOLEAN /\ (page >= HeapPage => write)
    <2>1. CASE stack
      BY <2>1, LayoutFacts, SMTT(60) DEF Pages
    <2>2. CASE ~stack
      <3>1. /\ Segments[i].page \in Pages /\ Segments[i].page < HeapPage
            /\ Segments[i].write \in BOOLEAN
        BY <1>2, <2>2, SegmentFacts, Zenon
      <3>2. ~(Segments[i].page >= HeapPage)
        BY <3>1, LayoutFacts DEF Pages
      <3> QED BY <2>2, <3>1, <3>2, Zenon
    <2> QED BY <2>1, <2>2, Zenon
  <1>4. leaf[p][page] = Absent
    <2>1. page # 0
      <3>1. CASE stack
        BY <3>1, LayoutFacts
      <3>2. CASE ~stack
        BY <1>2, <3>2, SegmentFacts, Zenon
      <3> QED BY <3>1, <3>2, Zenon
    <2>2. ASSUME NEW j \in 1 .. i - 1 PROVE Segments[j].page # page
      <3>0. j \in 1 .. Len(Segments) /\ j # i
        BY <1>2
      <3>1. CASE stack
        <4>1. Segments[j].page < HeapPage /\ Segments[j].page \in Pages
          BY <3>0, SegmentFacts, Zenon
        <4> QED BY <3>1, <4>1, LayoutFacts DEF Pages
      <3>2. CASE ~stack
        <4>1. DOMAIN Segments = 1 .. Len(Segments)
          BY LayoutAssumption
        <4> QED BY <1>2, <3>0, <3>2, <4>1, LayoutAssumption, Zenon
      <3> QED BY <3>1, <3>2, Zenon
    <2> QED BY <1>1, <1>3, <2>1, <2>2, Zenon
  <1> DEFINE place == IF stack THEN "run" ELSE "load"
             at == IF stack THEN 0 ELSE i + 1
  <1>5. Goto(p, place, at) /\ place \in Places /\ at \in 0 .. Window
    BY <1>0, <1>2, LayoutFacts DEF Places
  <1>6. "spawn" \in Panics \ {None}
    BY Zenon DEF Panics, None
  <1>7. Refused("spawn") \/ MapDone(p, page, write)
    <2>1. CASE free = {}
      BY <1>0, <2>1, Zenon DEF panic, Refused
    <2>2. CASE free # {}
      <3> HIDE DEF page, write
      <3> QED BY <1>0, <1>3, <1>4, <2>2, InvParts, FreshStep, Zenon
    <2> QED BY <2>1, <2>2, Zenon
  <1>8. CASE Refused("spawn")
    <2> HIDE DEF place, at
    <2> QED BY <1>0, <1>5, <1>6, <1>8, Halts, Zenon
  <1>9. CASE MapDone(p, page, write)
    <2>1. pc'[p] = place /\ cursor'[p] = at
      BY <1>5, InvParts, Zenon DEF Goto
    <2>2. ProgressInv(p)'
      <3>1. CASE stack
        BY <2>1, <3>1, Zenon DEF ProgressInv
      <3>2. CASE ~stack
        <4>1. pc'[p] = "load" /\ cursor'[p] = i + 1 /\ page = Segments[i].page
          BY <2>1, <3>2, Zenon
        <4>2. i + 1 \in 1 .. Len(Segments) + 1 /\ (i + 1) - 1 = i
          BY <1>2, <3>2
        <4>3. ASSUME NEW x \in Pages, leaf'[p][x] # Absent, x # 0
              PROVE  \E j \in 1 .. i : Segments[j].page = x
          <5>1. CASE x = page
            BY <1>2, <3>2, <4>1, <5>1
          <5>2. CASE x # page
            <6>1. leaf[p][x] # Absent
              BY <1>9, <4>3, <5>2, Zenon DEF MapDone
            <6>2. PICK j \in 1 .. i - 1 : Segments[j].page = x
              BY <1>1, <4>3, <6>1, Zenon
            <6>3. j \in 1 .. i
              BY <1>2
            <6> QED BY <6>2, <6>3, Zenon
          <5> QED BY <5>1, <5>2, Zenon
        <4> QED BY <4>1, <4>2, <4>3, Zenon DEF ProgressInv
      <3> QED BY <3>1, <3>2, Zenon
    <2>3. ImageInv(p)'
      <3>1. \A j \in 1 .. i - 1 : Granted(p, Segments[j].page, Segments[j].write)'
        <4>1. \A j \in 1 .. i - 1 : Granted(p, Segments[j].page, Segments[j].write)
          BY <1>0, <1>i, Zenon DEF SpaceInv, ImageInv
        <4>2. \A j \in 1 .. i - 1 : j \in 1 .. Len(Segments)
          BY <1>2
        <4>3. \A j \in 1 .. i - 1 : Segments[j].page \in Pages /\ Segments[j].write \in BOOLEAN
          BY <4>2, SegmentFacts, Zenon
        <4> QED BY <1>9, <4>1, <4>3, Zenon DEF MapDone, PagesKept
      <3>2. Granted(p, page, write)'
        BY <1>9, Zenon DEF MapDone
      <3>3. CASE stack
        <4>1. pc'[p] = "run" /\ page = StackTopPage - 1 /\ (write <=> TRUE)
          BY <2>1, <3>3, Zenon
        <4>2. Granted(p, StackTopPage - 1, TRUE)'
          BY <3>2, <4>1, Zenon DEF Granted, Present
        <4>3. i - 1 = Len(Segments)
          BY <1>1, <1>2, <3>3
        <4> QED BY <3>1, <4>1, <4>2, <4>3, Zenon DEF ImageInv
      <3>4. CASE ~stack
        <4>1. /\ pc'[p] = "load" /\ cursor'[p] = i + 1
              /\ page = Segments[i].page /\ (write <=> Segments[i].write)
          BY <2>1, <3>4, Zenon
        <4>2. Granted(p, Segments[i].page, Segments[i].write)'
          BY <3>2, <4>1, Zenon DEF Granted, Present
        <4>3. \A j \in 1 .. (i + 1) - 1 : j \in 1 .. i - 1 \/ j = i
          BY <1>2
        <4>4. \A j \in 1 .. (i + 1) - 1 : Granted(p, Segments[j].page, Segments[j].write)'
          BY <3>1, <4>2, <4>3, Zenon
        <4> QED BY <4>1, <4>4, Zenon DEF ImageInv, Running
      <3> QED BY <3>3, <3>4, Zenon
    <2> HIDE DEF place, at, page, write
    <2> QED BY <1>0, <1>5, <1>9, <2>2, <2>3, Maps, Zenon
  <1> QED BY <1>7, <1>8, <1>9, Zenon

\* The window in bytes, and the breaks below it
LEMMA BreakFacts ==
    ASSUME NEW b \in HeapStart .. Window * PAGE
    PROVE  /\ b \in Int /\ 0 <= b /\ Window * PAGE = PAGE * Window
           /\ b \div PAGE \in 0 .. Window
           /\ RoundUpPage(b) \in Int /\ RoundUpPage(b) <= Window
           /\ b \div PAGE <= RoundUpPage(b)
  <1>0. PAGE \in Nat \ {0} /\ Window \in Nat /\ HeapPage \in Nat
    BY LayoutFacts, Zenon
  <1>1. /\ PAGE * Window \in Int /\ Window * PAGE = PAGE * Window
        /\ HeapPage * PAGE \in Int /\ 0 <= HeapPage * PAGE
    BY <1>0, MulOrder
  <1>2. b \in Int /\ 0 <= b /\ b <= PAGE * Window
    BY <1>1 DEF HeapStart
  <1>3. /\ RoundUpPage(b) \in Int /\ RoundUpPage(b) <= Window
        /\ b \div PAGE \in Int /\ b \div PAGE <= RoundUpPage(b)
    <2>1. Window \in Int
      BY <1>0
    <2> QED BY <1>2, <2>1, RoundUpBound, Zenon
  <1>4. 0 <= b \div PAGE
    <2>1. 0 \div PAGE = 0
      BY <1>0, DivUnique
    <2> QED BY <1>0, <1>2, <2>1, DivOrder
  <1> QED BY <1>0, <1>1, <1>2, <1>3, <1>4

\* SYS_SBRK accepts an increment and starts at the page of the old break.
LEMMA SbrkInv ==
    ASSUME SpaceInv, NEW p \in Processes, NEW increment \in Increments, SYS_SBRK(p, increment)
    PROVE  SpaceInv'
  <1>b. PICK b \in HeapStart .. Window * PAGE : b = brk[p]
    BY InvParts, Zenon
  <1>i. increment \in Nat
    BY LayoutAssumption, Zenon
  <1> DEFINE g == b + increment
  <1>0. /\ panicked = None /\ pc[p] = "run" /\ RoundUpPage(g) <= Window
        /\ goal' = [goal EXCEPT ![p] = g] /\ Goto(p, "sbrk", b \div PAGE)
        /\ UNCHANGED <<free, dirs, tables, leaf, brk, panicked>>
    BY <1>b, Zenon DEF SYS_SBRK, At
  <1>1. /\ b \in Int /\ 0 <= b /\ b \div PAGE \in 0 .. Window
        /\ RoundUpPage(b) \in Int /\ b \div PAGE <= RoundUpPage(b)
        /\ Window * PAGE = PAGE * Window
    BY BreakFacts, Zenon
  <1>2. g \in HeapStart .. Window * PAGE
    <2>0. HeapStart \in Int /\ Window \in Int /\ PAGE * Window \in Int
      BY LayoutFacts, MulOrder DEF HeapStart
    <2>1. g \in Int /\ HeapStart <= g
      BY <1>i, <1>1, <2>0
    <2>2. g <= PAGE * Window
      BY <1>0, <2>0, <2>1, RoundUpBound, Zenon
    <2> QED BY <1>1, <2>0, <2>1, <2>2
  <1> HIDE DEF g
  <1>3. goal' \in [Processes -> HeapStart .. Window * PAGE]
    BY <1>0, <1>2, InvParts, Zenon
  <1>4. TablesInv' /\ OthersKept(p) /\ PagesKept
    BY <1>0, InvParts, SpacesKept, Zenon
  <1>5. HeapInv'
    BY <1>0, <1>4, InvParts, HeapKept, Zenon
  <1>6. ProgressInv(p)'
    <2>1. pc'[p] = "sbrk" /\ cursor'[p] = b \div PAGE
      BY <1>0, InvParts, Zenon DEF Goto
    <2>2. ASSUME NEW page \in HeapPage .. (b \div PAGE) - 1 PROVE Granted(p, page, TRUE)'
      <3>1. page \in HeapPage .. RoundUpPage(brk[p]) - 1
        BY <1>b, <1>1, LayoutFacts
      <3>2. Granted(p, page, TRUE) /\ page \in Pages
        BY <3>1, InvParts, Zenon DEF HeapInv, Granted, Present
      <3> QED BY <1>4, <3>2, Zenon DEF PagesKept
    <2> QED BY <2>1, <2>2, Zenon DEF ProgressInv
  <1>7. "sbrk" \in Places /\ pc[p] \in Running /\ "sbrk" # "load"
    BY <1>0, Zenon DEF Places, Running
  <1> QED BY <1>0, <1>1, <1>3, <1>4, <1>5, <1>6, <1>7, InvParts, StepInv, Zenon

\* SYS_SBRK maps one page, or gives up with the break where it was.
LEMMA SbrkPageInv ==
    ASSUME SpaceInv, NEW p \in Processes, SbrkPage(p)
    PROVE  SpaceInv'
  <1>c. PICK c \in 0 .. Window : c = cursor[p]
    BY InvParts, Zenon
  <1>0. /\ panicked = None /\ pc[p] = "sbrk" /\ c < RoundUpPage(goal[p])
        /\ brk' = brk /\ goal' = goal
    BY <1>c, Zenon DEF SbrkPage, At
  <1>1. RoundUpPage(goal[p]) \in Int /\ RoundUpPage(goal[p]) <= Window
    BY InvParts, BreakFacts, Zenon
  <1>2. c \in Pages /\ c + 1 \in 0 .. Window /\ c \in Int /\ (c + 1) - 1 = c
    BY <1>0, <1>1, LayoutFacts DEF Pages
  <1>3. \A page \in HeapPage .. c - 1 : Granted(p, page, TRUE)
    BY <1>0, <1>c, Zenon DEF SpaceInv, ProgressInv
  <1>4. /\ "sbrk" \in Places /\ "sbrk" \in Panics \ {None}
        /\ pc[p] \in Running /\ "sbrk" # "load"
    BY <1>0, Zenon DEF Places, Panics, None, Running
  \* the loop is one page further if that page is there and writable
  <1>5. ASSUME Goto(p, "sbrk", c + 1), PagesKept, HeapPage <= c => Granted(p, c, TRUE)'
        PROVE  ProgressInv(p)'
    <2>1. pc'[p] = "sbrk" /\ cursor'[p] = c + 1
      BY <1>5, InvParts, Zenon DEF Goto
    <2>2. ASSUME NEW page \in HeapPage .. (c + 1) - 1 PROVE Granted(p, page, TRUE)'
      <3>1. CASE page = c
        <4>1. HeapPage <= c
          BY <1>2, <3>1, LayoutFacts
        <4>2. Granted(p, c, TRUE)'
          BY <1>5, <4>1, Zenon
        <4> QED BY <3>1, <4>2, Zenon DEF Granted, Present
      <3>2. CASE page # c
        <4>1. page \in HeapPage .. c - 1
          BY <1>2, <3>2, LayoutFacts
        <4>2. Granted(p, page, TRUE) /\ page \in Pages
          BY <1>3, <4>1, Zenon DEF Granted, Present
        <4> QED BY <1>5, <4>2, Zenon DEF PagesKept
      <3> QED BY <3>1, <3>2, Zenon
    <2> QED BY <2>1, <2>2, Zenon DEF ProgressInv
  <1>6. CASE /\ vmm_page_present(p, Private + c) /\ Goto(p, "sbrk", c + 1)
             /\ UNCHANGED <<free, dirs, tables, leaf, panicked>>
    <2>1. TablesInv' /\ OthersKept(p) /\ PagesKept
      BY <1>6, InvParts, SpacesKept, Zenon
    <2>2. HeapInv'
      BY <1>0, <2>1, InvParts, HeapKept, Zenon
    <2>3. HeapPage <= c => Granted(p, c, TRUE)
      <3>1. Present(p, c)
        BY <1>2, <1>6, WindowWalk, Zenon
      <3>2. HeapPage <= c => c >= HeapPage
        BY <1>2, LayoutFacts
      <3> QED BY <1>2, <3>1, <3>2, InvParts, Zenon DEF TablesInv, LeafInv, Granted, Present
    <2>4. HeapPage <= c => Granted(p, c, TRUE)'
      BY <1>2, <2>1, <2>3, Zenon DEF PagesKept
    <2>5. ProgressInv(p)'
      BY <1>5, <1>6, <2>1, <2>4, Zenon
    <2> QED BY <1>0, <1>2, <1>4, <1>6, <2>1, <2>2, <2>5, InvParts, StepInv, Zenon
  <1>7. CASE /\ ~vmm_page_present(p, Private + c) /\ free # {}
             /\ MapFresh(p, c, TRUE, "sbrk") /\ Goto(p, "sbrk", c + 1)
    <2>1. Refused("sbrk") \/ MapDone(p, c, TRUE)
      BY <1>2, <1>7, InvParts, NotPresent, FreshStep, Zenon
    <2>2. CASE Refused("sbrk")
      BY <1>0, <1>2, <1>4, <1>7, <2>2, Halts, Zenon
    <2>3. CASE MapDone(p, c, TRUE)
      <3>1. ProgressInv(p)'
        BY <1>5, <1>7, <2>3, Zenon DEF MapDone
      <3> QED BY <1>0, <1>2, <1>4, <1>7, <2>3, <3>1, Maps, Zenon
    <2> QED BY <2>1, <2>2, <2>3, Zenon
  <1>8. CASE Goto(p, "run", 0) /\ UNCHANGED <<free, dirs, tables, leaf, panicked>>
    BY <1>0, <1>4, <1>8, MoveOn, Zenon
  <1> QED BY <1>c, <1>6, <1>7, <1>8, Zenon DEF SbrkPage

\* SYS_SBRK moves the break once all pages below it are mapped.
LEMMA SbrkDoneInv ==
    ASSUME SpaceInv, NEW p \in Processes, SbrkDone(p)
    PROVE  SpaceInv'
  <1>0. /\ panicked = None /\ pc[p] = "sbrk" /\ cursor[p] >= RoundUpPage(goal[p])
        /\ brk' = [brk EXCEPT ![p] = goal[p]] /\ Goto(p, "run", 0)
        /\ UNCHANGED <<free, dirs, tables, leaf, goal, panicked>>
    BY Zenon DEF SbrkDone, At
  <1>1. TablesInv' /\ OthersKept(p) /\ PagesKept
    BY <1>0, InvParts, SpacesKept, Zenon
  <1>2. brk' \in [Processes -> HeapStart .. Window * PAGE]
    BY <1>0, InvParts, Zenon
  <1>3. HeapInv'
    <2> SUFFICES ASSUME NEW q \in Processes, NEW page \in HeapPage .. RoundUpPage(brk'[q]) - 1
                 PROVE  Granted(q, page, TRUE)'
      BY Zenon DEF HeapInv, RoundUpPage
    <2>1. Granted(q, page, TRUE)
      <3>1. CASE q = p
        <4>1. brk'[q] = goal[p] /\ RoundUpPage(goal[p]) \in Int /\ cursor[p] \in Int
          BY <1>0, <3>1, InvParts, BreakFacts
        <4>2. page \in HeapPage .. cursor[p] - 1
          BY <1>0, <4>1, LayoutFacts
        <4> QED BY <1>0, <3>1, <4>2, Zenon DEF SpaceInv, ProgressInv
      <3>2. CASE q # p
        <4>1. brk'[q] = brk[q]
          BY <1>0, <3>2, InvParts, Zenon
        <4> QED BY <4>1, InvParts, Zenon DEF HeapInv
      <3> QED BY <3>1, <3>2, Zenon
    <2>2. page \in Pages
      BY <2>1, Zenon DEF Granted, Present
    <2> QED BY <1>1, <2>1, <2>2, Zenon DEF PagesKept
  <1>4. ProgressInv(p)'
    BY <1>0, InvParts, Zenon DEF Goto, ProgressInv
  <1>5. 0 \in 0 .. Window /\ "run" \in Places /\ pc[p] \in Running /\ "run" # "load"
    BY <1>0, LayoutFacts DEF Places, Running
  <1> QED BY <1>0, <1>1, <1>2, <1>3, <1>4, <1>5, InvParts, StepInv, Zenon

\* SYS_FB_MAP: the call, and each page it maps.
LEMMA FbInv ==
    ASSUME SpaceInv, NEW p \in Processes, SYS_FB_MAP(p) \/ FbMapPage(p)
    PROVE  SpaceInv'
  <1>c. PICK c \in 0 .. Window : c = cursor[p]
    BY InvParts, Zenon
  <1> DEFINE page == FbPage + c
  <1>1. CASE SYS_FB_MAP(p)
    <2>0. /\ panicked = None /\ pc[p] = "run" /\ Goto(p, "fb", 0)
          /\ UNCHANGED <<free, dirs, tables, leaf, brk, goal, panicked>>
      BY <1>1, Zenon DEF SYS_FB_MAP, At
    <2>1. TablesInv' /\ OthersKept(p) /\ PagesKept
      BY <2>0, InvParts, SpacesKept, Zenon
    <2>2. HeapInv'
      BY <2>0, <2>1, InvParts, HeapKept, Zenon
    <2>3. ProgressInv(p)'
      BY <2>0, InvParts, LayoutFacts DEF Goto, ProgressInv
    <2>4. 0 \in 0 .. Window /\ "fb" \in Places /\ pc[p] \in Running /\ "fb" # "load"
      BY <2>0, LayoutFacts DEF Places, Running
    <2> QED BY <2>0, <2>1, <2>2, <2>3, <2>4, InvParts, StepInv, Zenon
  <1>2. CASE FbMapPage(p)
    <2>0. /\ panicked = None /\ pc[p] = "fb" /\ brk' = brk /\ goal' = goal
          /\ IF c = FbPages \/ vmm_page_present(p, Private + page)
             THEN UNCHANGED <<free, dirs, tables, leaf, panicked>>
             ELSE vmm_map_page(p, page, FbFrame(c), TRUE, free, "fb")
          /\ IF c = FbPages THEN Goto(p, "run", 0) ELSE Goto(p, "fb", c + 1)
      BY <1>2, <1>c, Zenon DEF FbMapPage, At
    <2>1. c \in 0 .. FbPages
      BY <2>0, <1>c, Zenon DEF SpaceInv, ProgressInv
    <2>2. CASE c = FbPages
      <3> HIDE DEF page
      <3>1. pc[p] \in Running
        BY <2>0, Zenon DEF Running
      <3> QED BY <2>0, <2>2, <3>1, MoveOn, Zenon
    <2>3. CASE c # FbPages
      <3>0. /\ c \in 0 .. FbPages - 1 /\ page \in Pages
            /\ c + 1 \in 0 .. FbPages /\ c + 1 \in 0 .. Window
        BY <2>1, <2>3, LayoutFacts DEF Pages
      <3>1. /\ "fb" \in Places /\ "fb" \in Panics \ {None} /\ Goto(p, "fb", c + 1)
            /\ pc[p] \in Running /\ "fb" # "load"
        BY <2>0, <2>3, Zenon DEF Places, Panics, None, Running
      <3>2. ProgressInv(p)'
        <4>1. pc'[p] = "fb" /\ cursor'[p] = c + 1
          BY <3>1, InvParts, Zenon DEF Goto
        <4> QED BY <3>0, <4>1, Zenon DEF ProgressInv
      <3>3. CASE vmm_page_present(p, Private + page)
        <4>1. UNCHANGED <<free, dirs, tables, leaf, panicked>>
          BY <2>0, <3>3, Zenon
        <4>2. TablesInv' /\ OthersKept(p) /\ PagesKept
          BY <4>1, InvParts, SpacesKept, Zenon
        <4>3. HeapInv'
          BY <2>0, <4>2, InvParts, HeapKept, Zenon
        <4> QED BY <2>0, <3>0, <3>1, <3>2, <4>1, <4>2, <4>3, InvParts, StepInv, Zenon
      <3>4. CASE ~vmm_page_present(p, Private + page)
        <4> HIDE DEF page
        <4>1. Refused("fb") \/ MapDone(p, page, TRUE)
          BY <2>0, <2>3, <3>0, <3>4, InvParts, NotPresent, FramebufferStep, Zenon
        <4>2. CASE Refused("fb")
          BY <2>0, <3>0, <3>1, <4>2, Halts, Zenon
        <4>3. CASE MapDone(p, page, TRUE)
          BY <2>0, <3>0, <3>1, <3>2, <4>3, Maps, Zenon
        <4> QED BY <4>1, <4>2, <4>3, Zenon
      <3> QED BY <3>3, <3>4, Zenon
    <2> QED BY <2>2, <2>3, Zenon
  <1> QED BY <1>1, <1>2, Zenon

\* elf_handle_stack_fault() maps the page or ends the process.
LEMMA FaultInv ==
    ASSUME SpaceInv, NEW p \in Processes, NEW page \in Pages, elf_handle_stack_fault(p, page)
    PROVE  SpaceInv'
  <1>0. /\ panicked = None /\ pc[p] = "run" /\ ~vmm_page_present(p, Private + page)
        /\ brk' = brk /\ goal' = goal
        /\ pc[p] \in Running /\ "run" # "load"
    BY Zenon DEF elf_handle_stack_fault, At, Running
  <1>1. CASE MapFresh(p, page, TRUE, "stack") /\ free # {} /\ UNCHANGED <<pc, cursor>>
    <2>1. Refused("stack") \/ MapDone(p, page, TRUE)
      BY <1>0, <1>1, InvParts, NotPresent, FreshStep, Zenon
    <2>c. PICK c \in 0 .. Window : c = cursor[p]
      BY InvParts, Zenon
    <2>2. Goto(p, "run", c) /\ "run" \in Places /\ "stack" \in Panics \ {None}
      <3>1. pc' = [pc EXCEPT ![p] = "run"]
        BY <1>0, <1>1, InvParts, Zenon
      <3>2. cursor' = [cursor EXCEPT ![p] = c]
        BY <1>1, <2>c, InvParts, Zenon
      <3> QED BY <3>1, <3>2, Zenon DEF Goto, Places, Panics, None
    <2>3. CASE Refused("stack")
      BY <1>0, <2>2, <2>3, Halts, Zenon
    <2>4. CASE MapDone(p, page, TRUE)
      <3>1. ProgressInv(p)'
        BY <1>0, <1>1, Zenon DEF ProgressInv
      <3> QED BY <1>0, <2>2, <2>4, <3>1, Maps, Zenon
    <2> QED BY <2>1, <2>3, <2>4, Zenon
  <1>2. CASE Goto(p, "dead", 0) /\ UNCHANGED <<free, dirs, tables, leaf, panicked>>
    BY <1>0, <1>2, MoveOn, Zenon
  <1> QED BY <1>1, <1>2, Zenon DEF elf_handle_stack_fault

\* A system call that checks a buffer maps nothing.
LEMMA BufferInv ==
    ASSUME SpaceInv, NEW p \in Processes, NEW vaddr, NEW len, BufferSyscall(p, vaddr, len)
    PROVE  SpaceInv'
  <1>0. /\ panicked = None /\ UNCHANGED <<free, dirs, tables, leaf, brk, pc, cursor, goal>>
        /\ panicked' \in {None, "buffer"}
    BY Zenon DEF BufferSyscall, At, panic
  <1>1. TablesInv'
    BY <1>0, InvParts, SpacesKept, Zenon
  <1>2. TypeOK' /\ HeapInv'
    BY <1>0, InvParts, Zenon DEF TypeOK, HeapInv, Granted, Present
  <1>3. \A q \in Processes : ProgressInv(q)'
    BY <1>0, Zenon DEF SpaceInv, ProgressInv, Granted, Present
  <1>4. \A q \in Processes : ImageInv(q)'
    BY <1>0, Zenon DEF SpaceInv, ImageInv, Granted, Present
  <1> QED BY <1>1, <1>2, <1>3, <1>4, Zenon DEF SpaceInv, TablesInv

\* A step that changes nothing.
LEMMA Stutters ==
    ASSUME SpaceInv, UNCHANGED vars
    PROVE  SpaceInv'
  <1>1. TypeOK' /\ HeapInv' /\ PoolInv' /\ UseInv' /\ LeafInv'
    BY Zenon DEF SpaceInv, vars, TypeOK, HeapInv, Granted, Present, PoolInv, UseInv, LeafInv
  <1>2. panicked' = None => \A q \in Processes : ProgressInv(q)'
    BY ZenonT(60) DEF SpaceInv, vars, ProgressInv, Granted, Present
  <1>3. panicked' = None => \A q \in Processes : ImageInv(q)'
    BY ZenonT(60) DEF SpaceInv, vars, ImageInv, Granted, Present
  <1> QED BY <1>1, <1>2, <1>3, Zenon DEF SpaceInv

\* Every operation keeps the invariant.
THEOREM SpaceInvariant == Spec => []SpaceInv
  <1>1. ASSUME SpaceInv, [Next]_vars PROVE SpaceInv'
    <2>1. ASSUME NEW p \in Processes, vmm_create_address_space(p) PROVE SpaceInv'
      BY <1>1, <2>1, CreateInv, Zenon
    <2>2. ASSUME NEW p \in Processes, LoadPage(p) PROVE SpaceInv'
      BY <1>1, <2>2, LoadInv, Zenon
    <2>3. ASSUME NEW p \in Processes, NEW increment \in Increments, SYS_SBRK(p, increment)
          PROVE  SpaceInv'
      BY <1>1, <2>3, SbrkInv, Zenon
    <2>4. ASSUME NEW p \in Processes, SbrkPage(p) PROVE SpaceInv'
      BY <1>1, <2>4, SbrkPageInv, Zenon
    <2>5. ASSUME NEW p \in Processes, SbrkDone(p) PROVE SpaceInv'
      BY <1>1, <2>5, SbrkDoneInv, Zenon
    <2>6. ASSUME NEW p \in Processes, SYS_FB_MAP(p) \/ FbMapPage(p) PROVE SpaceInv'
      BY <1>1, <2>6, FbInv, Zenon
    <2>7. ASSUME NEW p \in Processes, NEW page \in Pages, elf_handle_stack_fault(p, page)
          PROVE  SpaceInv'
      BY <1>1, <2>7, FaultInv, Zenon
    <2>8. ASSUME NEW p \in Processes, Exit(p) PROVE SpaceInv'
      <3>1. /\ panicked = None /\ pc[p] \in Running /\ Goto(p, "dead", 0)
            /\ UNCHANGED <<free, dirs, tables, leaf, brk, goal, panicked>>
        BY <2>8, Zenon DEF Exit, At, Running
      <3> QED BY <1>1, <3>1, MoveOn, Zenon
    <2>9. ASSUME NEW p \in Processes, NEW vaddr \in 0 .. Window * PAGE - 1, NEW len \in Lengths,
                 BufferSyscall(p, vaddr, len)
          PROVE  SpaceInv'
      BY <1>1, <2>9, BufferInv, Zenon
    <2>10. CASE Halted \/ UNCHANGED vars
      BY <1>1, <2>10, Stutters, Zenon DEF Halted
    <2> QED BY <1>1, <2>1, <2>2, <2>3, <2>4, <2>5, <2>6, <2>7, <2>8, <2>9, <2>10, Zenon DEF Next
  <1> QED BY InitInv, <1>1, PTL DEF Spec

\* However spawns, sbrks, framebuffer mappings, stack faults and exits of any
\* number of processes interleave, and wherever they run out of memory, every
\* frame pmm_alloc_page() hands out is used in exactly one place.
THEOREM FramesOnce == Spec => []FramesAccountedOnce
  <1>1. SpaceInv => FramesAccountedOnce
    BY InvParts, UsesCounted, Zenon DEF FramesAccountedOnce, TablesInv
  <1> QED BY <1>1, SpaceInvariant, PTL

\* Memory SYS_SBRK has granted is present and writable, for every layout and
\* every sequence of increments, those that failed half way included.
THEOREM HeapBacked == Spec => []BrkBacked
  <1>1. SpaceInv => BrkBacked
    <2> SUFFICES ASSUME SpaceInv, NEW p \in Processes,
                        NEW page \in HeapPage .. RoundUpPage(brk[p]) - 1
                 PROVE  Allows(p, Private + page, TRUE)
      BY Zenon DEF BrkBacked
    <2>1. Granted(p, page, TRUE) /\ page \in Pages
      BY InvParts, Zenon DEF HeapInv, Granted, Present
    <2> QED BY <2>1, WindowWalk, Zenon
  <1> QED BY <1>1, SpaceInvariant, PTL

--------------------------------------------------------------------------------
(* The pointer checks *)

\* Pages of the whole address space
Span == Aliases * SPACE

LEMMA AddressFacts ==
    /\ PAGE \in Nat \ {0} /\ Span \in Nat \ {0, 1} /\ SPACE <= Span
    /\ ADDRESSES \in Nat \ {0, 1} /\ ADDRESSES = PAGE * Span
  <1>0. PAGE \in Nat \ {0} /\ SPACE \in Nat \ {0, 1} /\ Aliases \in Nat \ {0}
    BY LayoutFacts
  <1>1. Span \in Nat \ {0, 1} /\ SPACE <= Span
    <2>1. SPACE * 1 <= SPACE * Aliases /\ SPACE * Aliases \in Int
      <3>1. SPACE \in Nat \ {0} /\ 1 \in Int /\ Aliases \in Int /\ 1 <= Aliases
        BY <1>0
      <3> QED BY <3>1, MulOrder, Zenon
    <2>2. SPACE * 1 = SPACE /\ SPACE * Aliases = Aliases * SPACE
      BY <1>0
    <2> QED BY <1>0, <2>1, <2>2 DEF Span
  <1>2. ADDRESSES = PAGE * Span
    <2>1. ADDRESSES = Span * PAGE
      BY Zenon DEF ADDRESSES, Span
    <2> HIDE DEF Span
    <2> QED BY <1>0, <1>1, <2>1
  <1>3. PAGE * 1 + PAGE <= PAGE * Span /\ PAGE * Span \in Int
    <2>1. 1 \in Int /\ Span \in Int /\ 1 < Span
      BY <1>1
    <2> QED BY <1>0, <2>1, MulOrder, Zenon
  <1> HIDE DEF Span
  <1>4. PAGE * 1 = PAGE
    BY <1>0
  <1> QED BY <1>0, <1>1, <1>2, <1>3, <1>4

\* An address wraps once, by a whole number of pages.
LEMMA Wrapped ==
    ASSUME NEW x \in Nat, x < 2 * ADDRESSES
    PROVE  /\ x < ADDRESSES => x % ADDRESSES = x
           /\ x >= ADDRESSES => x % ADDRESSES = x - ADDRESSES
           /\ x < ADDRESSES <=> x \div PAGE < Span
           /\ x \div PAGE \in Int
           /\ (x % ADDRESSES) \div PAGE
                = IF x \div PAGE < Span THEN x \div PAGE ELSE x \div PAGE - Span
  <1> DEFINE A == ADDRESSES
             q == x \div PAGE
  <1>0. PAGE \in Nat \ {0} /\ Span \in Nat /\ A \in Nat \ {0} /\ A = PAGE * Span
        /\ Span \in Int /\ x < 2 * A
    BY AddressFacts
  <1> HIDE DEF A
  <1>1. x < A => x % A = x
    <2> SUFFICES ASSUME x < A PROVE x % A = x
      BY Zenon
    <2>1. A * 0 <= x /\ x < A * 0 + A
      BY <1>0
    <2>2. x \div A = 0
      BY <1>0, <2>1, DivUnique
    <2>3. x % A = x - A * (x \div A)
      <3>1. x \in Int /\ A \in Nat \ {0}
        BY <1>0
      <3> QED BY <3>1, DivIs, Zenon
    <2> QED BY <1>0, <2>2, <2>3
  <1>2. x >= A => x % A = x - A
    <2> SUFFICES ASSUME x >= A PROVE x % A = x - A
      BY Zenon
    <2>1. A * 1 <= x /\ x < A * 1 + A
      BY <1>0
    <2>2. x \div A = 1
      BY <1>0, <2>1, DivUnique
    <2>3. x % A = x - A * (x \div A)
      <3>1. x \in Int /\ A \in Nat \ {0}
        BY <1>0
      <3> QED BY <3>1, DivIs, Zenon
    <2> QED BY <1>0, <2>2, <2>3
  <1>3. q \in Int /\ PAGE * q <= x /\ x < PAGE * q + PAGE
    BY <1>0, DivIs
  <1> HIDE DEF q
  <1>4. /\ PAGE * q \in Int
        /\ q < Span => PAGE * q + PAGE <= A
        /\ Span <= q => A <= PAGE * q
    BY <1>0, <1>3, MulOrder, Zenon
  <1>5. x < A <=> q < Span
    BY <1>0, <1>3, <1>4
  <1>6. x >= A => (x - A) \div PAGE = q - Span
    <2> SUFFICES ASSUME x >= A PROVE (x - A) \div PAGE = q - Span
      BY Zenon
    <2>1. q - Span \in Int /\ PAGE * (q - Span) = PAGE * q - PAGE * Span
      BY <1>0, <1>3
    <2>2. x - A \in Int /\ PAGE * (q - Span) <= x - A
          /\ x - A < PAGE * (q - Span) + PAGE
      BY <1>0, <1>3, <1>4, <2>1
    <2> QED BY <1>0, <2>1, <2>2, DivUnique, Zenon
  <1>7. (x % A) \div PAGE = IF q < Span THEN q ELSE q - Span
    <2>1. CASE x < A
      BY <1>1, <1>5, <2>1, Zenon DEF q
    <2>2. CASE x >= A
      <3>1. ~(q < Span)
        BY <1>0, <1>5, <2>2
      <3> QED BY <1>2, <1>6, <2>2, <3>1, Zenon
    <2> QED BY <1>0, <2>1, <2>2
  <1> QED BY <1>1, <1>2, <1>3, <1>5, <1>7, Zenon DEF A, q

\* The pages of a range are exactly the pages of its bytes.
LEMMA RangePages ==
    ASSUME NEW v \in Nat, NEW n \in Nat \ {0}, NEW q \in Int
    PROVE  q \in v \div PAGE .. RoundUpPage(v + n) - 1
             <=> \E k \in 0 .. n - 1 : (v + k) \div PAGE = q
  <1> DEFINE lo == v \div PAGE
             hi == (v + n - 1) \div PAGE
  <1>0. PAGE \in Nat \ {0} /\ v + n - 1 \in Int /\ v + n + PAGE - 1 \in Int
    BY LayoutFacts
  <1>1. lo \in Int /\ PAGE * lo <= v /\ v < PAGE * lo + PAGE
    BY <1>0, DivIs
  <1>2. hi \in Int /\ PAGE * hi <= v + n - 1 /\ v + n - 1 < PAGE * hi + PAGE
    BY <1>0, DivIs, Zenon
  <1>3. RoundUpPage(v + n) - 1 = hi
    <2> HIDE DEF hi
    <2>1. hi + 1 \in Int /\ PAGE * (hi + 1) = PAGE * hi + PAGE /\ PAGE * hi \in Int
      BY <1>0, <1>2, MulOrder
    <2>2. PAGE * (hi + 1) <= v + n + PAGE - 1 /\ v + n + PAGE - 1 < PAGE * (hi + 1) + PAGE
      BY <1>0, <1>2, <2>1
    <2>3. (v + n + PAGE - 1) \div PAGE = hi + 1
      BY <1>0, <2>1, <2>2, DivUnique, Zenon
    <2> QED BY <1>2, <2>3 DEF RoundUpPage
  <1>4. ASSUME NEW k \in 0 .. n - 1, (v + k) \div PAGE = q PROVE lo <= q /\ q <= hi
    <2>1. v + k \in Int /\ v <= v + k /\ v + k <= v + n - 1
      OBVIOUS
    <2> QED BY <1>0, <1>4, <2>1, DivOrder
  <1>5. ASSUME lo <= q, q <= hi PROVE \E k \in 0 .. n - 1 : (v + k) \div PAGE = q
    <2>1. CASE q = lo
      <3>1. 0 \in 0 .. n - 1 /\ v + 0 = v
        OBVIOUS
      <3> QED BY <2>1, <3>1, Zenon
    <2>2. CASE q # lo
      <3> HIDE DEF lo, hi
      <3>1. lo < q
        BY <1>1, <1>5, <2>2
      <3>2. /\ PAGE * q \in Int /\ PAGE * lo \in Int /\ PAGE * hi \in Int
            /\ PAGE * lo + PAGE <= PAGE * q /\ PAGE * q <= PAGE * hi
        BY <1>0, <1>1, <1>2, <1>5, <3>1, MulOrder, Zenon
      <3>3. PAGE * q - v \in 0 .. n - 1 /\ v + (PAGE * q - v) = PAGE * q
        BY <1>0, <1>1, <1>2, <3>2
      <3>4. (PAGE * q) \div PAGE = q
        BY <1>0, <3>2, DivUnique
      <3> QED BY <3>3, <3>4, Zenon
    <2> QED BY <2>1, <2>2, Zenon
  <1> HIDE DEF hi
  <1>6. q \in lo .. hi <=> lo <= q /\ q <= hi
    BY <1>1, <1>2
  <1> QED BY <1>3, <1>4, <1>5, <1>6, Zenon

\* What vmm_check_range() decides: the range does not run off the end of the
\* address space, and each byte of it may be used.
LEMMA CheckRange ==
    ASSUME NEW p \in Processes, NEW vaddr \in 0 .. ADDRESSES - 1,
           NEW len \in 0 .. ADDRESSES - 1, NEW write \in BOOLEAN
    PROVE  vmm_check_range(p, vaddr, len, write)
             <=> \/ len = 0
                 \/ /\ vaddr + len < ADDRESSES
                    /\ \A k \in 0 .. len - 1 : Allows(p, (vaddr + k) \div PAGE, write)
  <1> DEFINE A == ADDRESSES
             end == (vaddr + len) % A
  <1>0. A \in Nat \ {0, 1}
    BY AddressFacts, Zenon
  <1>a. /\ vaddr \in Nat /\ len \in Nat /\ vaddr < A /\ len < A
        /\ vaddr + len \in Nat /\ vaddr + len < 2 * A
    BY <1>0
  <1>1. CASE len = 0
    BY <1>1, Zenon DEF vmm_check_range
  <1>2. CASE len # 0 /\ vaddr + len < A
    <2>1. end = vaddr + len
      BY <1>a, <1>2, Wrapped, Zenon
    <2>2. vmm_check_range(p, vaddr, len, write)
            <=> \A page \in vaddr \div PAGE .. RoundUpPage(vaddr + len) - 1 : Allows(p, page, write)
      <3>1. vmm_check_range(p, vaddr, len, write)
              <=> end >= vaddr
                  /\ \A page \in vaddr \div PAGE .. RoundUpPage(end) - 1 : Allows(p, page, write)
        BY <1>2, Zenon DEF vmm_check_range
      <3>2. vaddr + len >= vaddr
        BY <1>a
      <3> QED BY <2>1, <3>1, <3>2, Zenon
    <2>3. \A k \in 0 .. len - 1 : (vaddr + k) \div PAGE \in Int
      <3> SUFFICES ASSUME NEW k \in 0 .. len - 1 PROVE (vaddr + k) \div PAGE \in Int
        BY Zenon
      <3>1. vaddr + k \in Int /\ PAGE \in Nat \ {0}
        BY <1>a, LayoutFacts
      <3> QED BY <3>1, DivIs, Zenon
    <2>4. \A q \in Int : q \in vaddr \div PAGE .. RoundUpPage(vaddr + len) - 1
                           <=> \E k \in 0 .. len - 1 : (vaddr + k) \div PAGE = q
      <3>1. len \in Nat \ {0}
        BY <1>a, <1>2
      <3> QED BY <1>a, <3>1, RangePages, Zenon
    <2>5. \A q \in vaddr \div PAGE .. RoundUpPage(vaddr + len) - 1 : q \in Int
      OBVIOUS
    <2> QED BY <1>2, <2>2, <2>3, <2>4, <2>5, Zenon
  <1>3. CASE len # 0 /\ ~(vaddr + len < A)
    <2>1. end = vaddr + len - A /\ ~(end >= vaddr)
      <3>1. end = vaddr + len - A
        <4>1. PICK x \in Nat : x = vaddr + len
          BY <1>a, Zenon
        <4>2. x < 2 * A /\ x >= A
          BY <1>0, <1>a, <1>3, <4>1
        <4>3. x % A = x - A
          BY <4>2, Wrapped, Zenon
        <4>4. end = x % A
          BY <4>1, Zenon
        <4> HIDE DEF end
        <4> QED BY <1>0, <1>a, <4>1, <4>3, <4>4
      <3> HIDE DEF end
      <3> QED BY <1>0, <1>a, <3>1
    <2> QED BY <1>3, <2>1, Zenon DEF vmm_check_range
  <1> QED BY <1>1, <1>2, <1>3, Zenon

\* An accepted range does not wrap, and may be used to the last byte.
LEMMA AcceptedBytes ==
    ASSUME NEW p \in Processes, NEW vaddr \in 0 .. ADDRESSES - 1,
           NEW len \in 0 .. ADDRESSES - 1, NEW write \in BOOLEAN,
           vmm_check_range(p, vaddr, len, write), NEW k \in 0 .. len - 1
    PROVE  Allows(p, ((vaddr + k) % ADDRESSES) \div PAGE, write)
  <1>0. ADDRESSES \in Nat
    BY AddressFacts, Zenon
  <1>1. len # 0
    BY <1>0
  <1>2. vaddr + len < ADDRESSES /\ Allows(p, (vaddr + k) \div PAGE, write)
    BY <1>1, CheckRange, Zenon
  <1>3. vaddr + k \in Nat /\ vaddr + k < ADDRESSES /\ vaddr + k < 2 * ADDRESSES
    BY <1>0, <1>2
  <1>4. (vaddr + k) % ADDRESSES = vaddr + k
    BY <1>3, Wrapped, Zenon
  <1> QED BY <1>2, <1>4, Zenon

\* What copy_user_string() tests covers every byte it reads.
LEMMA StringChecksCover ==
    ASSUME NEW p \in Processes, NEW vaddr \in 0 .. ADDRESSES - 1,
           NEW len \in 0 .. ADDRESSES - 1, copy_user_string(p, vaddr, len),
           NEW k \in 0 .. len
    PROVE  Allows(p, ((vaddr + k) % ADDRESSES) \div PAGE, FALSE)
  <1> DEFINE A == ADDRESSES
             x == vaddr + k
             r == x % PAGE
             i == IF r <= k THEN k - r ELSE 0
             y == vaddr + i
             q == x \div PAGE
  <1>0. PAGE \in Nat \ {0} /\ A \in Nat \ {0, 1}
    BY AddressFacts, Zenon
  <1>1. x \in Nat /\ k \in Nat /\ vaddr \in Nat /\ x < 2 * A /\ k <= len
    BY <1>0
  <1>2. /\ q \in Int /\ PAGE * q <= x /\ x < PAGE * q + PAGE
        /\ r \in 0 .. PAGE - 1 /\ r = x - PAGE * q
    <2>1. x \in Int /\ PAGE \in Nat \ {0}
      BY <1>0, <1>1
    <2> HIDE DEF x
    <2> QED BY <2>1, DivIs, Zenon
  <1>3. PAGE * q \in Int
    BY <1>0, <1>2, MulOrder, Zenon
  <1> HIDE DEF r, q
  <1>4. i \in 0 .. k /\ y \in Nat /\ y <= x /\ y < 2 * A /\ PAGE * q <= y /\ (r <= k => y = PAGE * q)
    BY <1>0, <1>1, <1>2, <1>3
  <1>5. y \div PAGE = q
    BY <1>0, <1>1, <1>2, <1>3, <1>4, DivUnique
  <1>6. y % PAGE = 0 \/ i = 0
    <2>1. CASE r <= k
      <3>1. y % PAGE = y - PAGE * (y \div PAGE)
        <4>1. y \in Int /\ PAGE \in Nat \ {0}
          BY <1>0, <1>4
        <4> HIDE DEF y
        <4> QED BY <4>1, DivIs, Zenon
      <3> QED BY <1>3, <1>4, <1>5, <2>1, <3>1
    <2>2. CASE ~(r <= k)
      BY <2>2, Zenon
    <2> QED BY <2>1, <2>2, Zenon
  <1>7. vmm_check_range(p, y % A, 1, FALSE)
    <2>1. i \in 0 .. len
      BY <1>1, <1>4
    <2> HIDE DEF i
    <2> QED BY <1>6, <2>1, Zenon DEF copy_user_string
  <1>8. y % A \in 0 .. A - 1 /\ y % A \in Nat /\ y % A < 2 * A /\ (y % A) % A = y % A
    <2>1. y % A \in 0 .. A - 1
      <3>1. y \in Int /\ A \in Nat \ {0}
        BY <1>0, <1>4
      <3> HIDE DEF y, A
      <3> QED BY <3>1, DivIs, Zenon
    <2>2. y % A \in Nat /\ y % A < A /\ y % A < 2 * A
      BY <1>0, <2>1
    <2> QED BY <2>1, <2>2, Wrapped, Zenon
  <1>9. Allows(p, (y % A) \div PAGE, FALSE)
    <2> DEFINE z == y % A
    <2>0. z \in 0 .. A - 1 /\ z % A = z /\ z \in Nat /\ 1 \in 0 .. A - 1
      BY <1>0, <1>8
    <2> HIDE DEF z
    <2>1. vmm_check_range(p, z, 1, FALSE)
      BY <1>7, Zenon DEF z
    <2>2. \A j \in 0 .. 1 - 1 : Allows(p, ((z + j) % A) \div PAGE, FALSE)
      BY <2>0, <2>1, AcceptedBytes, Zenon
    <2>3. 0 \in 0 .. 1 - 1 /\ z + 0 = z
      BY <2>0
    <2>4. Allows(p, ((z + 0) % A) \div PAGE, FALSE)
      BY <2>2, <2>3, Zenon
    <2>5. Allows(p, z \div PAGE, FALSE)
      BY <2>0, <2>3, <2>4, Zenon
    <2> QED BY <2>5, Zenon DEF z
  <1>10. (y % A) \div PAGE = (x % A) \div PAGE
    <2>1. (y % A) \div PAGE = IF y \div PAGE < Span THEN y \div PAGE ELSE y \div PAGE - Span
      BY <1>4, Wrapped, Zenon
    <2>2. (x % A) \div PAGE = IF x \div PAGE < Span THEN x \div PAGE ELSE x \div PAGE - Span
      BY <1>1, Wrapped, Zenon
    <2> QED BY <1>5, <2>1, <2>2, Zenon DEF q
  <1> QED BY <1>9, <1>10, Zenon

\* A page that passes the tests is the program's to use.
LEMMA AllowedIsReachable ==
    ASSUME SpaceInv, NEW p \in Processes, NEW vpage, NEW write, Allows(p, vpage, write)
    PROVE  Reachable(p, vpage) /\ (write => walk_to_leaf(p, vpage).write)
  <1> DEFINE page == vpage % SPACE
             own == page - Private
             entry == walk_to_leaf(p, vpage)
             f == leaf[p][own].frame
  <1>0. entry # Absent /\ entry.user /\ (write => entry.write)
    BY Zenon DEF Allows
  <1>1. CASE page < IdentityPages
    <2>1. entry = IdentityLeaf(page)
      BY <1>1, Zenon DEF walk_to_leaf
    <2>2. IdentityLeaf(page).user <=> page < ExecLimit
      BY Zenon DEF IdentityLeaf
    <2> QED BY <1>0, <2>1, <2>2, Zenon DEF Reachable
  <1>2. CASE ~(page < IdentityPages)
    <2>1. own \in Pages /\ entry = leaf[p][own]
      BY <1>0, <1>2, Zenon DEF walk_to_leaf
    <2> HIDE DEF entry, own
    <2>2. f # 0 /\ f \in 0 .. NumFrames + FbPages /\ entry.frame = f
      <3>1. f # 0
        BY <1>0, <2>1, InvParts, Zenon DEF TablesInv, LeafInv
      <3>2. leaf[p][own] \in Leaves
        BY <2>1, InvParts, Zenon DEF TablesInv, SpaceTypes
      <3>3. f \in 0 .. NumFrames + FbPages
        BY <3>2, Zenon DEF Leaves
      <3> QED BY <2>1, <3>1, <3>3, Zenon
    <2>3. f \in Frames \/ f \in NumFrames + 1 .. NumFrames + FbPages
      <3> HIDE DEF f
      <3> QED BY <2>2, LayoutFacts DEF Frames
    <2>4. ASSUME f \in Frames
          PROVE  /\ f \in Frames \ free
                 /\ \A q \in Processes :
                      /\ f \notin dirs[q]
                      /\ \A t \in Tables : tables[q][t] # f
                      /\ q # p => \A x \in Pages : leaf[q][x].frame # f
      <3>0. own \in Int /\ 0 \in Int /\ Tables \subseteq Int /\ Pages \subseteq Int
        BY <2>1, TableFacts DEF Pages
      <3>k. "dir" \in Kinds /\ "table" \in Kinds /\ "leaf" \in Kinds
            /\ "dir" # "leaf" /\ "table" # "leaf"
        BY DEF Kinds
      <3>1. Uses(dirs, tables, leaf, "leaf", p, own, f)
        BY <2>1, Zenon DEF Uses
      <3>2. /\ f \in free => \A kind \in Kinds, q \in Processes, x \in Int :
                               ~Uses(dirs, tables, leaf, kind, q, x, f)
            /\ \A k1, k2 \in Kinds, p1, p2 \in Processes, x1, x2 \in Int :
                 Uses(dirs, tables, leaf, k1, p1, x1, f) /\ Uses(dirs, tables, leaf, k2, p2, x2, f)
                   => k1 = k2 /\ p1 = p2 /\ x1 = x2
        <4>1. UsedOnce(free, dirs, tables, leaf)
          BY InvParts, Zenon DEF TablesInv, UseInv
        <4> HIDE DEF f
        <4> QED BY <2>4, <4>1, Zenon DEF UsedOnce
      <3>3. f \notin free
        BY <3>0, <3>k, <3>1, <3>2, Zenon
      <3>4. ASSUME NEW kind \in Kinds, NEW q \in Processes, NEW x \in Int,
                   Uses(dirs, tables, leaf, kind, q, x, f)
            PROVE  kind = "leaf" /\ q = p
        BY <3>0, <3>k, <3>1, <3>2, <3>4, Zenon
      <3>5. ASSUME NEW q \in Processes PROVE f \notin dirs[q]
        <4>1. f \in dirs[q] => Uses(dirs, tables, leaf, "dir", q, 0, f)
          BY Zenon DEF Uses
        <4> QED BY <3>0, <3>k, <3>4, <4>1, Zenon
      <3>6. ASSUME NEW q \in Processes, NEW t \in Tables PROVE tables[q][t] # f
        <4>1. tables[q][t] = f => Uses(dirs, tables, leaf, "table", q, t, f)
          BY Zenon DEF Uses
        <4> QED BY <3>0, <3>k, <3>4, <4>1, Zenon
      <3>7. ASSUME NEW q \in Processes, q # p, NEW x \in Pages PROVE leaf[q][x].frame # f
        <4>1. leaf[q][x].frame = f => Uses(dirs, tables, leaf, "leaf", q, x, f)
          BY Zenon DEF Uses
        <4> QED BY <3>0, <3>k, <3>4, <3>7, <4>1, Zenon
      <3> QED BY <2>4, <3>3, <3>5, <3>6, <3>7, Zenon
    <2>5. Reachable(p, vpage)
      <3> HIDE DEF f
      <3> QED BY <2>2, <2>3, <2>4, Zenon DEF Reachable, entry
    <2> QED BY <1>0, <2>5, Zenon DEF entry
  <1> QED BY <1>1, <1>2, Zenon

\* A page of its own that a program has got is present and allows the access.
LEMMA OwnedIsGranted ==
    ASSUME SpaceInv, NEW p \in Processes, At(p, "run"), NEW page \in Int, NEW write \in BOOLEAN,
           Owns(p, page, write), ~Untouched(p, page)
    PROVE  page \in Pages /\ Granted(p, page, write)
  <1>0. /\ \A j \in 1 .. Len(Segments) : Granted(p, Segments[j].page, Segments[j].write)
        /\ Granted(p, StackTopPage - 1, TRUE)
    BY Zenon DEF SpaceInv, ImageInv, At, Running
  <1>1. \A x : Granted(p, x, TRUE) => Granted(p, x, write) /\ x \in Pages
    BY Zenon DEF Granted, Present
  \* above the program, a page that is there is writable
  <1>2. ASSUME page \in Pages, page >= HeapPage, vmm_page_present(p, Private + page)
        PROVE  Granted(p, page, TRUE)
    <2>1. Present(p, page)
      BY <1>2, WindowWalk, Zenon
    <2> QED BY <1>2, <2>1, InvParts, Zenon DEF TablesInv, LeafInv, Granted, Present
  <1>3. ASSUME NEW i \in DOMAIN Segments, Segments[i].page = page, write => Segments[i].write
        PROVE  page \in Pages /\ Granted(p, page, write)
    <2>1. i \in 1 .. Len(Segments)
      <3>1. DOMAIN Segments = 1 .. Len(Segments)
        BY LayoutAssumption
      <3> QED BY <3>1, Zenon
    <2>2. Granted(p, page, Segments[i].write)
      BY <1>0, <1>3, <2>1, Zenon DEF Granted, Present
    <2> QED BY <1>3, <2>2, Zenon DEF Granted, Present
  <1>4. CASE page \in HeapPage .. RoundUpPage(brk[p]) - 1
    BY <1>1, <1>4, InvParts, Zenon DEF HeapInv
  <1>5. CASE page \in FbPage .. FbPage + FbPages - 1 /\ vmm_page_present(p, Private + page)
    <2>1. page \in Pages /\ page >= HeapPage
      BY <1>5, LayoutFacts DEF Pages
    <2> QED BY <1>1, <1>2, <1>5, <2>1, Zenon
  <1>6. CASE page \in StackLow .. StackTopPage - 1
    <2>1. page \in Pages /\ page >= HeapPage
          /\ (page = StackTopPage - 1 \/ page \in StackLow .. StackTopPage - 2)
      BY <1>6, LayoutFacts DEF Pages, StackLow
    <2>2. CASE page = StackTopPage - 1
      BY <1>0, <1>1, <2>2, Zenon
    <2>3. CASE page \in StackLow .. StackTopPage - 2
      BY <1>1, <1>2, <2>1, <2>3, Zenon DEF Untouched
    <2> QED BY <2>1, <2>2, <2>3, Zenon
  <1> QED BY <1>3, <1>4, <1>5, <1>6, Zenon DEF Owns

\* Page and byte addresses of the window in the whole address space
LEMMA WindowAddress ==
    ASSUME NEW v \in Nat, v \div PAGE \in Pages
    PROVE  /\ Private * PAGE + v \in Nat
           /\ (Private * PAGE + v) \div PAGE = Private + v \div PAGE
           /\ Private * PAGE + v + 1 < ADDRESSES
  <1> DEFINE q == v \div PAGE
             b == PAGE * Private
  <1>0. /\ PAGE \in Nat \ {0} /\ Private \in Nat /\ Window \in Nat /\ SPACE \in Nat
        /\ Private + Window < SPACE
    BY LayoutFacts
  <1>1. q \in Int /\ PAGE * q <= v /\ v < PAGE * q + PAGE /\ q < Window /\ PAGE * q \in Int
    <2>1. q \in Int /\ PAGE * q <= v /\ v < PAGE * q + PAGE
      <3>1. v \in Int
        OBVIOUS
      <3> QED BY <1>0, <3>1, DivIs, Zenon
    <2>2. q < Window
      BY <1>0, <2>1 DEF Pages
    <2> HIDE DEF q
    <2> QED BY <1>0, <2>1, <2>2, MulOrder
  <1>2. b \in Nat /\ Private * PAGE = b
    BY <1>0
  <1> HIDE DEF q, b
  <1>3. PAGE * (Private + q) = b + PAGE * q /\ Private + q \in Int
    BY <1>0, <1>1 DEF b
  <1>4. b + v \in Int /\ PAGE * (Private + q) <= b + v /\ b + v < PAGE * (Private + q) + PAGE
    BY <1>0, <1>1, <1>2, <1>3
  <1>5. (b + v) \div PAGE = Private + q
    BY <1>0, <1>3, <1>4, DivUnique, Zenon
  <1>6. b + v + 1 < ADDRESSES
    <2>1. /\ Span \in Int /\ SPACE <= Span /\ ADDRESSES = PAGE * Span /\ ADDRESSES \in Int
      BY AddressFacts
    <2>2. Private + q + 1 \in Int /\ Private + q < Private + q + 1 /\ Private + q + 1 < Span
      BY <1>0, <1>1, <2>1
    <2>3. /\ PAGE * (Private + q) \in Int /\ PAGE * (Private + q + 1) \in Int
          /\ PAGE * (Private + q) + PAGE <= PAGE * (Private + q + 1)
          /\ PAGE * (Private + q + 1) + PAGE <= PAGE * Span
      BY <1>0, <1>3, <2>1, <2>2, MulOrder, Zenon
    <2>4. PICK m \in Int : m = PAGE * (Private + q)
      BY <2>3, Zenon
    <2>5. PICK n \in Int : n = PAGE * (Private + q + 1)
      BY <2>3, Zenon
    <2>6. m + PAGE <= n /\ n + PAGE <= ADDRESSES /\ b + v < m + PAGE
      BY <1>4, <2>1, <2>3, <2>4, <2>5, Zenon
    <2> QED BY <1>0, <1>4, <2>1, <2>6
  <1> QED BY <1>2, <1>4, <1>5, <1>6 DEF q

\* A buffer in memory that a program owns, and has touched if it is stack, is
\* accepted.
LEMMA OwnAccepted ==
    ASSUME SpaceInv, NEW p \in Processes, At(p, "run"), NEW write \in BOOLEAN,
           NEW vaddr \in Nat, vaddr < Window * PAGE, NEW len \in 0 .. ADDRESSES - 1,
           \A k \in 0 .. len - 1 : /\ Owns(p, (vaddr + k) \div PAGE, write)
                                   /\ ~Untouched(p, (vaddr + k) \div PAGE)
    PROVE  vmm_check_range(p, Private * PAGE + vaddr, len, write)
  <1>0. PAGE \in Nat \ {0} /\ ADDRESSES \in Nat
    BY AddressFacts, Zenon
  <1>1. CASE len = 0
    BY <1>1, Zenon DEF vmm_check_range
  <1>2. CASE len # 0
    <2>1. len \in Nat \ {0}
      BY <1>0, <1>2
    <2>2. ASSUME NEW k \in 0 .. len - 1
          PROVE  /\ vaddr + k \in Nat /\ (vaddr + k) \div PAGE \in Pages
                 /\ Granted(p, (vaddr + k) \div PAGE, write)
      <3>1. vaddr + k \in Nat /\ vaddr + k \in Int
        BY <2>1
      <3>2. (vaddr + k) \div PAGE \in Int
        BY <1>0, <3>1, DivIs, Zenon
      <3> QED BY <3>1, <3>2, OwnedIsGranted, Zenon
    <2> DEFINE b == Private * PAGE
    <2>3. b \in Nat
      BY <1>0, LayoutFacts
    <2>4. ASSUME NEW k \in 0 .. len - 1
          PROVE  Allows(p, ((b + vaddr) + k) \div PAGE, write) /\ b + (vaddr + k) + 1 < ADDRESSES
      <3>1. /\ (b + (vaddr + k)) \div PAGE = Private + (vaddr + k) \div PAGE
            /\ b + (vaddr + k) + 1 < ADDRESSES
        BY <2>2, WindowAddress, Zenon
      <3>2. Allows(p, Private + (vaddr + k) \div PAGE, write)
        BY <2>2, WindowWalk, Zenon
      <3> HIDE DEF b
      <3>3. (b + vaddr) + k = b + (vaddr + k)
        BY <2>1, <2>3
      <3> QED BY <3>1, <3>2, <3>3, Zenon
    <2> HIDE DEF b
    <2>5. b + vaddr \in 0 .. ADDRESSES - 1 /\ (b + vaddr) + len < ADDRESSES
      <3>1. len - 1 \in 0 .. len - 1
        BY <2>1
      <3>2. b + (vaddr + (len - 1)) + 1 < ADDRESSES
        BY <2>4, <3>1, Zenon
      <3> QED BY <1>0, <2>1, <2>3, <3>2
    <2>6. vmm_check_range(p, b + vaddr, len, write)
      BY <2>4, <2>5, CheckRange, Zenon
    <2> QED BY <2>6, Zenon DEF b
  <1> QED BY <1>1, <1>2, Zenon

\* The pointer checks admit a program's own memory and nothing else of the
\* system, for every number of processes and frames, every layout, page size,
\* address and length, and in every state the processes' calls and faults lead to.
THEOREM ChecksAdmit == Spec => []ChecksAdmitOwnMemory
  <1>1. SpaceInv => ChecksAdmitOwnMemory
    <2> SUFFICES ASSUME SpaceInv, NEW p \in Processes, NEW len \in Lengths, At(p, "run")
                 PROVE  /\ \A vaddr \in 0 .. ADDRESSES - 1 :
                            LET Page(k) == ((vaddr + k) % ADDRESSES) \div PAGE
                            IN  /\ \A write \in BOOLEAN : vmm_check_range(p, vaddr, len, write) =>
                                     \A k \in 0 .. len - 1 :
                                        /\ Reachable(p, Page(k))
                                        /\ write => walk_to_leaf(p, Page(k)).write
                                /\ copy_user_string(p, vaddr, len) =>
                                     \A k \in 0 .. len : Reachable(p, Page(k))
                        /\ \A vaddr \in 0 .. Window * PAGE - 1, write \in BOOLEAN :
                            (\A k \in 0 .. len - 1 : /\ Owns(p, (vaddr + k) \div PAGE, write)
                                                     /\ ~Untouched(p, (vaddr + k) \div PAGE))
                              => vmm_check_range(p, Private * PAGE + vaddr, len, write)
      BY Zenon DEF ChecksAdmitOwnMemory
    <2>0. len \in 0 .. ADDRESSES - 1
      BY LayoutAssumption, Zenon DEF ADDRESSES
    <2>1. ASSUME NEW vaddr \in 0 .. ADDRESSES - 1, NEW write \in BOOLEAN,
                 vmm_check_range(p, vaddr, len, write), NEW k \in 0 .. len - 1
          PROVE  /\ Reachable(p, ((vaddr + k) % ADDRESSES) \div PAGE)
                 /\ write => walk_to_leaf(p, ((vaddr + k) % ADDRESSES) \div PAGE).write
      <3>1. Allows(p, ((vaddr + k) % ADDRESSES) \div PAGE, write)
        BY <2>0, <2>1, AcceptedBytes, Zenon
      <3> QED BY <3>1, AllowedIsReachable, Zenon
    <2>2. ASSUME NEW vaddr \in 0 .. ADDRESSES - 1, copy_user_string(p, vaddr, len), NEW k \in 0 .. len
          PROVE  Reachable(p, ((vaddr + k) % ADDRESSES) \div PAGE)
      <3>1. Allows(p, ((vaddr + k) % ADDRESSES) \div PAGE, FALSE)
        BY <2>0, <2>2, StringChecksCover, Zenon
      <3> QED BY <3>1, AllowedIsReachable, Zenon
    <2>3. ASSUME NEW vaddr \in 0 .. Window * PAGE - 1, NEW write \in BOOLEAN,
                 \A k \in 0 .. len - 1 : /\ Owns(p, (vaddr + k) \div PAGE, write)
                                         /\ ~Untouched(p, (vaddr + k) \div PAGE)
          PROVE  vmm_check_range(p, Private * PAGE + vaddr, len, write)
      <3>1. vaddr \in Nat /\ vaddr < Window * PAGE
        BY LayoutFacts
      <3> QED BY <2>0, <2>3, <3>1, OwnAccepted, Zenon
    <2> QED BY <2>1, <2>2, <2>3, Zenon
  <1> QED BY <1>1, SpaceInvariant, PTL

================================================================================
