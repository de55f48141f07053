----------------------------- MODULE HeapProofs ------------------------------
(***************************************************************************)
(* The kernel heap stays consistent for every size of region, header and   *)
(* alignment and for any requests.                                         *)
(***************************************************************************)
EXTENDS Heap, TLAPS

BlockSet == [addr : Nat, size : Nat, free : BOOLEAN]
HeldSet == [ptr : Nat, size : Requests]

BlockEnd(b) == b.addr + HEADER + b.size

\* The list covers the region: each block ends where the next header begins.
\* That a later block lies wholly after an earlier one follows by induction
\* from the neighbours, and is carried along instead.
LayoutInv(s) ==
    /\ s \in Seq(BlockSet) /\ s # << >>
    /\ s[1].addr = 0
    /\ \A i \in 1 .. (Len(s) - 1) : s[i + 1].addr = BlockEnd(s[i])
    /\ \A i, j \in 1 .. Len(s) : i < j => BlockEnd(s[i]) <= s[j].addr
    /\ BlockEnd(s[Len(s)]) = HEAP_SIZE
    /\ \A i \in 1 .. Len(s) : s[i].size >= HEAP_ALIGN

\* block i belongs to allocation k
Owns(s, h, i, k) ==
    /\ ~s[i].free
    /\ h[k].ptr = s[i].addr + HEADER
    /\ h[k].size <= s[i].size

\* the used blocks are the allocations
OwnerInv(s, h) ==
    /\ h \in Seq(HeldSet)
    /\ \A k \in 1 .. Len(h) : \E i \in 1 .. Len(s) : Owns(s, h, i, k)
    /\ \A i \in 1 .. Len(s) : ~s[i].free => \E k \in 1 .. Len(h) : Owns(s, h, i, k)
    /\ \A k, m \in 1 .. Len(h) : h[k].ptr = h[m].ptr => k = m

\* As long as callers free in reverse order the used blocks come first, in the
\* order they were allocated, and at most one free block follows them.
LifoInv(s, h) ==
    /\ Len(s) = Len(h) \/ (Len(s) = Len(h) + 1 /\ s[Len(s)].free)
    /\ \A k \in 1 .. Len(h) : Owns(s, h, k, k)

HeapInv ==
    /\ LayoutInv(blocks)
    /\ OwnerInv(blocks, held)
    /\ lifo \in BOOLEAN
    /\ lifo => LifoInv(blocks, held)

--------------------------------------------------------------------------------
\* What the list becomes, block by block: the block at i is used as it is, cut
\* down to size, given back, or given back with the one after it taken in.
Taken(s, t, i) ==
    /\ t \in Seq(BlockSet) /\ Len(t) = Len(s)
    /\ t[i] = Block(s[i].addr, s[i].size, FALSE)
    /\ \A k \in 1 .. Len(s) : k # i => t[k] = s[k]

Split(s, t, i, size) ==
    /\ t \in Seq(BlockSet) /\ Len(t) = Len(s) + 1
    /\ \A k \in 1 .. i - 1 : t[k] = s[k]
    /\ t[i] = Block(s[i].addr, size, FALSE)
    /\ t[i + 1] = Block(s[i].addr + HEADER + size, s[i].size - size - HEADER, TRUE)
    /\ \A k \in i + 2 .. Len(t) : t[k] = s[k - 1]

Freed(s, t, i) ==
    /\ t \in Seq(BlockSet) /\ Len(t) = Len(s)
    /\ t[i] = Block(s[i].addr, s[i].size, TRUE)
    /\ \A k \in 1 .. Len(s) : k # i => t[k] = s[k]

Merged(s, t, i) ==
    /\ t \in Seq(BlockSet) /\ Len(t) = Len(s) - 1
    /\ \A k \in 1 .. i - 1 : t[k] = s[k]
    /\ t[i] = Block(s[i].addr, s[i].size + HEADER + s[i + 1].size, TRUE)
    /\ \A k \in i + 1 .. Len(t) : t[k] = s[k + 1]

\* Both ways of allocating, and both ways of freeing, as the owners of the other
\* blocks see them: d blocks appear or disappear after the block at i.
AllocView(s, t, i, d, request) ==
    /\ Len(t) = Len(s) + d
    /\ ~t[i].free /\ t[i].addr = s[i].addr /\ request <= t[i].size
    /\ \A k \in 1 .. i - 1 : t[k] = s[k]
    /\ \A k \in i + 1 .. Len(s) : t[k + d] = s[k]
    /\ d = 1 => t[i + 1].free

FreeView(s, t, i, d) ==
    /\ Len(t) = Len(s) - d
    /\ t[i].free
    /\ d = 1 <=> i < Len(s) /\ s[i + 1].free
    /\ \A j \in 1 .. i - 1 : t[j] = s[j]
    /\ \A j \in i + 1 + d .. Len(s) : t[j - d] = s[j]

\* What callers hold with allocation k given back
Returned(h, g, k) ==
    /\ g \in Seq(HeldSet) /\ Len(g) = Len(h) - 1
    /\ \A m \in 1 .. Len(h) - 1 : g[m] = IF m < k THEN h[m] ELSE h[m + 1]

\* The concatenation of two sequences, position by position
LEMMA ConcatIs ==
    ASSUME NEW S, NEW r \in Seq(S), NEW s \in Seq(S)
    PROVE  /\ r \o s \in Seq(S)
           /\ Len(r \o s) = Len(r) + Len(s)
           /\ \A i \in 1 .. Len(r) + Len(s) :
                (r \o s)[i] = IF i <= Len(r) THEN r[i] ELSE s[i - Len(r)]
    OBVIOUS

\* Inserting an element into a sequence, position by position
LEMMA InsertIs ==
    ASSUME NEW S, NEW s \in Seq(S), NEW e \in S, NEW i \in 1 .. Len(s) + 1
    PROVE  /\ InsertAt(s, i, e) \in Seq(S) /\ Len(InsertAt(s, i, e)) = Len(s) + 1
           /\ \A k \in 1 .. Len(s) + 1 :
                InsertAt(s, i, e)[k] = IF k < i THEN s[k] ELSE IF k = i THEN e ELSE s[k - 1]
<1> DEFINE a == SubSeq(s, 1, i - 1)
           b == SubSeq(s, i, Len(s))
<1>0. Len(s) \in Nat /\ i \in Nat
    OBVIOUS
<1>1. a \in Seq(S) /\ Len(a) = i - 1 /\ \A k \in 1 .. i - 1 : a[k] = s[k]
    BY <1>0
<1>2. b \in Seq(S) /\ Len(b) = Len(s) + 1 - i /\ \A k \in 1 .. Len(s) + 1 - i : b[k] = s[k + i - 1]
    BY <1>0
<1>3. InsertAt(s, i, e) = a \o <<e>> \o b
    BY Zenon DEF InsertAt
<1> HIDE DEF a, b
<1>4. a \o <<e>> \in Seq(S) /\ Len(a \o <<e>>) = i
    BY <1>0, <1>1
<1>5. \A k \in 1 .. i : (a \o <<e>>)[k] = IF k = i THEN e ELSE a[k]
    BY <1>0, <1>1
<1> DEFINE c == a \o <<e>>
<1> HIDE DEF c
<1>6. c \in Seq(S) /\ Len(c) = i /\ \A k \in 1 .. i : c[k] = IF k = i THEN e ELSE s[k]
    BY <1>0, <1>1, <1>4, <1>5, SMTT(60) DEF c
<1>7. c \o b \in Seq(S) /\ Len(c \o b) = Len(s) + 1
  <2>1. c \o b \in Seq(S) /\ Len(c \o b) = Len(c) + Len(b)
    BY <1>2, <1>6, ConcatIs, Zenon
  <2> QED BY <1>0, <1>2, <1>6, <2>1
<1>8. \A k \in 1 .. Len(s) + 1 : (c \o b)[k] = IF k <= i THEN c[k] ELSE b[k - i]
  <2>1. Len(c) + Len(b) = Len(s) + 1
    BY <1>0, <1>2, <1>6
  <2>2. \A k \in 1 .. Len(c) + Len(b) :
            (c \o b)[k] = IF k <= Len(c) THEN c[k] ELSE b[k - Len(c)]
    BY <1>2, <1>6, ConcatIs, Zenon
  <2> QED BY <1>6, <2>1, <2>2, Zenon
<1>9. ASSUME NEW k \in 1 .. Len(s) + 1
      PROVE  (c \o b)[k] = IF k < i THEN s[k] ELSE IF k = i THEN e ELSE s[k - 1]
  <2>1. CASE k <= i
    BY <1>0, <1>6, <1>8, <2>1
  <2>2. CASE k > i
    <3>1. k - i \in 1 .. Len(s) + 1 - i /\ (k - i) + i - 1 = k - 1
        BY <1>0, <2>2
    <3>2. b[k - i] = s[k - 1]
        BY <1>2, <3>1, Zenon
    <3>3. ~(k <= i) /\ ~(k < i) /\ k # i
        BY <1>0, <2>2
    <3> QED BY <1>8, <3>2, <3>3, Zenon
  <2>3. k <= i \/ k > i
    BY <1>0
  <2> QED BY <2>1, <2>2, <2>3, Zenon
<1> QED BY <1>3, <1>7, <1>9, Zenon DEF c

\* Removing an element, position by position
LEMMA RemoveIs ==
    ASSUME NEW S, NEW s \in Seq(S), NEW i \in 1 .. Len(s)
    PROVE  /\ RemoveAt(s, i) \in Seq(S) /\ Len(RemoveAt(s, i)) = Len(s) - 1
           /\ \A k \in 1 .. Len(s) - 1 :
                RemoveAt(s, i)[k] = IF k < i THEN s[k] ELSE s[k + 1]
<1> DEFINE a == SubSeq(s, 1, i - 1)
           b == SubSeq(s, i + 1, Len(s))
<1>0. Len(s) \in Nat /\ i \in Nat
    OBVIOUS
<1>1. a \in Seq(S) /\ Len(a) = i - 1 /\ \A k \in 1 .. i - 1 : a[k] = s[k]
    BY <1>0
<1>2. b \in Seq(S) /\ Len(b) = Len(s) - i /\ \A k \in 1 .. Len(s) - i : b[k] = s[k + i]
    BY <1>0
<1>3. RemoveAt(s, i) = a \o b
    BY Zenon DEF RemoveAt
<1> HIDE DEF a, b
<1>4. a \o b \in Seq(S) /\ Len(a \o b) = Len(s) - 1
  <2>1. a \o b \in Seq(S) /\ Len(a \o b) = Len(a) + Len(b)
    BY <1>1, <1>2, ConcatIs, Zenon
  <2> QED BY <1>0, <1>1, <1>2, <2>1, SMTT(60)
<1>5. \A k \in 1 .. Len(s) - 1 : (a \o b)[k] = IF k < i THEN a[k] ELSE b[k - i + 1]
  <2>1. Len(a) + Len(b) = Len(s) - 1
    BY <1>0, <1>1, <1>2
  <2>2. \A k \in 1 .. Len(a) + Len(b) :
            (a \o b)[k] = IF k <= Len(a) THEN a[k] ELSE b[k - Len(a)]
    BY <1>1, <1>2, ConcatIs, Zenon
  <2> SUFFICES ASSUME NEW k \in 1 .. Len(s) - 1
               PROVE  (a \o b)[k] = IF k < i THEN a[k] ELSE b[k - i + 1]
    BY Zenon
  <2>3. (a \o b)[k] = IF k <= i - 1 THEN a[k] ELSE b[k - (i - 1)]
    BY <1>1, <2>1, <2>2, Zenon
  <2>4. (k <= i - 1 <=> k < i) /\ k - (i - 1) = k - i + 1
    BY <1>0
  <2> QED BY <2>3, <2>4, Zenon
<1>6. ASSUME NEW k \in 1 .. Len(s) - 1, ~(k < i)
      PROVE  b[k - i + 1] = s[k + 1]
  <2>1. k - i + 1 \in 1 .. Len(s) - i /\ (k - i + 1) + i = k + 1
    BY <1>0, <1>6
  <2>2. b[k - i + 1] = s[(k - i + 1) + i]
    BY <1>2, <2>1, Zenon
  <2> QED BY <2>1, <2>2, Zenon
<1> QED BY <1>0, <1>1, <1>3, <1>4, <1>5, <1>6, SMTT(60)

\* Rounding a request up: at least what was asked for, and at least HEAP_ALIGN
LEMMA RoundUpIs ==
    ASSUME NEW r \in Nat \ {0}
    PROVE  RoundUp(r) \in Nat /\ RoundUp(r) >= r /\ RoundUp(r) >= HEAP_ALIGN
<1> DEFINE x == r + HEAP_ALIGN - 1
           q == x \div HEAP_ALIGN
<1>1. HEAP_ALIGN \in Nat \ {0} /\ x \in Nat /\ x >= HEAP_ALIGN
    BY HeapAssumption
<1>2. q \in Nat /\ HEAP_ALIGN * q <= x /\ x < HEAP_ALIGN * q + HEAP_ALIGN
    BY <1>1
<1>3. HEAP_ALIGN * q \in Nat /\ q * HEAP_ALIGN = HEAP_ALIGN * q
    BY <1>1, <1>2
<1>4. HEAP_ALIGN * q > r - 1
    BY <1>1, <1>2, <1>3
<1>5. q >= 1
    BY <1>1, <1>2
<1>6. HEAP_ALIGN * q >= HEAP_ALIGN
    BY <1>1, <1>2, <1>5
<1> QED BY <1>1, <1>3, <1>4, <1>6 DEF RoundUp

--------------------------------------------------------------------------------
\* What the layout says of a single block.
LEMMA BlockIs ==
    ASSUME NEW s, LayoutInv(s), NEW i \in 1 .. Len(s)
    PROVE  /\ s[i] \in BlockSet /\ s[i].addr \in Nat /\ s[i].size \in Nat /\ s[i].free \in BOOLEAN
           /\ s[i].size >= HEAP_ALIGN /\ BlockEnd(s[i]) \in Nat /\ BlockEnd(s[i]) <= HEAP_SIZE
           /\ Len(s) \in Nat /\ Len(s) >= 1 /\ i \in Nat
<1>1. s[i] \in BlockSet /\ s[Len(s)] \in BlockSet /\ Len(s) \in Nat /\ Len(s) >= 1 /\ i \in Nat
    BY DEF LayoutInv
<1>2. /\ s[i].addr \in Nat /\ s[i].size \in Nat /\ s[i].free \in BOOLEAN
      /\ s[Len(s)].addr \in Nat /\ s[Len(s)].size \in Nat
    BY <1>1, Zenon DEF BlockSet
<1>3. s[i].size >= HEAP_ALIGN /\ BlockEnd(s[Len(s)]) = HEAP_SIZE
    BY Zenon DEF LayoutInv
<1>4. i < Len(s) => BlockEnd(s[i]) <= s[Len(s)].addr
    BY <1>1 DEF LayoutInv
<1>5. BlockEnd(s[i]) <= HEAP_SIZE
    BY <1>1, <1>2, <1>3, <1>4, HeapAssumption, SMTT(60) DEF BlockEnd
<1> QED BY <1>1, <1>2, <1>3, <1>5, HeapAssumption, SMTT(60) DEF BlockEnd

\* Two blocks start at different addresses.
LEMMA AddrInjective ==
    ASSUME NEW s, LayoutInv(s), NEW i \in 1 .. Len(s), NEW j \in 1 .. Len(s),
           s[i].addr = s[j].addr
    PROVE  i = j
<1>1. /\ s[i].addr \in Nat /\ s[i].size \in Nat /\ s[j].addr \in Nat /\ s[j].size \in Nat
      /\ i \in Nat /\ j \in Nat
    BY BlockIs, Zenon
<1>2. (i < j => BlockEnd(s[i]) <= s[j].addr) /\ (j < i => BlockEnd(s[j]) <= s[i].addr)
    BY Zenon DEF LayoutInv
<1> QED BY <1>1, <1>2, HeapAssumption DEF BlockEnd

\* Marking a block used or free moves nothing.
LEMMA MarkLayout ==
    ASSUME NEW s, LayoutInv(s), NEW i \in 1 .. Len(s), NEW t, NEW free \in BOOLEAN,
           t \in Seq(BlockSet), Len(t) = Len(s),
           t[i] = Block(s[i].addr, s[i].size, free),
           \A k \in 1 .. Len(s) : k # i => t[k] = s[k]
    PROVE  LayoutInv(t)
<1>1. \A k \in 1 .. Len(s) : t[k].addr = s[k].addr /\ t[k].size = s[k].size
    BY DEF Block
<1>2. \A k \in 1 .. Len(s) : BlockEnd(t[k]) = BlockEnd(s[k])
    BY <1>1, Zenon DEF BlockEnd
<1>3. Len(s) \in Nat /\ Len(s) >= 1 /\ t # << >>
    BY BlockIs
<1>4. \A k \in 1 .. Len(s) - 1 : k \in 1 .. Len(s) /\ k + 1 \in 1 .. Len(s)
    BY <1>3
<1>5. 1 \in 1 .. Len(s) /\ Len(s) \in 1 .. Len(s)
    BY <1>3
<1> QED BY <1>1, <1>2, <1>3, <1>4, <1>5, ZenonT(60) DEF LayoutInv

\* split_block(): the remainder takes up what is left of the block.
LEMMA SplitLayout ==
    ASSUME NEW s, LayoutInv(s), NEW i \in 1 .. Len(s), NEW size \in Nat, size >= HEAP_ALIGN,
           s[i].size >= size + HEADER + HEAP_ALIGN, NEW t, Split(s, t, i, size)
    PROVE  LayoutInv(t)
<1>0. /\ Len(s) \in Nat /\ Len(s) >= 1 /\ i \in Nat /\ i >= 1 /\ i <= Len(s)
      /\ Len(t) = Len(s) + 1 /\ t \in Seq(BlockSet) /\ t # << >>
      /\ HEADER \in Nat /\ HEAP_ALIGN \in Nat
    BY BlockIs, HeapAssumption DEF Split
<1>1. \A k \in 1 .. Len(s) : s[k].addr \in Nat /\ s[k].size \in Nat
                               /\ s[k].size >= HEAP_ALIGN /\ BlockEnd(s[k]) \in Nat
    BY BlockIs, Zenon
<1>2. /\ t[i].addr = s[i].addr /\ t[i].size = size
      /\ t[i + 1].addr = BlockEnd(t[i]) /\ t[i + 1].size = s[i].size - size - HEADER
    BY DEF Split, Block, BlockEnd
<1>i. s[i].addr \in Nat /\ s[i].size \in Nat
    BY <1>1, Zenon
<1>3. BlockEnd(t[i + 1]) = BlockEnd(s[i])
    BY <1>0, <1>i, <1>2, SMTT(60) DEF BlockEnd
<1>4. ASSUME NEW k \in 1 .. Len(t)
      PROVE  \/ k < i /\ k \in 1 .. Len(s) /\ t[k] = s[k]
             \/ k = i \/ k = i + 1
             \/ k > i + 1 /\ k - 1 \in 1 .. Len(s) /\ t[k] = s[k - 1]
    BY <1>0 DEF Split
<1>a. \A k \in 1 .. Len(t) : k < i => k \in 1 .. Len(s) /\ t[k] = s[k]
    BY <1>0, <1>4
<1>b. \A k \in 1 .. Len(t) : k > i + 1 => k - 1 \in 1 .. Len(s) /\ t[k] = s[k - 1]
    BY <1>0, <1>4
<1>5. ASSUME NEW k \in 1 .. Len(t)
      PROVE  t[k].size >= HEAP_ALIGN
  <2>1. t[i + 1].size >= HEAP_ALIGN
    BY <1>0, <1>i, <1>2
  <2> QED BY <1>1, <1>2, <1>4, <2>1, ZenonT(60)
<1>6. ASSUME NEW k \in 1 .. Len(t) - 1
      PROVE  t[k + 1].addr = BlockEnd(t[k])
  <2>0. k \in 1 .. Len(t) /\ k + 1 \in 1 .. Len(t) /\ k \in Nat
    BY <1>0
  <2>1. CASE k < i
    <3>1. k \in 1 .. Len(s) - 1 /\ t[k] = s[k]
        BY <1>0, <1>4, <2>0, <2>1
    <3>2. s[k + 1].addr = BlockEnd(s[k])
        BY <3>1, Zenon DEF LayoutInv
    <3>3. t[k + 1].addr = s[k + 1].addr
        BY <1>0, <1>2, <1>4, <2>0, <2>1, SMTT(60)
    <3> QED BY <3>1, <3>2, <3>3, Zenon
  <2>2. CASE k = i
    BY <1>2, <2>2, Zenon
  <2>3. CASE k = i + 1
    <3>1. t[k + 1] = s[i + 1] /\ i \in 1 .. Len(s) - 1
        BY <1>0, <1>4, <2>0, <2>3, SMTT(60)
    <3> QED BY <1>3, <2>3, <3>1, ZenonT(60) DEF LayoutInv
  <2>4. CASE k > i + 1
    <3>1. t[k + 1] = s[k] /\ t[k] = s[k - 1] /\ k - 1 \in 1 .. Len(s) - 1 /\ (k - 1) + 1 = k
        BY <1>0, <1>4, <2>0, <2>4, SMTT(60)
    <3> QED BY <3>1, Zenon DEF LayoutInv
  <2> QED BY <1>0, <2>0, <2>1, <2>2, <2>3, <2>4, SMTT(60)
<1>7. ASSUME NEW k \in 1 .. Len(t), NEW m \in 1 .. Len(t), k < m
      PROVE  BlockEnd(t[k]) <= t[m].addr
  <2>0. \A a, b \in 1 .. Len(s) : a < b => BlockEnd(s[a]) <= s[b].addr
    BY Zenon DEF LayoutInv
  <2>a. k \in Nat /\ m \in Nat
    OBVIOUS
  <2>b. BlockEnd(t[i]) = s[i].addr + HEADER + size /\ BlockEnd(s[i]) = s[i].addr + HEADER + s[i].size
    BY <1>2, Zenon DEF BlockEnd
  <2>1. CASE k < i /\ m <= i
    <3>1. t[m].addr = s[m].addr /\ m \in 1 .. Len(s)
        BY <1>0, <1>2, <1>4, <2>1, <2>a, SMTT(60)
    <3> QED BY <1>0, <1>4, <1>7, <2>0, <2>1, <2>a, <3>1, SMTT(60)
  <2>2. CASE k < i /\ m = i + 1
    <3>1. t[k] = s[k] /\ k \in 1 .. Len(s) /\ BlockEnd(s[k]) <= s[i].addr
        BY <1>0, <1>4, <2>0, <2>2, <2>a
    <3>2. t[m].addr = s[i].addr + HEADER + size
        BY <1>2, <2>2, <2>b, Zenon
    <3> QED BY <1>0, <1>1, <3>1, <3>2, SMTT(60)
  <2>3. CASE k < i /\ m > i + 1
    <3>1. t[k] = s[k] /\ k \in 1 .. Len(s) /\ t[m] = s[m - 1] /\ m - 1 \in 1 .. Len(s)
        BY <1>a, <1>b, <2>3, ZenonT(60)
    <3>2. k < m - 1
        BY <1>0, <2>3, <2>a, SMTT(60)
    <3> QED BY <2>0, <3>1, <3>2, Zenon
  <2>4. CASE k = i /\ m = i + 1
    BY <1>0, <1>1, <1>2, <2>4, <2>b, SMTT(60)
  <2>5. CASE k = i /\ m > i + 1
    <3>0. i < m - 1
        BY <1>0, <2>5, <2>a, SMTT(60)
    <3>1. t[m] = s[m - 1] /\ m - 1 \in 1 .. Len(s) /\ i < m - 1
        BY <1>b, <2>5, <3>0, ZenonT(60)
    <3>2. BlockEnd(s[i]) <= s[m - 1].addr
        BY <2>0, <3>1, Zenon
    <3>3. s[m - 1].addr \in Nat
        BY <1>1, <3>1, Zenon
    <3>4. s[i].addr + HEADER + size <= s[m - 1].addr
      <4>1. HEADER \in Nat /\ HEAP_ALIGN \in Nat
          BY HeapAssumption, Zenon
      <4>2. s[i].addr + HEADER + s[i].size <= s[m - 1].addr
          BY <2>b, <3>2, Zenon
      <4> DEFINE a == s[i].addr
                 b == s[i].size
                 e == s[m - 1].addr
      <4>3. /\ a \in Nat /\ b \in Nat /\ e \in Nat
            /\ b >= size + HEADER + HEAP_ALIGN /\ a + HEADER + b <= e
          BY <1>i, <3>3, <4>2, ZenonT(60)
      <4> HIDE DEF a, b, e
      <4>4. a + HEADER + size <= e
          BY <4>1, <4>3
      <4> QED BY <4>4, Zenon DEF a, e
    <3> QED BY <2>5, <2>b, <3>1, <3>4, ZenonT(60)
  <2>6. CASE k = i + 1 /\ m > i + 1
    <3>0. i < m - 1
        BY <1>0, <2>6, <2>a, SMTT(60)
    <3>1. t[m] = s[m - 1] /\ m - 1 \in 1 .. Len(s) /\ i < m - 1
        BY <1>b, <2>6, <3>0, ZenonT(60)
    <3>2. BlockEnd(s[i]) <= s[m - 1].addr
        BY <2>0, <3>1, Zenon
    <3> QED BY <1>3, <2>6, <3>1, <3>2, ZenonT(60)
  <2>7. CASE k > i + 1
    <3>0. m > i + 1 /\ k - 1 < m - 1
        BY <1>0, <1>7, <2>7, <2>a
    <3>1. t[k] = s[k - 1] /\ k - 1 \in 1 .. Len(s) /\ t[m] = s[m - 1] /\ m - 1 \in 1 .. Len(s)
        BY <1>b, <2>7, <3>0, Zenon
    <3> QED BY <2>0, <3>0, <3>1, Zenon
  <2> QED BY <1>0, <1>7, <2>1, <2>2, <2>3, <2>4, <2>5, <2>6, <2>7, <2>a, SMTT(60)
<1>8. t[1].addr = 0
    BY <1>0, <1>2, <1>4 DEF LayoutInv
<1>9. BlockEnd(t[Len(t)]) = HEAP_SIZE
  <2>1. CASE i = Len(s)
    BY <1>0, <1>3, <2>1, Zenon DEF LayoutInv
  <2>2. CASE i < Len(s)
    <3>1. t[Len(t)] = s[Len(s)]
        BY <1>0, <1>4, <2>2, SMTT(60)
    <3> QED BY <3>1, Zenon DEF LayoutInv
  <2> QED BY <1>0, <2>1, <2>2
<1> QED BY <1>0, <1>5, <1>6, <1>7, <1>8, <1>9, ZenonT(60) DEF LayoutInv

\* kfree(): the block takes up what the one after it did.
LEMMA MergeLayout ==
    ASSUME NEW s, LayoutInv(s), NEW i \in 1 .. Len(s) - 1, NEW t, Merged(s, t, i)
    PROVE  LayoutInv(t)
<1>0. /\ Len(s) \in Nat /\ i \in Nat /\ i >= 1 /\ i + 1 <= Len(s)
      /\ i \in 1 .. Len(s) /\ i + 1 \in 1 .. Len(s)
      /\ Len(t) = Len(s) - 1 /\ t \in Seq(BlockSet)
      /\ HEADER \in Nat /\ HEAP_ALIGN \in Nat
    BY HeapAssumption DEF Merged, LayoutInv
<1>1. \A k \in 1 .. Len(s) : s[k].addr \in Nat /\ s[k].size \in Nat
                               /\ s[k].size >= HEAP_ALIGN /\ BlockEnd(s[k]) \in Nat
    BY BlockIs, Zenon
<1>2. t[i].addr = s[i].addr /\ t[i].size = s[i].size + HEADER + s[i + 1].size
    BY DEF Merged, Block
<1>i. /\ s[i].addr \in Nat /\ s[i].size \in Nat /\ s[i].size >= HEAP_ALIGN
      /\ s[i + 1].addr \in Nat /\ s[i + 1].size \in Nat
    BY <1>0, <1>1, Zenon
<1>3. BlockEnd(t[i]) = BlockEnd(s[i + 1]) /\ s[i + 1].addr = BlockEnd(s[i])
  <2>1. s[i + 1].addr = BlockEnd(s[i])
    BY Zenon DEF LayoutInv
  <2>2. HEADER \in Nat
    BY HeapAssumption, Zenon
  <2>3. BlockEnd(t[i]) = s[i].addr + HEADER + (s[i].size + HEADER + s[i + 1].size)
    BY <1>2, Zenon DEF BlockEnd
  <2>4. BlockEnd(s[i + 1]) = (s[i].addr + HEADER + s[i].size) + HEADER + s[i + 1].size
    BY <2>1, Zenon DEF BlockEnd
  <2> DEFINE a == s[i].addr
             b == s[i].size
             c == s[i + 1].size
  <2>5. a \in Nat /\ b \in Nat /\ c \in Nat
    BY <1>i, Zenon
  <2>6. BlockEnd(t[i]) = a + HEADER + (b + HEADER + c)
    BY <2>3, Zenon
  <2>7. BlockEnd(s[i + 1]) = (a + HEADER + b) + HEADER + c
    BY <2>4, Zenon
  <2> HIDE DEF a, b, c
  <2> QED BY <2>1, <2>2, <2>5, <2>6, <2>7, SMTT(60)
<1>4. ASSUME NEW k \in 1 .. Len(t)
      PROVE  \/ k < i /\ k \in 1 .. Len(s) /\ t[k] = s[k]
             \/ k = i
             \/ k > i /\ k + 1 \in 1 .. Len(s) /\ t[k] = s[k + 1]
    BY <1>0 DEF Merged
<1>5. ASSUME NEW k \in 1 .. Len(t)
      PROVE  t[k].size >= HEAP_ALIGN
  <2>1. t[i].size >= HEAP_ALIGN
    BY <1>0, <1>i, <1>2, SMTT(60)
  <2> QED BY <1>1, <1>4, <2>1, Zenon
<1>6. ASSUME NEW k \in 1 .. Len(t) - 1
      PROVE  t[k + 1].addr = BlockEnd(t[k])
  <2>0. k \in 1 .. Len(t) /\ k + 1 \in 1 .. Len(t) /\ k \in Nat
    BY <1>0
  <2>1. CASE k < i
    <3>1. k \in 1 .. Len(s) - 1 /\ t[k] = s[k]
        BY <1>0, <1>4, <2>0, <2>1, SMTT(60)
    <3>2. s[k + 1].addr = BlockEnd(s[k])
        BY <3>1, Zenon DEF LayoutInv
    <3>3. t[k + 1].addr = s[k + 1].addr
        BY <1>0, <1>2, <1>4, <2>0, <2>1, SMTT(60)
    <3> QED BY <3>1, <3>2, <3>3, ZenonT(60)
  <2>2. CASE k = i
    <3>1. t[k + 1] = s[(i + 1) + 1] /\ i + 1 \in 1 .. Len(s) - 1
        BY <1>0, <1>4, <2>0, <2>2
    <3> QED BY <1>3, <2>2, <3>1, Zenon DEF LayoutInv
  <2>3. CASE k > i
    <3>1. t[k + 1] = s[(k + 1) + 1] /\ t[k] = s[k + 1] /\ k + 1 \in 1 .. Len(s) - 1
        BY <1>0, <1>4, <2>0, <2>3, SMTT(60)
    <3> QED BY <3>1, Zenon DEF LayoutInv
  <2> QED BY <1>0, <2>0, <2>1, <2>2, <2>3
<1>7. ASSUME NEW k \in 1 .. Len(t), NEW m \in 1 .. Len(t), k < m
      PROVE  BlockEnd(t[k]) <= t[m].addr
  <2>0. \A a, b \in 1 .. Len(s) : a < b => BlockEnd(s[a]) <= s[b].addr
    BY Zenon DEF LayoutInv
  <2>a. k \in Nat /\ m \in Nat
    OBVIOUS
  <2>1. CASE k < i /\ m <= i
    <3>1. t[m].addr = s[m].addr /\ m \in 1 .. Len(s)
        BY <1>0, <1>2, <1>4, <2>1, <2>a, SMTT(60)
    <3>2. t[k] = s[k] /\ k \in 1 .. Len(s)
        BY <1>0, <1>4, <2>1, <2>a, SMTT(60)
    <3> QED BY <1>7, <2>0, <3>1, <3>2, ZenonT(60)
  <2>2. CASE k < i /\ m > i
    <3>1. t[k] = s[k] /\ k \in 1 .. Len(s) /\ t[m] = s[m + 1] /\ m + 1 \in 1 .. Len(s) /\ k < m + 1
        BY <1>0, <1>4, <2>2, <2>a, SMTT(60)
    <3> QED BY <2>0, <3>1, ZenonT(60)
  <2>3. CASE k = i
    <3>1. t[m] = s[m + 1] /\ m + 1 \in 1 .. Len(s) /\ i + 1 < m + 1
        BY <1>0, <1>4, <1>7, <2>3, <2>a, SMTT(60)
    <3> QED BY <1>0, <1>3, <2>0, <2>3, <3>1, ZenonT(60)
  <2>4. CASE k > i
    <3>1. t[k] = s[k + 1] /\ k + 1 \in 1 .. Len(s) /\ t[m] = s[m + 1] /\ m + 1 \in 1 .. Len(s)
          /\ k + 1 < m + 1
      <4>1. t[k] = s[k + 1] /\ k + 1 \in 1 .. Len(s)
          BY <1>0, <1>4, <2>4, <2>a, SMTT(60)
      <4>2. m > i
          BY <1>0, <1>7, <2>4, <2>a, SMTT(60)
      <4>3. t[m] = s[m + 1] /\ m + 1 \in 1 .. Len(s)
          BY <1>0, <1>4, <4>2, <2>a, SMTT(60)
      <4> QED BY <1>7, <2>a, <4>1, <4>3, SMTT(60)
    <3> QED BY <2>0, <3>1, ZenonT(60)
  <2> QED BY <1>0, <2>1, <2>2, <2>3, <2>4, <2>a, SMTT(60)
<1>8. t[1].addr = 0 /\ t # << >>
    BY <1>0, <1>2, <1>4 DEF LayoutInv
<1>9. BlockEnd(t[Len(t)]) = HEAP_SIZE
  <2>1. CASE i + 1 = Len(s)
    BY <1>0, <1>3, <2>1 DEF LayoutInv
  <2>2. CASE i + 1 < Len(s)
    <3>1. t[Len(t)] = s[Len(s)]
        BY <1>0, <1>4, <2>2, SMTT(60)
    <3> QED BY <3>1, Zenon DEF LayoutInv
  <2> QED BY <1>0, <2>1, <2>2
<1> QED BY <1>0, <1>5, <1>6, <1>7, <1>8, <1>9, ZenonT(60) DEF LayoutInv

--------------------------------------------------------------------------------
\* kmalloc() on the block it found: from the view of the owners it does not
\* matter whether the block was split.
LEMMA AllocOwners ==
    ASSUME NEW s, LayoutInv(s), NEW h, OwnerInv(s, h), NEW t, NEW g, LayoutInv(t),
           NEW i \in 1 .. Len(s), s[i].free, NEW request \in Requests, NEW d \in {0, 1},
           AllocView(s, t, i, d, request),
           g = Append(h, [ptr |-> s[i].addr + HEADER, size |-> request])
    PROVE  OwnerInv(t, g)
<1> DEFINE new == [ptr |-> s[i].addr + HEADER, size |-> request]
           n == Len(h)
<1>0. h \in Seq(HeldSet) /\ n \in Nat /\ Len(s) \in Nat /\ i \in Nat /\ i >= 1 /\ i <= Len(s)
    BY BlockIs DEF OwnerInv
<1>1. s[i].addr \in Nat /\ HEADER \in Nat
    BY BlockIs, HeapAssumption, Zenon
<1>2. new \in HeldSet
    BY <1>1 DEF HeldSet
<1>3. /\ g \in Seq(HeldSet) /\ Len(g) = n + 1 /\ g[n + 1] = new
      /\ \A k \in 1 .. n : g[k] = h[k]
    BY <1>0, <1>2
<1>4. new.ptr = t[i].addr + HEADER /\ new.size <= t[i].size
    BY Zenon DEF AllocView
<1> HIDE DEF new
<1>5. i \in 1 .. Len(t) /\ Owns(t, g, i, n + 1)
    BY <1>0, <1>3, <1>4, SMTT(60) DEF Owns, AllocView
<1>6. ASSUME NEW j \in 1 .. Len(s), j # i
      PROVE  \E m \in 1 .. Len(t) : m # i /\ t[m] = s[j]
  <2>1. CASE j < i
    <3>1. j \in 1 .. i - 1 /\ j \in 1 .. Len(t)
        BY <1>0, <2>1 DEF AllocView
    <3> QED BY <1>6, <3>1, Zenon DEF AllocView
  <2>2. CASE j > i
    <3>1. j + d \in 1 .. Len(t) /\ j \in i + 1 .. Len(s) /\ j + d # i
        BY <1>0, <2>2 DEF AllocView
    <3>2. t[j + d] = s[j]
        BY <3>1, Zenon DEF AllocView
    <3> QED BY <3>1, <3>2, Zenon
  <2>3. j < i \/ j > i
    BY <1>0, <1>6
  <2> QED BY <2>1, <2>2, <2>3, ZenonT(60)
<1>7. ASSUME NEW m \in 1 .. Len(t), m # i, ~t[m].free
      PROVE  \E j \in 1 .. Len(s) : j # i /\ t[m] = s[j]
  <2>1. CASE m < i
    <3>1. m \in 1 .. i - 1 /\ m \in 1 .. Len(s)
        BY <1>0, <2>1
    <3> QED BY <1>7, <3>1, Zenon DEF AllocView
  <2>2. CASE m > i
    <3>1. d = 1 => m # i + 1
        BY <1>7, ZenonT(60) DEF AllocView
    <3>2. m - d \in i + 1 .. Len(s) /\ (m - d) + d = m /\ m - d # i /\ m - d \in 1 .. Len(s)
        BY <1>0, <2>2, <3>1, SMTT(60) DEF AllocView
    <3>3. t[m] = s[m - d]
        BY <3>2, Zenon DEF AllocView
    <3> QED BY <3>2, <3>3, ZenonT(60)
  <2>3. m < i \/ m > i
    BY <1>0, <1>7
  <2> QED BY <2>1, <2>2, <2>3, ZenonT(60)
<1>8. ASSUME NEW k \in 1 .. n
      PROVE  \E j \in 1 .. Len(s) : j # i /\ Owns(s, h, j, k)
    BY Zenon DEF OwnerInv, Owns
<1>9. ASSUME NEW k \in 1 .. Len(g)
      PROVE  \E m \in 1 .. Len(t) : Owns(t, g, m, k)
  <2>1. CASE k = n + 1
    BY <1>5, <2>1, Zenon
  <2>2. CASE k # n + 1
    <3>1. k \in 1 .. n
        BY <1>0, <1>3, <2>2, SMTT(60)
    <3>2. PICK j \in 1 .. Len(s) : j # i /\ Owns(s, h, j, k)
        BY <1>8, <3>1, Zenon
    <3>3. PICK m \in 1 .. Len(t) : t[m] = s[j]
        BY <1>6, <3>2, Zenon
    <3> QED BY <1>3, <3>1, <3>2, <3>3, ZenonT(60) DEF Owns
  <2> QED BY <2>1, <2>2, ZenonT(60)
<1>10. ASSUME NEW m \in 1 .. Len(t), ~t[m].free
       PROVE  \E k \in 1 .. Len(g) : Owns(t, g, m, k)
  <2>1. CASE m = i
    <3>1. n + 1 \in 1 .. Len(g)
        BY <1>0, <1>3
    <3> QED BY <1>5, <2>1, <3>1, ZenonT(60)
  <2>2. CASE m # i
    <3>1. PICK j \in 1 .. Len(s) : j # i /\ t[m] = s[j]
        BY <1>7, <1>10, <2>2, Zenon
    <3>2. PICK k \in 1 .. n : Owns(s, h, j, k)
        BY <1>10, <3>1, Zenon DEF OwnerInv
    <3>3. k \in 1 .. Len(g)
        BY <1>0, <1>3
    <3> QED BY <1>3, <3>1, <3>2, <3>3, ZenonT(60) DEF Owns
  <2> QED BY <2>1, <2>2, Zenon
<1>11. ASSUME NEW k \in 1 .. n PROVE h[k].ptr # new.ptr
  <2>1. PICK j \in 1 .. Len(s) : j # i /\ h[k].ptr = s[j].addr + HEADER
    BY <1>8, Zenon DEF Owns
  <2>2. s[j].addr \in Nat /\ s[j].addr # s[i].addr
    BY <2>1, BlockIs, AddrInjective, Zenon
  <2>3. new.ptr = s[i].addr + HEADER
    BY Zenon DEF new
  <2>4. s[j].addr + HEADER # s[i].addr + HEADER
    <3> DEFINE a == s[i].addr
               b == s[j].addr
    <3>1. a \in Nat /\ b \in Nat /\ HEADER \in Nat /\ a # b
        BY <1>1, <2>2, Zenon
    <3> HIDE DEF a, b
    <3>2. b + HEADER # a + HEADER
        BY <3>1
    <3> QED BY <3>2, Zenon DEF a, b
  <2> QED BY <2>1, <2>3, <2>4, Zenon
<1>12. ASSUME NEW k \in 1 .. Len(g), NEW m \in 1 .. Len(g), g[k].ptr = g[m].ptr
       PROVE  k = m
  <2>1. k \in 1 .. n \/ k = n + 1
    BY <1>0, <1>3
  <2>2. m \in 1 .. n \/ m = n + 1
    BY <1>0, <1>3
  <2> QED BY <1>3, <1>11, <1>12, <2>1, <2>2, ZenonT(60) DEF OwnerInv
<1> QED BY <1>3, <1>9, <1>10, <1>12, ZenonT(60) DEF OwnerInv

\* kfree() of allocation k, whose block is i, with or without the block after it
LEMMA FreeOwners ==
    ASSUME NEW s, LayoutInv(s), NEW h, OwnerInv(s, h), NEW t, NEW g,
           NEW k \in 1 .. Len(h), NEW i \in 1 .. Len(s), s[i].addr + HEADER = h[k].ptr,
           NEW d \in {0, 1}, FreeView(s, t, i, d), Returned(h, g, k)
    PROVE  OwnerInv(t, g)
<1> DEFINE n == Len(h)
<1>0. h \in Seq(HeldSet) /\ n \in Nat /\ Len(s) \in Nat /\ i \in Nat /\ i >= 1 /\ i <= Len(s)
    BY BlockIs DEF OwnerInv
<1>1. /\ g \in Seq(HeldSet) /\ Len(g) = n - 1
      /\ \A m \in 1 .. n - 1 : g[m] = IF m < k THEN h[m] ELSE h[m + 1]
    BY Zenon DEF Returned
<1>2. ASSUME NEW j \in 1 .. Len(s), j # i, ~s[j].free
      PROVE  \E m \in 1 .. Len(t) : t[m] = s[j]
  <2>1. CASE j < i
    <3>1. j \in 1 .. i - 1 /\ j \in 1 .. Len(t)
        BY <1>0, <2>1 DEF FreeView
    <3> QED BY <3>1, Zenon DEF FreeView
  <2>2. CASE j > i
    <3>1. d = 1 => j # i + 1
        BY <1>2, Zenon DEF FreeView
    <3>2. j \in i + 1 + d .. Len(s) /\ j - d \in 1 .. Len(t)
        BY <1>0, <2>2, <3>1, SMTT(60) DEF FreeView
    <3> QED BY <3>2, Zenon DEF FreeView
  <2>3. j < i \/ j > i
    BY <1>0, <1>2
  <2> QED BY <2>1, <2>2, <2>3, Zenon
<1>3. ASSUME NEW m \in 1 .. Len(t), ~t[m].free
      PROVE  \E j \in 1 .. Len(s) : j # i /\ t[m] = s[j]
  <2>1. CASE m < i
    <3>1. m \in 1 .. i - 1 /\ m \in 1 .. Len(s) /\ m # i
        BY <1>0, <2>1
    <3> QED BY <3>1, Zenon DEF FreeView
  <2>2. CASE m > i
    <3>1. m + d \in i + 1 + d .. Len(s) /\ (m + d) - d = m /\ m + d # i /\ m + d \in 1 .. Len(s)
        BY <1>0, <2>2 DEF FreeView
    <3>2. t[m] = s[m + d]
        BY <3>1, Zenon DEF FreeView
    <3> QED BY <3>1, <3>2, Zenon
  <2>3. m < i \/ m > i
    BY <1>0, <1>3 DEF FreeView
  <2> QED BY <2>1, <2>2, <2>3
\* allocation k and block i are each other's only partner, Zenon
<1>4. ASSUME NEW m \in 1 .. n, m # k
      PROVE  \E j \in 1 .. Len(s) : j # i /\ Owns(s, h, j, m)
  <2>1. PICK j \in 1 .. Len(s) : Owns(s, h, j, m)
    BY Zenon DEF OwnerInv
  <2>2. h[m].ptr # h[k].ptr
    BY <1>4, Zenon DEF OwnerInv
  <2> QED BY <2>1, <2>2, Zenon DEF Owns
<1>5. ASSUME NEW j \in 1 .. Len(s), j # i, ~s[j].free
      PROVE  \E m \in 1 .. n : m # k /\ Owns(s, h, j, m)
  <2>1. PICK m \in 1 .. n : Owns(s, h, j, m)
    BY <1>5, Zenon DEF OwnerInv
  <2>2. s[j].addr # s[i].addr
    BY <1>5, AddrInjective, Zenon
  <2>3. s[j].addr + HEADER # s[i].addr + HEADER
    <3> DEFINE a == s[i].addr
               b == s[j].addr
    <3>1. a \in Nat /\ b \in Nat /\ HEADER \in Nat /\ a # b
        BY <2>2, BlockIs, HeapAssumption, Zenon
    <3> HIDE DEF a, b
    <3>2. b + HEADER # a + HEADER
        BY <3>1
    <3> QED BY <3>2, Zenon DEF a, b
  <2> QED BY <2>1, <2>3, Zenon DEF Owns
\* an index of g stands for an index of h other than k
<1>6. ASSUME NEW m \in 1 .. Len(g)
      PROVE  \E q \in 1 .. n : q # k /\ g[m] = h[q] /\ q = IF m < k THEN m ELSE m + 1
  <2>1. CASE m < k
    <3>1. m \in 1 .. n /\ m # k /\ m \in 1 .. n - 1
        BY <1>0, <1>1, <2>1
    <3>2. g[m] = h[m]
        BY <1>1, <2>1, <3>1, Zenon
    <3> QED BY <2>1, <3>1, <3>2, Zenon
  <2>2. CASE ~(m < k)
    <3>1. m + 1 \in 1 .. n /\ m + 1 # k /\ g[m] = h[m + 1]
        BY <1>0, <1>1, <2>2
    <3> QED BY <2>2, <3>1, Zenon
  <2> QED BY <2>1, <2>2, Zenon
<1>7. ASSUME NEW q \in 1 .. n, q # k
      PROVE  \E m \in 1 .. Len(g) : g[m] = h[q]
  <2>1. CASE q < k
    <3>1. q \in 1 .. n - 1 /\ g[q] = h[q]
        BY <1>0, <1>1, <2>1
    <3> QED BY <1>1, <3>1, Zenon
  <2>2. CASE q > k
    <3>1. q - 1 \in 1 .. n - 1 /\ ~(q - 1 < k) /\ (q - 1) + 1 = q
        BY <1>0, <2>2
    <3>2. g[q - 1] = h[q]
        BY <1>1, <3>1, ZenonT(60)
    <3> QED BY <1>1, <3>1, <3>2, ZenonT(60)
  <2>3. q < k \/ q > k
    BY <1>0, <1>7
  <2> QED BY <2>1, <2>2, <2>3, Zenon
<1>8. ASSUME NEW m \in 1 .. Len(g)
      PROVE  \E j \in 1 .. Len(t) : Owns(t, g, j, m)
  <2>1. PICK q \in 1 .. n : q # k /\ g[m] = h[q]
    BY <1>6, Zenon
  <2>2. PICK j \in 1 .. Len(s) : j # i /\ Owns(s, h, j, q)
    BY <1>4, <2>1, Zenon
  <2>3. PICK p \in 1 .. Len(t) : t[p] = s[j]
    BY <1>2, <2>2, Zenon DEF Owns
  <2> QED BY <2>1, <2>2, <2>3, ZenonT(60) DEF Owns
<1>9. ASSUME NEW m \in 1 .. Len(t), ~t[m].free
      PROVE  \E q \in 1 .. Len(g) : Owns(t, g, m, q)
  <2>1. PICK j \in 1 .. Len(s) : j # i /\ t[m] = s[j]
    BY <1>3, <1>9, Zenon
  <2>2. PICK q \in 1 .. n : q # k /\ Owns(s, h, j, q)
    BY <1>5, <1>9, <2>1, ZenonT(60)
  <2>3. PICK p \in 1 .. Len(g) : g[p] = h[q]
    BY <1>7, <2>2, ZenonT(60)
  <2>4. Owns(t, g, m, p)
    BY <2>1, <2>2, <2>3, ZenonT(60) DEF Owns
  <2> QED BY <2>4, Zenon
<1>10. ASSUME NEW p \in 1 .. Len(g), NEW q \in 1 .. Len(g), g[p].ptr = g[q].ptr
       PROVE  p = q
  <2>1. PICK a \in 1 .. n : g[p] = h[a] /\ a = IF p < k THEN p ELSE p + 1
    BY <1>6, Zenon
  <2>2. PICK b \in 1 .. n : g[q] = h[b] /\ b = IF q < k THEN q ELSE q + 1
    BY <1>6, Zenon
  <2>3. a = b
    <3>1. h[a].ptr = h[b].ptr
        BY <1>10, <2>1, <2>2, ZenonT(60)
    <3> QED BY <3>1, Zenon DEF OwnerInv
  <2>4. p \in Nat /\ q \in Nat /\ k \in Nat
    BY <1>0, <1>1
  <2>5. (IF p < k THEN p ELSE p + 1) = (IF q < k THEN q ELSE q + 1)
    BY <2>1, <2>2, <2>3, ZenonT(60)
  <2> QED BY <2>4, <2>5, SMTT(60)
<1> QED BY <1>1, <1>8, <1>9, <1>10, ZenonT(60) DEF OwnerInv

--------------------------------------------------------------------------------
\* Under LIFO use kmalloc() takes the last block, the only free one.
LEMMA AllocLifo ==
    ASSUME NEW s, LayoutInv(s), NEW h, OwnerInv(s, h), LifoInv(s, h), NEW t, NEW g,
           NEW i \in 1 .. Len(s), s[i].free, NEW request \in Requests, NEW d \in {0, 1},
           AllocView(s, t, i, d, request),
           g = Append(h, [ptr |-> s[i].addr + HEADER, size |-> request])
    PROVE  LifoInv(t, g)
<1> DEFINE new == [ptr |-> s[i].addr + HEADER, size |-> request]
           n == Len(h)
<1>0. h \in Seq(HeldSet) /\ n \in Nat /\ Len(s) \in Nat /\ i \in Nat /\ i >= 1 /\ i <= Len(s)
    BY BlockIs DEF OwnerInv
<1>1. \A k \in 1 .. n : ~s[k].free
    BY Zenon DEF LifoInv, Owns
<1>2. Len(s) = n \/ Len(s) = n + 1
    BY Zenon DEF LifoInv
<1>3. i = n + 1 /\ Len(s) = n + 1
    BY <1>0, <1>1, <1>2, SMTT(60)
<1>4. Len(g) = n + 1 /\ g[n + 1] = new /\ \A k \in 1 .. n : g[k] = h[k]
    BY <1>0
<1>5. new.ptr = t[i].addr + HEADER /\ new.size <= t[i].size
    BY Zenon DEF AllocView
<1> HIDE DEF new
<1>6. Owns(t, g, i, i)
    BY <1>3, <1>4, <1>5, ZenonT(60) DEF Owns, AllocView
<1>7. ASSUME NEW k \in 1 .. n PROVE Owns(t, g, k, k)
  <2>1. t[k] = s[k] /\ g[k] = h[k]
    BY <1>0, <1>3, <1>4, SMTT(60) DEF AllocView
  <2> QED BY <2>1, ZenonT(60) DEF LifoInv, Owns
<1>8. ASSUME NEW k \in 1 .. Len(g) PROVE Owns(t, g, k, k)
  <2>1. k \in 1 .. n \/ k = i
    BY <1>0, <1>3, <1>4, SMTT(60)
  <2> QED BY <1>6, <1>7, <2>1, ZenonT(60)
<1>9. Len(t) = Len(g) \/ (Len(t) = Len(g) + 1 /\ t[Len(t)].free)
  <2>1. CASE d = 0
    BY <1>0, <1>3, <1>4, <2>1, SMTT(60) DEF AllocView
  <2>2. CASE d = 1
    <3>1. Len(t) = i + 1 /\ Len(t) = Len(g) + 1
        BY <1>0, <1>3, <1>4, <2>2, ZenonT(60) DEF AllocView
    <3> QED BY <2>2, <3>1, Zenon DEF AllocView
  <2> QED BY <2>1, <2>2, ZenonT(60)
<1> QED BY <1>8, <1>9, Zenon DEF LifoInv

\* Giving back the newest allocation frees the last used block, and what is
\* free after it is merged into it.
LEMMA FreeLifo ==
    ASSUME NEW s, LayoutInv(s), NEW h, OwnerInv(s, h), LifoInv(s, h), NEW t, NEW g,
           Len(h) > 0, NEW i \in 1 .. Len(s), s[i].addr + HEADER = h[Len(h)].ptr,
           NEW d \in {0, 1}, FreeView(s, t, i, d), Returned(h, g, Len(h))
    PROVE  LifoInv(t, g)
<1> DEFINE n == Len(h)
<1>0. /\ h \in Seq(HeldSet) /\ n \in Nat /\ n \in 1 .. n
      /\ Len(s) \in Nat /\ i \in Nat /\ i >= 1 /\ i <= Len(s)
    BY BlockIs DEF OwnerInv
<1>1. Len(g) = n - 1 /\ \A m \in 1 .. n - 1 : g[m] = h[m]
  <2>1. /\ Len(g) = n - 1
        /\ \A m \in 1 .. n - 1 : g[m] = IF m < n THEN h[m] ELSE h[m + 1]
    BY Zenon DEF Returned
  <2>2. \A m \in 1 .. n - 1 : m < n
    BY <1>0
  <2> QED BY <2>1, <2>2, Zenon
<1>2. Len(s) = n \/ (Len(s) = n + 1 /\ s[Len(s)].free)
    BY Zenon DEF LifoInv
<1>3. i = n
  <2>1. n \in 1 .. Len(s) /\ s[n].addr + HEADER = s[i].addr + HEADER
    BY <1>0, <1>2 DEF LifoInv, Owns
  <2>2. s[n].addr = s[i].addr
    <3> DEFINE a == s[i].addr
               b == s[n].addr
    <3>1. a \in Nat /\ b \in Nat /\ HEADER \in Nat /\ b + HEADER = a + HEADER
        BY <2>1, BlockIs, HeapAssumption, ZenonT(60)
    <3> HIDE DEF a, b
    <3>2. b = a
        BY <3>1
    <3> QED BY <3>2, Zenon DEF a, b
  <2> QED BY <2>1, <2>2, AddrInjective, ZenonT(60)
<1>4. Len(t) = n
  <2>1. CASE Len(s) = n
    <3>1. d # 1
        BY <1>0, <1>3, <2>1, SMTT(60) DEF FreeView
    <3> QED BY <1>0, <2>1, <3>1, SMTT(60) DEF FreeView
  <2>2. CASE Len(s) = n + 1 /\ s[Len(s)].free
    BY <1>0, <1>3, <2>2, SMTT(60) DEF FreeView
  <2> QED BY <1>2, <2>1, <2>2, ZenonT(60)
<1>5. ASSUME NEW k \in 1 .. Len(g) PROVE Owns(t, g, k, k)
  <2>1. k \in 1 .. n - 1 /\ k \in 1 .. i - 1 /\ k \in 1 .. n
    BY <1>0, <1>1, <1>3, SMTT(60)
  <2>2. t[k] = s[k] /\ g[k] = h[k]
    BY <1>1, <2>1, ZenonT(60) DEF FreeView
  <2> QED BY <2>1, <2>2, ZenonT(60) DEF LifoInv, Owns
<1>6. Len(t) = Len(g) + 1 /\ t[Len(t)].free
    BY <1>0, <1>1, <1>3, <1>4, SMTT(60) DEF FreeView
<1> QED BY <1>5, <1>6, Zenon DEF LifoInv

--------------------------------------------------------------------------------
\* Writing one field of a header, or one header of the list
LEMMA SameBlock ==
    ASSUME NEW b \in BlockSet, NEW c \in BlockSet,
           b.addr = c.addr, b.size = c.size, b.free = c.free
    PROVE  b = c
BY DEF BlockSet

\* A block with its free flag rewritten.
LEMMA WithFree ==
    ASSUME NEW b \in BlockSet, NEW f \in BOOLEAN
    PROVE  /\ [b EXCEPT !.free = f] = Block(b.addr, b.size, f)
           /\ Block(b.addr, b.size, f) \in BlockSet
<1>1. /\ [b EXCEPT !.free = f] \in BlockSet /\ [b EXCEPT !.free = f].free = f
      /\ [b EXCEPT !.free = f].addr = b.addr /\ [b EXCEPT !.free = f].size = b.size
    BY Zenon DEF BlockSet
<1>2. /\ Block(b.addr, b.size, f) \in BlockSet /\ Block(b.addr, b.size, f).free = f
      /\ Block(b.addr, b.size, f).addr = b.addr /\ Block(b.addr, b.size, f).size = b.size
    BY Zenon DEF BlockSet, Block
<1> QED BY <1>1, <1>2, SameBlock, ZenonT(60)

\* A block with its size rewritten.
LEMMA WithSize ==
    ASSUME NEW b \in BlockSet, NEW n \in Nat
    PROVE  /\ [b EXCEPT !.size = n] = Block(b.addr, n, b.free)
           /\ Block(b.addr, n, b.free) \in BlockSet
BY DEF BlockSet, Block

\* A list with one block rewritten.
LEMMA ExceptIs ==
    ASSUME NEW S, NEW s \in Seq(S), NEW i \in 1 .. Len(s), NEW e \in S
    PROVE  /\ [s EXCEPT ![i] = e] \in Seq(S) /\ Len([s EXCEPT ![i] = e]) = Len(s)
           /\ [s EXCEPT ![i] = e][i] = e
           /\ \A k \in 1 .. Len(s) : k # i => [s EXCEPT ![i] = e][k] = s[k]
OBVIOUS

\* What kmalloc() writes: the block found, whole or cut down
LEMMA AllocList ==
    ASSUME LayoutInv(blocks), NEW i \in 1 .. Len(blocks), NEW size \in Nat,
           blocks[i].size >= size
    PROVE  LET t == [split_block(i, size) EXCEPT ![i].free = FALSE]
           IN  \/ Taken(blocks, t, i)
               \/ /\ blocks[i].size >= size + HEADER + HEAP_ALIGN
                  /\ Split(blocks, t, i, size)
<1> DEFINE b == blocks[i]
           t == [split_block(i, size) EXCEPT ![i].free = FALSE]
<1>0. /\ blocks \in Seq(BlockSet) /\ Len(blocks) \in Nat /\ i \in Nat
      /\ b \in BlockSet /\ b.addr \in Nat /\ b.size \in Nat
      /\ HEADER \in Nat /\ HEAP_ALIGN \in Nat
    BY BlockIs, HeapAssumption, ZenonT(60) DEF LayoutInv
<1>1. CASE b.size < size + HEADER + HEAP_ALIGN
  <2> DEFINE w == Block(b.addr, b.size, FALSE)
  <2>1. t = [blocks EXCEPT ![i].free = FALSE]
    BY <1>1, Zenon DEF split_block
  <2>2. [b EXCEPT !.free = FALSE] = w /\ w \in BlockSet
    BY <1>0, WithFree, Zenon
  <2>3. t = [blocks EXCEPT ![i] = w]
    BY <2>1, <2>2, Zenon
  <2> HIDE DEF t, w
  <2>4. /\ t \in Seq(BlockSet) /\ Len(t) = Len(blocks) /\ t[i] = w
        /\ \A k \in 1 .. Len(blocks) : k # i => t[k] = blocks[k]
    BY <1>0, <2>2, <2>3, ExceptIs, SMTT(60)
  <2>5. Taken(blocks, t, i)
    BY <2>4, Zenon DEF Taken, w
  <2> QED BY <2>5, Zenon DEF t
<1>2. CASE ~(b.size < size + HEADER + HEAP_ALIGN)
  <2> DEFINE r == Block(b.addr + HEADER + size, b.size - size - HEADER, TRUE)
             c == Block(b.addr, size, b.free)
             w == Block(b.addr, size, FALSE)
             u == [blocks EXCEPT ![i].size = size]
             v == InsertAt(u, i + 1, r)
  <2>1. t = [v EXCEPT ![i].free = FALSE]
    BY <1>2, Zenon DEF split_block
  <2>2. b.size >= size + HEADER + HEAP_ALIGN /\ b.size - size - HEADER \in Nat
    BY <1>0, <1>2
  <2>3. r \in BlockSet
    <3> DEFINE x == b.addr + HEADER + size
               y == b.size - size - HEADER
    <3>1. x \in Nat /\ y \in Nat
        BY <1>0, <2>2, SMTT(60)
    <3> HIDE DEF x, y
    <3>2. Block(x, y, TRUE) \in BlockSet
        BY <3>1, Zenon DEF Block, BlockSet
    <3> QED BY <3>2, Zenon DEF x, y
  <2>4. [b EXCEPT !.size = size] = c /\ c \in BlockSet
    BY <1>0, WithSize, Zenon
  <2>a. [c EXCEPT !.free = FALSE] = w /\ w \in BlockSet
    BY <2>4, WithFree, ZenonT(60) DEF Block
  <2>b. u = [blocks EXCEPT ![i] = c]
    BY <2>4, Zenon
  <2> HIDE DEF u, r, c, w
  <2>5. /\ u \in Seq(BlockSet) /\ Len(u) = Len(blocks) /\ u[i] = c
        /\ \A k \in 1 .. Len(blocks) : k # i => u[k] = blocks[k]
    BY <1>0, <2>4, <2>b, ExceptIs, SMTT(60)
  <2>6. /\ v \in Seq(BlockSet) /\ Len(v) = Len(u) + 1
        /\ \A k \in 1 .. Len(u) + 1 :
              v[k] = IF k < i + 1 THEN u[k] ELSE IF k = i + 1 THEN r ELSE u[k - 1]
    <3>1. i + 1 \in 1 .. Len(u) + 1 /\ u \in Seq(BlockSet)
        BY <1>0, <2>5, SMTT(60)
    <3> QED BY <2>3, <3>1, InsertIs, SMTT(60)
  <2> HIDE DEF v
  <2>7. /\ v \in Seq(BlockSet) /\ Len(v) = Len(blocks) + 1
        /\ \A k \in 1 .. i - 1 : v[k] = blocks[k]
        /\ v[i] = c /\ v[i + 1] = r
        /\ \A k \in i + 2 .. Len(blocks) + 1 : v[k] = blocks[k - 1]
    <3>1. Len(v) = Len(blocks) + 1
        BY <1>0, <2>5, <2>6, ZenonT(60)
    <3>2. ASSUME NEW k \in 1 .. i - 1 PROVE v[k] = blocks[k]
      <4>1. k \in 1 .. Len(u) + 1 /\ k < i + 1 /\ k \in 1 .. Len(blocks) /\ k # i
          BY <1>0, <2>5
      <4> QED BY <2>5, <2>6, <4>1, ZenonT(60)
    <3>3. v[i] = c /\ v[i + 1] = r
      <4>1. i \in 1 .. Len(u) + 1 /\ i < i + 1 /\ i + 1 \in 1 .. Len(u) + 1 /\ ~(i + 1 < i + 1)
          BY <1>0, <2>5
      <4> QED BY <2>5, <2>6, <4>1, ZenonT(60)
    <3>4. ASSUME NEW k \in i + 2 .. Len(blocks) + 1 PROVE v[k] = blocks[k - 1]
      <4>1. k \in 1 .. Len(u) + 1 /\ ~(k < i + 1) /\ k # i + 1
            /\ k - 1 \in 1 .. Len(blocks) /\ k - 1 # i
          BY <1>0, <2>5
      <4> QED BY <2>5, <2>6, <4>1, ZenonT(60)
    <3> QED BY <2>6, <3>1, <3>2, <3>3, <3>4, ZenonT(60)
  <2>8. t = [v EXCEPT ![i] = w]
    BY <2>1, <2>7, <2>a, ZenonT(60)
  <2> HIDE DEF t
  <2>9. /\ t \in Seq(BlockSet) /\ Len(t) = Len(v) /\ t[i] = w
        /\ \A k \in 1 .. Len(v) : k # i => t[k] = v[k]
    <3>1. i \in 1 .. Len(v) /\ v \in Seq(BlockSet)
        BY <1>0, <2>7, SMTT(60)
    <3> QED BY <2>8, <2>a, <3>1, ExceptIs, SMTT(60)
  <2>10. /\ t[i + 1] = v[i + 1]
         /\ \A k \in 1 .. i - 1 : t[k] = v[k]
         /\ \A k \in i + 2 .. Len(t) : t[k] = v[k]
    <3>1. i + 1 \in 1 .. Len(v) /\ i + 1 # i
        BY <1>0, <2>7, SMTT(60)
    <3>2. \A k \in 1 .. i - 1 : k \in 1 .. Len(v) /\ k # i
        BY <1>0, <2>7, SMTT(60)
    <3>3. \A k \in i + 2 .. Len(t) : k \in 1 .. Len(v) /\ k # i
        BY <1>0, <2>7, <2>9
    <3> QED BY <2>9, <3>1, <3>2, <3>3, ZenonT(60)
  <2>11. Len(t) = Len(blocks) + 1
    BY <2>7, <2>9, Zenon
  <2>12. Split(blocks, t, i, size)
    BY <2>7, <2>9, <2>10, <2>11, ZenonT(60) DEF Split, r, w
  <2> QED BY <2>2, <2>12, Zenon DEF t
<1> QED BY <1>1, <1>2, Zenon

\* What kfree() writes: the block freed, alone or with the one after it
LEMMA FreeList ==
    ASSUME LayoutInv(blocks), NEW i \in 1 .. Len(blocks)
    PROVE  LET freed == [blocks EXCEPT ![i].free = TRUE]
           IN  /\ Freed(blocks, freed, i)
               /\ i < Len(blocks) =>
                    Merged(blocks, RemoveAt([freed EXCEPT ![i].size =
                               @ + HEADER + blocks[i + 1].size], i + 1), i)
<1> DEFINE b == blocks[i]
           w == Block(b.addr, b.size, TRUE)
           freed == [blocks EXCEPT ![i].free = TRUE]
<1>0. /\ blocks \in Seq(BlockSet) /\ Len(blocks) \in Nat /\ i \in Nat
      /\ b \in BlockSet /\ b.addr \in Nat /\ b.size \in Nat /\ HEADER \in Nat
    BY BlockIs, HeapAssumption, Zenon DEF LayoutInv
<1>1. [b EXCEPT !.free = TRUE] = w /\ w \in BlockSet
    BY <1>0, WithFree, Zenon
<1>2. freed = [blocks EXCEPT ![i] = w]
    BY <1>1, Zenon
<1>w. w.addr = b.addr /\ w.size = b.size /\ w.free = TRUE
    BY Zenon DEF Block
<1> HIDE DEF freed, w
<1>3. /\ freed \in Seq(BlockSet) /\ Len(freed) = Len(blocks) /\ freed[i] = w
      /\ \A k \in 1 .. Len(blocks) : k # i => freed[k] = blocks[k]
    BY <1>0, <1>1, <1>2, ExceptIs, SMTT(60)
<1>4. Freed(blocks, freed, i)
    BY <1>3, Zenon DEF Freed, w
<1>5. ASSUME i < Len(blocks)
      PROVE  Merged(blocks, RemoveAt([freed EXCEPT ![i].size =
                        @ + HEADER + blocks[i + 1].size], i + 1), i)
  <2> DEFINE m == b.size + HEADER + blocks[i + 1].size
             x == Block(b.addr, m, TRUE)
             v == [freed EXCEPT ![i].size = @ + HEADER + blocks[i + 1].size]
             t == RemoveAt(v, i + 1)
  <2>1. i + 1 \in 1 .. Len(blocks) /\ m \in Nat
    <3>1. i + 1 \in 1 .. Len(blocks)
        BY <1>0, <1>5
    <3>2. blocks[i + 1].size \in Nat
        BY <3>1, BlockIs, Zenon
    <3> QED BY <1>0, <3>1, <3>2, SMTT(60)
  <2>2. freed[i].size + HEADER + blocks[i + 1].size = m
    BY <1>3, <1>w, Zenon
  <2> HIDE DEF m
  <2>3. [w EXCEPT !.size = m] = x /\ x \in BlockSet
    <3>1. [w EXCEPT !.size = m] = Block(w.addr, m, w.free) /\ Block(w.addr, m, w.free) \in BlockSet
        BY <1>1, <2>1, WithSize, ZenonT(60)
    <3> QED BY <1>w, <3>1, Zenon
  <2>4. v = [freed EXCEPT ![i] = x]
    BY <1>3, <2>2, <2>3, ZenonT(60)
  <2> HIDE DEF v, x
  <2>5. /\ v \in Seq(BlockSet) /\ Len(v) = Len(freed) /\ v[i] = x
        /\ \A k \in 1 .. Len(freed) : k # i => v[k] = freed[k]
    <3>1. i \in 1 .. Len(freed) /\ freed \in Seq(BlockSet)
        BY <1>3, Zenon
    <3> QED BY <2>3, <2>4, <3>1, ExceptIs, SMTT(60)
  <2>6. /\ v \in Seq(BlockSet) /\ Len(v) = Len(blocks) /\ v[i] = x
        /\ \A k \in 1 .. Len(blocks) : k # i => v[k] = blocks[k]
    BY <1>3, <2>5, Zenon
  <2>7. /\ t \in Seq(BlockSet) /\ Len(t) = Len(v) - 1
        /\ \A k \in 1 .. Len(v) - 1 : t[k] = IF k < i + 1 THEN v[k] ELSE v[k + 1]
    <3>1. i + 1 \in 1 .. Len(v) /\ v \in Seq(BlockSet)
        BY <2>1, <2>6, Zenon
    <3> QED BY <3>1, RemoveIs, Zenon
  <2> HIDE DEF t
  <2>8. Merged(blocks, t, i)
    <3>1. Len(t) = Len(blocks) - 1
        BY <2>6, <2>7, Zenon
    <3>2. ASSUME NEW k \in 1 .. i - 1 PROVE t[k] = blocks[k]
      <4>1. k \in 1 .. Len(v) - 1 /\ k < i + 1 /\ k \in 1 .. Len(blocks) /\ k # i
          BY <1>0, <1>5, <2>6, SMTT(60)
      <4> QED BY <2>6, <2>7, <4>1, ZenonT(60)
    <3>3. t[i] = x
      <4>1. i \in 1 .. Len(v) - 1 /\ i < i + 1
          BY <1>0, <1>5, <2>6, SMTT(60)
      <4> QED BY <2>6, <2>7, <4>1, ZenonT(60)
    <3>4. ASSUME NEW k \in i + 1 .. Len(t) PROVE t[k] = blocks[k + 1]
      <4>1. k \in 1 .. Len(v) - 1 /\ ~(k < i + 1) /\ k + 1 \in 1 .. Len(blocks) /\ k + 1 # i
          BY <1>0, <2>6, <2>7, SMTT(60)
      <4> QED BY <2>6, <2>7, <4>1, ZenonT(60)
    <3> QED BY <2>7, <3>1, <3>2, <3>3, <3>4, ZenonT(60) DEF Merged, x, m
  <2> QED BY <2>8, Zenon DEF t, v
<1> QED BY <1>4, <1>5, ZenonT(60) DEF freed

--------------------------------------------------------------------------------
\* heap_init() makes one free block of the region.
LEMMA HeapInit == Init => HeapInv
<1> SUFFICES ASSUME Init PROVE HeapInv
    BY Zenon
<1> DEFINE b == Block(0, HEAP_SIZE - HEADER, TRUE)
<1>1. HEAP_SIZE - HEADER \in Nat /\ HEAP_SIZE - HEADER >= HEAP_ALIGN
      /\ 0 + HEADER + (HEAP_SIZE - HEADER) = HEAP_SIZE
    BY HeapAssumption
<1>2. b \in BlockSet /\ b.addr = 0 /\ b.size = HEAP_SIZE - HEADER /\ b.free = TRUE
    BY <1>1, Zenon DEF Block, BlockSet
<1>3. BlockEnd(b) = HEAP_SIZE
    BY <1>1, <1>2, Zenon DEF BlockEnd
<1>4. blocks = <<b>> /\ held = << >> /\ lifo = TRUE
    BY Zenon DEF Init, heap_init
<1> HIDE DEF b
<1>5. blocks \in Seq(BlockSet) /\ Len(blocks) = 1 /\ blocks[1] = b
    BY <1>2, <1>4
<1>6. LayoutInv(blocks)
  <2>1. blocks # << >> /\ \A i, j \in 1 .. Len(blocks) : ~(i < j)
    BY <1>5
  <2>2. \A i \in 1 .. Len(blocks) : i = 1
    BY <1>5
  <2>3. blocks[1].size >= HEAP_ALIGN /\ BlockEnd(blocks[Len(blocks)]) = HEAP_SIZE
    BY <1>1, <1>2, <1>3, <1>5, ZenonT(60)
  <2>4. \A i \in 1 .. (Len(blocks) - 1) : FALSE
    BY <1>5
  <2> QED BY <1>2, <1>5, <2>1, <2>2, <2>3, <2>4, ZenonT(60) DEF LayoutInv
<1>7. held \in Seq(HeldSet) /\ Len(held) = 0
    BY <1>4
<1>8. \A i \in 1 .. Len(blocks) : blocks[i].free
    BY <1>2, <1>5
<1>9. OwnerInv(blocks, held)
    BY <1>7, <1>8 DEF OwnerInv
<1>10. LifoInv(blocks, held)
    BY <1>2, <1>5, <1>7 DEF LifoInv
<1> QED BY <1>4, <1>6, <1>9, <1>10, ZenonT(60) DEF HeapInv

\* kmalloc() served by block i
LEMMA AllocStep ==
    ASSUME HeapInv, NEW request \in Requests, kmalloc(request)
    PROVE  HeapInv'
<1> DEFINE size == RoundUp(request)
<1>0. LayoutInv(blocks) /\ OwnerInv(blocks, held)
    BY Zenon DEF HeapInv
<1>1. size \in Nat /\ size >= request /\ size >= HEAP_ALIGN /\ request \in Nat
      /\ HEADER \in Nat /\ HEAP_ALIGN \in Nat
    BY RoundUpIs, HeapAssumption, ZenonT(60)
<1>2. DOMAIN blocks = 1 .. Len(blocks)
    BY <1>0 DEF LayoutInv
<1>3. PICK i \in 1 .. Len(blocks) :
        /\ blocks[i].free /\ blocks[i].size >= size
        /\ blocks' = [split_block(i, size) EXCEPT ![i].free = FALSE]
        /\ held' = Append(held, [ptr |-> blocks[i].addr + HEADER, size |-> request])
        /\ lifo' = lifo
    BY <1>2, Zenon DEF kmalloc, Fits
<1> HIDE DEF size
<1>4. \/ Taken(blocks, blocks', i)
      \/ blocks[i].size >= size + HEADER + HEAP_ALIGN /\ Split(blocks, blocks', i, size)
    BY <1>0, <1>1, <1>3, AllocList, ZenonT(60)
<1>5. /\ blocks[i].size \in Nat /\ blocks[i].addr \in Nat
      /\ Len(blocks) \in Nat /\ i \in Nat /\ i >= 1 /\ i <= Len(blocks)
    BY <1>0, BlockIs
\* either way, seen from the owners
<1>6. \E d \in {0, 1} : LayoutInv(blocks') /\ AllocView(blocks, blocks', i, d, request)
  <2>1. CASE Taken(blocks, blocks', i)
    <3>1. LayoutInv(blocks')
        BY <1>0, <2>1, MarkLayout, ZenonT(60) DEF Taken
    <3>2. ~blocks'[i].free /\ blocks'[i].addr = blocks[i].addr /\ blocks'[i].size = blocks[i].size
        BY <2>1 DEF Taken, Block
    <3>3. request <= blocks[i].size
        BY <1>1, <1>3, <1>5, SMTT(60)
    <3>4. Len(blocks') = Len(blocks) + 0
        BY <1>5, <2>1 DEF Taken
    <3>5. \A k \in 1 .. i - 1 : blocks'[k] = blocks[k]
        BY <1>5, <2>1 DEF Taken
    <3>6. \A k \in i + 1 .. Len(blocks) : blocks'[k + 0] = blocks[k]
        BY <1>5, <2>1, SMTT(60) DEF Taken
    <3>7. AllocView(blocks, blocks', i, 0, request)
        BY <3>2, <3>3, <3>4, <3>5, <3>6, SMTT(60) DEF AllocView
    <3> QED BY <3>1, <3>7, Zenon
  <2>2. CASE blocks[i].size >= size + HEADER + HEAP_ALIGN /\ Split(blocks, blocks', i, size)
    <3>1. LayoutInv(blocks')
        BY <1>0, <1>1, <2>2, SplitLayout, ZenonT(60)
    <3>2. /\ ~blocks'[i].free /\ blocks'[i].addr = blocks[i].addr /\ blocks'[i].size = size
          /\ blocks'[i + 1].free
        BY <2>2 DEF Split, Block
    <3>3. Len(blocks') = Len(blocks) + 1 /\ \A k \in 1 .. i - 1 : blocks'[k] = blocks[k]
        BY <2>2, Zenon DEF Split
    <3>4. ASSUME NEW k \in i + 1 .. Len(blocks) PROVE blocks'[k + 1] = blocks[k]
      <4>1. k + 1 \in i + 2 .. Len(blocks') /\ (k + 1) - 1 = k
          BY <1>5, <3>3
      <4> QED BY <2>2, <4>1, Zenon DEF Split
    <3>5. AllocView(blocks, blocks', i, 1, request)
        BY <1>1, <3>2, <3>3, <3>4, ZenonT(60) DEF AllocView
    <3> QED BY <3>1, <3>5, Zenon
  <2> QED BY <1>4, <2>1, <2>2, Zenon
<1>7. PICK d \in {0, 1} : LayoutInv(blocks') /\ AllocView(blocks, blocks', i, d, request)
    BY <1>6, Zenon
<1>8. OwnerInv(blocks', held')
    BY <1>0, <1>3, <1>7, AllocOwners, ZenonT(60)
<1>9. ASSUME lifo PROVE LifoInv(blocks', held')
  <2>1. LifoInv(blocks, held)
    BY <1>9, Zenon DEF HeapInv
  <2> QED BY <1>0, <1>3, <1>7, <2>1, AllocLifo, ZenonT(60)
<1> QED BY <1>3, <1>7, <1>8, <1>9, ZenonT(60) DEF HeapInv

\* kfree() of allocation k
LEMMA FreeStep ==
    ASSUME HeapInv, NEW k \in DOMAIN held, Free(k)
    PROVE  HeapInv'
<1>0. LayoutInv(blocks) /\ OwnerInv(blocks, held)
    BY Zenon DEF HeapInv
<1>1. /\ DOMAIN blocks = 1 .. Len(blocks) /\ DOMAIN held = 1 .. Len(held)
      /\ held \in Seq(HeldSet) /\ Len(held) \in Nat /\ k \in 1 .. Len(held)
    BY <1>0 DEF LayoutInv, OwnerInv
<1>2. PICK i \in 1 .. Len(blocks) :
        /\ blocks[i].addr = held[k].ptr - HEADER
        /\ LET freed == [blocks EXCEPT ![i].free = TRUE]
           IN  blocks' =
                 IF i < Len(blocks) /\ blocks[i + 1].free
                 THEN RemoveAt([freed EXCEPT ![i].size =
                                  @ + HEADER + blocks[i + 1].size], i + 1)
                 ELSE freed
    BY <1>1, Zenon DEF Free, kfree
<1>3. held' = RemoveAt(held, k) /\ lifo' = (lifo /\ k = Len(held))
    BY Zenon DEF Free
<1>4. IF i < Len(blocks) /\ blocks[i + 1].free
      THEN Merged(blocks, blocks', i) ELSE Freed(blocks, blocks', i)
    BY <1>0, <1>2, FreeList, ZenonT(60)
<1>5. /\ blocks[i].addr \in Nat /\ HEADER \in Nat
      /\ Len(blocks) \in Nat /\ i \in Nat /\ i >= 1 /\ i <= Len(blocks)
    BY <1>0, BlockIs, HeapAssumption, SMTT(60)
<1>6. blocks[i].addr + HEADER = held[k].ptr
  <2>1. held[k].ptr \in Nat
    <3>1. held[k] \in HeldSet
        BY <1>1
    <3> QED BY <3>1, Zenon DEF HeldSet
  <2> QED BY <1>2, <1>5, <2>1, SMTT(60)
<1>7. PICK d \in {0, 1} : LayoutInv(blocks') /\ FreeView(blocks, blocks', i, d)
  <2>1. CASE i < Len(blocks) /\ blocks[i + 1].free
    <3>1. Merged(blocks, blocks', i) /\ i \in 1 .. Len(blocks) - 1
        BY <1>4, <1>5, <2>1
    <3>2. LayoutInv(blocks')
        BY <1>0, <3>1, MergeLayout, ZenonT(60)
    <3>3. blocks'[i].free /\ Len(blocks') = Len(blocks) - 1
          /\ \A j \in 1 .. i - 1 : blocks'[j] = blocks[j]
        BY <3>1 DEF Merged, Block
    <3>4. ASSUME NEW j \in i + 1 + 1 .. Len(blocks) PROVE blocks'[j - 1] = blocks[j]
      <4>1. j - 1 \in i + 1 .. Len(blocks') /\ (j - 1) + 1 = j
          BY <1>5, <3>3
      <4> QED BY <3>1, <4>1, Zenon DEF Merged
    <3>5. FreeView(blocks, blocks', i, 1)
        BY <2>1, <3>3, <3>4, Zenon DEF FreeView
    <3> QED BY <3>2, <3>5, Zenon
  <2>2. CASE ~(i < Len(blocks) /\ blocks[i + 1].free)
    <3>1. Freed(blocks, blocks', i)
        BY <1>4, <2>2, Zenon
    <3>2. LayoutInv(blocks')
        BY <1>0, <3>1, MarkLayout, ZenonT(60) DEF Freed
    <3>3. blocks'[i].free /\ Len(blocks') = Len(blocks) - 0
        BY <1>5, <3>1 DEF Freed, Block
    <3>4. /\ \A j \in 1 .. i - 1 : blocks'[j] = blocks[j]
          /\ \A j \in i + 1 + 0 .. Len(blocks) : blocks'[j - 0] = blocks[j]
        BY <1>5, <3>1 DEF Freed
    <3>5. FreeView(blocks, blocks', i, 0)
        BY <2>2, <3>3, <3>4, SMTT(60) DEF FreeView
    <3> QED BY <3>2, <3>5, Zenon
  <2> QED BY <2>1, <2>2, Zenon
<1>8. Returned(held, held', k)
    BY <1>1, <1>3, RemoveIs, Zenon DEF Returned
<1>9. OwnerInv(blocks', held')
    BY <1>0, <1>1, <1>6, <1>7, <1>8, FreeOwners, ZenonT(60)
<1>10. ASSUME lifo' PROVE LifoInv(blocks', held')
  <2>1. lifo /\ k = Len(held) /\ LifoInv(blocks, held) /\ Len(held) > 0
    <3>1. lifo /\ k = Len(held)
        BY <1>3, <1>10, Zenon
    <3> QED BY <1>1, <3>1 DEF HeapInv
  <2> QED BY <1>0, <1>6, <1>7, <1>8, <2>1, FreeLifo, ZenonT(60)
<1>11. lifo' \in BOOLEAN
    BY <1>3, Zenon
<1> QED BY <1>7, <1>9, <1>10, <1>11, ZenonT(60) DEF HeapInv

\* The invariant holds after any calls of kmalloc() and kfree().
LEMMA HeapInvariant == Spec => []HeapInv
<1>1. HeapInv /\ [Next]_vars => HeapInv'
  <2> SUFFICES ASSUME HeapInv, [Next]_vars PROVE HeapInv'
    BY Zenon
  <2>1. CASE Alloc
    BY <2>1, AllocStep, Zenon DEF Alloc
  <2>2. CASE \E k \in DOMAIN held : Free(k)
    BY <2>2, FreeStep, Zenon
  <2>3. CASE UNCHANGED vars
    BY <2>3, Zenon DEF vars, HeapInv
  <2> QED BY <2>1, <2>2, <2>3, Zenon DEF Next
<1> QED BY <1>1, HeapInit, PTL DEF Spec

\* After any calls of kmalloc() and kfree() the block list covers the region
\* without gaps or overlaps, no block is smaller than the alignment, and the
\* used blocks are exactly what callers hold, each at least as large as asked
\* for: for every region, header size, alignment and set of requests.
THEOREM Consistent == Spec => []HeapConsistent
<1>1. HeapInv => HeapConsistent
  <2> SUFFICES ASSUME HeapInv PROVE HeapConsistent
    BY Zenon
  <2>0. LayoutInv(blocks) /\ OwnerInv(blocks, held) /\ lifo \in BOOLEAN
    BY Zenon DEF HeapInv
  <2>1. /\ DOMAIN blocks = 1 .. Len(blocks) /\ DOMAIN held = 1 .. Len(held)
        /\ held \in Seq(HeldSet)
    BY <2>0 DEF LayoutInv, OwnerInv
  <2>2. ASSUME NEW i \in DOMAIN blocks
        PROVE  /\ blocks[i].addr \in 0 .. HEAP_SIZE - 1
               /\ blocks[i].size \in HEAP_ALIGN .. HEAP_SIZE
               /\ blocks[i].free \in BOOLEAN
               /\ blocks[i].addr + HEADER \in 0 .. HEAP_SIZE - 1
    <3>1. /\ blocks[i].addr \in Nat /\ blocks[i].size \in Nat /\ blocks[i].free \in BOOLEAN
          /\ blocks[i].size >= HEAP_ALIGN /\ BlockEnd(blocks[i]) <= HEAP_SIZE
        BY <2>0, <2>1, BlockIs, Zenon
    <3>2. blocks[i].addr + HEADER + blocks[i].size <= HEAP_SIZE
        BY <3>1, Zenon DEF BlockEnd
    <3> DEFINE a == blocks[i].addr
               z == blocks[i].size
    <3>3. a \in Nat /\ z \in Nat /\ z >= HEAP_ALIGN /\ a + HEADER + z <= HEAP_SIZE
        BY <3>1, <3>2, Zenon
    <3> HIDE DEF a, z
    <3>4. a \in 0 .. HEAP_SIZE - 1 /\ z \in HEAP_ALIGN .. HEAP_SIZE /\ a + HEADER \in 0 .. HEAP_SIZE - 1
        BY <3>3, HeapAssumption
    <3> QED BY <3>1, <3>4, Zenon DEF a, z
  <2>3. ASSUME NEW k \in DOMAIN held
        PROVE  held[k].ptr \in 0 .. HEAP_SIZE - 1 /\ held[k].size \in Requests
    <3>1. PICK i \in DOMAIN blocks : Owns(blocks, held, i, k)
        BY <2>0, <2>1, Zenon DEF OwnerInv
    <3>2. held[k].ptr \in 0 .. HEAP_SIZE - 1
        BY <2>2, <3>1, Zenon DEF Owns
    <3>3. held[k] \in HeldSet
        BY <2>1
    <3> QED BY <3>2, <3>3, Zenon DEF HeldSet
  <2>4. TypeOK
    BY <2>0, <2>2, <2>3, Zenon DEF TypeOK
  <2>5. /\ blocks[1].addr = 0
        /\ \A i \in 1 .. (Len(blocks) - 1) :
              blocks[i + 1].addr = blocks[i].addr + HEADER + blocks[i].size
        /\ Last(blocks).addr + HEADER + Last(blocks).size = HEAP_SIZE
    BY <2>0, Zenon DEF LayoutInv, BlockEnd, Last
  <2>6. /\ \A k \in DOMAIN held : \E i \in DOMAIN blocks :
              /\ ~blocks[i].free
              /\ held[k].ptr = blocks[i].addr + HEADER
              /\ held[k].size <= blocks[i].size
        /\ \A i \in DOMAIN blocks : ~blocks[i].free =>
              \E k \in DOMAIN held : held[k].ptr = blocks[i].addr + HEADER
    BY <2>0, <2>1, Zenon DEF OwnerInv, Owns
  <2>7. IsInjective([k \in DOMAIN held |-> held[k].ptr])
    BY <2>0, <2>1, ZenonT(60) DEF OwnerInv, IsInjective
  <2> QED BY <2>4, <2>5, <2>6, <2>7, Zenon DEF HeapConsistent
<1> QED BY <1>1, HeapInvariant, PTL

\* Merging forward only is enough for callers that give back what they got in
\* reverse order: once all is given back the heap is one free block again.
THEOREM LifoRestores == Spec => []LifoRestoresHeap
<1>1. HeapInv => LifoRestoresHeap
  <2> SUFFICES ASSUME HeapInv, lifo, held = << >>
               PROVE  blocks = << Block(0, HEAP_SIZE - HEADER, TRUE) >>
    BY Zenon DEF LifoRestoresHeap
  <2>1. LayoutInv(blocks) /\ LifoInv(blocks, held) /\ Len(held) = 0
    BY Zenon DEF HeapInv
  <2>2. blocks \in Seq(BlockSet) /\ blocks # << >> /\ blocks[1].addr = 0
        /\ BlockEnd(blocks[Len(blocks)]) = HEAP_SIZE
    BY <2>1, Zenon DEF LayoutInv
  <2>3. Len(blocks) = 1 /\ blocks[1].free
    BY <2>1, <2>2 DEF LifoInv
  <2>4. blocks[1] \in BlockSet /\ blocks = << blocks[1] >>
    BY <2>2, <2>3
  <2>5. blocks[1].size = HEAP_SIZE - HEADER
    <3>1. blocks[1].size \in Nat /\ 0 + HEADER + blocks[1].size = HEAP_SIZE
        BY <2>2, <2>3, <2>4, Zenon DEF BlockSet, BlockEnd
    <3> QED BY <3>1, HeapAssumption
  <2> DEFINE b == Block(0, HEAP_SIZE - HEADER, TRUE)
  <2>6. b \in BlockSet /\ b.addr = 0 /\ b.size = HEAP_SIZE - HEADER /\ b.free = TRUE
    BY <2>4, <2>5, Zenon DEF Block, BlockSet
  <2>7. blocks[1].free = TRUE
    BY <2>3, <2>4, ZenonT(60) DEF BlockSet
  <2> HIDE DEF b
  <2>8. blocks[1] = b
    BY <2>2, <2>4, <2>5, <2>6, <2>7, SameBlock, ZenonT(60)
  <2> QED BY <2>4, <2>8, Zenon DEF b
<1> QED BY <1>1, HeapInvariant, PTL
================================================================================
