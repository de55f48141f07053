------------------------------- MODULE PmmProofs -------------------------------
(***************************************************************************)
(* The bitmap allocator for every memory map, page size and heap region.   *)
(*                                                                         *)
(* IInv is inductive by itself: a page a caller holds, or one pmm_init()   *)
(* withholds, has its bit set, and the two kinds never meet.  From it      *)
(* follow the refinement of PageAllocator, that page 0 and the bitmap's    *)
(* own pages are never handed out, and (given that the heap's region was   *)
(* unclaimed when it was reserved) that the bitmap is exact.               *)
(***************************************************************************)
EXTENDS Pmm, FiniteSetTheorems, TLAPS

(* The allocator never hands out a page that pmm_init() withholds, and     *)
(* never forgets one that it handed out.                                   *)
IInv ==
    /\ memory_map \in MemoryMaps
    /\ bitmap_bits \in Nat
    /\ bitmap_start \in Nat
    /\ bitmap \subseteq Tracked
    /\ held \subseteq bitmap
    /\ Withheld \subseteq bitmap
    /\ held \intersect Withheld = {}
    /\ bitmap_bits # 0 => 0 \in Withheld
    /\ search_hint \in 1 .. (bitmap_bits + 1)
    /\ phase \in {"vmm_init", "heap_init", "running", "panic"}
    /\ tables \in 0 .. BootTables
    /\ page \in Tracked \union {NULL}

(* Tracked and Withheld depend only on what pmm_init() fixes.              *)
LEMMA FixedPages ==
    UNCHANGED fixed => Tracked' = Tracked /\ Withheld' = Withheld
BY DEF fixed, Tracked, Withheld, BitmapPages, bitmap_bytes, Usable,
       type_is_usable, Span

(* pmm_init() sets exactly the bits of the pages it withholds.             *)
LEMMA InitWithheld == Init => bitmap = Withheld
BY DEF Init, Withheld

(* The invariant holds when pmm_init() returns.                            *)
LEMMA InitInv == Init => IInv
<1> SUFFICES ASSUME Init PROVE IInv
  OBVIOUS
<1> DEFINE ends == {memory_map[i].start + memory_map[i].pages :
                       i \in Usable(memory_map)}
<1>1. bitmap_bits \in Nat
  <2>1. bitmap_bits \in {0} \union ends
    BY DEF Init
  <2>2. ends \subseteq Nat
    BY PmmAssumption DEF Init, Usable
  <2> QED BY <2>1, <2>2
<1>2. bitmap_start \in Nat
  <2>1. PICK i \in DOMAIN memory_map : bitmap_start = memory_map[i].start
    BY DEF Init
  <2> QED BY <2>1, PmmAssumption DEF Init
<1>3. bitmap = Withheld
  BY InitWithheld
<1>4. Withheld \subseteq Tracked
  BY DEF Withheld
<1>5. bitmap_bits # 0 => 0 \in Withheld
  BY <1>1 DEF Withheld, Tracked
<1>6. tables \in 0 .. BootTables
  BY PmmAssumption DEF Init
<1> QED BY <1>1, <1>2, <1>3, <1>4, <1>5, <1>6 DEF IInv, Init

(* pmm_alloc_page() keeps the invariant: the bit it sets was clear, so the *)
(* page was neither held nor withheld.                                     *)
LEMMA AllocInv ==
    ASSUME IInv, NEW bit \in Tracked, pmm_alloc_page(bit),
           phase' \in {"vmm_init", "heap_init", "running", "panic"},
           tables' \in 0 .. BootTables
    PROVE  IInv'
<1>1. UNCHANGED fixed /\ bit \in Clear
  BY DEF pmm_alloc_page, FirstClear
<1>2. Tracked' = Tracked /\ Withheld' = Withheld
  BY <1>1, FixedPages
<1>3. bit \notin bitmap
  BY <1>1 DEF Clear
<1>4. search_hint' \in 1 .. (bitmap_bits + 1)
  BY DEF pmm_alloc_page, Tracked, IInv
<1> QED BY <1>1, <1>2, <1>3, <1>4 DEF IInv, pmm_alloc_page, fixed

(* pmm_free_page() keeps the invariant: the page it gives up was held.     *)
LEMMA FreeInv ==
    ASSUME IInv, NEW bit \in held, pmm_free_page(bit), UNCHANGED <<phase, tables>>
    PROVE  IInv'
<1>1. UNCHANGED fixed
  BY DEF pmm_free_page
<1>2. Tracked' = Tracked /\ Withheld' = Withheld
  BY <1>1, FixedPages
<1> QED BY <1>1, <1>2 DEF IInv, pmm_free_page, fixed

(* Every step of the allocator and of the boot keeps the invariant.        *)
LEMMA NextInv == IInv /\ [Next]_vars => IInv'
<1> SUFFICES ASSUME IInv, [Next]_vars PROVE IInv'
  OBVIOUS
<1>1. CASE VmmInit
  <2>1. PICK bit \in Tracked : pmm_alloc_page(bit)
    BY <1>1 DEF VmmInit
  <2>2. tables' \in 0 .. BootTables /\ phase' = phase
    BY <1>1, PmmAssumption DEF VmmInit, IInv
  <2> QED BY <2>1, <2>2, AllocInv DEF IInv
<1>2. CASE VmmInitPanics
  <2>1. Tracked' = Tracked /\ Withheld' = Withheld
    BY <1>2, FixedPages DEF VmmInitPanics, pmm_alloc_page_fails
  <2> QED BY <1>2, <2>1 DEF VmmInitPanics, pmm_alloc_page_fails, IInv, fixed
<1>3. CASE VmmInitDone
  <2>1. Tracked' = Tracked /\ Withheld' = Withheld
    BY <1>3, FixedPages DEF VmmInitDone
  <2> QED BY <1>3, <2>1 DEF VmmInitDone, IInv, fixed
<1>4. CASE HeapInit
  <2>1. Tracked' = Tracked /\ Withheld' = Withheld
    BY <1>4, FixedPages DEF HeapInit, pmm_reserve_region
  <2>2. Region(HEAP_BASE, HEAP_SIZE) \subseteq Tracked
    BY DEF Region
  <2> QED BY <1>4, <2>1, <2>2 DEF HeapInit, pmm_reserve_region, IInv, fixed
<1>5. CASE Alloc
  <2>1. PICK bit \in Tracked : pmm_alloc_page(bit)
    BY <1>5 DEF Alloc
  <2> QED BY <1>5, <2>1, AllocInv DEF Alloc, IInv
<1>6. CASE AllocFails
  <2>1. Tracked' = Tracked /\ Withheld' = Withheld
    BY <1>6, FixedPages DEF AllocFails, pmm_alloc_page_fails
  <2> QED BY <1>6, <2>1 DEF AllocFails, pmm_alloc_page_fails, IInv, fixed
<1>7. CASE Free
  <2>1. PICK bit \in held : pmm_free_page(bit)
    BY <1>7 DEF Free
  <2> QED BY <1>7, <2>1, FreeInv DEF Free
<1>8. CASE UNCHANGED vars \/ Panicked
  <2>1. UNCHANGED vars
    BY <1>8 DEF Panicked
  <2>2. Tracked' = Tracked /\ Withheld' = Withheld
    BY <2>1, FixedPages DEF vars, fixed
  <2> QED BY <2>1, <2>2 DEF vars, IInv
<1> QED BY <1>1, <1>2, <1>3, <1>4, <1>5, <1>6, <1>7, <1>8 DEF Next

(* A page a caller holds, and every page pmm_init() withholds, stays       *)
(* marked used; no caller ever holds page 0, a page of the bitmap, or one  *)
(* firmware does not declare usable.                                       *)
THEOREM WithheldNeverHandedOut == Spec => []IInv
BY InitInv, NextInv, PTL DEF Spec

--------------------------------------------------------------------------------
(* Marking a clear page used takes exactly that page out of the clear ones, *)
(* and what the last scan returned is that page.                           *)
LEMMA AllocRefines ==
    ASSUME IInv, NEW bit \in Tracked, pmm_alloc_page(bit)
    PROVE  Abstract!Alloc
<1>1. Tracked' = Tracked
  BY FixedPages DEF pmm_alloc_page
<1>2. bit \in Clear
  BY DEF pmm_alloc_page, FirstClear
<1>3. Clear' = Clear \ {bit}
  BY <1>1 DEF Clear, pmm_alloc_page
<1> QED BY <1>2, <1>3 DEF Abstract!Alloc, pmm_alloc_page

(* A scan that finds nothing returns NULL, and there was no clear page.    *)
LEMMA AllocFailsRefines == pmm_alloc_page_fails => Abstract!AllocFails
<1> SUFFICES ASSUME pmm_alloc_page_fails PROVE Abstract!AllocFails
  OBVIOUS
<1>1. Tracked' = Tracked
  BY FixedPages DEF pmm_alloc_page_fails
<1> QED BY <1>1 DEF Abstract!AllocFails, pmm_alloc_page_fails, Clear

(* The bitmap allocator implements PageAllocator: pmm_alloc_page() gives a *)
(* free page to one holder and NULL only when no page is free, wherever    *)
(* search_hint stands; pmm_free_page() returns a held page to the free     *)
(* ones; pmm_reserve_region() only withdraws pages.                        *)
THEOREM Refinement == Spec => ImplementsPageAllocator
<1>1. Init => Abstract!Init
  <2> SUFFICES ASSUME Init PROVE Abstract!Init
    OBVIOUS
  <2>1. IInv
    BY InitInv
  <2>2. Clear \subseteq Nat \ {NULL}
    BY <2>1 DEF IInv, Clear, Tracked, NULL
  <2> QED BY <2>2 DEF Abstract!Init, Init
<1>2. IInv /\ [Next]_vars => [Abstract!Next]_(Abstract!vars)
  <2> SUFFICES ASSUME IInv, [Next]_vars
               PROVE  Abstract!Next \/ UNCHANGED Abstract!vars
    OBVIOUS
  <2>1. CASE VmmInit \/ Alloc
    <3>1. PICK bit \in Tracked : pmm_alloc_page(bit)
      BY <2>1 DEF VmmInit, Alloc
    <3> QED BY <3>1, AllocRefines DEF Abstract!Next
  <2>2. CASE VmmInitPanics \/ AllocFails
    BY <2>2, AllocFailsRefines DEF VmmInitPanics, AllocFails, Abstract!Next
  <2>3. CASE VmmInitDone
    BY <2>3, FixedPages DEF VmmInitDone, Abstract!vars, Clear
  <2>4. CASE HeapInit
    <3>1. Tracked' = Tracked
      BY <2>4, FixedPages DEF HeapInit, pmm_reserve_region
    <3>2. Clear' \subseteq Clear
      BY <2>4, <3>1 DEF HeapInit, pmm_reserve_region, Clear
    <3> QED BY <2>4, <3>2 DEF HeapInit, pmm_reserve_region, Abstract!Reserve,
                              Abstract!Next
  <2>5. CASE Free
    <3>1. PICK bit \in held : pmm_free_page(bit)
      BY <2>5 DEF Free
    <3>2. Tracked' = Tracked
      BY <3>1, FixedPages DEF pmm_free_page
    <3>3. Clear' = Clear \union {bit}
      BY <3>1, <3>2 DEF pmm_free_page, Clear, IInv
    <3> QED BY <3>1, <3>3 DEF pmm_free_page, Abstract!Free, Abstract!Next
  <2>6. CASE UNCHANGED vars \/ Panicked
    <3>1. UNCHANGED vars
      BY <2>6 DEF Panicked
    <3>2. Tracked' = Tracked
      BY <3>1, FixedPages DEF vars, fixed
    <3> QED BY <3>1, <3>2 DEF vars, Abstract!vars, Clear
  <2> QED BY <2>1, <2>2, <2>3, <2>4, <2>5, <2>6 DEF Next
<1> QED BY <1>1, <1>2, WithheldNeverHandedOut, PTL
        DEF Spec, ImplementsPageAllocator, Abstract!Spec

--------------------------------------------------------------------------------
(* The set of clear pages is finite.                                       *)
LEMMA ClearFinite == IInv => IsFiniteSet(Clear)
<1> SUFFICES ASSUME IInv PROVE IsFiniteSet(Clear)
  OBVIOUS
<1>1. IsFiniteSet(Tracked)
  BY FS_Interval DEF Tracked, IInv
<1> QED BY <1>1, FS_Subset DEF Clear

(* Every operation adjusts free_pages by as many bits as it changes.       *)
LEMMA CountStep == IInv /\ FreeCountExact /\ [Next]_vars => FreeCountExact'
<1> SUFFICES ASSUME IInv, FreeCountExact, [Next]_vars PROVE FreeCountExact'
  OBVIOUS
<1>f. IsFiniteSet(Clear)
  BY ClearFinite
<1>c. free_pages = Cardinality(Clear)
  BY DEF FreeCountExact
<1>1. CASE VmmInit \/ Alloc
  <2>1. PICK bit \in Tracked : pmm_alloc_page(bit)
    BY <1>1 DEF VmmInit, Alloc
  <2>2. Tracked' = Tracked
    BY <2>1, FixedPages DEF pmm_alloc_page
  <2>3. bit \in Clear /\ Clear' = Clear \ {bit}
    BY <2>1, <2>2 DEF Clear, pmm_alloc_page, FirstClear
  <2>4. Cardinality(Clear \ {bit}) = Cardinality(Clear) - 1
    BY <1>f, <2>3, FS_RemoveElement
  <2> QED BY <1>c, <2>1, <2>3, <2>4 DEF FreeCountExact, pmm_alloc_page
<1>2. CASE VmmInitPanics \/ AllocFails \/ VmmInitDone \/ Panicked \/ UNCHANGED vars
  <2>1. UNCHANGED <<fixed, bitmap, free_pages>>
    BY <1>2 DEF VmmInitPanics, AllocFails, VmmInitDone, Panicked, vars, fixed,
                pmm_alloc_page_fails
  <2> QED BY <1>c, <2>1, FixedPages DEF FreeCountExact, Clear
<1>3. CASE HeapInit
  <2> DEFINE taken == Region(HEAP_BASE, HEAP_SIZE) \ bitmap
  <2>1. Tracked' = Tracked
    BY <1>3, FixedPages DEF HeapInit, pmm_reserve_region
  <2>2. taken = Clear \intersect taken
    BY DEF Region, Clear
  <2>3. Clear' = Clear \ taken
    BY <1>3, <2>1 DEF HeapInit, pmm_reserve_region, Clear
  <2>4. Cardinality(Clear \ taken) = Cardinality(Clear) - Cardinality(Clear \intersect taken)
    BY <1>f, FS_Difference, Zenon
  <2>5. free_pages' = free_pages - Cardinality(taken)
    BY <1>3 DEF HeapInit, pmm_reserve_region
  <2> QED BY <1>c, <2>2, <2>3, <2>4, <2>5 DEF FreeCountExact
<1>4. CASE Free
  <2>1. PICK bit \in held : pmm_free_page(bit)
    BY <1>4 DEF Free
  <2>2. Tracked' = Tracked
    BY <2>1, FixedPages DEF pmm_free_page
  <2>3. bit \notin Clear /\ Clear' = Clear \union {bit}
    BY <2>1, <2>2 DEF Clear, pmm_free_page, IInv
  <2>4. Cardinality(Clear \union {bit}) = Cardinality(Clear) + 1
    BY <1>f, <2>3, FS_AddElement
  <2> QED BY <1>c, <2>1, <2>3, <2>4 DEF FreeCountExact, pmm_free_page
<1> QED BY <1>1, <1>2, <1>3, <1>4 DEF Next

(* If pmm_init() counted the free pages right (that is a sum over the      *)
(* memory map, left to the model checker), free_pages stays the number of  *)
(* clear bits through every allocation, reservation and free.              *)
THEOREM CountStaysExact == FreeCountExact /\ Spec => []FreeCountExact
BY CountStep, WithheldNeverHandedOut, PTL DEF Spec

(* From the same start, the variables keep their types: free_pages, an     *)
(* unsigned counter that is decremented unchecked, never wraps.            *)
THEOREM TypeCorrect == FreeCountExact /\ Spec => []TypeOK
<1>1. IInv /\ FreeCountExact => TypeOK
  <2> SUFFICES ASSUME IInv, FreeCountExact PROVE TypeOK
    OBVIOUS
  <2>1. IsFiniteSet(Tracked) /\ Cardinality(Tracked) = bitmap_bits
    <3>1. 0 \in Int /\ bitmap_bits - 1 \in Int /\ bitmap_bits \in Nat
      BY DEF IInv
    <3>2. Cardinality(Tracked) = IF 0 > bitmap_bits - 1 THEN 0
                                 ELSE (bitmap_bits - 1) - 0 + 1
      BY <3>1, FS_Interval DEF Tracked
    <3>3. IsFiniteSet(Tracked)
      BY <3>1, FS_Interval DEF Tracked
    <3> QED BY <3>1, <3>2, <3>3
  <2>2. Cardinality(Clear) \in Nat /\ Cardinality(Clear) <= Cardinality(Tracked)
    BY <2>1, ClearFinite, FS_Subset, FS_CardinalityType DEF Clear
  <2>3. free_pages \in 0 .. bitmap_bits
    BY <2>1, <2>2 DEF FreeCountExact, IInv
  <2> QED BY <2>3 DEF TypeOK, IInv
<1> QED BY <1>1, CountStaysExact, WithheldNeverHandedOut, PTL

--------------------------------------------------------------------------------
(* The bitmap stays exact across a step that leaves the heap's region      *)
(* unclaimed.                                                              *)
LEMMA ExactStep ==
    IInv /\ BitmapExact /\ HeapRegionUnclaimed /\ [Next]_vars => BitmapExact'
<1> SUFFICES ASSUME IInv, BitmapExact, HeapRegionUnclaimed, [Next]_vars
             PROVE  BitmapExact'
  OBVIOUS
<1>r. UNCHANGED fixed => Region(HEAP_BASE, HEAP_SIZE)' = Region(HEAP_BASE, HEAP_SIZE)
  BY FixedPages DEF Region
<1>i. (held \intersect Withheld = {})'
  BY NextInv DEF IInv
<1>1. CASE VmmInit \/ Alloc
  <2>1. PICK bit \in Tracked : pmm_alloc_page(bit)
    BY <1>1 DEF VmmInit, Alloc
  <2>2. Withheld' = Withheld /\ Reserved' = Reserved
    BY <1>1, <1>r, <2>1, FixedPages DEF pmm_alloc_page, Reserved, VmmInit, Alloc
  <2> QED BY <1>i, <2>1, <2>2 DEF BitmapExact, pmm_alloc_page
<1>2. CASE VmmInitPanics \/ AllocFails \/ VmmInitDone \/ Panicked \/ UNCHANGED vars
  <2>1. UNCHANGED <<fixed, bitmap, held>> /\ (phase = "running" <=> phase' = "running")
    BY <1>2 DEF VmmInitPanics, AllocFails, VmmInitDone, Panicked, vars, fixed,
                pmm_alloc_page_fails
  <2>2. Withheld' = Withheld /\ Reserved' = Reserved
    BY <1>r, <2>1, FixedPages DEF Reserved
  <2> QED BY <2>1, <2>2 DEF BitmapExact
<1>3. CASE HeapInit
  <2>1. Withheld' = Withheld /\ Reserved' = Region(HEAP_BASE, HEAP_SIZE)
    BY <1>3, <1>r, FixedPages DEF HeapInit, pmm_reserve_region, Reserved
  <2>2. Reserved = {}
    BY <1>3 DEF HeapInit, Reserved
  <2> QED BY <1>3, <1>i, <2>1, <2>2 DEF BitmapExact, HeapInit, pmm_reserve_region
<1>4. CASE Free
  <2>1. PICK bit \in held : pmm_free_page(bit)
    BY <1>4 DEF Free
  <2>2. Withheld' = Withheld /\ Reserved' = Reserved
    BY <1>4, <1>r, <2>1, FixedPages DEF Free, pmm_free_page, Reserved
  <2>3. bit \notin Reserved
    BY <1>4, <2>1 DEF HeapRegionUnclaimed, Reserved, Free
  <2> QED BY <1>i, <2>1, <2>2, <2>3 DEF BitmapExact, pmm_free_page
<1> QED BY <1>1, <1>2, <1>3, <1>4 DEF Next

(* As long as nobody claimed the heap's region before heap_init(), a bit   *)
(* is set exactly when its page is held, withheld or reserved: no page is  *)
(* lost and none is handed out twice.                                      *)
THEOREM BitmapStaysExact == Spec /\ []HeapRegionUnclaimed => []BitmapExact
<1>1. Init => BitmapExact
  BY InitWithheld DEF BitmapExact, Reserved, Init
<1> QED BY <1>1, ExactStep, WithheldNeverHandedOut, PTL DEF Spec
================================================================================
