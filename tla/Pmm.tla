---------------------------------- MODULE Pmm ----------------------------------
(***************************************************************************)
(* The physical memory manager (pmm.c) from pmm_init() on, with the boot   *)
(* order of kmain(): vmm_init() allocates the kernel's page tables, then   *)
(* heap_init() reserves the heap's fixed region, then anybody allocates.   *)
(*                                                                         *)
(* Pages are page numbers, and the bitmap is the set of pages whose bit is *)
(* 1.  Allocating and freeing run with interrupts off and pmm_lock held,   *)
(* so each is one step; pmm_reserve_region() takes no lock, but its only   *)
(* call is made by the boot core before any other core is started.         *)
(***************************************************************************)
EXTENDS Integers, FiniteSets, Sequences, FiniteSetsExt

CONSTANTS
    MemoryMaps,      \* the UEFI memory maps the loader may hand over
    PMM_PAGE_SIZE,   \* bytes per page
    HEAP_BASE,       \* first byte of the heap's region
    HEAP_SIZE,       \* its size in bytes
    BootTables,      \* pages vmm_init() takes: PML4, PDPT and one PD per GiB
    IdentityPages    \* pages vmm_init() identity-maps (4 GiB worth)

ASSUME PmmAssumption ==
    /\ PMM_PAGE_SIZE \in Nat \ {0}
    /\ HEAP_BASE \in Nat /\ HEAP_SIZE \in Nat
    /\ BootTables \in Nat
    /\ IdentityPages \in Nat
    /\ \A m \in MemoryMaps :
         /\ DOMAIN m \subseteq Nat
         /\ \A i \in DOMAIN m : m[i].start \in Nat /\ m[i].pages \in Nat

VARIABLES
    memory_map,      \* the map pmm_init() read
    bitmap,          \* pages whose bit is set
    bitmap_bits,     \* pages the bitmap covers
    bitmap_start,    \* first page of the bitmap itself
    free_pages,
    search_hint,     \* where the next scan starts
    phase,           \* "vmm_init", "heap_init", "running" or "panic"
    tables,          \* page tables vmm_init() has allocated
    held,            \* pages handed out and not given back
    page             \* what the last pmm_alloc_page() returned

vars == <<memory_map, bitmap, bitmap_bits, bitmap_start, free_pages,
          search_hint, phase, tables, held, page>>
fixed == <<memory_map, bitmap_bits, bitmap_start>>

NULL == 0

Span(d) == d.start .. (d.start + d.pages - 1)

type_is_usable(type) == type \in {"conventional", "boot_code", "boot_data"}

Usable(m) == {i \in DOMAIN m : type_is_usable(m[i].type)}

bitmap_bytes == (bitmap_bits + 7) \div 8

\* pass 2: the first conventional region that can host the bitmap
HostsBitmap(m, i) ==
    /\ m[i].type = "conventional"
    /\ m[i].pages * PMM_PAGE_SIZE >= bitmap_bytes

BitmapPages ==
    bitmap_start .. (bitmap_start
                     + (bitmap_bytes + PMM_PAGE_SIZE - 1) \div PMM_PAGE_SIZE - 1)

Tracked == 0 .. (bitmap_bits - 1)
Clear == Tracked \ bitmap

\* A map without a region for the bitmap makes pmm_init() panic; nothing runs then.
Init ==
    /\ memory_map \in MemoryMaps
    /\ LET ends == {memory_map[i].start + memory_map[i].pages :
                       i \in Usable(memory_map)}
       IN  /\ bitmap_bits \in {0} \union ends
           /\ \A e \in ends : e <= bitmap_bits
    /\ \E i \in DOMAIN memory_map :
         /\ HostsBitmap(memory_map, i)
         /\ \A j \in DOMAIN memory_map : HostsBitmap(memory_map, j) => i <= j
         /\ bitmap_start = memory_map[i].start
    /\ LET cleared == UNION {Span(memory_map[i]) : i \in Usable(memory_map)}
           claimed == BitmapPages \union {0}
       IN  /\ bitmap = Tracked \ (cleared \ claimed)
           /\ free_pages =
                MapThenSumSet(LAMBDA i : memory_map[i].pages, Usable(memory_map))
                - Cardinality(claimed \intersect cleared)
    /\ search_hint = 1
    /\ phase = "vmm_init"
    /\ tables = 0
    /\ held = {}
    /\ page = NULL

--------------------------------------------------------------------------------
\* how far a scan that starts at the hint walks before it reaches a bit
ScanDistance(bit) == (bit - search_hint) % bitmap_bits

\* the scan stops at bit: the clear one it meets first
FirstClear(bit) ==
    /\ bit \in Clear
    /\ \A other \in Clear : ScanDistance(bit) <= ScanDistance(other)

pmm_alloc_page(bit) ==
    /\ FirstClear(bit)
    /\ bitmap' = bitmap \union {bit}
    /\ free_pages' = free_pages - 1
    /\ search_hint' = bit + 1
    /\ held' = held \union {bit}
    /\ page' = bit
    /\ UNCHANGED fixed

\* mutant: the scan stops at the end of the bitmap instead of wrapping
MutScanDoesNotWrap ==
    /\ \A bit \in Clear : bit < search_hint
    /\ page' = NULL
    /\ UNCHANGED <<fixed, bitmap, free_pages, search_hint, held>>

pmm_alloc_page_fails ==
    /\ Clear = {}
    /\ page' = NULL
    /\ UNCHANGED <<fixed, bitmap, free_pages, search_hint, held>>

\* Callers give back pages they hold, so neither panic of the code is reached.
pmm_free_page(bit) ==
    /\ bit < bitmap_bits
    /\ bit \in bitmap
    /\ bitmap' = bitmap \ {bit}
    /\ free_pages' = free_pages + 1
    /\ held' = held \ {bit}
    /\ UNCHANGED <<fixed, search_hint, page>>

Region(phys_addr, size) ==
    {p \in Tracked :
        /\ p >= phys_addr \div PMM_PAGE_SIZE
        /\ p < (phys_addr + size + PMM_PAGE_SIZE - 1) \div PMM_PAGE_SIZE}

\* mutant: pages that were already used are counted down too
MutReserveCountsAll(phys_addr, size) ==
    /\ bitmap' = bitmap \union Region(phys_addr, size)
    /\ free_pages' = free_pages - Cardinality(Region(phys_addr, size))
    /\ UNCHANGED <<fixed, search_hint, held, page>>

\* mutant: the end is rounded down, one page short
MutReserveShort(phys_addr, size) ==
    /\ bitmap' = bitmap \union Region(phys_addr, size - 1)
    /\ free_pages' = free_pages - Cardinality(Region(phys_addr, size - 1) \ bitmap)
    /\ UNCHANGED <<fixed, search_hint, held, page>>

pmm_reserve_region(phys_addr, size) ==
    /\ bitmap' = bitmap \union Region(phys_addr, size)
    /\ free_pages' = free_pages - Cardinality(Region(phys_addr, size) \ bitmap)
    /\ UNCHANGED <<fixed, search_hint, held, page>>

--------------------------------------------------------------------------------
\* vmm_init(): alloc_table() once per table
VmmInit ==
    /\ phase = "vmm_init"
    /\ tables < BootTables
    /\ \E bit \in Tracked : pmm_alloc_page(bit)
    /\ tables' = tables + 1
    /\ UNCHANGED phase

\* alloc_table() panics when it gets no page
VmmInitPanics ==
    /\ phase = "vmm_init"
    /\ tables < BootTables
    /\ pmm_alloc_page_fails
    /\ phase' = "panic"
    /\ UNCHANGED tables

VmmInitDone ==
    /\ phase = "vmm_init"
    /\ tables = BootTables
    /\ phase' = "heap_init"
    /\ UNCHANGED <<fixed, bitmap, free_pages, search_hint, tables, held, page>>

HeapInit ==
    /\ phase = "heap_init"
    /\ pmm_reserve_region(HEAP_BASE, HEAP_SIZE)
    /\ phase' = "running"
    /\ UNCHANGED tables

Alloc ==
    /\ phase = "running"
    /\ \E bit \in Tracked : pmm_alloc_page(bit)
    /\ UNCHANGED <<phase, tables>>

AllocFails ==
    /\ phase = "running"
    /\ pmm_alloc_page_fails
    /\ UNCHANGED <<phase, tables>>

Free ==
    /\ phase = "running"
    /\ \E bit \in held : pmm_free_page(bit)
    /\ UNCHANGED <<phase, tables>>

\* panic() stops the machine
Panicked ==
    /\ phase = "panic"
    /\ UNCHANGED vars

Next ==
    \/ VmmInit \/ VmmInitPanics \/ VmmInitDone \/ HeapInit
    \/ Alloc \/ AllocFails \/ Free
    \/ Panicked

Spec == Init /\ [][Next]_vars

--------------------------------------------------------------------------------
\* What pmm_init() keeps from everybody: pages firmware does not declare
\* usable, the bitmap's own pages and page 0.
Withheld ==
    (Tracked \ UNION {Span(memory_map[i]) : i \in Usable(memory_map)})
    \union (Tracked \intersect (BitmapPages \union {0}))

\* the heap's region, once heap_init() has reserved it
Reserved == IF phase = "running" THEN Region(HEAP_BASE, HEAP_SIZE) ELSE {}

(* The allocator's variables keep their types; in particular the hint      *)
(* stays where the code's modulo brings it back into the bitmap, and the   *)
(* unsigned free_pages never wraps below zero.                             *)
TypeOK ==
    /\ memory_map \in MemoryMaps
    /\ bitmap_bits \in Nat /\ bitmap_start \in Nat
    /\ bitmap \subseteq Tracked
    /\ free_pages \in 0 .. bitmap_bits
    /\ search_hint \in 1 .. (bitmap_bits + 1)
    /\ phase \in {"vmm_init", "heap_init", "running", "panic"}
    /\ tables \in 0 .. BootTables
    /\ held \subseteq Tracked
    /\ page \in Tracked \union {NULL}

(* free_pages, which pmm_init() builds up descriptor by descriptor and     *)
(* every operation adjusts by hand, is the number of clear bits.           *)
FreeCountExact == free_pages = Cardinality(Clear)

(* Every set bit has a reason, and every reason a set bit: the page is     *)
(* held by a caller, withheld by pmm_init() or reserved for the heap.  So  *)
(* no page is lost, and the bitmap's own pages, page 0 and unusable memory *)
(* are never handed out.                                                   *)
BitmapExact ==
    /\ bitmap = held \union Withheld \union Reserved
    /\ held \intersect Withheld = {}

(* pmm.h says the heap's region is carved out "before anything else can    *)
(* claim it": when heap_init() has reserved it, it holds neither the       *)
(* bitmap nor a page some caller has.                                      *)
HeapRegionUnclaimed ==
    phase = "running" =>
        Region(HEAP_BASE, HEAP_SIZE) \intersect (BitmapPages \union held) = {}

(* The bitmap allocator implements the abstract one: a page comes from the *)
(* free set and goes to one holder, never NULL while a page is free,       *)
(* wherever the hint stands.                                               *)
Abstract == INSTANCE PageAllocator WITH Page <- Nat, free <- Clear
ImplementsPageAllocator == Abstract!Spec

(* pmm.h says physical and virtual addresses coincide "for any address a   *)
(* page allocated here could have", since the low 4 GiB are identity-mapped. *)
HeldPagesIdentityMapped == held \subseteq 0 .. (IdentityPages - 1)
================================================================================
