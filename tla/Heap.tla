--------------------------------- MODULE Heap ----------------------------------
(***************************************************************************)
(* The kernel heap (heap.c): a first-fit list of blocks over a fixed       *)
(* region.  A block is a header followed by size usable bytes; kmalloc()   *)
(* splits the first free block that is large enough, kfree() merges the    *)
(* freed block with the one after it when that is free too.                *)
(*                                                                         *)
(* The list is the sequence of its headers, each with its address from the *)
(* start of the region, so the order of the list and the layout of memory  *)
(* are two different things that the properties relate.  kmalloc() and     *)
(* kfree() run with interrupts off and heap_lock held: one step each.      *)
(***************************************************************************)
EXTENDS Integers, Sequences, SequencesExt

CONSTANTS
    HEAP_SIZE,     \* size of the region
    HEADER,        \* sizeof(heap_block_t)
    HEAP_ALIGN,    \* requests are rounded up to a multiple of this
    Requests       \* sizes callers ask for, none of them 0

ASSUME HeapAssumption ==
    /\ HEADER \in Nat \ {0}
    /\ HEAP_ALIGN \in Nat \ {0}
    /\ HEAP_SIZE \in Nat /\ HEAP_SIZE >= HEADER + HEAP_ALIGN
    /\ Requests \subseteq Nat \ {0}

VARIABLES
    blocks,   \* the list from heap_head on: addr, size and free of each header
    held,     \* what callers hold, oldest first: pointer and requested size
    lifo      \* history: everything given back so far was the newest held

vars == <<blocks, held, lifo>>

Block(addr, size, free) == [addr |-> addr, size |-> size, free |-> free]

heap_init == blocks = << Block(0, HEAP_SIZE - HEADER, TRUE) >>

Init ==
    /\ heap_init
    /\ held = << >>
    /\ lifo = TRUE

RoundUp(size) == ((size + HEAP_ALIGN - 1) \div HEAP_ALIGN) * HEAP_ALIGN

\* the list with the block at position i cut down to size, if the rest is worth a header
split_block(i, size) ==
    LET b == blocks[i]
        remainder == Block(b.addr + HEADER + size, b.size - size - HEADER, TRUE)
    IN  IF b.size < size + HEADER + HEAP_ALIGN
        THEN blocks
        ELSE InsertAt([blocks EXCEPT ![i].size = size], i + 1, remainder)

Fits(i, size) == blocks[i].free /\ blocks[i].size >= size

\* A request no block can serve returns NULL and changes nothing.
kmalloc(request) ==
    LET size == RoundUp(request) IN
    \E i \in DOMAIN blocks :
        /\ Fits(i, size)
        /\ \A j \in 1 .. (i - 1) : ~Fits(j, size)
        /\ blocks' = [split_block(i, size) EXCEPT ![i].free = FALSE]
        /\ held' = Append(held, [ptr |-> blocks[i].addr + HEADER, size |-> request])
        /\ UNCHANGED lifo

\* mutant: the next block is taken in although it is in use
MutFreeMergesUsed(ptr) ==
    \E i \in DOMAIN blocks :
        /\ blocks[i].addr = ptr - HEADER
        /\ LET freed == [blocks EXCEPT ![i].free = TRUE]
           IN  blocks' =
                 IF i < Len(blocks)
                 THEN RemoveAt([freed EXCEPT ![i].size =
                                  @ + HEADER + blocks[i + 1].size], i + 1)
                 ELSE freed

\* mutant: freeing merges nothing
MutFreeDoesNotMerge(ptr) ==
    \E i \in DOMAIN blocks :
        /\ blocks[i].addr = ptr - HEADER
        /\ blocks' = [blocks EXCEPT ![i].free = TRUE]

\* kfree(): the block whose header precedes ptr takes in the next one if that is free
kfree(ptr) ==
    \E i \in DOMAIN blocks :
        /\ blocks[i].addr = ptr - HEADER
        /\ LET freed == [blocks EXCEPT ![i].free = TRUE]
           IN  blocks' =
                 IF i < Len(blocks) /\ blocks[i + 1].free
                 THEN RemoveAt([freed EXCEPT ![i].size =
                                  @ + HEADER + blocks[i + 1].size], i + 1)
                 ELSE freed

Free(k) ==
    /\ kfree(held[k].ptr)
    /\ held' = RemoveAt(held, k)
    /\ lifo' = (lifo /\ k = Len(held))

Alloc == \E request \in Requests : kmalloc(request)

Next ==
    \/ Alloc
    \/ \E k \in DOMAIN held : Free(k)

Spec == Init /\ [][Next]_vars

--------------------------------------------------------------------------------
(* Headers and allocations are well formed, and no block is smaller than   *)
(* the alignment: split_block() never leaves a sliver.                     *)
TypeOK ==
    /\ \A i \in DOMAIN blocks :
         /\ blocks[i].addr \in 0 .. HEAP_SIZE - 1
         /\ blocks[i].size \in HEAP_ALIGN .. HEAP_SIZE
         /\ blocks[i].free \in BOOLEAN
    /\ \A k \in DOMAIN held :
         held[k].ptr \in 0 .. HEAP_SIZE - 1 /\ held[k].size \in Requests
    /\ lifo \in BOOLEAN

(* The block list and what callers hold agree, however kmalloc() split and *)
(* kfree() merged the blocks: each block ends where the next header begins, *)
(* from the first byte of the region to the last, and the used blocks are   *)
(* exactly the allocations, each large enough, so that none overlaps        *)
(* another or covers a header, and no used block has lost its owner.        *)
HeapConsistent ==
    /\ TypeOK
    /\ blocks[1].addr = 0
    /\ \A i \in 1 .. (Len(blocks) - 1) :
         blocks[i + 1].addr = blocks[i].addr + HEADER + blocks[i].size
    /\ Last(blocks).addr + HEADER + Last(blocks).size = HEAP_SIZE
    /\ \A k \in DOMAIN held : \E i \in DOMAIN blocks :
         /\ ~blocks[i].free
         /\ held[k].ptr = blocks[i].addr + HEADER
         /\ held[k].size <= blocks[i].size
    /\ \A i \in DOMAIN blocks : ~blocks[i].free =>
         \E k \in DOMAIN held : held[k].ptr = blocks[i].addr + HEADER
    /\ IsInjective([k \in DOMAIN held |-> held[k].ptr])

(* Merging only forward is enough for callers that free in reverse order:  *)
(* kmain's heap self-test counts on the heap being one free block again    *)
(* once everything is given back.                                          *)
LifoRestoresHeap ==
    lifo /\ held = << >> => blocks = << Block(0, HEAP_SIZE - HEADER, TRUE) >>
================================================================================
