----------------------------- MODULE PageAllocator -----------------------------
(***************************************************************************)
(* What the physical page allocator promises its callers, without a        *)
(* bitmap: a page is free, held by exactly one caller, or out of reach.    *)
(* pmm_alloc_page() may return any free page, and returns NULL only when   *)
(* there is none; pmm_free_page() takes back a page that was handed out;   *)
(* pmm_reserve_region() puts pages out of reach for good.                  *)
(***************************************************************************)
CONSTANTS Page, NULL

VARIABLES free,  \* pages nobody has
          held,  \* pages handed out and not yet given back
          page   \* what the last pmm_alloc_page() returned

vars == <<free, held, page>>

Init ==
    /\ free \in SUBSET (Page \ {NULL})
    /\ held = {}
    /\ page = NULL

Alloc ==
    \E p \in free :
        /\ page' = p
        /\ free' = free \ {p}
        /\ held' = held \union {p}

AllocFails ==
    /\ free = {}
    /\ page' = NULL
    /\ UNCHANGED <<free, held>>

Free ==
    \E p \in held :
        /\ free' = free \union {p}
        /\ held' = held \ {p}
        /\ UNCHANGED page

Reserve ==
    /\ free' \subseteq free
    /\ UNCHANGED <<held, page>>

Next == Alloc \/ AllocFails \/ Free \/ Reserve

Spec == Init /\ [][Next]_vars
================================================================================
