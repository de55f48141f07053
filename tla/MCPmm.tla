--------------------------------- MODULE MCPmm ---------------------------------
(* Small UEFI memory maps for Pmm.  Descriptors never overlap.             *)
EXTENDS Pmm

Descriptor(type, start, pages) == [type |-> type, start |-> start, pages |-> pages]

\* page 0 in a descriptor of its own, firmware holes, one of them in the heap's region
Scattered == << Descriptor("boot_data", 0, 1),
                Descriptor("conventional", 1, 1),
                Descriptor("reserved", 2, 1),
                Descriptor("conventional", 3, 3),
                Descriptor("boot_code", 6, 1),
                Descriptor("reserved", 7, 1),
                Descriptor("boot_code", 8, 1),
                Descriptor("reserved", 20, 4) >>

\* the bitmap lands on page 0
OneRegion == << Descriptor("conventional", 0, 9) >>

\* descriptors out of address order, the region for the bitmap listed last
Unordered == << Descriptor("boot_code", 8, 1),
                Descriptor("conventional", 9, 1),
                Descriptor("runtime", 10, 1),
                Descriptor("conventional", 0, 8) >>

\* nothing above the heap's region, which reaches past the last usable page
Short == << Descriptor("conventional", 0, 7),
            Descriptor("reserved", 7, 2) >>

\* too little memory for vmm_init()'s tables
Tiny == << Descriptor("conventional", 0, 2) >>

GoodMaps == {Scattered, OneRegion, Unordered, Short, Tiny}

\* the region that can host the bitmap starts where the heap will be
HeapFirst == << Descriptor("boot_data", 1, 2),
                Descriptor("conventional", 6, 4) >>
ScarceMaps == {HeapFirst}

\* memory remapped above the identity-mapped part
HighMemory == << Descriptor("conventional", 0, 8),
                 Descriptor("reserved", 8, 2),
                 Descriptor("conventional", 10, 2) >>
HighMaps == {HighMemory}
================================================================================
