------------------------------ MODULE AddressSpace ------------------------------
(***************************************************************************)
(* The private part of a process's address space: vmm.c's page tables, the *)
(* ELF loader that fills them (elf_loader.c), and the system calls and the *)
(* fault handler that extend them (SYS_SBRK, SYS_FB_MAP, demand-paged      *)
(* stack), all taking page frames from the one physical allocator.         *)
(*                                                                         *)
(* The pages of the window, the break and the layout's addresses are       *)
(* counted from PROCESS_PRIVATE_VADDR, where PML4[1] begins; the window is *)
(* small enough for a single page directory, as the 256 MiB layout of      *)
(* elf_loader.h is.  The pointer checks and the walk take whole addresses: *)
(* the identity map every space shares through PML4[0] comes first, the    *)
(* window starts at page Private, and the walk looks only at the low 48    *)
(* bits, so the same SPACE pages come round Aliases times.  Physical page  *)
(* n is frame n.                                                           *)
(*                                                                         *)
(* Mappings are only ever added, and a process has one thread, so the      *)
(* processes meet only in the pool of free frames.  Nothing gives a frame  *)
(* back: a dead process keeps its space.                                   *)
(*                                                                         *)
(* The allocations one vmm_map_page() may need happen in one step; the     *)
(* pool only shrinks, so another process taking a frame between two of     *)
(* them has the same result as taking it before the first.                 *)
(***************************************************************************)
EXTENDS Integers, Sequences, FiniteSets, FiniteSetsExt

CONSTANTS
    Processes,
    NumFrames,      \* free page frames at boot
    PAGE,           \* PMM_PAGE_SIZE
    Window,         \* pages of user addresses modelled
    IdentityPages,  \* pages of the identity map, IDENTITY_MAP_GIB
    ExecLimit,      \* the first of them that is not open to user programs, KERNEL_EXEC_LIMIT
    Private,        \* page of PROCESS_PRIVATE_VADDR
    SPACE,          \* pages the 48 bits a walk looks at tell apart
    Aliases,        \* 64-bit addresses with the same 48 bits
    TableSpan,      \* pages one page table covers
    Segments,       \* the program's pages: page and write, in loading order
    HeapPage,       \* page of USER_HEAP_VADDR_START
    FbPage,         \* page of USER_FB_VADDR
    FbPages,        \* pages of the framebuffer
    StackTopPage,   \* first page above the stack, ELF_USER_STACK_TOP
    StackMaxPages,  \* ELF_USER_STACK_MAX_PAGES
    Increments,     \* what programs pass to SYS_SBRK
    Lengths         \* lengths of the buffers they pass to system calls

ASSUME LayoutAssumption ==
    /\ {PAGE, TableSpan, FbPages, StackMaxPages, Aliases} \subseteq Nat \ {0}
    /\ {NumFrames, Window, HeapPage, FbPage, StackTopPage} \subseteq Nat
    /\ {IdentityPages, ExecLimit, Private, SPACE} \subseteq Nat
    /\ ExecLimit <= IdentityPages /\ IdentityPages <= Private /\ Private + Window < SPACE
    /\ Increments \subseteq Nat
    /\ Lengths \subseteq 0 .. Aliases * SPACE * PAGE - 1   \* as wide as an address
    /\ Segments \in Seq([page : Nat, write : BOOLEAN])
    \* the loader does not test that segments share no page; the programs' layout keeps it
    /\ \A i, j \in DOMAIN Segments : Segments[i].page = Segments[j].page => i = j
    /\ \A i \in DOMAIN Segments : Segments[i].page \in 1 .. HeapPage - 1
    /\ HeapPage < FbPage
    /\ FbPage + FbPages <= StackTopPage - StackMaxPages
    /\ StackTopPage <= Window

Frames == 1 .. NumFrames
Pages == 0 .. Window - 1
Table(page) == page \div TableSpan
Tables == { Table(page) : page \in Pages }
ADDRESSES == Aliases * SPACE * PAGE
StackLow == StackTopPage - StackMaxPages
HeapStart == HeapPage * PAGE
FbFrame(i) == NumFrames + 1 + i     \* the framebuffer lies outside the pool
Absent == [frame |-> 0, write |-> FALSE, user |-> FALSE]
UserLeaf(frame, write) == [frame |-> frame, write |-> write, user |-> TRUE]
None == "none"

VARIABLES
    free,      \* frames pmm_alloc_page() can still return
    dirs,      \* per process, the frames of its PML4, PDPT and page directory
    tables,    \* per process and page table, the table's frame, 0 if not present
    leaf,      \* per process and page, the leaf entry
    brk,       \* thread_t.heap_brk
    pc,        \* what the process, or the one loading it, is doing
    cursor,    \* the loop variable of that operation
    goal,      \* SYS_SBRK's new_brk
    panicked   \* the operation that halted the kernel, or None

vars == <<free, dirs, tables, leaf, brk, pc, cursor, goal, panicked>>

Init ==
    /\ free = Frames
    /\ dirs = [p \in Processes |-> {}]
    /\ tables = [p \in Processes |-> [t \in Tables |-> 0]]
    /\ leaf = [p \in Processes |-> [page \in Pages |-> Absent]]
    /\ brk = [p \in Processes |-> HeapStart]
    /\ pc = [p \in Processes |-> "new"]
    /\ cursor = [p \in Processes |-> 0]
    /\ goal = [p \in Processes |-> HeapStart]
    /\ panicked = None

At(p, place) == panicked = None /\ pc[p] = place
Goto(p, place, at) ==
    /\ pc' = [pc EXCEPT ![p] = place]
    /\ cursor' = [cursor EXCEPT ![p] = at]

panic(call) ==
    /\ panicked' = call
    /\ UNCHANGED <<free, dirs, tables, leaf>>

\* vmm_init(): the identity map, writable throughout
IdentityLeaf(page) == [frame |-> page, write |-> TRUE, user |-> page < ExecLimit]

\* The leaf entry of a page of p's space, Absent if a level is not present.
\* The levels above the page tables are there throughout the window.
walk_to_leaf(p, vpage) ==
    LET page == vpage % SPACE
        own == page - Private
    IN  IF page < IdentityPages THEN IdentityLeaf(page)
        ELSE IF own \in Pages /\ tables[p][Table(own)] # 0 THEN leaf[p][own]
        ELSE Absent

vmm_page_present(p, vpage) == walk_to_leaf(p, vpage) # Absent

\* Installs one leaf, with a new page table under it if there is none yet.
\* pool: the frames still free once the page's own frame is taken.
vmm_map_page(p, page, frame, write, pool, call) ==
    IF tables[p][Table(page)] = 0 /\ pool = {}
    THEN panic(call)
    ELSE LET new == tables[p][Table(page)] = 0
         IN  /\ leaf' = [leaf EXCEPT ![p][page] = UserLeaf(frame, write)]
             /\ tables' = IF new THEN [tables EXCEPT ![p][Table(page)] = Min(pool)]
                                 ELSE tables
             /\ free' = IF new THEN pool \ {Min(pool)} ELSE pool
             /\ UNCHANGED <<dirs, panicked>>

MapFresh(p, page, write, call) ==
    vmm_map_page(p, page, Min(free), write, free \ {Min(free)}, call)

--------------------------------------------------------------------------------
(* Loading a program *)

vmm_create_address_space(p) ==
    /\ At(p, "new")
    /\ Goto(p, "load", 1)
    /\ IF Cardinality(free) < 5
       THEN panic("spawn")
       ELSE LET d == Min(free) .. Min(free) + 2       \* the pool is consumed in order
                t == Min(free \ d)
                page == Min(free \ (d \cup {t}))
            IN  /\ dirs' = [dirs EXCEPT ![p] = d]
                /\ tables' = [tables EXCEPT ![p][0] = t]
                /\ leaf' = [leaf EXCEPT ![p][0] = UserLeaf(page, TRUE)]
                /\ free' = free \ (d \cup {t, page})
                /\ UNCHANGED panicked
    /\ UNCHANGED <<brk, goal>>

\* elf_load_user_program(): the segments' pages, then the top page of the stack
LoadPage(p) ==
    LET i == cursor[p]
        stack == i > Len(Segments)
        page == IF stack THEN StackTopPage - 1 ELSE Segments[i].page
        write == stack \/ Segments[i].write
    IN  /\ At(p, "load")
        /\ IF free = {} THEN panic("spawn") ELSE MapFresh(p, page, write, "spawn")
        /\ IF stack THEN Goto(p, "run", 0) ELSE Goto(p, "load", i + 1)
        /\ UNCHANGED <<brk, goal>>

--------------------------------------------------------------------------------
(* SYS_SBRK.  A negative increment returns -1 at once. *)

RoundUpPage(addr) == (addr + PAGE - 1) \div PAGE

SYS_SBRK(p, increment) ==
    /\ At(p, "run")
    /\ RoundUpPage(brk[p] + increment) <= Window      \* bound of the model
    /\ goal' = [goal EXCEPT ![p] = brk[p] + increment]
    /\ Goto(p, "sbrk", brk[p] \div PAGE)
    /\ UNCHANGED <<free, dirs, tables, leaf, brk, panicked>>

\* mutant: every page is mapped, whether one is there already or not
MutSbrkMapsAll(p) ==
    /\ At(p, "sbrk")
    /\ cursor[p] < RoundUpPage(goal[p])
    /\ free # {}
    /\ MapFresh(p, cursor[p], TRUE, "sbrk")
    /\ Goto(p, "sbrk", cursor[p] + 1)
    /\ UNCHANGED <<brk, goal>>

\* mutant: out of memory ends the loop as if it were complete
MutSbrkIgnoresOom(p) ==
    /\ At(p, "sbrk")
    /\ cursor[p] < RoundUpPage(goal[p])
    /\ IF vmm_page_present(p, Private + cursor[p]) \/ free = {}
       THEN /\ Goto(p, "sbrk", cursor[p] + 1)
            /\ UNCHANGED <<free, dirs, tables, leaf, panicked>>
       ELSE /\ MapFresh(p, cursor[p], TRUE, "sbrk")
            /\ Goto(p, "sbrk", cursor[p] + 1)
    /\ UNCHANGED <<brk, goal>>

SbrkPage(p) ==
    /\ At(p, "sbrk")
    /\ cursor[p] < RoundUpPage(goal[p])
    /\ \/ /\ vmm_page_present(p, Private + cursor[p])
          /\ Goto(p, "sbrk", cursor[p] + 1)
          /\ UNCHANGED <<free, dirs, tables, leaf, panicked>>
       \/ /\ ~vmm_page_present(p, Private + cursor[p])
          /\ free # {}
          /\ MapFresh(p, cursor[p], TRUE, "sbrk")
          /\ Goto(p, "sbrk", cursor[p] + 1)
       \/ /\ ~vmm_page_present(p, Private + cursor[p])
          /\ free = {}                                \* returns -1
          /\ Goto(p, "run", 0)
          /\ UNCHANGED <<free, dirs, tables, leaf, panicked>>
    /\ UNCHANGED <<brk, goal>>

SbrkDone(p) ==
    /\ At(p, "sbrk")
    /\ cursor[p] >= RoundUpPage(goal[p])
    /\ brk' = [brk EXCEPT ![p] = goal[p]]
    /\ Goto(p, "run", 0)
    /\ UNCHANGED <<free, dirs, tables, leaf, goal, panicked>>

--------------------------------------------------------------------------------
(* SYS_FB_MAP *)

SYS_FB_MAP(p) ==
    /\ At(p, "run")
    /\ Goto(p, "fb", 0)
    /\ UNCHANGED <<free, dirs, tables, leaf, brk, goal, panicked>>

FbMapPage(p) ==
    LET page == FbPage + cursor[p]
    IN  /\ At(p, "fb")
        /\ IF cursor[p] = FbPages \/ vmm_page_present(p, Private + page)
           THEN UNCHANGED <<free, dirs, tables, leaf, panicked>>
           ELSE vmm_map_page(p, page, FbFrame(cursor[p]), TRUE, free, "fb")
        /\ IF cursor[p] = FbPages THEN Goto(p, "run", 0) ELSE Goto(p, "fb", cursor[p] + 1)
        /\ UNCHANGED <<brk, goal>>

--------------------------------------------------------------------------------
(* Page faults, and the end of a process *)

\* exception_handler(), vector 14, for an instruction touching an absent page
elf_handle_stack_fault(p, page) ==
    /\ At(p, "run")
    /\ ~vmm_page_present(p, Private + page)
    /\ IF page \in StackLow .. StackTopPage - 1 /\ free # {}
       THEN MapFresh(p, page, TRUE, "stack") /\ UNCHANGED <<pc, cursor>>
       ELSE Goto(p, "dead", 0) /\ UNCHANGED <<free, dirs, tables, leaf, panicked>>
    /\ UNCHANGED <<brk, goal>>

\* SYS_EXIT, or any other exception: the address space stays as it is
Exit(p) ==
    /\ At(p, "run")
    /\ Goto(p, "dead", 0)
    /\ UNCHANGED <<free, dirs, tables, leaf, brk, goal, panicked>>

--------------------------------------------------------------------------------
(* Buffers and strings passed to system calls *)

\* The tests on one page of the range
Allows(p, vpage, write) ==
    LET entry == walk_to_leaf(p, vpage)
    IN  entry # Absent /\ entry.user /\ (write => entry.write)

\* mutant: the page has to be there, not to be the user's
MutChecksPresence(p, vaddr, len, write) ==
    LET end == (vaddr + len) % ADDRESSES
    IN  \/ len = 0
        \/ /\ end >= vaddr
           /\ \A page \in vaddr \div PAGE .. RoundUpPage(end) - 1 :
                /\ vmm_page_present(p, page)
                /\ write => walk_to_leaf(p, page).write

vmm_check_range(p, vaddr, len, write) ==
    LET end == (vaddr + len) % ADDRESSES
    IN  \/ len = 0
        \/ /\ end >= vaddr
           /\ \A page \in vaddr \div PAGE .. RoundUpPage(end) - 1 : Allows(p, page, write)

\* Whether the copy of a string whose NUL is n bytes on gets through its tests
copy_user_string(p, vaddr, n) ==
    \A i \in 0 .. n : (vaddr + i) % PAGE = 0 \/ i = 0 =>
                      vmm_check_range(p, (vaddr + i) % ADDRESSES, 1, FALSE)

\* Memory a program may read, or write: its segments, the heap below its
\* break, the framebuffer once mapped, and the stack it was promised.
Owns(p, page, write) ==
    \/ \E i \in DOMAIN Segments : Segments[i].page = page /\ (write => Segments[i].write)
    \/ page \in HeapPage .. RoundUpPage(brk[p]) - 1
    \/ page \in FbPage .. FbPage + FbPages - 1 /\ vmm_page_present(p, Private + page)
    \/ page \in StackLow .. StackTopPage - 1

\* A system call that fills a buffer, SYS_READ_FILE for one; user_ptr_valid()
\* failing is fatal.  What is written to the buffer is not modelled.
BufferSyscall(p, vaddr, len) ==
    /\ At(p, "run")
    /\ \A addr \in vaddr .. vaddr + len - 1 : Owns(p, addr \div PAGE, TRUE)
    /\ IF vmm_check_range(p, Private * PAGE + vaddr, len, TRUE)
       THEN UNCHANGED <<free, dirs, tables, leaf, panicked>>
       ELSE panic("buffer")
    /\ UNCHANGED <<brk, pc, cursor, goal>>

--------------------------------------------------------------------------------
Halted ==
    /\ panicked # None \/ \A p \in Processes : pc[p] = "dead"
    /\ UNCHANGED vars

Next ==
    \/ \E p \in Processes :
        \/ vmm_create_address_space(p)
        \/ LoadPage(p)
        \/ \E increment \in Increments : SYS_SBRK(p, increment)
        \/ SbrkPage(p)
        \/ SbrkDone(p)
        \/ SYS_FB_MAP(p)
        \/ FbMapPage(p)
        \/ \E page \in Pages : elf_handle_stack_fault(p, page)
        \/ Exit(p)
        \/ \E vaddr \in 0 .. Window * PAGE - 1, len \in Lengths : BufferSyscall(p, vaddr, len)
    \/ Halted

Spec == Init /\ [][Next]_vars

--------------------------------------------------------------------------------
(* Properties *)

Leaves == [frame : 0 .. NumFrames + FbPages, write : BOOLEAN, user : BOOLEAN]

\* Every variable keeps its type; a break never lies below the heap's start,
\* and an operation's cursor stays inside the window.
TypeOK ==
    /\ free \subseteq Frames
    /\ dirs \in [Processes -> SUBSET Frames]
    /\ tables \in [Processes -> [Tables -> Frames \cup {0}]]
    /\ leaf \in [Processes -> [Pages -> Leaves]]
    /\ brk \in [Processes -> HeapStart .. Window * PAGE]
    /\ pc \in [Processes -> {"new", "load", "run", "sbrk", "fb", "dead"}]
    /\ cursor \in [Processes -> 0 .. Window]
    /\ goal \in [Processes -> HeapStart .. Window * PAGE]
    /\ panicked \in {None, "spawn", "sbrk", "fb", "stack", "buffer"}

\* As long as the kernel has not halted, each frame of the pool is either free
\* or used in exactly one place of one process: no mapping is overwritten with
\* its frame lost, no frame backs two pages, and no table is shared
\* (vmm_map_page() overwrites blindly; its callers test or know the page absent).
\* Every variable keeps its type.
FramesAccountedOnce ==
    /\ TypeOK
    /\ panicked = None =>
        \A f \in Frames :
            Cardinality({ p \in Processes : f \in dirs[p] })
              + Cardinality({ u \in Processes \X Tables : tables[u[1]][u[2]] = f })
              + Cardinality({ u \in Processes \X Pages : leaf[u[1]][u[2]].frame = f })
              = IF f \in free THEN 0 ELSE 1

\* Memory SYS_SBRK has granted is there: every page between the start of the
\* heap and the break is present and writable, whatever increments failed for
\* want of memory on the way and whatever they left mapped.
BrkBacked ==
    \A p \in Processes : \A page \in HeapPage .. RoundUpPage(brk[p]) - 1 :
        Allows(p, Private + page, TRUE)

\* What a system call may touch for p through an address on this page: the
\* slice below KERNEL_EXEC_LIMIT, which is every program's; the framebuffer;
\* or a frame that is neither free, nor one of the page tables, nor in any
\* other process's space.
Reachable(p, vpage) ==
    LET frame == walk_to_leaf(p, vpage).frame
    IN  \/ vpage % SPACE < ExecLimit
        \/ frame \in NumFrames + 1 .. NumFrames + FbPages
        \/ /\ frame \in Frames \ free
           /\ \A q \in Processes :
                /\ frame \notin dirs[q]
                /\ \A t \in Tables : tables[q][t] # frame
                /\ q # p => \A page \in Pages : leaf[q][page].frame # frame

\* A page of the stack that has not been touched yet
Untouched(p, page) ==
    page \in StackLow .. StackTopPage - 2 /\ ~vmm_page_present(p, Private + page)

\* The system calls' pointer checks keep the rest of the system out, although
\* every space holds all of memory in its PML4[0]: what vmm_check_range()
\* accepts, and what copy_user_string() reads having tested one byte per page,
\* is Reachable to the last byte, for ranges that start anywhere in a page, span
\* two mappings or run off the end of the address space, whatever the other
\* processes have been given meanwhile.  Nor do they refuse a program its own:
\* a buffer in its segments, below its break, in its framebuffer or on its stack
\* as far as it has been touched is accepted.
ChecksAdmitOwnMemory ==
    \A p \in Processes, len \in Lengths : At(p, "run") =>
        /\ \A vaddr \in 0 .. ADDRESSES - 1 :
            LET Page(k) == ((vaddr + k) % ADDRESSES) \div PAGE
            IN  /\ \A write \in BOOLEAN : vmm_check_range(p, vaddr, len, write) =>
                     \A k \in 0 .. len - 1 : /\ Reachable(p, Page(k))
                                            /\ write => walk_to_leaf(p, Page(k)).write
                /\ copy_user_string(p, vaddr, len) => \A k \in 0 .. len : Reachable(p, Page(k))
        /\ \A vaddr \in 0 .. Window * PAGE - 1, write \in BOOLEAN :
            (\A k \in 0 .. len - 1 : /\ Owns(p, (vaddr + k) \div PAGE, write)
                                     /\ ~Untouched(p, (vaddr + k) \div PAGE))
              => vmm_check_range(p, Private * PAGE + vaddr, len, write)

\* The heap and the stack keep apart: no page below a break lies in the region
\* the stack may grow into (the layout comment of elf_loader.h).
HeapKeepsClearOfStack ==
    \A p \in Processes : RoundUpPage(brk[p]) <= StackLow
================================================================================
