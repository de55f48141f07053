# A TLA+ model of the RebornOS kernel

RebornOS is a small x86-64 kernel in C: one scheduler shared by all cores,
one address space per process, a FAT16 disk, a keyboard, a mouse, a network
card and a handful of system calls.  The modules here model the parts of it where
several cores, interrupts, devices or a loss of power meet.  TLC checks them
on small instances, and TLAPS proves the most important properties of the
scheduler, the page allocator, the heap, the address spaces, the disk driver,
keyboard and mouse, the network card, the loader's hand-over and the start of
the other cores for instances of every size.

Paths below are relative to `src/kernel/src/` unless they say otherwise.

## The system and its parts

The boot loader (`src/boot/src/main.c`) loads the kernel and leaves the
firmware with a memory map.  `kmain()` builds the page allocator, the kernel's
page tables and the heap, initialises the devices, starts the other processors
and hands every core to the scheduler.  From then on the kernel runs on timer
interrupts, the keyboard's and the mouse's interrupts and system calls.

| Part | Source | What it shares with others | Module |
|---|---|---|---|
| Threads and scheduling | `scheduler.c`, `context_switch.S`, `spinlock.c` | slot table, stacks, lock, every core | `Scheduler` |
| Spawning and waiting | `process.c` | exit code in the waiter's frame | `Scheduler`, `Console` |
| Start of the other cores | `smp.c`, `ap_trampoline.S`, `acpi.c` | one mailbox, counters, `scheduler_ready` | `SmpBoot`, in `Startup` |
| Page allocator | `pmm.c` | bitmap, free count, search hint | `Pmm`, `PageAllocator` |
| Heap | `heap.c` | block list | `Heap` |
| Address spaces, loading | `vmm.c`, `elf_loader.c` | page frames | `AddressSpace` |
| System calls | `syscall.c` | user memory, break, keyboard, mouse, disk | `AddressSpace`, `Console`, `Scheduler`, `Fat16`, `Ps2` |
| Keyboard | `keyboard.c` | ring between interrupt and readers; the 8042 controller | `Keyboard`, `BoundedQueue`, `Ps2`, `Console` |
| File system | `fat16.c`, `vfs.c` | FAT cache, disk, one lock | `Fat16`, `Fat16Path` |
| Network | `e1000.c`, `net.c` | descriptor rings shared with the card | `Net`, `BoundedQueue` |
| Interrupts, timers, TSS | `idt.c`, `timer.c`, `lapic.c`, `gdt.c` | interrupt flag, tick callback, rsp0 | in the modules they drive |
| Disk driver | `ahci.c`, `pci.c` | one command slot | `Ahci`, `BlockDevice`; whole commands in `Fat16` |
| Mouse | `mouse.c` | position written by an interrupt; the 8042 controller | `Ps2` |
| Boot loader, start-up | `src/boot/src/main.c`, `kmain.c` | memory map and its key, the order of initialisation | `Startup` |
| Output, panic, graphics | `kprintf.c`, `panic.c`, `framebuffer.c`, `src/common/` | ports, framebuffer | not modelled |
| User programs | `src/userland/` | system calls only | their calls, in `Console` |

## The modules

`MC...` modules hold the small instances; a `.cfg` names the constants.

**Scheduler.**  The state is `threads[]` field by field (`state`,
`running_on_core`, `stack_base`, `rsp`, `exit_code_out`, `is_idle`), the
globals of `scheduler.c`, the heap blocks that can be a stack (`kheap`), and
per core its interrupt flag, the stack it stands on, its TSS's `rsp0` and its
place in `schedule()`, `thread_create_ex()`, `thread_exit_code()` or
`scheduler_start()`.  `frame` holds what a stack remembers of the code that
was interrupted on it.  What `scheduler_lock` protects changes in one step;
everything done without the lock is a step of its own: the two halves of
`switch_context_release` (`SwitchSave`, `SwitchRelease`), the `kfree` of a dead
stack (`FreeZombieStack`), the reads of `thread_exit_code()` and of the wait
loop.  A timer interrupt may land wherever the flag is set.

**Startup, SmpBoot.**  `Startup` goes from `efi_main()` to the scheduler:
every firmware call of the loader with its failure, the segments placed in
memory, the loop around `ExitBootServices()` while the firmware takes and
returns pages, then `kmain()`'s initialisation in order with its panics, and
from `smp_init()` on the steps of `SmpBoot`, which it extends.  Memory is a row
of pages with the types of the memory map, and the map key is `fresh`, whether
the map has changed since it was fetched.  In `SmpBoot` are the boot processor's loop (`SkipBsp`, `FillMailbox`,
`SendInitSipi`, `WaitEnds`, `Record`), the tail of `kmain()` (`CreateThreads`,
`SetTickCallback`, `smp_signal_scheduler_ready`, `scheduler_start`, or a `Tick`
before it), and each application processor's reads of the mailbox, its count
and its join.  Any set of processors may be dead; `PromptAps` says whether the
others answer within the timeout.

**PageAllocator, Pmm.**  `PageAllocator` is the promise: a page is handed out
only if nobody has it, and allocation fails only when none is left.  `Pmm` is
the bitmap from `pmm_init()` on, over memory maps of the firmware, with the
next-fit scan, the reservation of the heap and every panic.

**Heap.**  The list of blocks, first fit, split, and the forward-only merge.
`lifo` records whether every free so far was of the newest block.

**BoundedQueue, Keyboard, Ps2, Net.**  `BoundedQueue` is the promise both
rings make.  `Keyboard` has the interrupt handler and the readers in single
loads and stores.  `Ps2` extends it by what feeds it: the 8042 controller with
one output buffer for two devices, the interrupt controller's masks and pending
lines, `timer_init()`, `keyboard_init()` and `mouse_init()` with their accesses
to the controller, the mouse's handler with packets in nine-bit two's
complement, and `mouse_get_state()` load by load, called on the boot core or on
another, whose `cli` does not keep the handler out.  A byte that is never sent is
the limit on spins in `ps2_read_data()`.  `Net` has the two descriptor rings, the card working on them at
the same time, and `net_arp_resolve()` and `net_ping()` with their retries
over a network that loses, delays, reorders and duplicates.  Frames are
records of the fields the code compares; an echo's payload is one value, since
`net_ping()` always sends the same bytes.

**Console.**  Programs that read keys and run other programs.  `schedule()`
is one step here and the ring is a counter, as the modules above allow; what
is kept is the interrupt flag, because IRQ1 reaches the boot core only, and the
order in which `next_ready_after()` goes round.

**Fat16, Fat16Path.**  `Fat16` has one step for each disk command, so another
caller or a loss of power can come between any two, and between two sectors of
the FAT.  The disk (FAT, root directory, clusters) and the FAT cache are
separate.  After a loss of power callers go on with any calls.  `stored` is what
each file should hold, `CutOff` for one whose writing was interrupted.  Its
directory entry may name clusters that the FAT on the disk calls free, and
whatever is written before the file itself is rewritten may be given them:
`exposed` keeps the file that was cut off and the files written since, until it
is rewritten with none other at risk.  Callers name files by paths; `Fat16Path` has the pure part of that:
how a path is split and how an 8.3 name is made and printed.

**BlockDevice, Ahci.**  `BlockDevice` is what `fat16.c` relies on: commands are
served one at a time, each with its own sectors and buffer.  `Ahci` is the
driver: the PCI scan, the choice of a port, stopping and restarting its engine
on structures of the kernel's own, and `issue_rw_command()` step by step, called
by threads that ticks move between cores, some inside the section of `vfs.c`
and some directly.  The controller moves sector by sector; it may fail, or
never finish, which the limit on spins turns into a panic.  The driver keeps 32
bits of a buffer's address and 22 of its length: buffers are taken to lie below
4 GiB, where the identity map puts every buffer of the kernel, and
`PrdtAssumption` bounds a command to the 8192 sectors that fit.

**AddressSpace.**  Page frames, page tables and leaves of each process;
loading, `SYS_SBRK` page by page, `SYS_FB_MAP`, stack faults, exit; and the
pointer checks as operators over the reachable address spaces.  A space is what
`walk_to_leaf()` finds in it: the identity map of all memory in PML4[0], of which
`vmm_init()` leaves the first `KERNEL_EXEC_LIMIT` bytes to programs, and the
process's own window in PML4[1].  The walk looks at the low 48 bits of an
address only, so each page has as many `Aliases` as the upper bits allow, and
addresses wrap after the last.  Programs are linked so that no two segments share
a page, as `LayoutAssumption` says; `elf_load_user_program()` does not test it.

**SchedulerProofs, PmmProofs, AhciProofs, InputProofs, StartupProofs,
HeapProofs, AddressSpaceProofs, NetProofs.**  The theorems.  Each begins with
the inductive invariant, then has the facts its proofs share, one lemma per
action, and the theorems.  `InputProofs` has three such parts: the ring
(`Keyboard`), the two drivers on their controller (`Ps2`), and the programs that
read keys (`Console`).

## The runs

| Run | Instance | States | What it shows |
|---|---|---|---|
| `scheduler` | 2 cores, 5 slots, 5 stacks, 6 creations | 1,343,571 | no thread on two cores; a thread is resumed only from a complete context and on its own stack; zombies are reaped; no stack is lost or freed twice; the exit code reaches a frame that still waits, and the waiter returns it; no core spins on a lock it holds |
| `scheduler_liveness` | 2 cores, 4 threads besides the idle ones | 30,284 | every exited thread is reaped, every ready thread gets a core |
| `startup` | 8 pages, 2 segments, 3 attempts; 5 processors, room for 4, any of them dead | 206,768 | the kernel is handed the memory map as it is, without its own pages among the usable ones; every boot ends; stacks, indices and TSSs are not shared; the count is of running cores and fits the table; processors that are up join, unless a tick keeps `kmain()` from giving the signal |
| `pmm` | five memory maps | 1,475 | counts and bits are exact; the bitmap implements `PageAllocator` |
| `heap` | 26 bytes, requests of 1, 2, 4, 5 | 73,372 | the list tiles the region; held blocks are distinct and large enough; frees in reverse order leave one block |
| `ps2` | ring of 2, 2 keys, 2 packets, a screen of 3 by 2 | 843,900 | the handshake's answers go to `mouse_init()`; the position follows the packets; a copy of it made on the boot core is whole; `mouse_init()` returns and all lines end up enabled; the keyboard's ring is a bounded queue |
| `console` | 2 cores, programs 4 deep, 4 keys | 14,737 | one reader at a time; a key that is pressed reaches it, unless the boot core waits with interrupts off |
| `fat16` | 2 callers, 7 clusters, 3 writes, 1 loss of power | 566,190 | reads by path return the last write and do not panic; clusters are neither shared nor lost; the disk always holds every file not being written; all this also after a loss of power, for files it left no risk to; all paths up to 7 characters open what they spell |
| `ahci` | 3 threads on 2 cores, 2 sectors, 3 commands | 49,320 | the driver implements `BlockDevice`; every call returns or panics |
| `address_space` | 2 processes, 21 frames | 28,346 | every frame is used once; what the break covers is mapped; pointer checks admit a program's own memory and nothing else |
| `net` | rings of 3 and 2, 2 tries of 2 polls, 3 calls, 4 frames | 269,497 | sent frames reach the wire once and in order; the receive ring is a bounded queue; a call succeeds exactly when it polled its own answer |
| `scheduler_dead_stack` | 2 cores, 4 slots | violated | see below |

**Bounds.**  Two cores and one more thread than cores give every race between
a core that leaves a thread and one that wants it; five slots and six
creations make slots and stacks be reused.  The liveness instance has twice as
many threads as cores, which a search that does not rotate would starve.  In
`startup` the firmware lists one processor more than the kernel has room for;
three attempts, a headroom of one descriptor and eight pages let the map
outgrow its buffer, change after every fetch, and settle.  The heap holds up to
five blocks, so a block can have used and free neighbours on both sides.  The
rings wrap at least once.  In `ps2` two packets of which each moves past an
edge of the screen meet two keys, before, during and after the handshake, and a
ring that one key fills.  Four programs on two cores leave one more waiting than
there are cores, which a search that does not go round would serve alone.
Three threads on two cores are one more than can run, so that a lock's holder
can be moved off its core.  The disk of `fat16` has chains out of order, a
directory of two clusters, a deleted entry and a label with a file's name, and
both a full and an empty image; three writes let a file be overwritten and its
clusters reused.  Paths of seven characters reach a full component, a cut one,
and repeated slashes (with one letter in two cases, a dot and a slash, and
names of 2.1 characters).  21 frames let two processes start and then run out in
`SYS_SBRK`, in the framebuffer's mapping and in a stack fault.  In `net` a
fourth frame meets a full ring, and the two echo requests meet each other's
late answers; other traffic differs from an answer in one field at a time.

No run switches the deadlock check off.  Modules that may really stop (a
panic, a finished boot) have a stuttering step for exactly those states.

**Fairness.**  `Scheduler`: each core executes its own instructions (weak
fairness of the steps of the kernel's code); the timer of a core ticks again
and again whenever interrupts keep being enabled (strong: the LAPIC keeps a
tick pending); and the spinlock, a bare exchange without a queue, does not
starve a core for ever (strong), which the hardware does not promise but every
critical section here is short and every core spends most of its time outside.
No thread is obliged to exit or to create another.  `Startup`: the processors
run (weak, each by itself); the firmware owes no event.  `Ps2`: `kmain()` goes
on and a handler runs to its end; nothing is assumed of controller and devices.
`Ahci`: as `Scheduler`, with strong fairness of a thread that is on a core again
and again; nothing is assumed of the controller.  `Console`: a pending interrupt that can be taken is taken, a core's timer
ticks while interrupts stay enabled, and a program that is given a core again
and again executes (strong).

## What is proved

For every number of cores, slots, stacks and creations (`SchedulerAssumption`
asks for at least one core, and for room for the threads `kmain()` creates):

* `Invariant`: `Spec => []IInv`.  `OneCorePerThread` and the others are not
  inductive.  `IInv` adds, per core, that interrupts are on only in thread
  code, that the lock is held exactly between acquire and release, that the
  current thread is claimed by the core and stands on its stack (`CoreInv`);
  what a context switch has still to do (`SwitchInv`); where the code on a
  stack is (`PlaceInv`); per slot, that a claimed thread is some core's current
  or previous one and an unclaimed one has a complete context (`ThreadInv`);
  and that stacks are divided between heap, threads and pending frees
  (`StackInv`).  One lemma per action.
* `MutualExclusion`, `ContextSaved`, `OwnStack`, `StacksConserved`,
  `ExitIsFinal`, `CoreDiscipline` and `TypeCorrect` follow from it.  The last
  but one says that a core never spins on a lock it holds itself, and that an
  idle thread stays on its core.
* `CodeOutLive` (`ExitCodeOutIsLive`): the frame `thread_exit_code()` stores the
  code into still waits for this very thread.  `WaitReturns`
  (`WaitReturnsChildsCode`, an action property): a wait that ends returns the
  code of the child it created, although `thread_is_alive()` may have been
  answering for another thread in the child's slot.  Both need `WaitInv` besides
  `IInv`: the `exit_code_out` of a thread that has yet to deliver is the frame
  that waits for it, with the generation of the slot (`OutInv`); a waiter has
  its code, or its child is still to deliver it (`CodeInv`); and a waiter without
  a child is still inside `thread_create_ex()` (`WaiterInv`).

For every size of the heap's region, of a header and of the alignment, and any
requests (`HeapAssumption`: the region holds at least one block):

* `Consistent` (`HeapConsistent`): after any calls of `kmalloc()` and `kfree()`
  the list tiles the region and its used blocks are what callers hold.
* `LifoRestores` (`LifoRestoresHeap`): frees in reverse order leave one block.
  `HeapInv` says that each block ends where the next header begins, and that
  any later block lies after an earlier one, which would otherwise take an
  induction along the list; that used blocks and allocations correspond one to
  one; and, while frees come in reverse order, that the used blocks are the
  allocations in the same order with at most one free block behind them.
  Splitting and merging are proved over list positions, with lemmas on what a
  list with a block inserted or removed has at each of them.

For every number of processes and frames, every page size and any layout in
which the segments lie below the heap, the heap below the framebuffer's window
and that below the stack (`LayoutAssumption`):

* `FramesOnce` (`FramesAccountedOnce`): every frame is free or used once,
  wherever an operation runs out of memory.
* `HeapBacked` (`BrkBacked`): what lies below the break is mapped and writable.
  `SpaceInv` adds that the free frames are the end of the pool, which place uses
  each frame (`UseInv`), that a present page has a page table and is the user's
  (`LeafInv`), that the segments and the first stack page of a running program
  are mapped as they should be (`ImageInv`), that its heap is (`HeapInv`), and
  how far a process is in loading, `SYS_SBRK` or `SYS_FB_MAP` (`ProgressInv`).
  The property compares cardinalities; a lemma derives them from `UseInv`.
* `ChecksAdmit` (`ChecksAdmitOwnMemory`): what `vmm_check_range()` and
  `copy_user_string()` accept is, to the last byte and whatever other processes
  have been given meanwhile, no free frame, no page table and no page of another
  process; and what a program owns and has touched is accepted.  `CheckRange`
  and `AcceptedBytes` are the arithmetic of pages, aliases and wrapping;
  `AllowedIsReachable` takes the first half from `UseInv` and `LeafInv`,
  `OwnedIsGranted` the second from `ImageInv` and `HeapInv`.

For rings of any size from two descriptors on, any calls, retries and spins
(`NetAssumption`), and any other traffic that answers none of the calls
(`NoiseAssumption`):

* `RingRefinement` (`RingIsBoundedQueue`): driver and card implement
  `BoundedQueue` with the receive ring, in which the card may fill a descriptor
  between any two accesses of the driver.
* `SendsReachWire` (`WireCarriesSends`): frames reach the wire once and in order.
* `AnsweredCalls` (`ResultMeansAnswered`): a call returns 1 exactly when it
  polled its own answer.  `NetInv` says that at most one frame is on its way to
  the wire, in the descriptor before `tx_tail` (`TxInv`); that descriptors
  marked done lie between `RDT` and `RDH`, and what the driver has read but not
  yet handed back (`RxInv`); and that the awaited answer has been polled only
  while the call is looking at it (`CallInv`).

For every set of memory maps, page size and heap region (`PmmAssumption`):

* `WithheldNeverHandedOut`: page 0, the bitmap's pages and what the firmware
  keeps are never handed out, and what is handed out is marked.
* `Refinement`: the bitmap implements `PageAllocator`.
* `CountStaysExact`, `TypeCorrect`: a free count that is exact when
  `pmm_init()` returns stays exact, and never wraps below zero.  That it is
  exact there is checked by TLC for the memory maps of the run: descriptors
  that overlap would break it.
* `BitmapStaysExact`: as long as the heap's region was unclaimed when it was
  reserved, the set bits are exactly the pages withheld or held.

For every number of threads and cores, every set of commands that lie on the
disk, and every controller (`AhciAssumption`, `PrdtAssumption`):

* `SlotExclusive`: from the command FIS to the release of `ahci_lock` the slot
  holds the command of the lock's holder, and a command in flight is that of
  the thread polling for it.  Inductive together with the types.
* `Refinement`: the driver implements `BlockDevice`.  The mapping reads a
  caller's state off its program counter, `PORT_CI` and the error bit; each
  action of driver or controller is a step of the device or none.

For every size of the keyboard's ring and every number of keys
(`KeyboardAssumption`: at least two slots), with one reader on any core:

* `RingIsQueue` (`ImplementsBoundedQueue`): the ring implements `BoundedQueue`.
  The invariant `RingInv` is about the time between the single loads and
  stores: the slot being filled is outside the unread characters, and the
  reader stands at the oldest of them.  Lemmas say what a store at the head, an
  advanced head and an advanced tail do to the window of unread characters, with
  the remainders taken out.
* `TypedKeysQueue`: the same of `Ps2`, where the shared controller decides when
  the handler runs and which byte it takes.  Each step of `Ps2` is one of
  `Keyboard` or leaves the ring alone.

For every screen (one without a size included), any number of keys and of
movements of up to nine bits, and whatever configuration byte the firmware left
(`Ps2Assumption`):

* `AnswersNotStolen` (`AnswerNotStolen`): the bytes `mouse_init()` polls for are
  still there to be polled, since its `cli` covers the whole handshake.
* `PointerFollows` (`PointerFollowsPackets`), for `~LatchedEdges`: between
  packets the position is the mouse's.
* `BootCoreCopySettled` (`BootCoreCopyIsSettled`), for `~LatchedEdges`: a copy
  that `mouse_get_state()` makes on the boot core is a state between two packets,
  while callers on other cores, which have no such promise, come and go.
  All three follow from `Ps2Invariant`.  `Ps2Inv` says which interrupts the
  handshake keeps out (`BootInv`), that nothing but the mouse sends a byte that
  looks like its acknowledgement (`AnswerInv`), and that a pending request is
  that of the byte in the output buffer (`IrqInv`).  The bytes of a movement are
  followed through mouse, output buffer and `packet[]` (`InTransit`); the next
  movement may begin while the last byte of the one before is in the buffer
  (`Following`).  `Pos` is the position a running handler will have left, so
  that its three steps change nothing in the invariant.  `PacketDecodes` is the
  arithmetic: the handler's sign bits and low bytes give back the number.

For every number of cores, size of the ring and number of keys, and any depth to
which programs run programs (`ConsoleAssumption`):

* `OneReader` (`SoleReader` of `Console`): at most one program is in
  `keyboard_read_char()`.  This is the condition of `RingIsQueue`; the kernel
  has no lock for it.  Programs form a stack in which all but the last wait
  for the next (`StackInv`); no two cores run the same one (in `ConsoleTypeOK`); and a
  key is pending, in the ring or consumed (`KeysInv`).

For every memory map at the start, every layout of the kernel's segments, any
headroom and number of attempts (`StartupAssumption`), and any changes the
firmware makes to the map:

* `HandoverCurrent`: the kernel starts with the memory map as it is.  The
  invariant `LoaderInv` says that the pages of the segments loaded so far and
  of `boot_info` are the loader's and none of them is the map's buffer, which a
  retry gives back, and that a map fetched since the last change is the
  memory's.

For every list of processors, any of which may never answer (`SmpAssumption`),
if those that start do so before the BSP's timeout (`PromptAps`; without it
`StartupLate` shows the mailbox read by the wrong AP):

* `OwnStacks`, `OwnTss`: every AP has a stack, a TSS and an index of its own and
  schedules under it.  `SmpInv` relates the BSP's place in `smp_init()` to its
  counts (`BspInv`), says that an AP which has not counted itself is the one
  waited for and that any other is in the core table at its own index
  (`ApInv`, `TableInv`), and that the APs still to come, or that never come,
  have touched nothing (`UntouchedInv`).
* `CountsCores`: if the BSP is among the first `SMP_MAX_CPUS` ids, the core
  table never overflows and lists exactly the cores that run (`StartupMadt`
  shows what happens otherwise).

**Only model-checked:** liveness and everything about fairness, which is out of
the prover's reach; and the invariants of `Fat16` (`ReadsLastWrite`,
`ClustersOwnedOnce`, `PathsOpenWhatTheySpell`, `DiskKeepsOtherFiles`).  These are
about what following a chain through the FAT, splitting a path and walking a
directory return: what a recursive definition computes for every input takes an
induction over data, which the prover cannot do.

## Differences between comments and code

Where a comment promises something the code does not do, a configuration
states the promise and TLC shows a behaviour that breaks it.  The first is the
run `scheduler_dead_stack`; the others can be run the same way.

| Configuration | Property | The comment | What happens |
|---|---|---|---|
| `SchedulerDeadStack` | `DeadStackUntouched` | `scheduler.c:329-331` "nothing else can touch that block before switch_context changes rsp on the very next line" | `kfree()` of the dead stack comes before the switch; another core's `thread_create_ex()` can take the block in between |
| `SchedulerKernelExit` | `ExitEndsCaller` | `include/scheduler.h:52` "Ends the calling thread" | a kernel thread that moves to another core between `smp_current_cpu_index()` and `current_thread[core]` (`scheduler.c:341`) ends another thread |
| `SchedulerSlotReuse` | `AliveMeansThatThread` | `include/scheduler.h:68-69` "is still running" | `thread_is_alive()` answers for whoever has the slot now |
| `StartupLate` | `OwnStackAndIndex` | `smp.c:21-22` "reusing the same three slots for every AP is safe" | a processor that answers after the timeout reads the next one's mailbox |
| `StartupSignal` | `EveryApJoins` | `include/smp.h:9-12` every AP "joins the real scheduler's shared ready queue" | a tick between `kmain.c:588` and the signal leaves `kmain()` for good, and the signal is never given |
| `StartupMadt` | `CoreTableBounded` | `include/acpi.h:15-16` the BSP "is one of them" | with the BSP listed after `SMP_MAX_CPUS` others, the core table is written past its end |
| `PmmHeapClaim` | `HeapRegionUnclaimed` | `include/pmm.h:22-23` "before anything else can claim it" | on a map whose first large region is the heap's, the bitmap is placed inside the heap |
| `PmmHighMemory` | `HeldPagesIdentityMapped` | `include/pmm.h:12-14` addresses coincide "for any address a page allocated here could have" | pages above 4 GiB are handed out |
| `Ps2TornState` | `StateReadIsSettled` | `include/mouse.h:24` "Copies out the current position/button state" | `SYS_MOUSE_READ` on another core than the boot core copies a position that is half moved, or not yet clamped |
| `Ps2Latched` | `PointerFollowsPackets` | `mouse.c:21` bit 3 "lets a desynced byte stream be detected and dropped" | where the interrupt controller keeps a request whose byte was polled away, the handler stores a stale byte first and reads every later packet one byte off |
| `ConsoleMissedKeys` | `KeyReachesReader` | `include/syscall.h:8` "blocks until a keystroke is available, returns it in rax" | a parent waiting on the boot core with interrupts off keeps IRQ1 from ever being taken |
| `Fat16CrossLink` | `CompletedWritesKept` | `fat16.c:465-466` "its old clusters get freed below" | after a loss of power between entry and FAT, another file takes the clusters and the overwrite frees them |
| `Fat16Directory` | `SubdirectoriesKept` | `include/fat16.h:19-20` "only ever touches the fixed root area" | a file written under a subdirectory's name frees the subdirectory |
| `Fat16Padding` | `AllocatesInsideVolume` | `include/fat16.h:55-57` "panics if the disk or root directory is genuinely full" | FAT entries past the last cluster are allocated first |
| `Fat16EmptyFile` | `ReadNeverPanics` | `include/vfs.h:15-16` "Returns 1 ... on success, 0 if the file doesn't exist" | reading an empty file panics |
| `AddressSpaceCollide` | `HeapKeepsClearOfStack` | `include/elf_loader.h:49-52` "neither can ever collide with the stack" | nothing limits the break |

The failing case is left in the passing run wherever the property can name it:
`KeyMissedOnlyBehindWait` and `ApLeftOutOnlyBySignalLost` say that the case of
`ConsoleMissedKeys` and that of `StartupSignal` are the only ones;
`ReadsLastWrite` says that an empty file is the only one whose reading panics;
`ClustersOwnedOnce` and `DiskKeepsOtherFiles` say which files the case of
`Fat16CrossLink` puts at risk; `mouse_get_state()` runs on every core in `ps2`,
and `BootCoreCopyIsSettled` says where its copy is whole.

Six more, without a configuration of their own:

* `src/boot/src/main.c:219-221` says of a stale map key "we retry once"; the
  loop makes three attempts, which `Startup` models (`Attempts`).
* `include/syscall.h:44` says of `SYS_SBRK` "or -1 if out of physical memory";
  when it is the page table of a new page that finds no frame, `vmm_map_page()`
  panics instead (`panicked = "sbrk"` in `AddressSpace`).
* `include/fat16.h:50` says "or -1 if `path` doesn't resolve to a directory";
  a path that starts with a slash lists the root (`ListDir` in `Fat16`),
  so `PathsOpenWhatTheySpell` is about relative paths.
* `include/elf_loader.h:22-26` says the stack "is demand-paged in"; a buffer on a
  stack page that has not been touched yet is refused by `vmm_check_range()`,
  and the system call panics (`Untouched` in `ChecksAdmitOwnMemory`).
* `include/spinlock.h:12-17` asks for a lock "wherever more than one core can
  reach the same shared state"; the keyboard's ring has none, and relies on one
  reader at a time, which `SoleReader` shows of programs started from the shell.
* A read of a file whose writing was cut off by a loss of power panics when its
  chain ends before its size; `ReadsLastWrite` and `ReadNeverPanics` except it.

`LatchedEdges` is a constant of `Ps2` because it is the interrupt controller's
choice; QEMU's keeps a request whose byte is gone.  A key that is already in the
controller when `mouse_init()` asks for the configuration byte is taken for it,
and what is written back is then any byte; `disturbed` marks it, and the
properties of the position except it.

## What is not modelled, and why

* Formatting, port output, drawing, fonts and the panic screen: no state that
  a property is about.  A panic is a terminal state of every module.
* Parsing of ACPI tables and ELF headers, descriptor-table layout, timer
  calibration: sequential set-up from firmware or file bytes.
* The argument block of `process.c` and `elf_loader.c` and the shell's splitting
  of a line: sequential copies of bytes, with no second actor.
* `kmain()`'s self tests, and what the user programs print.
* Packet bytes and checksums: nothing receives a checksum and tests it.

## Plan

1. An abstract scheduler (a set of ready threads, one per core running) that
   `Scheduler` implements, so that `Console` and `Ahci` can rest on it by
   refinement instead of by a `Tick` of their own.
2. `Fat16` over an abstract disk of files, with each chain as a sequence that
   the actions carry along instead of following it, so that
   `ClustersOwnedOnce` and `DiskKeepsOtherFiles` have an invariant without
   recursion.
