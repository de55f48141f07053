------------------------------- MODULE Startup -------------------------------
(* From the firmware to the scheduler: boot/src/main.c loads the kernel and    *)
(* leaves boot services, kmain() initialises its parts in order, and SmpBoot   *)
(* takes over at smp_init().  Memory is a row of pages with the types of the   *)
(* firmware's memory map; the firmware may change the map at any time until    *)
(* ExitBootServices() succeeds, and any of its services may fail.              *)
EXTENDS SmpBoot, FiniteSets

CONSTANTS
    FirmwareMap,    \* the type of every page when efi_main() is entered
    Segments,       \* the pages of each PT_LOAD segment of kernel.elf
    ConfigTables,   \* the lists of configuration tables the firmware may offer
    Headroom,       \* descriptors beyond the count of the sizing call (8)
    Attempts        \* to leave boot services (3)

Pages == DOMAIN FirmwareMap

ASSUME StartupAssumption ==
    /\ FirmwareMap \in Seq({"conventional", "boot_data", "reserved"})
    /\ Segments \in Seq(SUBSET Pages)
    /\ Headroom \in Nat /\ Attempts \in Nat \ {0}

VARIABLES
    at,         \* where efi_main(), and then kmain(), is
    step,       \* the segment efi_main() is at, then the call kmain() is at
    attempt,    \* to leave boot services, from 1
    memory,     \* the type of every page
    fresh,      \* the map has not changed since it was fetched: map_key is current
    handed,     \* [map, capacity, buffer, info]: what the kernel is given, or will be
    rsdp        \* info->acpi_rsdp_addr

loaderVars == <<at, step, attempt, memory, fresh, handed, rsdp>>

StartupInit ==
    /\ Init
    /\ at = "open" /\ step = 1 /\ attempt = 1
    /\ memory = FirmwareMap /\ fresh = FALSE
    /\ handed = [map |-> <<>>, capacity |-> 0, buffer |-> None, info |-> None]
    /\ rsdp = "unset"

(* The machine has stopped: halt() in the loader or panic() in the kernel *)
Stopped == at \in {"halt", "panic"}
Kernel  == at \in {"kmain", "smp", "panic"}

--------------------------------------------------------------------------------
(* The firmware *)

(* One descriptor for each run of pages of one type *)
Descriptors(m) == 1 + Cardinality({p \in Pages : p + 1 \in Pages /\ m[p] # m[p + 1]})

(* A driver takes a page for itself or gives one back *)
FirmwareEvent ==
    /\ ~Kernel /\ at \notin {"halt", "jump"}
    /\ \E p \in Pages :
        \/ memory[p] = "conventional" /\ memory' = [memory EXCEPT ![p] = "boot_data"]
        \/ memory[p] = "boot_data" /\ memory' = [memory EXCEPT ![p] = "conventional"]
    /\ fresh' = FALSE
    /\ UNCHANGED <<vars, at, step, attempt, handed, rsdp>>

(* AllocatePages() or AllocatePool() of these pages as EfiLoaderData *)
Allocate(pages, mem) ==
    /\ \A p \in pages : mem[p] = "conventional"
    /\ memory' = [p \in Pages |-> IF p \in pages THEN "loader_data" ELSE mem[p]]
    /\ fresh' = FALSE

--------------------------------------------------------------------------------
(* efi_main() *)

Goto(place, next) ==
    /\ at = place /\ at' = next
    /\ UNCHANGED <<vars, step, attempt, memory, fresh, handed, rsdp>>

(* Any service may return an error, and any test fail: fatal(), then halt() *)
fatal ==
    \E place \in {"open", "file", "read", "elf", "segments", "info", "pixels",
                  "size", "buffer", "fetch"} : Goto(place, "halt")

(* The loaded image, its file system, the volume, kernel.elf and its size *)
OpenKernelFile == Goto("open", "file")

AllocFileBuffer ==
    /\ at = "file" /\ at' = "read"
    /\ \E p \in Pages : Allocate({p}, memory)
    /\ UNCHANGED <<vars, step, attempt, handed, rsdp>>

ReadKernelFile == Goto("read", "elf")
CheckElfHeader == Goto("elf", "segments")

(* AllocatePages(AllocateAddress), which fails unless all of it is free *)
LoadSegment ==
    /\ at = "segments" /\ step <= Len(Segments)
    /\ Allocate(Segments[step], memory)
    /\ step' = step + 1
    /\ UNCHANGED <<vars, at, attempt, handed, rsdp>>

LocateGop == step > Len(Segments) /\ Goto("segments", "info")

AllocInfo ==
    /\ at = "info" /\ at' = "pixels"
    /\ \E p \in Pages : Allocate({p}, memory) /\ handed' = [handed EXCEPT !.info = p]
    /\ UNCHANGED <<vars, step, attempt, rsdp>>

FillFramebuffer == Goto("pixels", "rsdp")

(* The first ACPI 2.0 table, else the last ACPI 1.0 table, else 0 *)
find_acpi_rsdp(tables) ==
    CASE "acpi20" \in Range(tables) -> "acpi20"
      [] "acpi10" \in Range(tables) /\ "acpi20" \notin Range(tables) -> "acpi10"
      [] OTHER -> "0"

FillRsdp ==
    /\ at = "rsdp" /\ at' = "size"
    /\ \E tables \in ConfigTables : rsdp' = find_acpi_rsdp(tables)
    /\ UNCHANGED <<vars, step, attempt, memory, fresh, handed>>

(* GetMemoryMap() without a buffer *)
SizeMap ==
    /\ at = "size" /\ at' = "buffer"
    /\ handed' = [handed EXCEPT !.capacity = Descriptors(memory) + Headroom]
    /\ UNCHANGED <<vars, step, attempt, memory, fresh, rsdp>>

(* The buffer of the last attempt is freed first *)
AllocMapBuffer ==
    /\ at = "buffer" /\ at' = "fetch"
    /\ LET freed == [p \in Pages |-> IF p = handed.buffer THEN "conventional" ELSE memory[p]]
       IN  \E p \in Pages : Allocate({p}, freed) /\ handed' = [handed EXCEPT !.buffer = p]
    /\ UNCHANGED <<vars, step, attempt, rsdp>>

(* GetMemoryMap() into the buffer; one that is too small by now is fatal *)
FetchMap ==
    /\ at = "fetch" /\ at' = "exit"
    /\ Descriptors(memory) <= handed.capacity
    /\ handed' = [handed EXCEPT !.map = memory]
    /\ fresh' = TRUE
    /\ UNCHANGED <<vars, step, attempt, memory, rsdp>>

(* The firmware lets go only if map_key is still current *)
ExitBootServices == fresh /\ Goto("exit", "jump")

(* Mutant: there is no last attempt *)
MutRetryForever == ~fresh /\ Goto("exit", "size")

(* Mutant: a retry takes the new key and keeps the map it has *)
MutRetryKeyOnly ==
    /\ at = "exit" /\ ~fresh
    /\ fresh' = TRUE
    /\ UNCHANGED <<vars, at, step, attempt, memory, handed, rsdp>>

Retry ==
    /\ at = "exit" /\ ~fresh
    /\ at' = IF attempt = Attempts THEN "halt" ELSE "size"
    /\ attempt' = IF attempt = Attempts THEN attempt ELSE attempt + 1
    /\ UNCHANGED <<vars, step, memory, fresh, handed, rsdp>>

(* The magic and the map go into boot_info; the kernel's entry is called *)
EnterKernel ==
    /\ at = "jump" /\ at' = "kmain"
    /\ step' = 1
    /\ UNCHANGED <<vars, attempt, memory, fresh, handed, rsdp>>

--------------------------------------------------------------------------------
(* kmain() *)

(* The parts in the order kmain() initialises them; the magic holds by now *)
InitCalls == <<"serial", "fb", "gdt", "pmm", "vmm", "idt", "timer", "keyboard", "mouse",
               "heap", "vfs", "e1000", "net">>

KmainInit ==
    /\ at = "kmain" /\ step <= Len(InitCalls)
    /\ step' = step + 1
    /\ UNCHANGED <<vars, at, attempt, memory, fresh, handed, rsdp>>

(* No room for the bitmap, no memory for tables or rings, no disk, no card *)
InitPanics ==
    /\ step <= Len(InitCalls)
    /\ InitCalls[step] \in {"pmm", "vmm", "vfs", "e1000"}
    /\ Goto("kmain", "panic")

(* acpi_find_local_apic_ids() follows the RSDP to the MADT, if it is sound *)
FindApicIds == step > Len(InitCalls) /\ rsdp # "0" /\ Goto("kmain", "smp")

(* An RSDP that is missing or not one, or tables without a MADT: one core.     *)
(* core_apic_ids[0] stays 0 in the code; the BSP finds index 0 either way.     *)
NoApicIds ==
    /\ at = "kmain" /\ step > Len(InitCalls) /\ at' = "smp"
    /\ i' = Len(apic_ids) + 1
    /\ UNCHANGED <<bsp, before, cpu_count, core_apic_ids, ap_stack_top, ap_core_index,
                   scheduler_ready, idle_count, tick_callback, apVars, core, dead>>
    /\ UNCHANGED <<step, attempt, memory, fresh, handed, rsdp>>

(* The root table fails its checksum *)
AcpiPanics == step > Len(InitCalls) /\ rsdp # "0" /\ Goto("kmain", "panic")

(* No memory for an AP's stack, or no DESKTOP.ELF on the disk *)
SmpPanics ==
    /\ bsp = "smp_init"
    /\ i <= Len(apic_ids) => apic_ids[i] # BspId
    /\ Goto("smp", "panic")

--------------------------------------------------------------------------------
LoaderStep ==
    \/ OpenKernelFile \/ AllocFileBuffer \/ ReadKernelFile \/ CheckElfHeader
    \/ LoadSegment \/ LocateGop \/ AllocInfo \/ FillFramebuffer \/ FillRsdp
    \/ SizeMap \/ AllocMapBuffer \/ FetchMap \/ ExitBootServices \/ Retry \/ EnterKernel
    \/ fatal

KmainStep == KmainInit \/ InitPanics \/ FindApicIds \/ NoApicIds \/ AcpiPanics

(* SmpBoot's steps, once kmain() is there; panic() stops the BSP, while an AP  *)
(* that has been started goes on to its wait                                   *)
Smp(A) == A /\ UNCHANGED loaderVars
BspRuns == at = "smp" /\ Smp(BspStep)
ApRuns(a) == at \in {"smp", "panic"} /\ Smp(ApStep(a))

StartupNext ==
    \/ FirmwareEvent \/ LoaderStep \/ KmainStep \/ SmpPanics
    \/ BspRuns \/ (at = "smp" /\ Smp(Tick)) \/ (\E a \in APs : ApRuns(a))
    \/ (Stopped /\ UNCHANGED <<vars, loaderVars>>)
    \/ Smp(Settled)

allVars == <<vars, loaderVars>>

(* Each processor keeps running; the firmware owes no event *)
StartupSpec ==
    /\ StartupInit /\ [][StartupNext]_allVars
    /\ WF_allVars(LoaderStep \/ KmainStep)
    /\ WF_allVars(BspRuns)
    /\ \A a \in APs : WF_allVars(ApRuns(a))

--------------------------------------------------------------------------------
(* Properties *)

(* When the kernel starts, the memory map it was handed is the memory as the   *)
(* firmware left it, although the loader's own allocations and the firmware's  *)
(* events kept changing it, and none of what pmm_init() will call usable holds *)
(* a segment of the kernel, the boot_info or the map itself.                   *)
HandoverIsCurrent ==
    Kernel =>
        /\ handed.map = memory
        /\ \A p \in (UNION Range(Segments)) \cup {handed.info, handed.buffer} :
              handed.map[p] \notin {"conventional", "boot_code", "boot_data"}

(* Every boot comes to an end: the BSP joins the scheduler, or the loader      *)
(* halts, or the kernel panics, however often the firmware changes the memory  *)
(* map under the loader and however many APs never come up.                    *)
BootEnds == <>(bsp = "joined" \/ Stopped)

(* The tick callback took the BSP away from kmain() before it gave the signal  *)
SignalLost == bsp = "joined" /\ ~scheduler_ready

(* An AP that has come up joins the scheduler, however many others the BSP     *)
(* still has to wait for and give up on, with one exception: the tick callback *)
(* of kmain.c:588 took the BSP away before it gave the signal, and the APs     *)
(* wait for ever.                                                              *)
ApLeftOutOnlyBySignalLost ==
    \A a \in APs : ap[a] = "waiting" ~> (ap[a] = "joined" \/ Stopped \/ []SignalLost)

(* What smp.h says and the code does not do: every AP finishes bringing itself *)
(* up and then joins the scheduler, unless the kernel panics.                  *)
EveryApJoins == \A a \in APs : ap[a] = "waiting" ~> (ap[a] = "joined" \/ Stopped)
================================================================================
