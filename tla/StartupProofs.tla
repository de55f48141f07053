---------------------------- MODULE StartupProofs ----------------------------
(* The kernel is handed the memory map as it is, and every core it starts has  *)
(* a stack, a TSS and an index of its own, for every machine.                  *)
EXTENDS Startup, TLAPS

Types == {"conventional", "boot_data", "reserved", "loader_data"}

(* Where efi_main() has placed every segment, and filled in boot_info *)
Placed  == {"info", "pixels", "rsdp", "size", "buffer", "fetch", "exit", "jump",
            "kmain", "smp", "panic"}
HasInfo == Placed \ {"info"}
HasMap  == {"jump", "kmain", "smp", "panic"}

(* The pages of the segments that have been loaded so far *)
Loaded(p) ==
    \E k \in DOMAIN Segments :
        /\ p \in Segments[k]
        /\ at \in Placed \/ (at = "segments" /\ k < step)

(* The pages that the kernel needs are the loader's, and none of them is the   *)
(* buffer that a retry gives back; a map that is fresh is the memory's.        *)
LoaderInv ==
    /\ memory \in [Pages -> Types]
    /\ DOMAIN handed = {"map", "capacity", "buffer", "info"}
    /\ handed.buffer \in Pages \cup {None}
    /\ handed.info \in Pages \cup {None}
    /\ at \in {"open", "file", "read", "elf"} => step = 1
    /\ at = "segments" => step \in Nat \ {0}
    /\ \A p \in Pages : Loaded(p) => memory[p] = "loader_data" /\ p # handed.buffer
    /\ at \in HasInfo => /\ handed.info \in Pages
                         /\ memory[handed.info] = "loader_data"
                         /\ handed.info # handed.buffer
    /\ handed.buffer # None => memory[handed.buffer] = "loader_data"
    /\ at \in {"fetch", "exit"} \cup HasMap => handed.buffer # None
    /\ at = "exit" /\ fresh => handed.map = memory
    /\ at \in HasMap => handed.map = memory
    /\ at \in {"open", "file", "read", "elf", "segments", "info"} => handed.buffer = None

-----------------------------------------------------------------------------
(* The buffer that has not been allocated is no page. *)
LEMMA NoneIsNoPage == None \notin Pages
BY StartupAssumption DEF Pages, None

(* The invariant of the loader holds when efi_main() starts. *)
LEMMA LoaderInvInit == StartupInit => LoaderInv
<1> SUFFICES ASSUME StartupInit PROVE LoaderInv
    OBVIOUS
<1>1. memory \in [Pages -> Types]
    BY StartupAssumption DEF StartupInit, Pages, Types
<1>2. ~(at \in Placed) /\ at # "segments"
    BY DEF StartupInit, Placed
<1> QED BY <1>1, <1>2 DEF StartupInit, LoaderInv, Loaded, HasInfo, HasMap, Placed

(* The invariant with which HandoverIsCurrent follows *)
LEMMA LoaderInvSafe == LoaderInv => HandoverIsCurrent
<1> SUFFICES ASSUME LoaderInv, Kernel PROVE
        /\ handed.map = memory
        /\ \A p \in (UNION Range(Segments)) \cup {handed.info, handed.buffer} :
              handed.map[p] \notin {"conventional", "boot_code", "boot_data"}
    BY DEF HandoverIsCurrent
<1>1. at \in HasMap /\ at \in HasInfo /\ at \in Placed
    BY DEF Kernel, HasMap, HasInfo, Placed
<1>2. handed.map = memory
    BY <1>1 DEF LoaderInv
<1>3. ASSUME NEW p \in UNION Range(Segments)
      PROVE  memory[p] = "loader_data"
  <2>1. PICK k \in DOMAIN Segments : p \in Segments[k]
    BY <1>3 DEF Range
  <2>2. p \in Pages
    BY <2>1, StartupAssumption
  <2> QED BY <1>1, <2>1, <2>2 DEF LoaderInv, Loaded
<1>4. memory[handed.info] = "loader_data" /\ memory[handed.buffer] = "loader_data"
    BY <1>1 DEF LoaderInv
<1>5. ASSUME NEW p \in (UNION Range(Segments)) \cup {handed.info, handed.buffer}
      PROVE  memory[p] = "loader_data"
    BY <1>3, <1>4
<1> QED BY <1>2, <1>5

-----------------------------------------------------------------------------
(* A driver of the firmware touches no page of the loader's. *)
LEMMA FirmwareEventInv == ASSUME LoaderInv, FirmwareEvent PROVE LoaderInv'
<1>1. \E p \in Pages :
        /\ memory[p] \in {"conventional", "boot_data"}
        /\ \E type \in {"conventional", "boot_data"} : memory' = [memory EXCEPT ![p] = type]
    BY DEF FirmwareEvent
<1>2. /\ memory' \in [Pages -> Types]
      /\ \A p \in Pages : memory[p] = "loader_data" => memory'[p] = "loader_data"
    BY <1>1 DEF LoaderInv, Types
<1>3. /\ at \notin HasMap /\ at' = at /\ step' = step /\ handed' = handed /\ ~fresh'
      /\ \A p : Loaded(p)' <=> Loaded(p)
    BY DEF FirmwareEvent, Kernel, HasMap, Loaded
<1>4. \A p \in Pages : Loaded(p)' => memory'[p] = "loader_data" /\ p # handed'.buffer
    BY <1>2, <1>3 DEF LoaderInv
<1> QED BY <1>2, <1>3, <1>4 DEF LoaderInv

(* The steps that only go from one place to another *)
Jumps == {<<"open", "file">>, <<"read", "elf">>, <<"elf", "segments">>, <<"segments", "info">>,
          <<"pixels", "rsdp">>, <<"exit", "jump">>, <<"kmain", "smp">>, <<"kmain", "panic">>,
          <<"smp", "panic">>}

(* A step of efi_main() that only moves on. *)
LEMMA GotoInv ==
    ASSUME LoaderInv, NEW place, NEW next, Goto(place, next),
           next = "halt" \/ <<place, next>> \in Jumps,
           next = "info" => step > Len(Segments),
           next = "jump" => fresh
    PROVE  LoaderInv'
<1>1. /\ at = place /\ at' = next /\ step' = step /\ memory' = memory
      /\ handed' = handed /\ fresh' = fresh
    BY DEF Goto
<1>2. \A p \in Pages : Loaded(p)' => Loaded(p)
    BY <1>1, StartupAssumption DEF Loaded, Placed, Jumps, LoaderInv
<1>3. \A p \in Pages : Loaded(p)' => memory'[p] = "loader_data" /\ p # handed'.buffer
    BY <1>1, <1>2 DEF LoaderInv
<1> QED BY <1>1, <1>3 DEF LoaderInv, Placed, HasInfo, HasMap, Jumps

(* Allocating a page that is free takes none that the kernel needs. *)
LEMMA AllocateKeeps ==
    ASSUME NEW pages \in SUBSET Pages, NEW mem \in [Pages -> Types], Allocate(pages, mem)
    PROVE  /\ memory' \in [Pages -> Types]
           /\ \A p \in Pages : mem[p] = "loader_data" => memory'[p] = "loader_data" /\ p \notin pages
           /\ \A p \in pages : memory'[p] = "loader_data"
           /\ fresh' = FALSE
BY DEF Allocate, Types

(* The buffer for kernel.elf, the segments and boot_info *)
LEMMA AllocInv ==
    ASSUME LoaderInv, AllocFileBuffer \/ LoadSegment \/ AllocInfo
    PROVE  LoaderInv'
<1>0. memory \in [Pages -> Types] /\ None \notin Pages
    BY NoneIsNoPage DEF LoaderInv
<1>1. CASE AllocFileBuffer
  <2>1. PICK q \in Pages : Allocate({q}, memory)
    BY <1>1 DEF AllocFileBuffer
  <2>2. memory' \in [Pages -> Types]
    BY <1>0, <2>1, AllocateKeeps, Zenon
  <2>3. at' = "read" /\ at = "file" /\ step' = step /\ handed' = handed
    BY <1>1 DEF AllocFileBuffer
  <2> QED BY <2>2, <2>3 DEF LoaderInv, Loaded, Placed, HasInfo, HasMap
<1>2. CASE LoadSegment
  <2>1. /\ at = "segments" /\ at' = at /\ handed' = handed /\ step \in Nat \ {0}
        /\ step' = step + 1 /\ Allocate(Segments[step], memory) /\ step <= Len(Segments)
    BY <1>2 DEF LoadSegment, LoaderInv
  <2>2. CASE step \in DOMAIN Segments
    <3>1. Segments[step] \in SUBSET Pages
        BY <2>2, StartupAssumption
    <3>2. /\ memory' \in [Pages -> Types]
          /\ \A p \in Pages : memory[p] = "loader_data" => memory'[p] = "loader_data"
          /\ \A p \in Segments[step] : memory'[p] = "loader_data"
        BY <1>0, <2>1, <3>1, AllocateKeeps, Zenon
    <3>3. \A p \in Pages : Loaded(p)' => Loaded(p) \/ p \in Segments[step]
        BY <2>1, StartupAssumption DEF Loaded, Placed
    <3>4. handed.buffer = None
        BY <2>1 DEF LoaderInv
    <3>5. \A p \in Pages : Loaded(p)' => memory'[p] = "loader_data" /\ p # handed'.buffer
        BY <1>0, <2>1, <3>2, <3>3, <3>4 DEF LoaderInv
    <3> QED BY <2>1, <3>2, <3>4, <3>5 DEF LoaderInv, HasInfo, HasMap, Placed
  <2>3. step \in DOMAIN Segments
    BY <2>1, StartupAssumption
  <2> QED BY <2>2, <2>3
<1>3. CASE AllocInfo
  <2>1. PICK q \in Pages : Allocate({q}, memory) /\ handed' = [handed EXCEPT !.info = q]
    BY <1>3 DEF AllocInfo
  <2>2. /\ memory' \in [Pages -> Types]
        /\ \A p \in Pages : memory[p] = "loader_data" => memory'[p] = "loader_data"
        /\ memory'[q] = "loader_data"
    BY <1>0, <2>1, AllocateKeeps, Zenon
  <2>3. at = "info" /\ at' = "pixels" /\ handed.buffer = None
    BY <1>3 DEF AllocInfo, LoaderInv
  <2>4. /\ DOMAIN handed' = {"map", "capacity", "buffer", "info"}
        /\ handed'.info = q /\ handed'.buffer = None
    BY <2>1, <2>3 DEF LoaderInv
  <2>5. \A p \in Pages : Loaded(p)' => Loaded(p)
    BY <2>3 DEF Loaded, Placed
  <2>6. \A p \in Pages : Loaded(p)' => memory'[p] = "loader_data" /\ p # handed'.buffer
    BY <1>0, <2>2, <2>4, <2>5 DEF LoaderInv
  <2> QED BY <1>0, <2>2, <2>3, <2>4, <2>6 DEF LoaderInv, HasMap
<1> QED BY <1>1, <1>2, <1>3

(* The memory map: each attempt sizes it, replaces the buffer and fetches it. *)
LEMMA MapInv ==
    ASSUME LoaderInv, FillRsdp \/ SizeMap \/ AllocMapBuffer \/ FetchMap \/ Retry
    PROVE  LoaderInv'
<1>0. memory \in [Pages -> Types] /\ None \notin Pages
    BY NoneIsNoPage DEF LoaderInv
<1>1. CASE FillRsdp \/ Retry
  <2>1. /\ at \in {"rsdp", "exit"} /\ at' \in {"size", "halt"}
        /\ step' = step /\ memory' = memory /\ handed' = handed
    BY <1>1 DEF FillRsdp, Retry
  <2>2. \A p \in Pages : Loaded(p)' => Loaded(p)
    BY <2>1 DEF Loaded, Placed
  <2>3. \A p \in Pages : Loaded(p)' => memory'[p] = "loader_data" /\ p # handed'.buffer
    BY <2>1, <2>2 DEF LoaderInv
  <2> QED BY <2>1, <2>3 DEF LoaderInv, Placed, HasInfo, HasMap
<1>2. CASE SizeMap \/ FetchMap
  <2>1. /\ at \in {"size", "fetch"} /\ at' \in {"buffer", "exit"}
        /\ at' = "exit" => at = "fetch" /\ handed'.map = memory
        /\ step' = step /\ memory' = memory
        /\ DOMAIN handed' = DOMAIN handed
        /\ handed'.buffer = handed.buffer /\ handed'.info = handed.info
    BY <1>2 DEF SizeMap, FetchMap, LoaderInv
  <2>2. \A p \in Pages : Loaded(p)' => Loaded(p)
    BY <2>1 DEF Loaded, Placed
  <2>3. \A p \in Pages : Loaded(p)' => memory'[p] = "loader_data" /\ p # handed'.buffer
    BY <2>1, <2>2 DEF LoaderInv
  <2> QED BY <2>1, <2>3 DEF LoaderInv, Placed, HasInfo, HasMap
<1>3. CASE AllocMapBuffer
  <2> DEFINE freed == [p \in Pages |-> IF p = handed.buffer THEN "conventional" ELSE memory[p]]
  <2>1. PICK q \in Pages : Allocate({q}, freed) /\ handed' = [handed EXCEPT !.buffer = q]
    BY <1>3, Zenon DEF AllocMapBuffer
  <2>2. /\ at = "buffer" /\ at' = "fetch" /\ step' = step
    BY <1>3 DEF AllocMapBuffer
  <2>3. freed \in [Pages -> Types]
    BY <1>0 DEF Types
  <2>4. /\ memory' \in [Pages -> Types]
        /\ \A p \in Pages : freed[p] = "loader_data" => memory'[p] = "loader_data" /\ p # q
        /\ memory'[q] = "loader_data"
    <3> HIDE DEF freed
    <3> QED BY <2>1, <2>3, AllocateKeeps, Zenon
  <2>5. \A p \in Pages : memory[p] = "loader_data" /\ p # handed.buffer
            => memory'[p] = "loader_data" /\ p # q
    BY <2>4
  <2>6. /\ DOMAIN handed' = {"map", "capacity", "buffer", "info"}
        /\ handed'.buffer = q /\ handed'.info = handed.info
    BY <2>1 DEF LoaderInv
  <2>7. \A p \in Pages : Loaded(p)' => Loaded(p)
    BY <2>2 DEF Loaded, Placed
  <2>8. \A p \in Pages : Loaded(p)' => memory'[p] = "loader_data" /\ p # handed'.buffer
    BY <2>5, <2>6, <2>7 DEF LoaderInv
  <2>9. /\ handed.info \in Pages /\ memory'[handed.info] = "loader_data" /\ handed.info # q
    BY <2>2, <2>5 DEF LoaderInv, HasInfo, Placed
  <2> HIDE DEF freed
  <2> QED BY <1>0, <2>2, <2>4, <2>6, <2>8, <2>9 DEF LoaderInv, HasMap
<1> QED BY <1>1, <1>2, <1>3

(* Once the firmware has let go, no step of the kernel changes what it got. *)
LEMMA KernelInv ==
    ASSUME LoaderInv, at \in HasMap, at' \in HasMap, UNCHANGED <<memory, handed>>
    PROVE  LoaderInv'
<1>1. \A p \in Pages : Loaded(p)' => Loaded(p)
    BY DEF Loaded, Placed, HasMap
<1>2. \A p \in Pages : Loaded(p)' => memory'[p] = "loader_data" /\ p # handed'.buffer
    BY <1>1 DEF LoaderInv
<1> QED BY <1>2 DEF LoaderInv, HasMap, HasInfo, Placed

-----------------------------------------------------------------------------
(* Every step from efi_main() on keeps the invariant. *)
LEMMA LoaderInvNext == ASSUME LoaderInv, [StartupNext]_allVars PROVE LoaderInv'
<1>1. CASE FirmwareEvent
    BY <1>1, FirmwareEventInv
<1>2. CASE LoaderStep
  <2>1. CASE OpenKernelFile \/ ReadKernelFile \/ CheckElfHeader \/ FillFramebuffer
    BY <2>1, GotoInv DEF OpenKernelFile, ReadKernelFile, CheckElfHeader, FillFramebuffer, Jumps
  <2>2. CASE LocateGop
    BY <2>2, GotoInv DEF LocateGop, Jumps
  <2>3. CASE ExitBootServices
    BY <2>3, GotoInv DEF ExitBootServices, Jumps
  <2>4. CASE fatal
    BY <2>4, GotoInv, Zenon DEF fatal
  <2>5. CASE AllocFileBuffer \/ LoadSegment \/ AllocInfo
    BY <2>5, AllocInv
  <2>6. CASE FillRsdp \/ SizeMap \/ AllocMapBuffer \/ FetchMap \/ Retry
    BY <2>6, MapInv
  <2>7. CASE EnterKernel
    BY <2>7, KernelInv DEF EnterKernel, HasMap
  <2> QED BY <1>2, <2>1, <2>2, <2>3, <2>4, <2>5, <2>6, <2>7 DEF LoaderStep
<1>3. CASE KmainStep \/ SmpPanics
    BY <1>3, KernelInv DEF KmainStep, SmpPanics, KmainInit, InitPanics, FindApicIds, NoApicIds,
        AcpiPanics, Goto, HasMap
<1>4. CASE UNCHANGED loaderVars
  <2>1. \A p \in Pages : Loaded(p)' <=> Loaded(p)
    BY <1>4 DEF loaderVars, Loaded
  <2> QED BY <1>4, <2>1 DEF loaderVars, LoaderInv
<1>5. CASE BspRuns \/ (at = "smp" /\ Smp(Tick)) \/ (\E a \in APs : ApRuns(a)) \/ Smp(Settled)
  <2>1. UNCHANGED loaderVars
    BY <1>5 DEF BspRuns, ApRuns, Smp
  <2> QED BY <1>4, <2>1
<1> QED BY <1>1, <1>2, <1>3, <1>4, <1>5 DEF StartupNext, allVars

(* For every memory map of the firmware, every layout of the kernel, every     *)
(* number of attempts and however the firmware changes memory meanwhile: the   *)
(* map that efi_main() passes on is the memory as ExitBootServices() left it,  *)
(* and kernel, boot_info and map lie outside what pmm_init() takes for free.   *)
THEOREM HandoverCurrent == StartupSpec => []HandoverIsCurrent
<1>1. StartupInit => LoaderInv
    BY LoaderInvInit
<1>2. LoaderInv /\ [StartupNext]_allVars => LoaderInv'
    BY LoaderInvNext
<1>3. LoaderInv => HandoverIsCurrent
    BY LoaderInvSafe
<1> QED BY <1>1, <1>2, <1>3, PTL DEF StartupSpec

--------------------------------------------------------------------------------
(* Bringing up the application processors, when every AP that starts at all    *)
(* does so before the BSP gives up on it (PromptAps).                          *)

(* The BSP waits for at most one AP at a time, and its counts agree *)
BspInv ==
    /\ at \notin {"smp", "panic"} => bsp = "smp_init" /\ i = 1
    /\ cpu_count >= 1 /\ cpu_count <= i
    /\ \A k \in 1 .. Len(apic_ids) : apic_ids[k] = BspId /\ k < i => cpu_count <= i - 1
    /\ bsp \in {"sipi", "wait", "check"} =>
          /\ i <= Len(apic_ids) /\ apic_ids[i] # BspId
          /\ ap_stack_top = i /\ ap_core_index = cpu_count
          /\ before = cpu_count - 1
    /\ bsp \notin {"wait", "check"} => ap_started_count = cpu_count - 1
    /\ bsp \in {"wait", "check"} => ap_started_count \in {before, before + 1}
    /\ bsp = "check" => ap_started_count # before \/ apic_ids[i] \in dead
    /\ bsp \in {"callback", "signal", "start", "joined"} => idle_count = cpu_count
    /\ scheduler_ready => bsp \in {"start", "joined"}
    /\ core[BspId] # None => bsp = "joined" /\ core[BspId] = 0

(* An AP that runs has a stack and an index of its own: the index is that of   *)
(* its entry in the table, or the one this entry will get.                     *)
ApInv(a) ==
    /\ ap[a] \in {"sipi", "entry", "set_up"} =>
          bsp = "wait" /\ a = apic_ids[i] /\ ap_started_count = before
    /\ ap[a] \in {"halted", "sipi"} => my_stack[a] = None
    /\ my_index[a] # None <=> ap[a] \in {"set_up", "waiting", "joined"}
    /\ my_stack[a] # None => my_stack[a] \in 1 .. Len(apic_ids) /\ apic_ids[my_stack[a]] = a
    /\ my_index[a] # None =>
          \/ /\ my_index[a] \in 1 .. cpu_count - 1 /\ core_apic_ids[my_index[a]] = a
             /\ ap[a] # "set_up"
          \/ /\ bsp \in {"wait", "check"} /\ a = apic_ids[i] /\ my_index[a] = cpu_count
             /\ ap[a] # "set_up" => ap_started_count # before
    /\ core[a] # None =>
          bsp \in {"start", "joined"} /\ ap[a] = "joined" /\ core[a] = my_index[a]

Untouched(a) == ap[a] = "halted" /\ my_stack[a] = None /\ my_index[a] = None

(* What smp_init() has not started yet, or never will, is untouched *)
UntouchedInv ==
    /\ \A a \in dead : Untouched(a)
    /\ \A k \in 1 .. Len(apic_ids) :
          apic_ids[k] # BspId /\ (k > i \/ (k = i /\ bsp \in {"smp_init", "sipi"}))
              => Untouched(apic_ids[k])

(* Every entry of the core table is that of the core with this index, and the  *)
(* AP that has counted itself holds the index of the next                      *)
TableInv ==
    /\ core_apic_ids[0] = BspId
    /\ \A k \in 1 .. cpu_count - 1 :
          core_apic_ids[k] \in APs /\ my_index[core_apic_ids[k]] = k
    /\ bsp \in {"wait", "check"} /\ ap_started_count # before
          => my_index[apic_ids[i]] = cpu_count

SmpInv == TypeOK /\ BspInv /\ (\A a \in APs : ApInv(a)) /\ UntouchedInv /\ TableInv

(* The list of processors has no id twice and at most SMP_MAX_CPUS entries *)
LEMMA ApicIds ==
    /\ Len(apic_ids) \in Nat /\ Len(apic_ids) <= SMP_MAX_CPUS
    /\ DOMAIN apic_ids = 1 .. Len(apic_ids)
    /\ \A k \in 1 .. Len(apic_ids) : apic_ids[k] \in Nat
    /\ \A j, k \in 1 .. Len(apic_ids) : apic_ids[j] = apic_ids[k] => j = k
<1> DEFINE n == IF Len(Madt) < SMP_MAX_CPUS THEN Len(Madt) ELSE SMP_MAX_CPUS
<1>1. Madt \in Seq(Nat) /\ SMP_MAX_CPUS \in Nat /\ n \in 0 .. Len(Madt) /\ n <= SMP_MAX_CPUS
    BY SmpAssumption
<1>2. /\ Len(apic_ids) = n /\ DOMAIN apic_ids = 1 .. n
      /\ \A k \in 1 .. n : apic_ids[k] = Madt[k]
    BY <1>1 DEF apic_ids
<1>3. \A j, k \in 1 .. Len(Madt) : Madt[j] = Madt[k] => j = k
    BY <1>1, SmpAssumption DEF IsInjective
<1> HIDE DEF n
<1>4. \A k \in 1 .. n : k \in 1 .. Len(Madt) /\ Madt[k] \in Nat
    BY <1>1
<1>5. \A j, k \in 1 .. n : apic_ids[j] = apic_ids[k] => j = k
    BY <1>2, <1>3, <1>4
<1>6. n \in Nat
    BY <1>1
<1> QED BY <1>1, <1>2, <1>4, <1>5, <1>6, SMTT(60)

(* The application processors are the listed ids but the BSP's. *)
LEMMA ApFacts ==
    /\ None \notin APs /\ BspId \notin APs /\ BspId # None
    /\ \A a \in APs : \E k \in 1 .. Len(apic_ids) : apic_ids[k] = a
    /\ \A k \in 1 .. Len(apic_ids) : apic_ids[k] # BspId => apic_ids[k] \in APs
BY ApicIds, SmpAssumption DEF APs, None

(* The invariant of smp_init() holds at the start. *)
LEMMA SmpInvInit == StartupInit => SmpInv
<1> SUFFICES ASSUME StartupInit PROVE SmpInv
    OBVIOUS
<1>0. SMP_MAX_CPUS \in Nat \ {0} /\ BspId \in Nat
    BY SmpAssumption
<1>1. TypeOK
  <2>1. scheduler_ready \in BOOLEAN /\ tick_callback \in BOOLEAN
    BY Zenon DEF StartupInit, Init
  <2>2. core_apic_ids \in [0 .. SMP_MAX_CPUS -> CPUs \cup {None}]
    BY <1>0 DEF StartupInit, Init, CPUs
  <2>3. /\ ap \in [APs -> {"halted", "sipi", "entry", "set_up", "waiting", "joined"}]
        /\ my_stack \in [APs -> Int] /\ my_index \in [APs -> Int] /\ core \in [CPUs -> Int]
    BY DEF StartupInit, Init, None
  <2> QED BY <1>0, <2>1, <2>2, <2>3, ApicIds DEF StartupInit, Init, TypeOK, None
<1>2. \A a \in APs : Untouched(a) /\ core[a] = None
    BY DEF StartupInit, Init, Untouched, CPUs
<1>3. \A a \in APs : ApInv(a)
    BY <1>2 DEF ApInv, Untouched
<1>4. core[BspId] = None /\ core_apic_ids[0] = BspId /\ cpu_count = 1 /\ dead \subseteq APs
    BY <1>0 DEF StartupInit, Init, CPUs
<1>5. BspInv
    BY <1>4, ApicIds DEF StartupInit, Init, BspInv
<1>6. UntouchedInv
    BY <1>2, <1>4, ApFacts DEF UntouchedInv
<1>7. TableInv
    BY <1>4 DEF StartupInit, Init, TableInv
<1> QED BY <1>1, <1>3, <1>5, <1>6, <1>7 DEF SmpInv

(* The loader and kmain() before smp_init(), and panic(), leave all of it alone *)
LEMMA SmpStutters ==
    ASSUME SmpInv, UNCHANGED vars, at \in {"smp", "panic"} => at' \in {"smp", "panic"}
    PROVE  SmpInv'
<1> USE DEF vars, bspVars, apVars
<1>1. TypeOK'
    BY DEF SmpInv, TypeOK
<1>2. BspInv'
    BY DEF SmpInv, BspInv
<1>3. \A a \in APs : ApInv(a)'
    BY SMTT(60) DEF SmpInv, ApInv
<1>4. UntouchedInv'
    BY DEF SmpInv, UntouchedInv, Untouched
<1>5. TableInv'
    BY DEF SmpInv, TableInv
<1> QED BY <1>1, <1>2, <1>3, <1>4, <1>5, Zenon DEF SmpInv

(* Without a MADT the loop of smp_init() ends before its first entry *)
LEMMA NoApicIdsKeeps == SmpInv /\ NoApicIds => SmpInv'
<1> SUFFICES ASSUME SmpInv, NoApicIds PROVE SmpInv'
    OBVIOUS
<1> USE ApicIds, ApFacts DEF NoApicIds, apVars
<1>0. TypeOK /\ BspInv /\ (\A a \in APs : ApInv(a)) /\ UntouchedInv /\ TableInv
    BY Zenon DEF SmpInv
<1>a. bsp = "smp_init" /\ i = 1 /\ cpu_count = 1
    BY <1>0 DEF TypeOK, BspInv
<1>1. TypeOK'
    BY <1>0 DEF TypeOK
<1>2. BspInv'
    BY <1>0, <1>a DEF TypeOK, BspInv
<1>3. \A a \in APs : ApInv(a)'
    BY <1>0, <1>a DEF ApInv
<1>4. UntouchedInv'
    BY <1>0 DEF UntouchedInv, Untouched
<1>5. TableInv'
    BY <1>0, <1>a DEF TableInv
<1> QED BY <1>1, <1>2, <1>3, <1>4, <1>5, Zenon DEF SmpInv

(* The loop of smp_init() skips its own id. *)
LEMMA SkipBspKeeps ==
    ASSUME SmpInv, SkipBsp, at = "smp", UNCHANGED loaderVars
    PROVE  SmpInv'
<1> USE ApicIds, ApFacts DEF SkipBsp, loaderVars, apVars, AtEntry
<1>0. TypeOK /\ BspInv /\ (\A a \in APs : ApInv(a)) /\ UntouchedInv /\ TableInv
    BY Zenon DEF SmpInv
<1>1. TypeOK'
    BY <1>0 DEF TypeOK, BspInv
<1>2. BspInv'
    BY <1>0 DEF TypeOK, BspInv
<1>3. \A a \in APs : ApInv(a)'
    BY <1>0, SMTT(60) DEF TypeOK, BspInv, ApInv
<1>4. UntouchedInv'
    BY <1>0 DEF TypeOK, BspInv, UntouchedInv, Untouched
<1>5. TableInv'
    BY <1>0 DEF TypeOK, BspInv, TableInv
<1> QED BY <1>1, <1>2, <1>3, <1>4, <1>5, Zenon DEF SmpInv

(* The BSP fills the mailbox for the next AP. *)
LEMMA FillMailboxKeeps ==
    ASSUME SmpInv, FillMailbox, at = "smp", UNCHANGED loaderVars
    PROVE  SmpInv'
<1> USE ApicIds, ApFacts DEF FillMailbox, loaderVars, apVars, AtEntry
<1>0. TypeOK /\ BspInv /\ (\A a \in APs : ApInv(a)) /\ UntouchedInv /\ TableInv
    BY Zenon DEF SmpInv
<1>1. TypeOK'
    BY <1>0 DEF TypeOK, BspInv
<1>2. BspInv'
    BY <1>0 DEF TypeOK, BspInv
<1>3. \A a \in APs : ApInv(a)'
    BY <1>0, SMTT(60) DEF TypeOK, BspInv, ApInv
<1>4. UntouchedInv'
    BY <1>0 DEF TypeOK, BspInv, UntouchedInv, Untouched
<1>5. TableInv'
    BY <1>0 DEF TypeOK, BspInv, TableInv
<1> QED BY <1>1, <1>2, <1>3, <1>4, <1>5, Zenon DEF SmpInv

(* INIT and SIPI reach an AP that has read nothing yet *)
LEMMA SendInitSipiKeeps ==
    ASSUME SmpInv, SendInitSipi, at = "smp", UNCHANGED loaderVars
    PROVE  SmpInv'
<1> USE ApicIds, ApFacts DEF SendInitSipi, loaderVars
<1>0. TypeOK /\ BspInv /\ (\A a \in APs : ApInv(a)) /\ UntouchedInv /\ TableInv
    BY Zenon DEF SmpInv
<1>1. TypeOK'
    BY <1>0 DEF TypeOK, BspInv
<1>2. BspInv'
    BY <1>0 DEF TypeOK, BspInv
<1>3. \A a \in APs : ApInv(a)'
  <2>0. bsp = "sipi" /\ apic_ids[i] # BspId /\ i \in 1 .. Len(apic_ids)
    BY <1>0 DEF TypeOK, BspInv
  <2>u. apic_ids[i] \in APs /\ Untouched(apic_ids[i])
    <3>1. bsp \in {"smp_init", "sipi"} /\ i = i
      BY <2>0
    <3> QED BY <1>0, <2>0, <3>1, Zenon DEF UntouchedInv
  <2>1. apic_ids[i] \in APs /\ Untouched(apic_ids[i]) /\ core[apic_ids[i]] = None
    <3>1. "halted" # "joined"
      OBVIOUS
    <3> QED BY <1>0, <2>u, <3>1, Zenon DEF ApInv, Untouched
  <2>2. ASSUME NEW a \in APs, a = apic_ids[i] PROVE ApInv(a)'
    BY <1>0, <2>1, <2>2, ZenonT(60) DEF TypeOK, BspInv, ApInv, Untouched
  <2>3. ASSUME NEW a \in APs, a # apic_ids[i] PROVE ApInv(a)'
    <3>1. ap'[a] = ap[a]
      BY <1>0, <2>3 DEF TypeOK
    <3>2. UNCHANGED <<my_stack, my_index, core, i, before, cpu_count, core_apic_ids, ap_started_count>>
      BY Zenon
    <3>3. ~(ap[a] \in {"sipi", "entry", "set_up"})
      <4>1. bsp # "wait"
        BY <2>0
      <4> QED BY <1>0, <4>1, Zenon DEF ApInv
    <3>4. ~(bsp \in {"wait", "check"}) /\ ~(bsp \in {"start", "joined"})
      BY <2>0
    <3>5. ApInv(a)
      BY <1>0
    <3>6. core[a] = None
      BY <3>4, <3>5, Zenon DEF ApInv
    <3>7. my_index[a] # None =>
              /\ my_index[a] \in 1 .. cpu_count - 1 /\ core_apic_ids[my_index[a]] = a
              /\ ap[a] # "set_up"
      BY <3>4, <3>5, Zenon DEF ApInv
    <3>8. /\ ap[a] \in {"halted", "sipi"} => my_stack[a] = None
          /\ my_index[a] # None <=> ap[a] \in {"set_up", "waiting", "joined"}
          /\ my_stack[a] # None =>
                my_stack[a] \in 1 .. Len(apic_ids) /\ apic_ids[my_stack[a]] = a
      BY <3>5, Zenon DEF ApInv
    <3> HIDE DEF SendInitSipi
    <3> QED BY <3>1, <3>2, <3>3, <3>6, <3>7, <3>8, Zenon DEF ApInv
  <2> QED BY <2>2, <2>3
<1>4. UntouchedInv'
    BY <1>0 DEF TypeOK, BspInv, UntouchedInv, Untouched
<1>5. TableInv'
    BY <1>0, SMTT(60) DEF TypeOK, BspInv, TableInv
<1> QED BY <1>1, <1>2, <1>3, <1>4, <1>5, Zenon DEF SmpInv

(* When the BSP stops waiting, the AP has read the mailbox or never will *)
LEMMA WaitEndsKeeps ==
    ASSUME SmpInv, WaitEnds, PromptAps, at = "smp", UNCHANGED loaderVars
    PROVE  SmpInv'
<1> USE ApicIds, ApFacts DEF WaitEnds, loaderVars, apVars
<1>0. TypeOK /\ BspInv /\ (\A a \in APs : ApInv(a)) /\ UntouchedInv /\ TableInv
    BY Zenon DEF SmpInv
<1>1. TypeOK'
    BY <1>0 DEF TypeOK, BspInv
<1>2. BspInv'
    BY <1>0, SMTT(60) DEF TypeOK, BspInv
<1>3. \A a \in APs : ApInv(a)'
  <2> SUFFICES ASSUME NEW a \in APs PROVE ApInv(a)'
    OBVIOUS
  <2>1. ap[a] \notin {"sipi", "entry", "set_up"}
    BY <1>0, SMTT(60) DEF ApInv, UntouchedInv, Untouched
  <2> QED BY <1>0, <2>1 DEF TypeOK, ApInv
<1>4. UntouchedInv'
    BY <1>0 DEF TypeOK, BspInv, UntouchedInv, Untouched
<1>5. TableInv'
    BY <1>0 DEF TypeOK, BspInv, TableInv
<1> QED BY <1>1, <1>2, <1>3, <1>4, <1>5, Zenon DEF SmpInv

(* The BSP records an AP that answered, or gives up on one that did not. *)
LEMMA RecordKeeps ==
    ASSUME SmpInv, Record, at = "smp", UNCHANGED loaderVars
    PROVE  SmpInv'
<1> USE ApicIds, ApFacts DEF Record, loaderVars, apVars
<1>0. TypeOK /\ BspInv /\ (\A a \in APs : ApInv(a)) /\ UntouchedInv /\ TableInv
    BY Zenon DEF SmpInv
<1>a. /\ apic_ids[i] \in APs /\ apic_ids[i] \in CPUs
      /\ SMP_MAX_CPUS \in Nat /\ cpu_count \in 1 .. SMP_MAX_CPUS /\ i \in 1 .. Len(apic_ids)
    BY <1>0, SmpAssumption, SMTT(60) DEF TypeOK, BspInv, CPUs
<1>1. TypeOK'
  <2>1. core_apic_ids' \in [0 .. SMP_MAX_CPUS -> CPUs \cup {None}] /\ cpu_count' \in Nat
    BY <1>0, <1>a, SMTT(60) DEF TypeOK
  <2> QED BY <1>0, <1>a, <2>1 DEF TypeOK, BspInv
<1>2. BspInv'
    BY <1>0, SMTT(30) DEF TypeOK, BspInv
<1>b. \A k \in 0 .. cpu_count - 1 : core_apic_ids'[k] = core_apic_ids[k]
    BY <1>0, <1>a, SMTT(60) DEF TypeOK
<1>c. /\ ap_started_count # before => core_apic_ids'[cpu_count] = apic_ids[i]
                                      /\ cpu_count' = cpu_count + 1
      /\ ap_started_count = before => cpu_count' = cpu_count
    BY <1>0, <1>a, SMTT(60) DEF TypeOK
<1>3. \A a \in APs : ApInv(a)'
  <2> SUFFICES ASSUME NEW a \in APs PROVE ApInv(a)'
    BY SMTT(60)
  <2>1. ap[a] \notin {"sipi", "entry", "set_up"}
    BY <1>0, SMTT(60) DEF ApInv
  <2>2. my_index[a] # None => my_index[a] \in 1 .. cpu_count' - 1 /\ core_apic_ids'[my_index[a]] = a
    BY <1>0, <1>a, <1>b, <1>c, <2>1, SMTT(60) DEF ApInv
  <2> QED BY <1>0, <2>1, <2>2 DEF TypeOK, ApInv
<1>4. UntouchedInv'
    BY <1>0 DEF TypeOK, BspInv, UntouchedInv, Untouched
<1>5. TableInv'
    BY <1>0, <1>a, <1>b, <1>c DEF TableInv
<1> QED BY <1>1, <1>2, <1>3, <1>4, <1>5, Zenon DEF SmpInv

(* kmain() after smp_init(): no AP is being started any more *)
LEMMA TailKeeps ==
    ASSUME SmpInv, CreateThreads \/ SetTickCallback \/ smp_signal_scheduler_ready,
           at = "smp", UNCHANGED loaderVars
    PROVE  SmpInv'
<1>0. TypeOK /\ BspInv /\ (\A a \in APs : ApInv(a)) /\ UntouchedInv /\ TableInv
    BY Zenon DEF SmpInv
<1>a. /\ UNCHANGED <<i, before, cpu_count, core_apic_ids, ap_stack_top, ap_core_index,
                     ap, my_stack, my_index, ap_started_count, core, dead, at>>
      /\ bsp \in {"smp_init", "callback", "signal"} /\ bsp' \in {"callback", "signal", "start"}
    BY DEF CreateThreads, SetTickCallback, smp_signal_scheduler_ready, apVars, loaderVars
<1>b. bsp = "smp_init" \/ idle_count' = idle_count
    BY DEF CreateThreads, SetTickCallback, smp_signal_scheduler_ready
<1>c. /\ idle_count' \in {idle_count, cpu_count}
      /\ bsp = "smp_init" => idle_count' = cpu_count
      /\ scheduler_ready' = scheduler_ready \/ (scheduler_ready' = TRUE /\ bsp' = "start")
      /\ tick_callback' = tick_callback \/ tick_callback' = TRUE
    BY DEF CreateThreads, SetTickCallback, smp_signal_scheduler_ready
<1>1. TypeOK'
  <2>1. /\ scheduler_ready' \in BOOLEAN /\ tick_callback' \in BOOLEAN /\ idle_count' \in Nat
        /\ bsp' \in {"smp_init", "sipi", "wait", "check", "callback", "signal", "start",
                     "joined"}
    BY <1>0, <1>a, <1>c, Zenon DEF TypeOK
  <2> QED BY <1>0, <1>a, <2>1, Zenon DEF TypeOK
<1>2. BspInv'
  <2>1. idle_count' = cpu_count /\ ap_started_count = cpu_count - 1 /\ core[BspId] = None
    BY <1>0, <1>a, <1>b, <1>c, Zenon DEF BspInv
  <2>2. scheduler_ready' => bsp' = "start"
    BY <1>0, <1>a, <1>c, Zenon DEF BspInv
  <2> QED BY <1>0, <1>a, <2>1, <2>2, Zenon DEF BspInv
<1>3. \A a \in APs : ApInv(a)'
    BY <1>0, <1>a, Zenon DEF ApInv
<1>4. UntouchedInv'
    BY <1>0, <1>a, Zenon DEF UntouchedInv, Untouched
<1>5. TableInv'
    BY <1>0, <1>a, Zenon DEF TableInv
<1> QED BY <1>1, <1>2, <1>3, <1>4, <1>5, Zenon DEF SmpInv

(* The index a core of the table finds for itself is its own *)
LEMMA CurrentIndex ==
    ASSUME SmpInv
    PROVE  /\ smp_current_cpu_index(BspId) = 0
           /\ \A a \in APs : my_index[a] \in 1 .. cpu_count - 1 /\ core_apic_ids[my_index[a]] = a
                 => smp_current_cpu_index(a) = my_index[a]
<1>0. TypeOK /\ BspInv /\ TableInv
    BY Zenon DEF SmpInv
<1>1. 0 \in 0 .. cpu_count - 1 /\ core_apic_ids[0] = BspId
    BY <1>0 DEF TypeOK, BspInv, TableInv
<1>2. smp_current_cpu_index(BspId) = 0
  <2> DEFINE P(k) == core_apic_ids[k] = BspId /\ \A j \in 0 .. k - 1 : core_apic_ids[j] # BspId
  <2>1. P(0)
    BY <1>1
  <2>2. \A k \in 0 .. cpu_count - 1 : P(k) => k = 0
    BY <1>1
  <2>3. (CHOOSE k \in 0 .. cpu_count - 1 : P(k)) = 0
    BY <1>1, <2>1, <2>2
  <2> QED BY <1>1, <2>3 DEF smp_current_cpu_index
<1>3. ASSUME NEW a \in APs, my_index[a] \in 1 .. cpu_count - 1, core_apic_ids[my_index[a]] = a
      PROVE  smp_current_cpu_index(a) = my_index[a]
  <2> DEFINE P(k) == core_apic_ids[k] = a /\ \A j \in 0 .. k - 1 : core_apic_ids[j] # a
  <2>1. \A k \in 0 .. cpu_count - 1 : core_apic_ids[k] = a => k = my_index[a]
    BY <1>0, <1>1, <1>3, ApFacts DEF TypeOK, TableInv
  <2>2. my_index[a] \in 0 .. cpu_count - 1
    BY <1>0, <1>3 DEF TypeOK
  <2>3. P(my_index[a])
    BY <1>0, <1>3, <2>1, <2>2 DEF TypeOK
  <2>4. (CHOOSE k \in 0 .. cpu_count - 1 : P(k)) = my_index[a]
    BY <2>1, <2>2, <2>3
  <2> QED BY <1>3, <2>2, <2>4, Zenon DEF smp_current_cpu_index
<1> QED BY <1>2, <1>3

(* Storing an index keeps the table of indices typed. *)
LEMMA CoreType ==
    ASSUME NEW f \in [CPUs -> Int], NEW c, NEW v \in Int
    PROVE  [f EXCEPT ![c] = v] \in [CPUs -> Int]
BY Zenon

(* The BSP starts to schedule. *)
LEMMA BspJoinsKeeps ==
    ASSUME SmpInv, BspJoins, bsp \in {"signal", "start"}, at = "smp", UNCHANGED loaderVars
    PROVE  SmpInv'
<1> USE ApicIds, ApFacts DEF loaderVars, apVars
<1>0. TypeOK /\ BspInv /\ (\A a \in APs : ApInv(a)) /\ UntouchedInv /\ TableInv
    BY Zenon DEF SmpInv
<1>a. core' = [core EXCEPT ![BspId] = 0]
    BY CurrentIndex DEF BspJoins
<1>b. BspId \in CPUs
    BY DEF CPUs
<1>1. TypeOK'
  <2>1. core' \in [CPUs -> Int]
    BY <1>0, <1>a, CoreType DEF TypeOK
  <2>2. bsp' = "joined" /\ UNCHANGED <<apVars, dead>>
    BY SMTT(60) DEF BspJoins
  <2> QED BY <1>0, <2>1, <2>2 DEF BspJoins, TypeOK
<1>c. /\ core'[BspId] = 0
      /\ \A a \in APs : core'[a] = core[a]
    BY <1>0, <1>a, <1>b DEF TypeOK, CPUs
<1>d. /\ bsp' = "joined"
      /\ UNCHANGED <<i, before, cpu_count, core_apic_ids, ap_stack_top, ap_core_index,
                     scheduler_ready, idle_count, tick_callback, apVars, dead, at>>
    BY Zenon DEF BspJoins
<1>e. /\ ~(bsp \in {"wait", "check"}) /\ ~(bsp \in {"sipi", "wait", "check"})
      /\ ~(bsp' \in {"wait", "check"}) /\ ~(bsp' \in {"sipi", "wait", "check"})
      /\ bsp \in {"callback", "signal", "start", "joined"} /\ bsp' \in {"start", "joined"}
    BY <1>d
<1>f. at' \in {"smp", "panic"} /\ bsp' # "check" /\ bsp \notin {"wait", "check"}
    BY <1>d, <1>e
<1>2. BspInv'
    BY <1>0, <1>c, <1>d, <1>e, <1>f, Zenon DEF BspInv
<1>3. \A a \in APs : ApInv(a)'
  <2>1. \A a \in APs : ~(ap[a] \in {"sipi", "entry", "set_up"})
    BY <1>0, <1>f DEF ApInv
  <2> SUFFICES ASSUME NEW a \in APs PROVE ApInv(a)'
    OBVIOUS
  <2>2. ApInv(a)
    BY <1>0
  <2>3. my_index[a] # None =>
            /\ my_index[a] \in 1 .. cpu_count - 1 /\ core_apic_ids[my_index[a]] = a
            /\ ap[a] # "set_up"
    BY <1>f, <2>2, Zenon DEF ApInv
  <2>4. /\ ap[a] \in {"halted", "sipi"} => my_stack[a] = None
        /\ my_index[a] # None <=> ap[a] \in {"set_up", "waiting", "joined"}
        /\ my_stack[a] # None =>
              my_stack[a] \in 1 .. Len(apic_ids) /\ apic_ids[my_stack[a]] = a
        /\ core[a] # None => ap[a] = "joined" /\ core[a] = my_index[a]
    BY <2>2, Zenon DEF ApInv
  <2>5. /\ UNCHANGED <<ap, my_stack, my_index, cpu_count, core_apic_ids>>
        /\ core'[a] = core[a] /\ bsp' \in {"start", "joined"}
    BY <1>c, <1>d, <1>e, Zenon
  <2> QED BY <2>1, <2>3, <2>4, <2>5, Zenon DEF ApInv
<1>4. UntouchedInv'
    BY <1>0, SMTT(60) DEF BspJoins, TypeOK, BspInv, UntouchedInv, Untouched
<1>5. TableInv'
    BY <1>0 DEF BspJoins, TypeOK, BspInv, TableInv
<1> QED BY <1>1, <1>2, <1>3, <1>4, <1>5, Zenon DEF SmpInv

(* A step of one AP concerns no other *)
LEMMA OtherAp ==
    ASSUME NEW b \in APs, ApInv(b), UNCHANGED <<bspVars, ap_started_count>>,
           ap'[b] = ap[b], my_stack'[b] = my_stack[b], my_index'[b] = my_index[b],
           core'[b] = core[b]
    PROVE  ApInv(b)'
BY Zenon DEF ApInv, bspVars

(* Nor what has not been started *)
LEMMA ApUntouched ==
    ASSUME SmpInv, NEW a \in APs, ap[a] # "halted", UNCHANGED <<bspVars, dead>>,
           \A b \in APs \ {a} : /\ ap'[b] = ap[b] /\ my_stack'[b] = my_stack[b]
                                /\ my_index'[b] = my_index[b]
    PROVE  UntouchedInv'
<1>0. UntouchedInv /\ dead \subseteq APs
    BY Zenon DEF SmpInv, TypeOK
<1>1. \A b \in APs : Untouched(b) => b # a /\ Untouched(b)'
    BY Zenon DEF Untouched
<1> QED BY <1>0, <1>1, ApFacts, Zenon DEF UntouchedInv, bspVars

(* An AP that has not counted itself is the one the BSP waits for *)
LEMMA StartingAp ==
    ASSUME SmpInv, NEW a \in APs, ap[a] \in {"sipi", "entry", "set_up"}
    PROVE  /\ bsp = "wait" /\ a = apic_ids[i] /\ i \in 1 .. Len(apic_ids)
           /\ ap_stack_top = i /\ ap_core_index = cpu_count /\ before = cpu_count - 1
           /\ ap_started_count = before /\ cpu_count \in 1 .. i /\ core[a] = None
<1>0. TypeOK /\ BspInv /\ ApInv(a)
    BY Zenon DEF SmpInv
<1>1. bsp = "wait" /\ a = apic_ids[i] /\ ap_started_count = before /\ core[a] = None
    BY <1>0 DEF ApInv
<1>2. i \in Nat /\ i >= 1 /\ cpu_count \in Nat
    BY <1>0, ApicIds DEF TypeOK
<1> QED BY <1>0, <1>1, <1>2, ApicIds DEF BspInv

(* An AP reads its stack from the mailbox. *)
LEMMA ApReadStackKeeps ==
    ASSUME SmpInv, NEW a \in APs, ApReadStack(a), UNCHANGED loaderVars
    PROVE  SmpInv'
<1>0. TypeOK /\ BspInv /\ (\A b \in APs : ApInv(b)) /\ TableInv
    BY Zenon DEF SmpInv
<1>a. /\ bsp = "wait" /\ a = apic_ids[i] /\ i \in 1 .. Len(apic_ids) /\ ap_stack_top = i
      /\ ap_started_count = before /\ core[a] = None
    BY StartingAp, Zenon DEF ApReadStack
<1>b. /\ UNCHANGED <<bspVars, my_index, ap_started_count, core, dead, at>>
      /\ ap[a] = "sipi" /\ my_index[a] = None
    BY <1>0 DEF ApReadStack, ApInv, loaderVars
<1>c. /\ ap'[a] = "entry" /\ my_stack'[a] = i
      /\ \A b \in APs \ {a} : ap'[b] = ap[b] /\ my_stack'[b] = my_stack[b]
    BY <1>0, <1>a DEF ApReadStack, TypeOK
<1>1. TypeOK'
  <2>1. /\ ap' \in [APs -> {"halted", "sipi", "entry", "set_up", "waiting", "joined"}]
        /\ my_stack' \in [APs -> Int]
    BY <1>0 DEF ApReadStack, TypeOK
  <2> QED BY <1>0, <1>b, <2>1 DEF TypeOK, bspVars
<1>2. BspInv'
    BY <1>0, <1>b, Zenon DEF BspInv, bspVars
<1>3. ApInv(a)'
    BY <1>a, <1>b, <1>c, Zenon DEF ApInv, bspVars
<1>4. \A b \in APs \ {a} : ApInv(b)'
    BY <1>0, <1>b, <1>c, OtherAp, Zenon
<1>5. UntouchedInv'
    BY <1>b, <1>c, ApUntouched, Zenon
<1>6. TableInv'
    BY <1>0, <1>b, Zenon DEF TableInv, bspVars
<1> QED BY <1>1, <1>2, <1>3, <1>4, <1>5, <1>6, Zenon DEF SmpInv

(* The index it takes is that of no entry of the table *)
LEMMA ApReadIndexKeeps ==
    ASSUME SmpInv, NEW a \in APs, ApReadIndex(a), UNCHANGED loaderVars
    PROVE  SmpInv'
<1>0. TypeOK /\ BspInv /\ (\A b \in APs : ApInv(b)) /\ TableInv
    BY Zenon DEF SmpInv
<1>a. /\ bsp = "wait" /\ a = apic_ids[i] /\ i \in 1 .. Len(apic_ids)
      /\ ap_core_index = cpu_count /\ cpu_count \in 1 .. i
      /\ ap_started_count = before /\ core[a] = None
    BY StartingAp, Zenon DEF ApReadIndex
<1>b. /\ UNCHANGED <<bspVars, my_stack, ap_started_count, core, dead, at>>
      /\ ap[a] = "entry" /\ my_index[a] = None
    BY <1>0, SMTT(30) DEF ApReadIndex, ApInv, loaderVars
<1>c. /\ ap'[a] = "set_up" /\ my_index'[a] = cpu_count
      /\ \A b \in APs \ {a} : ap'[b] = ap[b] /\ my_index'[b] = my_index[b]
    BY <1>0, <1>a DEF ApReadIndex, TypeOK
<1>d. cpu_count \in Int /\ cpu_count # None
    BY <1>a DEF None
<1>1. TypeOK'
  <2>1. /\ ap' \in [APs -> {"halted", "sipi", "entry", "set_up", "waiting", "joined"}]
        /\ my_index' \in [APs -> Int]
    BY <1>0, <1>a, <1>d, SMTT(30) DEF ApReadIndex, TypeOK
  <2> QED BY <1>0, <1>b, <2>1, SMTT(60) DEF TypeOK, bspVars
<1>2. BspInv'
    BY <1>0, <1>b, Zenon DEF BspInv, bspVars
<1>3. ApInv(a)'
    BY <1>0, <1>a, <1>b, <1>c, <1>d, Zenon DEF ApInv, bspVars
<1>4. \A b \in APs \ {a} : ApInv(b)'
    BY <1>0, <1>b, <1>c, OtherAp, Zenon
<1>5. UntouchedInv'
    BY <1>b, <1>c, ApUntouched, Zenon
<1>6. TableInv'
  <2>1. \A k \in 1 .. cpu_count - 1 : core_apic_ids[k] # a
    <3>1. my_index[a] = None
      BY <1>b
    <3>2. \A k \in 1 .. cpu_count - 1 : my_index[core_apic_ids[k]] = k
      BY <1>0, Zenon DEF TableInv
    <3>3. \A k \in 1 .. cpu_count - 1 : k # None
      BY <1>d DEF None
    <3> QED BY <3>1, <3>2, <3>3, Zenon
  <2> QED BY <1>0, <1>a, <1>b, <1>c, <2>1, ZenonT(60) DEF TableInv, bspVars
<1> QED BY <1>1, <1>2, <1>3, <1>4, <1>5, <1>6, Zenon DEF SmpInv

(* An AP says that it is up. *)
LEMMA ApCountsItselfKeeps ==
    ASSUME SmpInv, NEW a \in APs, ApCountsItself(a), UNCHANGED loaderVars
    PROVE  SmpInv'
<1>0. TypeOK /\ BspInv /\ (\A b \in APs : ApInv(b)) /\ TableInv
    BY Zenon DEF SmpInv
<1>a. /\ bsp = "wait" /\ a = apic_ids[i] /\ i \in 1 .. Len(apic_ids)
      /\ before = cpu_count - 1 /\ cpu_count \in 1 .. i
      /\ ap_started_count = before /\ core[a] = None
    BY StartingAp, Zenon DEF ApCountsItself
<1>b. /\ UNCHANGED <<bspVars, my_stack, my_index, core, dead, at>>
      /\ ap[a] = "set_up" /\ my_index[a] # None /\ my_index[a] = cpu_count
    BY <1>0, SMTT(60) DEF ApCountsItself, ApInv, loaderVars
<1>c. /\ ap'[a] = "waiting" /\ ap_started_count' = before + 1
      /\ \A b \in APs \ {a} : ap'[b] = ap[b]
    BY <1>0, <1>a DEF ApCountsItself, TypeOK
<1>d. before + 1 # before /\ before + 1 \in 0 .. Len(apic_ids)
    BY <1>a, ApicIds
<1>1. TypeOK'
  <2>1. ap' \in [APs -> {"halted", "sipi", "entry", "set_up", "waiting", "joined"}]
    BY <1>0, SMTT(60) DEF ApCountsItself, TypeOK
  <2> QED BY <1>0, <1>b, <1>c, <1>d, <2>1 DEF TypeOK, bspVars
<1>2. BspInv'
  <2>1. UNCHANGED <<bsp, i, before, cpu_count, ap_stack_top, ap_core_index,
                    scheduler_ready, idle_count, core, dead, at>>
    BY <1>b, Zenon DEF bspVars
  <2>2. bsp # "check" /\ bsp \in {"wait", "check"} /\ ap_started_count' = before + 1
    BY <1>a, <1>c
  <2> QED BY <1>0, <2>1, <2>2, ZenonT(60) DEF BspInv
<1>3. ApInv(a)'
    BY <1>0, <1>a, <1>b, <1>c, <1>d, Zenon DEF ApInv, bspVars
<1>4. ASSUME NEW b \in APs \ {a} PROVE ApInv(b)'
  <2>1. ap[b] \notin {"sipi", "entry", "set_up"} /\ ApInv(b)
    BY <1>0, <1>a, Zenon DEF ApInv
  <2> QED BY <1>a, <1>b, <1>c, <2>1, Zenon DEF ApInv, bspVars
<1>5. UntouchedInv'
    BY <1>b, <1>c, ApUntouched, Zenon
<1>6. TableInv'
    BY <1>0, <1>a, <1>b, ZenonT(60) DEF TableInv, bspVars
<1> QED BY <1>1, <1>2, <1>3, <1>4, <1>5, <1>6, Zenon DEF SmpInv

(* An AP that has seen the signal starts to schedule. *)
LEMMA ApJoinsKeeps ==
    ASSUME SmpInv, NEW a \in APs, ApJoins(a), UNCHANGED loaderVars
    PROVE  SmpInv'
<1>0. TypeOK /\ BspInv /\ (\A b \in APs : ApInv(b)) /\ TableInv
    BY Zenon DEF SmpInv
<1>a. /\ UNCHANGED <<bspVars, my_stack, my_index, ap_started_count, dead, at>>
      /\ ap[a] = "waiting" /\ bsp \in {"start", "joined"}
    BY <1>0 DEF ApJoins, BspInv, loaderVars
<1>b. /\ my_index[a] # None /\ my_index[a] \in 1 .. cpu_count - 1
      /\ core_apic_ids[my_index[a]] = a
    BY <1>0, <1>a, Zenon DEF ApInv
<1>c. core' = [core EXCEPT ![a] = my_index[a]]
  <2>1. smp_current_cpu_index(a) = my_index[a]
    BY <1>b, CurrentIndex
  <2> QED BY <2>1, Zenon DEF ApJoins
<1>d. /\ ap'[a] = "joined" /\ core'[a] = my_index[a] /\ core'[BspId] = core[BspId]
      /\ \A b \in APs \ {a} : ap'[b] = ap[b] /\ core'[b] = core[b]
    BY <1>0, <1>c, ApFacts DEF ApJoins, TypeOK, CPUs
<1>1. TypeOK'
  <2>1. core' \in [CPUs -> Int] /\ my_index[a] \in Int
    BY <1>0, <1>c, CoreType, Zenon DEF TypeOK
  <2>2. ap' \in [APs -> {"halted", "sipi", "entry", "set_up", "waiting", "joined"}]
    BY <1>0 DEF ApJoins, TypeOK
  <2> QED BY <1>0, <1>a, <2>1, <2>2 DEF TypeOK, bspVars
<1>2. BspInv'
    BY <1>0, <1>a, <1>d, Zenon DEF BspInv, bspVars
<1>3. ApInv(a)'
  <2>1. my_stack[a] # None => my_stack[a] \in 1 .. Len(apic_ids) /\ apic_ids[my_stack[a]] = a
    BY <1>0, Zenon DEF ApInv
  <2> QED BY <1>a, <1>b, <1>d, <2>1, Zenon DEF ApInv, bspVars
<1>4. \A b \in APs \ {a} : ApInv(b)'
    BY <1>0, <1>a, <1>d, OtherAp, Zenon
<1>5. UntouchedInv'
    BY <1>a, <1>d, ApUntouched, Zenon
<1>6. TableInv'
    BY <1>0, <1>a, Zenon DEF TableInv, bspVars
<1> QED BY <1>1, <1>2, <1>3, <1>4, <1>5, <1>6, Zenon DEF SmpInv

(* Every step of the boot keeps the invariant *)
LEMMA SmpInvNext ==
    ASSUME PromptAps, SmpInv, [StartupNext]_allVars
    PROVE  SmpInv'
<1>1. ASSUME UNCHANGED vars, at \in {"smp", "panic"} => at' \in {"smp", "panic"}
      PROVE  SmpInv'
    BY <1>1, SmpStutters
<1>2. CASE UNCHANGED allVars
    BY <1>1, <1>2 DEF allVars, loaderVars
<1>3. CASE FirmwareEvent
    BY <1>1, <1>3 DEF FirmwareEvent
<1>4. CASE LoaderStep
  <2>1. UNCHANGED vars /\ at \notin {"smp", "panic"}
    BY <1>4 DEF LoaderStep, OpenKernelFile, AllocFileBuffer, ReadKernelFile, CheckElfHeader,
           LoadSegment, LocateGop, AllocInfo, FillFramebuffer, FillRsdp, SizeMap,
           AllocMapBuffer, FetchMap, ExitBootServices, Retry, EnterKernel, fatal, Goto
  <2> QED BY <1>1, <2>1
<1>5. CASE KmainInit \/ InitPanics \/ FindApicIds \/ AcpiPanics
  <2>1. UNCHANGED vars /\ at \notin {"smp", "panic"}
    BY <1>5 DEF KmainInit, InitPanics, FindApicIds, AcpiPanics, Goto
  <2> QED BY <1>1, <2>1
<1>6. CASE NoApicIds
    BY <1>6, NoApicIdsKeeps
<1>7. CASE SmpPanics
    BY <1>1, <1>7 DEF SmpPanics, Goto
<1>8. CASE BspRuns
  <2>1. at = "smp" /\ BspStep /\ UNCHANGED loaderVars
    BY <1>8 DEF BspRuns, Smp
  <2>2. CASE scheduler_start
    BY <2>1, <2>2, BspJoinsKeeps DEF scheduler_start
  <2> QED BY <2>1, <2>2, SkipBspKeeps, FillMailboxKeeps, SendInitSipiKeeps, WaitEndsKeeps,
             RecordKeeps, TailKeeps DEF BspStep
<1>9. CASE at = "smp" /\ Smp(Tick)
    BY <1>9, BspJoinsKeeps DEF Smp, Tick
<1>10. ASSUME NEW a \in APs, ApRuns(a) PROVE SmpInv'
  <2>1. ApStep(a) /\ UNCHANGED loaderVars
    BY <1>10 DEF ApRuns, Smp
  <2> QED BY <2>1, ApReadStackKeeps, ApReadIndexKeeps, ApCountsItselfKeeps, ApJoinsKeeps
          DEF ApStep
<1>11. CASE Stopped /\ UNCHANGED <<vars, loaderVars>>
    BY <1>1, <1>11 DEF loaderVars
<1>12. CASE Smp(Settled)
    BY <1>1, <1>12 DEF Smp, Settled, loaderVars
<1> QED BY <1>2, <1>3, <1>4, <1>5, <1>6, <1>7, <1>8, <1>9, <1>10, <1>11, <1>12
        DEF StartupNext, KmainStep

(* The invariant holds in every state if APs answer in time. *)
LEMMA SmpInvHolds == PromptAps => (StartupSpec => []SmpInv)
<1> SUFFICES ASSUME PromptAps PROVE StartupSpec => []SmpInv
    OBVIOUS
<1>1. StartupInit => SmpInv
    BY SmpInvInit
<1>2. SmpInv /\ [StartupNext]_allVars => SmpInv'
    BY SmpInvNext
<1> QED BY <1>1, <1>2, PTL DEF StartupSpec

(* OwnStackAndIndex for every list of processors: as each AP has counted       *)
(* itself before smp_init() writes the mailbox for the next, no two run on one *)
(* stack or load one TSS.                                                      *)
THEOREM OwnStacks == PromptAps => (StartupSpec => []OwnStackAndIndex)
<1>1. SmpInv => OwnStackAndIndex
  <2> SUFFICES ASSUME SmpInv PROVE OwnStackAndIndex
    OBVIOUS
  <2>0. TypeOK /\ (\A a \in APs : ApInv(a)) /\ BspInv
    BY Zenon DEF SmpInv
  <2>1. ASSUME NEW a \in APs, NEW b \in APs, a # b, my_stack[a] # None
        PROVE  my_stack[a] # my_stack[b]
    BY <2>0, <2>1, SMTT(60) DEF ApInv
  <2>2. ASSUME NEW a \in APs, my_index[a] # None PROVE my_index[a] # 0
    BY <2>0, <2>2, SMTT(30) DEF TypeOK, ApInv, BspInv
  <2>3. ASSUME NEW a \in APs, NEW b \in APs, a # b, my_index[a] # None
        PROVE  my_index[a] # my_index[b]
    BY <2>0, <2>3, SMTT(60) DEF TypeOK, ApInv
  <2> QED BY <2>0, <2>1, <2>2, <2>3 DEF OwnStackAndIndex
<1> QED BY <1>1, SmpInvHolds, PTL

(* SchedulesUnderOwnTss for every list of processors: the index that           *)
(* smp_current_cpu_index() finds for a core that joins is the one it loaded    *)
(* its TSS with, and the idle thread of that index exists.                     *)
THEOREM OwnTss == PromptAps => (StartupSpec => []SchedulesUnderOwnTss)
<1>1. SmpInv => SchedulesUnderOwnTss
  <2> SUFFICES ASSUME SmpInv, NEW a \in CPUs, core[a] # None
               PROVE  /\ core[a] = IF a = BspId THEN 0 ELSE my_index[a]
                      /\ core[a] < idle_count
    BY DEF SchedulesUnderOwnTss
  <2>0. TypeOK /\ (\A b \in APs : ApInv(b)) /\ BspInv
    BY Zenon DEF SmpInv
  <2>1. CASE a = BspId
    BY <2>0, <2>1, SMTT(60) DEF TypeOK, BspInv
  <2>2. CASE a # BspId
    BY <2>0, <2>2 DEF TypeOK, BspInv, ApInv, CPUs
  <2> QED BY <2>1, <2>2, SMTT(60)
<1> QED BY <1>1, SmpInvHolds, PTL

(* CountsRunningCores for every list of processors that names the BSP, as      *)
(* acpi.h says it does: the table has room for every AP that answers and       *)
(* holds exactly the cores that run.                                           *)
THEOREM CountsCores ==
    ASSUME PromptAps, NEW b \in 1 .. Len(apic_ids), apic_ids[b] = BspId
    PROVE  StartupSpec => []CountsRunningCores
<1>1. SmpInv => CountsRunningCores
  <2> SUFFICES ASSUME SmpInv PROVE CountsRunningCores
    OBVIOUS
  <2>0. TypeOK /\ (\A a \in APs : ApInv(a)) /\ BspInv /\ TableInv
    BY Zenon DEF SmpInv
  <2>1. CoreTableBounded
    BY <2>0, ApicIds, SmpAssumption DEF TypeOK, BspInv, CoreTableBounded
  <2>2. ASSUME bsp \in {"callback", "signal", "start", "joined"}
        PROVE  {core_apic_ids[k] : k \in 0 .. cpu_count - 1}
                  = {BspId} \cup {a \in APs : ap[a] # "halted"}
    <3>1. 0 \in 0 .. cpu_count - 1 /\ core_apic_ids[0] = BspId
        BY <2>0 DEF TypeOK, BspInv, TableInv
    <3>2. ASSUME NEW a \in APs, ap[a] # "halted"
          PROVE  \E k \in 0 .. cpu_count - 1 : core_apic_ids[k] = a
      <4>1. ap[a] \in {"waiting", "joined"}
        BY <2>0, <2>2, <3>2, SMTT(60) DEF TypeOK, ApInv
      <4>2. my_index[a] \in 1 .. cpu_count - 1 /\ core_apic_ids[my_index[a]] = a
        BY <2>0, <2>2, <4>1, SMTT(60) DEF ApInv
      <4> QED BY <2>0, <4>2, SMTT(60) DEF TypeOK
    <3>3. ASSUME NEW k \in 0 .. cpu_count - 1, k # 0
          PROVE  core_apic_ids[k] \in APs /\ ap[core_apic_ids[k]] # "halted"
      <4>1. k \in 1 .. cpu_count - 1 /\ k # None
        BY <2>0, <3>3 DEF TypeOK, None
      <4>2. core_apic_ids[k] \in APs /\ my_index[core_apic_ids[k]] = k
        BY <2>0, <4>1, Zenon DEF TableInv
      <4> QED BY <2>0, <4>1, <4>2 DEF ApInv
    <3> QED BY <3>1, <3>2, <3>3, SMTT(60)
  <2> QED BY <2>1, <2>2, SMTT(60) DEF CountsRunningCores
<1> QED BY <1>1, SmpInvHolds, PTL
=============================================================================
