-------------------------------- MODULE SmpBoot --------------------------------
(* Bringing up the application processors and handing every core over to the   *)
(* scheduler: kernel/src/smp.c, the mailbox of ap_trampoline.S, the per-core   *)
(* TSS of gdt.c, the MADT scan of acpi.c and the last lines of kmain().        *)
(*                                                                             *)
(* The BSP starts the APs one after the other, passing each its stack and its  *)
(* core index through one mailbox.  An AP reads the mailbox, counts itself,    *)
(* and spins until the BSP has created the first threads; then it joins.       *)
EXTENDS Integers, Sequences, Functions

CONSTANTS
    Madt,           \* the APIC ids of the MADT's enabled entries, in order
    BspId,          \* the APIC id of the processor that runs kmain()
    SMP_MAX_CPUS,
    PromptAps       \* AP_START_TIMEOUT_SPINS is enough for every AP that starts at all

ASSUME SmpAssumption ==
    /\ SMP_MAX_CPUS \in Nat \ {0}
    /\ Madt \in Seq(Nat) /\ IsInjective(Madt)
    /\ BspId \in Nat /\ PromptAps \in BOOLEAN

(* acpi_find_local_apic_ids() keeps the first max_ids enabled entries *)
apic_ids == SubSeq(Madt, 1, IF Len(Madt) < SMP_MAX_CPUS THEN Len(Madt) ELSE SMP_MAX_CPUS)

APs  == {apic_ids[k] : k \in DOMAIN apic_ids} \ {BspId}
CPUs == APs \cup {BspId}
None == -1

VARIABLES
    bsp,                \* where the BSP is in smp_init() and the tail of kmain()
    i, before,          \* its locals in smp_init()
    cpu_count, core_apic_ids, ap_started_count, scheduler_ready,
    ap_stack_top, ap_core_index,    \* the mailbox; stack k is of iteration k
    idle_count,         \* idle threads created: idle_tid[0 .. idle_count - 1]
    tick_callback,      \* timer_set_tick_callback(schedule) has run
    ap, my_stack, my_index,         \* each AP: position, stack, index and TSS
    core,               \* the index a CPU schedules under, once it has joined
    dead                \* the APs that never answer a SIPI

bspVars == <<bsp, i, before, cpu_count, core_apic_ids, ap_stack_top, ap_core_index,
             scheduler_ready, idle_count, tick_callback>>
apVars  == <<ap, my_stack, my_index, ap_started_count>>
vars    == <<bspVars, apVars, core, dead>>

Init ==
    /\ bsp = "smp_init" /\ i = 1 /\ before = 0
    /\ cpu_count = 1
    \* the entry SMP_MAX_CPUS is the word after the end of the array
    /\ core_apic_ids = [k \in 0 .. SMP_MAX_CPUS |-> IF k = 0 THEN BspId ELSE None]
    /\ ap_started_count = 0
    /\ scheduler_ready = FALSE
    /\ ap_stack_top = None /\ ap_core_index = 0
    /\ idle_count = 0
    /\ tick_callback = FALSE
    /\ ap = [a \in APs |-> "halted"]
    /\ my_stack = [a \in APs |-> None]
    /\ my_index = [a \in APs |-> None]
    /\ core = [a \in CPUs |-> None]
    /\ dead \in SUBSET APs

(* Mutant: the APIC id is taken for the core index *)
MutIndexIsApicId(id) == id

(* The first index recorded for this APIC id, or 0 for one that is not there *)
smp_current_cpu_index(id) ==
    IF \E k \in 0 .. cpu_count - 1 : core_apic_ids[k] = id
    THEN CHOOSE k \in 0 .. cpu_count - 1 :
            core_apic_ids[k] = id /\ \A j \in 0 .. k - 1 : core_apic_ids[j] # id
    ELSE 0

--------------------------------------------------------------------------------
(* smp_init(), the loop over apic_ids *)

AtEntry(place) == bsp = place /\ i <= Len(apic_ids)

SkipBsp ==
    /\ AtEntry("smp_init")
    /\ apic_ids[i] = BspId
    /\ i' = i + 1
    /\ UNCHANGED <<bsp, before, cpu_count, core_apic_ids, ap_stack_top, ap_core_index,
                   scheduler_ready, idle_count, tick_callback, apVars, core, dead>>

FillMailbox ==
    /\ AtEntry("smp_init")
    /\ apic_ids[i] # BspId
    /\ ap_stack_top' = i
    /\ ap_core_index' = cpu_count
    /\ before' = ap_started_count
    /\ bsp' = "sipi"
    /\ UNCHANGED <<i, cpu_count, core_apic_ids, scheduler_ready, idle_count,
                   tick_callback, apVars, core, dead>>

(* INIT and the two SIPIs; the second is ignored by a core that runs *)
SendInitSipi ==
    /\ bsp = "sipi"
    /\ ap' = [ap EXCEPT ![apic_ids[i]] = IF apic_ids[i] \in dead THEN "halted" ELSE "sipi"]
    /\ bsp' = "wait"
    /\ UNCHANGED <<i, before, cpu_count, core_apic_ids, ap_stack_top, ap_core_index,
                   scheduler_ready, idle_count, tick_callback, my_stack, my_index,
                   ap_started_count, core, dead>>

(* Mutant: the next AP is started without waiting for this one *)
MutDoesNotWait ==
    /\ bsp = "wait"
    /\ bsp' = "check"
    /\ UNCHANGED <<i, before, cpu_count, core_apic_ids, ap_stack_top, ap_core_index,
                   scheduler_ready, idle_count, tick_callback, apVars, core, dead>>

(* The wait loop ends because the count has moved, or because it gives up.     *)
WaitEnds ==
    /\ bsp = "wait"
    /\ \/ ap_started_count # before
       \/ PromptAps => apic_ids[i] \in dead
    /\ bsp' = "check"
    /\ UNCHANGED <<i, before, cpu_count, core_apic_ids, ap_stack_top, ap_core_index,
                   scheduler_ready, idle_count, tick_callback, apVars, core, dead>>

(* Mutant: an AP that timed out is recorded all the same *)
MutRecordsDead ==
    /\ bsp = "check"
    /\ core_apic_ids' = [core_apic_ids EXCEPT ![cpu_count] = apic_ids[i]]
    /\ cpu_count' = cpu_count + 1
    /\ i' = i + 1
    /\ bsp' = "smp_init"
    /\ UNCHANGED <<before, ap_stack_top, ap_core_index, scheduler_ready, idle_count,
                   tick_callback, apVars, core, dead>>

(* if (ap_started_count != before), read once more after the loop *)
Record ==
    /\ bsp = "check"
    /\ IF ap_started_count # before
       THEN /\ core_apic_ids' = [core_apic_ids EXCEPT ![cpu_count] = apic_ids[i]]
            /\ cpu_count' = cpu_count + 1
       ELSE UNCHANGED <<core_apic_ids, cpu_count>>
    /\ i' = i + 1
    /\ bsp' = "smp_init"
    /\ UNCHANGED <<before, ap_stack_top, ap_core_index, scheduler_ready, idle_count,
                   tick_callback, apVars, core, dead>>

--------------------------------------------------------------------------------
(* The tail of kmain() *)

(* scheduler_init(), scheduler_create_idle_threads(smp_cpu_count()) and the    *)
(* first real threads                                                          *)
CreateThreads ==
    /\ bsp = "smp_init" /\ i > Len(apic_ids)
    /\ idle_count' = cpu_count
    /\ bsp' = "callback"
    /\ UNCHANGED <<i, before, cpu_count, core_apic_ids, ap_stack_top, ap_core_index,
                   scheduler_ready, tick_callback, apVars, core, dead>>

SetTickCallback ==
    /\ bsp = "callback"
    /\ tick_callback' = TRUE
    /\ bsp' = "signal"
    /\ UNCHANGED <<i, before, cpu_count, core_apic_ids, ap_stack_top, ap_core_index,
                   scheduler_ready, idle_count, apVars, core, dead>>

smp_signal_scheduler_ready ==
    /\ bsp = "signal"
    /\ scheduler_ready' = TRUE
    /\ bsp' = "start"
    /\ UNCHANGED <<i, before, cpu_count, core_apic_ids, ap_stack_top, ap_core_index,
                   idle_count, tick_callback, apVars, core, dead>>

BspJoins ==
    /\ core' = [core EXCEPT ![BspId] = smp_current_cpu_index(BspId)]
    /\ bsp' = "joined"
    /\ UNCHANGED <<i, before, cpu_count, core_apic_ids, ap_stack_top, ap_core_index,
                   scheduler_ready, idle_count, tick_callback, apVars, dead>>

scheduler_start == bsp = "start" /\ BspJoins

(* A tick of the PIT with the callback set: schedule() finds no previous       *)
(* thread, switches to the first ready one and never comes back to kmain().    *)
Tick == tick_callback /\ bsp \in {"signal", "start"} /\ BspJoins

--------------------------------------------------------------------------------
(* An AP: lm64_entry, then ap_entry() *)

ApReadStack(a) ==
    /\ ap[a] = "sipi"
    /\ my_stack' = [my_stack EXCEPT ![a] = ap_stack_top]
    /\ ap' = [ap EXCEPT ![a] = "entry"]
    /\ UNCHANGED <<bspVars, my_index, ap_started_count, core, dead>>

(* my_index, then gdt_load_on_this_cpu(my_index): tss[my_index] is this core's *)
ApReadIndex(a) ==
    /\ ap[a] = "entry"
    /\ my_index' = [my_index EXCEPT ![a] = ap_core_index]
    /\ ap' = [ap EXCEPT ![a] = "set_up"]
    /\ UNCHANGED <<bspVars, my_stack, ap_started_count, core, dead>>

ApCountsItself(a) ==
    /\ ap[a] = "set_up"
    /\ ap_started_count' = ap_started_count + 1
    /\ ap' = [ap EXCEPT ![a] = "waiting"]
    /\ UNCHANGED <<bspVars, my_stack, my_index, core, dead>>

(* Mutant: off by one, the AP waits for an idle thread past its own *)
MutApWaitsForNextIdle(a) ==
    /\ ap[a] = "waiting"
    /\ scheduler_ready /\ idle_count > my_index[a] + 1
    /\ core' = [core EXCEPT ![a] = smp_current_cpu_index(a)]
    /\ ap' = [ap EXCEPT ![a] = "joined"]
    /\ UNCHANGED <<bspVars, my_stack, my_index, ap_started_count, dead>>

ApJoins(a) ==
    /\ ap[a] = "waiting"
    /\ scheduler_ready
    /\ core' = [core EXCEPT ![a] = smp_current_cpu_index(a)]
    /\ ap' = [ap EXCEPT ![a] = "joined"]
    /\ UNCHANGED <<bspVars, my_stack, my_index, ap_started_count, dead>>

--------------------------------------------------------------------------------
BspStep ==
    \/ SkipBsp \/ FillMailbox \/ SendInitSipi \/ WaitEnds \/ Record
    \/ CreateThreads \/ SetTickCallback \/ smp_signal_scheduler_ready
    \/ scheduler_start

ApStep(a) == ApReadStack(a) \/ ApReadIndex(a) \/ ApCountsItself(a) \/ ApJoins(a)

(* The BSP runs threads from here on (Scheduler), whatever the APs do *)
Settled == bsp = "joined" /\ UNCHANGED vars

--------------------------------------------------------------------------------
(* Properties *)

(* Every variable has its type, and no more APs are counted than were started. *)
TypeOK ==
    /\ bsp \in {"smp_init", "sipi", "wait", "check", "callback", "signal", "start",
                "joined"}
    /\ i \in 1 .. Len(apic_ids) + 1
    /\ before \in Nat /\ ap_started_count \in 0 .. Len(apic_ids)
    /\ cpu_count \in Nat
    /\ core_apic_ids \in [0 .. SMP_MAX_CPUS -> CPUs \cup {None}]
    /\ ap_stack_top \in Int /\ ap_core_index \in Nat
    /\ scheduler_ready \in BOOLEAN /\ tick_callback \in BOOLEAN
    /\ idle_count \in Nat
    /\ ap \in [APs -> {"halted", "sipi", "entry", "set_up", "waiting", "joined"}]
    /\ my_stack \in [APs -> Int] /\ my_index \in [APs -> Int]
    /\ core \in [CPUs -> Int]
    /\ dead \subseteq APs

(* No two APs run on the same stack or load the same TSS, and none loads the   *)
(* BSP's: each AP has read ap_stack_top and ap_core_index before smp_init()    *)
(* reuses them for the next.  Every variable keeps its type.                   *)
OwnStackAndIndex ==
    /\ TypeOK
    /\ \A a, b \in APs : a # b /\ my_stack[a] # None => my_stack[a] # my_stack[b]
    /\ \A a, b \in APs : my_index[a] # None
          => my_index[a] # 0 /\ (a # b => my_index[a] # my_index[b])

(* The index under which schedule() sets tss[core].rsp0 for a core is that of  *)
(* the TSS this core has loaded, and a core joins only once the idle thread of *)
(* that index exists for it to fall back to.                                   *)
SchedulesUnderOwnTss ==
    \A a \in CPUs : core[a] # None
        => /\ core[a] = IF a = BspId THEN 0 ELSE my_index[a]
           /\ core[a] < idle_count

(* The core table has room for every core smp_init() starts: acpi.h counts the *)
(* BSP among the ids it returns, which leaves SMP_MAX_CPUS - 1 for the APs.    *)
CoreTableBounded == cpu_count <= SMP_MAX_CPUS

(* Once smp_init() has returned, cpu_count counts exactly the cores that run,  *)
(* so no running core is left without an index and no idle thread is missing,  *)
(* also when the cores that answer fill the table to SMP_MAX_CPUS.             *)
CountsRunningCores ==
    /\ CoreTableBounded
    /\ bsp \in {"callback", "signal", "start", "joined"}
          => {core_apic_ids[k] : k \in 0 .. cpu_count - 1}
                = {BspId} \cup {a \in APs : ap[a] # "halted"}

================================================================================
