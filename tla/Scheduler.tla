------------------------------- MODULE Scheduler -------------------------------
(* The SMP thread scheduler of RebornOS: kernel/src/scheduler.c, with the      *)
(* context switch of context_switch.S, the spinlock of spinlock.c, the timer   *)
(* interrupts that drive it and the spawn-and-wait loop of process.c.          *)
(*                                                                             *)
(* A core executes either the code of the context its stack pointer is in      *)
(* (pc = "thread", the position being frame[stk[c]].at) or one of the steps    *)
(* of schedule(), thread_create_ex(), thread_exit_code() and scheduler_start() *)
(* (every other pc).  An interrupt may land wherever iflag (RFLAGS.IF) is set. *)
(* What is protected by scheduler_lock changes in one step between the step    *)
(* that acquires the lock and the release; what is read or written without it  *)
(* (the three stores of switch_context_release, the reads of thread_exit_code  *)
(* and of thread_is_alive, kfree of the dead stack) has a step of its own.     *)
EXTENDS Integers, FiniteSets

CONSTANTS
    NumCores,       \* smp_cpu_count()
    MaxThreads,     \* SCHEDULER_MAX_THREADS
    NumBlocks,      \* heap blocks large enough for a kernel stack
    BootThreads,    \* threads kmain() creates after the idle threads
    MaxCreated      \* bound: thread_create_ex() calls in a behaviour

Cores  == 0 .. NumCores - 1
Tids   == 0 .. MaxThreads - 1
Blocks == 1 .. NumBlocks
NoTid  == -1
NoCore == -1
NULL   == 0

ASSUME SchedulerAssumption ==
    /\ NumCores \in Nat \ {0}
    /\ BootThreads \in Nat
    /\ MaxThreads \in Nat /\ MaxThreads >= NumCores + BootThreads
    /\ NumBlocks \in Nat  /\ NumBlocks  >= NumCores + BootThreads
    /\ MaxCreated \in Nat /\ MaxCreated >= NumCores + BootThreads

VARIABLES
    \* threads[]
    state, running_on_core, stack_base, rsp, exit_code_out, is_idle,
    \* the other globals of scheduler.c and the heap
    active_count, current_thread, scheduler_lock, kheap,
    \* each core: control state, RFLAGS.IF, stack in use, TSS.RSP0, and the
    \* locals prev, zombie_stack and flags of the function it is in
    pc, iflag, stk, tss_rsp0, prev, zombie_stack, flags,
    \* what each stack holds, and whether panic() has stopped the machine
    frame, panicked,
    \* history: which creation a slot and a stack belong to
    gen, created

threadVars == <<state, running_on_core, stack_base, rsp, exit_code_out, is_idle,
                active_count, gen>>
coreVars   == <<pc, iflag, stk, tss_rsp0, prev, zombie_stack, flags>>
vars == <<threadVars, current_thread, scheduler_lock, kheap, coreVars, frame,
          panicked, created>>

BootStack(c) == -1 - c          \* kmain()'s stack, or an AP's entry stack
Stacks == Blocks \cup {BootStack(c) : c \in Cores}

(* The part of a stack's contents that the scheduler's correctness depends on: *)
(* where its code is, whether the schedule() call on it came from an interrupt *)
(* (so that iretq sets IF again), and the locals that live across a switch.    *)
Frame(at, g) == [at |-> at, isr |-> TRUE, gen |-> g, core |-> NoCore,
                 tid |-> NoTid, child |-> NoTid, childgen |-> 0, exit_code |-> 0]

Places == {"boot", "idle", "run", "wait", "exit_tid", "exit_cli", "exit_loop"}

idle_tid(c) == c                \* the first threads kmain() creates

--------------------------------------------------------------------------------
(* scheduler_init(), scheduler_create_idle_threads() and the thread_create()   *)
(* calls of kmain(): slot t gets block t + 1.  Every core is on its boot stack *)
(* about to call scheduler_start(); only the BSP has interrupts on.            *)
Init ==
    LET n == NumCores + BootThreads IN
    /\ state = [t \in Tids |-> IF t < n THEN "ACTIVE" ELSE "UNUSED"]
    /\ running_on_core = [t \in Tids |-> NoCore]
    /\ stack_base = [t \in Tids |-> IF t < n THEN t + 1 ELSE NULL]
    /\ rsp = [t \in Tids |-> IF t < n THEN "saved" ELSE "stale"]
    /\ exit_code_out = [t \in Tids |-> NULL]
    /\ is_idle = [t \in Tids |-> t < NumCores]
    /\ gen = [t \in Tids |-> IF t < n THEN t + 1 ELSE 0]
    /\ created = n
    /\ active_count = n
    /\ current_thread = [c \in Cores |-> NoTid]
    /\ scheduler_lock = NoCore
    /\ kheap = Blocks \ (1 .. n)
    /\ pc = [c \in Cores |-> "thread"]
    /\ iflag = [c \in Cores |-> c = 0]
    /\ stk = [c \in Cores |-> BootStack(c)]
    /\ tss_rsp0 = [c \in Cores |-> NULL]
    /\ prev = [c \in Cores |-> NoTid]
    /\ zombie_stack = [c \in Cores |-> NULL]
    /\ flags = [c \in Cores |-> FALSE]
    /\ frame = [s \in Stacks |->
                  IF s < 0 THEN Frame("boot", 0)
                  ELSE IF s <= NumCores THEN Frame("idle", s)
                  ELSE IF s <= n THEN Frame("run", s) ELSE Frame("run", 0)]
    /\ panicked = FALSE

--------------------------------------------------------------------------------
(* Helpers *)

AtThread(c, place) == pc[c] = "thread" /\ frame[stk[c]].at = place

(* spinlock_acquire(&scheduler_lock), once the exchange reads back 0 *)
Acquire(c, from, to) ==
    /\ pc[c] = from
    /\ scheduler_lock = NoCore
    /\ scheduler_lock' = c
    /\ pc' = [pc EXCEPT ![c] = to]
    /\ UNCHANGED <<threadVars, current_thread, kheap, iflag, stk, tss_rsp0, prev,
                   zombie_stack, flags, frame, panicked, created>>

Release == scheduler_lock' = NoCore

(* panic() keeps IF clear and ends the machine *)
panic ==
    /\ panicked' = TRUE
    /\ UNCHANGED <<threadVars, current_thread, kheap, coreVars, frame, created>>

(* Mutant: a thread that a core still runs may be picked *)
MutReadyWhileRunning(t) == state[t] = "ACTIVE" /\ ~is_idle[t]

Ready(t) == state[t] = "ACTIVE" /\ running_on_core[t] < 0 /\ ~is_idle[t]

(* Mutant: every search starts at slot 0 *)
MutSearchFromZero(start, t) == t

(* How many slots next_ready_after(start) looks at before it is at t *)
Dist(start, t) == (t - start - 1) % MaxThreads

(* next_ready_after(start) returns t; it returns -1 when no slot is Ready *)
NextReadyAfter(start, t) ==
    Ready(t) /\ \A u \in Tids : Ready(u) => Dist(start, t) <= Dist(start, u)

(* Mutant: a thread that waits for a core counts as dead *)
MutAliveOnlyOnCore(t) == t \in Tids /\ state[t] = "ACTIVE" /\ running_on_core[t] >= 0

thread_is_alive(t) == t \in Tids /\ state[t] = "ACTIVE"

--------------------------------------------------------------------------------
(* schedule() *)

(* The call, up to the spin on the lock: `cli', then the index of this core.   *)
(* isr says whether the caller is a timer interrupt handler.                   *)
EnterSchedule(c, isr) ==
    /\ pc' = [pc EXCEPT ![c] = "sched_lock"]
    /\ iflag' = [iflag EXCEPT ![c] = FALSE]
    /\ frame' = [frame EXCEPT ![stk[c]].isr = isr]

(* timer_irq_handler() on the BSP and lapic_timer_isr() on an AP: the EOI is   *)
(* sent first, so the next tick can be delivered as soon as IF is set again.   *)
TimerInterrupt(c) ==
    /\ iflag[c]
    /\ EnterSchedule(c, TRUE)
    /\ UNCHANGED <<threadVars, current_thread, scheduler_lock, kheap, stk, tss_rsp0,
                   prev, zombie_stack, flags, panicked, created>>

ScheduleLock(c) == Acquire(c, "sched_lock", "sched_body")

PrevIsZombie(c) == current_thread[c] >= 0 /\ state[current_thread[c]] = "ZOMBIE"

(* Mutant: the early returns come before the zombie test *)
MutReturnToZombie(c) ==
    /\ pc[c] = "sched_body"
    /\ active_count <= 1 \/ ~\E t \in Tids : Ready(t)
    /\ Release
    /\ pc' = [pc EXCEPT ![c] = "thread"]
    /\ iflag' = [iflag EXCEPT ![c] = frame[stk[c]].isr]
    /\ UNCHANGED <<threadVars, current_thread, kheap, stk, tss_rsp0, prev,
                   zombie_stack, flags, frame, panicked, created>>

(* Nothing to switch to: back to the caller.  An interrupt handler goes on to  *)
(* iretq, which sets IF again; any other caller keeps the IF = 0 of the `cli'. *)
ScheduleReturn(c) ==
    /\ pc[c] = "sched_body"
    /\ ~PrevIsZombie(c)
    /\ active_count <= 1 \/ ~\E t \in Tids : Ready(t)
    /\ Release
    /\ pc' = [pc EXCEPT ![c] = "thread"]
    /\ iflag' = [iflag EXCEPT ![c] = frame[stk[c]].isr]
    /\ UNCHANGED <<threadVars, current_thread, kheap, stk, tss_rsp0, prev,
                   zombie_stack, flags, frame, panicked, created>>

(* next is claimed for this core and a zombie's slot is freed, under the lock *)
ScheduleSwitch(c, next) ==
    LET p == current_thread[c]
        z == PrevIsZombie(c)
    IN
    /\ pc[c] = "sched_body"
    /\ z \/ active_count > 1
    /\ \/ NextReadyAfter(p, next)
       \/ z /\ next = idle_tid(c) /\ ~\E t \in Tids : Ready(t)
    /\ current_thread' = [current_thread EXCEPT ![c] = next]
    /\ running_on_core' = [t \in Tids |-> IF z /\ t = p THEN NoCore
                                          ELSE IF t = next THEN c
                                          ELSE running_on_core[t]]
    /\ state' = [t \in Tids |-> IF z /\ t = p THEN "UNUSED" ELSE state[t]]
    /\ active_count' = IF z THEN active_count - 1 ELSE active_count
    /\ zombie_stack' = [zombie_stack EXCEPT ![c] = IF z THEN stack_base[p] ELSE NULL]
    /\ tss_rsp0' = [tss_rsp0 EXCEPT ![c] = stack_base[next]]
    /\ prev' = [prev EXCEPT ![c] = p]
    /\ Release
    /\ pc' = [pc EXCEPT ![c] = IF p < 0 THEN "discard"
                               ELSE IF z THEN "kfree" ELSE "save"]
    /\ UNCHANGED <<stack_base, rsp, exit_code_out, is_idle, gen, kheap, iflag, stk,
                   flags, frame, panicked, created>>

(* Mutant: the dead thread's stack is never given back *)
MutStackLeaks(c) ==
    /\ pc[c] = "kfree"
    /\ pc' = [pc EXCEPT ![c] = "discard"]
    /\ UNCHANGED <<threadVars, current_thread, scheduler_lock, kheap, iflag, stk,
                   tss_rsp0, prev, zombie_stack, flags, frame, panicked, created>>

(* kfree(zombie_stack), still executing on that stack *)
FreeZombieStack(c) ==
    /\ pc[c] = "kfree"
    /\ kheap' = kheap \cup {zombie_stack[c]}
    /\ pc' = [pc EXCEPT ![c] = "discard"]
    /\ UNCHANGED <<threadVars, current_thread, scheduler_lock, iflag, stk, tss_rsp0,
                   prev, zombie_stack, flags, frame, panicked, created>>

(* `mov new_rsp, %rsp' and what follows: the core is now in the context saved  *)
(* for its new thread, whose saved rsp is thereby used up.  A thread that has  *)
(* never run starts in thread_trampoline, which sets IF; the others return     *)
(* from the schedule() they called.                                            *)
Resume(c) ==
    LET next == current_thread[c] IN
    /\ stk' = [stk EXCEPT ![c] = stack_base[next]]
    /\ iflag' = [iflag EXCEPT ![c] = frame[stack_base[next]].isr]
    /\ pc' = [pc EXCEPT ![c] = "thread"]
    /\ prev' = [prev EXCEPT ![c] = NoTid]
    /\ zombie_stack' = [zombie_stack EXCEPT ![c] = NULL]

(* switch_context(&discard_rsp[core], ...): the old context is never resumed *)
SwitchDiscard(c) ==
    /\ pc[c] = "discard"
    /\ Resume(c)
    /\ rsp' = [rsp EXCEPT ![current_thread[c]] = "stale"]
    /\ UNCHANGED <<state, running_on_core, stack_base, exit_code_out, is_idle,
                   active_count, gen, current_thread, scheduler_lock, kheap,
                   tss_rsp0, flags, frame, panicked, created>>

(* The block under this core's stack pointer belongs to a live thread again *)
StackReused(c) ==
    \E t \in Tids : state[t] # "UNUSED" /\ stack_base[t] = stk[c]

(* The same switch once somebody else owns the dead stack: what the core pops  *)
(* and pushes there may be overwritten, and it may fault instead of switching. *)
SwitchCorrupted(c) ==
    /\ pc[c] = "discard"
    /\ StackReused(c)
    /\ panic
    /\ UNCHANGED scheduler_lock

(* Mutant: running_on_core is cleared before the registers are saved *)
MutReleaseFirst(c) ==
    /\ pc[c] = "save"
    /\ running_on_core' = [running_on_core EXCEPT ![prev[c]] = NoCore]
    /\ pc' = [pc EXCEPT ![c] = "release"]
    /\ UNCHANGED <<state, rsp, stack_base, exit_code_out, is_idle,
                   active_count, gen, current_thread, scheduler_lock, kheap, iflag,
                   stk, tss_rsp0, prev, zombie_stack, flags, frame, panicked, created>>

(* switch_context_release(): the registers of the old thread are saved ... *)
SwitchSave(c) ==
    /\ pc[c] = "save"
    /\ rsp' = [rsp EXCEPT ![prev[c]] = "saved"]
    /\ pc' = [pc EXCEPT ![c] = "release"]
    /\ UNCHANGED <<state, running_on_core, stack_base, exit_code_out, is_idle,
                   active_count, gen, current_thread, scheduler_lock, kheap, iflag,
                   stk, tss_rsp0, prev, zombie_stack, flags, frame, panicked, created>>

(* ... then it may be taken by another core, and this core leaves its stack *)
SwitchRelease(c) ==
    /\ pc[c] = "release"
    /\ running_on_core' = [running_on_core EXCEPT ![prev[c]] = NoCore]
    /\ Resume(c)
    /\ rsp' = [rsp EXCEPT ![current_thread[c]] = "stale"]
    /\ UNCHANGED <<state, stack_base, exit_code_out, is_idle, active_count, gen,
                   current_thread, scheduler_lock, kheap, tss_rsp0, flags, frame,
                   panicked, created>>

--------------------------------------------------------------------------------
(* scheduler_start(): a core's first thread *)

SchedulerStart(c) ==
    /\ AtThread(c, "boot")
    /\ iflag' = [iflag EXCEPT ![c] = FALSE]
    /\ pc' = [pc EXCEPT ![c] = "start_lock"]
    /\ UNCHANGED <<threadVars, current_thread, scheduler_lock, kheap, stk, tss_rsp0,
                   prev, zombie_stack, flags, frame, panicked, created>>

StartLock(c) == Acquire(c, "start_lock", "start_body")

(* Mutant: the first thread of a core runs without tss_set_kernel_stack() *)
MutStartForgetsTss(c, first) ==
    /\ pc[c] = "start_body"
    /\ IF active_count = 0
       THEN Release /\ panic
       ELSE /\ \/ NextReadyAfter(NoTid, first)
               \/ first = idle_tid(c) /\ ~\E t \in Tids : Ready(t)
            /\ current_thread' = [current_thread EXCEPT ![c] = first]
            /\ running_on_core' = [running_on_core EXCEPT ![first] = c]
            /\ Release
            /\ pc' = [pc EXCEPT ![c] = "discard"]
            /\ UNCHANGED <<state, stack_base, rsp, exit_code_out, is_idle, tss_rsp0,
                           active_count, gen, kheap, iflag, stk, prev, zombie_stack,
                           flags, frame, panicked, created>>

StartSwitch(c, first) ==
    /\ pc[c] = "start_body"
    /\ IF active_count = 0
       THEN Release /\ panic
       ELSE /\ \/ NextReadyAfter(NoTid, first)
               \/ first = idle_tid(c) /\ ~\E t \in Tids : Ready(t)
            /\ current_thread' = [current_thread EXCEPT ![c] = first]
            /\ running_on_core' = [running_on_core EXCEPT ![first] = c]
            /\ tss_rsp0' = [tss_rsp0 EXCEPT ![c] = stack_base[first]]
            /\ Release
            /\ pc' = [pc EXCEPT ![c] = "discard"]
            /\ UNCHANGED <<state, stack_base, rsp, exit_code_out, is_idle,
                           active_count, gen, kheap, iflag, stk, prev, zombie_stack,
                           flags, frame, panicked, created>>

--------------------------------------------------------------------------------
(* process_spawn_args_ex(): the new thread is made by thread_create_ex(), and  *)
(* process_spawn_args_and_wait() then waits for it.  The caller is SYS_EXEC,   *)
(* which has set IF.                                                           *)

(* Mutant: thread_create_ex() takes the lock with interrupts on *)
MutCreateWithIrqs(c, andWait) ==
    /\ AtThread(c, "run")
    /\ created < MaxCreated
    /\ flags' = [flags EXCEPT ![c] = iflag[c]]
    /\ pc' = [pc EXCEPT ![c] = "create_lock"]
    /\ frame' = [frame EXCEPT ![stk[c]].at = IF andWait THEN "wait" ELSE "run"]
    /\ UNCHANGED <<threadVars, current_thread, scheduler_lock, kheap, iflag, stk,
                   tss_rsp0, prev, zombie_stack, panicked, created>>

(* The call: irq_save_disable(), then the spin on the lock *)
ThreadCreate(c, andWait) ==
    /\ AtThread(c, "run")
    /\ created < MaxCreated
    /\ flags' = [flags EXCEPT ![c] = iflag[c]]
    /\ iflag' = [iflag EXCEPT ![c] = FALSE]
    /\ pc' = [pc EXCEPT ![c] = "create_lock"]
    /\ frame' = [frame EXCEPT ![stk[c]].at = IF andWait THEN "wait" ELSE "run"]
    /\ UNCHANGED <<threadVars, current_thread, scheduler_lock, kheap, stk, tss_rsp0,
                   prev, zombie_stack, panicked, created>>

CreateLock(c) == Acquire(c, "create_lock", "create_body")

(* The first unused slot, a stack from kmalloc() (any free block: where first  *)
(* fit finds one depends on the rest of the heap), and the fields of the slot. *)
CreateThread(c, id, b) ==
    LET waits == frame[stk[c]].at = "wait" IN
    /\ pc[c] = "create_body"
    /\ state[id] = "UNUSED" /\ \A t \in Tids : state[t] = "UNUSED" => id <= t
    /\ b \in kheap
    /\ kheap' = kheap \ {b}
    /\ state' = [state EXCEPT ![id] = "ACTIVE"]
    /\ running_on_core' = [running_on_core EXCEPT ![id] = NoCore]
    /\ stack_base' = [stack_base EXCEPT ![id] = b]
    /\ rsp' = [rsp EXCEPT ![id] = "saved"]
    /\ exit_code_out' = [exit_code_out EXCEPT ![id] = IF waits THEN stk[c] ELSE NULL]
    /\ is_idle' = [is_idle EXCEPT ![id] = FALSE]
    /\ active_count' = active_count + 1
    /\ created' = created + 1
    /\ gen' = [gen EXCEPT ![id] = created + 1]
    /\ frame' = [s \in Stacks |->
                   IF s = b THEN Frame("run", created + 1)
                   ELSE IF s = stk[c] /\ waits
                        THEN [frame[s] EXCEPT !.child = id, !.childgen = created + 1]
                        ELSE frame[s]]
    /\ Release
    /\ pc' = [pc EXCEPT ![c] = "thread"]
    /\ iflag' = [iflag EXCEPT ![c] = flags[c]]
    /\ UNCHANGED <<current_thread, stk, tss_rsp0, prev, zombie_stack, flags, panicked>>

(* Every slot in use, or no memory for the stack *)
CreateFails(c) ==
    /\ pc[c] = "create_body"
    /\ (\A t \in Tids : state[t] # "UNUSED") \/ kheap = {}
    /\ Release
    /\ panic

(* while (thread_is_alive(tid)) schedule(); *)
WaitAlive(c) ==
    /\ AtThread(c, "wait")
    /\ thread_is_alive(frame[stk[c]].child)
    /\ EnterSchedule(c, FALSE)
    /\ UNCHANGED <<threadVars, current_thread, scheduler_lock, kheap, stk, tss_rsp0,
                   prev, zombie_stack, flags, panicked, created>>

(* The loop ends: the exit code is returned and iretq sets IF *)
WaitDone(c) ==
    /\ AtThread(c, "wait")
    /\ ~thread_is_alive(frame[stk[c]].child)
    /\ frame' = [frame EXCEPT ![stk[c]] = Frame("run", @.gen)]
    /\ iflag' = [iflag EXCEPT ![c] = TRUE]
    /\ UNCHANGED <<threadVars, current_thread, scheduler_lock, kheap, pc, stk,
                   tss_rsp0, prev, zombie_stack, flags, panicked, created>>

--------------------------------------------------------------------------------
(* thread_exit_code().  The code a thread exits with is its creation number,   *)
(* so that a code that reaches the wrong waiter shows.                         *)

(* Entered through an interrupt gate (SYS_EXIT, or a fault taken in ring 3),   *)
(* which clears IF; the first thing read is the index of this core.            *)
ExitThroughGate(c) ==
    /\ AtThread(c, "run")
    /\ iflag' = [iflag EXCEPT ![c] = FALSE]
    /\ frame' = [frame EXCEPT ![stk[c]].at = "exit_tid", ![stk[c]].core = c]
    /\ UNCHANGED <<threadVars, current_thread, scheduler_lock, kheap, pc, stk,
                   tss_rsp0, prev, zombie_stack, flags, panicked, created>>

(* Called directly by a kernel thread: thread_exit() *)
ExitFromKernelThread(c) ==
    /\ AtThread(c, "run")
    /\ frame' = [frame EXCEPT ![stk[c]].at = "exit_tid", ![stk[c]].core = c]
    /\ UNCHANGED <<threadVars, current_thread, scheduler_lock, kheap, coreVars,
                   panicked, created>>

(* Mutant: the exit code is not handed to the waiter *)
MutExitDeliversNothing(c) ==
    LET tid == current_thread[frame[stk[c]].core] IN
    /\ AtThread(c, "exit_tid")
    /\ frame' = [frame EXCEPT ![stk[c]].tid = tid, ![stk[c]].at = "exit_cli"]
    /\ UNCHANGED <<threadVars, current_thread, scheduler_lock, kheap, coreVars,
                   panicked, created>>

(* tid = current_thread[core], and the exit code goes to whoever waits for it *)
ExitDeliver(c) ==
    LET tid == current_thread[frame[stk[c]].core] IN
    /\ AtThread(c, "exit_tid")
    /\ IF tid < 0
       THEN panic /\ UNCHANGED scheduler_lock
       ELSE /\ frame' = [s \in Stacks |->
                 IF s = stk[c] THEN [frame[s] EXCEPT !.tid = tid, !.at = "exit_cli"]
                 ELSE IF s = exit_code_out[tid]
                      THEN [frame[s] EXCEPT !.exit_code = frame[stk[c]].gen]
                      ELSE frame[s]]
            /\ UNCHANGED <<threadVars, current_thread, scheduler_lock, kheap,
                           coreVars, panicked, created>>

(* irq_save_disable() *)
ExitIrqOff(c) ==
    /\ AtThread(c, "exit_cli")
    /\ iflag' = [iflag EXCEPT ![c] = FALSE]
    /\ pc' = [pc EXCEPT ![c] = "exit_lock"]
    /\ UNCHANGED <<threadVars, current_thread, scheduler_lock, kheap, stk, tss_rsp0,
                   prev, zombie_stack, flags, frame, panicked, created>>

ExitLock(c) == Acquire(c, "exit_lock", "exit_body")

(* The slot becomes a zombie, and schedule() is called for the first time *)
ExitZombie(c) ==
    /\ pc[c] = "exit_body"
    /\ state' = [state EXCEPT ![frame[stk[c]].tid] = "ZOMBIE"]
    /\ Release
    /\ pc' = [pc EXCEPT ![c] = "sched_lock"]
    /\ frame' = [frame EXCEPT ![stk[c]].isr = FALSE, ![stk[c]].at = "exit_loop"]
    /\ UNCHANGED <<running_on_core, stack_base, rsp, exit_code_out, is_idle,
                   active_count, gen, current_thread, kheap, iflag, stk, tss_rsp0,
                   prev, zombie_stack, flags, panicked, created>>

(* for (;;) schedule(); -- only if the first call came back *)
ExitAgain(c) ==
    /\ AtThread(c, "exit_loop")
    /\ EnterSchedule(c, FALSE)
    /\ UNCHANGED <<threadVars, current_thread, scheduler_lock, kheap, stk, tss_rsp0,
                   prev, zombie_stack, flags, panicked, created>>

--------------------------------------------------------------------------------
CoreStep(c) ==
    \/ TimerInterrupt(c)
    \/ ScheduleLock(c)
    \/ ScheduleReturn(c)
    \/ \E next \in Tids : ScheduleSwitch(c, next)
    \/ FreeZombieStack(c)
    \/ SwitchDiscard(c)
    \/ SwitchCorrupted(c)
    \/ SwitchSave(c)
    \/ SwitchRelease(c)
    \/ SchedulerStart(c)
    \/ StartLock(c)
    \/ \E first \in Tids : StartSwitch(c, first)
    \/ \E andWait \in BOOLEAN : ThreadCreate(c, andWait)
    \/ CreateLock(c)
    \/ \E id \in Tids, b \in Blocks : CreateThread(c, id, b)
    \/ CreateFails(c)
    \/ WaitAlive(c)
    \/ WaitDone(c)
    \/ ExitThroughGate(c)
    \/ ExitDeliver(c)
    \/ ExitIrqOff(c)
    \/ ExitLock(c)
    \/ ExitZombie(c)

(* After panic() nothing runs *)
Halted == panicked /\ UNCHANGED vars

Next == (~panicked /\ \E c \in Cores : CoreStep(c)) \/ Halted

Spec == Init /\ [][Next]_vars

(* With kernel threads, whose thread_exit() leaves IF as it finds it *)
KernelNext ==
    \/ ~panicked /\ \E c \in Cores : \/ CoreStep(c)
                                     \/ ExitFromKernelThread(c)
                                     \/ ExitAgain(c)
    \/ Halted

KernelSpec == Init /\ [][KernelNext]_vars

(* Each core runs its instructions, a pending tick is taken once IF is set,    *)
(* and a core that keeps spinning gets the lock in the end.  No thread is      *)
(* obliged to exit or to create another.                                       *)
Fairness ==
    \A c \in Cores :
        /\ WF_vars(SchedulerStart(c) \/ FreeZombieStack(c) \/ SwitchDiscard(c)
                     \/ SwitchSave(c) \/ SwitchRelease(c) \/ ScheduleReturn(c)
                     \/ \E t \in Tids : ScheduleSwitch(c, t) \/ StartSwitch(c, t))
        /\ WF_vars(CreateFails(c) \/ \E t \in Tids, b \in Blocks : CreateThread(c, t, b))
        /\ WF_vars(ExitDeliver(c) \/ ExitIrqOff(c) \/ ExitZombie(c))
        /\ SF_vars(ScheduleLock(c) \/ StartLock(c) \/ CreateLock(c) \/ ExitLock(c))
        /\ SF_vars(TimerInterrupt(c))
        /\ WF_vars(WaitAlive(c) \/ WaitDone(c))

FairSpec == Spec /\ Fairness

--------------------------------------------------------------------------------
(* Properties *)

LockPcs == {"sched_lock", "start_lock", "create_lock", "exit_lock"}
BodyPcs == {"sched_body", "start_body", "create_body", "exit_body"}
SwitchPcs == {"kfree", "discard", "save", "release"}

(* Every variable has its type: in particular only heap blocks are on the heap's *)
(* free list, and a core always stands on a stack.                             *)
TypeOK ==
    /\ state \in [Tids -> {"UNUSED", "ACTIVE", "ZOMBIE"}]
    /\ running_on_core \in [Tids -> Cores \cup {NoCore}]
    /\ stack_base \in [Tids -> Blocks \cup {NULL}]
    /\ rsp \in [Tids -> {"saved", "stale"}]
    /\ exit_code_out \in [Tids -> Stacks \cup {NULL}]
    /\ is_idle \in [Tids -> BOOLEAN]
    /\ gen \in [Tids -> Nat]
    /\ created \in Nat
    /\ active_count \in Int
    /\ current_thread \in [Cores -> Tids \cup {NoTid}]
    /\ scheduler_lock \in Cores \cup {NoCore}
    /\ kheap \subseteq Blocks
    /\ pc \in [Cores -> {"thread"} \cup LockPcs \cup BodyPcs \cup SwitchPcs]
    /\ iflag \in [Cores -> BOOLEAN]
    /\ stk \in [Cores -> Stacks]
    /\ tss_rsp0 \in [Cores -> Blocks \cup {NULL}]
    /\ prev \in [Cores -> Tids \cup {NoTid}]
    /\ zombie_stack \in [Cores -> Blocks \cup {NULL}]
    /\ flags \in [Cores -> BOOLEAN]
    /\ frame \in [Stacks -> [at : Places, isr : BOOLEAN, gen : Nat,
                             core : Cores \cup {NoCore}, tid : Tids \cup {NoTid},
                             child : Tids \cup {NoTid}, childgen : Nat,
                             exit_code : Nat]]
    /\ panicked \in BOOLEAN

(* Two cores never run the same thread: running_on_core keeps a thread that a  *)
(* core has claimed, or has not finished leaving, from next_ready_after().     *)
OneCorePerThread ==
    \A c, d \in Cores : c # d /\ current_thread[c] >= 0
                          => current_thread[c] # current_thread[d]

(* No thread is resumed from a stale stack pointer: whatever another core may  *)
(* take, and whatever a core is about to switch to, has been saved by          *)
(* switch_context_release() since it last ran.                                 *)
ResumesSavedContext ==
    /\ \A t \in Tids : Ready(t) => rsp[t] = "saved"
    /\ \A c \in Cores : pc[c] \in SwitchPcs => rsp[current_thread[c]] = "saved"

(* A core that runs thread code is on that thread's own stack, which is also   *)
(* where its TSS sends the next trap from ring 3.                              *)
OnOwnStack ==
    \A c \in Cores : pc[c] = "thread" /\ current_thread[c] >= 0
        => /\ stk[c] = stack_base[current_thread[c]]
           /\ tss_rsp0[c] = stk[c]
           /\ frame[stk[c]].gen = gen[current_thread[c]]

(* A zombie is never left behind: it is the current thread of a core that is   *)
(* inside schedule() and will reap it.                                         *)
ZombieIsBeingReaped ==
    \A t \in Tids : state[t] = "ZOMBIE" =>
        \E c \in Cores : current_thread[c] = t /\ pc[c] \in {"sched_lock", "sched_body"}

(* No stack is lost or freed twice: every block is free, or waits for the      *)
(* kfree() of one core, or is the stack of one thread, and only one of these.  *)
StackConservation ==
    \A b \in Blocks :
        LET owners == {t \in Tids : state[t] # "UNUSED" /\ stack_base[t] = b}
            dying  == {c \in Cores : pc[c] = "kfree" /\ zombie_stack[c] = b}
        IN  \/ b \in kheap /\ owners = {} /\ dying = {}
            \/ b \notin kheap /\ owners = {} /\ \E c \in Cores : dying = {c}
            \/ b \notin kheap /\ dying = {} /\ \E t \in Tids : owners = {t}

(* schedule() never comes back to a thread that has called thread_exit_code(). *)
NeverReturnsFromExit == \A c \in Cores : ~AtThread(c, "exit_loop")

(* No core ever spins on a scheduler_lock that it holds itself, which a tick   *)
(* inside the critical section would make it do.                               *)
NoSelfDeadlock == \A c \in Cores : pc[c] \in LockPcs => scheduler_lock # c

(* A core's idle thread is never run by another core. *)
IdleStaysHome ==
    \A c \in Cores : current_thread[c] >= 0 /\ is_idle[current_thread[c]]
                       => current_thread[c] = idle_tid(c)

(* The frame an exiting thread delivers its code to is still that of a caller  *)
(* of process_spawn_args_and_wait() that waits for this very thread.           *)
ExitCodeOutIsLive ==
    \A c \in Cores :
        LET t == current_thread[c] IN
        AtThread(c, "exit_tid") /\ exit_code_out[t] # NULL
            => LET f == frame[exit_code_out[t]]
               IN f.at = "wait" /\ f.child = t /\ f.childgen = gen[t]

(* What process_spawn_args_and_wait() returns is the exit code of the child    *)
(* it created, whatever has become of the child's slot in the meantime.        *)
WaitReturnsChildsCode ==
    [][\A s \in Stacks : frame[s].at = "wait" /\ frame'[s].at = "run"
           => frame[s].exit_code = frame[s].childgen]_vars

(* Every zombie's slot becomes free. *)
ZombieReaped ==
    \A t \in Tids : state[t] = "ZOMBIE" ~> (state[t] = "UNUSED" \/ panicked)

(* Every ready thread is run: no core's round robin passes it over for ever. *)
ReadyThreadRuns ==
    \A t \in Tids : Ready(t) ~> (~Ready(t) \/ panicked)

--------------------------------------------------------------------------------
(* What the comments of the code say and the code does not do *)

(* scheduler.h: a dead thread's stack is freed once the scheduler has switched *)
(* away from it; scheduler.c: nothing else can touch the block before that.    *)
DeadStackUntouched == \A c \in Cores : pc[c] = "discard" => ~StackReused(c)

(* scheduler.h: thread_exit() ends the calling thread. *)
ExitEndsCaller ==
    [][\A t \in Tids : state[t] # "ZOMBIE" /\ state'[t] = "ZOMBIE"
           => \E c \in Cores : pc[c] = "exit_body" /\ current_thread[c] = t]_vars

(* scheduler.h: thread_is_alive(tid) is true only while the thread that        *)
(* thread_create() returned tid for is still running.                          *)
AliveMeansThatThread ==
    \A c \in Cores : LET f == frame[stk[c]] IN
        AtThread(c, "wait") /\ thread_is_alive(f.child) => gen[f.child] = f.childgen
================================================================================
