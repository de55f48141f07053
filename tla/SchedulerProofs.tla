---------------------------- MODULE SchedulerProofs ----------------------------
(* The safety invariants of Scheduler hold for any number of cores, threads    *)
(* and stacks: the inductive invariant, a lemma for each step of a core, and   *)
(* the theorems that follow; then the same again for the waiting of a parent   *)
(* for its child's exit code.                                                  *)
EXTENDS Scheduler, TLAPS

Used(t) == state[t] # "UNUSED"

(* Where the code of a thread may be when it is not running *)
Parked == {"idle", "run", "wait"}

(* What holds of core c: interrupts are on only in thread code, the lock is    *)
(* held exactly inside a critical section, and the current thread is claimed.  *)
CoreInv(c) ==
    /\ iflag[c] => pc[c] = "thread"
    /\ scheduler_lock = c => pc[c] \in BodyPcs
    /\ ~panicked /\ pc[c] \in BodyPcs => scheduler_lock = c
    /\ current_thread[c] \in Tids =>
         /\ running_on_core[current_thread[c]] = c
         /\ Used(current_thread[c])
         /\ tss_rsp0[c] = stack_base[current_thread[c]]
         /\ pc[c] \notin SwitchPcs => stk[c] = stack_base[current_thread[c]]
         /\ pc[c] \notin {"start_lock", "start_body"}
    /\ current_thread[c] \notin Tids =>
         /\ pc[c] \in {"thread", "start_lock", "start_body", "sched_lock", "sched_body"}
         /\ stk[c] = BootStack(c)

(* What is left to do in a context switch on core c *)
SwitchInv(c) ==
    /\ pc[c] \in SwitchPcs =>
         /\ rsp[current_thread[c]] = "saved"
         /\ state[current_thread[c]] = "ACTIVE"
         /\ frame[stack_base[current_thread[c]]].at \in Parked
    /\ pc[c] \in {"save", "release"} =>
         /\ prev[c] \in Tids
         /\ prev[c] # current_thread[c]
         /\ running_on_core[prev[c]] = c
         /\ state[prev[c]] = "ACTIVE"
         /\ frame[stack_base[prev[c]]].at \in Parked
    /\ pc[c] = "release" => rsp[prev[c]] = "saved"

(* How far core c is through the code on its stack *)
PlaceInv(c) ==
    LET f == frame[stk[c]] IN
    /\ pc[c] = "thread" =>
         /\ f.at \in Parked \cup {"boot", "exit_tid", "exit_cli"}
         /\ f.at \in {"exit_tid", "exit_cli"} => ~iflag[c]
         /\ f.at = "exit_tid" => f.core = c
    /\ pc[c] \in {"exit_lock", "exit_body"} => f.at = "exit_cli"
    /\ pc[c] \in {"create_lock", "create_body"} => f.at \in {"run", "wait"}
    /\ pc[c] \in {"sched_lock", "sched_body"} =>
         f.at \in Parked \cup {"boot", "exit_loop"}
    /\ pc[c] \notin SwitchPcs /\ f.at = "exit_cli" => f.tid = current_thread[c]
    /\ pc[c] \notin SwitchPcs /\ current_thread[c] \in Tids =>
         (state[current_thread[c]] = "ZOMBIE" <=> f.at = "exit_loop")

(* What holds of thread slot t *)
ThreadInv(t) ==
    /\ ~Used(t) => running_on_core[t] = NoCore
    /\ running_on_core[t] # NoCore =>
         LET c == running_on_core[t] IN
         t = current_thread[c] \/ (pc[c] \in {"save", "release"} /\ t = prev[c])
    /\ Used(t) =>
         /\ stack_base[t] \in Blocks
         /\ frame[stack_base[t]].at # "boot"
         /\ frame[stack_base[t]].gen = gen[t]
    /\ Used(t) /\ running_on_core[t] = NoCore =>
         /\ rsp[t] = "saved"
         /\ state[t] = "ACTIVE"
         /\ frame[stack_base[t]].at \in Parked
    /\ t \in Cores =>
         /\ is_idle[t]
         /\ state[t] = "ACTIVE"
         /\ running_on_core[t] \in {NoCore, t}
         /\ frame[stack_base[t]].at = "idle"
    /\ t \notin Cores => ~is_idle[t]

(* Every block has one owner: the heap, a thread, or the core that frees it *)
StackInv ==
    /\ \A t, u \in Tids : Used(t) /\ Used(u) /\ stack_base[t] = stack_base[u] => t = u
    /\ \A t \in Tids : Used(t) => stack_base[t] \notin kheap
    /\ \A c \in Cores : pc[c] = "kfree" =>
         /\ zombie_stack[c] \in Blocks \ kheap
         /\ \A t \in Tids : Used(t) => stack_base[t] # zombie_stack[c]
         /\ \A d \in Cores : pc[d] = "kfree" /\ zombie_stack[d] = zombie_stack[c] => d = c
    /\ \A b \in Blocks : \/ b \in kheap
                         \/ \E t \in Tids : Used(t) /\ stack_base[t] = b
                         \/ \E c \in Cores : pc[c] = "kfree" /\ zombie_stack[c] = b

(* The inductive invariant *)
IInv ==
    /\ TypeOK
    /\ \A c \in Cores : CoreInv(c) /\ SwitchInv(c) /\ PlaceInv(c)
    /\ \A c \in Cores : frame[BootStack(c)].at = "boot"
    /\ \A t \in Tids : ThreadInv(t)
    /\ StackInv


--------------------------------------------------------------------------------
(* Facts about the constants; the proofs below expand no index set *)


(* NoCore is no core, it is the only negative core number stored, and the slot *)
(* with a core's number is its idle thread.                                    *)
LEMMA CoreIndex ==
    /\ NoCore \notin Cores
    /\ \A c \in Cores \cup {NoCore} : c < 0 <=> c = NoCore
    /\ \A c \in Cores : c \in Tids /\ idle_tid(c) = c
    BY SchedulerAssumption DEF Cores, NoCore, Tids, idle_tid

(* NoTid is no slot, and the tests `>= 0' and `< 0' of schedule() tell the two *)
(* apart.                                                                      *)
LEMMA ThreadIndex ==
    /\ NoTid \notin Tids
    /\ \A t \in Tids \cup {NoTid} : (t >= 0 <=> t \in Tids) /\ (t < 0 <=> t = NoTid)
    BY SchedulerAssumption DEF Tids, NoTid

(* Heap blocks are stacks, boot stacks are not heap blocks, NULL is neither. *)
LEMMA StackIndex ==
    /\ Blocks \subseteq Stacks
    /\ NULL \notin Stacks
    /\ \A c \in Cores : BootStack(c) \in Stacks \ Blocks
    BY SchedulerAssumption DEF Blocks, Stacks, BootStack, NULL, Cores

(* A place on a stack has the fields of Frame *)
FrameType == [at : Places, isr : BOOLEAN, gen : Nat, core : Cores \cup {NoCore},
              tid : Tids \cup {NoTid}, child : Tids \cup {NoTid}, childgen : Nat,
              exit_code : Nat]

(* What a step leaves alone on stack s, as far as the invariant can tell *)
SamePlace(s) == /\ frame'[s].at = frame[s].at
                /\ frame'[s].core = frame[s].core
                /\ frame'[s].tid = frame[s].tid
                /\ frame'[s].gen = frame[s].gen

--------------------------------------------------------------------------------
(* Facts used by the lemmas of several actions *)

(* A step that allocates and frees nothing *)
LEMMA SameStacks ==
    ASSUME StackInv, UNCHANGED <<stack_base, kheap>>,
           \A t \in Tids : Used(t)' <=> Used(t),
           \A c \in Cores : pc'[c] = "kfree" <=> pc[c] = "kfree",
           \A c \in Cores : pc[c] = "kfree" => zombie_stack'[c] = zombie_stack[c]
    PROVE  StackInv'
    BY DEF StackInv

(* A step of another core, which writes neither to core d's stack nor to its slot *)
LEMMA SamePlaceInv ==
    ASSUME NEW d \in Cores, PlaceInv(d),
           pc'[d] = pc[d], stk'[d] = stk[d], iflag'[d] = iflag[d],
           current_thread'[d] = current_thread[d],
           pc[d] \notin SwitchPcs => SamePlace(stk[d]),
           current_thread[d] \in Tids => state'[current_thread[d]] = state[current_thread[d]]
    PROVE  PlaceInv(d)'
    BY Zenon DEF PlaceInv, SamePlace, SwitchPcs

(* Core c runs its current thread's code, on a stack that is no other thread's *)
LEMMA RunningAlone ==
    ASSUME IInv, NEW c \in Cores, pc[c] \notin SwitchPcs, frame[stk[c]].at # "boot"
    PROVE  /\ current_thread[c] \in Tids
           /\ stk[c] = stack_base[current_thread[c]]
           /\ stk[c] \in Blocks
           /\ Used(current_thread[c])
           /\ running_on_core[current_thread[c]] = c
           /\ \A t \in Tids : Used(t) /\ t # current_thread[c] => stack_base[t] # stk[c]
           /\ \A d \in Cores : d # c => current_thread[d] # current_thread[c]
           /\ \A d \in Cores : d # c /\ pc[d] \notin SwitchPcs => stk[d] # stk[c]
           /\ \A d \in Cores : BootStack(d) # stk[c]
<1>1. current_thread[c] \in Tids
    BY DEF IInv, CoreInv
<1>2. /\ stk[c] = stack_base[current_thread[c]]
      /\ Used(current_thread[c])
      /\ running_on_core[current_thread[c]] = c
    BY <1>1, Zenon DEF IInv, CoreInv
<1>3. stk[c] \in Blocks /\ \A d \in Cores : BootStack(d) # stk[c]
    BY <1>1, <1>2, StackIndex DEF IInv, ThreadInv
<1>4. \A t \in Tids : Used(t) /\ t # current_thread[c] => stack_base[t] # stk[c]
    BY <1>1, <1>2, Zenon DEF IInv, StackInv
<1>5. \A d \in Cores : d # c => current_thread[d] # current_thread[c]
    BY <1>1, <1>2 DEF IInv, CoreInv
<1>6. \A d \in Cores : d # c /\ pc[d] \notin SwitchPcs => stk[d] # stk[c]
    BY <1>3, <1>4, <1>5 DEF IInv, CoreInv
<1> QED BY <1>1, <1>2, <1>3, <1>4, <1>5, <1>6, Zenon

(* The thread a core takes is nobody's, ready and saved: the idle thread of a  *)
(* core is its own, and not the zombie it is leaving.                          *)
LEMMA PickedIsFree ==
    ASSUME IInv, NEW c \in Cores, NEW next \in Tids,
           pc[c] \in {"sched_body", "start_body"},
           \/ Ready(next)
           \/ next = idle_tid(c) /\ (PrevIsZombie(c) \/ current_thread[c] \notin Tids)
    PROVE  /\ running_on_core[next] = NoCore
           /\ state[next] = "ACTIVE"
           /\ rsp[next] = "saved"
           /\ stack_base[next] \in Blocks
           /\ frame[stack_base[next]].at \in Parked
           /\ next # current_thread[c]
           /\ next \in Cores => next = c
<1>1. running_on_core[next] = NoCore /\ state[next] = "ACTIVE"
  <2>1. CASE Ready(next)
    BY <2>1, CoreIndex, Zenon DEF Ready, IInv, TypeOK
  <2>2. CASE next = idle_tid(c) /\ (PrevIsZombie(c) \/ current_thread[c] \notin Tids)
    BY <2>2, CoreIndex DEF IInv, ThreadInv, PrevIsZombie
  <2> QED BY <2>1, <2>2, Zenon
<1>2. next # current_thread[c]
    BY <1>1, CoreIndex DEF IInv, CoreInv
<1>3. next \in Cores => next = c
    BY CoreIndex, Zenon DEF IInv, ThreadInv, Ready
<1> QED BY <1>1, <1>2, <1>3, Zenon DEF IInv, ThreadInv, Used

(* panic() changes nothing but the flag, and may be called holding the lock. *)
LEMMA PanicInv ==
    ASSUME IInv, panic, scheduler_lock' \in {scheduler_lock, NoCore}
    PROVE  IInv'
<1> USE DEF panic, threadVars, coreVars
<1>1. TypeOK'
    BY Zenon DEF IInv, TypeOK
<1>2. ASSUME NEW d \in Cores PROVE CoreInv(d)'
    BY CoreIndex DEF IInv, CoreInv, Used
<1>3. ASSUME NEW d \in Cores PROVE SwitchInv(d)' /\ PlaceInv(d)'
    BY Zenon DEF IInv, SwitchInv, PlaceInv
<1>4. ASSUME NEW t \in Tids PROVE ThreadInv(t)'
    BY Zenon DEF IInv, ThreadInv, Used
<1>5. StackInv'
    BY SameStacks, Zenon DEF IInv, Used
<1> QED BY <1>1, <1>2, <1>3, <1>4, <1>5, Zenon DEF IInv

--------------------------------------------------------------------------------
(* Calling schedule() and scheduler_start(), the lock, and returning *)

(* spinlock_acquire() keeps the invariant: the core that enters holds the lock *)
(* alone, with interrupts off since before the spin.                           *)
LEMMA AcquireInv ==
    ASSUME IInv, ~panicked, NEW c \in Cores, NEW from, NEW to,
           <<from, to>> \in {<<"sched_lock", "sched_body">>, <<"start_lock", "start_body">>,
                            <<"create_lock", "create_body">>, <<"exit_lock", "exit_body">>},
           Acquire(c, from, to)
    PROVE  IInv'
<1> USE DEF threadVars, LockPcs, BodyPcs, SwitchPcs
<1>a. /\ pc[c] = from /\ scheduler_lock = NoCore /\ scheduler_lock' = c
      /\ \A d \in Cores : pc'[d] = IF d = c THEN to ELSE pc[d]
      /\ UNCHANGED <<state, running_on_core, stack_base, rsp, exit_code_out, is_idle, gen,
                     current_thread, kheap, iflag, stk, tss_rsp0, prev, zombie_stack,
                     flags, frame, panicked, created>>
    BY Zenon DEF Acquire, IInv, TypeOK
<1>b. \/ from = "sched_lock" /\ to = "sched_body"
      \/ from = "start_lock" /\ to = "start_body"
      \/ from = "create_lock" /\ to = "create_body"
      \/ from = "exit_lock" /\ to = "exit_body"
    BY Zenon
<1>1. TypeOK'
    BY <1>b, Zenon DEF Acquire, IInv, TypeOK
<1>2. ASSUME NEW d \in Cores PROVE CoreInv(d)'
  <2>1. CoreInv(d)
    BY Zenon DEF IInv
  <2> QED BY <2>1, <1>a, <1>b, CoreIndex, Zenon DEF CoreInv, Used
<1>3. ASSUME NEW d \in Cores PROVE SwitchInv(d)'
  <2>1. SwitchInv(d)
    BY Zenon DEF IInv
  <2> QED BY <2>1, <1>a, <1>b, Zenon DEF SwitchInv
<1>4. ASSUME NEW d \in Cores PROVE PlaceInv(d)'
  <2>1. PlaceInv(d)
    BY Zenon DEF IInv
  <2> QED BY <2>1, <1>a, <1>b, Zenon DEF PlaceInv
<1>5. ASSUME NEW d \in Cores PROVE (frame[BootStack(d)].at = "boot")'
    BY <1>a, Zenon DEF IInv
<1>6. ASSUME NEW t \in Tids PROVE ThreadInv(t)'
  <2>1. ThreadInv(t) /\ running_on_core[t] \in Cores \cup {NoCore}
    BY Zenon DEF IInv, TypeOK
  <2> QED BY <2>1, <1>a, <1>b, Zenon DEF ThreadInv, Used
<1>7. StackInv'
  <2>1. \A d \in Cores : pc'[d] = "kfree" <=> pc[d] = "kfree"
    BY <1>a, <1>b, Zenon
  <2> QED BY <2>1, <1>a, SameStacks, Zenon DEF IInv, Used
<1> QED BY <1>1, <1>2, <1>3, <1>4, <1>5, <1>6, <1>7, Zenon DEF IInv

(* Calling schedule() from thread code keeps the invariant, whichever caller. *)
LEMMA EnterScheduleInv ==
    ASSUME IInv, NEW c \in Cores, NEW isr \in BOOLEAN,
           pc[c] = "thread", frame[stk[c]].at \in Parked \cup {"boot"},
           EnterSchedule(c, isr),
           UNCHANGED <<threadVars, current_thread, scheduler_lock, kheap, stk, tss_rsp0,
                       prev, zombie_stack, flags, panicked, created>>
    PROVE  IInv'
<1> USE DEF EnterSchedule, threadVars, LockPcs, BodyPcs, SwitchPcs
<1>0. ASSUME NEW s \in Stacks PROVE frame'[s] \in FrameType /\ SamePlace(s)
  <2>1. frame[s] \in FrameType
    BY Zenon DEF IInv, TypeOK, FrameType
  <2>2. frame'[s] = IF s = stk[c] THEN [frame[s] EXCEPT !.isr = isr] ELSE frame[s]
    BY Zenon DEF IInv, TypeOK
  <2> QED BY <2>1, <2>2 DEF FrameType, SamePlace
<1>1. TypeOK'
  <2>1. frame' \in [Stacks -> FrameType]
    BY <1>0, Zenon DEF IInv, TypeOK
  <2> QED BY <2>1, Zenon DEF IInv, TypeOK, FrameType
<1>2. ASSUME NEW d \in Cores PROVE CoreInv(d)'
    BY DEF IInv, TypeOK, CoreInv, Used
<1>3. ASSUME NEW d \in Cores PROVE SwitchInv(d)'
    BY <1>0, StackIndex DEF IInv, TypeOK, SwitchInv, SamePlace, CoreInv, ThreadInv, Used
<1>4. ASSUME NEW d \in Cores PROVE PlaceInv(d)'
    BY <1>0 DEF IInv, TypeOK, PlaceInv, SamePlace, Parked
<1>5. ASSUME NEW d \in Cores PROVE (frame[BootStack(d)].at = "boot")'
    BY <1>0, StackIndex, Zenon DEF IInv, SamePlace
<1>6. ASSUME NEW t \in Tids PROVE ThreadInv(t)'
    BY <1>0, StackIndex DEF IInv, TypeOK, ThreadInv, SamePlace, Used
<1>7. StackInv'
  <2>1. \A d \in Cores : pc'[d] = "kfree" <=> pc[d] = "kfree"
    BY Zenon DEF IInv, TypeOK
  <2> QED BY <2>1, SameStacks, Zenon DEF IInv, Used
<1> QED BY <1>1, <1>2, <1>3, <1>4, <1>5, <1>6, <1>7, Zenon DEF IInv

(* So does the call a timer interrupt makes: it can only land in thread code. *)
LEMMA TimerInterruptInv ==
    ASSUME IInv, NEW c \in Cores, TimerInterrupt(c)
    PROVE  IInv'
<1>1. pc[c] = "thread" /\ frame[stk[c]].at \in Parked \cup {"boot"}
    BY Zenon DEF IInv, TimerInterrupt, CoreInv, PlaceInv
<1> QED BY <1>1, EnterScheduleInv, Zenon DEF TimerInterrupt

(* So does the call process_spawn_args_and_wait() makes. *)
LEMMA WaitAliveInv ==
    ASSUME IInv, NEW c \in Cores, WaitAlive(c)
    PROVE  IInv'
    BY EnterScheduleInv, Zenon DEF WaitAlive, AtThread, Parked

(* A core that calls scheduler_start() has no current thread yet. *)
LEMMA SchedulerStartInv ==
    ASSUME IInv, NEW c \in Cores, SchedulerStart(c)
    PROVE  IInv'
<1> USE DEF SchedulerStart, AtThread, threadVars, LockPcs, BodyPcs, SwitchPcs
<1>0. current_thread[c] \notin Tids
    BY DEF IInv, CoreInv, ThreadInv
<1>1. TypeOK'
    BY Zenon DEF IInv, TypeOK
<1>2. ASSUME NEW d \in Cores PROVE CoreInv(d)'
    BY <1>0 DEF IInv, TypeOK, CoreInv, Used
<1>3. ASSUME NEW d \in Cores PROVE SwitchInv(d)'
    BY DEF IInv, TypeOK, SwitchInv
<1>4. ASSUME NEW d \in Cores PROVE PlaceInv(d)'
    BY DEF IInv, TypeOK, PlaceInv
<1>5. ASSUME NEW d \in Cores PROVE (frame[BootStack(d)].at = "boot")'
    BY Zenon DEF IInv
<1>6. ASSUME NEW t \in Tids PROVE ThreadInv(t)'
    BY DEF IInv, TypeOK, ThreadInv, Used
<1>7. StackInv'
  <2>1. \A d \in Cores : pc'[d] = "kfree" <=> pc[d] = "kfree"
    BY Zenon DEF IInv, TypeOK
  <2> QED BY <2>1, SameStacks, Zenon DEF IInv, Used
<1> QED BY <1>1, <1>2, <1>3, <1>4, <1>5, <1>6, <1>7, Zenon DEF IInv

(* schedule() returning early resumes the caller, which is no zombie. *)
LEMMA ScheduleReturnInv ==
    ASSUME IInv, ~panicked, NEW c \in Cores, ScheduleReturn(c)
    PROVE  IInv'
<1> USE DEF ScheduleReturn, Release, threadVars, LockPcs, BodyPcs, SwitchPcs
<1>0. /\ frame[stk[c]].isr \in BOOLEAN
      /\ scheduler_lock = c
    BY ZenonT(60) DEF IInv, TypeOK, CoreInv
<1>1. TypeOK'
    BY <1>0, Zenon DEF IInv, TypeOK
<1>2. ASSUME NEW d \in Cores PROVE CoreInv(d)'
    BY <1>0, CoreIndex DEF IInv, TypeOK, CoreInv, Used
<1>3. ASSUME NEW d \in Cores PROVE SwitchInv(d)'
    BY DEF IInv, TypeOK, SwitchInv
<1>4. ASSUME NEW d \in Cores PROVE PlaceInv(d)'
  <2>1. frame[stk[c]].at \in Parked \cup {"boot"}
    <3>1. PlaceInv(c) /\ CoreInv(c) /\ current_thread[c] \in Tids \cup {NoTid}
        BY Zenon DEF IInv, TypeOK
    <3>2. current_thread[c] \in Tids => state[current_thread[c]] # "ZOMBIE"
        BY ThreadIndex, Zenon DEF PrevIsZombie
    <3>3. current_thread[c] \notin Tids => stk[c] = BootStack(c)
        BY <3>1, Zenon DEF CoreInv
    <3> QED BY <3>1, <3>2, <3>3, Zenon DEF IInv, PlaceInv
  <2> QED BY <2>1 DEF IInv, TypeOK, PlaceInv, Parked
<1>5. ASSUME NEW d \in Cores PROVE (frame[BootStack(d)].at = "boot")'
    BY Zenon DEF IInv
<1>6. ASSUME NEW t \in Tids PROVE ThreadInv(t)'
    BY DEF IInv, TypeOK, ThreadInv, Used
<1>7. StackInv'
  <2>1. \A d \in Cores : pc'[d] = "kfree" <=> pc[d] = "kfree"
    BY Zenon DEF IInv, TypeOK
  <2> QED BY <2>1, SameStacks, Zenon DEF IInv, Used
<1> QED BY <1>1, <1>2, <1>3, <1>4, <1>5, <1>6, <1>7, Zenon DEF IInv

--------------------------------------------------------------------------------
(* The steps of a context switch *)

(* The critical section of schedule(): the claim of the next thread and the    *)
(* release of a zombie's slot keep the invariant.                              *)
LEMMA ScheduleSwitchInv ==
    ASSUME IInv, ~panicked, NEW c \in Cores, NEW next \in Tids, ScheduleSwitch(c, next)
    PROVE  IInv'
<1> DEFINE p == current_thread[c]
           z == PrevIsZombie(c)
<1> USE DEF Release, LockPcs, BodyPcs, SwitchPcs
<1>a. /\ pc[c] = "sched_body"
      /\ scheduler_lock = c
      /\ p \in Tids \cup {NoTid}
    BY ZenonT(60) DEF ScheduleSwitch, IInv, TypeOK, CoreInv
<1>b. /\ running_on_core[next] = NoCore
      /\ state[next] = "ACTIVE"
      /\ rsp[next] = "saved"
      /\ stack_base[next] \in Blocks
      /\ frame[stack_base[next]].at \in Parked
      /\ next # p
      /\ next \in Cores => next = c
    BY PickedIsFree, Zenon DEF ScheduleSwitch, NextReadyAfter
<1>c. p \in Tids => /\ running_on_core[p] = c
                    /\ Used(p)
                    /\ stack_base[p] \in Blocks
                    /\ z <=> state[p] = "ZOMBIE"
                    /\ ~z => state[p] = "ACTIVE" /\ frame[stack_base[p]].at \in Parked
                    /\ p \notin Cores \/ ~z
  <2> SUFFICES ASSUME p \in Tids
               PROVE  /\ running_on_core[p] = c
                      /\ Used(p)
                      /\ stack_base[p] \in Blocks
                      /\ z <=> state[p] = "ZOMBIE"
                      /\ ~z => state[p] = "ACTIVE" /\ frame[stack_base[p]].at \in Parked
                      /\ p \notin Cores \/ ~z
    BY Zenon
  <2>1. running_on_core[p] = c /\ Used(p) /\ stk[c] = stack_base[p]
    BY <1>a, Zenon DEF IInv, CoreInv
  <2>2. stack_base[p] \in Blocks /\ frame[stack_base[p]].at # "boot"
    BY <2>1, Zenon DEF IInv, ThreadInv
  <2>3. z <=> state[p] = "ZOMBIE"
    BY ThreadIndex, Zenon DEF PrevIsZombie
  <2>4. state[p] = "ZOMBIE" <=> frame[stk[c]].at = "exit_loop"
    BY <1>a, Zenon DEF IInv, PlaceInv
  <2>5. frame[stk[c]].at \in Parked \cup {"boot", "exit_loop"}
    BY <1>a, Zenon DEF IInv, PlaceInv
  <2>6. state[p] \in {"UNUSED", "ACTIVE", "ZOMBIE"}
    BY Zenon DEF IInv, TypeOK
  <2>7. p \in Cores => state[p] = "ACTIVE"
    BY Zenon DEF IInv, ThreadInv
  <2> QED BY <2>1, <2>2, <2>3, <2>4, <2>5, <2>6, <2>7, Zenon DEF Used
<1>d. /\ z => p \in Tids
      /\ \A t \in Tids : running_on_core'[t] = IF z /\ t = p THEN NoCore
                                               ELSE IF t = next THEN c
                                               ELSE running_on_core[t]
      /\ \A t \in Tids : state'[t] = IF z /\ t = p THEN "UNUSED" ELSE state[t]
      /\ \A d \in Cores : current_thread'[d] = IF d = c THEN next ELSE current_thread[d]
      /\ pc'[c] = IF p \notin Tids THEN "discard" ELSE IF z THEN "kfree" ELSE "save"
      /\ \A d \in Cores : d # c => pc'[d] = pc[d]
      /\ zombie_stack'[c] = IF z THEN stack_base[p] ELSE NULL
      /\ \A d \in Cores : d # c => zombie_stack'[d] = zombie_stack[d]
      /\ prev'[c] = p
      /\ \A d \in Cores : d # c => prev'[d] = prev[d]
      /\ tss_rsp0'[c] = stack_base[next]
      /\ \A d \in Cores : d # c => tss_rsp0'[d] = tss_rsp0[d]
      /\ scheduler_lock' = NoCore
      /\ UNCHANGED <<stack_base, rsp, exit_code_out, is_idle, gen, kheap, iflag, stk,
                     flags, frame, panicked, created>>
    BY <1>a, ThreadIndex, ZenonT(60) DEF ScheduleSwitch, IInv, TypeOK, PrevIsZombie
<1>1. TypeOK'
  <2>0. TypeOK
    BY Zenon DEF IInv
  <2>1. active_count' \in Int
    <3>1. active_count' = active_count \/ active_count' = active_count - 1
      BY Zenon DEF ScheduleSwitch
    <3> QED BY <2>0, <3>1 DEF TypeOK
  <2>2. /\ running_on_core' \in [Tids -> Cores \cup {NoCore}]
        /\ state' \in [Tids -> {"UNUSED", "ACTIVE", "ZOMBIE"}]
        /\ current_thread' \in [Cores -> Tids \cup {NoTid}]
        /\ prev' \in [Cores -> Tids \cup {NoTid}]
    BY <1>a, <2>0, Zenon DEF ScheduleSwitch, TypeOK
  <2>3. /\ tss_rsp0' \in [Cores -> Blocks \cup {NULL}]
        /\ zombie_stack' \in [Cores -> Blocks \cup {NULL}]
    <3>1. z => p \in Tids
      BY <1>d, Zenon
    <3> QED BY <1>b, <1>c, <2>0, <3>1, Zenon DEF ScheduleSwitch, TypeOK
  <2>4. pc' \in [Cores -> {"thread"} \cup LockPcs \cup BodyPcs \cup SwitchPcs]
    BY <2>0, Zenon DEF ScheduleSwitch, TypeOK
  <2> QED BY <1>d, <2>0, <2>1, <2>2, <2>3, <2>4, Zenon DEF TypeOK
<1>2. ASSUME NEW d \in Cores PROVE CoreInv(d)'
  <2>1. CoreInv(d) /\ CoreInv(c)
    BY Zenon DEF IInv
  <2>2. CASE d = c
    <3>1. current_thread'[c] = next /\ running_on_core'[next] = c /\ Used(next)'
      BY <1>a, <1>b, <1>d, Zenon DEF Used
    <3>2. pc'[c] \in SwitchPcs
      BY <1>d, Zenon
    <3>3. ~iflag'[c]
      BY <1>a, <1>d, <2>1, Zenon DEF CoreInv
    <3>4. NoCore # c /\ next \in Tids
      BY CoreIndex, Zenon
    <3> HIDE DEF p, z
    <3> QED BY <1>d, <2>2, <3>1, <3>2, <3>3, <3>4, Zenon DEF CoreInv
  <2>3. CASE d # c
    <3>1. /\ UNCHANGED <<iflag, stk, panicked, stack_base>> /\ scheduler_lock' = NoCore
          /\ pc'[d] = pc[d] /\ current_thread'[d] = current_thread[d]
          /\ tss_rsp0'[d] = tss_rsp0[d]
      BY <1>d, <2>3, Zenon
    <3>a. current_thread[d] \in Tids => running_on_core[current_thread[d]] = d
      BY <2>1, Zenon DEF CoreInv
    <3>b. running_on_core[next] # d /\ (p \in Tids => running_on_core[p] # d)
      BY <1>b, <1>c, <2>3, CoreIndex, Zenon
    <3>2. current_thread[d] \in Tids => current_thread[d] # p /\ current_thread[d] # next
      <4> HIDE DEF p, z
      <4> QED BY <3>a, <3>b, Zenon
    <3>3. current_thread[d] \in Tids =>
              /\ running_on_core'[current_thread[d]] = running_on_core[current_thread[d]]
              /\ Used(current_thread[d]) => Used(current_thread[d])'
      <4>1. \A t \in Tids : t # p /\ t # next =>
                running_on_core'[t] = running_on_core[t] /\ state'[t] = state[t]
        BY <1>d, Zenon
      <4> HIDE DEF p, z
      <4> QED BY <3>1, <3>2, <4>1, Zenon DEF Used
    <3>4. ~panicked => pc[d] \notin BodyPcs
      BY <1>a, <2>1, <2>3, Zenon DEF CoreInv
    <3> HIDE DEF p, z
    <3> QED BY <2>1, <3>1, <3>3, <3>4, CoreIndex, Zenon DEF CoreInv
  <2> QED BY <2>2, <2>3, Zenon
<1>3. ASSUME NEW d \in Cores PROVE SwitchInv(d)'
  <2>1. CoreInv(d) /\ SwitchInv(d)
    BY ZenonT(60) DEF IInv
  <2> QED BY <2>1, <1>a, <1>b, <1>c, <1>d, CoreIndex DEF CoreInv, SwitchInv, Used
<1>4. ASSUME NEW d \in Cores PROVE PlaceInv(d)'
  <2>1. CoreInv(d) /\ PlaceInv(d)
    BY Zenon DEF IInv
  <2> QED BY <2>1, <1>a, <1>b, <1>c, <1>d, CoreIndex DEF CoreInv, PlaceInv
<1>5. ASSUME NEW d \in Cores PROVE (frame[BootStack(d)].at = "boot")'
    BY <1>d, Zenon DEF IInv
<1>6. ASSUME NEW t \in Tids PROVE ThreadInv(t)'
  <2>1. ThreadInv(t) /\ running_on_core[t] \in Cores \cup {NoCore}
    BY ZenonT(60) DEF IInv, TypeOK
  <2>2. CASE t = next
    <3>1. running_on_core'[t] = c /\ current_thread'[c] = t /\ state'[t] = state[t] /\ Used(t)'
      BY <1>b, <1>d, <2>2, Zenon DEF Used
    <3>2. UNCHANGED <<stack_base, frame, gen, rsp, is_idle>> /\ NoCore # c /\ Used(t)
      BY <1>b, <1>d, <2>2, CoreIndex, Zenon DEF Used
    <3>3. t \in Cores => t = c
      BY <1>b, <2>2, Zenon
    <3> HIDE DEF p, z
    <3> QED BY <2>1, <3>1, <3>2, <3>3, Zenon DEF ThreadInv
  <2>3. CASE t = p /\ t # next
    <3>1. UNCHANGED <<stack_base, frame, gen, rsp, is_idle>> /\ NoCore # c /\ prev'[c] = t
      BY <1>d, <2>3, CoreIndex, Zenon
    <3>2. running_on_core[t] = c /\ Used(t) /\ (t \in Cores => ~z)
      BY <1>c, <2>3, Zenon
    <3>3. CASE z
      <4>1. running_on_core'[t] = NoCore /\ ~Used(t)' /\ t \notin Cores
        BY <1>d, <2>3, <3>2, <3>3, Zenon DEF Used
      <4> HIDE DEF p, z
      <4> QED BY <2>1, <3>1, <4>1, Zenon DEF ThreadInv
    <3>4. CASE ~z
      <4>1. running_on_core'[t] = c /\ state'[t] = state[t] /\ pc'[c] = "save"
        BY <1>d, <2>3, <3>2, <3>4, Zenon
      <4>2. pc'[c] \in {"save", "release"} /\ Used(t)'
        BY <3>2, <4>1, Zenon DEF Used
      <4>3. t \in Cores => running_on_core'[t] \in {NoCore, t}
        BY <2>1, <3>2, <4>1, Zenon DEF ThreadInv
      <4> HIDE DEF p, z
      <4> QED BY <2>1, <3>1, <3>2, <4>1, <4>2, <4>3, Zenon DEF ThreadInv
    <3> QED BY <3>3, <3>4, Zenon
  <2>4. CASE t # p /\ t # next
    BY <2>1, <2>4, <1>a, <1>b, <1>c, <1>d, CoreIndex DEF ThreadInv, Used
  <2> QED BY <2>2, <2>3, <2>4, Zenon
<1>7. StackInv'
  <2>1. CASE ~z
    <3>1. \A t \in Tids : Used(t)' <=> Used(t)
        BY <2>1, <1>d, Zenon DEF Used
    <3>2. \A d \in Cores : /\ pc'[d] = "kfree" <=> pc[d] = "kfree"
                           /\ pc[d] = "kfree" => zombie_stack'[d] = zombie_stack[d]
        BY <2>1, <1>a, <1>d, ZenonT(60)
    <3> QED BY <3>1, <3>2, <1>d, SameStacks, Zenon DEF IInv
  <2>2. CASE z
    <3>1. \A t \in Tids : Used(t)' <=> Used(t) /\ t # p
        BY <2>2, <1>d, Zenon DEF Used
    <3>2. \A d \in Cores : pc'[d] = "kfree" <=> pc[d] = "kfree" \/ d = c
        BY <2>2, <1>a, <1>d, Zenon
    <3>3. StackInv /\ p \in Tids /\ Used(p) /\ stack_base[p] \in Blocks
      BY <2>2, <1>c, <1>d, Zenon DEF IInv
    <3>4. /\ UNCHANGED <<stack_base, kheap>> /\ zombie_stack'[c] = stack_base[p]
          /\ pc[c] # "kfree" /\ \A d \in Cores : d # c => zombie_stack'[d] = zombie_stack[d]
      BY <2>2, <1>a, <1>d, Zenon
    <3> HIDE DEF p, z
    <3>5. ASSUME NEW d \in Cores, pc'[d] = "kfree"
          PROVE  /\ zombie_stack'[d] \in Blocks \ kheap
                 /\ \A t \in Tids : Used(t)' => stack_base[t] # zombie_stack'[d]
                 /\ \A e \in Cores : pc'[e] = "kfree" /\ zombie_stack'[e] = zombie_stack'[d] => e = d
      <4>a. /\ \A t, u \in Tids : Used(t) /\ Used(u) /\ stack_base[t] = stack_base[u] => t = u
            /\ \A t \in Tids : Used(t) => stack_base[t] \notin kheap
            /\ \A e \in Cores : pc[e] = "kfree" =>
                 /\ zombie_stack[e] \in Blocks \ kheap
                 /\ \A t \in Tids : Used(t) => stack_base[t] # zombie_stack[e]
                 /\ \A g \in Cores : pc[g] = "kfree" /\ zombie_stack[g] = zombie_stack[e] => g = e
        BY <3>3, Zenon DEF StackInv
      <4>b. /\ stack_base[p] \in Blocks \ kheap
            /\ \A t \in Tids : Used(t)' => stack_base[t] # stack_base[p]
            /\ \A e \in Cores : pc[e] = "kfree" => zombie_stack[e] # stack_base[p]
        BY <3>1, <3>3, <4>a, Zenon
      <4>c. \A e \in Cores : e # c /\ pc'[e] = "kfree" =>
                pc[e] = "kfree" /\ zombie_stack'[e] = zombie_stack[e]
        BY <3>2, <3>4, Zenon
      <4>1. CASE d = c
        BY <3>4, <4>b, <4>c, <4>1, Zenon
      <4>2. CASE d # c
        <5>1. pc[d] = "kfree" /\ zombie_stack'[d] = zombie_stack[d]
          BY <3>5, <4>c, <4>2, Zenon
        <5>2. \A t \in Tids : Used(t)' => stack_base[t] # zombie_stack[d]
          BY <3>1, <4>a, <5>1, Zenon
        <5>3. \A e \in Cores : pc'[e] = "kfree" /\ zombie_stack'[e] = zombie_stack[d] => e = d
          BY <3>4, <4>a, <4>b, <4>c, <5>1, Zenon
        <5> QED BY <4>a, <5>1, <5>2, <5>3, Zenon
      <4> QED BY <4>1, <4>2, Zenon
    <3>6. ASSUME NEW b \in Blocks
          PROVE  \/ b \in kheap
                 \/ \E t \in Tids : Used(t)' /\ stack_base[t] = b
                 \/ \E d \in Cores : pc'[d] = "kfree" /\ zombie_stack'[d] = b
      <4>1. CASE b = stack_base[p]
        BY <3>2, <3>4, <4>1, Zenon
      <4>2. CASE b # stack_base[p]
        BY <3>1, <3>2, <3>3, <3>4, <4>2, Zenon DEF StackInv
      <4> QED BY <4>1, <4>2, Zenon
    <3> QED BY <3>1, <3>3, <3>4, <3>5, <3>6, Zenon DEF StackInv
  <2> QED BY <2>1, <2>2, Zenon
<1> QED BY <1>1, <1>2, <1>3, <1>4, <1>5, <1>6, <1>7, Zenon DEF IInv

(* kfree() of the dead stack returns a block that no slot owns any more. *)
LEMMA FreeZombieStackInv ==
    ASSUME IInv, NEW c \in Cores, FreeZombieStack(c)
    PROVE  IInv'
<1> USE DEF FreeZombieStack, threadVars, LockPcs, BodyPcs, SwitchPcs
<1>1. TypeOK'
    BY DEF IInv, TypeOK, StackInv
<1>2. ASSUME NEW d \in Cores PROVE CoreInv(d)'
    BY DEF IInv, TypeOK, CoreInv, Used
<1>3. ASSUME NEW d \in Cores PROVE SwitchInv(d)'
    BY DEF IInv, TypeOK, SwitchInv
<1>4. ASSUME NEW d \in Cores PROVE PlaceInv(d)'
    BY ZenonT(60) DEF IInv, TypeOK, PlaceInv
<1>5. ASSUME NEW d \in Cores PROVE (frame[BootStack(d)].at = "boot")'
    BY Zenon DEF IInv
<1>6. ASSUME NEW t \in Tids PROVE ThreadInv(t)'
    BY DEF IInv, TypeOK, ThreadInv, Used
<1>7. StackInv'
  <2>1. \A d \in Cores : pc'[d] = "kfree" <=> pc[d] = "kfree" /\ d # c
    BY Zenon DEF IInv, TypeOK
  <2>2. \A t \in Tids : (Used(t)' <=> Used(t)) /\ stack_base'[t] = stack_base[t]
    BY Zenon DEF Used
  <2>3. /\ kheap' = kheap \cup {zombie_stack[c]} /\ pc[c] = "kfree"
        /\ zombie_stack' = zombie_stack
    BY Zenon
  <2>4. StackInv
    BY Zenon DEF IInv
  <2> HIDE DEF FreeZombieStack
  <2> QED BY <2>1, <2>2, <2>3, <2>4 DEF StackInv
<1> QED BY <1>1, <1>2, <1>3, <1>4, <1>5, <1>6, <1>7, Zenon DEF IInv

(* SwitchDiscard and SwitchRelease in one *)
EndSwitch(c) ==
    /\ Resume(c)
    /\ rsp' = [rsp EXCEPT ![current_thread[c]] = "stale"]
    /\ running_on_core' = IF pc[c] = "release"
                          THEN [running_on_core EXCEPT ![prev[c]] = NoCore]
                          ELSE running_on_core
    /\ UNCHANGED <<state, stack_base, exit_code_out, is_idle, active_count, gen,
                   current_thread, scheduler_lock, kheap, tss_rsp0, flags, frame,
                   panicked, created>>

(* The end of a switch: the core enters the context of its current thread,     *)
(* and, in switch_context_release(), gives up the one it comes from.           *)
LEMMA ResumeInv ==
    ASSUME IInv, NEW c \in Cores, pc[c] \in {"discard", "release"}, EndSwitch(c)
    PROVE  IInv'
<1> DEFINE next == current_thread[c]
<1> USE DEF LockPcs, BodyPcs, SwitchPcs
<1>a. /\ next \in Tids
      /\ running_on_core[next] = c
      /\ stack_base[next] \in Blocks \cap Stacks
      /\ state[next] = "ACTIVE"
      /\ frame[stack_base[next]].at \in Parked
      /\ frame[stack_base[next]].isr \in BOOLEAN
  <2>1. next \in Tids /\ running_on_core[next] = c /\ Used(next)
    BY ThreadIndex, Zenon DEF IInv, CoreInv
  <2>2. stack_base[next] \in Blocks \cap Stacks
    BY <2>1, StackIndex, Zenon DEF IInv, ThreadInv
  <2>3. state[next] = "ACTIVE" /\ frame[stack_base[next]].at \in Parked
    BY Zenon DEF IInv, SwitchInv
  <2> QED BY <2>1, <2>2, <2>3, Zenon DEF IInv, TypeOK
<1>b. pc[c] = "release" => /\ prev[c] \in Tids /\ prev[c] # next
                           /\ running_on_core[prev[c]] = c
                           /\ state[prev[c]] = "ACTIVE"
                           /\ frame[stack_base[prev[c]]].at \in Parked
                           /\ rsp[prev[c]] = "saved"
    BY Zenon DEF IInv, SwitchInv
<1>c. /\ \A d \in Cores : pc'[d] = IF d = c THEN "thread" ELSE pc[d]
      /\ \A d \in Cores : stk'[d] = IF d = c THEN stack_base[next] ELSE stk[d]
      /\ \A d \in Cores : iflag'[d] = IF d = c THEN frame[stack_base[next]].isr ELSE iflag[d]
      /\ \A d \in Cores : d # c => prev'[d] = prev[d] /\ zombie_stack'[d] = zombie_stack[d]
      /\ \A t \in Tids : rsp'[t] = IF t = next THEN "stale" ELSE rsp[t]
      /\ \A t \in Tids : running_on_core'[t] = IF pc[c] = "release" /\ t = prev[c]
                                               THEN NoCore ELSE running_on_core[t]
      /\ UNCHANGED <<state, stack_base, is_idle, gen, current_thread, scheduler_lock,
                     kheap, tss_rsp0, frame, panicked>>
    BY <1>a, Zenon DEF EndSwitch, Resume, IInv, TypeOK
<1>1. TypeOK'
    BY <1>a, <1>b, ThreadIndex, Zenon DEF EndSwitch, Resume, IInv, TypeOK
<1>2. ASSUME NEW d \in Cores PROVE CoreInv(d)'
  <2>1. CoreInv(d)
    BY Zenon DEF IInv
  <2>2. d # c /\ current_thread[d] \in Tids /\ pc[c] = "release" => current_thread[d] # prev[c]
    BY <2>1, <1>b, Zenon DEF CoreInv
  <2>3. d # c => current_thread[d] # next
    BY <2>1, <1>a, Zenon DEF CoreInv
  <2>4. CASE d = c
    BY <2>1, <2>4, <1>a, <1>b, <1>c, Zenon DEF CoreInv, Used
  <2>5. CASE d # c
    BY <2>1, <2>2, <2>3, <2>5, <1>c DEF CoreInv, Used
  <2> QED BY <2>4, <2>5, Zenon
<1>3. ASSUME NEW d \in Cores PROVE SwitchInv(d)'
  <2>1. pc[d] \in SwitchPcs =>
            current_thread[d] \in Tids /\ running_on_core[current_thread[d]] = d
    <3>1. CoreInv(d)
        BY Zenon DEF IInv
    <3> QED BY <3>1, Zenon DEF CoreInv
  <2>2. SwitchInv(d)
    BY Zenon DEF IInv
  <2>3. CASE d = c
    BY <2>3, <1>c, ZenonT(60) DEF SwitchInv
  <2>4. CASE d # c
    <3>1. /\ pc'[d] = pc[d] /\ prev'[d] = prev[d]
          /\ UNCHANGED <<current_thread, state, frame, stack_base>>
      BY <1>c, <2>4, Zenon
    <3>2. pc[d] \in SwitchPcs =>
              current_thread[d] # next /\ rsp'[current_thread[d]] = rsp[current_thread[d]]
      BY <1>a, <1>c, <2>1, <2>4, Zenon
    <3>3. pc[d] \in {"save", "release"} =>
              /\ prev[d] # next /\ rsp'[prev[d]] = rsp[prev[d]]
              /\ running_on_core'[prev[d]] = running_on_core[prev[d]]
      BY <1>a, <1>b, <1>c, <2>2, <2>4, Zenon DEF SwitchInv
    <3> HIDE DEF next, SwitchPcs
    <3> QED BY <2>2, <3>1, <3>2, <3>3, Zenon DEF SwitchInv
  <2> QED BY <2>3, <2>4, Zenon
<1>4. ASSUME NEW d \in Cores PROVE PlaceInv(d)'
  <2>1. PlaceInv(d)
    BY Zenon DEF IInv
  <2>2. CASE d = c
    BY <2>2, <1>a, <1>c, Zenon DEF PlaceInv, Parked
  <2>3. CASE d # c
    BY <2>1, <2>3, <1>c, ZenonT(60) DEF PlaceInv
  <2> QED BY <2>2, <2>3, Zenon
<1>5. ASSUME NEW d \in Cores PROVE (frame[BootStack(d)].at = "boot")'
    BY <1>c, Zenon DEF IInv
<1>6. ASSUME NEW t \in Tids PROVE ThreadInv(t)'
  <2>1. ThreadInv(t) /\ running_on_core[t] \in Cores \cup {NoCore}
    BY Zenon DEF IInv, TypeOK
  <2>2. CASE pc[c] = "release" /\ t = prev[c]
    <3>1. /\ running_on_core'[t] = NoCore /\ rsp'[t] = "saved" /\ state[t] = "ACTIVE"
          /\ frame[stack_base[t]].at \in Parked
        BY <1>b, <1>c, <2>2, Zenon
    <3> QED BY <1>c, <2>1, <3>1, Zenon DEF ThreadInv, Used
  <2>3. CASE ~(pc[c] = "release" /\ t = prev[c])
    <3>1. running_on_core'[t] = running_on_core[t]
        BY <1>c, <2>3, Zenon
    <3>2. running_on_core[t] # NoCore =>
              LET d == running_on_core[t] IN
              t = current_thread[d] \/ (pc'[d] \in {"save", "release"} /\ t = prev'[d])
      <4>1. CASE running_on_core[t] = c
        BY <2>1, <2>3, <4>1, <1>a, CoreIndex, Zenon DEF ThreadInv
      <4>2. CASE running_on_core[t] # c
        BY <2>1, <4>2, <1>c, Zenon DEF ThreadInv
      <4> QED BY <4>1, <4>2, Zenon
    <3>3. running_on_core[t] = NoCore => t # next
        BY <1>a, CoreIndex, Zenon
    <3> QED BY <1>c, <2>1, <3>1, <3>2, <3>3, Zenon DEF ThreadInv, Used
  <2> QED BY <2>2, <2>3, Zenon
<1>7. StackInv'
  <2>1. \A d \in Cores : /\ pc'[d] = "kfree" <=> pc[d] = "kfree"
                         /\ pc[d] = "kfree" => zombie_stack'[d] = zombie_stack[d]
    BY <1>c, Zenon
  <2>2. \A t \in Tids : Used(t)' <=> Used(t)
    BY <1>c, Zenon DEF Used
  <2> QED BY <2>1, <2>2, <1>c, SameStacks, Zenon DEF IInv
<1> QED BY <1>1, <1>2, <1>3, <1>4, <1>5, <1>6, <1>7, Zenon DEF IInv

(* switch_context() out of a context nobody will resume. *)
LEMMA SwitchDiscardInv ==
    ASSUME IInv, NEW c \in Cores, SwitchDiscard(c)
    PROVE  IInv'
    BY ResumeInv, Zenon DEF SwitchDiscard, EndSwitch

(* The second half of switch_context_release(): the old thread is up for grabs. *)
LEMMA SwitchReleaseInv ==
    ASSUME IInv, NEW c \in Cores, SwitchRelease(c)
    PROVE  IInv'
    BY ResumeInv, Zenon DEF SwitchRelease, EndSwitch

(* The first half: the old thread's registers are on its stack, and it is      *)
(* still this core's.                                                          *)
LEMMA SwitchSaveInv ==
    ASSUME IInv, NEW c \in Cores, SwitchSave(c)
    PROVE  IInv'
<1> USE DEF SwitchSave, LockPcs, BodyPcs, SwitchPcs
<1>0. prev[c] \in Tids
    BY Zenon DEF IInv, SwitchInv
<1>1. TypeOK'
    BY <1>0, Zenon DEF IInv, TypeOK
<1>2. ASSUME NEW d \in Cores PROVE CoreInv(d)'
    BY DEF IInv, TypeOK, CoreInv, Used
<1>3. ASSUME NEW d \in Cores PROVE SwitchInv(d)'
  <2>1. pc[d] \in SwitchPcs => current_thread[d] \in Tids
    BY Zenon DEF IInv, CoreInv
  <2> QED BY <2>1, <1>0 DEF IInv, TypeOK, SwitchInv
<1>4. ASSUME NEW d \in Cores PROVE PlaceInv(d)'
    BY ZenonT(60) DEF IInv, TypeOK, PlaceInv
<1>5. ASSUME NEW d \in Cores PROVE (frame[BootStack(d)].at = "boot")'
    BY Zenon DEF IInv
<1>6. ASSUME NEW t \in Tids PROVE ThreadInv(t)'
    BY <1>0 DEF IInv, TypeOK, ThreadInv, Used
<1>7. StackInv'
  <2>1. \A d \in Cores : pc'[d] = "kfree" <=> pc[d] = "kfree"
    BY Zenon DEF IInv, TypeOK
  <2> QED BY <2>1, SameStacks, Zenon DEF IInv, Used
<1> QED BY <1>1, <1>2, <1>3, <1>4, <1>5, <1>6, <1>7, Zenon DEF IInv

(* scheduler_start() takes a core's first thread, its idle thread if need be. *)
LEMMA StartSwitchInv ==
    ASSUME IInv, ~panicked, NEW c \in Cores, NEW first \in Tids, StartSwitch(c, first)
    PROVE  IInv'
<1> USE DEF Release, LockPcs, BodyPcs, SwitchPcs
<1>0. CASE active_count = 0
    BY <1>0, PanicInv, Zenon DEF StartSwitch
<1>1. CASE active_count # 0
  <2>a. pc[c] = "start_body" /\ scheduler_lock = c /\ current_thread[c] \notin Tids
    BY ZenonT(60) DEF StartSwitch, IInv, CoreInv
  <2>b. /\ running_on_core[first] = NoCore
        /\ state[first] = "ACTIVE"
        /\ rsp[first] = "saved"
        /\ stack_base[first] \in Blocks
        /\ frame[stack_base[first]].at \in Parked
        /\ first \in Cores => first = c
    BY <1>1, <2>a, PickedIsFree DEF StartSwitch, NextReadyAfter
  <2>c. /\ \A t \in Tids : running_on_core'[t] = IF t = first THEN c ELSE running_on_core[t]
        /\ \A d \in Cores : current_thread'[d] = IF d = c THEN first ELSE current_thread[d]
        /\ \A d \in Cores : pc'[d] = IF d = c THEN "discard" ELSE pc[d]
        /\ \A d \in Cores : tss_rsp0'[d] = IF d = c THEN stack_base[first] ELSE tss_rsp0[d]
        /\ scheduler_lock' = NoCore
        /\ UNCHANGED <<state, stack_base, rsp, exit_code_out, is_idle, active_count, gen,
                       kheap, iflag, stk, prev, zombie_stack, flags, frame, panicked,
                       created>>
    BY <1>1 DEF StartSwitch, IInv, TypeOK
  <2>1. TypeOK'
    <3>1. /\ current_thread' = [current_thread EXCEPT ![c] = first]
          /\ running_on_core' = [running_on_core EXCEPT ![first] = c]
          /\ tss_rsp0' = [tss_rsp0 EXCEPT ![c] = stack_base[first]]
          /\ pc' = [pc EXCEPT ![c] = "discard"]
        BY <1>1, Zenon DEF StartSwitch
    <3> QED BY <3>1, <2>b, <2>c, Zenon DEF IInv, TypeOK
  <2>2. ASSUME NEW d \in Cores PROVE CoreInv(d)'
    <3>1. CoreInv(d)
        BY Zenon DEF IInv
    <3> QED BY <3>1, <2>a, <2>b, <2>c, CoreIndex DEF CoreInv, Used
  <2>3. ASSUME NEW d \in Cores PROVE SwitchInv(d)'
    <3>1. CoreInv(d) /\ SwitchInv(d)
        BY Zenon DEF IInv
    <3>2. CASE d = c
        BY <3>2, <2>b, <2>c, Zenon DEF SwitchInv
    <3>3. CASE d # c
        BY <3>1, <3>3, <2>b, <2>c, CoreIndex, Zenon DEF CoreInv, SwitchInv
    <3> QED BY <3>2, <3>3, Zenon
  <2>4. ASSUME NEW d \in Cores PROVE PlaceInv(d)'
    <3>1. PlaceInv(d)
        BY Zenon DEF IInv
    <3>2. CASE d = c
        BY <3>2, <2>a, <2>b, <2>c, CoreIndex, Zenon DEF PlaceInv
    <3>3. CASE d # c
        BY <3>1, <3>3, <2>c, Zenon DEF PlaceInv
    <3> QED BY <3>2, <3>3, Zenon
  <2>5. ASSUME NEW d \in Cores PROVE (frame[BootStack(d)].at = "boot")'
    BY <2>c, Zenon DEF IInv
  <2>6. ASSUME NEW t \in Tids PROVE ThreadInv(t)'
    <3>1. ThreadInv(t) /\ running_on_core[t] \in Cores \cup {NoCore}
        BY Zenon DEF IInv, TypeOK
    <3>2. CASE t = first
        BY <3>1, <3>2, <2>b, <2>c, CoreIndex, ZenonT(60) DEF ThreadInv, Used
    <3>3. CASE t # first
        BY <3>1, <3>3, <2>a, <2>c, CoreIndex DEF ThreadInv, Used
    <3> QED BY <3>2, <3>3, Zenon
  <2>7. StackInv'
    <3>1. \A d \in Cores : pc'[d] = "kfree" <=> pc[d] = "kfree"
        BY <2>a, <2>c, Zenon
    <3> QED BY <3>1, <2>c, SameStacks, Zenon DEF IInv, Used
  <2> QED BY <2>1, <2>2, <2>3, <2>4, <2>5, <2>6, <2>7, Zenon DEF IInv
<1> QED BY <1>0, <1>1, Zenon

--------------------------------------------------------------------------------
(* Creating threads and waiting for them *)

(* kmalloc() of a stack for an unused slot moves one block from the heap to it. *)
LEMMA TakeStack ==
    ASSUME StackInv, NEW id \in Tids, NEW b \in Blocks, b \in kheap,
           kheap' = kheap \ {b},
           \A t \in Tids : stack_base'[t] = IF t = id THEN b ELSE stack_base[t],
           \A t \in Tids : Used(t)' <=> Used(t) \/ t = id,
           \A t \in Tids : Used(t) => t # id,
           \A d \in Cores : pc'[d] = "kfree" <=> pc[d] = "kfree",
           zombie_stack' = zombie_stack
    PROVE  StackInv'
    BY DEF StackInv

(* The critical section of thread_create_ex(): the slot was unused, the block  *)
(* free, and the new context is complete before any core can pick it.          *)
LEMMA CreateThreadInv ==
    ASSUME IInv, ~panicked, NEW c \in Cores, NEW id \in Tids, NEW b \in Blocks,
           CreateThread(c, id, b)
    PROVE  IInv'
<1> USE DEF Release, LockPcs, BodyPcs, SwitchPcs
<1>a. /\ pc[c] = "create_body" /\ scheduler_lock = c
      /\ frame[stk[c]].at \in {"run", "wait"}
      /\ state[id] = "UNUSED" /\ running_on_core[id] = NoCore /\ id \notin Cores
      /\ b \in kheap /\ created + 1 \in Nat
  <2>1. pc[c] = "create_body" /\ state[id] = "UNUSED" /\ b \in kheap
    BY Zenon DEF CreateThread
  <2>2. scheduler_lock = c
    BY <2>1, Zenon DEF IInv, CoreInv
  <2>3. frame[stk[c]].at \in {"run", "wait"}
    BY <2>1, Zenon DEF IInv, PlaceInv
  <2>4. running_on_core[id] = NoCore /\ id \notin Cores
    BY <2>1, Zenon DEF IInv, ThreadInv, Used
  <2> QED BY <2>1, <2>2, <2>3, <2>4 DEF IInv, TypeOK
<1>b. /\ current_thread[c] \in Tids
      /\ stk[c] = stack_base[current_thread[c]]
      /\ stk[c] # b
      /\ \A d \in Cores : current_thread[d] # id
      /\ \A d \in Cores : pc[d] \in {"save", "release"} => prev[d] # id
      /\ \A d \in Cores : pc[d] \notin SwitchPcs => stk[d] # b
      /\ \A t \in Tids : Used(t) => stack_base[t] # b /\ t # id
  <2>1. current_thread[c] \in Tids /\ stk[c] = stack_base[current_thread[c]]
    BY <1>a, RunningAlone, ZenonT(60)
  <2>2. \A t \in Tids : Used(t) => stack_base[t] # b /\ t # id
    <3>1. StackInv /\ b \in kheap /\ state[id] = "UNUSED"
      BY <1>a, Zenon DEF IInv
    <3> QED BY <3>1, Zenon DEF StackInv, Used
  <2>3. \A d \in Cores : current_thread[d] # id
    BY <2>2 DEF IInv, CoreInv
  <2>4. \A d \in Cores : pc[d] \in {"save", "release"} => prev[d] # id
    BY <1>a, Zenon DEF IInv, SwitchInv
  <2>5. \A d \in Cores : pc[d] \notin SwitchPcs => stk[d] # b
    BY <2>2, StackIndex DEF IInv, CoreInv
  <2> QED BY <1>a, <2>1, <2>2, <2>3, <2>4, <2>5, Zenon
<1>c. /\ \A t \in Tids : state'[t] = IF t = id THEN "ACTIVE" ELSE state[t]
      /\ \A t \in Tids : running_on_core'[t] = running_on_core[t]
      /\ \A t \in Tids : stack_base'[t] = IF t = id THEN b ELSE stack_base[t]
      /\ \A t \in Tids : rsp'[t] = IF t = id THEN "saved" ELSE rsp[t]
      /\ \A t \in Tids : t # id => is_idle'[t] = is_idle[t]
      /\ ~is_idle'[id]
      /\ \A t \in Tids : gen'[t] = IF t = id THEN created + 1 ELSE gen[t]
      /\ \A d \in Cores : pc'[d] = IF d = c THEN "thread" ELSE pc[d]
      /\ \A d \in Cores : d # c => iflag'[d] = iflag[d]
      /\ kheap' = kheap \ {b}
      /\ scheduler_lock' = NoCore
    BY <1>a, ZenonT(60) DEF CreateThread, IInv, TypeOK
<1>u. UNCHANGED <<current_thread, stk, tss_rsp0, prev, zombie_stack, flags, panicked>>
    BY Zenon DEF CreateThread
<1>d. ASSUME NEW s \in Stacks
      PROVE  /\ frame'[s] \in FrameType
             /\ s # b => SamePlace(s)
             /\ s = b => frame'[s].at = "run" /\ frame'[s].gen = created + 1
  <2>1. frame[s] \in FrameType
    BY Zenon DEF IInv, TypeOK, FrameType
  <2>2. CASE s = b
    <3>1. frame'[s] = Frame("run", created + 1)
        BY <2>2, Zenon DEF CreateThread
    <3>2. Frame("run", created + 1) \in FrameType
        BY <1>a, Zenon DEF Frame, FrameType, Places
    <3>3. Frame("run", created + 1).at = "run" /\ Frame("run", created + 1).gen = created + 1
        BY Zenon DEF Frame
    <3> QED BY <2>2, <3>1, <3>2, <3>3, Zenon
  <2>3. CASE s # b
    <3>1. \/ frame'[s] = [frame[s] EXCEPT !.child = id, !.childgen = created + 1]
          \/ frame'[s] = frame[s]
        BY <2>3, Zenon DEF CreateThread
    <3> QED BY <2>1, <2>3, <3>1, <1>a, ZenonT(60) DEF FrameType, SamePlace
  <2> QED BY <2>2, <2>3, Zenon
<1>1. TypeOK'
  <2>1. frame' \in [Stacks -> FrameType]
    BY <1>d, Zenon DEF CreateThread
  <2>2. /\ exit_code_out' \in [Tids -> Stacks \cup {NULL}]
        /\ state' \in [Tids -> {"UNUSED", "ACTIVE", "ZOMBIE"}]
        /\ running_on_core' \in [Tids -> Cores \cup {NoCore}]
        /\ stack_base' \in [Tids -> Blocks \cup {NULL}]
        /\ rsp' \in [Tids -> {"saved", "stale"}]
        /\ is_idle' \in [Tids -> BOOLEAN]
        /\ gen' \in [Tids -> Nat]
    BY <1>a, Zenon DEF CreateThread, IInv, TypeOK
  <2>3. /\ created' \in Nat /\ active_count' \in Int /\ kheap' \subseteq Blocks
        /\ scheduler_lock' \in Cores \cup {NoCore}
    <3>1. created' = created + 1 /\ active_count' = active_count + 1
        BY Zenon DEF CreateThread
    <3>2. created \in Nat /\ active_count \in Int /\ kheap \subseteq Blocks
        BY Zenon DEF IInv, TypeOK
    <3>3. created' \in Nat /\ active_count' \in Int
        BY <3>1, <3>2
    <3> QED BY <3>2, <3>3, <1>c, Zenon
  <2>4. pc' \in [Cores -> {"thread"} \cup LockPcs \cup BodyPcs \cup SwitchPcs]
    BY Zenon DEF CreateThread, IInv, TypeOK
  <2>5. iflag' \in [Cores -> BOOLEAN]
    BY Zenon DEF CreateThread, IInv, TypeOK
  <2> QED BY <2>1, <2>2, <2>3, <2>4, <2>5, <1>c, <1>u, Zenon DEF IInv, TypeOK, FrameType
<1>2. ASSUME NEW d \in Cores PROVE CoreInv(d)'
  <2>1. CoreInv(d)
    BY Zenon DEF IInv
  <2> QED BY <2>1, <1>a, <1>b, <1>c, <1>u, CoreIndex, ZenonT(60) DEF CoreInv, Used
<1>3. ASSUME NEW d \in Cores PROVE SwitchInv(d)'
  <2>1. pc[d] \in SwitchPcs =>
            /\ current_thread[d] \in Tids /\ Used(current_thread[d])
            /\ stack_base[current_thread[d]] \in Stacks
    <3>1. CoreInv(d) /\ \A t \in Tids : ThreadInv(t)
        BY Zenon DEF IInv
    <3> QED BY <3>1, StackIndex, Zenon DEF CoreInv, ThreadInv
  <2>2. pc[d] \in {"save", "release"} =>
            /\ prev[d] \in Tids /\ Used(prev[d])
            /\ stack_base[prev[d]] \in Stacks
    <3>1. SwitchInv(d) /\ \A t \in Tids : ThreadInv(t)
        BY Zenon DEF IInv
    <3> QED BY <3>1, StackIndex, Zenon DEF SwitchInv, ThreadInv, Used
  <2>3. SwitchInv(d)
    BY Zenon DEF IInv
  <2>4. /\ pc[d] \in SwitchPcs => SamePlace(stack_base[current_thread[d]])
        /\ pc[d] \in {"save", "release"} => SamePlace(stack_base[prev[d]])
    BY <2>1, <2>2, <1>b, <1>d, Zenon
  <2>5. /\ pc'[d] \in SwitchPcs => pc'[d] = pc[d] /\ pc[d] \in SwitchPcs
        /\ pc'[d] \in {"save", "release"} => pc'[d] = pc[d]
        /\ pc'[d] = "release" => pc'[d] = pc[d]
    BY <1>c
  <2>6. /\ \A t \in Tids : t # id => /\ state'[t] = state[t] /\ rsp'[t] = rsp[t]
                                    /\ stack_base'[t] = stack_base[t]
                                    /\ running_on_core'[t] = running_on_core[t]
        /\ UNCHANGED <<current_thread, prev>>
        /\ current_thread[d] # id /\ (pc[d] \in {"save", "release"} => prev[d] # id)
    BY <1>b, <1>c, <1>u, Zenon
  <2>7. /\ pc[d] \in SwitchPcs =>
              frame'[stack_base[current_thread[d]]].at = frame[stack_base[current_thread[d]]].at
        /\ pc[d] \in {"save", "release"} =>
              frame'[stack_base[prev[d]]].at = frame[stack_base[prev[d]]].at
    BY <2>4, Zenon DEF SamePlace
  <2> HIDE DEF SwitchPcs
  <2> QED BY <2>1, <2>2, <2>3, <2>5, <2>6, <2>7, Zenon DEF SwitchInv
<1>4. ASSUME NEW d \in Cores PROVE PlaceInv(d)'
  <2>0. PlaceInv(d)
    BY Zenon DEF IInv
  <2>1. stk[d] \in Stacks /\ (pc[d] \notin SwitchPcs => SamePlace(stk[d]))
    BY <1>b, <1>d, Zenon DEF IInv, TypeOK
  <2>2. CASE d = c
    BY <2>0, <2>1, <2>2, <1>a, <1>b, <1>c, <1>u, Zenon DEF PlaceInv, SamePlace, Parked
  <2>3. CASE d # c
    BY <2>0, <2>1, <2>3, <1>b, <1>c, <1>u, ZenonT(60) DEF PlaceInv, SamePlace
  <2> QED BY <2>2, <2>3, Zenon
<1>5. ASSUME NEW d \in Cores PROVE (frame[BootStack(d)].at = "boot")'
    BY <1>d, StackIndex, Zenon DEF IInv, SamePlace
<1>6. ASSUME NEW t \in Tids PROVE ThreadInv(t)'
  <2>1. ThreadInv(t) /\ running_on_core[t] \in Cores \cup {NoCore}
    BY Zenon DEF IInv, TypeOK
  <2>2. CASE t = id
    <3>1. frame'[b].at = "run" /\ frame'[b].gen = created + 1
        BY <1>d, StackIndex, Zenon
    <3> QED BY <2>2, <3>1, <1>a, <1>c, <1>u, ZenonT(60) DEF ThreadInv, Used, Parked
  <2>3. CASE t # id
    <3>1. Used(t) => SamePlace(stack_base[t])
        BY <2>1, <1>b, <1>d, StackIndex, Zenon DEF ThreadInv
    <3>2. /\ state'[t] = state[t] /\ running_on_core'[t] = running_on_core[t]
          /\ stack_base'[t] = stack_base[t] /\ rsp'[t] = rsp[t]
          /\ is_idle'[t] = is_idle[t] /\ gen'[t] = gen[t] /\ UNCHANGED <<current_thread, prev>>
      BY <2>3, <1>c, <1>u, Zenon
    <3>3. \A d \in Cores : pc[d] \in {"save", "release"} => pc'[d] = pc[d]
      BY <1>a, <1>c
    <3>4. Used(t) => /\ frame'[stack_base[t]].at = frame[stack_base[t]].at
                     /\ frame'[stack_base[t]].gen = frame[stack_base[t]].gen
      BY <3>1, Zenon DEF SamePlace
    <3>5. t \in Cores => Used(t)
      <4>1. "ACTIVE" # "UNUSED"
        OBVIOUS
      <4> QED BY <2>1, <4>1, Zenon DEF ThreadInv, Used
    <3>6. Used(t)' <=> Used(t)
      BY <3>2, Zenon DEF Used
    <3> QED BY <2>1, <3>2, <3>3, <3>4, <3>5, <3>6, CoreIndex, Zenon DEF ThreadInv
  <2> QED BY <2>2, <2>3, Zenon
<1>7. StackInv'
  <2>1. \A t \in Tids : Used(t)' <=> Used(t) \/ t = id
    BY <1>c, Zenon DEF Used
  <2>2. \A d \in Cores : pc'[d] = "kfree" <=> pc[d] = "kfree"
    BY <1>a, <1>c, Zenon
  <2>3. StackInv
    BY Zenon DEF IInv
  <2> QED BY <2>1, <2>2, <2>3, <1>a, <1>b, <1>c, <1>u, TakeStack, ZenonT(60) DEF Used
<1> QED BY <1>1, <1>2, <1>3, <1>4, <1>5, <1>6, <1>7, Zenon DEF IInv

(* A step of the code on the stack of core c that writes f there and no other  *)
(* place, on the way to a critical section or not                              *)
Moves(c, f) ==
    /\ pc[c] = "thread"
    /\ frame[stk[c]].at \in {"run", "wait"}
    /\ f.at \in {"run", "wait"} \/ (f.at = "exit_tid" /\ f.core = c /\ ~iflag'[c])
    /\ f.gen = frame[stk[c]].gen
    /\ frame' = [frame EXCEPT ![stk[c]] = f]
    /\ iflag' \in [Cores -> BOOLEAN]
    /\ \A d \in Cores : d # c => iflag'[d] = iflag[d]
    /\ \/ pc' = pc
       \/ /\ pc' = [pc EXCEPT ![c] = "create_lock"]
          /\ f.at # "exit_tid" /\ ~iflag'[c]
    /\ flags' \in [Cores -> BOOLEAN]
    /\ UNCHANGED <<threadVars, current_thread, scheduler_lock, kheap, stk, tss_rsp0,
                   prev, zombie_stack, panicked, created>>

(* Such a step keeps the invariant: no other thread's place is on that stack. *)
LEMMA MoveInv ==
    ASSUME IInv, NEW c \in Cores, NEW f \in FrameType, Moves(c, f)
    PROVE  IInv'
<1> USE DEF LockPcs, BodyPcs, SwitchPcs
<1>m. /\ pc[c] = "thread" /\ frame[stk[c]].at \in {"run", "wait"}
      /\ f.at \in {"run", "wait"} \/ (f.at = "exit_tid" /\ f.core = c /\ ~iflag'[c])
      /\ f.gen = frame[stk[c]].gen
      /\ \A d \in Cores : d # c => iflag'[d] = iflag[d]
      /\ \A d \in Cores : \/ pc'[d] = pc[d]
                          \/ /\ d = c /\ pc'[d] = "create_lock"
                             /\ f.at # "exit_tid" /\ ~iflag'[c]
    BY Zenon DEF Moves, IInv, TypeOK
<1>u. UNCHANGED <<state, running_on_core, stack_base, rsp, is_idle, gen, current_thread,
                  scheduler_lock, kheap, stk, tss_rsp0, prev, zombie_stack, panicked>>
    BY Zenon DEF Moves, threadVars
<1>a. /\ current_thread[c] \in Tids
      /\ stk[c] = stack_base[current_thread[c]]
      /\ Used(current_thread[c])
      /\ running_on_core[current_thread[c]] = c
      /\ current_thread[c] \notin Cores
      /\ state[current_thread[c]] # "ZOMBIE"
  <2>1. CoreInv(c) /\ PlaceInv(c) /\ frame[BootStack(c)].at = "boot"
    BY Zenon DEF IInv
  <2>2. current_thread[c] \in Tids
    BY <2>1, <1>m, Zenon DEF CoreInv
  <2>3. /\ stk[c] = stack_base[current_thread[c]]
        /\ Used(current_thread[c])
        /\ running_on_core[current_thread[c]] = c
    BY <2>1, <2>2, <1>m, Zenon DEF CoreInv
  <2>4. state[current_thread[c]] # "ZOMBIE"
    BY <2>1, <2>2, <1>m, Zenon DEF PlaceInv
  <2>5. ThreadInv(current_thread[c])
    BY <2>2, Zenon DEF IInv
  <2>6. current_thread[c] \notin Cores
    BY <2>3, <2>5, <1>m, Zenon DEF ThreadInv
  <2> QED BY <2>2, <2>3, <2>4, <2>6, Zenon
<1>b. /\ \A s \in Stacks : frame'[s] = IF s = stk[c] THEN f ELSE frame[s]
      /\ stk[c] \in Stacks
      /\ \A d \in Cores : stk[d] \in Stacks
    BY Zenon DEF Moves, IInv, TypeOK
<1>c. /\ \A t \in Tids : Used(t) /\ t # current_thread[c] => stack_base[t] # stk[c]
      /\ \A d \in Cores : d # c => current_thread[d] # current_thread[c]
      /\ \A d \in Cores : BootStack(d) # stk[c]
      /\ \A d \in Cores : d # c /\ pc[d] \notin SwitchPcs => stk[d] # stk[c]
    BY <1>m, RunningAlone, Zenon
<1>1. TypeOK'
  <2>1. frame' \in [Stacks -> FrameType]
    BY Zenon DEF Moves, IInv, TypeOK, FrameType
  <2> QED BY <2>1, ZenonT(60) DEF Moves, IInv, TypeOK, FrameType, threadVars
<1>2. ASSUME NEW d \in Cores PROVE CoreInv(d)'
  <2>1. CoreInv(d)
    BY Zenon DEF IInv
  <2> QED BY <2>1, <1>a, <1>m, <1>u, Zenon DEF CoreInv, Used
<1>3. ASSUME NEW d \in Cores PROVE SwitchInv(d)'
  <2>1. SwitchInv(d) /\ CoreInv(d)
    BY Zenon DEF IInv
  <2>2. pc[d] \in SwitchPcs =>
            /\ current_thread[d] \in Tids /\ Used(current_thread[d])
            /\ d # c
    BY <2>1, <1>m, Zenon DEF CoreInv
  <2>3. pc[d] \in {"save", "release"} =>
            prev[d] \in Tids /\ Used(prev[d]) /\ prev[d] # current_thread[c]
    BY <2>1, <2>2, <1>a, Zenon DEF SwitchInv, Used
  <2>4. \A t \in Tids : Used(t) /\ t # current_thread[c] =>
                          frame'[stack_base[t]] = frame[stack_base[t]]
    BY <1>b, <1>c, StackIndex, Zenon DEF IInv, ThreadInv
  <2>5. pc[d] \in SwitchPcs =>
          frame'[stack_base[current_thread[d]]] = frame[stack_base[current_thread[d]]]
    BY <2>2, <2>4, <1>c, Zenon
  <2>6. pc[d] \in {"save", "release"} =>
          frame'[stack_base[prev[d]]] = frame[stack_base[prev[d]]]
    BY <2>3, <2>4, Zenon
  <2> QED BY <2>1, <2>5, <2>6, <1>m, <1>u, Zenon DEF SwitchInv
<1>4. ASSUME NEW d \in Cores PROVE PlaceInv(d)'
  <2>1. CASE d = c
    BY <2>1, <1>a, <1>b, <1>m, <1>u, Zenon DEF PlaceInv, Parked
  <2>2. CASE d # c
    <3>1. PlaceInv(d) /\ (pc[d] \notin SwitchPcs => frame'[stk[d]] = frame[stk[d]])
        BY <2>2, <1>b, <1>c, Zenon DEF IInv
    <3>2. pc[d] \in SwitchPcs => pc[d] \notin {"thread"} \cup LockPcs \cup BodyPcs
        BY Zenon
    <3> QED BY <2>2, <3>1, <3>2, <1>m, <1>u, Zenon DEF PlaceInv
  <2> QED BY <2>1, <2>2, Zenon
<1>5. ASSUME NEW d \in Cores PROVE (frame[BootStack(d)].at = "boot")'
    BY <1>b, <1>c, StackIndex, Zenon DEF IInv
<1>6. ASSUME NEW t \in Tids PROVE ThreadInv(t)'
  <2>1. ThreadInv(t) /\ running_on_core[t] \in Cores \cup {NoCore}
    BY Zenon DEF IInv, TypeOK
  <2>2. CASE t = current_thread[c]
    BY <2>1, <2>2, <1>a, <1>b, <1>m, <1>u, CoreIndex, ZenonT(60) DEF ThreadInv, Used
  <2>3. CASE t # current_thread[c]
    <3>1. Used(t) => frame'[stack_base[t]] = frame[stack_base[t]]
        BY <2>1, <2>3, <1>b, <1>c, StackIndex, Zenon DEF ThreadInv
    <3>2. t \in Cores => Used(t)
        BY <2>1, Zenon DEF ThreadInv, Used
    <3> QED BY <2>1, <3>1, <3>2, <1>m, <1>u, CoreIndex, Zenon DEF ThreadInv, Used
  <2> QED BY <2>2, <2>3, Zenon
<1>7. StackInv'
  <2>1. \A d \in Cores : pc'[d] = "kfree" <=> pc[d] = "kfree"
    BY <1>m, Zenon
  <2> QED BY <2>1, <1>u, SameStacks, Zenon DEF IInv, Used
<1> QED BY <1>1, <1>2, <1>3, <1>4, <1>5, <1>6, <1>7, Zenon DEF IInv

(* The call of thread_create_ex(): interrupts off, not yet in the lock. *)
LEMMA ThreadCreateInv ==
    ASSUME IInv, NEW c \in Cores, NEW andWait \in BOOLEAN, ThreadCreate(c, andWait)
    PROVE  IInv'
<1> DEFINE f == [frame[stk[c]] EXCEPT !.at = IF andWait THEN "wait" ELSE "run"]
<1>0. frame[stk[c]] \in FrameType
    BY Zenon DEF IInv, TypeOK, FrameType
<1>1. f \in FrameType /\ f.at \in {"run", "wait"} /\ f.gen = frame[stk[c]].gen
    BY <1>0, Zenon DEF FrameType, Places
<1>2. frame' = [frame EXCEPT ![stk[c]] = f]
    BY Zenon DEF ThreadCreate
<1>3. /\ iflag' \in [Cores -> BOOLEAN] /\ ~iflag'[c]
      /\ \A d \in Cores : d # c => iflag'[d] = iflag[d]
      /\ flags' \in [Cores -> BOOLEAN]
    BY Zenon DEF ThreadCreate, IInv, TypeOK
<1>4. /\ pc[c] = "thread" /\ frame[stk[c]].at \in {"run", "wait"}
      /\ pc' = [pc EXCEPT ![c] = "create_lock"]
      /\ f.at # "exit_tid"
    BY <1>1, Zenon DEF ThreadCreate, AtThread
<1>5. UNCHANGED <<threadVars, current_thread, scheduler_lock, kheap, stk, tss_rsp0,
                  prev, zombie_stack, panicked, created>>
    BY Zenon DEF ThreadCreate
<1> HIDE DEF f
<1> QED BY <1>1, <1>2, <1>3, <1>4, <1>5, MoveInv, Zenon DEF Moves

(* The end of the wait in process_spawn_args_and_wait(). *)
LEMMA WaitDoneInv ==
    ASSUME IInv, NEW c \in Cores, WaitDone(c)
    PROVE  IInv'
<1> DEFINE f == Frame("run", frame[stk[c]].gen)
<1>1. f \in FrameType /\ f.at \in {"run", "wait"} /\ f.gen = frame[stk[c]].gen
    BY Zenon DEF IInv, TypeOK, FrameType, Places, Frame
<1>2. frame' = [frame EXCEPT ![stk[c]] = f]
    BY Zenon DEF WaitDone, IInv, TypeOK
<1>3. /\ iflag' \in [Cores -> BOOLEAN]
      /\ \A d \in Cores : d # c => iflag'[d] = iflag[d]
      /\ flags' \in [Cores -> BOOLEAN]
    BY Zenon DEF WaitDone, IInv, TypeOK
<1>4. pc[c] = "thread" /\ frame[stk[c]].at \in {"run", "wait"} /\ pc' = pc
    BY Zenon DEF WaitDone, AtThread
<1>5. UNCHANGED <<threadVars, current_thread, scheduler_lock, kheap, stk, tss_rsp0,
                  prev, zombie_stack, panicked, created>>
    BY Zenon DEF WaitDone
<1> HIDE DEF f
<1> QED BY <1>1, <1>2, <1>3, <1>4, <1>5, MoveInv, Zenon DEF Moves

(* SYS_EXIT or a fault: thread_exit_code() is entered with interrupts off. *)
LEMMA ExitThroughGateInv ==
    ASSUME IInv, NEW c \in Cores, ExitThroughGate(c)
    PROVE  IInv'
<1> DEFINE f == [frame[stk[c]] EXCEPT !.at = "exit_tid", !.core = c]
<1>0. frame[stk[c]] \in FrameType
    BY Zenon DEF IInv, TypeOK, FrameType
<1>1. f \in FrameType /\ f.at = "exit_tid" /\ f.core = c /\ f.gen = frame[stk[c]].gen
    BY <1>0, Zenon DEF FrameType, Places
<1>2. frame' = [frame EXCEPT ![stk[c]] = f]
    BY Zenon DEF ExitThroughGate, IInv, TypeOK
<1>3. /\ iflag' \in [Cores -> BOOLEAN] /\ ~iflag'[c]
      /\ \A d \in Cores : d # c => iflag'[d] = iflag[d]
      /\ flags' \in [Cores -> BOOLEAN]
    BY Zenon DEF ExitThroughGate, IInv, TypeOK
<1> HIDE DEF f
<1>4. /\ pc[c] = "thread" /\ frame[stk[c]].at \in {"run", "wait"} /\ pc' = pc
      /\ UNCHANGED <<threadVars, current_thread, scheduler_lock, kheap, stk, tss_rsp0,
                     prev, zombie_stack, panicked, created>>
    BY Zenon DEF ExitThroughGate, AtThread
<1>5. Moves(c, f)
    BY <1>1, <1>2, <1>3, <1>4, Zenon DEF Moves
<1> QED BY <1>1, <1>5, MoveInv, Zenon

--------------------------------------------------------------------------------
(* The steps of thread_exit_code() *)

(* The exiting thread becomes a zombie while it is its core's current thread. *)
LEMMA ExitZombieInv ==
    ASSUME IInv, ~panicked, NEW c \in Cores, ExitZombie(c)
    PROVE  IInv'
<1> DEFINE tid == current_thread[c]
<1> USE DEF Release, LockPcs, BodyPcs, SwitchPcs
<1>a. /\ pc[c] = "exit_body" /\ scheduler_lock = c /\ ~iflag[c]
      /\ frame[stk[c]].at = "exit_cli" /\ frame[stk[c]].tid = tid
    BY Zenon DEF ExitZombie, IInv, CoreInv, PlaceInv
<1>b. /\ tid \in Tids
      /\ stk[c] = stack_base[tid]
      /\ Used(tid)
      /\ running_on_core[tid] = c
      /\ \A t \in Tids : Used(t) /\ t # tid => stack_base[t] # stk[c]
      /\ \A d \in Cores : d # c => current_thread[d] # tid
      /\ \A d \in Cores : d # c /\ pc[d] \notin SwitchPcs => stk[d] # stk[c]
      /\ \A d \in Cores : BootStack(d) # stk[c]
    BY <1>a, RunningAlone, Zenon
<1>c. /\ \A t \in Tids : state'[t] = IF t = tid THEN "ZOMBIE" ELSE state[t]
      /\ \A t \in Tids : Used(t)' <=> Used(t)
      /\ \A d \in Cores : pc'[d] = IF d = c THEN "sched_lock" ELSE pc[d]
      /\ scheduler_lock' = NoCore
    BY <1>a, <1>b, Zenon DEF ExitZombie, IInv, TypeOK, Used
<1>u. UNCHANGED <<running_on_core, stack_base, rsp, is_idle, gen, current_thread, kheap,
                  iflag, stk, tss_rsp0, prev, zombie_stack, panicked>>
    BY Zenon DEF ExitZombie
<1>d. ASSUME NEW s \in Stacks
      PROVE  /\ frame'[s] \in FrameType
             /\ s # stk[c] => SamePlace(s)
             /\ s = stk[c] => frame'[s].at = "exit_loop" /\ frame'[s].gen = frame[s].gen
  <2>1. frame[s] \in FrameType
    BY Zenon DEF IInv, TypeOK, FrameType
  <2>2. frame'[s] = IF s = stk[c] THEN [frame[s] EXCEPT !.isr = FALSE, !.at = "exit_loop"]
                    ELSE frame[s]
    BY Zenon DEF ExitZombie, IInv, TypeOK
  <2>3. CASE s = stk[c]
    <3> DEFINE g == [frame[s] EXCEPT !.isr = FALSE]
               h == [g EXCEPT !.at = "exit_loop"]
    <3>1. g \in FrameType /\ g.gen = frame[s].gen
        BY <2>1, Zenon DEF FrameType
    <3>2. frame'[s] = h
        BY <2>2, <2>3, Zenon
    <3> HIDE DEF g
    <3>3. h \in FrameType /\ h.at = "exit_loop" /\ h.gen = g.gen
        BY <3>1, Zenon DEF FrameType, Places
    <3> HIDE DEF h
    <3> QED BY <2>3, <3>1, <3>2, <3>3, Zenon
  <2>4. CASE s # stk[c]
    BY <2>1, <2>2, <2>4, Zenon DEF SamePlace
  <2> QED BY <2>3, <2>4, Zenon
<1>e. tid \notin Cores
    BY <1>a, <1>b, Zenon DEF IInv, ThreadInv
<1>1. TypeOK'
  <2>1. frame' \in [Stacks -> FrameType]
    BY <1>d, Zenon DEF ExitZombie, IInv, TypeOK
  <2> QED BY <1>a, <1>b, <2>1, Zenon DEF ExitZombie, IInv, TypeOK, FrameType
<1>2. ASSUME NEW d \in Cores PROVE CoreInv(d)'
  <2>1. CoreInv(d)
    BY Zenon DEF IInv
  <2> QED BY <2>1, <1>a, <1>b, <1>c, <1>u, CoreIndex, Zenon DEF CoreInv
<1>3. ASSUME NEW d \in Cores PROVE SwitchInv(d)'
  <2>1. pc[d] \in SwitchPcs =>
            /\ current_thread[d] \in Tids /\ Used(current_thread[d]) /\ d # c
            /\ stack_base[current_thread[d]] \in Stacks
    <3>1. CoreInv(d) /\ \A t \in Tids : ThreadInv(t)
        BY Zenon DEF IInv
    <3> QED BY <1>a, <3>1, StackIndex, Zenon DEF CoreInv, ThreadInv
  <2>2. pc[d] \in {"save", "release"} =>
            /\ prev[d] \in Tids /\ Used(prev[d]) /\ prev[d] # tid
            /\ stack_base[prev[d]] \in Stacks
    <3>1. SwitchInv(d) /\ \A t \in Tids : ThreadInv(t)
        BY ZenonT(60) DEF IInv
    <3>2. pc[d] \in {"save", "release"} =>
              prev[d] \in Tids /\ Used(prev[d]) /\ running_on_core[prev[d]] = d /\ d # c
        BY <1>a, <3>1 DEF SwitchInv, Used
    <3>3. \A t \in Tids : Used(t) => stack_base[t] \in Stacks
        BY <3>1, StackIndex, Zenon DEF ThreadInv
    <3> QED BY <1>b, <3>2, <3>3, Zenon
  <2>3. SwitchInv(d)
    BY Zenon DEF IInv
  <2>4. /\ pc[d] \in SwitchPcs => SamePlace(stack_base[current_thread[d]])
        /\ pc[d] \in {"save", "release"} => SamePlace(stack_base[prev[d]])
    BY <2>1, <2>2, <1>b, <1>d, Zenon
  <2> QED BY <2>1, <2>2, <2>3, <2>4, <1>b, <1>c, <1>u, Zenon DEF SwitchInv, SamePlace
<1>4. ASSUME NEW d \in Cores PROVE PlaceInv(d)'
  <2>1. stk[d] \in Stacks
    BY Zenon DEF IInv, TypeOK
  <2>2. CASE d = c
    BY <2>1, <2>2, <1>a, <1>b, <1>c, <1>u, <1>d, Zenon DEF PlaceInv
  <2>3. CASE d # c
    <3>1. PlaceInv(d)
        BY Zenon DEF IInv
    <3>2. pc[d] \notin SwitchPcs => SamePlace(stk[d])
        BY <2>1, <2>3, <1>b, <1>d, Zenon
    <3>3. /\ pc'[d] = pc[d] /\ stk'[d] = stk[d] /\ iflag'[d] = iflag[d]
          /\ current_thread'[d] = current_thread[d]
          /\ current_thread[d] \in Tids => state'[current_thread[d]] = state[current_thread[d]]
        BY <2>3, <1>b, <1>c, <1>u, Zenon
    <3> QED BY <3>1, <3>2, <3>3, SamePlaceInv, Zenon
  <2> QED BY <2>2, <2>3, Zenon
<1>5. ASSUME NEW d \in Cores PROVE (frame[BootStack(d)].at = "boot")'
    BY <1>b, <1>d, StackIndex, Zenon DEF IInv, SamePlace
<1>6. ASSUME NEW t \in Tids PROVE ThreadInv(t)'
  <2>1. ThreadInv(t) /\ running_on_core[t] \in Cores \cup {NoCore}
    BY Zenon DEF IInv, TypeOK
  <2>2. CASE t = tid
    BY <2>1, <2>2, <1>b, <1>c, <1>u, <1>d, <1>e, CoreIndex, StackIndex, ZenonT(60) DEF ThreadInv
  <2>3. CASE t # tid
    <3>1. Used(t) => SamePlace(stack_base[t])
        BY <2>1, <2>3, <1>b, <1>d, StackIndex, Zenon DEF ThreadInv
    <3>2. t \in Cores => Used(t)
        BY <2>1, Zenon DEF ThreadInv, Used
    <3> QED BY <2>1, <2>3, <3>1, <3>2, <1>a, <1>c, <1>u, Zenon DEF ThreadInv, SamePlace
  <2> QED BY <2>2, <2>3, Zenon
<1>7. StackInv'
  <2>1. \A d \in Cores : pc'[d] = "kfree" <=> pc[d] = "kfree"
    BY <1>a, <1>c, Zenon
  <2> QED BY <2>1, <1>c, <1>u, SameStacks, Zenon DEF IInv
<1> QED BY <1>1, <1>2, <1>3, <1>4, <1>5, <1>6, <1>7, Zenon DEF IInv

(* irq_save_disable() of thread_exit_code(), from the core it started on. *)
LEMMA ExitIrqOffInv ==
    ASSUME IInv, NEW c \in Cores, ExitIrqOff(c)
    PROVE  IInv'
<1> USE DEF ExitIrqOff, AtThread, threadVars, LockPcs, BodyPcs, SwitchPcs
<1>0. current_thread[c] \in Tids
    BY Zenon DEF IInv, CoreInv
<1>1. TypeOK'
    BY Zenon DEF IInv, TypeOK
<1>2. ASSUME NEW d \in Cores PROVE CoreInv(d)'
    BY <1>0 DEF IInv, TypeOK, CoreInv, Used
<1>3. ASSUME NEW d \in Cores PROVE SwitchInv(d)'
    BY SMTT(60) DEF IInv, TypeOK, SwitchInv
<1>4. ASSUME NEW d \in Cores PROVE PlaceInv(d)'
    BY DEF IInv, TypeOK, PlaceInv
<1>5. ASSUME NEW d \in Cores PROVE (frame[BootStack(d)].at = "boot")'
    BY Zenon DEF IInv
<1>6. ASSUME NEW t \in Tids PROVE ThreadInv(t)'
    BY DEF IInv, TypeOK, ThreadInv, Used
<1>7. StackInv'
  <2>1. \A d \in Cores : pc'[d] = "kfree" <=> pc[d] = "kfree"
    BY Zenon DEF IInv, TypeOK
  <2> QED BY <2>1, SameStacks, Zenon DEF IInv, Used
<1> QED BY <1>1, <1>2, <1>3, <1>4, <1>5, <1>6, <1>7, Zenon DEF IInv

(* Delivering the exit code changes the waiter's frame, in no field the        *)
(* invariant looks at.                                                         *)
LEMMA ExitDeliverInv ==
    ASSUME IInv, NEW c \in Cores, ExitDeliver(c)
    PROVE  IInv'
<1> DEFINE tid == current_thread[frame[stk[c]].core]
<1> USE DEF threadVars, coreVars, LockPcs, BodyPcs, SwitchPcs
<1>a. /\ pc[c] = "thread" /\ frame[stk[c]].at = "exit_tid" /\ frame[stk[c]].core = c
      /\ ~iflag[c]
    BY Zenon DEF ExitDeliver, AtThread, IInv, PlaceInv
<1>t. tid = current_thread[c]
    BY <1>a, Zenon
<1>b. /\ tid \in Tids
      /\ stk[c] = stack_base[tid]
      /\ Used(tid)
      /\ running_on_core[tid] = c
      /\ \A t \in Tids : Used(t) /\ t # tid => stack_base[t] # stk[c]
      /\ \A d \in Cores : d # c => current_thread[d] # tid
      /\ \A d \in Cores : d # c /\ pc[d] \notin SwitchPcs => stk[d] # stk[c]
      /\ \A d \in Cores : BootStack(d) # stk[c]
  <2> HIDE DEF tid
  <2> QED BY <1>a, <1>t, RunningAlone, Zenon
<1>n. ~(tid < 0)
    BY <1>b, ThreadIndex, Zenon
<1>c. UNCHANGED <<threadVars, current_thread, scheduler_lock, kheap, coreVars,
                  panicked, created>>
    BY <1>n, Zenon DEF ExitDeliver
<1>f. frame' = [s \in Stacks |->
                  IF s = stk[c] THEN [frame[s] EXCEPT !.tid = tid, !.at = "exit_cli"]
                  ELSE IF s = exit_code_out[tid]
                       THEN [frame[s] EXCEPT !.exit_code = frame[stk[c]].gen]
                       ELSE frame[s]]
    BY <1>n, Zenon DEF ExitDeliver
<1> HIDE DEF tid
<1>d. ASSUME NEW s \in Stacks
      PROVE  /\ frame'[s] \in FrameType
             /\ s # stk[c] => SamePlace(s)
             /\ s = stk[c] => /\ frame'[s].at = "exit_cli" /\ frame'[s].tid = tid
                              /\ frame'[s].gen = frame[s].gen
  <2>1. frame[s] \in FrameType /\ frame[stk[c]] \in FrameType
    BY Zenon DEF IInv, TypeOK, FrameType
  <2>2. CASE s = stk[c]
    <3>1. frame'[s] = [frame[s] EXCEPT !.tid = tid, !.at = "exit_cli"]
        BY <2>2, <1>f, Zenon
    <3> QED BY <2>1, <2>2, <3>1, <1>b, Zenon DEF FrameType, Places
  <2>3. CASE s # stk[c]
    <3>1. \/ frame'[s] = [frame[s] EXCEPT !.exit_code = frame[stk[c]].gen]
          \/ frame'[s] = frame[s]
        BY <2>3, <1>f, ZenonT(60)
    <3> QED BY <2>1, <2>3, <3>1, Zenon DEF FrameType, SamePlace
  <2> QED BY <2>2, <2>3, Zenon
<1>e. tid \notin Cores /\ state[tid] # "ZOMBIE"
    BY <1>a, <1>b, <1>t DEF IInv, ThreadInv, PlaceInv
<1>1. TypeOK'
  <2>1. frame' \in [Stacks -> FrameType]
    BY <1>d, <1>f, Zenon
  <2> QED BY <1>c, <2>1, Zenon DEF IInv, TypeOK, FrameType
<1>2. ASSUME NEW d \in Cores PROVE CoreInv(d)'
  <2>1. CoreInv(d)
    BY Zenon DEF IInv
  <2> QED BY <2>1, <1>c, Zenon DEF CoreInv, Used
<1>3. ASSUME NEW d \in Cores PROVE SwitchInv(d)'
  <2>1. pc[d] \in SwitchPcs =>
            /\ current_thread[d] \in Tids /\ Used(current_thread[d]) /\ d # c
            /\ stack_base[current_thread[d]] \in Stacks
    <3>1. CoreInv(d) /\ \A t \in Tids : ThreadInv(t)
        BY Zenon DEF IInv
    <3> QED BY <1>a, <3>1, StackIndex, Zenon DEF CoreInv, ThreadInv
  <2>2. pc[d] \in {"save", "release"} =>
            /\ prev[d] \in Tids /\ Used(prev[d]) /\ prev[d] # tid
            /\ stack_base[prev[d]] \in Stacks
    <3>1. SwitchInv(d) /\ \A t \in Tids : ThreadInv(t)
        BY Zenon DEF IInv
    <3> QED BY <1>b, <2>1, <3>1, StackIndex, Zenon DEF SwitchInv, ThreadInv, Used
  <2>3. SwitchInv(d)
    BY Zenon DEF IInv
  <2>4. /\ pc[d] \in SwitchPcs => SamePlace(stack_base[current_thread[d]])
        /\ pc[d] \in {"save", "release"} => SamePlace(stack_base[prev[d]])
    BY <2>1, <2>2, <1>b, <1>d, Zenon
  <2> QED BY <2>1, <2>2, <2>3, <2>4, <1>b, <1>c, Zenon DEF SwitchInv, SamePlace
<1>4. ASSUME NEW d \in Cores PROVE PlaceInv(d)'
  <2>1. stk[d] \in Stacks
    BY Zenon DEF IInv, TypeOK
  <2>2. CASE d = c
    BY <2>1, <2>2, <1>a, <1>c, <1>d, <1>e, <1>t, Zenon DEF PlaceInv, Parked
  <2>3. CASE d # c
    <3>1. PlaceInv(d)
        BY Zenon DEF IInv
    <3>2. pc[d] \notin SwitchPcs => SamePlace(stk[d])
        BY <2>1, <2>3, <1>b, <1>d, Zenon
    <3> QED BY <2>3, <3>1, <3>2, <1>c, Zenon DEF PlaceInv, SamePlace
  <2> QED BY <2>2, <2>3, Zenon
<1>5. ASSUME NEW d \in Cores PROVE (frame[BootStack(d)].at = "boot")'
    BY <1>b, <1>d, StackIndex, Zenon DEF IInv, SamePlace
<1>6. ASSUME NEW t \in Tids PROVE ThreadInv(t)'
  <2>1. ThreadInv(t)
    BY Zenon DEF IInv
  <2>2. CASE t = tid
    BY <2>1, <2>2, <1>b, <1>c, <1>d, <1>e, CoreIndex, StackIndex, Zenon DEF ThreadInv, Used
  <2>3. CASE t # tid
    <3>1. Used(t) => SamePlace(stack_base[t])
        BY <2>1, <2>3, <1>b, <1>d, StackIndex, Zenon DEF ThreadInv
    <3>2. t \in Cores => Used(t)
        BY <2>1, Zenon DEF ThreadInv, Used
    <3> QED BY <2>1, <3>1, <3>2, <1>c, Zenon DEF ThreadInv, Used, SamePlace
  <2> QED BY <2>2, <2>3, Zenon
<1>7. StackInv'
    BY <1>c, SameStacks, Zenon DEF IInv, Used
<1> QED BY <1>1, <1>2, <1>3, <1>4, <1>5, <1>6, <1>7, Zenon DEF IInv

--------------------------------------------------------------------------------
(* The invariant holds of the initial state and of every behaviour *)

(* The state kmain() leaves to the scheduler satisfies the invariant. *)
LEMMA InitInv == Init => IInv
<1> SUFFICES ASSUME Init PROVE IInv
    BY Zenon
<1> DEFINE n == NumCores + BootThreads
<1> USE DEF LockPcs, BodyPcs, SwitchPcs
<1>a. /\ n \in Nat /\ NumCores \in Nat /\ 1 .. n \subseteq Blocks
      /\ \A t \in Tids : t \in Nat /\ (t < NumCores <=> t \in Cores)
                           /\ (t \in Cores => t < n) /\ (t < n => t + 1 \in Blocks)
      /\ \A s \in Stacks : s \in Int /\ (s < 0 <=> s \notin Blocks)
      /\ \A b \in Blocks : b \in Nat /\ b > 0
    BY SchedulerAssumption DEF Tids, Cores, Blocks, Stacks, BootStack
<1>b. \A at \in Places, g \in Nat : Frame(at, g) \in FrameType
                                     /\ Frame(at, g).at = at /\ Frame(at, g).gen = g
    BY Zenon DEF Frame, FrameType, Places
<1>c. ASSUME NEW s \in Stacks
      PROVE  /\ frame[s] \in FrameType
             /\ s \notin Blocks => frame[s].at = "boot"
             /\ s \in Blocks => frame[s].at \in {"idle", "run"}
             /\ s \in Blocks /\ s <= n => frame[s].gen = s
             /\ s \in Blocks /\ s <= NumCores => frame[s].at = "idle"
  <2>1. frame[s] = IF s < 0 THEN Frame("boot", 0)
                   ELSE IF s <= NumCores THEN Frame("idle", s)
                   ELSE IF s <= n THEN Frame("run", s) ELSE Frame("run", 0)
    BY Zenon DEF Init
  <2>2. {"boot", "idle", "run"} \subseteq Places
    BY Zenon DEF Places
  <2> QED BY <2>1, <2>2, <1>a, <1>b
<1>1. TypeOK
  <2>1. frame \in [Stacks -> FrameType]
    BY <1>c, Zenon DEF Init
  <2>2. /\ stack_base \in [Tids -> Blocks \cup {NULL}]
        /\ gen \in [Tids -> Nat]
        /\ kheap \subseteq Blocks
        /\ stk \in [Cores -> Stacks]
    BY <1>a, StackIndex, Zenon DEF Init
  <2>3. is_idle \in [Tids -> BOOLEAN] /\ iflag \in [Cores -> BOOLEAN]
    BY DEF Init
  <2>4. /\ state \in [Tids -> {"UNUSED", "ACTIVE", "ZOMBIE"}]
        /\ rsp \in [Tids -> {"saved", "stale"}]
        /\ created \in Nat /\ active_count \in Int
    BY <1>a DEF Init
  <2> QED BY <2>1, <2>2, <2>3, <2>4, Zenon DEF Init, TypeOK, FrameType
<1>2. ASSUME NEW c \in Cores PROVE CoreInv(c) /\ SwitchInv(c)
    BY ThreadIndex, CoreIndex, Zenon DEF Init, CoreInv, SwitchInv
<1>3. ASSUME NEW c \in Cores PROVE PlaceInv(c) /\ frame[BootStack(c)].at = "boot"
    BY <1>c, StackIndex, ThreadIndex, Zenon DEF Init, PlaceInv
<1>4. ASSUME NEW t \in Tids PROVE ThreadInv(t)
  <2>1. t < n => /\ stack_base[t] = t + 1 /\ t + 1 \in Blocks /\ t + 1 \in Stacks
                 /\ t + 1 <= n /\ (t \in Cores => t + 1 <= NumCores)
    BY <1>a, StackIndex DEF Init
  <2>2. Used(t) <=> t < n
    BY Zenon DEF Init, Used
  <2> QED BY <2>1, <2>2, <1>a, <1>c, Zenon DEF Init, ThreadInv, Used, Parked
<1>5. StackInv
  <2>1. \A t \in Tids : (Used(t) <=> t < n) /\ (t < n => stack_base[t] = t + 1)
    BY Zenon DEF Init, Used
  <2>2. \A b \in Blocks : b <= n => b - 1 \in Tids /\ b - 1 < n
    BY SchedulerAssumption DEF Blocks, Tids
  <2>3. \A c \in Cores : pc[c] # "kfree"
    BY Zenon DEF Init
  <2>4. \A b \in Blocks : b \in kheap <=> ~(b <= n)
    BY <1>a DEF Init
  <2>5. \A b \in Blocks : b \in kheap \/ \E t \in Tids : Used(t) /\ stack_base[t] = b
    <3> SUFFICES ASSUME NEW b \in Blocks, b <= n
                 PROVE  \E t \in Tids : Used(t) /\ stack_base[t] = b
        BY <2>4, Zenon
    <3>1. b - 1 \in Tids /\ Used(b - 1) /\ stack_base[b - 1] = b
        BY <2>1, <2>2, <1>a
    <3> QED BY <3>1, Zenon
  <2> QED BY <2>1, <2>3, <2>4, <2>5, <1>a DEF StackInv
<1> QED BY <1>1, <1>2, <1>3, <1>4, <1>5, Zenon DEF IInv

(* Every step of every core keeps the invariant, by the lemma of its action. *)
LEMMA NextInv == IInv /\ [Next]_vars => IInv'
<1> SUFFICES ASSUME IInv, [Next]_vars PROVE IInv'
    BY Zenon
<1>1. CASE UNCHANGED vars
  <2> USE <1>1 DEF vars, threadVars, coreVars
  <2>1. TypeOK'
    BY ZenonT(60) DEF IInv, TypeOK
  <2>2. ASSUME NEW c \in Cores PROVE CoreInv(c)' /\ SwitchInv(c)' /\ PlaceInv(c)'
    <3>1. CoreInv(c)'
      BY Zenon DEF IInv, CoreInv, Used
    <3>2. SwitchInv(c)'
      BY Zenon DEF IInv, SwitchInv
    <3>3. PlaceInv(c)'
      BY Zenon DEF IInv, PlaceInv
    <3> QED BY <3>1, <3>2, <3>3
  <2>3. ASSUME NEW t \in Tids PROVE ThreadInv(t)'
    BY Zenon DEF IInv, ThreadInv, Used
  <2>4. StackInv'
    BY SameStacks, Zenon DEF IInv, Used
  <2> QED BY <2>1, <2>2, <2>3, <2>4, Zenon DEF IInv
<1>2. ASSUME ~panicked, NEW c \in Cores, CoreStep(c) PROVE IInv'
  <2>1. CASE TimerInterrupt(c)      BY <2>1, TimerInterruptInv, Zenon
  <2>2. CASE ScheduleLock(c)        BY <1>2, <2>2, AcquireInv DEF ScheduleLock
  <2>3. CASE ScheduleReturn(c)      BY <1>2, <2>3, ScheduleReturnInv, Zenon
  <2>4. CASE \E next \in Tids : ScheduleSwitch(c, next)
                                    BY <1>2, <2>4, ScheduleSwitchInv, Zenon
  <2>5. CASE FreeZombieStack(c)     BY <2>5, FreeZombieStackInv, Zenon
  <2>6. CASE SwitchDiscard(c)       BY <2>6, SwitchDiscardInv, Zenon
  <2>7. CASE SwitchCorrupted(c)     BY <2>7, PanicInv, Zenon DEF SwitchCorrupted
  <2>8. CASE SwitchSave(c)          BY <2>8, SwitchSaveInv, Zenon
  <2>9. CASE SwitchRelease(c)       BY <2>9, SwitchReleaseInv, Zenon
  <2>10. CASE SchedulerStart(c)     BY <2>10, SchedulerStartInv, Zenon
  <2>11. CASE StartLock(c)          BY <1>2, <2>11, AcquireInv DEF StartLock
  <2>12. CASE \E first \in Tids : StartSwitch(c, first)
                                    BY <1>2, <2>12, StartSwitchInv, Zenon
  <2>13. CASE \E andWait \in BOOLEAN : ThreadCreate(c, andWait)
                                    BY <2>13, ThreadCreateInv, Zenon
  <2>14. CASE CreateLock(c)         BY <1>2, <2>14, AcquireInv DEF CreateLock
  <2>15. CASE \E id \in Tids, b \in Blocks : CreateThread(c, id, b)
                                    BY <1>2, <2>15, CreateThreadInv, Zenon
  <2>16. CASE CreateFails(c)        BY <2>16, PanicInv, Zenon DEF CreateFails, Release
  <2>17. CASE WaitAlive(c)          BY <2>17, WaitAliveInv, Zenon
  <2>18. CASE WaitDone(c)           BY <2>18, WaitDoneInv, Zenon
  <2>19. CASE ExitThroughGate(c)    BY <2>19, ExitThroughGateInv, Zenon
  <2>20. CASE ExitDeliver(c)        BY <2>20, ExitDeliverInv, Zenon
  <2>21. CASE ExitIrqOff(c)         BY <2>21, ExitIrqOffInv, Zenon
  <2>22. CASE ExitLock(c)           BY <1>2, <2>22, AcquireInv DEF ExitLock
  <2>23. CASE ExitZombie(c)         BY <1>2, <2>23, ExitZombieInv, Zenon
  <2> QED BY <1>2, <2>1, <2>2, <2>3, <2>4, <2>5, <2>6, <2>7, <2>8, <2>9, <2>10, <2>11,
             <2>12, <2>13, <2>14, <2>15, <2>16, <2>17, <2>18, <2>19, <2>20, <2>21,
             <2>22, <2>23, Zenon DEF CoreStep
<1> QED BY <1>1, <1>2, Zenon DEF Next, Halted

(* The invariant holds in every state of every run of the scheduler whose      *)
(* threads exit through SYS_EXIT or a fault.                                   *)
THEOREM Invariant == Spec => []IInv
    BY InitInv, NextInv, PTL DEF Spec

(* Every variable keeps its type: no slot, stack or core index that schedule() *)
(* or thread_exit_code() computes is ever out of range.                        *)
THEOREM TypeCorrect == Spec => []TypeOK
<1>1. IInv => TypeOK
    BY Zenon DEF IInv
<1> QED BY <1>1, Invariant, PTL

(* On any number of cores, no thread is ever the current thread of two. *)
THEOREM MutualExclusion == Spec => []OneCorePerThread
<1>1. IInv => OneCorePerThread
  <2> SUFFICES ASSUME IInv, NEW c \in Cores, NEW d \in Cores, c # d,
                      current_thread[c] >= 0
               PROVE  current_thread[c] # current_thread[d]
    BY Zenon DEF OneCorePerThread
  <2>1. current_thread[c] \in Tids
    BY ThreadIndex, ZenonT(60) DEF IInv, TypeOK
  <2> QED BY <2>1 DEF IInv, CoreInv
<1> QED BY <1>1, Invariant, PTL

(* No thread is resumed, or offered to another core, before the context switch *)
(* that left it has stored its stack pointer.                                  *)
THEOREM ContextSaved == Spec => []ResumesSavedContext
<1>1. IInv => ResumesSavedContext
    BY CoreIndex, SMTT(60) DEF IInv, TypeOK, ResumesSavedContext, Ready, ThreadInv, SwitchInv, Used
<1> QED BY <1>1, Invariant, PTL

(* Thread code always runs on its thread's own kernel stack, to which the TSS  *)
(* of its core points as well.                                                 *)
THEOREM OwnStack == Spec => []OnOwnStack
<1>1. IInv => OnOwnStack
  <2> SUFFICES ASSUME IInv, NEW c \in Cores, pc[c] = "thread", current_thread[c] >= 0
               PROVE  /\ stk[c] = stack_base[current_thread[c]]
                      /\ tss_rsp0[c] = stk[c]
                      /\ frame[stk[c]].gen = gen[current_thread[c]]
    BY Zenon DEF OnOwnStack
  <2>1. current_thread[c] \in Tids
    BY ThreadIndex, Zenon DEF IInv, TypeOK
  <2>2. stk[c] = stack_base[current_thread[c]] /\ tss_rsp0[c] = stk[c]
           /\ Used(current_thread[c])
    BY <2>1 DEF IInv, CoreInv, SwitchPcs
  <2> QED BY <2>1, <2>2 DEF IInv, ThreadInv
<1> QED BY <1>1, Invariant, PTL

(* No stack block is leaked or freed twice, or owned by two threads. *)
THEOREM StacksConserved == Spec => []StackConservation
<1>1. IInv => StackConservation
  <2> SUFFICES ASSUME IInv, NEW b \in Blocks
               PROVE  LET owners == {t \in Tids : state[t] # "UNUSED" /\ stack_base[t] = b}
                          dying  == {c \in Cores : pc[c] = "kfree" /\ zombie_stack[c] = b}
                      IN  \/ b \in kheap /\ owners = {} /\ dying = {}
                          \/ b \notin kheap /\ owners = {} /\ \E c \in Cores : dying = {c}
                          \/ b \notin kheap /\ dying = {} /\ \E t \in Tids : owners = {t}
    BY Zenon DEF StackConservation
  <2>1. CASE b \in kheap
    BY <2>1 DEF IInv, StackInv, Used
  <2>2. ASSUME NEW t \in Tids, Used(t), stack_base[t] = b PROVE
            /\ b \notin kheap
            /\ {u \in Tids : state[u] # "UNUSED" /\ stack_base[u] = b} = {t}
            /\ {c \in Cores : pc[c] = "kfree" /\ zombie_stack[c] = b} = {}
    BY <2>2 DEF IInv, StackInv, Used
  <2>3. ASSUME NEW c \in Cores, pc[c] = "kfree", zombie_stack[c] = b PROVE
            /\ b \notin kheap
            /\ {u \in Tids : state[u] # "UNUSED" /\ stack_base[u] = b} = {}
            /\ {d \in Cores : pc[d] = "kfree" /\ zombie_stack[d] = b} = {c}
    BY <2>3 DEF IInv, StackInv, Used
  <2> QED BY <2>1, <2>2, <2>3, Zenon DEF IInv, StackInv
<1> QED BY <1>1, Invariant, PTL

(* A zombie is in the loop at the end of thread_exit_code(). *)
LEMMA ZombieInLoop ==
    ASSUME IInv, NEW t \in Tids, state[t] = "ZOMBIE"
    PROVE  /\ frame[stack_base[t]].at = "exit_loop"
           /\ \E c \in Cores : current_thread[c] = t /\ pc[c] \in {"sched_lock", "sched_body"}
<1>1. running_on_core[t] \in Cores
    BY SMTT(60) DEF IInv, TypeOK, ThreadInv, Used
<1>2. PICK c \in Cores : running_on_core[t] = c
    BY <1>1, Zenon
<1>0. TypeOK /\ CoreInv(c) /\ SwitchInv(c) /\ PlaceInv(c) /\ ThreadInv(t)
    BY Zenon DEF IInv
<1>3. current_thread[c] = t
  <2>1. t = current_thread[c] \/ (pc[c] \in {"save", "release"} /\ t = prev[c])
    BY <1>0, <1>2, CoreIndex, Zenon DEF ThreadInv
  <2>2. pc[c] \in {"save", "release"} => state[prev[c]] = "ACTIVE"
    BY <1>0, Zenon DEF SwitchInv
  <2> QED BY <2>1, <2>2
<1>4. pc[c] \notin SwitchPcs
    BY <1>0, <1>3 DEF SwitchInv
<1>5. frame[stk[c]].at = "exit_loop" /\ stk[c] = stack_base[t]
    BY <1>0, <1>3, <1>4, Zenon DEF CoreInv, PlaceInv
<1>6. pc[c] \in {"sched_lock", "sched_body"}
  <2>1. pc[c] \notin {"start_lock", "start_body"}
    BY <1>0, <1>3, Zenon DEF CoreInv
  <2>2. pc[c] \notin {"thread", "exit_lock", "exit_body", "create_lock", "create_body"}
    BY <1>0, <1>5 DEF PlaceInv, Parked
  <2>3. pc[c] \in {"thread"} \cup LockPcs \cup BodyPcs \cup SwitchPcs
    BY <1>0, Zenon DEF TypeOK
  <2> QED BY <1>4, <2>1, <2>2, <2>3 DEF LockPcs, BodyPcs
<1> QED BY <1>3, <1>5, <1>6, Zenon

(* A zombie is always the current thread of a core inside schedule(), and      *)
(* schedule() never returns to a thread that is exiting.                       *)
THEOREM ExitIsFinal == Spec => [](ZombieIsBeingReaped /\ NeverReturnsFromExit)
<1>1. IInv => NeverReturnsFromExit
    BY Zenon DEF IInv, PlaceInv, NeverReturnsFromExit, AtThread, Parked
<1>2. IInv => ZombieIsBeingReaped
    BY ZombieInLoop, Zenon DEF ZombieIsBeingReaped
<1> QED BY <1>1, <1>2, Invariant, PTL

(* No core waits for a lock that it holds, and no core runs the idle thread of *)
(* another.                                                                    *)
THEOREM CoreDiscipline == Spec => [](NoSelfDeadlock /\ IdleStaysHome)
<1>1. IInv => NoSelfDeadlock
    BY ZenonT(60) DEF IInv, CoreInv, NoSelfDeadlock, LockPcs, BodyPcs
<1>2. IInv => IdleStaysHome
  <2> SUFFICES ASSUME IInv, NEW c \in Cores, current_thread[c] >= 0,
                      is_idle[current_thread[c]]
               PROVE  current_thread[c] = idle_tid(c)
    BY Zenon DEF IdleStaysHome
  <2>1. current_thread[c] \in Tids
    BY ThreadIndex, Zenon DEF IInv, TypeOK
  <2>2. running_on_core[current_thread[c]] = c
    BY <2>1, Zenon DEF IInv, CoreInv
  <2> QED BY <2>1, <2>2, CoreIndex DEF IInv, ThreadInv
<1> QED BY <1>1, <1>2, Invariant, PTL

--------------------------------------------------------------------------------
(* Waiting for a child: where the exit code goes *)

(* Thread t has not yet handed over its exit code *)
Undelivered(t) == Used(t) /\ frame[stack_base[t]].at \notin {"exit_cli", "exit_loop"}

(* Core c is in thread_create_ex() *)
Creating(c) == pc[c] \in {"create_lock", "create_body"}

(* A stack on which somebody waits belongs to a thread, and names no child     *)
(* only until thread_create_ex() has returned; one whose thread runs user code *)
(* names none.                                                                 *)
WaiterInv(s) ==
    /\ frame[s].at = "wait" => \E t \in Tids : Used(t) /\ stack_base[t] = s
    /\ frame[s].at = "run" => frame[s].child = NoTid
    /\ frame[s].at = "wait" /\ frame[s].child = NoTid =>
         \E c \in Cores : stk[c] = s /\ Creating(c)

(* exit_code_out of a thread that has yet to deliver is the frame of its waiter *)
OutInv(t) ==
    Undelivered(t) /\ exit_code_out[t] # NULL =>
        LET w == exit_code_out[t] IN
        frame[w].at = "wait" /\ frame[w].child = t /\ frame[w].childgen = gen[t]

(* A waiter has its child's code, or its child is still to deliver it *)
CodeInv(s) ==
    frame[s].at = "wait" /\ frame[s].child # NoTid =>
        \/ frame[s].exit_code = frame[s].childgen
        \/ LET k == frame[s].child IN
           Undelivered(k) /\ gen[k] = frame[s].childgen /\ exit_code_out[k] = s

WaitInv ==
    /\ \A s \in Stacks : WaiterInv(s) /\ CodeInv(s)
    /\ \A t \in Tids : OutInv(t)
    /\ \A c \in Cores : Creating(c) => frame[stk[c]].child = NoTid

(* What a step leaves alone on stack s, as far as waiting is concerned *)
SameWait(s) == /\ frame'[s].at = frame[s].at
               /\ frame'[s].child = frame[s].child
               /\ frame'[s].childgen = frame[s].childgen
               /\ frame'[s].exit_code = frame[s].exit_code

(* The types the lemmas below need *)
LEMMA WaitTypes ==
    ASSUME IInv
    PROVE  /\ \A t \in Tids : exit_code_out[t] \in Stacks \cup {NULL}
           /\ \A t \in Tids : Used(t) => /\ stack_base[t] \in Stacks
                                         /\ stack_base[t] \in Blocks
                                         /\ frame[stack_base[t]].gen = gen[t]
           /\ \A s \in Stacks : frame[s].child \in Tids \cup {NoTid}
           /\ \A c \in Cores : stk[c] \in Stacks
<1>1. TypeOK /\ \A t \in Tids : ThreadInv(t)
    BY Zenon DEF IInv
<1>2. \A t \in Tids : exit_code_out[t] \in Stacks \cup {NULL}
    BY <1>1, Zenon DEF TypeOK
<1>3. \A t \in Tids : Used(t) => stack_base[t] \in Blocks /\ frame[stack_base[t]].gen = gen[t]
    BY <1>1, Zenon DEF ThreadInv
<1>4. \A s \in Stacks : frame[s].child \in Tids \cup {NoTid}
    BY <1>1, Zenon DEF TypeOK
<1>5. \A c \in Cores : stk[c] \in Stacks
    BY <1>1, Zenon DEF TypeOK
<1> QED BY <1>2, <1>3, <1>4, <1>5, StackIndex, Zenon

(* A thread that has yet to deliver its code counts as alive. *)
LEMMA UndeliveredAlive ==
    ASSUME IInv, NEW t \in Tids, Undelivered(t)
    PROVE  thread_is_alive(t)
<1>1. state[t] \in {"UNUSED", "ACTIVE", "ZOMBIE"}
    BY Zenon DEF IInv, TypeOK
<1> QED BY <1>1, ZombieInLoop DEF Undelivered, Used, thread_is_alive

(* A step that touches no frame a waiter can tell apart, and frees no slot but *)
(* that of a thread at the end of thread_exit_code().                          *)
LEMMA SameWaitInv ==
    ASSUME IInv, WaitInv,
           \A s \in Stacks : SameWait(s),
           UNCHANGED <<exit_code_out, gen, stack_base>>,
           \A t \in Tids : Used(t)' => Used(t),
           \A t \in Tids : Used(t) /\ frame[stack_base[t]].at # "exit_loop" => Used(t)',
           \A c \in Cores : Creating(c)' <=> Creating(c),
           \A c \in Cores : Creating(c) => stk'[c] = stk[c]
    PROVE  WaitInv'
<1>1. \A t \in Tids : Undelivered(t)' <=> Undelivered(t)
    BY WaitTypes DEF Undelivered, SameWait
<1>2. ASSUME NEW s \in Stacks PROVE WaiterInv(s)'
  <2>1. WaiterInv(s) /\ SameWait(s)
    BY Zenon DEF WaitInv
  <2>2. frame[s].at = "wait" => \E t \in Tids : Used(t)' /\ stack_base'[t] = s
    <3> SUFFICES ASSUME frame[s].at = "wait"
                 PROVE  \E t \in Tids : Used(t)' /\ stack_base'[t] = s
        OBVIOUS
    <3>1. PICK t \in Tids : Used(t) /\ stack_base[t] = s
        BY <2>1, Zenon DEF WaiterInv
    <3>2. Used(t)'
        BY <3>1
    <3> QED BY <3>1, <3>2
  <2> QED BY <2>1, <2>2, ZenonT(60) DEF WaiterInv, SameWait
<1>3. ASSUME NEW s \in Stacks PROVE CodeInv(s)'
  <2>1. CodeInv(s) /\ SameWait(s) /\ frame[s].child \in Tids \cup {NoTid}
    BY WaitTypes, Zenon DEF WaitInv
  <2> QED BY <2>1, <1>1, Zenon DEF CodeInv, SameWait
<1>4. ASSUME NEW t \in Tids PROVE OutInv(t)'
  <2>1. OutInv(t) /\ (exit_code_out[t] # NULL => SameWait(exit_code_out[t]))
    BY WaitTypes, Zenon DEF WaitInv
  <2> QED BY <2>1, <1>1, Zenon DEF OutInv, SameWait
<1>5. ASSUME NEW c \in Cores, Creating(c)' PROVE frame'[stk'[c]].child = NoTid
  <2>1. Creating(c) /\ stk'[c] = stk[c] /\ stk[c] \in Stacks
    BY <1>5, WaitTypes, Zenon
  <2> QED BY <2>1, ZenonT(60) DEF WaitInv, SameWait
<1> QED BY <1>2, <1>3, <1>4, <1>5, ZenonT(60) DEF WaitInv

(* A step of the running thread of core c that moves its own code from user    *)
(* code into thread_create_ex() or thread_exit_code(), or on into the loop at  *)
(* the end of thread_exit_code().                                              *)
LEMMA MoveWaitInv ==
    ASSUME IInv, WaitInv, NEW c \in Cores, pc[c] \notin SwitchPcs, ~Creating(c),
           \/ frame[stk[c]].at = "run" /\ frame'[stk[c]].at \in {"run", "wait", "exit_tid"}
           \/ frame[stk[c]].at = "exit_cli" /\ frame'[stk[c]].at = "exit_loop",
           frame'[stk[c]].child = frame[stk[c]].child,
           \A s \in Stacks : s # stk[c] => SameWait(s),
           UNCHANGED <<exit_code_out, gen, stack_base, stk>>,
           \A t \in Tids : Used(t)' <=> Used(t),
           \A d \in Cores : d # c => pc'[d] = pc[d],
           Creating(c)' => frame[stk[c]].at = "run",
           frame'[stk[c]].at = "wait" => Creating(c)'
    PROVE  WaitInv'
<1>a. /\ current_thread[c] \in Tids /\ Used(current_thread[c])
      /\ stk[c] = stack_base[current_thread[c]] /\ stk[c] \in Stacks
  <2>1. frame[stk[c]].at # "boot"
    OBVIOUS
  <2> QED BY <2>1, RunningAlone, WaitTypes, Zenon
<1>b. WaiterInv(stk[c])
    BY <1>a, Zenon DEF WaitInv
<1>c. \A d \in Cores : d # c => (Creating(d)' <=> Creating(d))
    BY Zenon DEF Creating
<1>1. \A t \in Tids : Undelivered(t)' <=> Undelivered(t)
  <2> SUFFICES ASSUME NEW t \in Tids, Used(t)
               PROVE  frame'[stack_base[t]].at \notin {"exit_cli", "exit_loop"}
                        <=> frame[stack_base[t]].at \notin {"exit_cli", "exit_loop"}
    BY Zenon DEF Undelivered
  <2>1. CASE stack_base[t] = stk[c]
    BY <2>1
  <2>2. CASE stack_base[t] # stk[c]
    BY <2>2, WaitTypes, Zenon DEF SameWait
  <2> QED BY <2>1, <2>2, Zenon
<1>2. ASSUME NEW s \in Stacks PROVE WaiterInv(s)'
  <2>1. CASE s = stk[c]
    <3>1. frame'[s].at = "wait" => \E t \in Tids : Used(t)' /\ stack_base'[t] = s
        BY <1>a, <2>1, ZenonT(60)
    <3>2. frame'[s].at \in {"run", "wait"} => frame'[s].child = NoTid
        BY <1>b, <2>1 DEF WaiterInv
    <3>3. frame'[s].at = "wait" => \E d \in Cores : stk'[d] = s /\ Creating(d)'
        BY <2>1, Zenon
    <3> QED BY <3>1, <3>2, <3>3, Zenon DEF WaiterInv
  <2>2. CASE s # stk[c]
    <3>1. WaiterInv(s) /\ SameWait(s)
        BY <2>2, Zenon DEF WaitInv
    <3>2. \A d \in Cores : stk[d] = s /\ Creating(d) => stk'[d] = s /\ Creating(d)'
        BY <1>c, <2>2, Zenon
    <3> QED BY <3>1, <3>2, Zenon DEF WaiterInv, SameWait
  <2> QED BY <2>1, <2>2, Zenon
<1>3. ASSUME NEW s \in Stacks PROVE CodeInv(s)'
  <2>1. CASE s = stk[c]
    <3>1. frame'[s].at = "wait" => frame'[s].child = NoTid
        BY <1>b, <2>1 DEF WaiterInv
    <3> QED BY <3>1, Zenon DEF CodeInv
  <2>2. CASE s # stk[c]
    <3>1. CodeInv(s) /\ SameWait(s) /\ frame[s].child \in Tids \cup {NoTid}
        BY <2>2, WaitTypes, Zenon DEF WaitInv
    <3> QED BY <3>1, <1>1, Zenon DEF CodeInv, SameWait
  <2> QED BY <2>1, <2>2, Zenon
<1>4. ASSUME NEW t \in Tids PROVE OutInv(t)'
  <2>1. OutInv(t) /\ (exit_code_out[t] # NULL => exit_code_out[t] \in Stacks)
    BY WaitTypes, ZenonT(60) DEF WaitInv
  <2>2. frame[stk[c]].at # "wait"
    OBVIOUS
  <2> QED BY <2>1, <2>2, <1>1, Zenon DEF OutInv, SameWait
<1>5. ASSUME NEW d \in Cores, Creating(d)' PROVE frame'[stk'[d]].child = NoTid
  <2>1. CASE d = c
    BY <1>5, <1>b, <2>1, Zenon DEF WaiterInv
  <2>2. CASE d # c
    <3>1. Creating(d) /\ pc[d] \notin SwitchPcs /\ stk[d] \in Stacks
        BY <1>5, <1>c, <2>2, WaitTypes DEF Creating, SwitchPcs
    <3>2. stk[d] # stk[c]
      <4>1. frame[stk[c]].at # "boot"
        OBVIOUS
      <4> QED BY <2>2, <3>1, <4>1, RunningAlone, ZenonT(60)
    <3> QED BY <3>1, <3>2, ZenonT(60) DEF WaitInv, SameWait
  <2> QED BY <2>1, <2>2, Zenon
<1> QED BY <1>2, <1>3, <1>4, <1>5, Zenon DEF WaitInv

(* The wait loop ends only when no thread has its code still to deliver to it. *)
LEMMA WaitDoneWait ==
    ASSUME IInv, WaitInv, NEW c \in Cores, WaitDone(c)
    PROVE  /\ WaitInv'
           /\ frame[stk[c]].exit_code = frame[stk[c]].childgen
<1>a. /\ pc[c] = "thread" /\ frame[stk[c]].at = "wait" /\ pc[c] \notin SwitchPcs
      /\ frame[stk[c]].at # "boot"
    BY DEF WaitDone, AtThread, SwitchPcs
<1>b. /\ stk[c] \in Stacks
      /\ \A d \in Cores : d # c /\ pc[d] \notin SwitchPcs => stk[d] # stk[c]
    BY <1>a, RunningAlone, WaitTypes, ZenonT(60)
<1>c. /\ \A s \in Stacks : s # stk[c] => frame'[s] = frame[s]
      /\ frame'[stk[c]].at = "run" /\ frame'[stk[c]].child = NoTid
      /\ UNCHANGED <<exit_code_out, gen, stack_base, stk, state, pc>>
    BY <1>b, SMTT(60) DEF WaitDone, IInv, TypeOK, Frame, threadVars
<1>d. \A d \in Cores : Creating(d) => stk[d] # stk[c]
    BY <1>a, <1>b DEF Creating, SwitchPcs
<1>e. \A t \in Tids : Undelivered(t) => t # frame[stk[c]].child
    BY UndeliveredAlive, Zenon DEF WaitDone
<1>1. \A t \in Tids : Undelivered(t)' <=> Undelivered(t)
  <2> SUFFICES ASSUME NEW t \in Tids, Used(t)
               PROVE  frame'[stack_base[t]].at \notin {"exit_cli", "exit_loop"}
                        <=> frame[stack_base[t]].at \notin {"exit_cli", "exit_loop"}
    BY <1>c, Zenon DEF Undelivered, Used
  <2>1. CASE stack_base[t] = stk[c]
    BY <1>a, <1>c, <2>1
  <2>2. CASE stack_base[t] # stk[c]
    BY <1>c, <2>2, WaitTypes, Zenon
  <2> QED BY <2>1, <2>2, Zenon
<1>2. ASSUME NEW s \in Stacks PROVE WaiterInv(s)' /\ CodeInv(s)'
  <2>1. CASE s = stk[c]
    BY <1>c, <2>1 DEF WaiterInv, CodeInv
  <2>2. CASE s # stk[c]
    <3>1. WaiterInv(s) /\ CodeInv(s) /\ frame'[s] = frame[s]
           /\ frame[s].child \in Tids \cup {NoTid}
        BY <1>c, <2>2, WaitTypes, Zenon DEF WaitInv
    <3>2. WaiterInv(s)'
        BY <1>c, <3>1, Zenon DEF WaiterInv, Used, Creating
    <3>3. CodeInv(s)'
        BY <1>1, <1>c, <3>1, Zenon DEF CodeInv
    <3> QED BY <3>2, <3>3, Zenon
  <2> QED BY <2>1, <2>2, ZenonT(60)
<1>3. ASSUME NEW t \in Tids PROVE OutInv(t)'
  <2>1. OutInv(t) /\ (exit_code_out[t] # NULL => exit_code_out[t] \in Stacks)
    BY WaitTypes, Zenon DEF WaitInv
  <2> QED BY <2>1, <1>1, <1>c, <1>e, Zenon DEF OutInv
<1>4. ASSUME NEW d \in Cores, Creating(d)' PROVE frame'[stk'[d]].child = NoTid
  <2>1. Creating(d) /\ stk[d] \in Stacks
    BY <1>4, <1>c, WaitTypes, Zenon DEF Creating
  <2> QED BY <2>1, <1>c, <1>d, Zenon DEF WaitInv
<1>5. frame[stk[c]].exit_code = frame[stk[c]].childgen
  <2>1. WaiterInv(stk[c]) /\ CodeInv(stk[c]) /\ frame[stk[c]].child \in Tids \cup {NoTid}
    BY <1>b, WaitTypes, Zenon DEF WaitInv
  <2>2. frame[stk[c]].child # NoTid
    BY <1>a, <1>d, <2>1, Zenon DEF WaiterInv
  <2> QED BY <1>a, <1>e, <2>1, <2>2, Zenon DEF CodeInv
<1> QED BY <1>2, <1>3, <1>4, <1>5, Zenon DEF WaitInv

(* A wait that ends returns the exit code of the child *)
ReturnsCode ==
    \A s \in Stacks : frame[s].at = "wait" /\ frame'[s].at = "run"
                       => frame[s].exit_code = frame[s].childgen

(* thread_exit_code() writes its code through exit_code_out: the waiter it     *)
(* finds there is the one that waits for this thread.                          *)
LEMMA ExitDeliverWait ==
    ASSUME IInv, WaitInv, NEW c \in Cores, ExitDeliver(c)
    PROVE  WaitInv' /\ ReturnsCode
<1> DEFINE tid == current_thread[c]
           w == exit_code_out[tid]
<1>a. /\ pc[c] = "thread" /\ frame[stk[c]].at = "exit_tid" /\ pc[c] \notin SwitchPcs
      /\ frame[stk[c]].at # "boot"
    BY Zenon DEF ExitDeliver, AtThread, SwitchPcs
<1>b. frame[stk[c]].core = c
    BY <1>a, Zenon DEF IInv, PlaceInv
<1>c. /\ tid \in Tids /\ Used(tid) /\ stk[c] = stack_base[tid] /\ stk[c] \in Stacks
      /\ \A t \in Tids : Used(t) /\ t # tid => stack_base[t] # stk[c]
      /\ \A d \in Cores : d # c /\ pc[d] \notin SwitchPcs => stk[d] # stk[c]
    BY <1>a, RunningAlone, WaitTypes, Zenon
<1>d. /\ \A s \in Stacks : frame'[s] =
           IF s = stk[c] THEN [frame[s] EXCEPT !.tid = tid, !.at = "exit_cli"]
           ELSE IF s = w THEN [frame[s] EXCEPT !.exit_code = frame[stk[c]].gen]
           ELSE frame[s]
      /\ UNCHANGED <<exit_code_out, gen, stack_base, stk, state, pc>>
  <2>1. ~(tid < 0)
    BY <1>c, ThreadIndex, Zenon
  <2> QED BY <1>b, <2>1, ZenonT(60) DEF ExitDeliver, threadVars, coreVars
<1>e. ASSUME NEW s \in Stacks
      PROVE  /\ s = stk[c] => frame'[s].at = "exit_cli"
             /\ s # stk[c] => /\ frame'[s].at = frame[s].at
                              /\ frame'[s].child = frame[s].child
                              /\ frame'[s].childgen = frame[s].childgen
             /\ s # stk[c] /\ s # w => frame'[s].exit_code = frame[s].exit_code
             /\ s # stk[c] /\ s = w => frame'[s].exit_code = gen[tid]
  <2>1. frame[s] \in FrameType /\ frame[stk[c]].gen = gen[tid]
    BY <1>c, WaitTypes, Zenon DEF IInv, TypeOK, FrameType
  <2>2. CASE s = stk[c]
    <3> DEFINE g == [frame[s] EXCEPT !.tid = tid]
    <3>1. g \in FrameType
        BY <1>c, <2>1 DEF FrameType
    <3>2. frame'[s] = [g EXCEPT !.at = "exit_cli"]
        BY <1>d, <2>2, Zenon
    <3> HIDE DEF g
    <3> QED BY <2>2, <3>1, <3>2 DEF FrameType
  <2>3. CASE s # stk[c] /\ s = w
    <3>1. frame'[s] = [frame[s] EXCEPT !.exit_code = gen[tid]]
        BY <1>d, <2>1, <2>3, Zenon
    <3> QED BY <2>1, <2>3, <3>1 DEF FrameType
  <2>4. CASE s # stk[c] /\ s # w
    BY <1>d, <2>4, Zenon
  <2> QED BY <2>2, <2>3, <2>4, Zenon
<1> HIDE DEF tid, w
<1>f. OutInv(tid) /\ Undelivered(tid) /\ (w # NULL => w \in Stacks)
  <2>1. Undelivered(tid)
    BY <1>a, <1>c DEF Undelivered
  <2> QED BY <1>c, <2>1, WaitTypes, ZenonT(60) DEF WaitInv, w
<1>1. \A t \in Tids : Undelivered(t)' <=> Undelivered(t) /\ t # tid
  <2> SUFFICES ASSUME NEW t \in Tids, Used(t)
               PROVE  frame'[stack_base[t]].at \notin {"exit_cli", "exit_loop"}
                        <=> /\ frame[stack_base[t]].at \notin {"exit_cli", "exit_loop"}
                            /\ t # tid
    BY <1>d, Zenon DEF Undelivered, Used
  <2>1. CASE t = tid
    BY <1>c, <1>e, <2>1, Zenon
  <2>2. CASE t # tid
    BY <1>c, <1>e, <2>2, WaitTypes, Zenon
  <2> QED BY <2>1, <2>2, Zenon
<1>2. ASSUME NEW s \in Stacks PROVE WaiterInv(s)'
  <2>1. CASE s = stk[c]
    BY <1>e, <2>1 DEF WaiterInv
  <2>2. CASE s # stk[c]
    <3>1. WaiterInv(s)
        BY Zenon DEF WaitInv
    <3> QED BY <1>d, <1>e, <2>2, <3>1, Zenon DEF WaiterInv, Used, Creating
  <2> QED BY <2>1, <2>2, Zenon
<1>3. ASSUME NEW s \in Stacks PROVE CodeInv(s)'
  <2>1. CodeInv(s) /\ frame[s].child \in Tids \cup {NoTid}
    BY WaitTypes, ZenonT(60) DEF WaitInv
  <2>2. CASE s = stk[c]
    BY <1>e, <2>2 DEF CodeInv
  <2>3. CASE s # stk[c] /\ s = w
    <3>1. w # NULL
        BY <2>3, StackIndex, Zenon
    <3>2. frame[s].childgen = gen[tid]
        BY <1>f, <2>3, <3>1, Zenon DEF OutInv, w
    <3> QED BY <1>e, <2>3, <3>2, Zenon DEF CodeInv
  <2>4. CASE s # stk[c] /\ s # w
    <3>1. exit_code_out[tid] # s
        BY <2>4, Zenon DEF w
    <3> QED BY <1>1, <1>d, <1>e, <2>1, <2>4, <3>1, Zenon DEF CodeInv
  <2> QED BY <2>2, <2>3, <2>4, Zenon
<1>4. ASSUME NEW t \in Tids PROVE OutInv(t)'
  <2>1. OutInv(t) /\ (exit_code_out[t] # NULL => exit_code_out[t] \in Stacks)
    BY WaitTypes, Zenon DEF WaitInv
  <2>2. frame[stk[c]].at # "wait"
    BY <1>a
  <2> QED BY <2>1, <2>2, <1>1, <1>d, <1>e, Zenon DEF OutInv
<1>5. ASSUME NEW d \in Cores, Creating(d)' PROVE frame'[stk'[d]].child = NoTid
  <2>1. Creating(d) /\ stk[d] \in Stacks
    BY <1>5, <1>d, WaitTypes, Zenon DEF Creating
  <2>2. pc[d] \notin SwitchPcs /\ d # c
    BY <1>a, <2>1 DEF Creating, SwitchPcs
  <2> QED BY <1>c, <1>d, <1>e, <2>1, <2>2, Zenon DEF WaitInv
<1>6. ReturnsCode
    BY <1>e DEF ReturnsCode
<1> QED BY <1>2, <1>3, <1>4, <1>5, <1>6, ZenonT(60) DEF WaitInv

(* thread_create_ex() gives the new thread the frame of its waiter, which was  *)
(* nobody's before.                                                            *)
LEMMA CreateThreadWait ==
    ASSUME IInv, WaitInv, NEW c \in Cores, NEW id \in Tids, NEW b \in Blocks,
           CreateThread(c, id, b)
    PROVE  WaitInv' /\ ReturnsCode
<1> DEFINE waits == frame[stk[c]].at = "wait"
           g == created + 1
<1>a. /\ pc[c] = "create_body" /\ pc[c] \notin SwitchPcs /\ Creating(c)
      /\ ~Used(id) /\ b \in kheap
    BY ZenonT(60) DEF CreateThread, SwitchPcs, Creating, Used
<1>b. frame[stk[c]].at \in {"run", "wait"} /\ frame[stk[c]].at # "boot"
    BY <1>a DEF IInv, PlaceInv
<1>c. /\ current_thread[c] \in Tids /\ Used(current_thread[c])
      /\ stk[c] = stack_base[current_thread[c]] /\ stk[c] \in Stacks
      /\ \A d \in Cores : d # c /\ pc[d] \notin SwitchPcs => stk[d] # stk[c]
    BY <1>a, <1>b, RunningAlone, WaitTypes, Zenon
<1>d. \A t \in Tids : Used(t) => stack_base[t] # b /\ t # id
    BY <1>a, ZenonT(60) DEF IInv, StackInv
<1>e. /\ \A s \in Stacks : frame'[s] =
           IF s = b THEN Frame("run", g)
           ELSE IF s = stk[c] /\ waits THEN [frame[s] EXCEPT !.child = id, !.childgen = g]
           ELSE frame[s]
      /\ stk' = stk
    BY Zenon DEF CreateThread
<1>f. /\ \A t \in Tids : stack_base'[t] = IF t = id THEN b ELSE stack_base[t]
      /\ \A t \in Tids : gen'[t] = IF t = id THEN g ELSE gen[t]
      /\ \A t \in Tids : exit_code_out'[t] = IF t = id THEN (IF waits THEN stk[c] ELSE NULL)
                                             ELSE exit_code_out[t]
      /\ \A t \in Tids : Used(t)' <=> Used(t) \/ t = id
      /\ \A d \in Cores : Creating(d)' <=> Creating(d) /\ d # c
    BY Zenon DEF CreateThread, IInv, TypeOK, Used, Creating
<1>g. g \in Nat
    BY DEF IInv, TypeOK
<1>h. b \in Stacks /\ stk[c] # b /\ \A d \in Cores : Creating(d) => stk[d] # b
  <2>1. b \in Stacks
    BY StackIndex, Zenon
  <2>2. ASSUME NEW d \in Cores, Creating(d) PROVE stk[d] # b
    <3>1. pc[d] \notin SwitchPcs /\ frame[stk[d]].at # "boot"
        BY <2>2 DEF Creating, SwitchPcs, IInv, PlaceInv
    <3>2. /\ current_thread[d] \in Tids /\ Used(current_thread[d])
          /\ stk[d] = stack_base[current_thread[d]]
        BY <3>1, RunningAlone, Zenon
    <3> QED BY <1>d, <3>2, ZenonT(60)
  <2> QED BY <1>a, <2>1, <2>2, Zenon
<1> HIDE DEF waits, g
<1>i. ASSUME NEW s \in Stacks
      PROVE  /\ s = b => frame'[s].at = "run" /\ frame'[s].child = NoTid
             /\ s = stk[c] /\ waits => /\ frame'[s].at = "wait"
                                       /\ frame'[s].child = id /\ frame'[s].childgen = g
             /\ s # b /\ ~(s = stk[c] /\ waits) => frame'[s] = frame[s]
             /\ s # b => frame'[s].at = frame[s].at
  <2>1. frame[s] \in FrameType
    BY Zenon DEF IInv, TypeOK, FrameType
  <2>2. CASE s = b
    <3>1. frame'[s] = Frame("run", g)
        BY <1>e, <2>2, Zenon
    <3>2. frame'[s].at = "run" /\ frame'[s].child = NoTid
        BY <3>1 DEF Frame
    <3> QED BY <1>h, <2>2, <3>2, Zenon
  <2>3. CASE s # b /\ s = stk[c] /\ waits
    <3> DEFINE h == [frame[s] EXCEPT !.child = id]
    <3>1. h \in FrameType /\ h.at = frame[s].at /\ h.child = id
        BY <2>1 DEF FrameType
    <3>2. frame'[s] = [h EXCEPT !.childgen = g]
        BY <1>e, <2>3, Zenon
    <3> HIDE DEF h
    <3>3. frame'[s].at = h.at /\ frame'[s].child = h.child /\ frame'[s].childgen = g
        BY <1>g, <3>1, <3>2 DEF FrameType
    <3> QED BY <2>3, <3>1, <3>3, Zenon DEF waits
  <2>4. CASE s # b /\ ~(s = stk[c] /\ waits)
    BY <1>e, <2>4, Zenon
  <2> QED BY <1>h, <2>2, <2>3, <2>4, Zenon
<1>j. ASSUME NEW t \in Tids, Used(t)
      PROVE  frame'[stack_base'[t]].at = frame[stack_base[t]].at
  <2>1. stack_base'[t] = stack_base[t] /\ stack_base[t] # b
    BY <1>d, <1>f, <1>j, Zenon
  <2>2. stack_base[t] \in Stacks
    BY <1>j, WaitTypes, Zenon
  <2> QED BY <1>i, <2>1, <2>2, ZenonT(60)
<1>k. \A t \in Tids : Undelivered(t)' <=> Undelivered(t) \/ t = id
  <2>1. Undelivered(id)'
    BY <1>f, <1>h, <1>i DEF Undelivered
  <2> QED BY <1>f, <1>j, <2>1, Zenon DEF Undelivered
<1>l. frame[stk[c]].child = NoTid
    BY <1>a, Zenon DEF WaitInv
<1>2. ASSUME NEW s \in Stacks PROVE WaiterInv(s)'
  <2>1. WaiterInv(s)
    BY ZenonT(60) DEF WaitInv
  <2>2. CASE s = b
    BY <1>i, <2>2 DEF WaiterInv
  <2>3. CASE s = stk[c] /\ waits
    <3>1. \E t \in Tids : Used(t)' /\ stack_base'[t] = s
        BY <1>c, <1>d, <1>f, <2>3, Zenon
    <3>2. frame'[s].child # NoTid
        BY <1>i, <2>3, ThreadIndex, ZenonT(60)
    <3>3. frame'[s].at # "run"
        BY <1>i, <2>3
    <3> QED BY <3>1, <3>2, <3>3, Zenon DEF WaiterInv
  <2>4. CASE s # b /\ ~(s = stk[c] /\ waits)
    <3>1. frame'[s] = frame[s]
        BY <1>i, <2>4, Zenon
    <3>2. \A t \in Tids : Used(t) /\ stack_base[t] = s => Used(t)' /\ stack_base'[t] = s
        BY <1>d, <1>f, Zenon
    <3>3. frame[s].at = "wait" => s # stk[c]
        BY <2>4, Zenon DEF waits
    <3> QED BY <1>e, <1>f, <2>1, <3>1, <3>2, <3>3, Zenon DEF WaiterInv
  <2> QED BY <2>2, <2>3, <2>4, Zenon
<1>3. ASSUME NEW s \in Stacks PROVE CodeInv(s)'
  <2>1. CodeInv(s) /\ frame[s].child \in Tids \cup {NoTid}
    BY WaitTypes, ZenonT(60) DEF WaitInv
  <2>2. CASE s = b
    BY <1>i, <2>2 DEF CodeInv
  <2>3. CASE s = stk[c] /\ waits
    BY <1>f, <1>i, <1>k, <2>3, ZenonT(60) DEF CodeInv
  <2>4. CASE s # b /\ ~(s = stk[c] /\ waits)
    <3>1. frame'[s] = frame[s]
        BY <1>i, <2>4, Zenon
    <3>2. \A t \in Tids : Undelivered(t) => t # id
        BY <1>a, Zenon DEF Undelivered
    <3> QED BY <1>f, <1>k, <2>1, <3>1, <3>2, ZenonT(60) DEF CodeInv
  <2> QED BY <2>2, <2>3, <2>4, Zenon
<1>4. ASSUME NEW t \in Tids PROVE OutInv(t)'
  <2>1. CASE t = id
    BY <1>c, <1>f, <1>i, <2>1, ZenonT(60) DEF OutInv
  <2>2. CASE t # id
    <3> SUFFICES ASSUME Undelivered(t), exit_code_out[t] # NULL
                 PROVE  LET u == exit_code_out[t] IN
                        frame'[u].at = "wait" /\ frame'[u].child = t
                          /\ frame'[u].childgen = gen[t]
        BY <1>f, <1>k, <2>2, Zenon DEF OutInv
    <3>1. PICK u \in Stacks : u = exit_code_out[t]
        BY WaitTypes, Zenon
    <3>2. frame[u].at = "wait" /\ frame[u].child = t /\ frame[u].childgen = gen[t]
        BY <3>1, Zenon DEF WaitInv, OutInv
    <3>3. u # b
      <4>1. \E v \in Tids : Used(v) /\ stack_base[v] = u
        BY <3>2, Zenon DEF WaitInv, WaiterInv
      <4> QED BY <1>d, <4>1, Zenon
    <3>4. u # stk[c]
        BY <1>l, <3>2, ThreadIndex, Zenon
    <3> QED BY <1>i, <3>1, <3>2, <3>3, <3>4, Zenon
  <2> QED BY <2>1, <2>2, Zenon
<1>5. ASSUME NEW d \in Cores, Creating(d)' PROVE frame'[stk'[d]].child = NoTid
  <2>1. Creating(d) /\ d # c /\ stk[d] \in Stacks
    BY <1>5, <1>f, WaitTypes, Zenon
  <2>2. pc[d] \notin SwitchPcs
    BY <2>1, SMTT(60) DEF Creating, SwitchPcs
  <2> QED BY <1>c, <1>e, <1>h, <1>i, <2>1, <2>2, ZenonT(60) DEF WaitInv
<1>6. ReturnsCode
  <2>1. frame[b].at # "wait"
    BY <1>d, <1>h, Zenon DEF WaitInv, WaiterInv
  <2> QED BY <1>i, <2>1 DEF ReturnsCode
<1> QED BY <1>2, <1>3, <1>4, <1>5, <1>6, ZenonT(60) DEF WaitInv

(* A step of core c that is none of thread_create_ex()'s, changes no slot's    *)
(* state and no frame a waiter can tell apart.                                 *)
LEMMA QuietWaitInv ==
    ASSUME IInv, WaitInv, NEW c \in Cores,
           \A s \in Stacks : SameWait(s),
           UNCHANGED <<state, exit_code_out, gen, stack_base>>,
           Creating(c)' <=> Creating(c), Creating(c) => stk'[c] = stk[c],
           \A d \in Cores : d # c => pc'[d] = pc[d] /\ stk'[d] = stk[d]
    PROVE  WaitInv' /\ ReturnsCode
<1>1. \A t \in Tids : Used(t)' <=> Used(t)
    BY Zenon DEF Used
<1>2. ASSUME NEW d \in Cores
      PROVE  (Creating(d)' <=> Creating(d)) /\ (Creating(d) => stk'[d] = stk[d])
    BY Zenon DEF Creating
<1>3. WaitInv'
    BY <1>1, <1>2, SameWaitInv, ZenonT(60)
<1>4. ReturnsCode
    BY Zenon DEF ReturnsCode, SameWait
<1> QED BY <1>3, <1>4, Zenon

(* A call of schedule() only notes who made it *)
LEMMA EnterScheduleWait ==
    ASSUME IInv, WaitInv, NEW c \in Cores, NEW isr \in BOOLEAN,
           pc[c] = "thread", EnterSchedule(c, isr), UNCHANGED <<threadVars, stk>>
    PROVE  WaitInv' /\ ReturnsCode
<1>1. ASSUME NEW s \in Stacks PROVE SameWait(s)
  <2>1. frame[s] \in FrameType
    BY Zenon DEF IInv, TypeOK, FrameType
  <2>2. frame'[s] = IF s = stk[c] THEN [frame[s] EXCEPT !.isr = isr] ELSE frame[s]
    BY Zenon DEF IInv, TypeOK, EnterSchedule
  <2> QED BY <2>1, <2>2 DEF FrameType, SameWait
<1>2. pc'[c] = "sched_lock" /\ \A d \in Cores : d # c => pc'[d] = pc[d]
    BY Zenon DEF IInv, TypeOK, EnterSchedule
<1>3. ~Creating(c) /\ ~Creating(c)'
    BY <1>2 DEF Creating
<1>4. UNCHANGED <<state, exit_code_out, gen, stack_base, stk>>
    BY Zenon DEF threadVars
<1> QED BY <1>1, <1>2, <1>3, <1>4, QuietWaitInv, Zenon

(* A step that leaves every frame alone *)
LEMMA StillWait ==
    ASSUME IInv, WaitInv, NEW c \in Cores, NEW to,
           pc' = [pc EXCEPT ![c] = to], UNCHANGED <<frame, state, exit_code_out, gen, stack_base>>,
           to \in {"create_lock", "create_body"} <=> Creating(c),
           Creating(c) => stk'[c] = stk[c],
           \A d \in Cores : d # c => stk'[d] = stk[d]
    PROVE  WaitInv' /\ ReturnsCode
<1>1. \A s \in Stacks : SameWait(s)
    BY Zenon DEF SameWait
<1>2. pc'[c] = to /\ \A d \in Cores : d # c => pc'[d] = pc[d]
    BY Zenon DEF IInv, TypeOK
<1>3. Creating(c)' <=> Creating(c)
    BY <1>2, Zenon DEF Creating
<1> QED BY <1>1, <1>2, <1>3, QuietWaitInv, Zenon

(* A step that changes nothing a waiter, its child or thread_create_ex() use *)
LEMMA IdleWait ==
    ASSUME IInv, WaitInv, UNCHANGED <<frame, state, exit_code_out, gen, stack_base, pc, stk>>
    PROVE  WaitInv' /\ ReturnsCode
<1>1. /\ \A s \in Stacks : SameWait(s)
      /\ \A t \in Tids : Used(t)' <=> Used(t)
      /\ \A d \in Cores : Creating(d)' <=> Creating(d)
    BY Zenon DEF SameWait, Used, Creating
<1>2. WaitInv'
    BY <1>1, SameWaitInv, Zenon
<1>3. ReturnsCode
    BY <1>1 DEF ReturnsCode, SameWait
<1> QED BY <1>2, <1>3, Zenon

(* The end of a context switch: the core goes on in the code of another thread *)
LEMMA ResumeWait ==
    ASSUME IInv, WaitInv, NEW c \in Cores, pc[c] \in {"discard", "release"}, Resume(c),
           UNCHANGED <<frame, state, exit_code_out, gen, stack_base>>
    PROVE  WaitInv' /\ ReturnsCode
<1>1. pc' = [pc EXCEPT ![c] = "thread"] /\ \A d \in Cores : d # c => stk'[d] = stk[d]
    BY Zenon DEF Resume, IInv, TypeOK
<1>2. ~Creating(c)
    BY DEF Creating
<1> QED BY <1>1, <1>2, StillWait, ZenonT(60)

(* schedule() frees no slot but that of a thread that has delivered its code *)
LEMMA ScheduleSwitchWait ==
    ASSUME IInv, WaitInv, NEW c \in Cores, NEW next \in Tids, ScheduleSwitch(c, next)
    PROVE  WaitInv' /\ ReturnsCode
<1> DEFINE p == current_thread[c]
<1>1. /\ \A s \in Stacks : SameWait(s)
      /\ UNCHANGED <<exit_code_out, gen, stack_base, stk, frame>>
    BY Zenon DEF ScheduleSwitch, SameWait
<1>2. \A t \in Tids : state'[t] = IF PrevIsZombie(c) /\ t = p THEN "UNUSED" ELSE state[t]
    BY Zenon DEF ScheduleSwitch
<1>3. PrevIsZombie(c) => /\ p \in Tids /\ state[p] = "ZOMBIE"
                         /\ frame[stack_base[p]].at = "exit_loop"
  <2>1. p >= 0 => p \in Tids
    BY ThreadIndex, Zenon DEF IInv, TypeOK
  <2> QED BY <2>1, ZombieInLoop, Zenon DEF PrevIsZombie
<1>4. \A t \in Tids : /\ Used(t)' => Used(t)
                      /\ Used(t) /\ frame[stack_base[t]].at # "exit_loop" => Used(t)'
    BY <1>2, <1>3 DEF Used
<1>5. \A d \in Cores : Creating(d)' <=> Creating(d)
  <2>1. pc[c] = "sched_body" /\ pc'[c] \in {"discard", "kfree", "save"}
    BY DEF ScheduleSwitch, IInv, TypeOK
  <2>2. \A d \in Cores : d # c => pc'[d] = pc[d]
    BY Zenon DEF ScheduleSwitch, IInv, TypeOK
  <2> QED BY <2>1, <2>2 DEF Creating
<1>6. WaitInv'
    BY <1>1, <1>4, <1>5, SameWaitInv, ZenonT(60)
<1>7. ReturnsCode
    BY <1>1 DEF ReturnsCode, SameWait
<1> QED BY <1>6, <1>7, Zenon

(* The call of thread_create_ex(): from here on its caller may be a waiter *)
LEMMA ThreadCreateWait ==
    ASSUME IInv, WaitInv, NEW c \in Cores, NEW andWait \in BOOLEAN, ThreadCreate(c, andWait)
    PROVE  WaitInv' /\ ReturnsCode
<1> DEFINE at == IF andWait THEN "wait" ELSE "run"
<1>1. /\ pc[c] = "thread" /\ frame[stk[c]].at = "run"
      /\ pc[c] \notin SwitchPcs /\ ~Creating(c)
    BY DEF ThreadCreate, AtThread, SwitchPcs, Creating
<1>2. frame[stk[c]] \in FrameType /\ stk[c] \in Stacks
    BY Zenon DEF IInv, TypeOK, FrameType
<1>3. /\ frame'[stk[c]] = [frame[stk[c]] EXCEPT !.at = at]
      /\ \A s \in Stacks : s # stk[c] => frame'[s] = frame[s]
    BY <1>2, Zenon DEF ThreadCreate, IInv, TypeOK
<1>4. frame'[stk[c]].at \in {"run", "wait"} /\ frame'[stk[c]].child = frame[stk[c]].child
    BY <1>2, <1>3 DEF FrameType
<1>5. \A s \in Stacks : s # stk[c] => SameWait(s)
    BY <1>3, Zenon DEF SameWait
<1>6. UNCHANGED <<state, exit_code_out, gen, stack_base, stk>>
    BY Zenon DEF ThreadCreate, threadVars
<1>7. pc'[c] = "create_lock" /\ \A d \in Cores : d # c => pc'[d] = pc[d]
    BY Zenon DEF ThreadCreate, IInv, TypeOK
<1>8. Creating(c)' /\ \A t \in Tids : Used(t)' <=> Used(t)
    BY <1>6, <1>7, Zenon DEF Creating, Used
<1>9. WaitInv'
    BY <1>1, <1>4, <1>5, <1>6, <1>7, <1>8, MoveWaitInv, ZenonT(60)
<1>10. ReturnsCode
    BY <1>1, <1>5 DEF ReturnsCode, SameWait
<1> QED BY <1>9, <1>10, Zenon

(* The entry into thread_exit_code() *)
LEMMA ExitThroughGateWait ==
    ASSUME IInv, WaitInv, NEW c \in Cores, ExitThroughGate(c)
    PROVE  WaitInv' /\ ReturnsCode
<1> DEFINE g == [frame[stk[c]] EXCEPT !.at = "exit_tid"]
<1>1. /\ pc[c] = "thread" /\ frame[stk[c]].at = "run"
      /\ pc[c] \notin SwitchPcs /\ ~Creating(c)
    BY DEF ExitThroughGate, AtThread, SwitchPcs, Creating
<1>2. frame[stk[c]] \in FrameType /\ stk[c] \in Stacks
    BY Zenon DEF IInv, TypeOK, FrameType
<1>3. /\ frame'[stk[c]] = [g EXCEPT !.core = c]
      /\ \A s \in Stacks : s # stk[c] => frame'[s] = frame[s]
    BY <1>2, Zenon DEF ExitThroughGate, IInv, TypeOK
<1>4. frame'[stk[c]].at = "exit_tid" /\ frame'[stk[c]].child = frame[stk[c]].child
  <2>1. g \in FrameType /\ g.at = "exit_tid" /\ g.child = frame[stk[c]].child
    BY <1>2 DEF FrameType, Places
  <2> HIDE DEF g
  <2> QED BY <1>3, <2>1 DEF FrameType
<1>5. \A s \in Stacks : s # stk[c] => SameWait(s)
    BY <1>3, Zenon DEF SameWait
<1>6. UNCHANGED <<state, exit_code_out, gen, stack_base, stk, pc>>
    BY Zenon DEF ExitThroughGate, threadVars
<1>7. ~Creating(c)' /\ (\A t \in Tids : Used(t)' <=> Used(t)) /\ frame'[stk[c]].at # "wait"
    BY <1>1, <1>4, <1>6 DEF Creating, Used
<1>8. WaitInv'
    BY <1>1, <1>4, <1>5, <1>6, <1>7, MoveWaitInv, Zenon
<1>9. ReturnsCode
    BY <1>1, <1>5 DEF ReturnsCode, SameWait
<1> QED BY <1>8, <1>9, Zenon

(* The exiting thread becomes a zombie: it has delivered its code before *)
LEMMA ExitZombieWait ==
    ASSUME IInv, WaitInv, NEW c \in Cores, ExitZombie(c)
    PROVE  WaitInv' /\ ReturnsCode
<1> DEFINE g == [frame[stk[c]] EXCEPT !.isr = FALSE]
<1>1. /\ pc[c] = "exit_body" /\ frame[stk[c]].at = "exit_cli"
      /\ pc[c] \notin SwitchPcs /\ ~Creating(c)
    BY DEF ExitZombie, SwitchPcs, Creating, IInv, PlaceInv
<1>2. frame[stk[c]] \in FrameType /\ stk[c] \in Stacks
    BY Zenon DEF IInv, TypeOK, FrameType
<1>3. /\ frame'[stk[c]] = [g EXCEPT !.at = "exit_loop"]
      /\ \A s \in Stacks : s # stk[c] => frame'[s] = frame[s]
    BY <1>2, Zenon DEF ExitZombie, IInv, TypeOK
<1>4. frame'[stk[c]].at = "exit_loop" /\ frame'[stk[c]].child = frame[stk[c]].child
  <2>1. g \in FrameType /\ g.child = frame[stk[c]].child
    BY <1>2, Zenon DEF FrameType
  <2> HIDE DEF g
  <2> QED BY <1>3, <2>1 DEF FrameType
<1>5. \A s \in Stacks : s # stk[c] => SameWait(s)
    BY <1>3, Zenon DEF SameWait
<1>6. UNCHANGED <<exit_code_out, gen, stack_base, stk>>
    BY Zenon DEF ExitZombie
<1>7. pc'[c] = "sched_lock" /\ \A d \in Cores : d # c => pc'[d] = pc[d]
    BY Zenon DEF ExitZombie, IInv, TypeOK
<1>8. \A t \in Tids : Used(t)' <=> Used(t)
  <2>1. current_thread[c] \in Tids /\ Used(current_thread[c])
    BY <1>1, RunningAlone
  <2>2. frame[stk[c]].tid = current_thread[c]
    BY <1>1, Zenon DEF IInv, PlaceInv
  <2>3. \A t \in Tids : state'[t] = IF t = current_thread[c] THEN "ZOMBIE" ELSE state[t]
    BY <2>1, <2>2, Zenon DEF ExitZombie, IInv, TypeOK
  <2> QED BY <2>1, <2>3 DEF Used
<1>9. ~Creating(c)' /\ frame'[stk[c]].at # "wait"
    BY <1>4, <1>7 DEF Creating
<1>10. WaitInv'
    BY <1>1, <1>4, <1>5, <1>6, <1>7, <1>8, <1>9, MoveWaitInv, Zenon
<1>11. ReturnsCode
    BY <1>1, <1>5, SMTT(60) DEF ReturnsCode, SameWait
<1> QED BY <1>10, <1>11, Zenon

(* kmain()'s threads wait for nobody and nobody waits for them. *)
LEMMA InitWait == Init => WaitInv
<1> SUFFICES ASSUME Init PROVE WaitInv
    BY Zenon
<1>1. \A at, g : Frame(at, g).at = at /\ Frame(at, g).child = NoTid
    BY DEF Frame
<1>2. \A s \in Stacks : frame[s].at \in {"boot", "idle", "run"} /\ frame[s].child = NoTid
    BY <1>1 DEF Init
<1>3. (\A t \in Tids : exit_code_out[t] = NULL) /\ \A c \in Cores : pc[c] = "thread"
    BY Zenon DEF Init
<1> QED BY <1>2, <1>3 DEF WaitInv, WaiterInv, CodeInv, OutInv, Creating

(* Every step keeps the invariant, and a wait that it ends returns the code of *)
(* the child.                                                                  *)
LEMMA NextWait ==
    ASSUME IInv, WaitInv, [Next]_vars
    PROVE  WaitInv' /\ ReturnsCode
<1>1. CASE UNCHANGED vars
  <2>1. UNCHANGED <<frame, state, exit_code_out, gen, stack_base, pc, stk>>
    BY <1>1, Zenon DEF vars, threadVars, coreVars
  <2> QED BY <2>1, IdleWait, Zenon
<1>2. ASSUME panic PROVE WaitInv' /\ ReturnsCode
  <2>1. UNCHANGED <<frame, state, exit_code_out, gen, stack_base, pc, stk>>
    BY <1>2, Zenon DEF panic, threadVars, coreVars
  <2> QED BY <2>1, IdleWait, Zenon
<1>3. ASSUME NEW c \in Cores, NEW from, NEW to, Acquire(c, from, to),
             to \in {"create_lock", "create_body"} <=> from \in {"create_lock", "create_body"}
      PROVE  WaitInv' /\ ReturnsCode
  <2>1. /\ pc[c] = from /\ pc' = [pc EXCEPT ![c] = to]
        /\ UNCHANGED <<frame, state, exit_code_out, gen, stack_base, stk>>
    BY <1>3, Zenon DEF Acquire, threadVars
  <2> QED BY <1>3, <2>1, StillWait, Zenon DEF Creating
<1>4. ASSUME NEW c \in Cores, NEW to, pc' = [pc EXCEPT ![c] = to],
             UNCHANGED <<frame, state, exit_code_out, gen, stack_base, stk>>,
             ~Creating(c), to \notin {"create_lock", "create_body"}
      PROVE  WaitInv' /\ ReturnsCode
    BY <1>4, StillWait, Zenon
<1>5. ASSUME NEW c \in Cores, CoreStep(c) PROVE WaitInv' /\ ReturnsCode
  <2>1. CASE TimerInterrupt(c)
    <3>1. pc[c] = "thread"
        BY <2>1, Zenon DEF IInv, TimerInterrupt, CoreInv
    <3> QED BY <2>1, <3>1, EnterScheduleWait, Zenon DEF TimerInterrupt
  <2>2. CASE ScheduleLock(c)
    BY <1>3, <2>2, SMTT(60) DEF ScheduleLock
  <2>3. CASE ScheduleReturn(c)
    BY <1>4, <2>3, Zenon DEF ScheduleReturn, Creating, threadVars
  <2>4. CASE \E next \in Tids : ScheduleSwitch(c, next)
    BY <2>4, ScheduleSwitchWait, Zenon
  <2>5. CASE FreeZombieStack(c)
    BY <1>4, <2>5, Zenon DEF FreeZombieStack, Creating, threadVars
  <2>6. CASE SwitchDiscard(c)
    BY <2>6, ResumeWait, Zenon DEF SwitchDiscard
  <2>7. CASE SwitchCorrupted(c)
    BY <1>2, <2>7, Zenon DEF SwitchCorrupted
  <2>8. CASE SwitchSave(c)
    BY <1>4, <2>8, Zenon DEF SwitchSave, Creating
  <2>9. CASE SwitchRelease(c)
    BY <2>9, ResumeWait, Zenon DEF SwitchRelease
  <2>10. CASE SchedulerStart(c)
    BY <1>4, <2>10, ZenonT(60) DEF SchedulerStart, AtThread, Creating, threadVars
  <2>11. CASE StartLock(c)
    BY <1>3, <2>11 DEF StartLock
  <2>12. CASE \E first \in Tids : StartSwitch(c, first)
    <3>1. PICK first \in Tids : StartSwitch(c, first)
        BY <2>12, Zenon
    <3>2. CASE active_count = 0
        BY <1>2, <3>1, <3>2, Zenon DEF StartSwitch
    <3>3. CASE active_count # 0
        BY <1>4, <3>1, <3>3 DEF StartSwitch, Creating
    <3> QED BY <3>2, <3>3, Zenon
  <2>13. CASE \E andWait \in BOOLEAN : ThreadCreate(c, andWait)
    BY <2>13, ThreadCreateWait, Zenon
  <2>14. CASE CreateLock(c)
    BY <1>3, <2>14 DEF CreateLock
  <2>15. CASE \E id \in Tids, b \in Blocks : CreateThread(c, id, b)
    BY <2>15, CreateThreadWait, Zenon
  <2>16. CASE CreateFails(c)
    BY <1>2, <2>16, Zenon DEF CreateFails
  <2>17. CASE WaitAlive(c)
    BY <2>17, EnterScheduleWait, Zenon DEF WaitAlive, AtThread
  <2>18. CASE WaitDone(c)
    <3>1. WaitInv' /\ frame[stk[c]].exit_code = frame[stk[c]].childgen
        BY <2>18, WaitDoneWait, Zenon
    <3>2. \A s \in Stacks : s # stk[c] => frame'[s] = frame[s]
        BY <2>18, Zenon DEF WaitDone, IInv, TypeOK
    <3> QED BY <3>1, <3>2 DEF ReturnsCode
  <2>19. CASE ExitThroughGate(c)
    BY <2>19, ExitThroughGateWait, Zenon
  <2>20. CASE ExitDeliver(c)
    BY <2>20, ExitDeliverWait, ZenonT(60)
  <2>21. CASE ExitIrqOff(c)
    BY <1>4, <2>21, ZenonT(60) DEF ExitIrqOff, AtThread, Creating, threadVars
  <2>22. CASE ExitLock(c)
    BY <1>3, <2>22 DEF ExitLock
  <2>23. CASE ExitZombie(c)
    BY <2>23, ExitZombieWait, Zenon
  <2> QED BY <1>5, <2>1, <2>2, <2>3, <2>4, <2>5, <2>6, <2>7, <2>8, <2>9, <2>10, <2>11,
             <2>12, <2>13, <2>14, <2>15, <2>16, <2>17, <2>18, <2>19, <2>20, <2>21,
             <2>22, <2>23, ZenonT(60) DEF CoreStep
<1> QED BY <1>1, <1>5, Zenon DEF Next, Halted

(* The waiting half of the invariant holds in every state *)
THEOREM WaitInvariant == Spec => []WaitInv
<1>1. IInv /\ WaitInv /\ [Next]_vars => WaitInv'
    BY NextWait, Zenon
<1> QED BY <1>1, InitWait, Invariant, PTL DEF Spec

(* When thread_exit_code() writes the exit code through exit_code_out, the     *)
(* frame it writes to is still that of the process_spawn_args_and_wait() call  *)
(* that waits for this very thread, whatever slots were reused meanwhile.      *)
THEOREM CodeOutLive == Spec => []ExitCodeOutIsLive
<1>1. IInv /\ WaitInv => ExitCodeOutIsLive
  <2> SUFFICES ASSUME IInv, WaitInv, NEW c \in Cores, AtThread(c, "exit_tid"),
                      exit_code_out[current_thread[c]] # NULL
               PROVE  LET t == current_thread[c]
                          f == frame[exit_code_out[t]]
                      IN  f.at = "wait" /\ f.child = t /\ f.childgen = gen[t]
    BY Zenon DEF ExitCodeOutIsLive
  <2>1. pc[c] \notin SwitchPcs /\ frame[stk[c]].at = "exit_tid"
    BY SMTT(60) DEF AtThread, SwitchPcs
  <2>2. /\ current_thread[c] \in Tids /\ Used(current_thread[c])
        /\ stk[c] = stack_base[current_thread[c]]
    BY <2>1, RunningAlone, Zenon
  <2>3. Undelivered(current_thread[c])
    BY <2>1, <2>2 DEF Undelivered
  <2> QED BY <2>2, <2>3, Zenon DEF WaitInv, OutInv
<1> QED BY <1>1, Invariant, WaitInvariant, PTL

(* What process_spawn_args_and_wait() returns is the exit code of the thread   *)
(* it created, even when that thread's slot is in use again by then.           *)
THEOREM WaitReturns == Spec => WaitReturnsChildsCode
<1>1. IInv /\ WaitInv /\ [Next]_vars => ReturnsCode
    BY NextWait, Zenon
<1> QED BY <1>1, Invariant, WaitInvariant, PTL DEF Spec, WaitReturnsChildsCode, ReturnsCode
================================================================================
