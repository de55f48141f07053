------------------------------- MODULE Console -------------------------------
(* Programs that read keys and run one another: SYS_READ_CHAR and SYS_EXEC   *)
(* of syscall.c over schedule(), the keyboard's IRQ1 and each core's         *)
(* interrupt flag.  schedule() is one step here (its locking is Scheduler's  *)
(* subject) and the ring is a queue (which Keyboard shows it to be).         *)
(*                                                                           *)
(* What matters is who may be interrupted.  IRQ1 goes to the boot core.      *)
(* schedule() clears IF and, called from a system call, returns with IF      *)
(* still clear; only keyboard_read_char()'s sti and the return to user mode  *)
(* set it again.                                                             *)
EXTENDS Integers, Sequences, FiniteSets

CONSTANTS
    NumCores,
    Depth,      \* bound: programs that have run one another
    MaxPressed, \* bound: keystrokes
    Capacity    \* KEYBOARD_BUFFER_SIZE - 1

ASSUME ConsoleAssumption ==
    NumCores \in Nat \ {0} /\ Depth \in Nat \ {0} /\ MaxPressed \in Nat /\ Capacity \in Nat

VARIABLES
    at,       \* per program: where it is; program d + 1 is run by program d
    ctx,      \* per program: switched out in the timer's ISR or in a call of schedule()
    cur,      \* per core: the program on it, or Idle
    core_if,  \* per core: RFLAGS.IF
    irq1,     \* the keyboard's interrupt request is pending
    queue,    \* how many characters are in the keyboard buffer
    pressed, consumed

console_vars == <<at, ctx, cur, core_if, irq1, queue, pressed, consumed>>
keyVars == <<irq1, queue, pressed, consumed>>

Cores == 0 .. NumCores - 1
BootCore == 0
Programs == 1 .. Depth
Idle == 0
Alive(p) == at[p] # "unused"
Ready(p) == Alive(p) /\ \A c \in Cores : cur[c] # p

(* scheduler_create_idle_threads(), then the one program a boot starts:      *)
(* boot_desktop()'s, or boot_shell()'s in the test build.  Which calls a     *)
(* program makes is up to it; the shell is the one that reads keys today.    *)
ConsoleInit ==
    /\ at = [p \in Programs |-> IF p = 1 THEN "user" ELSE "unused"]
    /\ ctx = [p \in Programs |-> "isr"]
    /\ cur = [c \in Cores |-> Idle]
    /\ core_if = [c \in Cores |-> TRUE]
    /\ irq1 = FALSE /\ queue = 0 /\ pressed = 0 /\ consumed = 0

(* The processor takes a pending request before the next instruction *)
Interruptible(c) == c = BootCore /\ irq1 /\ core_if[c]

On(c, p, place) == cur[c] = p /\ at[p] = place /\ ~Interruptible(c)

(* next_ready_after() the current program *)
NextReady(c, p) ==
    /\ Ready(p)
    /\ \A q \in Programs : Ready(q) => (p - cur[c] - 1) % Depth <= (q - cur[c] - 1) % Depth

(* Core c resumes program p: through iretq, or out of its call of schedule() *)
SwitchTo(c, p) ==
    /\ cur' = [cur EXCEPT ![c] = p]
    /\ core_if' = [core_if EXCEPT ![c] = ctx[p] = "isr"]

(* schedule(), called by the program on core c *)
schedule(c) ==
    \/ /\ \A p \in Programs : ~Ready(p)
       /\ core_if' = [core_if EXCEPT ![c] = FALSE]
       /\ UNCHANGED <<cur, ctx>>
    \/ \E p \in Programs :
       /\ NextReady(c, p)
       /\ SwitchTo(c, p)
       /\ ctx' = [ctx EXCEPT ![cur[c]] = "call"]

(* A timer tick on core c: schedule() from the ISR *)
TimerTick(c) ==
    /\ core_if[c] /\ ~Interruptible(c)
    /\ \E p \in Programs :
       /\ NextReady(c, p)
       /\ SwitchTo(c, p)
       /\ ctx' = [q \in Programs |-> IF q = cur[c] THEN "isr" ELSE ctx[q]]
    /\ UNCHANGED <<at, keyVars>>

(* int 0x80: SYS_READ_CHAR *)
SYS_READ_CHAR(c, p) ==
    /\ On(c, p, "user")
    /\ at' = [at EXCEPT ![p] = "poll"]
    /\ core_if' = [core_if EXCEPT ![c] = TRUE]
    /\ UNCHANGED <<ctx, cur, keyVars>>

(* Mutant: cli, the test, and no sti *)
MutPollKeepsCli(c, p) ==
    /\ On(c, p, "poll")
    /\ core_if' = [core_if EXCEPT ![c] = FALSE]
    /\ IF queue > 0
       THEN /\ queue' = queue - 1 /\ consumed' = consumed + 1
            /\ at' = [at EXCEPT ![p] = "got"]
       ELSE /\ at' = [at EXCEPT ![p] = "yield"]
            /\ UNCHANGED <<queue, consumed>>
    /\ UNCHANGED <<ctx, cur, irq1, pressed>>

(* keyboard_read_char(): cli, the test, sti *)
Poll(c, p) ==
    /\ On(c, p, "poll")
    /\ core_if' = [core_if EXCEPT ![c] = TRUE]
    /\ IF queue > 0
       THEN /\ queue' = queue - 1 /\ consumed' = consumed + 1
            /\ at' = [at EXCEPT ![p] = "got"]
       ELSE /\ at' = [at EXCEPT ![p] = "yield"]
            /\ UNCHANGED <<queue, consumed>>
    /\ UNCHANGED <<ctx, cur, irq1, pressed>>

(* No character yet: schedule(), and poll again *)
Yield(c, p) ==
    /\ On(c, p, "yield")
    /\ schedule(c)
    /\ at' = [at EXCEPT ![p] = "poll"]
    /\ UNCHANGED keyVars

(* The program has its character and goes on: it reads another *)
ReadAnother(c, p) ==
    /\ On(c, p, "got")
    /\ at' = [at EXCEPT ![p] = "user"]
    /\ UNCHANGED <<ctx, cur, core_if, keyVars>>

(* Mutant: the caller does not wait for the program it runs *)
MutExecDoesNotWait(c, p) ==
    /\ On(c, p, "got")
    /\ p < Depth /\ ~Alive(p + 1)
    /\ at' = [at EXCEPT ![p] = "user", ![p + 1] = "user"]
    /\ ctx' = [ctx EXCEPT ![p + 1] = "isr"]
    /\ UNCHANGED <<cur, core_if, keyVars>>

(* or it runs another program: SYS_EXEC, process_spawn_args_and_wait() *)
SYS_EXEC(c, p) ==
    /\ On(c, p, "got")
    /\ p < Depth /\ ~Alive(p + 1)
    /\ at' = [at EXCEPT ![p] = "wait", ![p + 1] = "user"]
    /\ ctx' = [ctx EXCEPT ![p + 1] = "isr"]
    /\ UNCHANGED <<cur, core_if, keyVars>>

(* while (thread_is_alive(tid)) schedule(); *)
Wait(c, p) ==
    /\ On(c, p, "wait")
    /\ IF Alive(p + 1)
       THEN schedule(c) /\ UNCHANGED at
       ELSE /\ at' = [at EXCEPT ![p] = "user"]
            /\ core_if' = [core_if EXCEPT ![c] = TRUE]
            /\ UNCHANGED <<ctx, cur>>
    /\ UNCHANGED keyVars

(* or it exits, which only a program another one runs does; the core goes on *)
(* with the next ready program or with its idle thread                       *)
SYS_EXIT(c, p) ==
    /\ On(c, p, "got")
    /\ p > 1
    /\ at' = [at EXCEPT ![p] = "unused"]
    /\ IF \E q \in Programs : Ready(q)
       THEN \E q \in Programs : NextReady(c, q) /\ SwitchTo(c, q)
       ELSE /\ cur' = [cur EXCEPT ![c] = Idle]
            /\ core_if' = [core_if EXCEPT ![c] = TRUE]
    /\ UNCHANGED <<ctx, keyVars>>

(* A key is pressed while no request is pending *)
PressKey ==
    /\ ~irq1 /\ pressed < MaxPressed
    /\ irq1' = TRUE
    /\ pressed' = pressed + 1
    /\ UNCHANGED <<at, ctx, cur, core_if, queue, consumed>>

(* keyboard_irq_handler() on the boot core; a full buffer drops the key *)
Irq1Handler ==
    /\ Interruptible(BootCore)
    /\ irq1' = FALSE
    /\ queue' = IF queue < Capacity THEN queue + 1 ELSE queue
    /\ UNCHANGED <<at, ctx, cur, core_if, pressed, consumed>>

ProgramStep(p) ==
    \E c \in Cores :
       \/ SYS_READ_CHAR(c, p) \/ Poll(c, p) \/ Yield(c, p)
       \/ ReadAnother(c, p) \/ SYS_EXEC(c, p) \/ SYS_EXIT(c, p) \/ Wait(c, p)

ConsoleNext ==
    \/ PressKey
    \/ Irq1Handler
    \/ \E c \in Cores : TimerTick(c)
    \/ \E p \in Programs : ProgramStep(p)

ConsoleSpec == ConsoleInit /\ [][ConsoleNext]_console_vars

(* A pending request that may be taken is taken, a core's timer ticks while  *)
(* interrupts stay enabled, and a tick period is long enough for a program   *)
(* that is given a core again and again to execute.                          *)
FairSpec ==
    /\ ConsoleSpec
    /\ WF_console_vars(Irq1Handler)
    /\ \A c \in Cores : WF_console_vars(TimerTick(c))
    /\ \A p \in Programs : SF_console_vars(ProgramStep(p))

-----------------------------------------------------------------------------
(* Every variable has its type, and no program is on two cores.              *)
ConsoleTypeOK ==
    /\ at \in [Programs -> {"unused", "user", "poll", "yield", "got", "wait"}]
    /\ ctx \in [Programs -> {"isr", "call"}]
    /\ cur \in [Cores -> {Idle} \cup Programs]
    /\ core_if \in [Cores -> BOOLEAN]
    /\ irq1 \in BOOLEAN
    /\ queue \in 0 .. Capacity
    /\ pressed \in 0 .. MaxPressed /\ consumed \in 0 .. MaxPressed
    /\ \A c, d \in Cores : c # d /\ cur[c] # Idle => cur[c] # cur[d]

(* However programs run one another, at most one of them reads the keyboard: *)
(* all others wait in SYS_EXEC.  keyboard_read_char(), which takes no lock,  *)
(* relies on it.  Every variable keeps its type.                             *)
SoleReader ==
    /\ ConsoleTypeOK
    /\ \A p, q \in Programs :
        at[p] \in {"poll", "yield"} /\ at[q] \in {"poll", "yield"} => p = q

(* The boot core is in the wait loop of SYS_EXEC with interrupts off, where  *)
(* schedule() left it when it found nothing else to run                      *)
BootCoreWaits == cur[BootCore] # Idle /\ at[cur[BootCore]] = "wait" /\ ~core_if[BootCore]

(* A key that is pressed, with room for it and none before it dropped        *)
KeyPressed(k) == pressed = k /\ irq1 /\ queue + consumed = k - 1 /\ queue < Capacity

(* A key that is pressed reaches the program in SYS_READ_CHAR: IRQ1 puts it  *)
(* into the buffer, and programs that wait in SYS_EXEC by calling schedule() *)
(* over and over do not keep the one that polls from getting a core.  There  *)
(* is one exception: the request stays pending for ever, while the boot core *)
(* waits so with interrupts off and the reader polls on another core.        *)
KeyMissedOnlyBehindWait ==
    \A k \in 1 .. MaxPressed :
        KeyPressed(k) ~> (consumed >= k \/ [](irq1 /\ BootCoreWaits))

-----------------------------------------------------------------------------
(* What a comment leads one to expect, and the code does not do *)

(* "blocks until a keystroke is available, returns it": a key that is        *)
(* pressed reaches the program in SYS_READ_CHAR, if there is room for it and *)
(* no earlier one was dropped.                                               *)
KeyReachesReader == \A k \in 1 .. MaxPressed : KeyPressed(k) ~> consumed >= k
=============================================================================
