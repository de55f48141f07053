-------------------------------- MODULE Ahci --------------------------------
(* The disk driver kernel/src/ahci.c: bringing a port up with structures of  *)
(* the kernel's own, and issue_rw_command() on the controller's one command  *)
(* slot, called by threads that are preempted by timer ticks and run on      *)
(* several cores.  Threads outside Direct call it inside the section of      *)
(* vfs.c (interrupts off, fat16_vfs_lock held), the others at once.          *)
EXTENDS Integers, FiniteSets

CONSTANTS
    Threads, Cores, Direct,
    Sectors,        \* the number of sectors of the disk
    MaxCount,       \* the most sectors one command moves
    Commands, Buffers, Disks,
    Buses,          \* PCI buses: per device and function, [class, multi]
    Controllers,    \* what the ports of the controller report
    None

ASSUME AhciAssumption ==
    /\ Sectors \in Nat /\ MaxCount \in Nat
    /\ Commands \subseteq [op : {"read", "write"}, lba : 0 .. Sectors - 1, count : 0 .. MaxCount]
    /\ \A c \in Commands : c.lba + c.count <= Sectors
    /\ None \notin Threads

(* The sectors that the 22 bits of prdt[0].dbc_flags can count.              *)
ASSUME PrdtAssumption == MaxCount <= 8192

VARIABLES
    boot,       \* where blockdev_init() is; "ready" once it has returned
    port,       \* the port chosen
    st,         \* PORT_CMD_ST and PORT_CMD_FRE
    clb,        \* whose structures PORT_CLB and PORT_FB name
    engine,     \* whose structures the running engine reads, or "stopped"
    on,         \* per core: the thread on it
    iflag,      \* per thread: interrupts enabled
    pc, cmd, irq_flags, vfs_flags,
    ahci_lock, fat16_vfs_lock,
    slot,       \* the command table and header of slot 0
    ci, err,    \* PORT_CI bit 0, PORT_TFD_ERR
    moved,      \* the sectors the controller has moved for the command
    sectors, buf,
    panicked

boot_vars == <<boot, port, st, clb, engine>>
sched_vars == <<on, iflag, irq_flags, vfs_flags>>
hba_vars == <<slot, ci, err, moved, sectors, buf>>
lock_vars == <<ahci_lock, fat16_vfs_lock>>
thread_vars == <<sched_vars, hba_vars, lock_vars, pc, cmd>>
vars == <<boot_vars, thread_vars, panicked>>

Init ==
    /\ boot = "find" /\ port = None
    /\ st \in BOOLEAN /\ clb = "firmware"
    /\ engine = IF st THEN "firmware" ELSE "stopped"
    /\ on \in [Cores -> Threads]
    /\ \A c, d \in Cores : c # d => on[c] # on[d]
    /\ iflag = [t \in Threads |-> TRUE]
    /\ irq_flags = [t \in Threads |-> TRUE] /\ vfs_flags = [t \in Threads |-> TRUE]
    /\ pc = [t \in Threads |-> "idle"]
    /\ cmd = [t \in Threads |-> None] /\ buf = [t \in Threads |-> None]
    /\ ahci_lock = None /\ fat16_vfs_lock = None
    /\ slot = [op |-> "read", lba |-> 0, count |-> 0, buf |-> None]
    /\ ci = FALSE /\ err = FALSE /\ moved = 0
    /\ sectors \in Disks
    /\ panicked = FALSE

panic ==
    /\ panicked' = TRUE
    /\ UNCHANGED <<boot_vars, thread_vars>>

-----------------------------------------------------------------------------
(* blockdev_init() *)

(* The functions of a device the scan looks at: all eight, unless function 0 *)
(* is there and says the device has no other.                                *)
Scanned(functions) ==
    {f \in DOMAIN functions : f = 0 \/ functions[0].class = None \/ functions[0].multi}

(* The first match in the order of the scan, or None *)
pci_find_device(bus, class) ==
    LET seen == UNION {{<<d, f>> : f \in Scanned(bus[d])} : d \in DOMAIN bus}
        found == {x \in seen : bus[x[1]][x[2]].class = class}
    IN  IF found = {} THEN None
        ELSE CHOOSE x \in found : \A y \in found :
                x[1] < y[1] \/ (x[1] = y[1] /\ x[2] <= y[2])

(* The first implemented port with a disk that answers *)
DiskPorts(ports) ==
    {i \in DOMAIN ports : ports[i].implemented /\ ports[i].det = 3 /\ ports[i].sig = "disk"}

FindPort(bus, ports) ==
    /\ boot = "find"
    /\ IF pci_find_device(bus, "ahci") = None \/ DiskPorts(ports) = {}
       THEN panic
       ELSE /\ port' = CHOOSE i \in DiskPorts(ports) : \A j \in DiskPorts(ports) : i <= j
            /\ boot' = "port_stop"
            /\ UNCHANGED <<st, clb, engine, thread_vars, panicked>>

port_stop ==
    /\ boot = "port_stop"
    /\ st' = FALSE
    /\ boot' = "stopping"
    /\ UNCHANGED <<port, clb, engine, thread_vars, panicked>>

(* The poll of port_stop(): the engine stops, or the limit on spins is hit *)
port_stop_poll ==
    /\ boot = "stopping"
    /\ \/ /\ engine = "stopped"
          /\ boot' = "alloc"
          /\ UNCHANGED <<port, st, clb, engine, thread_vars, panicked>>
       \/ engine # "stopped" /\ panic

(* Three pages from the page allocator, which may have none left *)
AllocStructures ==
    /\ boot = "alloc"
    /\ \/ /\ clb' = "driver"
          /\ boot' = "port_start"
          /\ UNCHANGED <<port, st, engine, thread_vars, panicked>>
       \/ panic

port_start ==
    /\ boot = "port_start"
    /\ IF engine # "stopped"
       THEN panic
       ELSE /\ st' = TRUE
            /\ boot' = "ready"
            /\ UNCHANGED <<port, clb, engine, thread_vars, panicked>>

blockdev_init ==
    \/ \E bus \in Buses, ports \in Controllers : FindPort(bus, ports)
    \/ port_stop \/ port_stop_poll \/ AllocStructures \/ port_start

-----------------------------------------------------------------------------
(* The callers *)

Running(t) == ~panicked /\ boot = "ready" /\ \E c \in Cores : on[c] = t
At(t, place) == Running(t) /\ pc[t] = place
Goto(t, place) == pc' = [pc EXCEPT ![t] = place]

(* The entry of vfs_read_file(), vfs_write_file() and vfs_list_dir():        *)
(* irq_save_disable(), then the spin for fat16_vfs_lock.                     *)
vfs_enter(t) ==
    /\ t \notin Direct /\ At(t, "idle")
    /\ vfs_flags' = [vfs_flags EXCEPT ![t] = iflag[t]]
    /\ iflag' = [iflag EXCEPT ![t] = FALSE]
    /\ Goto(t, "vfs_lock")
    /\ UNCHANGED <<boot_vars, on, irq_flags, hba_vars, lock_vars, cmd, panicked>>

vfs_acquire(t) ==
    /\ At(t, "vfs_lock") /\ fat16_vfs_lock = None
    /\ fat16_vfs_lock' = t
    /\ Goto(t, "in_vfs")
    /\ UNCHANGED <<boot_vars, sched_vars, hba_vars, ahci_lock, cmd, panicked>>

vfs_release(t) ==
    /\ At(t, "vfs_release")
    /\ fat16_vfs_lock' = None
    /\ Goto(t, "vfs_restore")
    /\ UNCHANGED <<boot_vars, sched_vars, hba_vars, ahci_lock, cmd, panicked>>

vfs_leave(t) ==
    /\ At(t, "vfs_restore")
    /\ iflag' = [iflag EXCEPT ![t] = vfs_flags[t]]
    /\ Goto(t, "idle")
    /\ UNCHANGED <<boot_vars, on, irq_flags, vfs_flags, hba_vars, lock_vars, cmd, panicked>>

-----------------------------------------------------------------------------
(* issue_rw_command(): blockdev_read_sectors() and blockdev_write_sectors()  *)
(* of command c with buffer contents b                                       *)
Call(t, c, b) ==
    /\ At(t, IF t \in Direct THEN "idle" ELSE "in_vfs")
    /\ cmd' = [cmd EXCEPT ![t] = c]
    /\ buf' = [buf EXCEPT ![t] = b]
    /\ Goto(t, "enter")
    /\ UNCHANGED <<boot_vars, sched_vars, slot, ci, err, moved, sectors, lock_vars, panicked>>

(* The caller has its result, and the call's arguments are gone *)
Returned(t) ==
    /\ Goto(t, IF t \in Direct THEN "idle" ELSE "vfs_release")
    /\ cmd' = [cmd EXCEPT ![t] = None]
    /\ buf' = [buf EXCEPT ![t] = None]
    /\ UNCHANGED <<slot, ci, err, moved, sectors>>

NoSectors(t) ==
    /\ At(t, "enter") /\ cmd[t].count = 0
    /\ Returned(t)
    /\ UNCHANGED <<boot_vars, sched_vars, lock_vars, panicked>>

(* Mutant: interrupts stay on while the command is in flight *)
MutSaveOnly(t) ==
    /\ At(t, "enter") /\ cmd[t].count # 0
    /\ irq_flags' = [irq_flags EXCEPT ![t] = iflag[t]]
    /\ Goto(t, "acquire")
    /\ UNCHANGED <<boot_vars, on, iflag, vfs_flags, hba_vars, lock_vars, cmd, panicked>>

irq_save_disable(t) ==
    /\ At(t, "enter") /\ cmd[t].count # 0
    /\ irq_flags' = [irq_flags EXCEPT ![t] = iflag[t]]
    /\ iflag' = [iflag EXCEPT ![t] = FALSE]
    /\ Goto(t, "acquire")
    /\ UNCHANGED <<boot_vars, on, vfs_flags, hba_vars, lock_vars, cmd, panicked>>

(* Mutant: the slot is programmed without waiting for the lock *)
MutNoLock(t) ==
    /\ At(t, "acquire")
    /\ ahci_lock' = t
    /\ Goto(t, "fis")
    /\ UNCHANGED <<boot_vars, sched_vars, hba_vars, fat16_vfs_lock, cmd, panicked>>

spinlock_acquire(t) ==
    /\ At(t, "acquire") /\ ahci_lock = None
    /\ ahci_lock' = t
    /\ Goto(t, "fis")
    /\ UNCHANGED <<boot_vars, sched_vars, hba_vars, fat16_vfs_lock, cmd, panicked>>

(* The command FIS: direction, first sector and count *)
BuildFis(t) ==
    /\ At(t, "fis")
    /\ slot' = [slot EXCEPT !.op = cmd[t].op, !.lba = cmd[t].lba, !.count = cmd[t].count]
    /\ Goto(t, "prdt")
    /\ UNCHANGED <<boot_vars, sched_vars, ci, err, moved, sectors, buf, lock_vars, cmd, panicked>>

(* The region descriptor, which names the caller's buffer, and the header.   *)
(* The code keeps 32 bits of the buffer's address and 22 of its length:      *)
(* buffers are taken to lie below 4 GiB, where the identity map puts every   *)
(* kernel buffer, and MaxCount bounds the length.                            *)
BuildPrdt(t) ==
    /\ At(t, "prdt")
    /\ slot' = [slot EXCEPT !.buf = t]
    /\ Goto(t, "issue")
    /\ UNCHANGED <<boot_vars, sched_vars, ci, err, moved, sectors, buf, lock_vars, cmd, panicked>>

Issue(t) ==
    /\ At(t, "issue")
    /\ ci' = TRUE /\ moved' = 0
    /\ Goto(t, "poll")
    /\ UNCHANGED <<boot_vars, sched_vars, slot, err, sectors, buf, lock_vars, cmd, panicked>>

(* The poll of PORT_CI: the command is over, or the limit on spins is hit *)
Poll(t) ==
    /\ At(t, "poll")
    /\ \/ /\ ~ci
          /\ Goto(t, "check")
          /\ UNCHANGED <<boot_vars, sched_vars, hba_vars, lock_vars, cmd, panicked>>
       \/ ci /\ panic

(* PORT_TFD *)
Check(t) ==
    /\ At(t, "check")
    /\ \/ /\ ~err
          /\ Goto(t, "release")
          /\ UNCHANGED <<boot_vars, sched_vars, hba_vars, lock_vars, cmd, panicked>>
       \/ err /\ panic

spinlock_release(t) ==
    /\ At(t, "release")
    /\ ahci_lock' = None
    /\ Goto(t, "restore")
    /\ UNCHANGED <<boot_vars, sched_vars, hba_vars, fat16_vfs_lock, cmd, panicked>>

irq_restore(t) ==
    /\ At(t, "restore")
    /\ iflag' = [iflag EXCEPT ![t] = irq_flags[t]]
    /\ Returned(t)
    /\ UNCHANGED <<boot_vars, on, irq_flags, vfs_flags, lock_vars, panicked>>

issue_rw_command(t) ==
    \/ NoSectors(t) \/ irq_save_disable(t) \/ spinlock_acquire(t) \/ BuildFis(t)
    \/ BuildPrdt(t) \/ Issue(t) \/ Poll(t) \/ Check(t) \/ spinlock_release(t)
    \/ irq_restore(t)

-----------------------------------------------------------------------------
(* The controller *)

EngineStops ==
    /\ ~panicked /\ ~st /\ engine # "stopped"
    /\ engine' = "stopped"
    /\ UNCHANGED <<boot, port, st, clb, thread_vars, panicked>>

EngineStarts ==
    /\ ~panicked /\ st /\ engine = "stopped"
    /\ engine' = clb
    /\ UNCHANGED <<boot, port, st, clb, thread_vars, panicked>>

(* One sector of the command in slot 0 moves between the disk and memory.    *)
(* An engine left on the firmware's structures moves nothing of it.          *)
HbaMoves ==
    /\ ~panicked /\ ci /\ engine = "driver" /\ moved < slot.count
    /\ moved' = moved + 1
    /\ LET s == slot.lba + moved
       IN  \/ /\ slot.op = "read"
              /\ buf' = [buf EXCEPT ![slot.buf][moved] = sectors[s]]
              /\ UNCHANGED sectors
           \/ /\ slot.op = "write"
              /\ sectors' = [sectors EXCEPT ![s] = buf[slot.buf][moved]]
              /\ UNCHANGED buf
    /\ UNCHANGED <<boot_vars, sched_vars, slot, ci, err, lock_vars, pc, cmd, panicked>>

HbaCompletes ==
    /\ ~panicked /\ ci
    /\ engine = "firmware" \/ (engine = "driver" /\ moved = slot.count)
    /\ ci' = FALSE /\ err' = FALSE
    /\ UNCHANGED <<boot_vars, sched_vars, slot, moved, sectors, buf, lock_vars, pc, cmd, panicked>>

HbaFails ==
    /\ ~panicked /\ ci /\ engine = "driver"
    /\ ci' = FALSE /\ err' = TRUE
    /\ UNCHANGED <<boot_vars, sched_vars, slot, moved, sectors, buf, lock_vars, pc, cmd, panicked>>

Hba == EngineStops \/ EngineStarts \/ HbaMoves \/ HbaCompletes \/ HbaFails

(* A tick on core c: the scheduler puts thread t on it *)
Tick(c, t) ==
    /\ ~panicked /\ boot = "ready"
    /\ iflag[on[c]]
    /\ \A d \in Cores : on[d] # t
    /\ on' = [on EXCEPT ![c] = t]
    /\ UNCHANGED <<boot_vars, iflag, irq_flags, vfs_flags, hba_vars, lock_vars, pc, cmd, panicked>>

(* The inner loop of spinlock_acquire() *)
Spin(t) ==
    /\ (At(t, "vfs_lock") /\ fat16_vfs_lock # None) \/ (At(t, "acquire") /\ ahci_lock # None)
    /\ UNCHANGED vars

Section(t) == vfs_acquire(t) \/ vfs_release(t) \/ vfs_leave(t)
Calls(t) == \E c \in Commands, b \in Buffers : Call(t, c, b)
Scheduled(t) == \E c \in Cores : Tick(c, t)
Halted == panicked /\ UNCHANGED vars

Next ==
    \/ ~panicked /\ blockdev_init
    \/ \E t \in Threads :
        vfs_enter(t) \/ Calls(t) \/ Section(t) \/ issue_rw_command(t) \/ Spin(t) \/ Scheduled(t)
    \/ Hba
    \/ Halted

Spec == Init /\ [][Next]_vars

(* A thread that has entered goes on whenever its core lets it, a spinning   *)
(* core gets a lock that is released again and again, and the scheduler      *)
(* leaves out no thread.  Nothing is assumed of the controller.              *)
FairSpec ==
    /\ Spec
    /\ \A t \in Threads :
        /\ SF_vars(Section(t) \/ issue_rw_command(t) \/ (t \notin Direct /\ Calls(t)))
        /\ SF_vars(Scheduled(t))

-----------------------------------------------------------------------------
Holding == {"fis", "prdt", "issue", "poll", "check", "release"}
InCall == {"enter", "acquire", "restore"} \cup Holding
Places == {"idle", "vfs_lock", "in_vfs", "vfs_release", "vfs_restore"} \cup InCall

(* Every variable the slot depends on has its type *)
TypeOK ==
    /\ boot \in {"find", "port_stop", "stopping", "alloc", "port_start", "ready"}
    /\ st \in BOOLEAN /\ ci \in BOOLEAN /\ err \in BOOLEAN /\ panicked \in BOOLEAN
    /\ clb \in {"firmware", "driver"} /\ engine \in {"firmware", "driver", "stopped"}
    /\ pc \in [Threads -> Places]
    /\ cmd \in [Threads -> Commands \cup {None}]
    /\ slot \in [op : {"read", "write"}, lba : Nat, count : Nat, buf : Threads \cup {None}]
    /\ moved \in Nat
    /\ ahci_lock \in Threads \cup {None}

(* From the FIS to the release of ahci_lock a thread has the slot to itself: *)
(* what it has written there is still its own command, and a command in      *)
(* flight is that of the thread polling for it.                              *)
SlotIsHolders ==
    /\ boot # "ready" => \A t \in Threads : pc[t] = "idle"
    /\ boot \in {"port_start", "ready"} => clb = "driver"
    /\ boot = "ready" => engine # "firmware"
    /\ \A t \in Threads :
        /\ pc[t] \in Holding <=> ahci_lock = t
        /\ pc[t] \in InCall => cmd[t] \in Commands
        /\ pc[t] \in InCall \ {"enter"} => cmd[t].count # 0
        /\ pc[t] \in Holding \ {"fis"} =>
                slot.op = cmd[t].op /\ slot.lba = cmd[t].lba /\ slot.count = cmd[t].count
        /\ pc[t] \in Holding \ {"fis", "prdt"} => slot.buf = t
    /\ ci => \E t \in Threads : pc[t] = "poll"

(* What a caller can tell: where its call is *)
call ==
    [t \in Threads |->
        IF pc[t] \in {"enter", "acquire", "fis", "prdt", "issue"} THEN "waiting"
        ELSE IF pc[t] = "poll" /\ ci THEN "served"
        ELSE IF pc[t] \in {"poll", "check"} /\ err THEN "failed"
        ELSE IF pc[t] \in {"poll", "check", "release", "restore"} THEN "done"
        ELSE "none"]

Device == INSTANCE BlockDevice

(* Whatever ticks, cores and errors do, the driver serves one command at a   *)
(* time with the sectors and the buffer of its own caller, and returns only  *)
(* when all of them have been moved: nobody gets "someone else's data".      *)
ImplementsBlockDevice == Device!Spec

(* A disk call comes back, or the kernel panics: no thread waits for a lock  *)
(* whose holder was preempted by a thread spinning with interrupts off.      *)
CallsReturn ==
    \A t \in Threads : pc[t] # "idle" ~> (pc[t] = "idle" \/ panicked)
=============================================================================
