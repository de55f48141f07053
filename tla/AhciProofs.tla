----------------------------- MODULE AhciProofs -----------------------------
(* The disk driver implements BlockDevice for every number of threads and    *)
(* cores, every disk and every set of commands.                              *)
(*                                                                           *)
(* The argument is mutual exclusion on the one command slot: TypeOK and      *)
(* SlotIsHolders are inductive, and under them a step of the driver or of    *)
(* the controller is a step of BlockDevice for the thread that holds         *)
(* ahci_lock, or no step at all.                                             *)
EXTENDS Ahci, TLAPS

Inv == TypeOK /\ SlotIsHolders

(* Nothing is in the slot when blockdev_init() is entered. *)
LEMMA InitInv == Init => Inv
<1> SUFFICES ASSUME Init PROVE Inv
  OBVIOUS
<1>1. TypeOK
  <2>1. engine \in {"firmware", "driver", "stopped"}
    BY DEF Init
  <2>2. pc \in [Threads -> Places] /\ cmd \in [Threads -> Commands \cup {None}]
    BY DEF Init, Places
  <2>3. slot \in [op : {"read", "write"}, lba : Nat, count : Nat, buf : Threads \cup {None}]
    BY DEF Init
  <2> QED BY <2>1, <2>2, <2>3, Zenon DEF Init, TypeOK
<1>2. SlotIsHolders
  BY AhciAssumption DEF Init, SlotIsHolders, Holding, InCall
<1> QED BY <1>1, <1>2 DEF Inv

(* A step that touches neither a call nor the slot keeps the invariant:      *)
(* ticks, the locks of vfs.c, spinning, a panic.                             *)
LEMMA OutsideInv ==
    ASSUME Inv, UNCHANGED <<boot_vars, slot, ci, err, moved, ahci_lock, cmd>>, panicked' \in BOOLEAN,
           NEW t \in Threads, NEW place \in Places \ InCall,
           pc' = pc \/ (boot = "ready" /\ pc[t] \notin InCall /\ pc' = [pc EXCEPT ![t] = place])
    PROVE  Inv'
BY DEF Inv, TypeOK, SlotIsHolders, Holding, InCall, Places, boot_vars

(* The steps of blockdev_init() happen before any call. *)
LEMMA BootInv == Inv /\ ~panicked /\ blockdev_init => Inv'
<1> SUFFICES ASSUME Inv, ~panicked, blockdev_init PROVE Inv'
  OBVIOUS
<1> USE DEF Inv, TypeOK, SlotIsHolders, Holding, InCall, Places, panic, boot_vars,
            thread_vars, sched_vars, hba_vars, lock_vars
<1>1. ASSUME NEW bus \in Buses, NEW ports \in Controllers, FindPort(bus, ports) PROVE Inv'
  BY <1>1, ZenonT(60) DEF FindPort
<1>2. CASE port_stop
  BY <1>2, Zenon DEF port_stop
<1>3. CASE port_stop_poll
  <2>1. CASE panic
    BY <2>1
  <2>2. CASE ~panic
    BY <1>3, <2>2 DEF port_stop_poll
  <2> QED BY <2>1, <2>2, Zenon
<1>4. CASE AllocStructures
  <2>1. CASE panic
    BY <2>1
  <2>2. CASE ~panic
    BY <1>4, <2>2 DEF AllocStructures
  <2> QED BY <2>1, <2>2, Zenon
<1>5. CASE port_start
  BY <1>5, ZenonT(60) DEF port_start
<1> QED BY <1>1, <1>2, <1>3, <1>4, <1>5 DEF blockdev_init

(* The controller changes neither the slot's command nor who holds it. *)
LEMMA HbaInv == Inv /\ Hba => Inv'
<1> SUFFICES ASSUME Inv, Hba PROVE Inv'
  OBVIOUS
<1> USE DEF Inv, TypeOK, SlotIsHolders, boot_vars, thread_vars, sched_vars, hba_vars, lock_vars
<1>1. CASE EngineStops
  BY <1>1 DEF EngineStops
<1>2. CASE EngineStarts
  BY <1>2 DEF EngineStarts
<1>3. CASE HbaMoves
  BY <1>3 DEF HbaMoves
<1>4. CASE HbaCompletes
  BY <1>4, Zenon DEF HbaCompletes
<1>5. CASE HbaFails
  BY <1>5, ZenonT(60) DEF HbaFails
<1> QED BY <1>1, <1>2, <1>3, <1>4, <1>5 DEF Hba

(* The two steps at the ends of a call. *)
LEMMA CallInv ==
    ASSUME NEW t \in Threads, Inv, Calls(t) PROVE Inv'
<1>1. PICK c \in Commands, b \in Buffers : Call(t, c, b)
  BY DEF Calls
<1> QED BY <1>1, AhciAssumption
        DEF Call, Goto, At, Running, Inv, TypeOK, SlotIsHolders, Holding, InCall, Places,
            boot_vars, sched_vars, lock_vars

(* A call returns to its caller. *)
LEMMA ReturnedInv ==
    ASSUME NEW t \in Threads, Inv, pc[t] \in {"enter", "restore"}, Returned(t),
           UNCHANGED <<boot_vars, lock_vars, panicked>>
    PROVE  Inv'
<1> DEFINE place == IF t \in Direct THEN "idle" ELSE "vfs_release"
<1>1. place \in {"idle", "vfs_release"} /\ pc' = [pc EXCEPT ![t] = place]
  BY DEF Returned, Goto
<1> HIDE DEF place
<1> QED BY <1>1 DEF Returned, Inv, TypeOK, SlotIsHolders, Holding, InCall, Places,
                    boot_vars, lock_vars

(* issue_rw_command() keeps the invariant: only the holder of ahci_lock      *)
(* writes the slot, and it writes its own command.                           *)
LEMMA IssueInv ==
    ASSUME NEW t \in Threads, Inv, issue_rw_command(t) PROVE Inv'
<1> USE DEF Inv, TypeOK, SlotIsHolders, Holding, InCall, Places, At, Running, Goto,
            boot_vars, sched_vars, hba_vars, lock_vars
<1>1. CASE NoSectors(t)
  BY <1>1, ReturnedInv DEF NoSectors
<1>2. CASE irq_save_disable(t)
  BY <1>2 DEF irq_save_disable
<1>3. CASE spinlock_acquire(t)
  BY <1>3, AhciAssumption DEF spinlock_acquire
<1>4. CASE BuildFis(t)
  <2>1. cmd[t] \in [op : {"read", "write"}, lba : 0 .. Sectors - 1, count : 0 .. MaxCount]
    BY <1>4, AhciAssumption DEF BuildFis
  <2>2. slot' = [op |-> cmd[t].op, lba |-> cmd[t].lba, count |-> cmd[t].count, buf |-> slot.buf]
    BY <1>4, Zenon DEF BuildFis
  <2>3. slot' \in [op : {"read", "write"}, lba : Nat, count : Nat, buf : Threads \cup {None}]
    BY <2>1, <2>2, AhciAssumption
  <2>4. slot'.op = cmd[t].op /\ slot'.lba = cmd[t].lba /\ slot'.count = cmd[t].count
    BY <2>2
  <2> HIDE DEF Inv
  <2>5. TypeOK'
    BY <1>4, <2>3 DEF BuildFis, Inv
  <2>6. SlotIsHolders'
    BY <1>4, <2>4 DEF BuildFis, Inv
  <2> QED BY <2>5, <2>6 DEF Inv
<1>5. CASE BuildPrdt(t)
  BY <1>5 DEF BuildPrdt
<1>6. CASE Issue(t)
  BY <1>6 DEF Issue
<1>7. CASE Poll(t)
  <2>1. CASE panic
    BY <2>1 DEF panic, thread_vars
  <2>2. CASE ~panic
    BY <1>7, <2>2, SMTT(60) DEF Poll
  <2> QED BY <2>1, <2>2
<1>8. CASE Check(t)
  <2>1. CASE panic
    BY <2>1 DEF panic, thread_vars
  <2>2. CASE ~panic
    BY <1>8, <2>2 DEF Check
  <2> QED BY <2>1, <2>2
<1>9. CASE spinlock_release(t)
  BY <1>9, AhciAssumption, SMTT(60) DEF spinlock_release
<1>10. CASE irq_restore(t)
  BY <1>10, ReturnedInv DEF irq_restore
<1> QED BY <1>1, <1>2, <1>3, <1>4, <1>5, <1>6, <1>7, <1>8, <1>9, <1>10, Zenon DEF issue_rw_command

(* Every step keeps the invariant. *)
LEMMA NextInv == Inv /\ [Next]_vars => Inv'
<1> SUFFICES ASSUME Inv, [Next]_vars PROVE Inv'
  OBVIOUS
<1> USE DEF boot_vars, thread_vars, sched_vars, hba_vars, lock_vars
<1>1. CASE ~panicked /\ blockdev_init
  BY <1>1, BootInv
<1>2. ASSUME NEW t \in Threads, vfs_enter(t) \/ Section(t) PROVE Inv'
  BY <1>2, OutsideInv DEF vfs_enter, Section, vfs_acquire, vfs_release, vfs_leave, At, Running,
                          Goto, Places, InCall, Holding, Inv, TypeOK
<1>3. ASSUME NEW t \in Threads, Calls(t) PROVE Inv'
  BY <1>3, CallInv
<1>4. ASSUME NEW t \in Threads, issue_rw_command(t) PROVE Inv'
  BY <1>4, IssueInv, SMTT(60)
<1>5. ASSUME NEW t \in Threads, Spin(t) \/ Scheduled(t) PROVE Inv'
  BY <1>5 DEF Spin, Scheduled, Tick, vars, Inv, TypeOK, SlotIsHolders
<1>6. CASE Hba
  BY <1>6, HbaInv
<1>7. CASE Halted \/ UNCHANGED vars
  BY <1>7 DEF Halted, vars, Inv, TypeOK, SlotIsHolders
<1> QED BY <1>1, <1>2, <1>3, <1>4, <1>5, <1>6, <1>7 DEF Next

(* From the FIS to the release of ahci_lock the command slot belongs to one  *)
(* caller, whatever ticks and cores do.                                      *)
THEOREM SlotExclusive == Spec => []SlotIsHolders
<1>1. Spec => []Inv
  BY InitInv, NextInv, PTL DEF Spec
<1> QED BY <1>1, PTL DEF Inv

-----------------------------------------------------------------------------
(* A step that leaves the slot and the places of all calls alone changes     *)
(* nothing a caller can tell.                                                *)
LEMMA Unseen ==
    ASSUME UNCHANGED <<sectors, buf, cmd, moved, ci, err>>, Inv,
           NEW t \in Threads, NEW place \in Places \ InCall,
           pc' = pc \/ (pc[t] \notin InCall /\ pc' = [pc EXCEPT ![t] = place])
    PROVE  UNCHANGED Device!vars
BY DEF Device!vars, call, Inv, TypeOK, Places, InCall, Holding

(* Before a call is issued, and after it is over, its steps are unseen too:  *)
(* it stays waiting, or done.                                                *)
LEMMA StaysPut ==
    ASSUME UNCHANGED <<sectors, buf, cmd, moved, ci, err>>, Inv, NEW t \in Threads,
           NEW place \in Places, pc' = [pc EXCEPT ![t] = place],
           \/ {pc[t], place} \subseteq {"enter", "acquire", "fis", "prdt", "issue"}
           \/ pc[t] = "poll" /\ place = "check" /\ ~ci
           \/ pc[t] = "check" /\ place = "release" /\ ~err
           \/ pc[t] = "release" /\ place = "restore"
    PROVE  UNCHANGED Device!vars
BY DEF Device!vars, call, Inv, TypeOK

(* A call that returns. *)
LEMMA ReturnRefines ==
    ASSUME NEW t \in Threads, Inv, Returned(t) PROVE Device!Return(t)
<1> DEFINE place == IF t \in Direct THEN "idle" ELSE "vfs_release"
<1>1. place \in {"idle", "vfs_release"} /\ pc' = [pc EXCEPT ![t] = place]
  BY DEF Returned, Goto
<1> HIDE DEF place
<1>2. call' = [call EXCEPT ![t] = "none"]
  BY <1>1, Zenon DEF call, Returned, Inv, TypeOK
<1> QED BY <1>2 DEF Returned, Device!Return

(* Each step of issue_rw_command() is a step of BlockDevice for its caller,  *)
(* or none.                                                                  *)
LEMMA IssueRefines ==
    ASSUME NEW t \in Threads, Inv, issue_rw_command(t)
    PROVE  Device!Next \/ UNCHANGED Device!vars
<1> USE DEF At, Goto, boot_vars, sched_vars, hba_vars, lock_vars
<1>1. CASE NoSectors(t)
  <2>1. call[t] = "waiting" /\ Device!Return(t)
    BY <1>1, ReturnRefines DEF NoSectors, call
  <2> QED BY <1>1, <2>1 DEF NoSectors, Device!Skip, Device!Next
<1>2. CASE irq_save_disable(t) \/ spinlock_acquire(t) \/ BuildFis(t) \/ BuildPrdt(t)
  BY <1>2, StaysPut DEF irq_save_disable, spinlock_acquire, BuildFis, BuildPrdt, Places, InCall, Holding
<1>3. CASE Issue(t)
  <2>1. call[t] = "waiting" /\ cmd[t].count > 0
    BY <1>3, AhciAssumption DEF Issue, call, Inv, SlotIsHolders, InCall, Holding
  <2>2. \A u \in Threads : call[u] # "served"
    BY <1>3 DEF Issue, call, Inv, SlotIsHolders, Holding
  <2>3. call' = [call EXCEPT ![t] = "served"]
    <3>1. \A u \in Threads : pc[u] \in {"poll", "check"} => u = t
      BY <1>3 DEF Issue, Inv, SlotIsHolders, Holding
    <3>2. \A u \in Threads : u # t => pc[u] \notin {"poll", "check"} /\ pc'[u] = pc[u]
      BY <1>3, <3>1 DEF Issue, Inv, TypeOK
    <3>3. pc'[t] = "poll" /\ ci'
      BY <1>3 DEF Issue, Inv, TypeOK
    <3>4. \A u \in Threads : call'[u] = IF u = t THEN "served" ELSE call[u]
      BY <3>2, <3>3 DEF call
    <3> QED BY <3>4, Zenon DEF call
  <2> QED BY <1>3, <2>1, <2>2, <2>3, Zenon DEF Issue, Device!Start, Device!Next
<1>4. CASE Poll(t)
  <2>1. CASE panic
    BY <2>1, Unseen DEF panic, thread_vars, Device!vars, call
  <2>2. CASE ~panic
    BY <1>4, <2>2, StaysPut DEF Poll, Places, InCall, Holding
  <2> QED BY <2>1, <2>2
<1>5. CASE Check(t)
  <2>1. CASE panic
    BY <2>1 DEF panic, thread_vars, Device!vars, call
  <2>2. CASE ~panic
    BY <1>5, <2>2, StaysPut, SMTT(60) DEF Check, Places, InCall, Holding
  <2> QED BY <2>1, <2>2
<1>6. CASE spinlock_release(t)
  BY <1>6, StaysPut, Zenon DEF spinlock_release, Places, InCall, Holding
<1>7. CASE irq_restore(t)
  <2>1. call[t] = "done" /\ Device!Return(t)
    BY <1>7, ReturnRefines DEF irq_restore, call
  <2> QED BY <2>1 DEF Device!Next
<1> QED BY <1>1, <1>2, <1>3, <1>4, <1>5, <1>6, <1>7 DEF issue_rw_command

(* Each step of the controller is a step of the command in its slot. *)
LEMMA HbaRefines ==
    ASSUME Inv, Hba PROVE Device!Next \/ UNCHANGED Device!vars
<1> USE DEF boot_vars, thread_vars, sched_vars, hba_vars, lock_vars
<1>1. CASE EngineStops \/ EngineStarts
  BY <1>1 DEF EngineStops, EngineStarts, Device!vars, call
<1>2. CASE HbaMoves \/ HbaCompletes \/ HbaFails
  <2>1. PICK t \in Threads : pc[t] = "poll"
    BY <1>2 DEF HbaMoves, HbaCompletes, HbaFails, Inv, SlotIsHolders
  <2>2. call[t] = "served" /\ slot.op = cmd[t].op /\ slot.lba = cmd[t].lba
        /\ slot.count = cmd[t].count /\ slot.buf = t
    BY <1>2, <2>1 DEF HbaMoves, HbaCompletes, HbaFails, call, Inv, SlotIsHolders, Holding
  <2>3. boot = "ready" /\ engine # "firmware"
    BY <2>1 DEF Inv, SlotIsHolders
  <2>4. \A u \in Threads : pc[u] \in {"poll", "check"} => u = t
    BY <2>1 DEF Inv, SlotIsHolders, Holding
  <2>5. CASE HbaMoves
    <3>1. call' = call
      BY <2>5, SMTT(60) DEF HbaMoves, call
    <3> QED BY <2>2, <2>5, <3>1 DEF HbaMoves, Device!Move, Device!Next
  <2>6. CASE HbaCompletes
    <3>1. \A u \in Threads : call'[u] = IF u = t THEN "done" ELSE call[u]
      BY <2>1, <2>4, <2>6 DEF HbaCompletes, call
    <3>2. call' = [call EXCEPT ![t] = "done"]
      BY <3>1, Zenon DEF call
    <3> QED BY <2>2, <2>3, <2>6, <3>2, Zenon DEF HbaCompletes, Device!Finish, Device!Next
  <2>7. CASE HbaFails
    <3>1. \A u \in Threads : call'[u] = IF u = t THEN "failed" ELSE call[u]
      BY <2>1, <2>4, <2>7 DEF HbaFails, call
    <3>2. call' = [call EXCEPT ![t] = "failed"]
      BY <3>1, Zenon DEF call
    <3> QED BY <2>2, <2>7, <3>2, Zenon DEF HbaFails, Device!Fail, Device!Next
  <2> QED BY <1>2, <2>5, <2>6, <2>7
<1> QED BY <1>1, <1>2 DEF Hba

(* The driver implements BlockDevice: however many threads call it on        *)
(* however many cores, through vfs.c or not, and wherever ticks, errors and  *)
(* timeouts fall, a call moves exactly its own sectors through its own       *)
(* buffer and returns only when it has moved them all.                       *)
THEOREM Refinement == Spec => ImplementsBlockDevice
<1>1. Init => Device!Init
  BY DEF Init, Device!Init, call
<1>2. Inv /\ [Next]_vars => [Device!Next]_(Device!vars)
  <2> SUFFICES ASSUME Inv, [Next]_vars PROVE Device!Next \/ UNCHANGED Device!vars
    OBVIOUS
  <2> USE DEF boot_vars, thread_vars, sched_vars, hba_vars, lock_vars
  <2>1. CASE ~panicked /\ blockdev_init
    <3>1. UNCHANGED thread_vars
      BY <2>1 DEF blockdev_init, FindPort, port_stop, port_stop_poll, AllocStructures,
                  port_start, panic
    <3> QED BY <3>1 DEF Device!vars, call
  <2>2. ASSUME NEW t \in Threads, vfs_enter(t) \/ Section(t) PROVE UNCHANGED Device!vars
    BY <2>2, Unseen DEF vfs_enter, Section, vfs_acquire, vfs_release, vfs_leave, At, Goto,
                        Places, InCall, Holding
  <2>3. ASSUME NEW t \in Threads, Calls(t) PROVE Device!Next
    <3>1. PICK c \in Commands, b \in Buffers : Call(t, c, b)
      BY <2>3 DEF Calls
    <3>2. call[t] = "none" /\ call' = [call EXCEPT ![t] = "waiting"]
      BY <3>1, Zenon DEF Call, At, Goto, call, Inv, TypeOK
    <3>3. Device!Call(t, c, b)
      BY <3>1, <3>2 DEF Call, Device!Call
    <3> QED BY <3>3 DEF Device!Next
  <2>4. ASSUME NEW t \in Threads, issue_rw_command(t)
        PROVE  Device!Next \/ UNCHANGED Device!vars
    BY <2>4, IssueRefines
  <2>5. ASSUME NEW t \in Threads, Spin(t) \/ Scheduled(t) PROVE UNCHANGED Device!vars
    <3>1. UNCHANGED <<sectors, buf, cmd, moved, ci, err, pc>>
      BY <2>5, Zenon DEF Spin, Scheduled, Tick, vars
    <3> QED BY <3>1, Zenon DEF Device!vars, call
  <2>6. CASE Hba
    BY <2>6, HbaRefines
  <2>7. CASE Halted \/ UNCHANGED vars
    BY <2>7 DEF Halted, vars, Device!vars, call
  <2> QED BY <2>1, <2>2, <2>3, <2>4, <2>5, <2>6, <2>7 DEF Next
<1>3. Spec => []Inv
  BY InitInv, NextInv, PTL DEF Spec
<1> QED BY <1>1, <1>2, <1>3, PTL DEF Spec, ImplementsBlockDevice, Device!Spec
=============================================================================
