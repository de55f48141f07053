---------------------------- MODULE BlockDevice ----------------------------
(* What blockdev.h promises fat16.c: read and write commands are served one  *)
(* at a time, each on its own sectors and its own buffer, and a call returns *)
(* only after all of its sectors have been moved.  A command that fails is   *)
(* never reported as done.                                                   *)
EXTENDS Naturals

CONSTANTS
    Threads,   \* the callers
    Commands,  \* records [op, lba, count]
    Buffers,   \* the contents a caller's buffer may have when it calls
    None

VARIABLES
    sectors,   \* the disk
    buf,       \* per caller: its buffer, during the call
    cmd,       \* per caller: its command
    call,      \* per caller: "none", "waiting", "served", "failed" or "done"
    moved      \* the sectors moved for the command being served

vars == <<sectors, buf, cmd, call, moved>>

Init ==
    /\ buf = [t \in Threads |-> None]
    /\ cmd = [t \in Threads |-> None]
    /\ call = [t \in Threads |-> "none"]
    /\ moved = 0

Call(t, c, b) ==
    /\ call[t] = "none"
    /\ call' = [call EXCEPT ![t] = "waiting"]
    /\ cmd' = [cmd EXCEPT ![t] = c]
    /\ buf' = [buf EXCEPT ![t] = b]
    /\ UNCHANGED <<sectors, moved>>

Return(t) ==
    /\ call' = [call EXCEPT ![t] = "none"]
    /\ cmd' = [cmd EXCEPT ![t] = None]
    /\ buf' = [buf EXCEPT ![t] = None]
    /\ UNCHANGED <<sectors, moved>>

(* A command for no sectors returns at once *)
Skip(t) ==
    /\ call[t] = "waiting" /\ cmd[t].count = 0
    /\ Return(t)

Start(t) ==
    /\ call[t] = "waiting" /\ cmd[t].count > 0
    /\ \A u \in Threads : call[u] # "served"
    /\ call' = [call EXCEPT ![t] = "served"]
    /\ moved' = 0
    /\ UNCHANGED <<sectors, buf, cmd>>

(* One sector goes from the disk to the buffer, or from the buffer to disk   *)
Move(t) ==
    /\ call[t] = "served" /\ moved < cmd[t].count
    /\ LET s == cmd[t].lba + moved
       IN  \/ /\ cmd[t].op = "read"
              /\ buf' = [buf EXCEPT ![t][moved] = sectors[s]]
              /\ UNCHANGED sectors
           \/ /\ cmd[t].op = "write"
              /\ sectors' = [sectors EXCEPT ![s] = buf[t][moved]]
              /\ UNCHANGED buf
    /\ moved' = moved + 1
    /\ UNCHANGED <<cmd, call>>

Finish(t) ==
    /\ call[t] = "served" /\ moved = cmd[t].count
    /\ call' = [call EXCEPT ![t] = "done"]
    /\ UNCHANGED <<sectors, buf, cmd, moved>>

Fail(t) ==
    /\ call[t] = "served"
    /\ call' = [call EXCEPT ![t] = "failed"]
    /\ UNCHANGED <<sectors, buf, cmd, moved>>

Next ==
    \E t \in Threads :
        \/ \E c \in Commands, b \in Buffers : Call(t, c, b)
        \/ Skip(t) \/ Start(t) \/ Move(t) \/ Finish(t) \/ Fail(t)
        \/ call[t] = "done" /\ Return(t)

Spec == Init /\ [][Next]_vars
=============================================================================
