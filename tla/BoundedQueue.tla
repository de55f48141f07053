---------------------------- MODULE BoundedQueue ----------------------------
(* What the keyboard's character ring (keyboard.h) and the network card's    *)
(* receive ring (e1000.h) promise: items wait in a bounded queue, are read   *)
(* once each in the order they came, and an item is lost only when it        *)
(* arrives at a full queue.                                                  *)
EXTENDS Naturals, Sequences

CONSTANTS
    Item,      \* keystrokes, frames
    Capacity   \* how many of them the queue holds

VARIABLES
    queue,     \* the items not read yet, oldest first
    read,      \* the items handed to readers, in order
    dropped    \* the items lost

Init == queue = <<>> /\ read = <<>> /\ dropped = {}

Push(k) ==
    /\ Len(queue) < Capacity
    /\ queue' = Append(queue, k)
    /\ UNCHANGED <<read, dropped>>

Drop(k) ==
    /\ Len(queue) = Capacity
    /\ dropped' = dropped \cup {k}
    /\ UNCHANGED <<queue, read>>

Pop ==
    /\ queue # <<>>
    /\ read' = Append(read, Head(queue))
    /\ queue' = Tail(queue)
    /\ UNCHANGED dropped

Next == (\E k \in Item : Push(k) \/ Drop(k)) \/ Pop

Spec == Init /\ [][Next]_<<queue, read, dropped>>
=============================================================================
