------------------------------ MODULE Keyboard ------------------------------
(* The ring buffer of kernel/src/keyboard.c.  IRQ1 is delivered to the boot  *)
(* core only, so there is one producer; keyboard_read_char() runs on         *)
(* whatever core its thread is on.  Its cli/sti keeps out the IRQ handler of *)
(* the reader's own core and nothing else, so every load and store of the    *)
(* ring is a step of its own.                                                *)
EXTENDS Integers, Sequences

CONSTANTS
    KEYBOARD_BUFFER_SIZE,
    Readers,               \* threads in keyboard_read_char(), each on its own core
    MaxKeys                \* bound on the scancodes that arrive

ASSUME KeyboardAssumption ==
    KEYBOARD_BUFFER_SIZE \in Nat \ {0, 1} /\ MaxKeys \in Nat

VARIABLES
    buffer, buf_head, buf_tail,
    handler,    \* the IRQ handler: where it is, and the character it translated
    reader,     \* per reader: where it is, the index it loaded, the result
    scancodes,  \* how many scancodes have arrived; a keystroke is its number
    read,       \* history: the characters returned, in order
    dropped     \* history: the characters dropped

vars == <<buffer, buf_head, buf_tail, handler, reader, scancodes, read, dropped>>

Slots == 0 .. KEYBOARD_BUFFER_SIZE - 1
Keys == 1 .. MaxKeys
Succ(i) == (i + 1) % KEYBOARD_BUFFER_SIZE

Init ==
    /\ buffer = [i \in Slots |-> 0]
    /\ buf_head = 0 /\ buf_tail = 0
    /\ handler = [at |-> "iret", c |-> 0]
    /\ reader = [r \in Readers |-> [at |-> "idle", tail |-> 0, result |-> -1]]
    /\ scancodes = 0
    /\ read = <<>>
    /\ dropped = {}

(* keyboard_irq_handler(): a break code or a scancode without a character is *)
(* dropped, a make code's character goes to buffer_push().                   *)
keyboard_irq_handler(kind) ==
    /\ handler.at = "iret"
    /\ scancodes < MaxKeys
    /\ scancodes' = scancodes + 1
    /\ handler' = IF kind = "make"
                  THEN [at |-> "push", c |-> scancodes + 1]
                  ELSE handler
    /\ UNCHANGED <<buffer, buf_head, buf_tail, reader, read, dropped>>

(* Mutant: a full ring is taken for one with room *)
MutPushIgnoresFull ==
    /\ handler.at = "push"
    /\ handler' = [handler EXCEPT !.at = "store"]
    /\ UNCHANGED <<buffer, buf_head, buf_tail, reader, scancodes, read, dropped>>

(* buffer_push(): the keystroke is dropped when next == buf_tail *)
PushTest ==
    /\ handler.at = "push"
    /\ IF Succ(buf_head) = buf_tail
       THEN /\ handler' = [handler EXCEPT !.at = "iret"]
            /\ dropped' = dropped \cup {handler.c}
       ELSE /\ handler' = [handler EXCEPT !.at = "store"]
            /\ UNCHANGED dropped
    /\ UNCHANGED <<buffer, buf_head, buf_tail, reader, scancodes, read>>

(* buffer[buf_head] = c *)
PushStore ==
    /\ handler.at = "store"
    /\ buffer' = [buffer EXCEPT ![buf_head] = handler.c]
    /\ handler' = [handler EXCEPT !.at = "publish"]
    /\ UNCHANGED <<buf_head, buf_tail, reader, scancodes, read, dropped>>

(* buf_head = next *)
PushPublish ==
    /\ handler.at = "publish"
    /\ buf_head' = Succ(buf_head)
    /\ handler' = [handler EXCEPT !.at = "iret"]
    /\ UNCHANGED <<buffer, buf_tail, reader, scancodes, read, dropped>>

(* keyboard_read_char(): -1 when the ring is empty *)
ReadTest(r) ==
    /\ reader[r].at = "idle"
    /\ reader' = [reader EXCEPT ![r] =
            IF buf_tail = buf_head
            THEN [at |-> "idle", tail |-> 0, result |-> -1]
            ELSE [at |-> "load", tail |-> buf_tail, result |-> -1]]
    /\ UNCHANGED <<buffer, buf_head, buf_tail, handler, scancodes, read, dropped>>

(* result = buffer[buf_tail] *)
ReadLoad(r) ==
    /\ reader[r].at = "load"
    /\ reader' = [reader EXCEPT ![r].at = "advance", ![r].result = buffer[reader[r].tail]]
    /\ UNCHANGED <<buffer, buf_head, buf_tail, handler, scancodes, read, dropped>>

(* buf_tail advances, and the character is returned *)
ReadAdvance(r) ==
    /\ reader[r].at = "advance"
    /\ buf_tail' = Succ(reader[r].tail)
    /\ reader' = [reader EXCEPT ![r] = [at |-> "idle", tail |-> 0, result |-> -1]]
    /\ read' = Append(read, reader[r].result)
    /\ UNCHANGED <<buffer, buf_head, handler, scancodes, dropped>>

Handler ==
    \/ \E kind \in {"make", "break", "unmapped"} : keyboard_irq_handler(kind)
    \/ PushTest \/ PushStore \/ PushPublish

keyboard_read_char(r) == ReadTest(r) \/ ReadLoad(r) \/ ReadAdvance(r)

Next == Handler \/ \E r \in Readers : keyboard_read_char(r)

Spec == Init /\ [][Next]_vars

-----------------------------------------------------------------------------
(* The characters between tail and head, oldest first *)
Unread ==
    LET n == (buf_head - buf_tail + KEYBOARD_BUFFER_SIZE) % KEYBOARD_BUFFER_SIZE
    IN  [i \in 1 .. n |-> buffer[(buf_tail + i - 1) % KEYBOARD_BUFFER_SIZE]]

(* Every variable has its type: the two indices stay inside buffer[].        *)
TypeOK ==
    /\ buffer \in [Slots -> {0} \cup Keys]
    /\ buf_head \in Slots /\ buf_tail \in Slots
    /\ handler \in [at : {"iret", "push", "store", "publish"}, c : {0} \cup Keys]
    /\ reader \in [Readers -> [at : {"idle", "load", "advance"}, tail : Slots,
                               result : {-1, 0} \cup Keys]]
    /\ scancodes \in 0 .. MaxKeys
    /\ read \in Seq({0} \cup Keys)
    /\ dropped \subseteq Keys

(* With the handler on one core and the reader on another the ring is a      *)
(* bounded queue: buffer_push() never clobbers an unread character and drops *)
(* one only when KEYBOARD_BUFFER_SIZE - 1 are unread.                        *)
Queue == INSTANCE BoundedQueue WITH
    Item <- Keys, Capacity <- KEYBOARD_BUFFER_SIZE - 1, queue <- Unread

ImplementsBoundedQueue == Queue!Spec
=============================================================================
