----------------------------- MODULE InputProofs -----------------------------
(* Keyboard and mouse, for every size of the ring and of the screen and      *)
(* every sequence of keys and movements: the keyboard's ring is a bounded    *)
(* queue as long as one thread reads it, mouse_init() gets its answers, the  *)
(* position is that of the mouse, and programs that run one another read     *)
(* keys one at a time.                                                       *)
EXTENDS Ps2, Console, TLAPS

N == KEYBOARD_BUFFER_SIZE

(* The unread characters without the remainders *)
Count(h, t) == IF t <= h THEN h - t ELSE h - t + N
Slot(t, i) == IF t + i - 1 < N THEN t + i - 1 ELSE t + i - 1 - N
Window(b, h, t) == [i \in 1 .. Count(h, t) |-> b[Slot(t, i)]]

(* What holds between the loads and stores of the handler and of the one     *)
(* reader: the slot being filled lies outside the unread characters, and the *)
(* reader is at the oldest of them.                                          *)
RingInv ==
    /\ TypeOK
    /\ handler.at # "iret" => handler.c \in Keys
    /\ handler.at \in {"store", "publish"} => Succ(buf_head) # buf_tail
    /\ handler.at = "publish" => buffer[buf_head] = handler.c
    /\ \A r \in Readers :
        /\ reader[r].at # "idle" => reader[r].tail = buf_tail /\ buf_tail # buf_head
        /\ reader[r].at = "advance" => reader[r].result = buffer[buf_tail]

-----------------------------------------------------------------------------
(* Stepping an index round the ring *)
LEMMA SuccOf ==
    ASSUME NEW i \in Slots
    PROVE  Succ(i) = (IF i + 1 = N THEN 0 ELSE i + 1) /\ Succ(i) \in Slots
<1>1. N \in Nat /\ N > 1 /\ i \in Nat /\ i < N
    BY KeyboardAssumption DEF Slots, N
<1>2. CASE i + 1 = N
  <2>1. N % N = 0
    BY <1>1
  <2> QED BY <1>1, <1>2, <2>1 DEF Succ, N, Slots
<1>3. CASE i + 1 # N
  <2>1. (i + 1) % N = i + 1
    BY <1>1, <1>3
  <2> QED BY <1>1, <1>3, <2>1 DEF Succ, N, Slots
<1> QED BY <1>2, <1>3

(* The refinement mapping in terms of Window *)
LEMMA UnreadIsWindow ==
    ASSUME NEW b, NEW h \in Slots, NEW t \in Slots
    PROVE  LET n == (h - t + KEYBOARD_BUFFER_SIZE) % KEYBOARD_BUFFER_SIZE
           IN  [i \in 1 .. n |-> b[(t + i - 1) % KEYBOARD_BUFFER_SIZE]] = Window(b, h, t)
<1>1. N \in Nat /\ N > 1 /\ h \in Nat /\ h < N /\ t \in Nat /\ t < N
    BY KeyboardAssumption DEF Slots, N
<1>2. (h - t + N) % N = Count(h, t)
  <2>1. CASE t <= h
    <3>1. h - t \in 0 .. N - 1
        BY <1>1, <2>1
    <3>2. \A k \in 0 .. N - 1 : (k + N) % N = k
        BY <1>1
    <3> QED BY <1>1, <2>1, <3>1, <3>2 DEF Count
  <2>2. CASE ~(t <= h)
    <3>1. h - t + N \in 0 .. N - 1
        BY <1>1, <2>2
    <3>2. \A k \in 0 .. N - 1 : k % N = k
        BY <1>1
    <3> QED BY <1>1, <2>2, <3>1, <3>2 DEF Count
  <2> QED BY <2>1, <2>2
<1>3. Count(h, t) \in 0 .. N - 1
    BY <1>1 DEF Count
<1>4. ASSUME NEW i \in 1 .. Count(h, t)
      PROVE  (t + i - 1) % N = Slot(t, i)
  <2>1. i \in Nat /\ i >= 1 /\ i < N
      BY <1>1, <1>3
  <2>2. CASE t + i - 1 < N
    <3>1. t + i - 1 \in 0 .. N - 1
        BY <1>1, <2>1, <2>2
    <3>2. \A k \in 0 .. N - 1 : k % N = k
        BY <1>1
    <3> QED BY <1>1, <2>2, <3>1, <3>2 DEF Slot
  <2>3. CASE ~(t + i - 1 < N)
    <3>1. t + i - 1 - N \in 0 .. N - 1
        BY <1>1, <2>1, <2>3
    <3>2. \A k \in 0 .. N - 1 : (k + N) % N = k
        BY <1>1
    <3>3. (t + i - 1 - N) + N = t + i - 1
        BY <1>1, <2>1
    <3> QED BY <1>1, <2>3, <3>1, <3>2, <3>3 DEF Slot
  <2> QED BY <2>2, <2>3
<1> QED BY <1>2, <1>4 DEF Window, N

(* The window is a sequence that holds at most N - 1 characters, and exactly *)
(* N - 1 when the slot after the head is the tail.                           *)
LEMMA WindowLen ==
    ASSUME NEW b, NEW h \in Slots, NEW t \in Slots
    PROVE  /\ Count(h, t) \in Nat /\ Len(Window(b, h, t)) = Count(h, t)
           /\ Count(h, t) <= N - 1
           /\ Count(h, t) = N - 1 <=> Succ(h) = t
           /\ Count(h, t) = 0 <=> h = t
<1>1. N \in Nat /\ N > 1 /\ h \in Nat /\ h < N /\ t \in Nat /\ t < N
    BY KeyboardAssumption DEF Slots, N
<1>2. Count(h, t) \in Nat
    BY <1>1 DEF Count
<1>3. Len(Window(b, h, t)) = Count(h, t)
    BY <1>2 DEF Window
<1> QED BY <1>1, <1>2, <1>3, SuccOf DEF Count

(* Storing at the head leaves the window alone: the head is not in it. *)
LEMMA StoreOutside ==
    ASSUME NEW b \in [Slots -> {0} \cup Keys], NEW h \in Slots, NEW t \in Slots, NEW c
    PROVE  Window([b EXCEPT ![h] = c], h, t) = Window(b, h, t)
<1>1. N \in Nat /\ N > 1 /\ h \in Nat /\ h < N /\ t \in Nat /\ t < N
    BY KeyboardAssumption DEF Slots, N
<1>2. ASSUME NEW i \in 1 .. Count(h, t)
      PROVE  Slot(t, i) \in Slots /\ Slot(t, i) # h
    BY <1>1 DEF Count, Slot, Slots, N
<1>3. ASSUME NEW i \in 1 .. Count(h, t)
      PROVE  [b EXCEPT ![h] = c][Slot(t, i)] = b[Slot(t, i)]
    BY <1>2
<1> QED BY <1>3 DEF Window

(* Publishing the head appends what lies in its slot. *)
LEMMA PublishAppends ==
    ASSUME NEW b, NEW h \in Slots, NEW t \in Slots, Succ(h) # t
    PROVE  Window(b, Succ(h), t) = Append(Window(b, h, t), b[h])
<1>1. N \in Nat /\ N > 1 /\ h \in Nat /\ h < N /\ t \in Nat /\ t < N
    BY KeyboardAssumption DEF Slots, N
<1>2. /\ Succ(h) \in Slots
      /\ Count(h, t) \in Nat
      /\ Count(Succ(h), t) = Count(h, t) + 1
      /\ Slot(t, Count(h, t) + 1) = h
    BY <1>1, SuccOf DEF Count, Slot
<1>3. /\ Window(b, h, t) = [i \in 1 .. Count(h, t) |-> b[Slot(t, i)]]
      /\ Window(b, Succ(h), t) = [i \in 1 .. Count(h, t) + 1 |-> b[Slot(t, i)]]
    BY <1>2 DEF Window
<1>4. Append([i \in 1 .. Count(h, t) |-> b[Slot(t, i)]], b[h])
        = [i \in 1 .. Count(h, t) + 1 |->
              IF i = Count(h, t) + 1 THEN b[h] ELSE b[Slot(t, i)]]
    BY <1>2
<1> QED BY <1>2, <1>3, <1>4

(* Advancing the tail removes what lies in its slot. *)
LEMMA AdvancePops ==
    ASSUME NEW b, NEW h \in Slots, NEW t \in Slots, t # h
    PROVE  /\ Window(b, h, t) # <<>>
           /\ Head(Window(b, h, t)) = b[t]
           /\ Window(b, h, Succ(t)) = Tail(Window(b, h, t))
<1>1. N \in Nat /\ N > 1 /\ h \in Nat /\ h < N /\ t \in Nat /\ t < N
    BY KeyboardAssumption DEF Slots, N
<1>2. /\ Succ(t) \in Slots
      /\ Count(h, t) \in Nat /\ Count(h, t) >= 1
      /\ Count(h, Succ(t)) = Count(h, t) - 1
      /\ Slot(t, 1) = t
    BY <1>1, SuccOf DEF Count, Slot
<1>3. ASSUME NEW i \in 1 .. Count(h, t) - 1
      PROVE  Slot(Succ(t), i) = Slot(t, i + 1)
    BY <1>1, <1>2, SuccOf DEF Count, Slot
<1>4. Len(Window(b, h, t)) = Count(h, t)
    BY WindowLen
<1>5. Tail(Window(b, h, t)) = [i \in 1 .. Count(h, t) - 1 |-> b[Slot(t, i + 1)]]
    BY <1>2 DEF Window
<1>6. Window(b, h, Succ(t)) = [i \in 1 .. Count(h, t) - 1 |-> b[Slot(Succ(t), i)]]
    BY <1>2 DEF Window
<1>7. Head(Window(b, h, t)) = b[t] /\ Window(b, h, t) # <<>>
    BY <1>2, <1>4 DEF Window
<1> QED BY <1>3, <1>5, <1>6, <1>7

-----------------------------------------------------------------------------
(* The invariant holds when keyboard_init() returns. *)
LEMMA RingInit == Init => RingInv
<1> SUFFICES ASSUME Init PROVE RingInv
    OBVIOUS
<1>1. 0 \in Slots
    BY KeyboardAssumption DEF Slots
<1> QED BY <1>1, KeyboardAssumption DEF Init, RingInv, TypeOK, Keys

(* What a step must do to the abstract queue *)
QueueStep == [Queue!Next]_<<Unread, read, dropped>>

(* The refinement mapping reads the window between tail and head, in a state ... *)
LEMMA UnreadWindow ==
    ASSUME TypeOK
    PROVE  Unread = Window(buffer, buf_head, buf_tail)
BY UnreadIsWindow, Zenon DEF TypeOK, Unread

(* ... and in the next one. *)
LEMMA UnreadWindowNext ==
    ASSUME TypeOK'
    PROVE  Unread' = Window(buffer', buf_head', buf_tail')
BY UnreadIsWindow, Zenon DEF TypeOK, Unread, Slots

(* keyboard_irq_handler() and the three steps of buffer_push() *)
LEMMA RingHandlerStep ==
    ASSUME RingInv, Handler
    PROVE  RingInv' /\ QueueStep
<1>0. TypeOK /\ Unread = Window(buffer, buf_head, buf_tail)
    BY UnreadWindow DEF RingInv
<1>1. ASSUME NEW kind \in {"make", "break", "unmapped"}, keyboard_irq_handler(kind)
      PROVE  RingInv' /\ QueueStep
  <2>1. scancodes' \in 0 .. MaxKeys /\ scancodes + 1 \in Keys
    BY <1>1, KeyboardAssumption DEF RingInv, TypeOK, keyboard_irq_handler, Keys
  <2>2. handler' \in [at : {"iret", "push", "store", "publish"}, c : {0} \cup Keys]
    BY <1>1, <2>1 DEF RingInv, TypeOK, keyboard_irq_handler
  <2>3. /\ handler'.at \in {"iret", "push"}
        /\ handler'.at # "iret" => handler'.c \in Keys
    BY <1>1, <2>1 DEF keyboard_irq_handler
  <2>4. RingInv'
    BY <1>1, <2>1, <2>2, <2>3 DEF RingInv, TypeOK, keyboard_irq_handler
  <2>5. QueueStep
    BY <1>1 DEF keyboard_irq_handler, QueueStep, Unread
  <2> QED BY <2>4, <2>5
<1>2. ASSUME PushTest PROVE RingInv' /\ QueueStep
  <2>1. handler.c \in Keys
    BY <1>2 DEF RingInv, PushTest
  <2>2. RingInv'
    BY <1>2, <2>1 DEF RingInv, TypeOK, PushTest, Succ
  <2>3. UNCHANGED <<Unread, read>>
    BY <1>2 DEF PushTest, Unread
  <2>4. CASE Succ(buf_head) = buf_tail
    <3>1. Len(Unread) = KEYBOARD_BUFFER_SIZE - 1
      <4>1. /\ KEYBOARD_BUFFER_SIZE \in Nat /\ KEYBOARD_BUFFER_SIZE > 1
            /\ buf_head \in Nat /\ buf_head < KEYBOARD_BUFFER_SIZE
        BY <1>0, KeyboardAssumption DEF TypeOK, Slots
      <4>2. Count(buf_head, buf_tail) = N - 1
        BY <1>0, <2>4, <4>1, SuccOf DEF TypeOK, Count, N
      <4> QED BY <1>0, <4>2, WindowLen DEF TypeOK, N
    <3>2. Queue!Drop(handler.c)
        BY <1>2, <2>3, <2>4, <3>1 DEF PushTest, Queue!Drop
    <3> QED BY <2>1, <2>2, <3>2 DEF QueueStep, Queue!Next
  <2>5. CASE Succ(buf_head) # buf_tail
    BY <1>2, <2>2, <2>3, <2>5 DEF PushTest, QueueStep
  <2> QED BY <2>4, <2>5
<1>3. ASSUME PushStore PROVE RingInv' /\ QueueStep
  <2>1. handler.c \in Keys
    BY <1>3 DEF RingInv, PushStore
  <2>2. TypeOK'
    BY <1>3, <2>1, <1>0 DEF TypeOK, PushStore
  <2>3. RingInv'
    BY <1>3, <2>1, <2>2, <1>0 DEF RingInv, TypeOK, PushStore, Succ
  <2>4. Window(buffer', buf_head, buf_tail) = Window(buffer, buf_head, buf_tail)
    BY <1>0, <1>3, StoreOutside, ZenonT(60), ZenonT(60) DEF TypeOK, PushStore
  <2>5. Unread' = Unread
    BY <1>0, <1>3, <2>2, <2>4, UnreadWindowNext DEF PushStore
  <2> QED BY <1>3, <2>3, <2>5 DEF PushStore, QueueStep
<1>4. ASSUME PushPublish PROVE RingInv' /\ QueueStep
  <2>1. handler.c \in Keys /\ buffer[buf_head] = handler.c /\ Succ(buf_head) # buf_tail
    BY <1>4 DEF RingInv, PushPublish
  <2>2. TypeOK'
    BY <1>4, <1>0, SuccOf DEF TypeOK, PushPublish
  <2>3. RingInv'
    BY <1>4, <2>1, <2>2, <1>0 DEF RingInv, TypeOK, PushPublish
  <2>4. Unread' = Append(Unread, handler.c)
    BY <1>0, <1>4, <2>1, <2>2, UnreadWindowNext, PublishAppends DEF TypeOK, PushPublish
  <2>5. Len(Unread) < KEYBOARD_BUFFER_SIZE - 1
    <3>1. /\ KEYBOARD_BUFFER_SIZE \in Nat /\ KEYBOARD_BUFFER_SIZE > 1
          /\ buf_head \in Nat /\ buf_head < KEYBOARD_BUFFER_SIZE
          /\ buf_tail \in Nat /\ buf_tail < KEYBOARD_BUFFER_SIZE
        BY <1>0, KeyboardAssumption DEF TypeOK, Slots
    <3>2. Count(buf_head, buf_tail) < N - 1
        BY <1>0, <2>1, <3>1, SuccOf DEF TypeOK, Count, N
    <3> QED BY <1>0, <3>2, WindowLen DEF TypeOK, N
  <2>6. Queue!Push(handler.c)
    BY <1>4, <2>4, <2>5 DEF PushPublish, Queue!Push
  <2> QED BY <2>1, <2>3, <2>6 DEF QueueStep, Queue!Next
<1> QED BY <1>1, <1>2, <1>3, <1>4 DEF Handler

(* The three steps of keyboard_read_char(), by the only reader *)
LEMMA ReaderStep ==
    ASSUME RingInv, NEW r, Readers = {r}, keyboard_read_char(r)
    PROVE  RingInv' /\ QueueStep
<1>0. TypeOK /\ Unread = Window(buffer, buf_head, buf_tail)
    BY UnreadWindow DEF RingInv
<1>1. 0 \in Slots
    BY KeyboardAssumption DEF Slots
<1>2. ASSUME ReadTest(r) PROVE RingInv' /\ QueueStep
  <2>1. TypeOK'
    BY <1>0, <1>1, <1>2 DEF TypeOK, ReadTest
  <2>2. RingInv'
    BY <1>0, <1>2, <2>1 DEF RingInv, TypeOK, ReadTest, Succ
  <2> QED BY <1>2, <2>2 DEF ReadTest, QueueStep, Unread
<1>3. ASSUME ReadLoad(r) PROVE RingInv' /\ QueueStep
  <2>1. reader[r].tail = buf_tail /\ buf_tail # buf_head
    BY <1>3 DEF RingInv, ReadLoad
  <2>2. TypeOK'
    BY <1>0, <1>3, <2>1, ZenonT(60), ZenonT(60) DEF TypeOK, ReadLoad
  <2>3. RingInv'
    BY <1>0, <1>3, <2>1, <2>2 DEF RingInv, TypeOK, ReadLoad, Succ
  <2> QED BY <1>3, <2>3 DEF ReadLoad, QueueStep, Unread
<1>4. ASSUME ReadAdvance(r) PROVE RingInv' /\ QueueStep
  <2>1. /\ reader[r].tail = buf_tail /\ buf_tail # buf_head
        /\ reader[r].result = buffer[buf_tail]
    BY <1>4 DEF RingInv, ReadAdvance
  <2>2. buf_tail' \in Slots /\ read' \in Seq({0} \cup Keys)
    BY <1>0, <1>4, <2>1, SuccOf DEF TypeOK, ReadAdvance
  <2>3. TypeOK'
    BY <1>0, <1>1, <1>4, <2>2 DEF TypeOK, ReadAdvance
  <2>4. Succ(buf_head) # Succ(buf_tail)
    <3>1. /\ KEYBOARD_BUFFER_SIZE \in Nat
          /\ buf_head \in Nat /\ buf_head < KEYBOARD_BUFFER_SIZE
          /\ buf_tail \in Nat /\ buf_tail < KEYBOARD_BUFFER_SIZE
        BY <1>0, KeyboardAssumption DEF TypeOK, Slots
    <3> QED BY <1>0, <2>1, <3>1, SuccOf DEF TypeOK, N
  <2>5. RingInv'
    BY <1>0, <1>4, <2>1, <2>3, <2>4 DEF RingInv, TypeOK, ReadAdvance, Succ
  <2>6. /\ Unread # <<>> /\ Head(Unread) = reader[r].result
        /\ Unread' = Tail(Unread)
    <3>0. buf_head \in Slots /\ buf_tail \in Slots /\ buf_tail # buf_head
        BY <1>0, <2>1 DEF TypeOK
    <3>1. /\ Window(buffer, buf_head, buf_tail) # <<>>
          /\ Head(Window(buffer, buf_head, buf_tail)) = buffer[buf_tail]
          /\ Window(buffer, buf_head, Succ(buf_tail))
                = Tail(Window(buffer, buf_head, buf_tail))
        BY <3>0, AdvancePops, Zenon
    <3>2. Unread' = Window(buffer, buf_head, Succ(buf_tail))
        BY <1>4, <2>1, <2>3, UnreadWindowNext DEF ReadAdvance
    <3> QED BY <1>0, <2>1, <3>1, <3>2
  <2>7. Queue!Pop
    BY <1>4, <2>6 DEF ReadAdvance, Queue!Pop
  <2> QED BY <2>5, <2>7 DEF QueueStep, Queue!Next
<1> QED BY <1>2, <1>3, <1>4 DEF keyboard_read_char

-----------------------------------------------------------------------------
(* With one thread in keyboard_read_char(), on whatever core, the ring of    *)
(* keyboard.c is a bounded queue of KEYBOARD_BUFFER_SIZE - 1 characters      *)
(* whatever its size and however many keys arrive: no unread character is    *)
(* overwritten, each is returned once in order, and one is dropped only when *)
(* the ring is full, with no lock and every load and store on its own.       *)
THEOREM RingIsQueue ==
    ASSUME NEW r, Readers = {r}
    PROVE  Spec => ImplementsBoundedQueue
<1>1. Init => RingInv
    BY RingInit
<1>2. Init => Queue!Init
  <2> SUFFICES ASSUME Init PROVE Queue!Init
    OBVIOUS
  <2>1. 0 \in Slots /\ TypeOK
    BY RingInit, KeyboardAssumption DEF Slots, RingInv
  <2>2. Unread = Window(buffer, 0, 0)
    BY <2>1, UnreadWindow DEF Init
  <2>3. Window(buffer, 0, 0) = <<>>
    BY DEF Window, Count
  <2> QED BY <2>2, <2>3 DEF Init, Queue!Init
<1>3. RingInv /\ [Next]_vars => RingInv' /\ QueueStep
  <2> SUFFICES ASSUME RingInv, [Next]_vars PROVE RingInv' /\ QueueStep
    OBVIOUS
  <2>1. CASE Handler
    BY <2>1, RingHandlerStep
  <2>2. CASE \E q \in Readers : keyboard_read_char(q)
    BY <2>2, ReaderStep
  <2>3. CASE UNCHANGED vars
    BY <2>3 DEF vars, RingInv, TypeOK, QueueStep, Unread, Succ
  <2> QED BY <2>1, <2>2, <2>3 DEF Next
<1> QED BY <1>1, <1>2, <1>3, PTL DEF Spec, ImplementsBoundedQueue, Queue!Spec, QueueStep

-----------------------------------------------------------------------------
(* The two drivers of the 8042 controller *)

Handshake == {"read_config", "write_config", "set_defaults", "ack_defaults",
              "enable", "ack_enable", "unmask"}
Before == {"timer_init", "keyboard_init", "cli", "read_config", "write_config",
           "set_defaults"}
Configured == {"set_defaults", "ack_defaults", "enable", "ack_enable", "unmask", "done"}

FromMouse == out # <<>> /\ out[1].line = MOUSE_IRQ

OutType == out = <<>> \/ \E e \in [byte : Int, line : {KeyboardIrq, MOUSE_IRQ}] : out = <<e>>
ReplyType == reply = <<>> \/ \E b \in Int : reply = <<b>>
KbdType == kbd = <<>> \/ \E b \in Int : kbd = <<b>>
MouseType ==
    /\ packet \in Seq(Int)
    /\ mouse_x \in Int /\ mouse_y \in Int /\ mouse_buttons \in Int
    /\ isr \in [at : {"iret", "x", "y", "clamp"}, dx : Int, dy : Int, b : Int]
GetterType ==
    getter \in [at : {"idle", "x", "y", "buttons", "return"}, core : {"boot", "other"},
               s : [x : Int, y : Int, b : Int]]

Ps2Types ==
    /\ OutType /\ ReplyType /\ KbdType /\ MouseType /\ GetterType
    /\ last \in Int /\ config \in Int /\ config_read \in Int /\ aux \in Seq(Int)
    /\ pointer \in [x : Int, y : Int, b : Int]
    /\ boot \in Before \cup Handshake \cup {"done"}

(* No interrupt handler runs during the handshake, and the mouse's not       *)
(* before it is over.                                                        *)
BootInv ==
    /\ boot \in Handshake => ~iflag /\ handler.at = "iret"
    /\ boot # "done" =>
        /\ isr.at = "iret" /\ packet = <<>>
        /\ mouse_x = 0 /\ mouse_y = 0 /\ mouse_buttons = 0
        /\ MOUSE_IRQ \notin irq_handlers /\ getter.at = "idle"
    /\ boot \in Before =>
        /\ aux = <<>> /\ ~FromMouse /\ ~streaming
        /\ pointer = Origin
    /\ boot \in {"ack_defaults", "enable"} => ~streaming /\ pointer = Origin

(* Nothing but the mouse sends a byte that looks like its acknowledgement,   *)
(* and the configuration byte stays until it is read.                        *)
AnswerInv ==
    /\ reply # <<>> => reply[1] # ACK
    /\ kbd # <<>> => kbd[1] # ACK
    /\ out # <<>> /\ out[1].byte = ACK => FromMouse
    /\ boot = "read_config" =>
        reply = <<config>> \/ (out # <<>> /\ out[1].byte = config)
    /\ boot = "write_config" => ~Bit(config_read, AuxOff)
    /\ boot \in Configured => ~Bit(config, AuxOff)

(* A request is pending only for the byte in the output buffer *)
IrqInv == ~LatchedEdges /\ irr # {} => out # <<>> /\ irr = {out[1].line}

(* Where the position is once the handler that may be running is through *)
Pos ==
    IF isr.at = "iret" THEN [x |-> mouse_x, y |-> mouse_y, b |-> mouse_buttons]
    ELSE [x |-> Clamp(IF isr.at = "x" THEN mouse_x + isr.dx ELSE mouse_x, Width),
          y |-> Clamp(IF isr.at \in {"x", "y"} THEN mouse_y - isr.dy ELSE mouse_y, Height),
          b |-> IF isr.at = "x" THEN isr.b ELSE mouse_buttons]

Held(b) == FromMouse /\ out[1].byte = b

(* The bytes of movement m are on their way: in the mouse, the output buffer *)
(* or the driver's packet.                                                   *)
InTransit(m) ==
    LET e == Packet(m) IN
    /\ pointer = Moved(Pos, m)
    /\ \/ packet = <<>> /\ ~FromMouse /\ aux = e
       \/ packet = <<>> /\ Held(e[1]) /\ aux = <<e[2], e[3]>>
       \/ packet = <<e[1]>> /\ ~FromMouse /\ aux = <<e[2], e[3]>>
       \/ packet = <<e[1]>> /\ Held(e[2]) /\ aux = <<e[3]>>
       \/ packet = <<e[1], e[2]>> /\ ~FromMouse /\ aux = <<e[3]>>
       \/ packet = <<e[1], e[2]>> /\ Held(e[3]) /\ aux = <<>>

(* The next movement n follows the last byte of m *)
Following(m, n) ==
    /\ packet = <<Packet(m)[1], Packet(m)[2]>> /\ Held(Packet(m)[3])
    /\ aux = Packet(n) /\ pointer = Moved(Moved(Pos, m), n)
    /\ Moved(Pos, m) \in settled

AtRest == packet = <<>> /\ ~FromMouse /\ aux = <<>> /\ pointer = Pos

(* The acknowledgement comes before any movement *)
AckInv ==
    \/ aux = <<ACK>> /\ ~FromMouse /\ pointer = Origin
    \/ /\ Held(ACK)
       /\ \/ aux = <<>> /\ pointer = Origin
          \/ \E m \in Moves : aux = Packet(m) /\ pointer = Moved(Origin, m)

StreamInv ==
    /\ boot \in {"ack_defaults", "ack_enable"} => AckInv
    /\ boot = "ack_defaults" /\ FromMouse => aux = <<>>
    /\ boot = "enable" => aux = <<>> /\ ~FromMouse
    /\ ~LatchedEdges /\ boot \in {"unmask", "done"} =>
        \/ AtRest
        \/ \E m \in Moves : InTransit(m)
        \/ \E m, n \in Moves : Following(m, n)

(* The positions between packets *)
SettledInv == pointer \in settled /\ (~LatchedEdges /\ ~disturbed => Pos \in settled)

(* On the boot core mouse_get_state() is alone *)
GetterInv ==
    getter.core = "boot" /\ getter.at # "idle" =>
        /\ boot = "done" /\ ~iflag /\ ~InHandler
        /\ getter.at # "x" => getter.s.x = mouse_x
        /\ getter.at \in {"buttons", "return"} => getter.s.y = mouse_y
        /\ getter.at = "return" => getter.s.b = mouse_buttons

Ps2Inv ==
    /\ Ps2Types /\ BootInv /\ AnswerInv /\ IrqInv /\ SettledInv /\ GetterInv
    /\ ~disturbed => StreamInv

-----------------------------------------------------------------------------
(* What the bits of a byte are *)
LEMMA BitCleared ==
    ASSUME NEW b \in Int
    PROVE  /\ WithoutBit(b, AuxOff) \in Int /\ ~Bit(WithoutBit(b, AuxOff), AuxOff)
           /\ WithoutBit(b, AuxOff) # ACK
           /\ WithBit(b, ConfigIrq(MOUSE_IRQ)) \in Int
<1>1. ~Bit(WithoutBit(b, AuxOff), AuxOff) /\ WithoutBit(b, AuxOff) \in Int
    BY DEF WithoutBit, Bit, AuxOff
<1>2. Bit(ACK, AuxOff)
    BY DEF Bit, ACK, AuxOff
<1>3. WithBit(b, ConfigIrq(MOUSE_IRQ)) \in Int
    BY DEF WithBit, Bit, ConfigIrq, MOUSE_IRQ
<1> QED BY <1>1, <1>2, <1>3

(* The low byte of a nine-bit number *)
LEMMA NineBits ==
    ASSUME NEW d \in -256 .. 255
    PROVE  d % 256 \in Int /\ d % 256 = IF d < 0 THEN d + 256 ELSE d
<1>1. CASE d >= 0
    BY <1>1
<1>2. CASE d < 0
  <2>1. d + 256 \in 0 .. 255 /\ d = (d + 256) - 256
    BY <1>2
  <2> QED BY <1>2, <2>1
<1> QED BY <1>1, <1>2

(* ... and the sign bit of the packet give the number back. *)
LEMMA SignedBack ==
    ASSUME NEW d \in -256 .. 255, NEW b, b = IF d < 0 THEN d + 256 ELSE d
    PROVE  Signed(b, d < 0) = d
    BY DEF Signed

(* mouse_irq_handler() decodes from the three bytes of a packet the movement *)
(* that the mouse encoded.                                                   *)
LEMMA PacketDecodes ==
    ASSUME NEW m \in Moves
    PROVE  \E b1, b2, b3 \in Int :
               /\ Packet(m) = <<b1, b2, b3>>
               /\ Bit(b1, PACKET_ALWAYS_ONE) /\ b1 % 8 = m.buttons
               /\ Signed(b2, Bit(b1, PACKET_X_SIGN)) = m.dx
               /\ Signed(b3, Bit(b1, PACKET_Y_SIGN)) = m.dy
<1> DEFINE sx == IF m.dx < 0 THEN 16 ELSE 0
           sy == IF m.dy < 0 THEN 32 ELSE 0
           b1 == 8 + m.buttons + sx + sy
           b2 == m.dx % 256
           b3 == m.dy % 256
<1>1. m.dx \in -256 .. 255 /\ m.dy \in -256 .. 255 /\ m.buttons \in 0 .. 7
    BY Ps2Assumption
<1>2. /\ sx \in {0, 16} /\ (sx = 16 <=> m.dx < 0)
      /\ sy \in {0, 32} /\ (sy = 32 <=> m.dy < 0)
    BY <1>1
<1>3. Packet(m) = <<b1, b2, b3>>
    BY DEF Packet, PACKET_ALWAYS_ONE, PACKET_X_SIGN, PACKET_Y_SIGN
<1> HIDE DEF sx, sy
<1>4. /\ b1 \in Int /\ Bit(b1, 8) /\ b1 % 8 = m.buttons
      /\ Bit(b1, 16) <=> m.dx < 0
      /\ Bit(b1, 32) <=> m.dy < 0
    BY <1>1, <1>2 DEF Bit
<1>5. /\ b2 \in Int /\ b2 = IF m.dx < 0 THEN m.dx + 256 ELSE m.dx
      /\ b3 \in Int /\ b3 = IF m.dy < 0 THEN m.dy + 256 ELSE m.dy
    BY <1>1, NineBits
<1> HIDE DEF b1, b2, b3
<1>6. Signed(b2, Bit(b1, 16)) = m.dx /\ Signed(b3, Bit(b1, 32)) = m.dy
  <2>1. Signed(b2, m.dx < 0) = m.dx /\ Signed(b3, m.dy < 0) = m.dy
    BY <1>1, <1>5, SignedBack, Zenon
  <2>2. Signed(b2, Bit(b1, 16)) = Signed(b2, m.dx < 0)
    BY <1>4, Zenon DEF Signed
  <2>3. Signed(b3, Bit(b1, 32)) = Signed(b3, m.dy < 0)
    BY <1>4, Zenon DEF Signed
  <2> QED BY <2>1, <2>2, <2>3
<1> QED BY <1>3, <1>4, <1>5, <1>6 DEF PACKET_ALWAYS_ONE, PACKET_X_SIGN, PACKET_Y_SIGN

(* packet[packet_index++] fills the packet byte by byte. *)
LEMMA AppendTuple ==
    ASSUME NEW b1 \in Int, NEW b2 \in Int, NEW b3 \in Int
    PROVE  /\ Append(<<>>, b1) = <<b1>> /\ Append(<<b1>>, b2) = <<b1, b2>>
           /\ Append(<<b1, b2>>, b3) = <<b1, b2, b3>>
<1>1. Append(<<>>, b1) = <<b1>>
    BY <<>> \in Seq(Int), Len(<<>>) = 0
<1>2. ASSUME NEW s \in Seq(Int), NEW t \in Seq(Int), NEW b \in Int, Len(t) = Len(s) + 1,
             t[Len(t)] = b, \A i \in 1 .. Len(s) : t[i] = s[i]
      PROVE  Append(s, b) = t
  <2>1. /\ Append(s, b) \in Seq(Int) /\ Len(Append(s, b)) = Len(t)
        /\ \A i \in 1 .. Len(t) : Append(s, b)[i] = t[i]
    BY <1>2
  <2> QED BY <2>1
<1>3. /\ <<b1>> \in Seq(Int) /\ Len(<<b1>>) = 1 /\ <<b1>>[1] = b1
      /\ <<b1, b2>> \in Seq(Int) /\ Len(<<b1, b2>>) = 2
      /\ <<b1, b2>>[1] = b1 /\ <<b1, b2>>[2] = b2
      /\ <<b1, b2, b3>> \in Seq(Int) /\ Len(<<b1, b2, b3>>) = 3
      /\ <<b1, b2, b3>>[1] = b1 /\ <<b1, b2, b3>>[2] = b2 /\ <<b1, b2, b3>>[3] = b3
    OBVIOUS
<1>4. /\ \A i \in 1 .. 1 : <<b1, b2>>[i] = <<b1>>[i]
      /\ \A i \in 1 .. 2 : <<b1, b2, b3>>[i] = <<b1, b2>>[i]
    BY <1>3
<1>5. /\ Len(<<b1, b2>>) = Len(<<b1>>) + 1 /\ <<b1, b2>>[Len(<<b1, b2>>)] = b2
      /\ Len(<<b1, b2, b3>>) = Len(<<b1, b2>>) + 1
      /\ <<b1, b2, b3>>[Len(<<b1, b2, b3>>)] = b3
      /\ \A i \in 1 .. Len(<<b1>>) : <<b1, b2>>[i] = <<b1>>[i]
      /\ \A i \in 1 .. Len(<<b1, b2>>) : <<b1, b2, b3>>[i] = <<b1, b2>>[i]
    BY <1>3, <1>4
<1>6. Append(<<b1>>, b2) = <<b1, b2>> /\ Append(<<b1, b2>>, b3) = <<b1, b2, b3>>
    BY <1>2, <1>3, <1>5, Zenon
<1> QED BY <1>1, <1>6

(* Three bytes are sent one after the other, and collected again. *)
LEMMA ThreeBytes ==
    ASSUME NEW b1 \in Int, NEW b2 \in Int, NEW b3 \in Int
    PROVE  /\ <<b1, b2, b3>> \in Seq(Int) /\ <<b1, b2, b3>>[1] = b1
           /\ <<b1, b2, b3>>[2] = b2 /\ <<b1, b2, b3>>[3] = b3
           /\ <<b1, b2, b3>> # <<>> /\ <<b2, b3>> # <<>> /\ <<b3>> # <<>>
           /\ <<b2, b3>>[1] = b2 /\ <<b3>>[1] = b3
           /\ Tail(<<b1, b2, b3>>) = <<b2, b3>> /\ Tail(<<b2, b3>>) = <<b3>>
           /\ Tail(<<b3>>) = <<>>
           /\ Append(<<>>, b1) = <<b1>> /\ Append(<<b1>>, b2) = <<b1, b2>>
           /\ Append(<<b1, b2>>, b3) = <<b1, b2, b3>>
           /\ Len(<<b1>>) = 1 /\ Len(<<b1, b2>>) = 2 /\ Len(<<b1, b2, b3>>) = 3
<1>1. /\ <<b1, b2, b3>> \in Seq(Int) /\ <<b1, b2, b3>>[1] = b1
      /\ <<b1, b2, b3>>[2] = b2 /\ <<b1, b2, b3>>[3] = b3
      /\ <<b1, b2, b3>> # <<>> /\ <<b2, b3>> # <<>> /\ <<b3>> # <<>>
      /\ <<b2, b3>>[1] = b2 /\ <<b3>>[1] = b3
      /\ Len(<<b1>>) = 1 /\ Len(<<b1, b2>>) = 2 /\ Len(<<b1, b2, b3>>) = 3
    OBVIOUS
<1>2. Tail(<<b1, b2, b3>>) = <<b2, b3>>
    OBVIOUS
<1>3. Tail(<<b2, b3>>) = <<b3>> /\ Tail(<<b3>>) = <<>>
    OBVIOUS
<1>4. Append(<<>>, b1) = <<b1>> /\ Append(<<b1>>, b2) = <<b1, b2>>
    BY AppendTuple, Zenon
<1>5. Append(<<b1, b2>>, b3) = <<b1, b2, b3>>
    BY AppendTuple, Zenon
<1> QED BY <1>1, <1>2, <1>3, <1>4, <1>5

(* clamp() keeps a coordinate a number. *)
LEMMA ClampInt == ASSUME NEW v \in Int, NEW s \in Nat PROVE Clamp(v, s) \in Int
    BY DEF Clamp

(* A movement leads from a position to a position. *)
LEMMA MovedType ==
    ASSUME NEW p \in [x : Int, y : Int, b : Int], NEW m \in Moves
    PROVE  Moved(p, m) \in [x : Int, y : Int, b : Int]
<1>1. m.dx \in Int /\ m.dy \in Int /\ m.buttons \in Int /\ p.x \in Int /\ p.y \in Int
    BY Ps2Assumption, SMTT(60)
<1>2. Clamp(p.x + m.dx, Width) \in Int /\ Clamp(p.y - m.dy, Height) \in Int
    BY <1>1, ClampInt, Ps2Assumption
<1> QED BY <1>1, <1>2 DEF Moved

-----------------------------------------------------------------------------
(* The invariant holds when kmain() starts. *)
LEMMA Ps2InitInv == Ps2Init => Ps2Inv
<1> SUFFICES ASSUME Ps2Init PROVE Ps2Inv
    OBVIOUS
<1> USE DEF Ps2Init, Origin, NotReading
<1>1. Ps2Types
    BY Ps2Assumption DEF Ps2Types, OutType, ReplyType, KbdType, MouseType, GetterType, Before
<1>2. BootInv
    BY DEF BootInv, Handshake, Before, FromMouse
<1>3. AnswerInv
    BY DEF AnswerInv, Configured, FromMouse
<1>4. IrqInv /\ GetterInv /\ StreamInv
    BY DEF IrqInv, GetterInv, StreamInv
<1>5. SettledInv
    BY DEF SettledInv, Pos
<1> QED BY <1>1, <1>2, <1>3, <1>4, <1>5 DEF Ps2Inv

(* A step that touches nothing of the two drivers but the keyboard handler *)
LEMMA QuietStep ==
    ASSUME Ps2Inv, UNCHANGED ps2_vars,
           \/ UNCHANGED handler
           \/ handler.at # "iret"
    PROVE  Ps2Inv'
<1> USE DEF ps2_vars, pic, port, devices, mouse, history
<1>1. Ps2Types'
    BY Zenon DEF Ps2Inv, Ps2Types, OutType, ReplyType, KbdType, MouseType, GetterType
<1>2. BootInv'
    BY Zenon DEF Ps2Inv, BootInv, FromMouse
<1>3. AnswerInv' /\ IrqInv'
    BY Zenon DEF Ps2Inv, AnswerInv, IrqInv, FromMouse
<1>4. GetterInv'
    BY Zenon DEF Ps2Inv, GetterInv, InHandler
<1>5. Pos' = Pos
    BY Zenon DEF Pos
<1>6. SettledInv'
    BY <1>5, Zenon DEF Ps2Inv, SettledInv
<1>7. ~disturbed' => StreamInv'
    BY <1>5, Zenon DEF Ps2Inv, StreamInv, AckInv, AtRest, InTransit, Following, Held, FromMouse
<1> QED BY <1>1, <1>2, <1>3, <1>4, <1>6, <1>7, Zenon DEF Ps2Inv

(* mouse_get_state() *)
LEMMA GetterStep ==
    ASSUME Ps2Inv, mouse_get_state
    PROVE  Ps2Inv'
<1> DEFINE Cli == \E core \in {"boot", "other"} : GetCli(core)
<1>0. /\ UNCHANGED <<handler, boot, unmasked, irr, irq_handlers, out, last, config, reply, kbd,
                     aux, streaming, config_read, packet, mouse_x, mouse_y, mouse_buttons, isr,
                     pointer, settled, moves, strikes, disturbed>>
      /\ boot = "done"
    BY DEF mouse_get_state, GetCli, GetX, GetY, GetButtons, GetSti, Getter,
           vars, pic, port, devices, mouse, history
<1>1. Ps2Types'
  <2>0. GetterType /\ mouse_x \in Int /\ mouse_y \in Int /\ mouse_buttons \in Int
    BY Zenon DEF Ps2Inv, Ps2Types, MouseType
  <2>1. GetterType'
    <3>1. CASE Cli
      <4>1. PICK core \in {"boot", "other"} : GetCli(core)
        BY <3>1
      <4>2. getter' = [at |-> "x", core |-> core, s |-> Origin]
        BY <4>1, Zenon DEF GetCli
      <4> QED BY <4>2 DEF GetterType, Origin
    <3>5. CASE GetSti
      <4>1. getter' = NotReading
        BY <3>5, Zenon DEF GetSti
      <4> QED BY <4>1 DEF GetterType, NotReading, Origin
    <3>2. CASE GetX
      BY <2>0, <3>2 DEF GetX, GetterType
    <3>3. CASE GetY
      BY <2>0, <3>3 DEF GetY, GetterType
    <3>4. CASE GetButtons
      BY <2>0, <3>4 DEF GetButtons, GetterType
    <3> QED BY <3>1, <3>2, <3>3, <3>4, <3>5 DEF mouse_get_state
  <2> QED BY <1>0, <2>1, Zenon DEF Ps2Inv, Ps2Types, OutType, ReplyType, KbdType, MouseType
<1>2. BootInv'
    BY <1>0, Zenon DEF BootInv, Handshake, Before
<1>3. AnswerInv' /\ IrqInv'
    BY <1>0, Zenon DEF Ps2Inv, AnswerInv, IrqInv, FromMouse
<1>4. GetterInv'
  <2> SUFFICES ASSUME getter'.core = "boot", getter'.at # "idle" PROVE
        /\ ~iflag' /\ ~InHandler
        /\ getter'.at # "x" => getter'.s.x = mouse_x
        /\ getter'.at \in {"buttons", "return"} => getter'.s.y = mouse_y
        /\ getter'.at = "return" => getter'.s.b = mouse_buttons
    BY <1>0, Zenon DEF GetterInv, InHandler
  <2>1. GetterInv /\ GetterType
    BY Zenon DEF Ps2Inv, Ps2Types
  <2>2. CASE Cli
    <3>1. PICK core \in {"boot", "other"} : GetCli(core)
      BY <2>2
    <3>2. getter' = [at |-> "x", core |-> core, s |-> Origin]
      BY <3>1, Zenon DEF GetCli
    <3>3. getter'.at = "x" /\ core = "boot"
      BY <3>2
    <3> QED BY <3>1, <3>3, Zenon DEF GetCli
  <2>3. CASE GetX
    BY <2>1, <2>3 DEF GetX, Getter, GetterInv, GetterType
  <2>4. CASE GetY
    BY <2>1, <2>4 DEF GetY, Getter, GetterInv, GetterType
  <2>5. CASE GetButtons
    BY <2>1, <2>5 DEF GetButtons, Getter, GetterInv, GetterType
  <2>6. CASE GetSti
    BY <2>6 DEF GetSti, NotReading
  <2> QED BY <2>2, <2>3, <2>4, <2>5, <2>6 DEF mouse_get_state
<1>5. Pos' = Pos
    BY <1>0, Zenon DEF Pos
<1>6. SettledInv'
    BY <1>0, <1>5, Zenon DEF Ps2Inv, SettledInv
<1>7. ~disturbed' => StreamInv'
    BY <1>0, <1>5, Zenon
       DEF Ps2Inv, StreamInv, AckInv, AtRest, InTransit, Following, Held, FromMouse
<1> QED BY <1>1, <1>2, <1>3, <1>4, <1>6, <1>7, Zenon DEF Ps2Inv

-----------------------------------------------------------------------------
(* The rest of mouse_irq_handler(): the position moves to where it will be. *)
LEMMA MouseHandlerStep ==
    ASSUME Ps2Inv, MoveX \/ MoveY \/ ClampToScreen
    PROVE  Ps2Inv'
<1>0. /\ UNCHANGED <<handler, boot, iflag, unmasked, irr, irq_handlers, out, last, config,
                     reply, kbd, aux, streaming, config_read, packet, getter,
                     pointer, settled, moves, strikes, disturbed>>
      /\ isr.at # "iret"
    BY DEF MoveX, MoveY, ClampToScreen, vars, pic, port, devices, mouse, history
<1>a. /\ Ps2Types /\ BootInv /\ AnswerInv /\ IrqInv /\ SettledInv /\ GetterInv /\ MouseType
      /\ ~disturbed => StreamInv
    BY Zenon DEF Ps2Inv, Ps2Types
<1>b. boot = "done"
    BY <1>0, <1>a, Zenon DEF BootInv
<1>c. MouseType'
  <2>1. CASE MoveX
    BY <1>a, <2>1 DEF MoveX, MouseType
  <2>2. CASE MoveY
    BY <1>a, <2>2 DEF MoveY, MouseType
  <2>3. CASE ClampToScreen
    BY <1>a, <2>3, ClampInt, Ps2Assumption DEF ClampToScreen, MouseType
  <2> QED BY <2>1, <2>2, <2>3
<1>1. Ps2Types'
    BY <1>0, <1>a, <1>c, Zenon DEF Ps2Types, OutType, ReplyType, KbdType, GetterType
<1>2. BootInv'
    BY <1>0, <1>b, Zenon DEF BootInv, Handshake, Before
<1>3. AnswerInv' /\ IrqInv'
    BY <1>0, <1>a, Zenon DEF AnswerInv, IrqInv, FromMouse
<1>4. GetterInv'
    BY <1>0, <1>a, Zenon DEF GetterInv, InHandler
<1>5. Pos' = Pos
  <2>1. CASE MoveX
    BY <1>a, <2>1 DEF MoveX, MouseType, Pos
  <2>2. CASE MoveY
    BY <1>a, <2>2 DEF MoveY, MouseType, Pos
  <2>3. CASE ClampToScreen
    BY <1>a, <2>3 DEF ClampToScreen, MouseType, Pos
  <2> QED BY <2>1, <2>2, <2>3
<1>6. SettledInv'
    BY <1>0, <1>a, <1>5, Zenon DEF SettledInv
<1>7. ~disturbed' => StreamInv'
    BY <1>0, <1>a, <1>5, Zenon
       DEF StreamInv, AckInv, AtRest, InTransit, Following, Held, FromMouse
<1> QED BY <1>1, <1>2, <1>3, <1>4, <1>6, <1>7, Zenon DEF Ps2Inv

(* inb() of the data port gives a byte, whether or not there is a new one. *)
LEMMA ByteInt == ASSUME Ps2Types PROVE Byte \in Int
    BY DEF Ps2Types, OutType, Byte

(* An interrupt of the keyboard takes a byte that is not the mouse's. *)
LEMMA KeyboardIrqStep ==
    ASSUME Ps2Inv, IrqKeyboard
    PROVE  Ps2Inv'
<1>0. /\ UNCHANGED <<boot, iflag, unmasked, irq_handlers, config, reply, kbd, aux, streaming,
                     config_read, packet, mouse_x, mouse_y, mouse_buttons, isr, getter,
                     pointer, settled, moves, strikes, disturbed>>
      /\ iflag /\ ~InHandler /\ KeyboardIrq \in irr
      /\ out' = <<>> /\ last' = Byte /\ irr' = irr \ {KeyboardIrq}
    BY DEF IrqKeyboard, Deliver, pic, port, devices, mouse, history
<1>a. /\ Ps2Types /\ BootInv /\ AnswerInv /\ IrqInv /\ SettledInv /\ GetterInv
      /\ ~disturbed => StreamInv
    BY Zenon DEF Ps2Inv
<1>b. ~FromMouse' /\ boot \notin Handshake
    BY <1>0, <1>a, ZenonT(60) DEF FromMouse, BootInv
<1>c. ~LatchedEdges => irr' = {} /\ ~FromMouse
  <2> SUFFICES ASSUME ~LatchedEdges PROVE irr' = {} /\ ~FromMouse
    OBVIOUS
  <2>1. KeyboardIrq # MOUSE_IRQ
    BY DEF KeyboardIrq, MOUSE_IRQ
  <2>2. irr = {out[1].line}
    BY <1>0, <1>a, Zenon DEF IrqInv
  <2>3. out[1].line = KeyboardIrq
    BY <1>0, <2>2, Zenon
  <2>4. irr' = {}
    BY <1>0, <2>2, <2>3, Zenon
  <2> QED BY <2>1, <2>3, <2>4, Zenon DEF FromMouse
<1>1. Ps2Types'
  <2>1. last' \in Int /\ OutType'
    BY <1>0, <1>a, ByteInt, Zenon DEF OutType
  <2> QED BY <1>0, <1>a, <2>1, Zenon DEF Ps2Types, ReplyType, KbdType, MouseType, GetterType
<1>2. BootInv'
    BY <1>0, <1>a, <1>b, Zenon DEF BootInv
<1>3. AnswerInv'
    BY <1>0, <1>a, <1>b, Zenon DEF AnswerInv, Handshake
<1>4. IrqInv'
    BY <1>c, Zenon DEF IrqInv
<1>5. GetterInv'
    BY <1>0, <1>a, Zenon DEF GetterInv
<1>6. Pos' = Pos
    BY <1>0, Zenon DEF Pos
<1>7. SettledInv'
    BY <1>0, <1>a, <1>6, Zenon DEF SettledInv
<1>8. ~disturbed' => StreamInv'
  <2> SUFFICES ASSUME ~disturbed, ~LatchedEdges, boot = "done"
               PROVE  \/ AtRest'
                      \/ \E m \in Moves : InTransit(m)'
                      \/ \E m, n \in Moves : Following(m, n)'
    BY <1>0, <1>b, Zenon DEF StreamInv, Handshake
  <2>1. AtRest \/ \E m \in Moves : InTransit(m)
    BY <1>0, <1>a, <1>c, Zenon DEF StreamInv, Following, Held
  <2>2. CASE AtRest
    BY <1>0, <1>b, <1>6, <2>2, Zenon DEF AtRest
  <2>3. ASSUME NEW m \in Moves, InTransit(m) PROVE InTransit(m)'
    BY <1>0, <1>b, <1>c, <1>6, <2>3, Zenon DEF InTransit, Held
  <2> QED BY <2>1, <2>2, <2>3, Zenon
<1> QED BY <1>1, <1>2, <1>3, <1>4, <1>5, <1>7, <1>8, Zenon DEF Ps2Inv

(* The third byte makes of the position what the movement makes of it. *)
LEMMA ThirdByte ==
    ASSUME NEW m \in Moves, NEW b1 \in Int, NEW b2 \in Int, NEW b3 \in Int,
           Bit(b1, PACKET_ALWAYS_ONE), b1 % 8 = m.buttons,
           Signed(b2, Bit(b1, PACKET_X_SIGN)) = m.dx,
           Signed(b3, Bit(b1, PACKET_Y_SIGN)) = m.dy,
           isr.at = "iret", IrqMouse, packet = <<b1, b2>>, Byte = b3
    PROVE  packet' = <<>> /\ Pos' = Moved(Pos, m)
<1>1. /\ UNCHANGED <<mouse_x, mouse_y, mouse_buttons>>
      /\ LET p == Append(packet, Byte)
         IN  /\ packet' = IF Len(p) < 3 THEN p ELSE <<>>
             /\ isr' = IF Len(p) = 3 /\ Bit(p[1], PACKET_ALWAYS_ONE)
                       THEN [at |-> "x", dx |-> Signed(p[2], Bit(p[1], PACKET_X_SIGN)),
                             dy |-> Signed(p[3], Bit(p[1], PACKET_Y_SIGN)), b |-> p[1] % 8]
                       ELSE isr
    BY ZenonT(60) DEF IrqMouse
<1>2. Append(packet, Byte) = <<b1, b2, b3>> /\ Len(<<b1, b2, b3>>) = 3
    BY ThreeBytes, Zenon
<1>3. packet' = <<>>
  <2>1. ~(3 < 3)
    OBVIOUS
  <2> QED BY <1>1, <1>2, <2>1, Zenon
<1>4. isr' = [at |-> "x", dx |-> m.dx, dy |-> m.dy, b |-> m.buttons]
  <2> DEFINE q == <<b1, b2, b3>>
  <2>1. q[1] = b1 /\ q[2] = b2 /\ q[3] = b3 /\ Len(q) = 3
    BY ThreeBytes, Zenon
  <2>2. isr' = IF Len(q) = 3 /\ Bit(q[1], PACKET_ALWAYS_ONE)
               THEN [at |-> "x", dx |-> Signed(q[2], Bit(q[1], PACKET_X_SIGN)),
                     dy |-> Signed(q[3], Bit(q[1], PACKET_Y_SIGN)), b |-> q[1] % 8]
               ELSE isr
    BY <1>1, <1>2, Zenon
  <2> HIDE DEF q
  <2> QED BY <2>1, <2>2, Zenon
<1>5. Pos = [x |-> mouse_x, y |-> mouse_y, b |-> mouse_buttons]
    BY Zenon DEF Pos
<1>6. Pos' = [x |-> Clamp(mouse_x + m.dx, Width), y |-> Clamp(mouse_y - m.dy, Height),
              b |-> m.buttons]
  <2>1. isr'.at = "x" /\ isr'.dx = m.dx /\ isr'.dy = m.dy /\ isr'.b = m.buttons
    BY <1>4, Zenon
  <2> QED BY <1>1, <2>1, Zenon DEF Pos
<1> QED BY <1>3, <1>5, <1>6 DEF Moved

(* An interrupt of the mouse: the byte goes to the packet, and the third one *)
(* starts the movement that the mouse encoded.                               *)
LEMMA MouseIrqStep ==
    ASSUME Ps2Inv, IrqMouse
    PROVE  Ps2Inv'
<1> DEFINE p == Append(packet, Byte)
<1>0. /\ UNCHANGED <<handler, boot, iflag, unmasked, irq_handlers, config, reply, kbd, aux,
                     streaming, config_read, mouse_x, mouse_y, mouse_buttons, getter,
                     pointer, settled, moves, strikes, disturbed>>
      /\ iflag /\ ~InHandler /\ MOUSE_IRQ \in irr /\ MOUSE_IRQ \in irq_handlers
      /\ out' = <<>> /\ last' = Byte /\ irr' = irr \ {MOUSE_IRQ}
    BY DEF IrqMouse, Deliver, vars, pic, port, devices, mouse, history
<1>p. /\ packet' = IF Len(p) < 3 THEN p ELSE <<>>
      /\ isr' = IF Len(p) = 3 /\ Bit(p[1], PACKET_ALWAYS_ONE)
                THEN [at |-> "x", dx |-> Signed(p[2], Bit(p[1], PACKET_X_SIGN)),
                      dy |-> Signed(p[3], Bit(p[1], PACKET_Y_SIGN)), b |-> p[1] % 8]
                ELSE isr
    BY Zenon DEF IrqMouse
<1>a. /\ Ps2Types /\ BootInv /\ AnswerInv /\ IrqInv /\ SettledInv /\ GetterInv /\ MouseType
      /\ ~disturbed => StreamInv
    BY Zenon DEF Ps2Inv, Ps2Types
<1>b. ~FromMouse' /\ boot = "done" /\ isr.at = "iret"
    BY <1>0, <1>a, Zenon DEF FromMouse, BootInv, InHandler
<1>c. ~LatchedEdges => irr' = {} /\ FromMouse /\ out[1].byte = Byte
  <2> SUFFICES ASSUME ~LatchedEdges PROVE irr' = {} /\ FromMouse /\ out[1].byte = Byte
    OBVIOUS
  <2>1. out # <<>> /\ irr = {out[1].line}
    BY <1>0, <1>a, Zenon DEF IrqInv
  <2>2. out[1].line = MOUSE_IRQ
    BY <1>0, <2>1, Zenon
  <2>3. irr' = {}
    BY <1>0, <2>1, <2>2, Zenon
  <2> QED BY <2>1, <2>2, <2>3, Zenon DEF FromMouse, Byte
<1>d. p \in Seq(Int) /\ Byte \in Int
    BY <1>a, ByteInt DEF MouseType
<1>1. Ps2Types'
  <2>1. last' \in Int /\ OutType'
    BY <1>0, <1>d, ZenonT(60) DEF OutType
  <2>2. packet' \in Seq(Int)
    <3>1. <<>> \in Seq(Int)
      OBVIOUS
    <3> HIDE DEF p
    <3> QED BY <1>p, <1>d, <3>1, Zenon
  <2>3. ASSUME Len(p) = 3
        PROVE  /\ Signed(p[2], Bit(p[1], PACKET_X_SIGN)) \in Int
               /\ Signed(p[3], Bit(p[1], PACKET_Y_SIGN)) \in Int /\ p[1] % 8 \in Int
    <3> HIDE DEF p
    <3>1. p[1] \in Int /\ p[2] \in Int /\ p[3] \in Int
      <4>1. 1 \in 1 .. Len(p) /\ 2 \in 1 .. Len(p) /\ 3 \in 1 .. Len(p)
        BY <2>3
      <4>2. \A i \in 1 .. Len(p) : p[i] \in Int
        BY <1>d
      <4> QED BY <4>1, <4>2
    <3> QED BY <3>1 DEF Signed
  <2>4. isr' \in [at : {"iret", "x", "y", "clamp"}, dx : Int, dy : Int, b : Int]
    <3> HIDE DEF p
    <3> QED BY <1>p, <1>a, <2>3 DEF MouseType
  <2>5. MouseType'
    BY <1>0, <1>a, <2>2, <2>4, Zenon DEF MouseType
  <2> QED BY <1>0, <1>a, <2>1, <2>5, Zenon DEF Ps2Types, ReplyType, KbdType, GetterType
<1>2. BootInv'
    BY <1>0, <1>b, Zenon DEF BootInv, Handshake, Before
<1>3. AnswerInv'
    BY <1>0, <1>a, <1>b, Zenon DEF AnswerInv
<1>4. IrqInv'
    BY <1>c, Zenon DEF IrqInv
<1>5. GetterInv'
    BY <1>0, <1>a, Zenon DEF GetterInv
<1>6. SettledInv' /\ (~disturbed' => StreamInv')
  <2> SUFFICES ASSUME ~disturbed, ~LatchedEdges
               PROVE  /\ Pos' \in settled
                      /\ \/ AtRest'
                         \/ \E m \in Moves : InTransit(m)'
                         \/ \E m, n \in Moves : Following(m, n)'
    BY <1>0, <1>a, <1>b, Zenon DEF SettledInv, StreamInv
  <2>0. Pos \in settled /\ pointer \in settled
    BY <1>a, Zenon DEF SettledInv
  <2>1. \/ \E m \in Moves : InTransit(m)
        \/ \E m, n \in Moves : Following(m, n)
    BY <1>a, <1>b, <1>c, Zenon DEF StreamInv, AtRest
  <2>2. ASSUME NEW m \in Moves, InTransit(m)
        PROVE  Pos' \in settled /\ (AtRest' \/ InTransit(m)')
    <3>1. PICK b1, b2, b3 \in Int :
               /\ Packet(m) = <<b1, b2, b3>>
               /\ Bit(b1, PACKET_ALWAYS_ONE) /\ b1 % 8 = m.buttons
               /\ Signed(b2, Bit(b1, PACKET_X_SIGN)) = m.dx
               /\ Signed(b3, Bit(b1, PACKET_Y_SIGN)) = m.dy
        BY PacketDecodes
    <3>2. /\ pointer = Moved(Pos, m)
          /\ \/ packet = <<>> /\ Byte = b1 /\ aux = <<b2, b3>>
             \/ packet = <<b1>> /\ Byte = b2 /\ aux = <<b3>>
             \/ packet = <<b1, b2>> /\ Byte = b3 /\ aux = <<>>
      <4>1. Packet(m)[1] = b1 /\ Packet(m)[2] = b2 /\ Packet(m)[3] = b3
        BY <3>1, ThreeBytes
      <4> QED BY <1>c, <2>2, <4>1, Zenon DEF InTransit, Held
    <3>3. CASE packet = <<>> /\ Byte = b1 /\ aux = <<b2, b3>>
      <4>0. p = <<b1>> /\ Len(<<b1>>) < 3
        BY <3>3, ThreeBytes
      <4>1. packet' = <<b1>> /\ isr' = isr
        <5> HIDE DEF p
        <5> QED BY <1>p, <4>0
      <4>2. Pos' = Pos
        BY <1>0, <4>1, Zenon DEF Pos
      <4>3. Packet(m)[1] = b1 /\ Packet(m)[2] = b2 /\ Packet(m)[3] = b3
        BY <3>1, ThreeBytes
      <4> QED BY <1>0, <1>b, <2>0, <3>2, <3>3, <4>1, <4>2, <4>3, Zenon DEF InTransit
    <3>4. CASE packet = <<b1>> /\ Byte = b2 /\ aux = <<b3>>
      <4>0. p = <<b1, b2>> /\ Len(<<b1, b2>>) < 3
        <5>1. p = <<b1, b2>>
          BY <3>4, ThreeBytes, Zenon
        <5> QED BY <5>1
      <4>1. packet' = <<b1, b2>> /\ isr' = isr
        <5> HIDE DEF p
        <5> QED BY <1>p, <4>0
      <4>2. Pos' = Pos
        BY <1>0, <4>1, Zenon DEF Pos
      <4>3. Packet(m)[1] = b1 /\ Packet(m)[2] = b2 /\ Packet(m)[3] = b3
        BY <3>1, ThreeBytes
      <4> QED BY <1>0, <1>b, <2>0, <3>2, <3>4, <4>1, <4>2, <4>3, Zenon DEF InTransit
    <3>5. CASE packet = <<b1, b2>> /\ Byte = b3 /\ aux = <<>>
      <4>1. packet' = <<>> /\ Pos' = Moved(Pos, m)
        BY <1>b, <3>1, <3>5, ThirdByte, Zenon
      <4> QED BY <1>0, <1>b, <2>0, <3>2, <3>5, <4>1, Zenon DEF AtRest
    <3> QED BY <3>2, <3>3, <3>4, <3>5, Zenon
  <2>3. ASSUME NEW m \in Moves, NEW n \in Moves, Following(m, n)
        PROVE  Pos' \in settled /\ InTransit(n)'
    <3>1. PICK b1, b2, b3 \in Int :
               /\ Packet(m) = <<b1, b2, b3>>
               /\ Bit(b1, PACKET_ALWAYS_ONE) /\ b1 % 8 = m.buttons
               /\ Signed(b2, Bit(b1, PACKET_X_SIGN)) = m.dx
               /\ Signed(b3, Bit(b1, PACKET_Y_SIGN)) = m.dy
        BY PacketDecodes
    <3>2. packet = <<b1, b2>> /\ Byte = b3
      <4>1. Packet(m)[1] = b1 /\ Packet(m)[2] = b2 /\ Packet(m)[3] = b3
        BY <3>1, ThreeBytes
      <4> QED BY <1>c, <2>3, <4>1, Zenon DEF Following, Held
    <3>3. packet' = <<>> /\ Pos' = Moved(Pos, m)
        BY <1>b, <3>1, <3>2, ThirdByte, Zenon
    <3> QED BY <1>0, <1>b, <2>3, <3>3, Zenon DEF Following, InTransit
  <2> QED BY <2>1, <2>2, <2>3, Zenon
<1> QED BY <1>1, <1>2, <1>3, <1>4, <1>5, <1>6, Zenon DEF Ps2Inv

-----------------------------------------------------------------------------
(* A key's scancode is no acknowledgement. *)
LEMMA KeyStruckStep ==
    ASSUME Ps2Inv, \E code \in Characters \cup {127, 158} : KeyStruck(code)
    PROVE  Ps2Inv'
<1>0. /\ UNCHANGED <<handler, boot, iflag, unmasked, irr, irq_handlers, out, last, config,
                     reply, aux,
                     streaming, config_read, packet, mouse_x, mouse_y, mouse_buttons, isr, getter,
                     pointer, settled, moves, disturbed>>
    BY DEF KeyStruck, vars, pic, port, mouse
<1>a. /\ Ps2Types /\ BootInv /\ AnswerInv /\ IrqInv /\ SettledInv /\ GetterInv
      /\ ~disturbed => StreamInv
    BY Zenon DEF Ps2Inv
<1>b. KbdType' /\ kbd'[1] # ACK
    BY Ps2Assumption DEF ACK, KbdType, KeyStruck
<1>1. Ps2Types'
  <2>1. OutType' /\ ReplyType'
    BY <1>0, <1>a, Zenon DEF Ps2Types, OutType, ReplyType
  <2>2. MouseType' /\ GetterType'
    BY <1>0, <1>a, ZenonT(60) DEF Ps2Types, MouseType, GetterType
  <2>3. KbdType'
    BY <1>b, Zenon
  <2> QED BY <1>0, <1>a, <2>1, <2>2, <2>3, Zenon DEF Ps2Types
<1>2. BootInv'
    BY <1>0, <1>a, ZenonT(60) DEF BootInv, FromMouse
<1>3. AnswerInv' /\ IrqInv'
  <2>1. kbd'[1] # ACK
    BY <1>b, Zenon
  <2>2. AnswerInv /\ IrqInv
    BY <1>a, Zenon
  <2>3. IrqInv'
    BY <1>0, <2>2, Zenon DEF IrqInv
  <2>4. /\ reply' # <<>> => reply'[1] # ACK
        /\ out' # <<>> /\ out'[1].byte = ACK => FromMouse'
        /\ boot' = "read_config" =>
             reply' = <<config'>> \/ (out' # <<>> /\ out'[1].byte = config')
    BY <1>0, <2>2, Zenon DEF AnswerInv, FromMouse
  <2>5. /\ boot' = "write_config" => ~Bit(config_read, AuxOff)'
        /\ boot' \in Configured => ~Bit(config, AuxOff)'
    BY <1>0, <2>2, Zenon DEF AnswerInv
  <2> QED BY <2>1, <2>3, <2>4, <2>5, Zenon DEF AnswerInv
<1>4. GetterInv'
    BY <1>0, <1>a, Zenon DEF GetterInv, InHandler
<1>5. Pos' = Pos
    BY <1>0, Zenon DEF Pos
<1>6. SettledInv'
    BY <1>0, <1>a, <1>5, Zenon DEF SettledInv
<1>7. ~disturbed' => StreamInv'
  <2>1. /\ (AtRest => AtRest') /\ (AckInv => AckInv') /\ (FromMouse <=> FromMouse')
    BY <1>0, <1>5, Zenon DEF AtRest, AckInv, Held, FromMouse
  <2>2. \A m \in Moves : InTransit(m) => InTransit(m)'
    BY <1>0, <1>5, Zenon DEF InTransit, Held, FromMouse
  <2>3. \A m, n \in Moves : Following(m, n) => Following(m, n)'
    BY <1>0, <1>5, Zenon DEF Following, Held, FromMouse
  <2> QED BY <1>0, <1>a, <2>1, <2>2, <2>3, Zenon DEF StreamInv
<1> QED BY <1>1, <1>2, <1>3, <1>4, <1>6, <1>7, Zenon DEF Ps2Inv

(* A packet has bytes to send. *)
LEMMA PacketNotEmpty == ASSUME NEW m \in Moves PROVE Packet(m) # <<>>
<1>1. \A b1, b2, b3 \in Int : <<b1, b2, b3>> # <<>>
    BY ThreeBytes, Zenon
<1> QED BY <1>1, PacketDecodes, Zenon

(* The mouse moves when it has nothing left to send. *)
LEMMA MouseMovedStep ==
    ASSUME Ps2Inv, NEW m \in Moves, MouseMoved(m)
    PROVE  Ps2Inv'
<1>0. /\ UNCHANGED <<handler, boot, iflag, unmasked, irr, irq_handlers, out, last, config,
                     reply, kbd,
                     streaming, config_read, packet, mouse_x, mouse_y, mouse_buttons, isr, getter,
                     disturbed>>
      /\ streaming /\ aux = <<>> /\ aux' = Packet(m) /\ pointer' = Moved(pointer, m)
      /\ settled' = settled \cup {pointer'}
    BY DEF MouseMoved, vars, pic, port, mouse
<1>a. /\ Ps2Types /\ BootInv /\ AnswerInv /\ IrqInv /\ SettledInv /\ GetterInv
      /\ ~disturbed => StreamInv
    BY Zenon DEF Ps2Inv
<1>b. boot \notin Before \cup {"ack_defaults", "enable"}
    BY <1>0, <1>a, Zenon DEF BootInv
<1>1. Ps2Types'
  <2>1. pointer' \in [x : Int, y : Int, b : Int]
    BY <1>0, <1>a, MovedType, Zenon DEF Ps2Types
  <2>2. aux' \in Seq(Int)
    <3>1. PICK b1, b2, b3 \in Int : Packet(m) = <<b1, b2, b3>>
        BY PacketDecodes, Zenon
    <3> QED BY <1>0, <3>1
  <2> QED BY <1>0, <1>a, <2>1, <2>2, Zenon
          DEF Ps2Types, OutType, ReplyType, KbdType, MouseType, GetterType
<1>2. BootInv'
    BY <1>0, <1>a, <1>b, Zenon DEF BootInv
<1>3. AnswerInv' /\ IrqInv'
    BY <1>0, <1>a, Zenon DEF AnswerInv, IrqInv, FromMouse
<1>4. GetterInv'
    BY <1>0, <1>a, Zenon DEF GetterInv, InHandler
<1>5. Pos' = Pos
    BY <1>0, Zenon DEF Pos
<1>6. SettledInv'
    BY <1>0, <1>a, <1>5, Zenon DEF SettledInv
<1>7. ASSUME ~disturbed, boot = "ack_enable" PROVE AckInv'
  <2>1. <<ACK>> # <<>> /\ \A i \in Moves : Packet(i) # <<>>
    BY PacketNotEmpty
  <2>2. Held(ACK) /\ pointer = Origin
    BY <1>0, <1>a, <1>7, <2>1, Zenon DEF StreamInv, AckInv
  <2>3. Held(ACK)'
    BY <1>0, <2>2, Zenon DEF Held, FromMouse
  <2> QED BY <1>0, <2>2, <2>3, Zenon DEF AckInv
<1>8. ASSUME ~disturbed, ~LatchedEdges, boot \in {"unmask", "done"}
      PROVE  \/ AtRest'
             \/ \E i \in Moves : InTransit(i)'
             \/ \E i, j \in Moves : Following(i, j)'
  <2>1. AtRest \/ \E i \in Moves : InTransit(i) /\ packet = <<Packet(i)[1], Packet(i)[2]>>
                                   /\ Held(Packet(i)[3])
    <3>1. \A i \in Moves : Packet(i) # <<>>
      BY PacketNotEmpty
    <3>2. \A i \in Moves : <<Packet(i)[2], Packet(i)[3]>> # <<>> /\ <<Packet(i)[3]>> # <<>>
        OBVIOUS
    <3> QED BY <1>0, <1>a, <1>8, <3>1, <3>2, Zenon DEF StreamInv, InTransit, Following
  <2>2. CASE AtRest
    <3>1. InTransit(m)'
      BY <1>0, <1>5, <2>2, Zenon DEF AtRest, InTransit, FromMouse
    <3> QED BY <3>1
  <2>3. ASSUME NEW i \in Moves, InTransit(i), packet = <<Packet(i)[1], Packet(i)[2]>>,
               Held(Packet(i)[3])
        PROVE  Following(i, m)'
    <3>1. Moved(Pos, i) = pointer /\ pointer \in settled
      BY <1>a, <2>3, Zenon DEF InTransit, SettledInv
    <3> QED BY <1>0, <1>5, <2>3, <3>1, Zenon DEF Following, Held, FromMouse
  <2> QED BY <2>1, <2>2, <2>3, Zenon
<1>9. ~disturbed' => StreamInv'
    BY <1>0, <1>b, <1>7, <1>8, Zenon DEF StreamInv
<1> QED BY <1>1, <1>2, <1>3, <1>4, <1>6, <1>9, Zenon DEF Ps2Inv

(* One byte in a buffer, with the line it raises or without *)
LEMMA OneByte ==
    /\ \A e : <<e>> # <<>> /\ <<e>>[1] = e
    /\ \A b, l : <<[byte |-> b, line |-> l]>>[1].byte = b
    /\ \A b, l : <<[byte |-> b, line |-> l]>>[1].line = l
    OBVIOUS

(* The controller loads a byte: it stays the byte of its device. *)
LEMMA LoadStep ==
    ASSUME Ps2Inv, Load
    PROVE  Ps2Inv'
<1>0. /\ UNCHANGED <<handler, boot, iflag, unmasked, irq_handlers, last, config,
                     streaming, config_read, packet, mouse_x, mouse_y, mouse_buttons, isr, getter,
                     pointer, settled, moves, strikes, disturbed>>
      /\ out = <<>> /\ irr' \subseteq irr \cup {out'[1].line}
    BY Zenon DEF Load, vars, mouse, history
<1>a. /\ Ps2Types /\ BootInv /\ AnswerInv /\ IrqInv /\ SettledInv /\ GetterInv
      /\ ~disturbed => StreamInv
    BY Zenon DEF Ps2Inv
<1>5. Pos' = Pos
    BY <1>0, Zenon DEF Pos
<1>6. SettledInv' /\ GetterInv'
    BY <1>0, <1>a, <1>5, Zenon DEF SettledInv, GetterInv, InHandler
<1>b. ~FromMouse
    BY <1>0, Zenon DEF FromMouse
<1>c. IrqInv'
  <2>1. out' # <<>>
    BY OneByte, Zenon DEF Load
  <2>2. ~LatchedEdges => irr = {}
    BY <1>0, <1>a, Zenon DEF IrqInv
  <2> SUFFICES ASSUME ~LatchedEdges, irr' # {} PROVE irr' = {out'[1].line}
    BY <2>1, Zenon DEF IrqInv
  <2>3. irr' \subseteq {out'[1].line}
    BY <1>0, <2>2, Zenon
  <2> QED BY <2>3, Zenon
<1>1. ASSUME NEW b \in Int, out' = <<[byte |-> b, line |-> KeyboardIrq]>>, b # ACK,
             UNCHANGED aux, ReplyType', KbdType', AnswerInv'
      PROVE  Ps2Inv'
  <2>1. ~FromMouse' /\ OutType'
    BY <1>1 DEF FromMouse, OutType, KeyboardIrq, MOUSE_IRQ
  <2>2. Ps2Types'
    BY <1>0, <1>a, <1>1, <2>1, Zenon DEF Ps2Types, MouseType, GetterType
  <2>3. BootInv'
    BY <1>0, <1>a, <1>1, <2>1, Zenon DEF BootInv
  <2>4. ~disturbed' => StreamInv'
    BY <1>0, <1>a, <1>b, <1>1, <1>5, <2>1, Zenon
       DEF StreamInv, AckInv, AtRest, InTransit, Following, Held
  <2> QED BY <1>c, <1>1, <1>6, <2>2, <2>3, <2>4, Zenon DEF Ps2Inv
<1>2. CASE reply # <<>>
  <2>1. PICK b \in Int : reply = <<b>>
    BY <1>a, <1>2 DEF Ps2Types, ReplyType
  <2>2. /\ out' = <<[byte |-> b, line |-> KeyboardIrq]>> /\ reply' = <<>>
        /\ UNCHANGED <<kbd, aux>>
    BY <1>2, <2>1, OneByte, Zenon DEF Load
  <2>3. reply[1] = b /\ out'[1].byte = b /\ out' # <<>>
    BY <2>1, <2>2, OneByte, Zenon
  <2>4. b # ACK
    BY <1>2, <1>a, <2>3, Zenon DEF AnswerInv
  <2>5. boot = "read_config" => b = config
    <3>1. reply = <<config>> => reply[1] = config
      OBVIOUS
    <3> QED BY <1>0, <1>a, <2>3, <3>1, Zenon DEF AnswerInv
  <2>6. AnswerInv'
    BY <1>0, <1>a, <2>2, <2>3, <2>4, <2>5, Zenon DEF AnswerInv
  <2> QED BY <1>1, <1>a, <2>2, <2>4, <2>6, Zenon DEF Ps2Types, ReplyType, KbdType
<1>3. CASE reply = <<>> /\ kbd # <<>> /\ out'[1].line = KeyboardIrq
  <2>1. PICK b \in Int : kbd = <<b>>
    BY <1>a, <1>3 DEF Ps2Types, KbdType
  <2>2. /\ out' = <<[byte |-> b, line |-> KeyboardIrq]>> /\ kbd' = <<>>
        /\ UNCHANGED <<reply, aux>>
    BY <1>3, <2>1 DEF Load, KeyboardIrq, MOUSE_IRQ
  <2>3. kbd[1] = b /\ out'[1].byte = b /\ out' # <<>>
    BY <2>1, <2>2, OneByte, Zenon
  <2>4. b # ACK
    BY <1>3, <1>a, <2>3, Zenon DEF AnswerInv
  <2>5. boot # "read_config"
    <3>1. reply # <<config>>
      BY <1>3
    <3> QED BY <1>0, <1>a, <3>1, Zenon DEF AnswerInv
  <2>6. AnswerInv'
    BY <1>0, <1>a, <2>2, <2>3, <2>4, <2>5, Zenon DEF AnswerInv
  <2> QED BY <1>1, <1>a, <2>2, <2>4, <2>6, Zenon DEF Ps2Types, ReplyType, KbdType
<1>4. CASE /\ reply = <<>> /\ aux # <<>> /\ UNCHANGED <<reply, kbd>>
           /\ out' = <<[byte |-> aux[1], line |-> MOUSE_IRQ]>> /\ aux' = Tail(aux)
  <2>1. aux \in Seq(Int) /\ aux[1] \in Int /\ Tail(aux) \in Seq(Int)
    BY <1>a, <1>4 DEF Ps2Types
  <2>2. OutType' /\ FromMouse' /\ out'[1].byte = aux[1]
    BY <1>4, <2>1 DEF OutType, FromMouse
  <2>3. Ps2Types'
    BY <1>0, <1>a, <1>4, <2>1, <2>2, Zenon DEF Ps2Types, ReplyType, KbdType, MouseType, GetterType
  <2>4. boot \notin Before /\ boot # "read_config"
    BY <1>a, <1>4, Zenon DEF BootInv, Before
  <2>5. BootInv' /\ AnswerInv'
    BY <1>0, <1>a, <1>4, <2>2, <2>4, Zenon DEF BootInv, AnswerInv
  <2>6. ~disturbed => StreamInv
    BY <1>a
  <2>7. ASSUME ~disturbed, boot \in {"ack_defaults", "ack_enable"}
        PROVE  AckInv' /\ aux' = <<>>
    <3>1. aux = <<ACK>> /\ pointer = Origin
      BY <1>b, <2>6, <2>7, Zenon DEF StreamInv, AckInv, Held
    <3>2. aux[1] = ACK /\ Tail(aux) = <<>>
      BY <3>1
    <3> QED BY <1>0, <1>4, <2>2, <3>1, <3>2, Zenon DEF AckInv, Held
  <2>8. ASSUME ~disturbed, ~LatchedEdges, boot \in {"unmask", "done"}
        PROVE  \E m \in Moves : InTransit(m)'
    <3>1. PICK m \in Moves : InTransit(m)
      BY <1>b, <1>4, <2>6, <2>8, Zenon DEF StreamInv, AtRest, Following, Held
    <3>2. PICK b1, b2, b3 \in Int : Packet(m) = <<b1, b2, b3>>
      BY PacketDecodes, Zenon
    <3>3. Packet(m)[1] = b1 /\ Packet(m)[2] = b2 /\ Packet(m)[3] = b3
      BY <3>2
    <3>4. /\ pointer = Moved(Pos, m)
          /\ \/ packet = <<>> /\ aux = <<b1, b2, b3>>
             \/ packet = <<b1>> /\ aux = <<b2, b3>>
             \/ packet = <<b1, b2>> /\ aux = <<b3>>
      BY <1>b, <3>1, <3>2, <3>3, Zenon DEF InTransit, Held
    <3>5. CASE packet = <<>> /\ aux = <<b1, b2, b3>>
      <4>1. aux[1] = b1 /\ Tail(aux) = <<b2, b3>>
        BY <3>5
      <4>2. InTransit(m)'
        BY <1>0, <1>4, <1>5, <2>2, <3>3, <3>4, <3>5, <4>1, Zenon DEF InTransit, Held
      <4> QED BY <4>2
    <3>6. CASE packet = <<b1>> /\ aux = <<b2, b3>>
      <4>1. aux[1] = b2 /\ Tail(aux) = <<b3>>
        BY <3>6
      <4>2. InTransit(m)'
        BY <1>0, <1>4, <1>5, <2>2, <3>3, <3>4, <3>6, <4>1, Zenon DEF InTransit, Held
      <4> QED BY <4>2
    <3>7. CASE packet = <<b1, b2>> /\ aux = <<b3>>
      <4>1. aux[1] = b3 /\ Tail(aux) = <<>>
        BY <3>7
      <4>2. InTransit(m)'
        BY <1>0, <1>4, <1>5, <2>2, <3>3, <3>4, <3>7, <4>1, Zenon DEF InTransit, Held
      <4> QED BY <4>2
    <3> QED BY <3>4, <3>5, <3>6, <3>7, Zenon
  <2>9. ~disturbed /\ boot = "enable" => FALSE
    BY <1>4, <2>6, Zenon DEF StreamInv
  <2>10. ~disturbed' => StreamInv'
    BY <1>0, <2>7, <2>8, <2>9, Zenon DEF StreamInv
  <2> QED BY <1>c, <1>6, <2>3, <2>5, <2>10, Zenon DEF Ps2Inv
<1> QED
  <2>1. \/ reply # <<>>
        \/ reply = <<>> /\ kbd # <<>> /\ out'[1].line = KeyboardIrq
        \/ /\ reply = <<>> /\ aux # <<>> /\ UNCHANGED <<reply, kbd>>
           /\ out' = <<[byte |-> aux[1], line |-> MOUSE_IRQ]>> /\ aux' = Tail(aux)
    <3>1. \A b : <<[byte |-> b, line |-> KeyboardIrq]>>[1].line = KeyboardIrq
      BY OneByte, Zenon
    <3> QED BY <3>1, ZenonT(60) DEF Load
  <2> QED BY <1>2, <1>3, <1>4, <2>1, ZenonT(60)

-----------------------------------------------------------------------------
(* Before mouse_init() is over the mouse driver has its initial state. *)
LEMMA PosAtBoot ==
    ASSUME BootInv, boot # "done", UNCHANGED <<mouse_x, mouse_y, mouse_buttons, isr>>
    PROVE  Pos = Origin /\ Pos' = Origin
    BY Zenon DEF BootInv, Pos, Origin

(* A read of the data port leaves no request behind. *)
LEMMA InbStep ==
    ASSUME Ps2Types, IrqInv, Inb(FALSE)
    PROVE  OutType' /\ last' \in Int /\ IrqInv' /\ ~FromMouse' /\ out' = <<>>
<1>1. out' = <<>> /\ last' \in Int
    BY ByteInt DEF Inb
<1>2. IrqInv'
  <2> SUFFICES ASSUME ~LatchedEdges PROVE irr' = {}
    BY Zenon DEF IrqInv
  <2>1. CASE out = <<>>
    BY <2>1 DEF Inb, IrqInv
  <2>2. CASE out # <<>>
    BY <2>2 DEF Inb, IrqInv
  <2> QED BY <2>1, <2>2
<1> QED BY <1>1, <1>2, Zenon DEF OutType, FromMouse

(* timer_init() and keyboard_init() *)
LEMMA InitCallsStep ==
    ASSUME Ps2Inv, timer_init \/ keyboard_init
    PROVE  Ps2Inv'
<1>0. /\ UNCHANGED <<handler, out, last, config, reply, kbd, aux, streaming,
                     config_read, packet, mouse_x, mouse_y, mouse_buttons, isr, getter,
                     pointer, settled, moves, strikes, disturbed>>
      /\ \/ boot = "timer_init" /\ boot' = "keyboard_init"
         \/ boot = "keyboard_init" /\ boot' = "cli"
      /\ irq_handlers' \subseteq irq_handlers \cup {Timer, KeyboardIrq}
      /\ irr' = {} \/ irr' = irr
    BY DEF timer_init, keyboard_init, Boot, vars, port, devices, mouse, history
<1>a. /\ Ps2Types /\ BootInv /\ AnswerInv /\ IrqInv /\ SettledInv /\ GetterInv
    BY Zenon DEF Ps2Inv
<1>b. boot \in Before /\ boot' \in Before /\ boot' \notin Handshake /\ boot # "done"
                      /\ boot' # "done"
    BY <1>0 DEF Before, Handshake
<1>c. MOUSE_IRQ \notin irq_handlers'
    BY <1>0, <1>a, <1>b DEF BootInv, Timer, KeyboardIrq, MOUSE_IRQ
<1>1. Ps2Types'
    BY <1>0, <1>a, <1>b, Zenon DEF Ps2Types, OutType, ReplyType, KbdType, MouseType, GetterType
<1>2. BootInv'
  <2>1. boot' \notin {"ack_defaults", "enable"}
    BY <1>0
  <2> QED BY <1>0, <1>a, <1>b, <1>c, <2>1, Zenon DEF BootInv, FromMouse
<1>3. AnswerInv' /\ IrqInv'
  <2>1. boot' \notin Configured /\ boot' # "read_config" /\ boot' # "write_config"
    BY <1>0 DEF Configured
  <2>2. IrqInv'
    BY <1>0, <1>a, Zenon DEF IrqInv
  <2>3. AnswerInv'
    BY <1>0, <1>a, <2>1, Zenon DEF AnswerInv, FromMouse
  <2> QED BY <2>2, <2>3
<1>4. GetterInv'
    BY <1>0, <1>a, <1>b, Zenon DEF GetterInv, BootInv
<1>5. SettledInv'
    BY <1>0, <1>a, <1>b, PosAtBoot, Zenon DEF SettledInv
<1>6. StreamInv'
    BY <1>0 DEF StreamInv
<1> QED BY <1>1, <1>2, <1>3, <1>4, <1>5, <1>6, Zenon DEF Ps2Inv

(* cli, and the controller's answer: its configuration byte is no            *)
(* acknowledgement, because the mouse is enabled in it.                      *)
LEMMA ReadConfigCommandStep ==
    ASSUME Ps2Inv, ReadConfigCommand
    PROVE  Ps2Inv'
<1>0. /\ UNCHANGED <<handler, unmasked, irr, irq_handlers, out, last, kbd, aux, streaming,
                     config_read, packet, mouse_x, mouse_y, mouse_buttons, isr, getter,
                     pointer, settled, moves, strikes, disturbed>>
      /\ boot = "cli" /\ boot' = "read_config" /\ ~InHandler /\ ~iflag'
    BY DEF ReadConfigCommand, Boot, vars, pic, port, mouse, history
<1>a. /\ Ps2Types /\ BootInv /\ AnswerInv /\ IrqInv /\ SettledInv /\ GetterInv
    BY Zenon DEF Ps2Inv
<1>b. boot \in Before /\ boot' \in Before /\ boot # "done" /\ boot' # "done"
    BY <1>0 DEF Before
<1>c. /\ config' \in Int /\ reply' = <<config'>> /\ ReplyType' /\ reply'[1] # ACK
    BY <1>a, BitCleared DEF ReadConfigCommand, Ps2Types, ReplyType
<1>1. Ps2Types'
    BY <1>0, <1>a, <1>b, <1>c, Zenon DEF Ps2Types, OutType, KbdType, MouseType, GetterType
<1>2. BootInv'
  <2>1. boot' \notin {"ack_defaults", "enable"}
    BY <1>0
  <2> QED BY <1>0, <1>a, <1>b, <2>1, Zenon DEF BootInv, FromMouse, InHandler
<1>3. AnswerInv' /\ IrqInv'
  <2>1. boot' \notin Configured /\ boot' # "write_config"
    BY <1>0 DEF Configured
  <2>2. IrqInv'
    BY <1>0, <1>a, Zenon DEF IrqInv
  <2>3. AnswerInv'
    BY <1>0, <1>a, <1>c, <2>1, Zenon DEF AnswerInv, FromMouse
  <2> QED BY <2>2, <2>3
<1>4. GetterInv'
    BY <1>0, <1>a, <1>b, Zenon DEF GetterInv, BootInv
<1>5. SettledInv'
    BY <1>0, <1>a, <1>b, PosAtBoot, Zenon DEF SettledInv
<1>6. StreamInv'
    BY <1>0 DEF StreamInv
<1> QED BY <1>1, <1>2, <1>3, <1>4, <1>5, <1>6, Zenon DEF Ps2Inv

(* The configuration byte is read, and its two bits changed. *)
LEMMA ReadConfigStep ==
    ASSUME Ps2Inv, ReadConfig
    PROVE  Ps2Inv'
<1>0. /\ UNCHANGED <<handler, iflag, unmasked, irq_handlers, config, reply, kbd, aux, streaming,
                     packet, mouse_x, mouse_y, mouse_buttons, isr, getter,
                     pointer, settled, moves, strikes>>
      /\ boot = "read_config" /\ boot' = "write_config" /\ Inb(FALSE)
      /\ ~disturbed' => ~disturbed
    BY Zenon DEF ReadConfig, ps2_read_data, Boot, vars, devices, mouse
<1>a. /\ Ps2Types /\ BootInv /\ AnswerInv /\ IrqInv /\ SettledInv /\ GetterInv
    BY Zenon DEF Ps2Inv
<1>b. /\ boot \in Before /\ boot' \in Before /\ boot # "done" /\ boot' # "done"
      /\ boot \in Handshake /\ boot' \in Handshake
    BY <1>0 DEF Before, Handshake
<1>c. OutType' /\ last' \in Int /\ IrqInv' /\ ~FromMouse' /\ out' = <<>>
    BY <1>0, <1>a, InbStep, Zenon
<1>d. config_read' \in Int /\ ~Bit(config_read', AuxOff)
  <2>1. Byte \in Int
    BY <1>a, ByteInt
  <2>2. WithBit(Byte, ConfigIrq(MOUSE_IRQ)) \in Int
    BY <2>1, BitCleared, Zenon
  <2> QED BY <2>2, BitCleared, Zenon DEF ReadConfig
<1>1. Ps2Types'
    BY <1>0, <1>a, <1>b, <1>c, <1>d, Zenon DEF Ps2Types, ReplyType, KbdType, MouseType, GetterType
<1>2. BootInv'
  <2>1. boot' \notin {"ack_defaults", "enable"}
    BY <1>0
  <2> QED BY <1>0, <1>a, <1>b, <1>c, <2>1, Zenon DEF BootInv
<1>3. AnswerInv'
  <2>1. boot' \notin Configured /\ boot' # "read_config"
    BY <1>0 DEF Configured
  <2> QED BY <1>0, <1>a, <1>c, <1>d, <2>1, Zenon DEF AnswerInv
<1>4. GetterInv'
    BY <1>0, <1>a, <1>b, Zenon DEF GetterInv, BootInv
<1>5. SettledInv'
    BY <1>0, <1>a, <1>b, PosAtBoot, Zenon DEF SettledInv
<1>6. StreamInv'
    BY <1>0 DEF StreamInv
<1> QED BY <1>1, <1>2, <1>3, <1>4, <1>5, <1>6, <1>c, Zenon DEF Ps2Inv

(* It is written back: the mouse is on. *)
LEMMA WriteConfigStep ==
    ASSUME Ps2Inv, WriteConfig
    PROVE  Ps2Inv'
<1>0. /\ UNCHANGED <<handler, iflag, unmasked, irr, irq_handlers, out, last, reply, kbd, aux,
                     streaming, config_read, packet, mouse_x, mouse_y, mouse_buttons, isr, getter,
                     pointer, settled, moves, strikes, disturbed>>
      /\ boot = "write_config" /\ boot' = "set_defaults" /\ config' = config_read
    BY DEF WriteConfig, Boot, vars, pic, port, mouse, history
<1>a. /\ Ps2Types /\ BootInv /\ AnswerInv /\ IrqInv /\ SettledInv /\ GetterInv
    BY Zenon DEF Ps2Inv
<1>b. /\ boot \in Before /\ boot' \in Before /\ boot # "done" /\ boot' # "done"
      /\ boot \in Handshake /\ boot' \in Handshake
    BY <1>0 DEF Before, Handshake
<1>1. Ps2Types'
    BY <1>0, <1>a, <1>b, Zenon DEF Ps2Types, OutType, ReplyType, KbdType, MouseType, GetterType
<1>2. BootInv'
  <2>1. boot' \notin {"ack_defaults", "enable"}
    BY <1>0
  <2> QED BY <1>0, <1>a, <1>b, <2>1, Zenon DEF BootInv, FromMouse
<1>3. AnswerInv' /\ IrqInv'
  <2>1. boot' # "write_config" /\ boot' # "read_config"
    BY <1>0
  <2>2. IrqInv'
    BY <1>0, <1>a, Zenon DEF IrqInv
  <2>3. AnswerInv'
    BY <1>0, <1>a, <2>1, Zenon DEF AnswerInv, FromMouse
  <2> QED BY <2>2, <2>3
<1>4. GetterInv'
    BY <1>0, <1>a, <1>b, Zenon DEF GetterInv, BootInv
<1>5. SettledInv'
    BY <1>0, <1>a, <1>b, PosAtBoot, Zenon DEF SettledInv
<1>6. StreamInv'
    BY <1>0 DEF StreamInv
<1> QED BY <1>1, <1>2, <1>3, <1>4, <1>5, <1>6, Zenon DEF Ps2Inv

(* The mouse acknowledges each command. *)
LEMMA MouseWriteStep ==
    ASSUME Ps2Inv, mouse_write("set_defaults", "ack_defaults") \/ mouse_write("enable", "ack_enable")
    PROVE  Ps2Inv'
<1>0. /\ UNCHANGED <<handler, iflag, unmasked, irr, irq_handlers, out, last, config, reply, kbd,
                     config_read, packet, mouse_x, mouse_y, mouse_buttons, isr, getter,
                     pointer, settled, moves, strikes, disturbed>>
      /\ \/ boot = "set_defaults" /\ boot' = "ack_defaults" /\ streaming' = FALSE
         \/ boot = "enable" /\ boot' = "ack_enable"
    BY Zenon DEF mouse_write, Boot, vars, pic, port, mouse, history
<1>a. /\ Ps2Types /\ BootInv /\ AnswerInv /\ IrqInv /\ SettledInv /\ GetterInv
      /\ ~disturbed => StreamInv
    BY Zenon DEF Ps2Inv
<1>b. /\ boot \in Handshake /\ boot' \in Handshake /\ boot # "done" /\ boot' # "done"
      /\ boot \in Configured /\ boot' \in Configured /\ boot' \notin Before
    BY <1>0 DEF Before, Handshake, Configured
<1>c. aux' = Append(aux, ACK)
    BY <1>a, <1>b, Zenon DEF mouse_write, AnswerInv
<1>d. aux' \in Seq(Int)
    BY <1>a, <1>c DEF Ps2Types, ACK
<1>1. Ps2Types'
    BY <1>0, <1>a, <1>b, <1>d, Zenon
       DEF Ps2Types, OutType, ReplyType, KbdType, MouseType, GetterType
<1>e. pointer = Origin
  <2>1. boot \in Before \cup {"ack_defaults", "enable"}
    BY <1>0 DEF Before
  <2> QED BY <1>a, <2>1, Zenon DEF BootInv
<1>2. BootInv'
  <2>1. boot' \in {"ack_defaults", "enable"} => ~streaming'
    BY <1>0
  <2> QED BY <1>0, <1>a, <1>b, <1>e, <2>1, Zenon DEF BootInv
<1>3. AnswerInv' /\ IrqInv'
  <2>1. boot' # "write_config" /\ boot' # "read_config"
    BY <1>0
  <2>2. IrqInv'
    BY <1>0, <1>a, Zenon DEF IrqInv
  <2>3. AnswerInv'
    BY <1>0, <1>a, <1>b, <2>1, Zenon DEF AnswerInv, FromMouse
  <2> QED BY <2>2, <2>3
<1>4. GetterInv'
    BY <1>0, <1>a, <1>b, Zenon DEF GetterInv, BootInv
<1>5. SettledInv'
    BY <1>0, <1>a, <1>b, PosAtBoot, Zenon DEF SettledInv
<1>6. ASSUME ~disturbed PROVE StreamInv'
  <2>1. aux = <<>> /\ ~FromMouse
    <3>1. boot \in Before \/ boot = "enable"
      BY <1>0 DEF Before
    <3> QED BY <1>a, <1>6, <3>1, Zenon DEF BootInv, StreamInv
  <2>2. aux' = <<ACK>>
    BY <1>c, <2>1, AppendTuple DEF ACK
  <2>3. ~FromMouse' /\ AckInv'
    BY <1>0, <1>e, <2>1, <2>2, Zenon DEF FromMouse, AckInv
  <2>4. boot' \notin {"enable", "unmask", "done"}
    BY <1>0
  <2> QED BY <2>3, <2>4, Zenon DEF StreamInv
<1> QED BY <1>0, <1>1, <1>2, <1>3, <1>4, <1>5, <1>6, Zenon DEF Ps2Inv

(* ps2_read_data() takes the acknowledgement, or the handshake was disturbed. *)
LEMMA ReadAckStep ==
    ASSUME Ps2Inv, ReadAck("ack_defaults", "enable") \/ ReadAck("ack_enable", "unmask")
    PROVE  Ps2Inv'
<1>0. /\ UNCHANGED <<handler, iflag, unmasked, irq_handlers, config, reply, kbd, aux, streaming,
                     config_read, packet, mouse_x, mouse_y, mouse_buttons, isr, getter,
                     pointer, settled, moves, strikes>>
      /\ \/ boot = "ack_defaults" /\ boot' = "enable"
         \/ boot = "ack_enable" /\ boot' = "unmask"
      /\ Inb(FALSE)
      /\ ~disturbed' => ~disturbed /\ out # <<>> /\ Byte = ACK
    BY Zenon DEF ReadAck, ps2_read_data, Boot, vars, devices, mouse
<1>a. /\ Ps2Types /\ BootInv /\ AnswerInv /\ IrqInv /\ SettledInv /\ GetterInv
      /\ ~disturbed => StreamInv
    BY Zenon DEF Ps2Inv
<1>b. /\ boot \in Handshake /\ boot' \in Handshake /\ boot # "done" /\ boot' # "done"
      /\ boot \in Configured /\ boot' \in Configured /\ boot' \notin Before
      /\ boot \in {"ack_defaults", "ack_enable"}
    BY <1>0 DEF Before, Handshake, Configured
<1>c. OutType' /\ last' \in Int /\ IrqInv' /\ ~FromMouse' /\ out' = <<>>
    BY <1>0, <1>a, InbStep, Zenon
<1>1. Ps2Types'
    BY <1>0, <1>a, <1>b, <1>c, Zenon DEF Ps2Types, ReplyType, KbdType, MouseType, GetterType
<1>2. BootInv'
  <2>1. boot' \in {"ack_defaults", "enable"} => boot = "ack_defaults"
    BY <1>0
  <2> QED BY <1>0, <1>a, <1>b, <2>1, Zenon DEF BootInv
<1>3. AnswerInv'
  <2>1. boot' # "write_config" /\ boot' # "read_config"
    BY <1>0
  <2> QED BY <1>0, <1>a, <1>b, <1>c, <2>1, Zenon DEF AnswerInv
<1>4. GetterInv'
    BY <1>0, <1>a, <1>b, Zenon DEF GetterInv, BootInv
<1>5. SettledInv'
    BY <1>0, <1>a, <1>b, PosAtBoot, Zenon DEF SettledInv
<1>6. ASSUME ~disturbed' PROVE StreamInv'
  <2>1. FromMouse /\ StreamInv
    BY <1>0, <1>a, <1>6, Zenon DEF AnswerInv, Byte
  <2>2. \/ aux = <<>> /\ pointer = Origin
        \/ \E m \in Moves : aux = Packet(m) /\ pointer = Moved(Origin, m)
    BY <1>b, <2>1, Zenon DEF StreamInv, AckInv
  <2>3. CASE boot' = "enable"
    <3>1. aux' = <<>>
      BY <1>0, <2>1, <2>3 DEF StreamInv
    <3> QED BY <1>c, <2>3, <3>1 DEF StreamInv
  <2>4. CASE boot' = "unmask"
    <3>1. Pos = Origin /\ Pos' = Origin /\ packet = <<>>
      BY <1>0, <1>a, <1>b, PosAtBoot, Zenon DEF BootInv
    <3>2. ASSUME aux = <<>>, pointer = Origin PROVE AtRest'
      BY <1>0, <1>c, <3>1, <3>2, Zenon DEF AtRest
    <3>3. ASSUME NEW m \in Moves, aux = Packet(m), pointer = Moved(Origin, m)
          PROVE  InTransit(m)'
      BY <1>0, <1>c, <3>1, <3>3, Zenon DEF InTransit
    <3>4. AtRest' \/ \E m \in Moves : InTransit(m)'
      BY <2>2, <3>2, <3>3, Zenon
    <3>5. boot' \notin {"ack_defaults", "ack_enable", "enable"}
      BY <2>4
    <3> QED BY <3>4, <3>5, Zenon DEF StreamInv
  <2> QED BY <1>0, <2>3, <2>4, Zenon
<1> QED BY <1>1, <1>2, <1>3, <1>4, <1>5, <1>6, <1>c, Zenon DEF Ps2Inv

(* The end of mouse_init() *)
LEMMA UnmaskStep ==
    ASSUME Ps2Inv, Unmask
    PROVE  Ps2Inv'
<1>0. /\ UNCHANGED <<handler, irr, out, last, config, reply, kbd, aux, streaming,
                     config_read, isr, getter, pointer, settled, moves, strikes, disturbed>>
      /\ boot = "unmask" /\ boot' = "done"
      /\ packet' = <<>> /\ mouse_x' = 0 /\ mouse_y' = 0 /\ mouse_buttons' = 0
    BY DEF Unmask, Boot, vars, pic, port, devices, mouse, history
<1>a. /\ Ps2Types /\ BootInv /\ AnswerInv /\ IrqInv /\ SettledInv /\ GetterInv
      /\ ~disturbed => StreamInv
    BY Zenon DEF Ps2Inv
<1>b. /\ boot # "done" /\ boot \in Configured /\ boot' \in Configured
      /\ boot' \notin Before /\ boot' \notin Handshake
    BY <1>0 DEF Before, Handshake, Configured
<1>c. UNCHANGED <<packet, mouse_x, mouse_y, mouse_buttons>> /\ getter.at = "idle"
    BY <1>0, <1>a, <1>b, Zenon DEF BootInv
<1>1. Ps2Types'
    BY <1>0, <1>a, <1>b, <1>c, Zenon
       DEF Ps2Types, OutType, ReplyType, KbdType, MouseType, GetterType
<1>2. BootInv'
  <2>1. boot' \notin {"ack_defaults", "enable"}
    BY <1>0
  <2> QED BY <1>0, <1>b, <2>1, Zenon DEF BootInv
<1>3. AnswerInv' /\ IrqInv'
  <2>1. boot' # "write_config" /\ boot' # "read_config"
    BY <1>0
  <2>2. IrqInv'
    BY <1>0, <1>a, Zenon DEF IrqInv
  <2>3. AnswerInv'
    BY <1>0, <1>a, <1>b, <2>1, Zenon DEF AnswerInv, FromMouse
  <2> QED BY <2>2, <2>3
<1>4. GetterInv'
    BY <1>0, <1>c, Zenon DEF GetterInv
<1>5. Pos' = Pos
    BY <1>0, <1>c, Zenon DEF Pos
<1>6. SettledInv'
    BY <1>0, <1>a, <1>5, Zenon DEF SettledInv
<1>7. ~disturbed' => StreamInv'
  <2>1. boot' \notin {"ack_defaults", "ack_enable", "enable"} /\ boot' \in {"unmask", "done"}
        /\ boot \in {"unmask", "done"}
    BY <1>0
  <2> QED BY <1>0, <1>a, <1>c, <1>5, <2>1, Zenon
          DEF StreamInv, AtRest, InTransit, Following, Held, FromMouse
<1> QED BY <1>1, <1>2, <1>3, <1>4, <1>6, <1>7, Zenon DEF Ps2Inv

-----------------------------------------------------------------------------
(* Every step of kmain(), the devices, the handlers and the callers keeps the *)
(* invariant, by the lemma of its action.                                    *)
LEMMA Ps2Step == Ps2Inv /\ [Ps2Next]_all_vars => Ps2Inv'
<1> SUFFICES ASSUME Ps2Inv, [Ps2Next]_all_vars PROVE Ps2Inv'
    OBVIOUS
<1>1. CASE BootStep
    BY <1>1, InitCallsStep, ReadConfigCommandStep, ReadConfigStep, WriteConfigStep,
       MouseWriteStep, ReadAckStep, UnmaskStep, Zenon DEF BootStep, mouse_init
<1>2. CASE Devices
    BY <1>2, KeyStruckStep, MouseMovedStep, LoadStep, Zenon DEF Devices
<1>3. CASE IrqKeyboard \/ IrqMouse
    BY <1>3, KeyboardIrqStep, MouseIrqStep, Zenon
<1>4. CASE HandlerStep
  <2>1. CASE (PushTest \/ PushStore \/ PushPublish) /\ UNCHANGED ps2_vars
    <3>1. handler.at # "iret"
      BY <2>1 DEF PushTest, PushStore, PushPublish
    <3> QED BY <2>1, <3>1, QuietStep, Zenon
  <2> QED BY <1>4, <2>1, MouseHandlerStep, Zenon DEF HandlerStep
<1>5. CASE mouse_get_state
    BY <1>5, GetterStep, Zenon
<1>6. ASSUME NEW r \in Readers, keyboard_read_char(r), UNCHANGED ps2_vars PROVE Ps2Inv'
  <2>1. UNCHANGED handler
    BY <1>6, Zenon DEF keyboard_read_char, ReadTest, ReadLoad, ReadAdvance
  <2> QED BY <1>6, <2>1, QuietStep, Zenon
<1>7. CASE UNCHANGED all_vars
  <2>1. UNCHANGED handler /\ UNCHANGED ps2_vars
    BY <1>7, Zenon DEF all_vars, vars
  <2> QED BY <2>1, QuietStep, Zenon
<1> QED BY <1>1, <1>2, <1>3, <1>4, <1>5, <1>6, <1>7, Zenon DEF Ps2Next

(* The inductive invariant of the two drivers: where the bytes of a packet   *)
(* are (mouse, output buffer or driver), what the handshake waits for, and   *)
(* what an interrupted mouse_get_state() has copied.                         *)
THEOREM Ps2Invariant == Ps2Spec => []Ps2Inv
    BY Ps2InitInv, Ps2Step, PTL DEF Ps2Spec

(* No interrupt handler takes the configuration byte or an acknowledgement   *)
(* that mouse_init() waits for: cli covers the whole handshake, whatever the *)
(* keyboard sends, as long as the handshake itself has read only answers.    *)
THEOREM AnswersNotStolen == Ps2Spec => []AnswerNotStolen
<1>1. Ps2Inv => AnswerNotStolen
  <2> SUFFICES ASSUME Ps2Inv PROVE AnswerNotStolen
    OBVIOUS
  <2>1. boot = "read_config" => reply # <<>> \/ (out # <<>> /\ out[1].byte = config)
    <3>1. <<config>> # <<>>
      OBVIOUS
    <3> QED BY <3>1, Zenon DEF Ps2Inv, AnswerInv
  <2>2. boot \in {"ack_defaults", "ack_enable"} /\ ~disturbed =>
            (aux # <<>> /\ aux[1] = ACK) \/ (out # <<>> /\ out[1].byte = ACK)
    <3>1. <<ACK>> # <<>> /\ <<ACK>>[1] = ACK
      OBVIOUS
    <3> QED BY <3>1, Zenon DEF Ps2Inv, StreamInv, AckInv, Held, FromMouse
  <2> QED BY <2>1, <2>2, Zenon DEF AnswerNotStolen
<1> QED BY <1>1, Ps2Invariant, PTL

(* Whatever keys and movements arrive, between packets mouse_irq_handler()   *)
(* has put the position where the mouse is: no byte is lost, taken twice or  *)
(* given to the keyboard, and packets stay aligned, if the handshake read    *)
(* its own answers.  For an interrupt controller that withdraws the request  *)
(* of a byte that was polled away.                                           *)
THEOREM PointerFollows ==
    ASSUME ~LatchedEdges
    PROVE  Ps2Spec => []PointerFollowsPackets
<1>1. Ps2Inv => PointerFollowsPackets
  <2> SUFFICES ASSUME Ps2Inv, boot = "done", ~disturbed, ~InHandler, ~MouseBytesLeft
               PROVE  packet = <<>> /\ pointer = [x |-> mouse_x, y |-> mouse_y, b |-> mouse_buttons]
    BY Zenon DEF PointerFollowsPackets
  <2>1. aux = <<>> /\ ~FromMouse
    BY Zenon DEF MouseBytesLeft, FromMouse
  <2>2. \A m \in Moves : Packet(m) # <<>>
    BY PacketNotEmpty
  <2>3. \A m \in Moves : <<Packet(m)[2], Packet(m)[3]>> # <<>> /\ <<Packet(m)[3]>> # <<>>
    OBVIOUS
  <2>4. AtRest
    BY <2>1, <2>2, <2>3, Zenon DEF Ps2Inv, StreamInv, InTransit, Following, Held
  <2> QED BY <2>4, Zenon DEF AtRest, Pos, InHandler
<1> QED BY <1>1, Ps2Invariant, PTL

(* A call of mouse_get_state() on the boot core copies a position that the   *)
(* mouse had between two packets, whatever other cores copy: its cli keeps   *)
(* the mouse's handler out.  (On another core it does not.)                  *)
THEOREM BootCoreCopySettled ==
    ASSUME ~LatchedEdges
    PROVE  Ps2Spec => []BootCoreCopyIsSettled
<1>1. Ps2Inv => BootCoreCopyIsSettled
  <2> SUFFICES ASSUME Ps2Inv, getter.at = "return", getter.core = "boot", ~disturbed
               PROVE  getter.s \in settled
    BY Zenon DEF BootCoreCopyIsSettled
  <2>1. /\ isr.at = "iret" /\ getter.s.x = mouse_x /\ getter.s.y = mouse_y
        /\ getter.s.b = mouse_buttons
    BY DEF Ps2Inv, GetterInv, InHandler
  <2>2. getter.s \in [x : Int, y : Int, b : Int]
    BY DEF Ps2Inv, Ps2Types, GetterType
  <2>3. Pos = [x |-> mouse_x, y |-> mouse_y, b |-> mouse_buttons]
    BY <2>1, Zenon DEF Pos
  <2>4. getter.s = Pos
    BY <2>1, <2>2, <2>3
  <2> QED BY <2>4, Zenon DEF Ps2Inv, SettledInv
<1> QED BY <1>1, Ps2Invariant, PTL

(* Among interrupts of both drivers, the handshake and mouse_get_state() the *)
(* ring of keyboard.c is still the bounded queue that keyboard_read_char()   *)
(* needs, with one thread reading it.                                        *)
THEOREM TypedKeysQueue ==
    ASSUME NEW r, Readers = {r}
    PROVE  Ps2Spec => ImplementsBoundedQueue
<1>1. Ps2Init => Init
    BY Zenon DEF Ps2Init
<1>2. [Ps2Next]_all_vars => [Next]_vars
  <2> SUFFICES ASSUME [Ps2Next]_all_vars PROVE Next \/ UNCHANGED vars
    OBVIOUS
  <2>1. CASE IrqKeyboard
    <3>1. Kind(Byte) \in {"make", "break", "unmapped"}
      BY DEF Kind
    <3> QED BY <2>1, <3>1, Zenon DEF IrqKeyboard, Next, Handler
  <2>2. CASE BootStep
    BY <2>2, Zenon DEF BootStep, timer_init, keyboard_init, mouse_init, ReadConfigCommand,
       ReadConfig, WriteConfig, mouse_write, ReadAck, Unmask
  <2>3. CASE Devices \/ IrqMouse \/ mouse_get_state
    BY <2>3, Zenon DEF Devices, KeyStruck, MouseMoved, Load, IrqMouse, mouse_get_state,
       GetCli, GetX, GetY, GetButtons, GetSti
  <2>4. CASE HandlerStep
    BY <2>4, Zenon DEF HandlerStep, MoveX, MoveY, ClampToScreen, Next, Handler
  <2>5. CASE UNCHANGED all_vars
    BY <2>5, Zenon DEF all_vars
  <2> QED BY <2>1, <2>2, <2>3, <2>4, <2>5, Zenon DEF Ps2Next, Next
<1>3. Spec => ImplementsBoundedQueue
    BY RingIsQueue, Zenon
<1> QED BY <1>1, <1>2, <1>3, PTL DEF Ps2Spec, Spec

-----------------------------------------------------------------------------
(* Who reads the ring: the programs of Console, over cores of their own *)

(* A stack of programs: all but the last wait for the program they run. *)
StackInv ==
    /\ \E top \in Programs :
        /\ at[top] # "unused"
        /\ \A p \in Programs : p < top => at[p] = "wait"
        /\ \A p \in Programs : p > top => at[p] = "unused"
    /\ \A p \in Programs : at[p] = "wait" => p < Depth

(* A character is one of the keys pressed, and is still on its way, in the   *)
(* buffer or read.                                                           *)
KeysInv == queue + consumed + (IF irq1 THEN 1 ELSE 0) <= pressed

ConsoleInv == ConsoleTypeOK /\ StackInv /\ KeysInv

(* The invariant holds when the first program starts. *)
LEMMA ConsoleInitInv == ConsoleInit => ConsoleInv
<1> SUFFICES ASSUME ConsoleInit PROVE ConsoleInv
    OBVIOUS
<1>1. 1 \in Programs /\ \A p \in Programs : p \in Nat /\ p >= 1
    BY ConsoleAssumption DEF Programs
<1>2. ConsoleTypeOK
  <2>1. at \in [Programs -> {"unused", "user", "poll", "yield", "got", "wait"}]
    BY DEF ConsoleInit
  <2>2. ctx \in [Programs -> {"isr", "call"}] /\ core_if \in [Cores -> BOOLEAN]
    BY Zenon DEF ConsoleInit
  <2>3. /\ cur \in [Cores -> {Idle} \cup Programs]
        /\ \A c, d \in Cores : c # d /\ cur[c] # Idle => cur[c] # cur[d]
    BY Zenon DEF ConsoleInit
  <2>4. irq1 \in BOOLEAN
    BY Zenon DEF ConsoleInit
  <2>5. /\ queue \in 0 .. Capacity
        /\ pressed \in 0 .. MaxPressed /\ consumed \in 0 .. MaxPressed
    BY ConsoleAssumption DEF ConsoleInit
  <2> QED BY <2>1, <2>2, <2>3, <2>4, <2>5, Zenon DEF ConsoleTypeOK
<1>3. StackInv
    BY <1>1 DEF ConsoleInit, StackInv
<1>4. KeysInv
    BY DEF ConsoleInit, KeysInv
<1> QED BY <1>2, <1>3, <1>4 DEF ConsoleInv

(* A core takes a ready program: it is on no other core. *)
LEMMA SwitchKeepsTypes ==
    ASSUME ConsoleTypeOK, NEW c \in Cores,
           NEW p \in Programs, Ready(p), SwitchTo(c, p)
    PROVE  /\ cur' \in [Cores -> {Idle} \cup Programs]
           /\ core_if' \in [Cores -> BOOLEAN]
           /\ \A d, e \in Cores : d # e /\ cur'[d] # Idle => cur'[d] # cur'[e]
<1>1. /\ cur \in [Cores -> {Idle} \cup Programs] /\ core_if \in [Cores -> BOOLEAN]
      /\ \A d, e \in Cores : d # e /\ cur[d] # Idle => cur[d] # cur[e]
      /\ \A d \in Cores : cur[d] # p
    BY Zenon DEF ConsoleTypeOK, Ready
<1>2. cur' = [cur EXCEPT ![c] = p] /\ core_if' = [core_if EXCEPT ![c] = (ctx[p] = "isr")]
    BY Zenon DEF SwitchTo
<1>3. core_if' \in [Cores -> BOOLEAN]
    BY <1>1, <1>2, Zenon
<1>4. \A d \in Cores : cur'[d] = IF d = c THEN p ELSE cur[d]
    BY <1>1, <1>2
<1> QED BY <1>1, <1>2, <1>3, <1>4

(* schedule(), which may find no other program *)
LEMMA ScheduleKeepsTypes ==
    ASSUME ConsoleTypeOK, NEW c \in Cores, schedule(c)
    PROVE  /\ cur' \in [Cores -> {Idle} \cup Programs]
           /\ core_if' \in [Cores -> BOOLEAN]
           /\ ctx' \in [Programs -> {"isr", "call"}]
           /\ \A d, e \in Cores : d # e /\ cur'[d] # Idle => cur'[d] # cur'[e]
<1>1. CASE core_if' = [core_if EXCEPT ![c] = FALSE] /\ UNCHANGED <<cur, ctx>>
    BY <1>1, Zenon DEF ConsoleTypeOK
<1>2. ASSUME NEW p \in Programs, NextReady(c, p), SwitchTo(c, p),
             ctx' = [ctx EXCEPT ![cur[c]] = "call"]
      PROVE  /\ cur' \in [Cores -> {Idle} \cup Programs]
             /\ core_if' \in [Cores -> BOOLEAN]
             /\ ctx' \in [Programs -> {"isr", "call"}]
             /\ \A d, e \in Cores : d # e /\ cur'[d] # Idle => cur'[d] # cur'[e]
  <2>1. ctx' \in [Programs -> {"isr", "call"}]
    BY <1>2, Zenon DEF ConsoleTypeOK
  <2> QED BY <1>2, <2>1, SwitchKeepsTypes, Zenon DEF NextReady
<1> QED BY <1>1, <1>2, Zenon DEF schedule

(* A step that moves no program *)
LEMMA SameStack ==
    ASSUME ConsoleTypeOK, StackInv, UNCHANGED at
    PROVE  StackInv'
    BY Zenon DEF StackInv

(* A step of the program on top of the stack that neither runs another nor   *)
(* exits                                                                     *)
LEMMA TopMoves ==
    ASSUME ConsoleTypeOK, StackInv, NEW p \in Programs,
           NEW place \in {"user", "poll", "yield", "got"},
           at[p] \notin {"unused", "wait"} \/ (at[p] = "wait" /\ at[p + 1] = "unused"),
           at' = [at EXCEPT ![p] = place]
    PROVE  StackInv' /\ at' \in [Programs -> {"unused", "user", "poll", "yield", "got", "wait"}]
<1>0. at \in [Programs -> {"unused", "user", "poll", "yield", "got", "wait"}]
    BY DEF ConsoleTypeOK
<1>1. PICK top \in Programs :
        /\ at[top] # "unused"
        /\ \A q \in Programs : q < top => at[q] = "wait"
        /\ \A q \in Programs : q > top => at[q] = "unused"
    BY DEF StackInv
<1>2. p = top
  <2>0. \A q \in Programs : q \in Int
    BY DEF Programs
  <2>1. ~(p > top)
    BY <1>1
  <2>2. ASSUME p < top PROVE FALSE
    <3>1. at[p] = "wait" /\ at[p + 1] = "unused"
      BY <1>1, <2>2
    <3>2. p + 1 \in Programs /\ (p + 1 = top \/ p + 1 < top)
      BY <2>2, ConsoleAssumption DEF Programs
    <3> QED BY <1>1, <3>1, <3>2
  <2> QED BY <2>0, <2>1, <2>2
<1>3. \A q \in Programs : at'[q] = IF q = p THEN place ELSE at[q]
    BY <1>0
<1>4. place # "unused" /\ place # "wait"
    OBVIOUS
<1>5. at' \in [Programs -> {"unused", "user", "poll", "yield", "got", "wait"}]
    BY <1>0
<1>6. \A q \in Programs : ~(q < q) /\ ~(q > q)
    BY DEF Programs
<1>7. StackInv'
    BY <1>1, <1>2, <1>3, <1>4, <1>6, ZenonT(60) DEF StackInv
<1> QED BY <1>5, <1>7

(* Every step of a program, a core or the keyboard keeps the invariant. *)
LEMMA ConsoleStep ==
    ASSUME ConsoleInv, [ConsoleNext]_console_vars
    PROVE  ConsoleInv'
<1>0. ConsoleTypeOK /\ StackInv /\ KeysInv
    BY Zenon DEF ConsoleInv
<1>t. /\ at \in [Programs -> {"unused", "user", "poll", "yield", "got", "wait"}]
      /\ ctx \in [Programs -> {"isr", "call"}]
      /\ cur \in [Cores -> {Idle} \cup Programs]
      /\ core_if \in [Cores -> BOOLEAN]
      /\ irq1 \in BOOLEAN
      /\ queue \in 0 .. Capacity
      /\ pressed \in 0 .. MaxPressed /\ consumed \in 0 .. MaxPressed
      /\ \A c, d \in Cores : c # d /\ cur[c] # Idle => cur[c] # cur[d]
    BY <1>0, Zenon DEF ConsoleTypeOK
<1>1. CASE PressKey
  <2>1. UNCHANGED <<at, ctx, cur, core_if, queue, consumed>> /\ irq1' = TRUE /\ irq1 = FALSE
    BY <1>1, <1>t, Zenon DEF PressKey
  <2>2. pressed' \in 0 .. MaxPressed /\ pressed' = pressed + 1
    BY <1>1, <1>t, ConsoleAssumption DEF PressKey
  <2>3. KeysInv'
    <3>1. (IF irq1 THEN 1 ELSE 0) = 0 /\ (IF irq1' THEN 1 ELSE 0) = 1
      BY <2>1, Zenon
    <3> QED BY <1>0, <1>t, <2>1, <2>2, <3>1 DEF KeysInv
  <2>4. ConsoleTypeOK'
    BY <1>t, <2>1, <2>2, Zenon DEF ConsoleTypeOK
  <2> QED BY <1>0, <2>1, <2>3, <2>4, SameStack, Zenon DEF ConsoleInv
<1>2. CASE Irq1Handler
  <2>1. UNCHANGED <<at, ctx, cur, core_if, pressed, consumed>> /\ irq1' = FALSE /\ irq1 = TRUE
    BY <1>2, <1>t, Zenon DEF Irq1Handler, Interruptible
  <2>2. queue' \in 0 .. Capacity /\ (queue' = queue \/ queue' = queue + 1)
    BY <1>2, <1>t, ConsoleAssumption DEF Irq1Handler
  <2>3. KeysInv'
    <3>1. (IF irq1 THEN 1 ELSE 0) = 1 /\ (IF irq1' THEN 1 ELSE 0) = 0
      BY <2>1, Zenon
    <3>2. queue + consumed + 1 <= pressed
      BY <1>0, <3>1, Zenon DEF KeysInv
    <3>3. queue' + consumed' + 0 <= pressed'
      <4>1. queue \in Int /\ consumed \in Int /\ pressed \in Int
        BY <1>t
      <4>2. consumed' = consumed /\ pressed' = pressed
        BY <2>1, Zenon
      <4>3. CASE queue' = queue
        BY <3>2, <4>1, <4>2, <4>3
      <4>4. CASE queue' = queue + 1
        BY <3>2, <4>1, <4>2, <4>4
      <4> QED BY <2>2, <4>3, <4>4, Zenon
    <3> QED BY <3>1, <3>3, Zenon DEF KeysInv
  <2>4. ConsoleTypeOK'
    BY <1>t, <2>1, <2>2, Zenon DEF ConsoleTypeOK
  <2> QED BY <1>0, <2>1, <2>3, <2>4, SameStack, Zenon DEF ConsoleInv
<1>k. ASSUME UNCHANGED keyVars, StackInv',
             at' \in [Programs -> {"unused", "user", "poll", "yield", "got", "wait"}],
             ctx' \in [Programs -> {"isr", "call"}],
             cur' \in [Cores -> {Idle} \cup Programs], core_if' \in [Cores -> BOOLEAN],
             \A d, e \in Cores : d # e /\ cur'[d] # Idle => cur'[d] # cur'[e]
      PROVE  ConsoleInv'
  <2>1. UNCHANGED <<irq1, queue, pressed, consumed>>
    BY <1>k, Zenon DEF keyVars
  <2>2. KeysInv'
    BY <1>0, <2>1, Zenon DEF KeysInv
  <2>3. ConsoleTypeOK'
    BY <1>t, <1>k, <2>1, Zenon DEF ConsoleTypeOK
  <2> QED BY <1>k, <2>2, <2>3, Zenon DEF ConsoleInv
<1>3. ASSUME NEW c \in Cores, TimerTick(c) PROVE ConsoleInv'
  <2>1. PICK p \in Programs : /\ NextReady(c, p) /\ SwitchTo(c, p)
                              /\ ctx' = [q \in Programs |-> IF q = cur[c] THEN "isr" ELSE ctx[q]]
    BY <1>3, Zenon DEF TimerTick
  <2>2. ctx' \in [Programs -> {"isr", "call"}]
    BY <1>t, <2>1
  <2>3. UNCHANGED <<at, keyVars>>
    BY <1>3, Zenon DEF TimerTick
  <2>4. StackInv' /\ at' \in [Programs -> {"unused", "user", "poll", "yield", "got", "wait"}]
    BY <1>0, <1>t, <2>3, SameStack, Zenon
  <2>5. Ready(p)
    BY <2>1, Zenon DEF NextReady
  <2>6. /\ cur' \in [Cores -> {Idle} \cup Programs]
        /\ core_if' \in [Cores -> BOOLEAN]
        /\ \A d, e \in Cores : d # e /\ cur'[d] # Idle => cur'[d] # cur'[e]
    BY <1>0, <2>1, <2>5, SwitchKeepsTypes, Zenon
  <2> QED BY <1>k, <2>2, <2>3, <2>4, <2>6, Zenon
<1>4. ASSUME NEW p \in Programs, NEW c \in Cores,
             SYS_READ_CHAR(c, p) \/ ReadAnother(c, p)
      PROVE  ConsoleInv'
  <2>1. /\ at[p] \notin {"unused", "wait"} /\ UNCHANGED <<ctx, cur, keyVars>>
        /\ at' = [at EXCEPT ![p] = "poll"] \/ at' = [at EXCEPT ![p] = "user"]
        /\ core_if' = [core_if EXCEPT ![c] = TRUE] \/ UNCHANGED core_if
    BY <1>4 DEF SYS_READ_CHAR, ReadAnother, On
  <2>2. StackInv' /\ at' \in [Programs -> {"unused", "user", "poll", "yield", "got", "wait"}]
    BY <1>0, <2>1, TopMoves
  <2>3. core_if' \in [Cores -> BOOLEAN]
    BY <1>t, <2>1, Zenon
  <2> QED BY <1>k, <1>t, <2>1, <2>2, <2>3, Zenon
<1>5. ASSUME NEW p \in Programs, NEW c \in Cores, Poll(c, p) PROVE ConsoleInv'
  <2>1. /\ at[p] = "poll" /\ UNCHANGED <<ctx, cur, irq1, pressed>>
        /\ at' = [at EXCEPT ![p] = "got"] \/ at' = [at EXCEPT ![p] = "yield"]
        /\ core_if' = [core_if EXCEPT ![c] = TRUE]
        /\ \/ queue > 0 /\ queue' = queue - 1 /\ consumed' = consumed + 1
           \/ UNCHANGED <<queue, consumed>>
    BY <1>5, Zenon DEF Poll, On
  <2>2. StackInv' /\ at' \in [Programs -> {"unused", "user", "poll", "yield", "got", "wait"}]
    BY <1>0, <2>1, TopMoves
  <2>3. core_if' \in [Cores -> BOOLEAN]
    BY <1>t, <2>1, Zenon
  <2>4. KeysInv' /\ queue' \in 0 .. Capacity /\ consumed' \in 0 .. MaxPressed
    BY <1>0, <1>t, <2>1, ConsoleAssumption DEF KeysInv
  <2>5. ConsoleTypeOK'
    BY <1>t, <2>1, <2>2, <2>3, <2>4, Zenon DEF ConsoleTypeOK
  <2> QED BY <2>2, <2>4, <2>5, Zenon DEF ConsoleInv
<1>6. ASSUME NEW p \in Programs, NEW c \in Cores, Yield(c, p) PROVE ConsoleInv'
  <2>1. /\ at[p] = "yield" /\ schedule(c) /\ at' = [at EXCEPT ![p] = "poll"]
        /\ UNCHANGED keyVars
    BY <1>6, Zenon DEF Yield, On
  <2>2. StackInv' /\ at' \in [Programs -> {"unused", "user", "poll", "yield", "got", "wait"}]
    BY <1>0, <2>1, TopMoves, Zenon
  <2> QED BY <1>0, <1>k, <2>1, <2>2, ScheduleKeepsTypes, Zenon
<1>7. ASSUME NEW p \in Programs, NEW c \in Cores, SYS_EXEC(c, p) PROVE ConsoleInv'
  <2>1. /\ at[p] = "got" /\ p < Depth /\ at[p + 1] = "unused"
        /\ at' = [at EXCEPT ![p] = "wait", ![p + 1] = "user"]
        /\ ctx' = [ctx EXCEPT ![p + 1] = "isr"] /\ UNCHANGED <<cur, core_if, keyVars>>
    BY <1>7, Zenon DEF SYS_EXEC, On, Alive
  <2>2. p + 1 \in Programs /\ p \in Nat /\ (\A q \in Programs : q \in Nat) /\ p + 1 # p
    BY <2>1, ConsoleAssumption DEF Programs
  <2>3. \A q \in Programs : at'[q] = IF q = p + 1 THEN "user" ELSE IF q = p THEN "wait" ELSE at[q]
    BY <1>t, <2>1, <2>2
  <2>4. at' \in [Programs -> {"unused", "user", "poll", "yield", "got", "wait"}]
    BY <1>t, <2>1, <2>2
  <2>5. ctx' \in [Programs -> {"isr", "call"}]
    BY <1>t, <2>1, <2>2
  <2>6. PICK top \in Programs :
        /\ at[top] # "unused"
        /\ \A q \in Programs : q < top => at[q] = "wait"
        /\ \A q \in Programs : q > top => at[q] = "unused"
    BY <1>0 DEF StackInv
  <2>7. p = top
    <3>1. ~(p < top) /\ ~(p > top)
      BY <2>1, <2>6
    <3> QED BY <2>2, <3>1
  <2>8. /\ at'[p + 1] # "unused"
        /\ \A q \in Programs : q < p + 1 => at'[q] = "wait"
        /\ \A q \in Programs : q > p + 1 => at'[q] = "unused"
        /\ \A q \in Programs : at'[q] = "wait" => q < Depth
    <3>1. \A q \in Programs : q # p /\ at[q] = "wait" => q < Depth
      BY <1>0, Zenon DEF StackInv
    <3>2. \A q \in Programs : (q < p + 1 => q < p \/ q = p) /\ (q > p + 1 => q > p)
      BY <2>2
    <3>3. \A q \in Programs : q # p /\ q # p + 1 => at'[q] = at[q]
      BY <2>3, Zenon
    <3>4. at'[p] = "wait" /\ at'[p + 1] = "user"
      BY <2>2, <2>3
    <3>5. \A q \in Programs : q < p + 1 => at'[q] = "wait"
      BY <2>2, <2>6, <2>7, <3>2, <3>3, <3>4, SMTT(60)
    <3>6. \A q \in Programs : q > p + 1 => at'[q] = "unused"
      BY <2>2, <2>6, <2>7, <3>2, <3>3, SMTT(60)
    <3>7. \A q \in Programs : at'[q] = "wait" => q < Depth
      BY <2>1, <2>2, <3>1, <3>3, <3>4
    <3> QED BY <3>4, <3>5, <3>6, <3>7
  <2>9. StackInv'
    BY <2>2, <2>8, Zenon DEF StackInv
  <2>10. /\ cur' \in [Cores -> {Idle} \cup Programs]
         /\ core_if' \in [Cores -> BOOLEAN]
         /\ \A d, e \in Cores : d # e /\ cur'[d] # Idle => cur'[d] # cur'[e]
    <3>1. cur' = cur /\ core_if' = core_if
      BY <2>1, Zenon
    <3> QED BY <1>t, <3>1, Zenon
  <2>11. UNCHANGED keyVars
    BY <2>1, Zenon
  <2> QED BY <1>k, <2>4, <2>5, <2>9, <2>10, <2>11, Zenon
<1>8. ASSUME NEW p \in Programs, NEW c \in Cores, SYS_EXIT(c, p) PROVE ConsoleInv'
  <2>1. /\ at[p] = "got" /\ p > 1 /\ at' = [at EXCEPT ![p] = "unused"]
        /\ UNCHANGED <<ctx, keyVars>>
        /\ \/ \E q \in Programs : NextReady(c, q) /\ SwitchTo(c, q)
           \/ cur' = [cur EXCEPT ![c] = Idle] /\ core_if' = [core_if EXCEPT ![c] = TRUE]
    BY <1>8, Zenon DEF SYS_EXIT, On
  <2>2. p - 1 \in Programs /\ p \in Nat /\ (\A q \in Programs : q \in Nat)
    BY <2>1, ConsoleAssumption DEF Programs
  <2>3. \A q \in Programs : at'[q] = IF q = p THEN "unused" ELSE at[q]
    BY <1>t, <2>1
  <2>4. at' \in [Programs -> {"unused", "user", "poll", "yield", "got", "wait"}]
    BY <1>t, <2>1
  <2>6. PICK top \in Programs :
        /\ at[top] # "unused"
        /\ \A q \in Programs : q < top => at[q] = "wait"
        /\ \A q \in Programs : q > top => at[q] = "unused"
    BY <1>0 DEF StackInv
  <2>7. p = top
    <3>1. ~(p < top) /\ ~(p > top)
      BY <2>1, <2>6
    <3> QED BY <2>2, <3>1
  <2>8. /\ at'[p - 1] # "unused"
        /\ \A q \in Programs : q < p - 1 => at'[q] = "wait"
        /\ \A q \in Programs : q > p - 1 => at'[q] = "unused"
        /\ \A q \in Programs : at'[q] = "wait" => q < Depth
    BY <1>0, <2>2, <2>3, <2>6, <2>7 DEF StackInv
  <2>9. StackInv'
    BY <2>2, <2>8, Zenon DEF StackInv
  <2>10. /\ cur' \in [Cores -> {Idle} \cup Programs]
         /\ core_if' \in [Cores -> BOOLEAN]
         /\ \A d, e \in Cores : d # e /\ cur'[d] # Idle => cur'[d] # cur'[e]
    <3>1. ASSUME NEW q \in Programs, NextReady(c, q), SwitchTo(c, q)
          PROVE  /\ cur' \in [Cores -> {Idle} \cup Programs]
                 /\ core_if' \in [Cores -> BOOLEAN]
                 /\ \A d, e \in Cores : d # e /\ cur'[d] # Idle => cur'[d] # cur'[e]
      <4>1. Ready(q)
        BY <3>1, Zenon DEF NextReady
      <4> QED BY <1>0, <3>1, <4>1, SwitchKeepsTypes, Zenon
    <3>2. CASE cur' = [cur EXCEPT ![c] = Idle] /\ core_if' = [core_if EXCEPT ![c] = TRUE]
      <4>1. \A d \in Cores : cur'[d] = IF d = c THEN Idle ELSE cur[d]
        BY <1>t, <3>2
      <4>2. core_if' \in [Cores -> BOOLEAN]
        BY <1>t, <3>2, Zenon
      <4>3. cur' \in [Cores -> {Idle} \cup Programs]
        BY <1>t, <3>2, SMTT(60)
      <4>4. \A d, e \in Cores : d # e /\ cur'[d] # Idle => cur'[d] # cur'[e]
        BY <1>t, <4>1
      <4> QED BY <4>2, <4>3, <4>4, SMTT(60)
    <3> QED BY <2>1, <3>1, <3>2, Zenon
  <2> QED BY <1>k, <1>t, <2>1, <2>4, <2>9, <2>10, Zenon
<1>9. ASSUME NEW p \in Programs, NEW c \in Cores, Wait(c, p) PROVE ConsoleInv'
  <2>1. at[p] = "wait" /\ UNCHANGED keyVars
    BY <1>9, Zenon DEF Wait, On
  <2>2. CASE Alive(p + 1)
    <3>1. schedule(c) /\ UNCHANGED at
      BY <1>9, <2>2, Zenon DEF Wait
    <3> QED BY <1>0, <1>k, <1>t, <2>1, <3>1, SameStack, ScheduleKeepsTypes, Zenon
  <2>3. CASE ~Alive(p + 1)
    <3>1. /\ at' = [at EXCEPT ![p] = "user"] /\ core_if' = [core_if EXCEPT ![c] = TRUE]
          /\ UNCHANGED <<ctx, cur>> /\ at[p + 1] = "unused"
      BY <1>9, <2>3, Zenon DEF Wait, Alive
    <3>2. StackInv' /\ at' \in [Programs -> {"unused", "user", "poll", "yield", "got", "wait"}]
      BY <1>0, <2>1, <3>1, TopMoves, Zenon
    <3>3. core_if' \in [Cores -> BOOLEAN]
      BY <1>t, <3>1, Zenon
    <3> QED BY <1>k, <1>t, <2>1, <3>1, <3>2, <3>3, Zenon
  <2> QED BY <2>2, <2>3
<1>10. CASE UNCHANGED console_vars
    BY <1>10, <1>0, <1>k, <1>t, SameStack, Zenon DEF console_vars, keyVars
<1> QED BY <1>1, <1>2, <1>3, <1>4, <1>5, <1>6, <1>7, <1>8, <1>9, <1>10, Zenon
    DEF ConsoleNext, ProgramStep

(* However programs run one another (SYS_EXEC) and are scheduled, on any     *)
(* number of cores, at most one is in keyboard_read_char(): the condition    *)
(* Readers = {r} of RingIsQueue and TypedKeysQueue holds of this kernel.     *)
THEOREM OneReader == ConsoleSpec => []SoleReader
<1>1. ConsoleInv => SoleReader
  <2> SUFFICES ASSUME ConsoleInv,
                      NEW p \in Programs, NEW q \in Programs,
                      at[p] \in {"poll", "yield"}, at[q] \in {"poll", "yield"}
               PROVE  p = q
    BY DEF SoleReader, ConsoleInv
  <2>1. PICK top \in Programs :
        /\ \A r \in Programs : r < top => at[r] = "wait"
        /\ \A r \in Programs : r > top => at[r] = "unused"
    BY DEF ConsoleInv, StackInv
  <2>2. ~(p < top) /\ ~(p > top) /\ ~(q < top) /\ ~(q > top)
    BY <2>1
  <2> QED BY <2>2 DEF Programs
<1>2. ConsoleInit => ConsoleInv
    BY ConsoleInitInv
<1>3. ConsoleInv /\ [ConsoleNext]_console_vars => ConsoleInv'
    BY ConsoleStep
<1> QED BY <1>1, <1>2, <1>3, PTL DEF ConsoleSpec
=============================================================================
