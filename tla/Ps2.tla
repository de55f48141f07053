-------------------------------- MODULE Ps2 --------------------------------
(* The two drivers that share the 8042 controller: kernel/src/mouse.c and    *)
(* the entry of kernel/src/keyboard.c (its ring is in Keyboard), with the    *)
(* interrupt controller of timer.c between them.  Both handlers run on the   *)
(* boot core with interrupts off, take whatever byte is in the controller's  *)
(* one output buffer, and never ask which device it came from.               *)
EXTENDS Keyboard

CONSTANTS
    Width, Height,   \* of the framebuffer
    Moves,           \* what the mouse may report: [dx, dy, buttons]
    MaxMoves,        \* bound on the packets sent
    Config,          \* the configuration byte the firmware left
    Characters,      \* the scancodes that have a character
    LatchedEdges     \* a request stays pending after its byte was polled away

ASSUME Ps2Assumption ==
    /\ Width \in Nat /\ Height \in Nat /\ MaxMoves \in Nat
    /\ Moves \subseteq [dx : -256 .. 255, dy : -256 .. 255, buttons : 0 .. 7]
    /\ Config \in 0 .. 255 /\ Characters \subseteq 0 .. 127
    /\ LatchedEdges \in BOOLEAN

ACK == 250
PACKET_ALWAYS_ONE == 8
PACKET_X_SIGN == 16
PACKET_Y_SIGN == 32
Timer == 0
KeyboardIrq == 1
Cascade == 2
MOUSE_IRQ == 12

VARIABLES
    boot,            \* the step kmain() is at
    iflag,           \* interrupts enabled on the boot core
    unmasked, irr,   \* the interrupt controller: lines let through, and pending
    irq_handlers,
    out, last,       \* the output buffer (at most one byte, and its line), the last byte read
    config,          \* the controller's configuration byte
    reply, kbd, aux, \* bytes the controller, the keyboard and the mouse have to send
    streaming,       \* the mouse was told to report
    config_read,     \* mouse_init()'s local copy
    packet, mouse_x, mouse_y, mouse_buttons,
    isr,             \* mouse_irq_handler(): where it is, and the packet's movement
    getter,          \* mouse_get_state(): where it is, on which core, and its copy
    pointer, settled,\* history: where the mouse really is; the states between packets
    moves, strikes,  \* history: packets sent, keys struck
    disturbed        \* history: the handshake read a byte that was no answer to it

pic == <<unmasked, irr, irq_handlers>>
port == <<out, last>>
devices == <<config, reply, kbd, aux, streaming>>
mouse == <<packet, mouse_x, mouse_y, mouse_buttons>>
history == <<pointer, settled, moves, strikes, disturbed>>
ps2_vars == <<boot, iflag, pic, port, devices, config_read, mouse, isr, getter, history>>
all_vars == <<vars, ps2_vars>>

(* The configuration byte: which lines are raised, which devices are off *)
ConfigIrq(line) == IF line = MOUSE_IRQ THEN 2 ELSE 1
KbdOff == 16
AuxOff == 32

Bit(b, mask) == (b \div mask) % 2 = 1
WithBit(b, mask) == IF Bit(b, mask) THEN b ELSE b + mask
WithoutBit(b, mask) == IF Bit(b, mask) THEN b - mask ELSE b

Origin == [x |-> 0, y |-> 0, b |-> 0]
NotReading == [at |-> "idle", core |-> "other", s |-> Origin]

Ps2Init ==
    /\ Init
    /\ boot = "timer_init" /\ iflag = FALSE
    /\ unmasked = {} /\ irr = {} /\ irq_handlers = {}
    /\ out = <<>> /\ last = 0
    /\ config = Config /\ reply = <<>> /\ kbd = <<>> /\ aux = <<>> /\ streaming = FALSE
    /\ config_read = 0
    /\ packet = <<>> /\ mouse_x = 0 /\ mouse_y = 0 /\ mouse_buttons = 0
    /\ isr = [at |-> "iret", dx |-> 0, dy |-> 0, b |-> 0]
    /\ getter = NotReading
    /\ pointer = Origin /\ settled = {Origin}
    /\ moves = 0 /\ strikes = 0 /\ disturbed = FALSE

-----------------------------------------------------------------------------
(* The devices *)

(* A key is struck or released: scancodes of a key with a character, of a    *)
(* release and of a key without one.                                         *)
KeyStruck(code) ==
    /\ kbd = <<>> /\ strikes < MaxKeys /\ ~Bit(config, KbdOff)
    /\ strikes' = strikes + 1
    /\ kbd' = <<code>>
    /\ UNCHANGED <<vars, boot, iflag, pic, port, config, reply, aux, streaming, config_read,
                   mouse, isr, getter, pointer, settled, moves, disturbed>>

Clamp(v, size) == IF v < 0 THEN 0 ELSE IF size > 0 /\ v >= size THEN size - 1 ELSE v

(* What a movement makes of a position *)
Moved(p, m) ==
    [x |-> Clamp(p.x + m.dx, Width), y |-> Clamp(p.y - m.dy, Height), b |-> m.buttons]

(* Three bytes: buttons and signs, then nine-bit two's complement *)
Packet(m) ==
    << PACKET_ALWAYS_ONE + m.buttons + (IF m.dx < 0 THEN PACKET_X_SIGN ELSE 0)
         + (IF m.dy < 0 THEN PACKET_Y_SIGN ELSE 0),
       m.dx % 256, m.dy % 256 >>

(* The mouse moves, and sends a packet *)
MouseMoved(m) ==
    /\ streaming /\ aux = <<>> /\ moves < MaxMoves /\ ~Bit(config, AuxOff)
    /\ moves' = moves + 1
    /\ aux' = Packet(m)
    /\ pointer' = Moved(pointer, m)
    /\ settled' = settled \cup {pointer'}
    /\ UNCHANGED <<vars, boot, iflag, pic, port, config, reply, kbd, streaming, config_read,
                   mouse, isr, getter, strikes, disturbed>>

(* The controller fills its output buffer and raises the line of the byte,   *)
(* when the configuration byte lets it.                                      *)
Load ==
    /\ out = <<>>
    /\ \/ /\ reply # <<>>
          /\ out' = <<[byte |-> reply[1], line |-> KeyboardIrq]>>
          /\ reply' = <<>> /\ UNCHANGED <<kbd, aux>>
       \/ /\ reply = <<>> /\ kbd # <<>>
          /\ out' = <<[byte |-> kbd[1], line |-> KeyboardIrq]>>
          /\ kbd' = <<>> /\ UNCHANGED <<reply, aux>>
       \/ /\ reply = <<>> /\ aux # <<>>
          /\ out' = <<[byte |-> aux[1], line |-> MOUSE_IRQ]>>
          /\ aux' = Tail(aux) /\ UNCHANGED <<reply, kbd>>
    /\ irr' = irr \cup {l \in {out'[1].line} : Bit(config, ConfigIrq(l))}
    /\ UNCHANGED <<vars, boot, iflag, unmasked, irq_handlers, last, config, streaming,
                   config_read, mouse, isr, getter, history>>

(* inb(PS2_DATA): the byte in the output buffer, or the last one again *)
Byte == IF out = <<>> THEN last ELSE out[1].byte
Inb(answered) ==
    /\ out' = <<>> /\ last' = Byte
    /\ irr' = IF out = <<>> \/ (LatchedEdges /\ ~answered) THEN irr ELSE irr \ {out[1].line}

-----------------------------------------------------------------------------
(* kmain(): timer_init(), keyboard_init(), mouse_init() *)

InHandler == handler.at # "iret" \/ isr.at # "iret"
Boot(at, next) == boot = at /\ ~InHandler /\ boot' = next

(* pic_remap() masks every line *)
timer_init ==
    /\ Boot("timer_init", "keyboard_init")
    /\ irq_handlers' = {Timer} /\ unmasked' = {Timer} /\ irr' = {}
    /\ iflag' = TRUE
    /\ UNCHANGED <<vars, port, devices, config_read, mouse, isr, getter, history>>

keyboard_init ==
    /\ Boot("keyboard_init", "cli")
    /\ irq_handlers' = irq_handlers \cup {KeyboardIrq}
    /\ unmasked' = unmasked \cup {KeyboardIrq}
    /\ UNCHANGED <<vars, iflag, irr, port, devices, config_read, mouse, isr, getter, history>>

(* Mutant: the handshake runs with interrupts on *)
MutNoCli ==
    /\ Boot("cli", "read_config")
    /\ config' = WithoutBit(config, AuxOff)
    /\ reply' = <<WithoutBit(config, AuxOff)>>
    /\ UNCHANGED <<vars, iflag, pic, port, kbd, aux, streaming, config_read, mouse, isr, getter, history>>

(* cli, 0xA8 (the controller enables the mouse) and 0x20 (it answers with    *)
(* its configuration byte)                                                   *)
ReadConfigCommand ==
    /\ Boot("cli", "read_config")
    /\ iflag' = FALSE
    /\ config' = WithoutBit(config, AuxOff)
    /\ reply' = <<WithoutBit(config, AuxOff)>>
    /\ UNCHANGED <<vars, pic, port, kbd, aux, streaming, config_read, mouse, isr, getter, history>>

(* Mutant: ps2_read_data() waits for as long as it takes *)
MutReadWaits(at, next) == out # <<>> /\ Boot(at, next) /\ Inb(FALSE)

(* ps2_read_data(): a byte, or after PS2_WAIT_SPIN_LIMIT the last one again *)
ps2_read_data(at, next) == Boot(at, next) /\ Inb(FALSE)

ReadConfig ==
    /\ ps2_read_data("read_config", "write_config")
    /\ config_read' = WithoutBit(WithBit(Byte, ConfigIrq(MOUSE_IRQ)), AuxOff)
    /\ disturbed' = (disturbed \/ out = <<>> \/ Byte # config)
    /\ UNCHANGED <<vars, iflag, unmasked, irq_handlers, devices, mouse, isr, getter, pointer, settled, moves, strikes>>

(* 0x60 *)
WriteConfig ==
    /\ Boot("write_config", "set_defaults")
    /\ config' = config_read
    /\ UNCHANGED <<vars, iflag, pic, port, reply, kbd, aux, streaming, config_read, mouse, isr, getter, history>>

(* 0xD4 0xF6, then 0xD4 0xF4: the mouse acknowledges, and after 0xF4 reports *)
mouse_write(at, next) ==
    /\ Boot(at, next)
    /\ streaming' = (at = "enable")
    /\ aux' = IF Bit(config, AuxOff) THEN aux ELSE Append(aux, ACK)
    /\ UNCHANGED <<vars, iflag, pic, port, config, reply, kbd, config_read, mouse, isr, getter, history>>

ReadAck(at, next) ==
    /\ ps2_read_data(at, next)
    /\ disturbed' = (disturbed \/ out = <<>> \/ Byte # ACK)
    /\ UNCHANGED <<vars, iflag, unmasked, irq_handlers, devices, config_read, mouse, isr, getter,
                   pointer, settled, moves, strikes>>

(* The handler, the two lines and sti *)
Unmask ==
    /\ Boot("unmask", "done")
    /\ packet' = <<>> /\ mouse_x' = 0 /\ mouse_y' = 0 /\ mouse_buttons' = 0
    /\ irq_handlers' = irq_handlers \cup {MOUSE_IRQ}
    /\ unmasked' = unmasked \cup {MOUSE_IRQ, Cascade}
    /\ iflag' = TRUE
    /\ UNCHANGED <<vars, irr, port, devices, config_read, isr, getter, history>>

mouse_init ==
    \/ ReadConfigCommand \/ ReadConfig \/ WriteConfig
    \/ mouse_write("set_defaults", "ack_defaults") \/ ReadAck("ack_defaults", "enable")
    \/ mouse_write("enable", "ack_enable") \/ ReadAck("ack_enable", "unmask")
    \/ Unmask

BootStep == timer_init \/ keyboard_init \/ mouse_init

-----------------------------------------------------------------------------
(* The interrupt handlers, on the boot core *)

Deliver(irq) ==
    /\ iflag /\ ~InHandler
    /\ irq \in irr \cap unmasked /\ irq \in irq_handlers
    /\ irq = MOUSE_IRQ => Cascade \in unmasked
    /\ out' = <<>> /\ last' = Byte
    /\ irr' = irr \ {irq}

Kind(code) == IF code >= 128 THEN "break" ELSE IF code \in Characters THEN "make" ELSE "unmapped"

IrqKeyboard ==
    /\ Deliver(KeyboardIrq)
    /\ keyboard_irq_handler(Kind(Byte))
    /\ UNCHANGED <<boot, iflag, unmasked, irq_handlers, devices, config_read, mouse, isr, getter, history>>

Signed(byte, negative) == IF negative THEN byte - 256 ELSE byte

(* mouse_irq_handler() up to the decoded movement: the third byte completes  *)
(* a packet, and one whose first byte lacks PACKET_ALWAYS_ONE is dropped.    *)
IrqMouse ==
    /\ Deliver(MOUSE_IRQ)
    /\ LET p == Append(packet, Byte)
       IN  /\ packet' = IF Len(p) < 3 THEN p ELSE <<>>
           /\ isr' = IF Len(p) = 3 /\ Bit(p[1], PACKET_ALWAYS_ONE)
                     THEN [at |-> "x", dx |-> Signed(p[2], Bit(p[1], PACKET_X_SIGN)),
                           dy |-> Signed(p[3], Bit(p[1], PACKET_Y_SIGN)), b |-> p[1] % 8]
                     ELSE isr
    /\ UNCHANGED <<vars, boot, iflag, unmasked, irq_handlers, devices, config_read,
                   mouse_x, mouse_y, mouse_buttons, getter, history>>

MoveX ==
    /\ isr.at = "x"
    /\ mouse_buttons' = isr.b
    /\ mouse_x' = mouse_x + isr.dx
    /\ isr' = [isr EXCEPT !.at = "y"]
    /\ UNCHANGED <<vars, boot, iflag, pic, port, devices, config_read, packet, mouse_y, getter, history>>

(* Mutant: the vertical axis keeps the direction of the device *)
MutMoveY ==
    /\ isr.at = "y"
    /\ mouse_y' = mouse_y + isr.dy
    /\ isr' = [isr EXCEPT !.at = "clamp"]
    /\ UNCHANGED <<vars, boot, iflag, pic, port, devices, config_read, packet, mouse_x, mouse_buttons, getter, history>>

MoveY ==
    /\ isr.at = "y"
    /\ mouse_y' = mouse_y - isr.dy
    /\ isr' = [isr EXCEPT !.at = "clamp"]
    /\ UNCHANGED <<vars, boot, iflag, pic, port, devices, config_read, packet, mouse_x, mouse_buttons, getter, history>>

ClampToScreen ==
    /\ isr.at = "clamp"
    /\ mouse_x' = Clamp(mouse_x, Width) /\ mouse_y' = Clamp(mouse_y, Height)
    /\ isr' = [at |-> "iret", dx |-> 0, dy |-> 0, b |-> 0]
    /\ UNCHANGED <<vars, boot, iflag, pic, port, devices, config_read, packet, mouse_buttons, getter, history>>

HandlerStep ==
    \/ (PushTest \/ PushStore \/ PushPublish) /\ UNCHANGED ps2_vars
    \/ MoveX \/ MoveY \/ ClampToScreen

-----------------------------------------------------------------------------
(* mouse_get_state(), for SYS_MOUSE_READ: its caller runs on the boot core   *)
(* or on another, and cli and sti act on that core only.                     *)

Getter(at) ==
    /\ boot = "done" /\ getter.at = at
    /\ getter.core = "boot" => ~InHandler

(* Mutant: the copy is taken with interrupts on *)
MutGetNoCli(core) ==
    /\ Getter("idle")
    /\ core = "boot" => ~InHandler
    /\ getter' = [at |-> "x", core |-> core, s |-> Origin]
    /\ UNCHANGED <<vars, boot, iflag, pic, port, devices, config_read, mouse, isr, history>>

GetCli(core) ==
    /\ Getter("idle")
    /\ core = "boot" => ~InHandler
    /\ getter' = [at |-> "x", core |-> core, s |-> Origin]
    /\ iflag' = IF core = "boot" THEN FALSE ELSE iflag
    /\ UNCHANGED <<vars, boot, pic, port, devices, config_read, mouse, isr, history>>

GetX ==
    /\ Getter("x")
    /\ getter' = [getter EXCEPT !.at = "y", !.s.x = mouse_x]
    /\ UNCHANGED <<vars, boot, iflag, pic, port, devices, config_read, mouse, isr, history>>

GetY ==
    /\ Getter("y")
    /\ getter' = [getter EXCEPT !.at = "buttons", !.s.y = mouse_y]
    /\ UNCHANGED <<vars, boot, iflag, pic, port, devices, config_read, mouse, isr, history>>

GetButtons ==
    /\ Getter("buttons")
    /\ getter' = [getter EXCEPT !.at = "return", !.s.b = mouse_buttons]
    /\ UNCHANGED <<vars, boot, iflag, pic, port, devices, config_read, mouse, isr, history>>

GetSti ==
    /\ Getter("return")
    /\ getter' = NotReading
    /\ iflag' = IF getter.core = "boot" THEN TRUE ELSE iflag
    /\ UNCHANGED <<vars, boot, pic, port, devices, config_read, mouse, isr, history>>

mouse_get_state ==
    \/ \E core \in {"boot", "other"} : GetCli(core)
    \/ GetX \/ GetY \/ GetButtons \/ GetSti

Devices ==
    \/ \E code \in Characters \cup {127, 158} : KeyStruck(code)
    \/ \E m \in Moves : MouseMoved(m)
    \/ Load

Ps2Next ==
    \/ BootStep \/ Devices \/ IrqKeyboard \/ IrqMouse \/ HandlerStep \/ mouse_get_state
    \/ \E r \in Readers : keyboard_read_char(r) /\ UNCHANGED ps2_vars

(* kmain() goes on and a handler runs to its end; nothing is assumed of the  *)
(* controller and the devices.                                               *)
Ps2Spec ==
    /\ Ps2Init /\ [][Ps2Next]_all_vars
    /\ WF_all_vars(BootStep) /\ WF_all_vars(HandlerStep)

-----------------------------------------------------------------------------
MouseBytesLeft == aux # <<>> \/ (out # <<>> /\ out[1].line = MOUSE_IRQ)

(* Between packets the position is the sum of the movements, kept on the     *)
(* screen after each, with the buttons of the last: no byte is taken twice,  *)
(* left out or given to the other driver, and packets stay aligned.  Unless  *)
(* the handshake read a byte that was no answer to it.                       *)
PointerFollowsPackets ==
    boot = "done" /\ ~disturbed /\ ~InHandler /\ ~MouseBytesLeft =>
        packet = <<>> /\ pointer = [x |-> mouse_x, y |-> mouse_y, b |-> mouse_buttons]

(* What the cli of mouse_get_state() is worth: a copy taken on the boot      *)
(* core, where the mouse's handler runs, is a position that the mouse had    *)
(* between two packets, on the screen and with its own buttons.              *)
BootCoreCopyIsSettled ==
    getter.at = "return" /\ getter.core = "boot" /\ ~disturbed => getter.s \in settled

(* "without this, a stray IRQ1 firing mid-handshake can steal the response": *)
(* while mouse_init() waits for the configuration byte or an acknowledgement *)
(* it is still to be read, never taken by an interrupt handler.              *)
AnswerNotStolen ==
    /\ boot = "read_config" =>
        reply # <<>> \/ (out # <<>> /\ out[1].byte = config)
    /\ boot \in {"ack_defaults", "ack_enable"} /\ ~disturbed =>
        (aux # <<>> /\ aux[1] = ACK) \/ (out # <<>> /\ out[1].byte = ACK)

(* mouse_init() returns even when the controller never answers ("give up     *)
(* rather than hang the whole boot"), and start-up then leaves the timer,    *)
(* the keyboard, the slave's cascade line and the mouse unmasked for good:   *)
(* no init call masks what an earlier one enabled.                           *)
MouseInitReturns ==
    <>[](boot = "done" /\ unmasked = {Timer, KeyboardIrq, Cascade, MOUSE_IRQ})

-----------------------------------------------------------------------------
(* What a comment leads one to expect, and the code does not do *)

(* "Copies out the current position/button state" of a position "clamped to  *)
(* the framebuffer's own bounds": on whatever core SYS_MOUSE_READ runs, the  *)
(* copy is a state the mouse had between two packets.                        *)
StateReadIsSettled == getter.at = "return" /\ ~disturbed => getter.s \in settled
=============================================================================
