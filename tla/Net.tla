-------------------------------- MODULE Net --------------------------------
(* kernel/src/e1000.c and kernel/src/net.c: the polled network card driver,  *)
(* with its two descriptor rings, under net_arp_resolve() and net_ping(),    *)
(* as network_test_thread() of kmain.c calls them.  The card works on the    *)
(* rings at the same time as the driver; the network loses, delays,          *)
(* reorders and duplicates answers.  The thread is the only user of the      *)
(* driver, so the two spinlocks of e1000.c are never contended.              *)
EXTENDS Naturals, Sequences

CONSTANTS
    RX_DESC_COUNT, TX_DESC_COUNT,
    RETRY_COUNT, SPINS_PER_RETRY,
    Calls,      \* what the thread asks for: op, "arp" or "ping", identifier and sequence
    Noise,      \* frames that reach the card and answer nothing
    MaxFrames   \* bound on the frames that reach the card

ASSUME NetAssumption ==
    /\ RX_DESC_COUNT \in Nat \ {0, 1} /\ TX_DESC_COUNT \in Nat \ {0, 1}
    /\ RETRY_COUNT \in Nat \ {0} /\ SPINS_PER_RETRY \in Nat \ {0}
    /\ Calls \in Seq([op : {"arp", "ping"}, id : Nat, seq : Nat]) /\ Calls # <<>>
    /\ MaxFrames \in Nat

VARIABLES
    rx_ring, rx_tail, RDH, RDT,   \* receive descriptors, and the card's registers
    tx_ring, tx_tail, TDH, TDT,   \* transmit descriptors, and the card's registers
    pc,                           \* where the thread is
    call, retry, spins,           \* the call it is in, and its two loop counters
    reply_buf,                    \* what the poll copied out of the ring
    sent,                         \* history: the frames handed to e1000_send()
    wire,                         \* the frames the card has put on the wire
    arrived,                      \* how many frames have reached the card
    read, dropped,                \* history: frames polled, in order, and frames lost
    got,                          \* history: the frames polled during this call
    results                       \* per finished call: its result, and what it polled

ring == <<rx_ring, rx_tail, RDH, RDT>>
tx == <<tx_ring, tx_tail, TDH, TDT>>
loop == <<call, retry, spins>>
history == <<arrived, read, dropped, got>>
vars == <<ring, tx, pc, loop, reply_buf, sent, wire, history, results>>

(* A frame: what the two calls compare of it.  A runt is a frame shorter     *)
(* than an ARP packet.                                                       *)
Frame(ethertype, protocol, type, from, id, seq, payload) ==
    [ethertype |-> ethertype, protocol |-> protocol, type |-> type, from |-> from,
     id |-> id, seq |-> seq, payload |-> payload]
ArpFrame(type, from) == Frame("ARP", "none", type, from, 0, 0, "none")
EchoFrame(type, from, id, seq) == Frame("IPV4", "ICMP", type, from, id, seq, "alphabet")

NoFrame == Frame("none", "none", "none", "none", 0, 0, "none")

(* The request net_arp_resolve() builds *)
ArpRequest == ArpFrame("request", "us")

(* The echo request net_ping() builds *)
EchoRequest(id, seq) == EchoFrame("request", "us", id, seq)

Request(c) == IF c.op = "arp" THEN ArpRequest ELSE EchoRequest(c.id, c.seq)

(* What the gateway answers to a request: an echo repeats all it was sent *)
Answer(f) == Frame(f.ethertype, f.protocol, "reply", "gateway", f.id, f.seq, f.payload)

Frames == {Request(Calls[i]) : i \in DOMAIN Calls}
          \cup {Answer(Request(Calls[i])) : i \in DOMAIN Calls} \cup Noise

RxNext(i) == (i + 1) % RX_DESC_COUNT
TxNext(i) == (i + 1) % TX_DESC_COUNT

(* RCTL_EN is set: e1000_init() has succeeded *)
Enabled == pc \notin {"init", "no_card"}

(* Nothing has run yet *)
Init ==
    /\ rx_ring = [i \in 0 .. RX_DESC_COUNT - 1 |-> [dd |-> FALSE, frame |-> NoFrame]]
    /\ rx_tail = 0 /\ RDH = 0 /\ RDT = 0
    /\ tx_ring = [i \in 0 .. TX_DESC_COUNT - 1 |-> [dd |-> FALSE, frame |-> NoFrame]]
    /\ tx_tail = 0 /\ TDH = 0 /\ TDT = 0
    /\ pc = "init" /\ call = 1 /\ retry = 0 /\ spins = 0
    /\ reply_buf = NoFrame
    /\ sent = <<>> /\ wire = <<>>
    /\ arrived = 0 /\ read = <<>> /\ dropped = {} /\ got = {}
    /\ results = <<>>

(* e1000_init(): no card, a card that stays in reset and a page allocator    *)
(* that is out of pages each panic.  Otherwise the rings are empty and the   *)
(* card owns every receive descriptor but the last.                          *)
e1000_init ==
    /\ pc = "init"
    /\ \/ /\ pc' = "no_card" /\ UNCHANGED <<rx_tail, RDT>>
       \/ /\ pc' = "send"
          /\ rx_tail' = RX_DESC_COUNT - 1
          /\ RDT' = RX_DESC_COUNT - 1
    /\ UNCHANGED <<rx_ring, RDH, tx, loop, reply_buf, sent, wire, history, results>>

-----------------------------------------------------------------------------
(* Mutant: the status byte of the descriptor is not cleared for the frame *)
MutSendKeepsStatus ==
    /\ pc = "send"
    /\ tx_ring' = [tx_ring EXCEPT ![tx_tail].frame = Request(Calls[call])]
    /\ tx_tail' = TxNext(tx_tail)
    /\ TDT' = TxNext(tx_tail)
    /\ sent' = Append(sent, Request(Calls[call]))
    /\ pc' = "sending"
    /\ UNCHANGED <<ring, TDH, loop, reply_buf, wire, history, results>>

(* e1000_send(): the frame goes into the next descriptor, then to the card *)
SendFrame ==
    /\ pc = "send"
    /\ tx_ring' = [tx_ring EXCEPT ![tx_tail] = [dd |-> FALSE, frame |-> Request(Calls[call])]]
    /\ tx_tail' = TxNext(tx_tail)
    /\ TDT' = TxNext(tx_tail)
    /\ sent' = Append(sent, Request(Calls[call]))
    /\ pc' = "sending"
    /\ UNCHANGED <<ring, TDH, loop, reply_buf, wire, history, results>>

(* The descriptor e1000_send() is waiting for: the one before tx_tail *)
SendDesc == (tx_tail + TX_DESC_COUNT - 1) % TX_DESC_COUNT

(* e1000_send() spins until the card reports the frame, or panics *)
SendWait ==
    /\ pc = "sending"
    /\ pc' = IF tx_ring[SendDesc].dd THEN "poll" ELSE "panic"
    /\ UNCHANGED <<ring, tx, loop, reply_buf, sent, wire, history, results>>

(* The card: it sends the descriptor at TDH and marks it done *)
CardTransmit ==
    /\ TDH # TDT
    /\ wire' = Append(wire, tx_ring[TDH].frame)
    /\ tx_ring' = [tx_ring EXCEPT ![TDH].dd = TRUE]
    /\ TDH' = TxNext(TDH)
    /\ UNCHANGED <<ring, tx_tail, TDT, pc, loop, reply_buf, sent, history, results>>

(* The network: what may reach the card is noise, and any number of copies,  *)
(* as late as it likes, of the answer to a request that was on the wire.     *)
Arriving == Noise \cup {Answer(wire[i]) : i \in DOMAIN wire}

(* The card: a frame is dropped when the driver owns every descriptor,       *)
(* otherwise it fills the descriptor at RDH.                                 *)
CardReceive(f) ==
    /\ Enabled
    /\ arrived < MaxFrames
    /\ arrived' = arrived + 1
    /\ IF RDH = RDT
       THEN dropped' = dropped \cup {f} /\ UNCHANGED <<rx_ring, RDH>>
       ELSE /\ rx_ring' = [rx_ring EXCEPT ![RDH] = [dd |-> TRUE, frame |-> f]]
            /\ RDH' = RxNext(RDH)
            /\ UNCHANGED dropped
    /\ UNCHANGED <<rx_tail, RDT, tx, pc, loop, reply_buf, sent, wire, read, got, results>>

-----------------------------------------------------------------------------
(* Where a spin that found no answer leads: schedule(), then the next spin,  *)
(* the next retry, or the end of the call with result 0.                     *)
SpinEnds ==
    \/ /\ spins + 1 < SPINS_PER_RETRY
       /\ spins' = spins + 1 /\ pc' = "poll"
       /\ UNCHANGED <<call, retry, got, results>>
    \/ /\ spins + 1 = SPINS_PER_RETRY /\ retry + 1 < RETRY_COUNT
       /\ spins' = 0 /\ retry' = retry + 1 /\ pc' = "send"
       /\ UNCHANGED <<call, got, results>>
    \/ /\ spins + 1 = SPINS_PER_RETRY /\ retry + 1 = RETRY_COUNT
       /\ results' = Append(results, [ok |-> 0, got |-> got])
       /\ pc' = "panic"   \* network_test_thread() panics on a failed call
       /\ UNCHANGED <<call, retry, spins, got>>

(* e1000_poll_receive(): nothing new unless the descriptor after rx_tail is  *)
(* done.                                                                     *)
PollTest ==
    /\ pc = "poll"
    /\ IF rx_ring[RxNext(rx_tail)].dd
       THEN pc' = "copy" /\ UNCHANGED <<loop, got, results>>
       ELSE SpinEnds
    /\ UNCHANGED <<ring, tx, reply_buf, sent, wire, arrived, read, dropped>>

(* Mutant: the status byte of a drained descriptor is not cleared *)
MutPollKeepsStatus ==
    /\ pc = "copy"
    /\ reply_buf' = rx_ring[RxNext(rx_tail)].frame
    /\ rx_tail' = RxNext(rx_tail)
    /\ pc' = "hand_back"
    /\ UNCHANGED <<rx_ring, RDH, RDT, tx, loop, sent, wire, history, results>>

(* It copies the frame out, clears the status and advances rx_tail *)
PollCopy ==
    /\ pc = "copy"
    /\ reply_buf' = rx_ring[RxNext(rx_tail)].frame
    /\ rx_ring' = [rx_ring EXCEPT ![RxNext(rx_tail)].dd = FALSE]
    /\ rx_tail' = RxNext(rx_tail)
    /\ pc' = "hand_back"
    /\ UNCHANGED <<RDH, RDT, tx, loop, sent, wire, history, results>>

(* It hands the descriptor back to the card *)
PollHandBack ==
    /\ pc = "hand_back"
    /\ RDT' = rx_tail
    /\ read' = Append(read, reply_buf)
    /\ got' = got \cup {reply_buf}
    /\ pc' = "examine"
    /\ UNCHANGED <<rx_ring, rx_tail, RDH, tx, loop, reply_buf, sent, wire, arrived, dropped, results>>

(* net_arp_resolve(): an ARP reply from the address asked for *)
ArpMatches(f) == f.ethertype = "ARP" /\ f.type = "reply" /\ f.from = "gateway"

(* Mutant: the sequence number of an echo reply is not compared *)
MutAnySequence(f, id, seq) ==
    /\ f.ethertype = "IPV4" /\ f.protocol = "ICMP" /\ f.from = "gateway"
    /\ f.type = "reply" /\ f.id = id /\ f.payload = "alphabet"

(* net_ping(): an echo reply from that address, with this identifier and     *)
(* sequence number and the payload that was sent                             *)
EchoMatches(f, id, seq) ==
    /\ f.ethertype = "IPV4" /\ f.protocol = "ICMP" /\ f.from = "gateway"
    /\ f.type = "reply" /\ f.id = id /\ f.seq = seq /\ f.payload = "alphabet"

Matches(c, f) == IF c.op = "arp" THEN ArpMatches(f) ELSE EchoMatches(f, c.id, c.seq)

ASSUME NoiseAssumption == \A f \in Noise, i \in DOMAIN Calls : ~Matches(Calls[i], f)

(* The call looks at the frame it polled: result 1, or another spin *)
Examine ==
    /\ pc = "examine"
    /\ IF Matches(Calls[call], reply_buf)
       THEN /\ results' = Append(results, [ok |-> 1, got |-> got])
            /\ retry' = 0 /\ spins' = 0 /\ got' = {}
            /\ IF call = Len(Calls)
               THEN pc' = "done" /\ UNCHANGED call
               ELSE pc' = "send" /\ call' = call + 1
       ELSE SpinEnds
    /\ UNCHANGED <<ring, tx, reply_buf, sent, wire, arrived, read, dropped>>

(* The thread has exited, or the kernel has panicked *)
Finished == pc \in {"done", "panic", "no_card"} /\ UNCHANGED vars

Thread == e1000_init \/ SendFrame \/ SendWait \/ PollTest \/ PollCopy \/ PollHandBack \/ Examine

Next ==
    \/ Thread
    \/ CardTransmit
    \/ \E f \in Arriving : CardReceive(f)
    \/ Finished

Spec == Init /\ [][Next]_vars

-----------------------------------------------------------------------------
(* Every variable has its type: indices and registers stay inside the rings. *)
TypeOK ==
    /\ rx_ring \in [0 .. RX_DESC_COUNT - 1 -> [dd : BOOLEAN, frame : Frames \cup {NoFrame}]]
    /\ {rx_tail, RDH, RDT} \subseteq 0 .. RX_DESC_COUNT - 1
    /\ tx_ring \in [0 .. TX_DESC_COUNT - 1 -> [dd : BOOLEAN, frame : Frames \cup {NoFrame}]]
    /\ {tx_tail, TDH, TDT} \subseteq 0 .. TX_DESC_COUNT - 1
    /\ pc \in {"init", "send", "sending", "poll", "copy", "hand_back", "examine", "done", "panic",
              "no_card"}
    /\ call \in DOMAIN Calls
    /\ retry \in 0 .. RETRY_COUNT - 1 /\ spins \in 0 .. SPINS_PER_RETRY - 1

(* When e1000_send() has returned, the card has taken the frame: every frame *)
(* it was given is on the wire, once each and in order, however often the    *)
(* ring has wrapped; while it waits only the last may be missing.  Every     *)
(* variable keeps its type.                                                  *)
WireCarriesSends ==
    /\ TypeOK
    /\ \/ wire = sent
       \/ pc \in {"sending", "panic"} /\ sent = Append(wire, sent[Len(sent)])

(* net_arp_resolve() and net_ping() return 1 exactly when an answer to their *)
(* own request was among the frames they polled: not for another call's      *)
(* late answer, nor for traffic that answers nothing, and they do not poll   *)
(* their answer and then time out.                                           *)
ResultMeansAnswered ==
    \A i \in DOMAIN results :
        results[i].ok = 1 <=> Answer(Request(Calls[i])) \in results[i].got

(* The frames the driver has not handed back, oldest first *)
Unread ==
    IF ~Enabled THEN <<>>
    ELSE [i \in 1 .. (RDH + RX_DESC_COUNT - RDT - 1) % RX_DESC_COUNT |->
              rx_ring[(RDT + i) % RX_DESC_COUNT].frame]

Queue == INSTANCE BoundedQueue WITH
    Item <- Frames, Capacity <- RX_DESC_COUNT - 1, queue <- Unread

(* Card and driver, working on the receive ring at the same time, make it a  *)
(* bounded queue: no frame is polled twice, skipped or overwritten unread,   *)
(* and the card drops one only when RX_DESC_COUNT - 1 are waiting.           *)
RingIsBoundedQueue == Queue!Spec
=============================================================================
