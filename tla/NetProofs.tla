----------------------------- MODULE NetProofs ------------------------------
(* The two descriptor rings of e1000.c and the calls of net.c over them, for *)
(* every size of the rings, every number of retries and any traffic.         *)
EXTENDS Net, TLAPS

N == RX_DESC_COUNT
RxSlots == 0 .. RX_DESC_COUNT - 1
TxSlots == 0 .. TX_DESC_COUNT - 1

Requests == {Request(Calls[i]) : i \in DOMAIN Calls}
Receivable == Noise \cup {Answer(r) : r \in Requests} \cup {NoFrame}

(* Transmit: at most one frame is between driver and card, in the descriptor *)
(* e1000_send() is waiting for, and its status byte is clear.                *)
TxInv ==
    /\ TDT = tx_tail
    /\ wire \in Seq(Requests) /\ sent \in Seq(Requests)
    /\ \/ TDH = TDT /\ wire = sent
       \/ /\ pc \in {"sending", "panic"} /\ TDH # TDT /\ TxNext(TDH) = TDT
          /\ ~tx_ring[TDH].dd /\ tx_ring[TDH].frame \in Requests
          /\ sent = Append(wire, tx_ring[TDH].frame)

(* Slot i lies after t and before h, going round *)
Between(t, i, h) == IF t < h THEN t < i /\ i < h ELSE t < i \/ i < h

(* Receive: a descriptor marked done lies between RDT and RDH, and the       *)
(* driver's own tail is RDT but while it hands a descriptor back.            *)
RxInv ==
    /\ ~Enabled => RDH = 0 /\ \A i \in RxSlots : ~rx_ring[i].dd
    /\ Enabled => \A i \in RxSlots : rx_ring[i].dd => Between(RDT, i, RDH)
    /\ Enabled /\ pc # "hand_back" => rx_tail = RDT
    /\ pc = "copy" => RxNext(RDT) # RDH
    /\ pc = "hand_back" =>
        /\ rx_tail = RxNext(RDT) /\ rx_tail # RDH
        /\ ~rx_ring[rx_tail].dd /\ reply_buf = rx_ring[rx_tail].frame
    /\ \A i \in RxSlots : rx_ring[i].frame \in Receivable
    /\ reply_buf \in Receivable

(* The answer to the call in progress *)
Awaited == Answer(Request(Calls[call]))

(* Calls: the awaited answer is among the frames polled only while the call  *)
(* is looking at it.                                                         *)
CallInv ==
    /\ Awaited \in got => pc = "examine" /\ reply_buf = Awaited
    /\ pc = "examine" => reply_buf \in got
    /\ results \in Seq([ok : {0, 1}, got : SUBSET Receivable])
    /\ got \in SUBSET Receivable
    /\ pc \notin {"done", "panic"} => Len(results) = call - 1
    /\ ResultMeansAnswered

NetInv == TypeOK /\ TxInv /\ RxInv /\ CallInv

-----------------------------------------------------------------------------
(* Stepping an index round a ring of n descriptors *)
LEMMA NextOf ==
    ASSUME NEW n \in Nat, n > 1, NEW i \in 0 .. n - 1
    PROVE  (i + 1) % n = (IF i + 1 = n THEN 0 ELSE i + 1)
<1>1. CASE i + 1 = n
  <2>1. n % n = 0
    OBVIOUS
  <2> QED BY <1>1, <2>1
<1>2. CASE i + 1 # n
    BY <1>2
<1> QED BY <1>1, <1>2

(* The successor of a receive descriptor, without the remainder. *)
LEMMA RxNextOf ==
    ASSUME NEW i \in RxSlots
    PROVE  RxNext(i) = (IF i + 1 = N THEN 0 ELSE i + 1) /\ RxNext(i) \in RxSlots
<1>1. N \in Nat /\ N > 1 /\ i \in 0 .. N - 1
    BY NetAssumption DEF RxSlots, N
<1>2. (i + 1) % N = (IF i + 1 = N THEN 0 ELSE i + 1)
    BY <1>1, NextOf
<1> QED BY <1>1, <1>2 DEF RxNext, RxSlots, N

(* Stepping TDH or tx_tail, and the descriptor before tx_tail *)
LEMMA TxNextOf ==
    ASSUME NEW i \in TxSlots
    PROVE  /\ TxNext(i) \in TxSlots /\ TxNext(i) # i
           /\ (TxNext(i) + TX_DESC_COUNT - 1) % TX_DESC_COUNT = i
<1> DEFINE M == TX_DESC_COUNT
<1>1. M \in Nat /\ M > 1 /\ i \in 0 .. M - 1
    BY NetAssumption DEF TxSlots
<1> HIDE DEF M
<1>2. (i + 1) % M = (IF i + 1 = M THEN 0 ELSE i + 1)
    BY <1>1, NextOf
<1>3. TxNext(i) = (IF i + 1 = M THEN 0 ELSE i + 1)
    BY <1>2 DEF TxNext, M
<1>4. (TxNext(i) + M - 1) % M = i
  <2>1. CASE i + 1 = M
    <3>1. TxNext(i) + M - 1 = i
        BY <1>1, <1>3, <2>1
    <3>2. i % M = i
        BY <1>1
    <3> QED BY <3>1, <3>2
  <2>2. CASE i + 1 # M
    <3>1. TxNext(i) + M - 1 = i + M
        BY <1>1, <1>3, <2>2
    <3>2. (i + M) % M = i
        BY <1>1
    <3> QED BY <3>1, <3>2
  <2> QED BY <2>1, <2>2
<1>5. TxNext(i) \in 0 .. M - 1 /\ TxNext(i) # i
    BY <1>1, <1>3
<1> QED BY <1>4, <1>5 DEF TxSlots, M

-----------------------------------------------------------------------------
(* The descriptors from RDT's successor to RDH's predecessor, without the    *)
(* remainders                                                                *)
Count(h, t) == IF t < h THEN h - t - 1 ELSE h - t - 1 + N
Slot(t, i) == IF t + i < N THEN t + i ELSE t + i - N
Window(r, h, t) == [i \in 1 .. Count(h, t) |-> r[Slot(t, i)].frame]

(* How many frames wait: none when RDH follows RDT, all but one when they meet. *)
LEMMA CountIs ==
    ASSUME NEW h \in RxSlots, NEW t \in RxSlots
    PROVE  /\ Count(h, t) \in Nat /\ Count(h, t) <= N - 1
           /\ Count(h, t) = N - 1 <=> h = t
           /\ Count(h, t) = 0 <=> RxNext(t) = h
<1>1. N \in Nat /\ N > 1 /\ h \in Nat /\ h < N /\ t \in Nat /\ t < N
    BY NetAssumption DEF RxSlots, N
<1>2. RxNext(t) = (IF t + 1 = N THEN 0 ELSE t + 1)
    BY RxNextOf
<1> QED BY <1>1, <1>2 DEF Count

(* The refinement mapping in terms of Window *)
LEMMA UnreadIsWindow ==
    ASSUME NEW r, NEW h \in RxSlots, NEW t \in RxSlots
    PROVE  [i \in 1 .. (h + RX_DESC_COUNT - t - 1) % RX_DESC_COUNT |->
                r[(t + i) % RX_DESC_COUNT].frame] = Window(r, h, t)
<1>1. N \in Nat /\ N > 1 /\ h \in Nat /\ h < N /\ t \in Nat /\ t < N
    BY NetAssumption DEF RxSlots, N
<1>2. (h + N - t - 1) % N = Count(h, t)
  <2>1. \A k \in 0 .. N - 1 : k % N = k /\ (k + N) % N = k
    BY <1>1
  <2>2. CASE t < h
    <3>1. h - t - 1 \in 0 .. N - 1 /\ h + N - t - 1 = (h - t - 1) + N
        BY <1>1, <2>2
    <3> QED BY <2>1, <2>2, <3>1 DEF Count
  <2>3. CASE ~(t < h)
    <3>1. h - t - 1 + N \in 0 .. N - 1 /\ h + N - t - 1 = h - t - 1 + N
        BY <1>1, <2>3
    <3> QED BY <2>1, <2>3, <3>1 DEF Count
  <2> QED BY <2>2, <2>3
<1>3. ASSUME NEW i \in 1 .. Count(h, t)
      PROVE  (t + i) % N = Slot(t, i)
  <2>1. i \in Nat /\ i < N
      BY <1>1, CountIs
  <2>2. \A k \in 0 .. N - 1 : k % N = k /\ (k + N) % N = k
    BY <1>1
  <2>3. CASE t + i < N
    <3>1. t + i \in 0 .. N - 1
        BY <1>1, <2>1, <2>3
    <3> QED BY <2>2, <2>3, <3>1 DEF Slot
  <2>4. CASE ~(t + i < N)
    <3>1. t + i - N \in 0 .. N - 1 /\ (t + i - N) + N = t + i
        BY <1>1, <2>1, <2>4
    <3> QED BY <2>2, <2>4, <3>1 DEF Slot
  <2> QED BY <2>3, <2>4
<1> QED BY <1>2, <1>3 DEF Window, N

(* A slot of the window lies between RDT and RDH, and a slot between them is *)
(* none of the two.                                                          *)
LEMMA SlotBetween ==
    ASSUME NEW h \in RxSlots, NEW t \in RxSlots, NEW i \in 1 .. Count(h, t)
    PROVE  Slot(t, i) \in RxSlots /\ Slot(t, i) # h
<1>1. N \in Nat /\ N > 1 /\ h \in Nat /\ h < N /\ t \in Nat /\ t < N
    BY NetAssumption DEF RxSlots, N
<1> QED BY <1>1 DEF Count, Slot, RxSlots, N

(* The card fills the descriptor at RDH and steps past it: one more frame. *)
LEMMA FillAppends ==
    ASSUME NEW r \in [RxSlots -> [dd : BOOLEAN, frame : Frames \cup {NoFrame}]],
           NEW h \in RxSlots, NEW t \in RxSlots, h # t, NEW f
    PROVE  Window([r EXCEPT ![h] = [dd |-> TRUE, frame |-> f]], RxNext(h), t)
             = Append(Window(r, h, t), f)
<1> DEFINE q == [r EXCEPT ![h] = [dd |-> TRUE, frame |-> f]]
<1>1. N \in Nat /\ N > 1 /\ h \in Nat /\ h < N /\ t \in Nat /\ t < N
    BY NetAssumption DEF RxSlots, N
<1>2. /\ Count(h, t) \in Nat
      /\ Count(RxNext(h), t) = Count(h, t) + 1
      /\ Slot(t, Count(h, t) + 1) = h
    BY <1>1, RxNextOf DEF Count, Slot
<1>3. ASSUME NEW i \in 1 .. Count(h, t)
      PROVE  q[Slot(t, i)].frame = r[Slot(t, i)].frame
    BY SlotBetween
<1>4. q[h].frame = f
    OBVIOUS
<1> HIDE DEF q
<1>5. Window(q, RxNext(h), t) = [i \in 1 .. Count(h, t) + 1 |-> q[Slot(t, i)].frame]
    BY <1>2 DEF Window
<1>6. Append(Window(r, h, t), f)
        = [i \in 1 .. Count(h, t) + 1 |->
              IF i = Count(h, t) + 1 THEN f ELSE r[Slot(t, i)].frame]
    BY <1>2 DEF Window
<1>7. Window(q, RxNext(h), t) = Append(Window(r, h, t), f)
    BY <1>2, <1>3, <1>4, <1>5, <1>6
<1> QED BY <1>7, Zenon DEF q

(* Handing the oldest descriptor back removes its frame. *)
LEMMA HandBackPops ==
    ASSUME NEW r, NEW h \in RxSlots, NEW t \in RxSlots, RxNext(t) # h
    PROVE  /\ Window(r, h, t) # <<>>
           /\ Head(Window(r, h, t)) = r[RxNext(t)].frame
           /\ Window(r, h, RxNext(t)) = Tail(Window(r, h, t))
<1>1. N \in Nat /\ N > 1 /\ h \in Nat /\ h < N /\ t \in Nat /\ t < N
    BY NetAssumption DEF RxSlots, N
<1>2. /\ RxNext(t) \in RxSlots
      /\ Count(h, t) \in Nat /\ Count(h, t) >= 1
      /\ Count(h, RxNext(t)) = Count(h, t) - 1
      /\ Slot(t, 1) = RxNext(t)
    BY <1>1, RxNextOf DEF Count, Slot
<1>3. ASSUME NEW i \in 1 .. Count(h, t) - 1
      PROVE  Slot(RxNext(t), i) = Slot(t, i + 1)
    BY <1>1, <1>2, RxNextOf DEF Count, Slot
<1>4. Len(Window(r, h, t)) = Count(h, t)
    BY <1>2 DEF Window
<1>5. Tail(Window(r, h, t)) = [i \in 1 .. Count(h, t) - 1 |-> r[Slot(t, i + 1)].frame]
    BY <1>2 DEF Window
<1>6. Window(r, h, RxNext(t))
        = [i \in 1 .. Count(h, t) - 1 |-> r[Slot(RxNext(t), i)].frame]
    BY <1>2 DEF Window
<1>7. Head(Window(r, h, t)) = r[RxNext(t)].frame /\ Window(r, h, t) # <<>>
    BY <1>2, <1>4 DEF Window
<1> QED BY <1>3, <1>5, <1>6, <1>7

-----------------------------------------------------------------------------
(* The list of calls, by index. *)
LEMMA CallsAre ==
    /\ DOMAIN Calls = 1 .. Len(Calls) /\ Len(Calls) \in Nat \ {0}
    /\ \A i \in DOMAIN Calls : Calls[i] \in [op : {"arp", "ping"}, id : Nat, seq : Nat]
<1> DEFINE C == [op : {"arp", "ping"}, id : Nat, seq : Nat]
<1>1. Calls \in Seq(C) /\ Calls # <<>>
    BY NetAssumption
<1> HIDE DEF C
<1>2. DOMAIN Calls = 1 .. Len(Calls) /\ Len(Calls) \in Nat \ {0}
    BY <1>1
<1>3. \A i \in DOMAIN Calls : Calls[i] \in C
    BY <1>1
<1> QED BY <1>2, <1>3 DEF C

(* The gateway's answer is a reply with the request's identifier and         *)
(* sequence number.                                                          *)
LEMMA AnswerIs ==
    ASSUME NEW c \in [op : {"arp", "ping"}, id : Nat, seq : Nat]
    PROVE  Answer(Request(c)) = (IF c.op = "arp"
                                 THEN ArpFrame("reply", "gateway")
                                 ELSE EchoFrame("reply", "gateway", c.id, c.seq))
<1>1. CASE c.op = "arp"
    BY <1>1 DEF Answer, Request, ArpRequest, ArpFrame, Frame
<1>2. CASE c.op # "arp"
    BY <1>2 DEF Answer, Request, EchoRequest, EchoFrame, Frame
<1> QED BY <1>1, <1>2

(* net_arp_resolve() and net_ping() accept the answer to their own request   *)
(* and no other frame that can reach the card.                               *)
LEMMA MatchIsAnswer ==
    ASSUME NEW i \in DOMAIN Calls, NEW f \in Receivable
    PROVE  Matches(Calls[i], f) <=> f = Answer(Request(Calls[i]))
<1>1. Calls[i] \in [op : {"arp", "ping"}, id : Nat, seq : Nat]
    BY CallsAre
<1>2. CASE f \in Noise
  <2>1. ~Matches(Calls[i], f)
    BY <1>2, NoiseAssumption
  <2>2. Matches(Calls[i], Answer(Request(Calls[i])))
    BY <1>1, AnswerIs DEF Matches, ArpMatches, EchoMatches, ArpFrame, EchoFrame, Frame
  <2> QED BY <2>1, <2>2
<1>3. CASE f = NoFrame
    BY <1>1, <1>3, AnswerIs DEF Matches, ArpMatches, EchoMatches, ArpFrame, EchoFrame, Frame, NoFrame
<1>4. ASSUME NEW k \in DOMAIN Calls, f = Answer(Request(Calls[k]))
      PROVE  Matches(Calls[i], f) <=> f = Answer(Request(Calls[i]))
  <2>1. Calls[k] \in [op : {"arp", "ping"}, id : Nat, seq : Nat]
    BY CallsAre
  <2> QED BY <1>1, <1>4, <2>1, AnswerIs DEF Matches, ArpMatches, EchoMatches, ArpFrame, EchoFrame, Frame
<1> QED BY <1>2, <1>3, <1>4 DEF Receivable, Requests

(* What is sent and received are frames. *)
LEMMA FramesAre ==
    /\ Requests \subseteq Frames
    /\ Receivable \subseteq Frames \cup {NoFrame}
    /\ \A r \in Requests : Answer(r) \in Receivable /\ Answer(r) \in Frames
BY DEF Requests, Receivable, Frames

-----------------------------------------------------------------------------
(* What a step must do to the abstract queue *)
QueueStep == [Queue!Next]_<<Unread, read, dropped>>

(* The refinement mapping reads the window between RDT and RDH, in a state ... *)
LEMMA UnreadWindow ==
    ASSUME TypeOK, Enabled
    PROVE  Unread = Window(rx_ring, RDH, RDT)
<1>1. RDH \in RxSlots /\ RDT \in RxSlots
    BY DEF TypeOK, RxSlots
<1> QED BY <1>1, UnreadIsWindow, Zenon DEF Unread

(* ... and in the next one. *)
LEMMA UnreadWindowNext ==
    ASSUME TypeOK', Enabled'
    PROVE  Unread' = Window(rx_ring', RDH', RDT')
<1>1. RDH' \in RxSlots /\ RDT' \in RxSlots
    BY DEF TypeOK, RxSlots
<1> QED BY <1>1, UnreadIsWindow, Zenon DEF Unread

(* A step that leaves the receive ring alone and the card enabled *)
LEMMA RingUntouched ==
    ASSUME UNCHANGED <<rx_ring, RDH, RDT, read, dropped>>, Enabled' = Enabled
    PROVE  QueueStep
BY DEF QueueStep, Unread

(* The invariant holds before e1000_init(). *)
LEMMA NetInit == Init => NetInv
<1> SUFFICES ASSUME Init PROVE NetInv
    OBVIOUS
<1>1. 0 \in RxSlots /\ 0 \in TxSlots /\ 1 \in DOMAIN Calls
    BY NetAssumption, CallsAre DEF RxSlots, TxSlots
<1>2. TypeOK
    BY <1>1, NetAssumption DEF Init, TypeOK, RxSlots, TxSlots
<1>3. TxInv
    BY DEF Init, TxInv
<1>4. RxInv
  <2>1. \A i \in RxSlots : rx_ring[i] = [dd |-> FALSE, frame |-> NoFrame]
    BY DEF Init, RxSlots
  <2>2. ~Enabled /\ RDH = 0 /\ reply_buf = NoFrame /\ pc \notin {"copy", "hand_back"}
    BY DEF Init, Enabled
  <2>3. NoFrame \in Receivable
    BY DEF Receivable
  <2> QED BY <2>1, <2>2, <2>3 DEF RxInv
<1>5. CallInv
    BY DEF Init, CallInv, ResultMeansAnswered, Receivable
<1> QED BY <1>2, <1>3, <1>4, <1>5 DEF NetInv

(* e1000_init() *)
LEMMA InitStep ==
    ASSUME NetInv, e1000_init
    PROVE  NetInv' /\ QueueStep
<1>0. TypeOK /\ TxInv /\ RxInv /\ CallInv
    BY DEF NetInv
<1>1. RX_DESC_COUNT - 1 \in 0 .. RX_DESC_COUNT - 1
    BY NetAssumption
<1>2. TypeOK'
    BY <1>0, <1>1 DEF e1000_init, tx, loop, TypeOK
<1>3. TxInv'
    BY <1>0 DEF e1000_init, tx, TxInv
<1>4. RxInv'
    BY <1>0 DEF e1000_init, RxInv, Enabled, RxSlots
<1>5. CallInv'
    BY <1>0 DEF e1000_init, CallInv, Awaited, ResultMeansAnswered, loop, history
<1>6. ASSUME pc' = "no_card" PROVE QueueStep
  <2>1. ~Enabled /\ ~Enabled'
    BY <1>6 DEF e1000_init, Enabled
  <2>2. UNCHANGED <<read, dropped>>
    BY DEF e1000_init, history
  <2> QED BY <2>1, <2>2 DEF QueueStep, Unread
<1>7. ASSUME pc' # "no_card" PROVE QueueStep
  <2>1. RDH' = 0 /\ RDT' = RX_DESC_COUNT - 1 /\ Enabled' /\ ~Enabled
    BY <1>0, <1>7 DEF e1000_init, RxInv, Enabled
  <2>2. Unread' = Window(rx_ring', 0, RX_DESC_COUNT - 1)
    BY <1>2, <2>1, UnreadWindowNext
  <2>3. Count(0, RX_DESC_COUNT - 1) = 0
    BY NetAssumption DEF Count, N
  <2>4. Unread' = <<>>
    BY <2>2, <2>3 DEF Window
  <2>5. UNCHANGED <<read, dropped>>
    BY DEF e1000_init, history
  <2>6. Unread = <<>>
    BY <2>1 DEF Unread
  <2> QED BY <2>4, <2>5, <2>6 DEF QueueStep
<1> QED BY <1>2, <1>3, <1>4, <1>5, <1>6, <1>7 DEF NetInv

(* e1000_send() fills the next descriptor and moves TDT. *)
LEMMA SendFrameStep ==
    ASSUME NetInv, SendFrame
    PROVE  NetInv' /\ QueueStep
<1>0. TypeOK /\ TxInv /\ RxInv /\ CallInv /\ pc = "send" /\ pc' = "sending"
    BY DEF NetInv, SendFrame
<1>1. /\ tx_tail \in TxSlots /\ TxNext(tx_tail) \in TxSlots /\ TxNext(tx_tail) # tx_tail
      /\ Request(Calls[call]) \in Requests /\ Request(Calls[call]) \in Frames
    BY <1>0, TxNextOf DEF TypeOK, TxSlots, Requests, Frames
<1>2. TypeOK'
    BY <1>0, <1>1 DEF SendFrame, TypeOK, TxSlots, ring, loop
<1>3. TxInv'
  <2>1. TDH = tx_tail /\ wire = sent /\ wire \in Seq(Requests)
    BY <1>0 DEF TxInv
  <2>2. tx_ring'[tx_tail] = [dd |-> FALSE, frame |-> Request(Calls[call])]
    BY <1>0, <1>1 DEF SendFrame, TypeOK, TxSlots
  <2> QED BY <1>0, <1>1, <2>1, <2>2 DEF SendFrame, TxInv, TxNext
<1>4. RxInv'
    BY <1>0 DEF SendFrame, RxInv, Enabled, ring, RxNext
<1>5. CallInv'
    BY <1>0 DEF SendFrame, CallInv, Awaited, ResultMeansAnswered, loop, history
<1>6. QueueStep
    BY <1>0, RingUntouched DEF SendFrame, ring, history, Enabled
<1> QED BY <1>2, <1>3, <1>4, <1>5, <1>6 DEF NetInv

(* e1000_send() finds its descriptor done, or panics. *)
LEMMA SendWaitStep ==
    ASSUME NetInv, SendWait
    PROVE  NetInv' /\ QueueStep
<1>0. /\ TypeOK /\ TxInv /\ RxInv /\ CallInv /\ pc = "sending" /\ pc' \in {"poll", "panic"}
      /\ UNCHANGED <<ring, tx, loop, reply_buf, sent, wire, history, results>>
    BY DEF NetInv, SendWait
<1>2. TypeOK'
    BY <1>0 DEF TypeOK, ring, tx, loop
<1>3. TxInv'
  <2>1. CASE TDH = TDT /\ wire = sent
    BY <1>0, <2>1 DEF TxInv, tx
  <2>2. CASE ~(TDH = TDT /\ wire = sent)
    <3>1. TDH \in TxSlots /\ TxNext(TDH) = tx_tail /\ ~tx_ring[TDH].dd
        BY <1>0, <2>2 DEF TxInv, TypeOK, TxSlots
    <3>2. SendDesc = TDH
        BY <3>1, TxNextOf DEF SendDesc
    <3>3. pc' = "panic"
        BY <3>1, <3>2 DEF SendWait
    <3> QED BY <1>0, <2>2, <3>3 DEF TxInv, tx, TxNext
  <2> QED BY <2>1, <2>2
<1>4. RxInv'
    BY <1>0 DEF RxInv, Enabled, ring, RxNext
<1>5. CallInv'
    BY <1>0 DEF CallInv, Awaited, ResultMeansAnswered, loop, history
<1>6. QueueStep
    BY <1>0, RingUntouched DEF ring, history, Enabled
<1> QED BY <1>2, <1>3, <1>4, <1>5, <1>6 DEF NetInv

(* The card puts the frame at TDH on the wire and marks it done. *)
LEMMA TransmitStep ==
    ASSUME NetInv, CardTransmit
    PROVE  NetInv' /\ QueueStep
<1>0. TypeOK /\ TxInv /\ RxInv /\ CallInv /\ pc' = pc
    BY DEF NetInv, CardTransmit
<1>1. /\ TDH \in TxSlots /\ TDH # TDT /\ TxNext(TDH) = TDT /\ TDT \in TxSlots
      /\ tx_ring[TDH].frame \in Requests /\ sent = Append(wire, tx_ring[TDH].frame)
    BY <1>0 DEF TxInv, CardTransmit, TypeOK, TxSlots
<1>2. TypeOK'
    BY <1>0, <1>1, Zenon DEF CardTransmit, TypeOK, TxSlots, ring, loop
<1>3. TxInv'
    BY <1>0, <1>1 DEF CardTransmit, TxInv
<1>4. RxInv'
    BY <1>0 DEF CardTransmit, RxInv, Enabled, ring, RxNext
<1>5. CallInv'
    BY <1>0 DEF CardTransmit, CallInv, Awaited, ResultMeansAnswered, loop, history
<1>6. QueueStep
    BY <1>0, RingUntouched DEF CardTransmit, ring, history, Enabled
<1> QED BY <1>2, <1>3, <1>4, <1>5, <1>6 DEF NetInv

(* A frame reaches the card: it fills the descriptor at RDH or is dropped. *)
LEMMA ReceiveStep ==
    ASSUME NetInv, NEW f \in Arriving, CardReceive(f)
    PROVE  NetInv' /\ QueueStep
<1>0. TypeOK /\ TxInv /\ RxInv /\ CallInv /\ Enabled /\ Enabled' /\ pc' = pc
    BY DEF NetInv, CardReceive, Enabled
<1>1. f \in Receivable /\ f \in Frames
  <2>1. \A i \in DOMAIN wire : wire[i] \in Requests
    BY <1>0 DEF TxInv
  <2> QED BY <2>1, FramesAre DEF Arriving, Receivable, Frames
<1>2. /\ RDH \in RxSlots /\ RDT \in RxSlots /\ RxNext(RDH) \in RxSlots
      /\ rx_ring \in [RxSlots -> [dd : BOOLEAN, frame : Frames \cup {NoFrame}]]
    BY <1>0, RxNextOf DEF TypeOK, RxSlots
<1>3. UNCHANGED <<rx_tail, RDT, tx, loop, reply_buf, sent, wire, read, got, results>>
    BY DEF CardReceive
<1>4. TxInv'
    BY <1>0, <1>3 DEF TxInv, tx, TxNext
<1>5. CallInv'
    BY <1>0, <1>3 DEF CallInv, Awaited, ResultMeansAnswered, loop
<1>6. CASE RDH = RDT
  <2>1. UNCHANGED <<rx_ring, RDH>> /\ dropped' = dropped \cup {f}
    BY <1>6 DEF CardReceive
  <2>2. TypeOK'
    BY <1>0, <1>3, <2>1 DEF TypeOK, tx, loop
  <2>3. RxInv'
    BY <1>0, <1>3, <2>1 DEF RxInv, RxNext
  <2>4. Unread' = Unread
    BY <1>0, <1>3, <2>1 DEF Unread
  <2>5. Len(Unread) = RX_DESC_COUNT - 1
    <3>1. Unread = Window(rx_ring, RDH, RDT)
        BY <1>0, UnreadWindow
    <3>2. Count(RDH, RDT) \in Nat /\ Count(RDH, RDT) = RX_DESC_COUNT - 1
        BY <1>2, <1>6, CountIs DEF N
    <3> QED BY <3>1, <3>2 DEF Window
  <2>6. Queue!Drop(f)
    BY <1>3, <2>1, <2>4, <2>5 DEF Queue!Drop
  <2>7. QueueStep
    BY <1>1, <2>6 DEF QueueStep, Queue!Next
  <2> QED BY <1>4, <1>5, <2>2, <2>3, <2>7 DEF NetInv
<1>7. CASE RDH # RDT
  <2>1. /\ rx_ring' = [rx_ring EXCEPT ![RDH] = [dd |-> TRUE, frame |-> f]]
        /\ RDH' = RxNext(RDH) /\ dropped' = dropped
    BY <1>7 DEF CardReceive
  <2>2. TypeOK'
    BY <1>0, <1>1, <1>2, <1>3, <2>1, SMTT(60) DEF TypeOK, tx, loop, RxSlots
  <2>3. RxInv'
    <3>0. \A i \in RxSlots : rx_ring'[i] =
              IF i = RDH THEN [dd |-> TRUE, frame |-> f] ELSE rx_ring[i]
        BY <1>2, <2>1
    <3>1. /\ \A i \in RxSlots : Between(RDT, i, RDH) => Between(RDT, i, RxNext(RDH))
          /\ Between(RDT, RDH, RxNext(RDH))
      <4>1. N \in Nat /\ N > 1 /\ RDH \in Nat /\ RDH < N /\ RDT \in Nat /\ RDT < N
          BY <1>2, NetAssumption DEF RxSlots, N
      <4>2. RxNext(RDH) = (IF RDH + 1 = N THEN 0 ELSE RDH + 1)
          BY <1>2, RxNextOf
      <4>3. \A i \in RxSlots : i \in Nat /\ i < N
          BY <4>1 DEF RxSlots, N
      <4> QED BY <1>7, <4>1, <4>2, <4>3 DEF Between
    <3>2. \A i \in RxSlots : rx_ring'[i].dd => Between(RDT', i, RDH')
        BY <1>0, <1>3, <2>1, <3>0, <3>1 DEF RxInv
    <3>3. \A i \in RxSlots : rx_ring'[i].frame \in Receivable
        BY <1>0, <1>1, <3>0 DEF RxInv
    <3>4. RxNext(RDT) # RDH => RxNext(RDT) # RxNext(RDH)
      <4>1. N \in Nat /\ N > 1 /\ RDH \in Nat /\ RDH < N /\ RDT \in Nat /\ RDT < N
          BY <1>2, NetAssumption DEF RxSlots, N
      <4> QED BY <1>2, <1>7, <4>1, RxNextOf
    <3>5. pc = "copy" => RxNext(RDT') # RDH'
        BY <1>0, <1>3, <2>1, <3>4 DEF RxInv
    <3>6. ASSUME pc = "hand_back"
          PROVE  /\ rx_tail' = RxNext(RDT') /\ rx_tail' # RDH'
                 /\ ~rx_ring'[rx_tail'].dd /\ reply_buf' = rx_ring'[rx_tail'].frame
      <4>1. /\ rx_tail = RxNext(RDT) /\ rx_tail # RDH /\ rx_tail \in RxSlots
            /\ ~rx_ring[rx_tail].dd /\ reply_buf = rx_ring[rx_tail].frame
          BY <1>0, <3>6 DEF RxInv, TypeOK, RxSlots
      <4>2. rx_ring'[rx_tail] = rx_ring[rx_tail]
          BY <3>0, <4>1
      <4> QED BY <1>3, <2>1, <3>4, <4>1, <4>2
    <3> QED BY <1>0, <1>3, <3>2, <3>3, <3>5, <3>6 DEF RxInv, RxNext
  <2>4. Unread' = Append(Unread, f)
    <3>1. Unread = Window(rx_ring, RDH, RDT)
        BY <1>0, UnreadWindow
    <3>2. Unread' = Window(rx_ring', RDH', RDT')
        BY <1>0, <2>2, UnreadWindowNext
    <3>3. Window([rx_ring EXCEPT ![RDH] = [dd |-> TRUE, frame |-> f]], RxNext(RDH), RDT)
            = Append(Window(rx_ring, RDH, RDT), f)
        BY <1>2, <1>7, FillAppends, ZenonT(60)
    <3> QED BY <1>3, <2>1, <3>1, <3>2, <3>3, Zenon
  <2>5. Len(Unread) < RX_DESC_COUNT - 1
    <3>1. Unread = Window(rx_ring, RDH, RDT)
        BY <1>0, UnreadWindow
    <3>2. Count(RDH, RDT) \in Nat /\ Count(RDH, RDT) < RX_DESC_COUNT - 1
        BY <1>2, <1>7, CountIs, NetAssumption DEF N
    <3> QED BY <3>1, <3>2 DEF Window
  <2>6. Queue!Push(f)
    BY <1>3, <2>1, <2>4, <2>5 DEF Queue!Push
  <2>7. QueueStep
    BY <1>1, <2>6 DEF QueueStep, Queue!Next
  <2> QED BY <1>4, <1>5, <2>2, <2>3, <2>7 DEF NetInv
<1> QED BY <1>6, <1>7

(* A spin that found no answer: the call goes on, or ends with result 0. *)
LEMMA SpinEndsStep ==
    ASSUME NetInv, Awaited \notin got, pc \in {"poll", "examine"}, SpinEnds,
           UNCHANGED <<ring, tx, reply_buf, sent, wire, arrived, read, dropped>>
    PROVE  NetInv' /\ QueueStep
<1>0. TypeOK /\ TxInv /\ RxInv /\ CallInv
    BY DEF NetInv
<1>1. /\ call' = call /\ got' = got /\ pc' \in {"poll", "send", "panic"}
      /\ retry' \in 0 .. RETRY_COUNT - 1 /\ spins' \in 0 .. SPINS_PER_RETRY - 1
      /\ \/ results' = results
         \/ pc' = "panic" /\ results' = Append(results, [ok |-> 0, got |-> got])
  <2>1. retry \in Nat /\ retry < RETRY_COUNT /\ spins \in Nat /\ spins < SPINS_PER_RETRY
    BY <1>0, NetAssumption DEF TypeOK
  <2> QED BY <2>1, NetAssumption DEF SpinEnds
<1>2. TypeOK'
    BY <1>0, <1>1 DEF TypeOK, ring, tx
<1>3. TxInv'
    BY <1>0, <1>1 DEF TxInv, tx
<1>4. RxInv'
    BY <1>0, <1>1 DEF RxInv, Enabled, ring
<1>5. CallInv'
  <2>1. CASE results' = results
    BY <1>0, <1>1, <2>1 DEF CallInv, Awaited, ResultMeansAnswered
  <2>2. CASE pc' = "panic" /\ results' = Append(results, [ok |-> 0, got |-> got])
    <3>1. /\ results \in Seq([ok : {0, 1}, got : SUBSET Receivable])
          /\ Len(results) = call - 1 /\ got \in SUBSET Receivable /\ call \in Nat
        BY <1>0, CallsAre, SMTT(60) DEF CallInv, TypeOK
    <3>2. /\ results' \in Seq([ok : {0, 1}, got : SUBSET Receivable])
          /\ DOMAIN results' = 1 .. call /\ results'[call] = [ok |-> 0, got |-> got]
          /\ \A i \in 1 .. call - 1 : i \in DOMAIN results /\ results'[i] = results[i]
        BY <2>2, <3>1
    <3>3. ASSUME NEW i \in DOMAIN results'
          PROVE  results'[i].ok = 1 <=> Answer(Request(Calls[i])) \in results'[i].got
      <4>1. CASE i = call
        BY <3>2, <4>1 DEF Awaited
      <4>2. CASE i # call
        <5>1. i \in 1 .. call - 1
            BY <3>1, <3>2, <4>2
        <5> QED BY <1>0, <3>2, <5>1 DEF CallInv, ResultMeansAnswered
      <4> QED BY <4>1, <4>2
    <3>4. ResultMeansAnswered'
        BY <3>3 DEF ResultMeansAnswered
    <3> QED BY <1>1, <2>2, <3>1, <3>2, <3>4 DEF CallInv, Awaited
  <2> QED BY <1>1, <2>1, <2>2
<1>6. QueueStep
    BY <1>1, RingUntouched DEF ring, Enabled
<1> QED BY <1>2, <1>3, <1>4, <1>5, <1>6 DEF NetInv

(* e1000_poll_receive() tests the descriptor after rx_tail. *)
LEMMA PollTestStep ==
    ASSUME NetInv, PollTest
    PROVE  NetInv' /\ QueueStep
<1>0. /\ TypeOK /\ TxInv /\ RxInv /\ CallInv /\ pc = "poll" /\ Awaited \notin got
      /\ UNCHANGED <<ring, tx, reply_buf, sent, wire, arrived, read, dropped>>
    BY DEF NetInv, PollTest, CallInv
<1>1. CASE rx_ring[RxNext(rx_tail)].dd
  <2>1. pc' = "copy" /\ UNCHANGED <<loop, got, results>>
    BY <1>1 DEF PollTest
  <2>2. TypeOK'
    BY <1>0, <2>1 DEF TypeOK, ring, tx, loop
  <2>3. TxInv'
    BY <1>0, <2>1 DEF TxInv, tx
  <2>4. RxNext(RDT) # RDH
    <3>1. RDT \in RxSlots /\ RDH \in RxSlots /\ rx_tail = RDT /\ Enabled
        BY <1>0 DEF TypeOK, RxInv, Enabled, RxSlots
    <3>2. RxNext(RDT) \in RxSlots
        BY <3>1, RxNextOf
    <3>3. Between(RDT, RxNext(RDT), RDH)
        BY <1>0, <1>1, <3>1, <3>2 DEF RxInv
    <3>4. N \in Nat /\ N > 1 /\ RDH \in Nat /\ RDH < N /\ RDT \in Nat /\ RDT < N
        BY <3>1, NetAssumption DEF RxSlots, N
    <3>5. RxNext(RDT) = (IF RDT + 1 = N THEN 0 ELSE RDT + 1)
        BY <3>1, RxNextOf
    <3> QED BY <3>3, <3>4, <3>5 DEF Between
  <2>5. RxInv'
    BY <1>0, <2>1, <2>4, SMTT(60) DEF RxInv, Enabled, ring, RxNext
  <2>6. CallInv'
    BY <1>0, <2>1 DEF CallInv, Awaited, ResultMeansAnswered, loop
  <2>7. QueueStep
    BY <1>0, <2>1, RingUntouched DEF ring, Enabled
  <2> QED BY <2>2, <2>3, <2>5, <2>6, <2>7 DEF NetInv
<1>2. CASE ~rx_ring[RxNext(rx_tail)].dd
  <2>1. SpinEnds
    BY <1>2 DEF PollTest
  <2> QED BY <1>0, <2>1, SpinEndsStep
<1> QED BY <1>1, <1>2

(* It copies the frame, clears the descriptor's status and moves rx_tail. *)
LEMMA PollCopyStep ==
    ASSUME NetInv, PollCopy
    PROVE  NetInv' /\ QueueStep
<1>0. /\ TypeOK /\ TxInv /\ RxInv /\ CallInv /\ pc = "copy" /\ pc' = "hand_back"
      /\ UNCHANGED <<RDH, RDT, tx, loop, sent, wire, history, results>>
    BY DEF NetInv, PollCopy
<1>1. /\ RDT \in RxSlots /\ RDH \in RxSlots /\ rx_tail = RDT /\ Enabled /\ Enabled'
      /\ RxNext(RDT) \in RxSlots /\ RxNext(RDT) # RDH
      /\ rx_ring \in [RxSlots -> [dd : BOOLEAN, frame : Frames \cup {NoFrame}]]
    BY <1>0, RxNextOf DEF TypeOK, RxInv, Enabled, RxSlots
<1>2. /\ rx_ring' = [rx_ring EXCEPT ![RxNext(RDT)].dd = FALSE]
      /\ rx_tail' = RxNext(RDT) /\ reply_buf' = rx_ring[RxNext(RDT)].frame
    BY <1>1 DEF PollCopy
<1>3. /\ rx_ring' \in [RxSlots -> [dd : BOOLEAN, frame : Frames \cup {NoFrame}]]
      /\ \A i \in RxSlots : /\ rx_ring'[i].frame = rx_ring[i].frame
                            /\ rx_ring'[i].dd => rx_ring[i].dd
      /\ ~rx_ring'[RxNext(RDT)].dd
    BY <1>1, <1>2, Zenon
<1>4. TypeOK'
    BY <1>0, <1>1, <1>2, <1>3 DEF TypeOK, tx, loop, RxSlots
<1>5. TxInv'
    BY <1>0 DEF TxInv, tx
<1>6. RxInv'
    BY <1>0, <1>1, <1>2, <1>3 DEF RxInv, RxNext
<1>7. CallInv'
    BY <1>0 DEF CallInv, Awaited, ResultMeansAnswered, loop, history
<1>8. QueueStep
  <2>1. Window(rx_ring', RDH, RDT) = Window(rx_ring, RDH, RDT)
    BY <1>1, <1>3, SlotBetween DEF Window
  <2>2. Unread' = Unread
    BY <1>0, <1>1, <1>4, <2>1, UnreadWindow, UnreadWindowNext
  <2> QED BY <1>0, <2>2 DEF QueueStep, history
<1> QED BY <1>4, <1>5, <1>6, <1>7, <1>8 DEF NetInv

(* It writes RDT: the descriptor is the card's again. *)
LEMMA PollHandBackStep ==
    ASSUME NetInv, PollHandBack
    PROVE  NetInv' /\ QueueStep
<1>0. /\ TypeOK /\ TxInv /\ RxInv /\ CallInv /\ pc = "hand_back" /\ pc' = "examine"
      /\ UNCHANGED <<rx_ring, rx_tail, RDH, tx, loop, reply_buf, sent, wire, dropped, results>>
      /\ got' = got \cup {reply_buf} /\ read' = Append(read, reply_buf)
    BY DEF NetInv, PollHandBack
<1>1. /\ RDT \in RxSlots /\ RDH \in RxSlots /\ Enabled /\ Enabled'
      /\ RxNext(RDT) \in RxSlots /\ RxNext(RDT) # RDH
      /\ rx_tail = RxNext(RDT) /\ RDT' = RxNext(RDT)
      /\ ~rx_ring[RxNext(RDT)].dd /\ reply_buf = rx_ring[RxNext(RDT)].frame
    BY <1>0, RxNextOf DEF TypeOK, RxInv, Enabled, RxSlots, PollHandBack
<1>2. TypeOK'
    BY <1>0, <1>1 DEF TypeOK, tx, loop, RxSlots
<1>3. TxInv'
    BY <1>0 DEF TxInv, tx
<1>4. RxInv'
  <2>1. \A i \in RxSlots : Between(RDT, i, RDH) /\ i # RxNext(RDT)
                            => Between(RxNext(RDT), i, RDH)
    <3>1. N \in Nat /\ N > 1 /\ RDH \in Nat /\ RDH < N /\ RDT \in Nat /\ RDT < N
        BY <1>1, NetAssumption DEF RxSlots, N
    <3>2. RxNext(RDT) = (IF RDT + 1 = N THEN 0 ELSE RDT + 1)
        BY <1>1, RxNextOf
    <3>3. \A i \in RxSlots : i \in Nat /\ i < N
        BY <3>1 DEF RxSlots, N
    <3> QED BY <1>1, <3>1, <3>2, <3>3 DEF Between
  <2>2. \A i \in RxSlots : rx_ring'[i].dd => Between(RDT', i, RDH')
    BY <1>0, <1>1, <2>1 DEF RxInv
  <2> QED BY <1>0, <1>1, <2>2 DEF RxInv, RxNext
<1>5. CallInv'
  <2>1. Awaited' = Awaited /\ Awaited \notin got /\ reply_buf \in Receivable
    BY <1>0 DEF CallInv, RxInv, Awaited, loop
  <2>2. Awaited' \in got' => reply_buf' = Awaited'
    BY <1>0, <2>1
  <2> QED BY <1>0, <2>1, <2>2 DEF CallInv, ResultMeansAnswered, loop
<1>6. QueueStep
  <2>1. Unread = Window(rx_ring, RDH, RDT) /\ Unread' = Window(rx_ring', RDH', RDT')
    BY <1>1, <1>0, <1>2, UnreadWindow, UnreadWindowNext
  <2>2. /\ Window(rx_ring, RDH, RDT) # <<>>
        /\ Head(Window(rx_ring, RDH, RDT)) = reply_buf
        /\ Window(rx_ring, RDH, RxNext(RDT)) = Tail(Window(rx_ring, RDH, RDT))
    BY <1>1, HandBackPops, Zenon
  <2>3. Queue!Pop
    BY <1>0, <1>1, <2>1, <2>2 DEF Queue!Pop
  <2> QED BY <2>3 DEF QueueStep, Queue!Next
<1> QED BY <1>2, <1>3, <1>4, <1>5, <1>6 DEF NetInv

(* The call looks at the frame: result 1, or another spin. *)
LEMMA ExamineStep ==
    ASSUME NetInv, Examine
    PROVE  NetInv' /\ QueueStep
<1>0. /\ TypeOK /\ TxInv /\ RxInv /\ CallInv /\ pc = "examine"
      /\ UNCHANGED <<ring, tx, reply_buf, sent, wire, arrived, read, dropped>>
    BY SMTT(60) DEF NetInv, Examine
<1>1. /\ call \in DOMAIN Calls /\ call \in Nat /\ reply_buf \in Receivable
      /\ Matches(Calls[call], reply_buf) <=> reply_buf = Awaited
    BY <1>0, CallsAre, MatchIsAnswer DEF TypeOK, RxInv, Awaited
<1>2. CASE ~Matches(Calls[call], reply_buf)
  <2>1. SpinEnds /\ Awaited \notin got
    BY <1>0, <1>1, <1>2 DEF Examine, CallInv
  <2> QED BY <1>0, <2>1, SpinEndsStep
<1>3. CASE Matches(Calls[call], reply_buf)
  <2>1. /\ results' = Append(results, [ok |-> 1, got |-> got])
        /\ retry' = 0 /\ spins' = 0 /\ got' = {} /\ pc' \in {"done", "send"}
        /\ pc' = "done" => call' = call
        /\ pc' = "send" => call' = call + 1
        /\ call' \in DOMAIN Calls
    <3>1. /\ results' = Append(results, [ok |-> 1, got |-> got])
          /\ retry' = 0 /\ spins' = 0 /\ got' = {}
          /\ \/ pc' = "done" /\ call' = call
             \/ call # Len(Calls) /\ pc' = "send" /\ call' = call + 1
        BY <1>3, Zenon DEF Examine
    <3>2. call # Len(Calls) => call + 1 \in DOMAIN Calls
        BY <1>1, CallsAre
    <3> QED BY <1>1, <3>1, <3>2, Zenon
  <2>2. Awaited \in got
    BY <1>0, <1>1, <1>3 DEF CallInv
  <2>3. TypeOK'
    BY <1>0, <2>1, NetAssumption, SMTT(60) DEF TypeOK, ring, tx
  <2>4. TxInv'
    BY <1>0, <2>1 DEF TxInv, tx
  <2>5. RxInv'
    BY <1>0, <2>1 DEF RxInv, Enabled, ring
  <2>6. CallInv'
    <3>1. /\ results \in Seq([ok : {0, 1}, got : SUBSET Receivable])
          /\ Len(results) = call - 1 /\ got \in SUBSET Receivable
        BY <1>0, SMTT(60) DEF CallInv
    <3>2. /\ results' \in Seq([ok : {0, 1}, got : SUBSET Receivable])
          /\ Len(results') = call
          /\ DOMAIN results' = 1 .. call /\ results'[call] = [ok |-> 1, got |-> got]
          /\ \A i \in 1 .. call - 1 : i \in DOMAIN results /\ results'[i] = results[i]
        BY <1>1, <2>1, <3>1
    <3>3. ASSUME NEW i \in DOMAIN results'
          PROVE  results'[i].ok = 1 <=> Answer(Request(Calls[i])) \in results'[i].got
      <4>1. CASE i = call
        BY <2>2, <3>2, <4>1 DEF Awaited
      <4>2. CASE i # call
        <5>1. i \in 1 .. call - 1
            BY <1>1, <3>2, <4>2
        <5> QED BY <1>0, <3>2, <5>1 DEF CallInv, ResultMeansAnswered
      <4> QED BY <4>1, <4>2
    <3>4. ResultMeansAnswered'
        BY <3>3 DEF ResultMeansAnswered
    <3>5. /\ Awaited' \notin got' /\ pc' # "examine" /\ got' \in SUBSET Receivable
          /\ pc' \notin {"done", "panic"} => Len(results') = call' - 1
        BY <1>1, <2>1, <3>2
    <3> QED BY <3>2, <3>4, <3>5, Zenon DEF CallInv
  <2>7. QueueStep
    BY <1>0, <2>1, RingUntouched DEF ring, Enabled
  <2> QED BY <2>3, <2>4, <2>5, <2>6, <2>7 DEF NetInv
<1> QED BY <1>2, <1>3

-----------------------------------------------------------------------------
(* Every step of driver, card and network keeps the invariant and is a step  *)
(* of the bounded queue, or leaves it alone.                                 *)
LEMMA NetStep == NetInv /\ [Next]_vars => NetInv' /\ QueueStep
<1> SUFFICES ASSUME NetInv, [Next]_vars PROVE NetInv' /\ QueueStep
    OBVIOUS
<1>1. CASE Thread
    BY <1>1, InitStep, SendFrameStep, SendWaitStep, PollTestStep, PollCopyStep,
       PollHandBackStep, ExamineStep DEF Thread
<1>2. CASE CardTransmit
    BY <1>2, TransmitStep
<1>3. CASE \E f \in Arriving : CardReceive(f)
    BY <1>3, ReceiveStep
<1>4. CASE UNCHANGED vars
  <2>1. UNCHANGED <<rx_ring, rx_tail, RDH, RDT, tx_ring, tx_tail, TDH, TDT, pc, call, retry,
                    spins, reply_buf, sent, wire, arrived, read, dropped, got, results>>
    BY <1>4, SMTT(60) DEF vars, ring, tx, loop, history
  <2>2. TypeOK'
    BY <2>1 DEF NetInv, TypeOK
  <2>3. TxInv'
    BY <2>1 DEF NetInv, TxInv
  <2>4. RxInv'
    BY <2>1, SMTT(60) DEF NetInv, RxInv, Enabled
  <2>5. CallInv'
    BY <2>1 DEF NetInv, CallInv, Awaited, ResultMeansAnswered
  <2> QED BY <2>1, <2>2, <2>3, <2>4, <2>5, RingUntouched DEF NetInv, Enabled
<1> QED BY <1>1, <1>2, <1>3, <1>4 DEF Next, Finished

(* The invariant holds in every state of driver, card and network. *)
LEMMA NetInvariant == Spec => []NetInv
BY NetInit, NetStep, PTL DEF Spec

(* e1000_send() returns with its frame on the wire: for rings of any size,   *)
(* however often tx_tail has wrapped and whenever the card does its part,    *)
(* every frame handed to it goes out once, in order, and while it waits only *)
(* the last one may be missing.                                              *)
THEOREM SendsReachWire == Spec => []WireCarriesSends
<1>1. NetInv => WireCarriesSends
  <2> SUFFICES ASSUME NetInv PROVE WireCarriesSends
    OBVIOUS
  <2>1. CASE wire = sent
    BY <2>1 DEF NetInv, WireCarriesSends
  <2>2. CASE wire # sent
    <3>1. /\ pc \in {"sending", "panic"} /\ wire \in Seq(Requests)
          /\ sent = Append(wire, tx_ring[TDH].frame)
        BY <2>2 DEF NetInv, TxInv
    <3>2. sent[Len(sent)] = tx_ring[TDH].frame
        BY <3>1
    <3> QED BY <3>1, <3>2 DEF NetInv, WireCarriesSends
  <2> QED BY <2>1, <2>2
<1> QED BY <1>1, NetInvariant, PTL

(* For any list of calls, any number of retries and spins and any traffic    *)
(* that answers none of them, net_arp_resolve() and net_ping() return 1      *)
(* exactly when they polled the answer to their own request.                 *)
THEOREM AnsweredCalls == Spec => []ResultMeansAnswered
<1>1. NetInv => ResultMeansAnswered
    BY DEF NetInv, CallInv
<1> QED BY <1>1, NetInvariant, PTL

(* The receive ring that card and driver share without a lock is a bounded   *)
(* queue of RX_DESC_COUNT - 1 frames: none is polled twice, skipped or       *)
(* overwritten before it is polled, and the card drops one only when the     *)
(* driver owns every descriptor.                                             *)
THEOREM RingRefinement == Spec => RingIsBoundedQueue
<1>1. Init => Queue!Init
    BY DEF Init, Queue!Init, Unread, Enabled
<1> QED BY <1>1, NetInit, NetStep, PTL
        DEF Spec, RingIsBoundedQueue, Queue!Spec, QueueStep
=============================================================================
