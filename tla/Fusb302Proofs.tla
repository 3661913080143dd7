--------------------------- MODULE Fusb302Proofs ---------------------------
(***************************************************************************)
(* Proofs about the FUSB302 driver, for every value of the constants.      *)
(*                                                                         *)
(*   1. TypeOK is preserved, action by action.                             *)
(*   2. FusbInv is inductive and implies the safety properties.            *)
(*   3. The driver implements PdLink.                                      *)
(***************************************************************************)
EXTENDS Fusb302, TLAPS

(* Every named value of the driver's small types is one of them. *)
LEMMA EventTypes ==
  ASSUME PacketsAssumption,
         NEW p \in Packets, NEW h \in Headers, TypeOK
  PROVE  /\ StateChanged \in Events
         /\ MessageReceived(p, h) \in MessageEvents
         /\ MessageReceived(p, h) \in Events
BY DEF StateChanged, Events, MessageReceived, MessageEvents, ObjSeqs,
       TypeOK, num_message_buf

(* add_item keeps a queue a queue, within its capacity. *)
LEMMA AddItemType ==
  ASSUME ConstantsAssumption,
         NEW q \in Seq(Events), Len(q) <= QueueSize, NEW e \in Events
  PROVE  /\ AddItem(q, e) \in Seq(Events)
         /\ Len(AddItem(q, e)) <= QueueSize
BY DEF AddItem, ConstantsAssumption

(* A reset leaves just the news of it in the queue. *)
LEMMA ResetQueue ==
  ASSUME ConstantsAssumption
  PROVE  AddItem(Cleared(events), StateChanged) = <<StateChanged>>
BY DEF AddItem, Cleared, ConstantsAssumption

LEMMA ResetType ==
  ASSUME ConstantsAssumption, PacketsAssumption, TypeOK, EstablishRetryWait,
         UNCHANGED <<protocol, rxVars, source_cc, measuring_cc>>,
         pc' \in {"poll", "rx", "events"}
  PROVE  TypeOK'
<1>1. events' = <<StateChanged>>
  BY ResetQueue DEF EstablishRetryWait
<1>2. StateChanged \in Events
  BY DEF Events
<1>3. <<StateChanged>> \in Seq(Events) /\ Len(<<StateChanged>>) = 1
  BY <1>2
<1>4. QueueSize >= 1 /\ 0 \in 0 .. NumMessageIds - 1
  BY DEF ConstantsAssumption
<1>5. events' \in Seq(Events) /\ Len(events') <= QueueSize
  BY <1>1, <1>3, <1>4
<1>6. /\ rx_fifo' \in Seq(Packets)
      /\ tx_fifo' \in Seq([msg : TxMessages, id : 0 .. NumMessageIds - 1])
      /\ next_message_id' \in 0 .. NumMessageIds - 1
  <2>1. rx_fifo' = <<>> /\ tx_fifo' = <<>> /\ next_message_id' = 0
    BY DEF EstablishRetryWait
  <2> QED BY <2>1, <1>4
<1>7. /\ int_enabled' \in BOOLEAN /\ osc' \in BOOLEAN /\ crc_chk' \in BOOLEAN
      /\ irq' \in SUBSET Flags /\ sending' \in {"no", "clear", "behind"}
      /\ state' \in States /\ timeout' \in {"off", "running", "expired"}
  BY Zenon DEF EstablishRetryWait, States
<1>8. meas_cc' \in 0 .. 2 /\ tx_cc' \in 0 .. 2
  <2>1. meas_cc' = 0 /\ tx_cc' = 0
    BY DEF EstablishRetryWait
  <2> QED BY <2>1
<1>9. /\ protocol' \in {"usb_20", "usb_pd"}
      /\ measuring_cc' \in 0 .. 2
      /\ source_cc' \in 0 .. 2
      /\ rx_message_buf' \in [0 .. BufWords - 1 -> Words]
      /\ rx_message_index' \in 0 .. num_message_buf - 1
  BY DEF TypeOK, rxVars
<1> QED BY <1>5, <1>6, <1>7, <1>8, <1>9 DEF TypeOK

(* read_message writes words into the buffer and only shortens the FIFO. *)
LEMMA ReadMessageType ==
  ASSUME PacketsAssumption, ConstantsAssumption, TypeOK, rx_fifo # <<>>,
         NEW h \in Headers, ReadMessage(Head(rx_fifo), h)
  PROVE  /\ Head(rx_fifo) \in Packets
         /\ rx_message_buf' \in [0 .. BufWords - 1 -> Words]
         /\ rx_fifo' \in Seq(Packets)
<1> DEFINE p == Head(rx_fifo)
           first == RowStart(rx_message_index)
           words == PacketWords(p)
<1>1. p \in Packets /\ Tail(rx_fifo) \in Seq(Packets)
  BY DEF TypeOK
<1>2. words \in Seq(Words)
  BY <1>1 DEF PacketsAssumption, PacketWords
<1>3. first \in Int
  BY DEF TypeOK, RowStart, num_message_buf
<1>4. rx_message_buf' \in [0 .. BufWords - 1 -> Words]
  <2>1. CASE ~p.sop
    BY <2>1 DEF ReadMessage, TypeOK
  <2>2. CASE p.sop
    <3>1. rx_message_buf' =
            [i \in 0 .. BufWords - 1 |->
               IF i \in first .. first + Len(words) - 1
               THEN words[i - first + 1] ELSE rx_message_buf[i]]
      BY <2>2 DEF ReadMessage
    <3>2. ASSUME NEW i \in 0 .. BufWords - 1,
                 i \in first .. first + Len(words) - 1
          PROVE  words[i - first + 1] \in Words
      <4>1. i - first + 1 \in 1 .. Len(words)
        BY <3>2, <1>2, <1>3
      <4> QED BY <4>1, <1>2
    <3>3. \A i \in 0 .. BufWords - 1 : rx_message_buf[i] \in Words
      BY DEF TypeOK
    <3> HIDE DEF first, words
    <3> QED BY <3>1, <3>2, <3>3
  <2> QED BY <2>1, <2>2
<1>5. rx_fifo' \in Seq(Packets)
  <2>1. rx_fifo' = Tail(rx_fifo) \/ rx_fifo' = <<>>
    BY DEF ReadMessage
  <2>2. <<>> \in Seq(Packets)
    OBVIOUS
  <2>3. CASE rx_fifo' = <<>>
    BY <2>2, <2>3
  <2>4. CASE rx_fifo' = Tail(rx_fifo)
    BY <1>1, <2>4
  <2> QED BY <2>1, <2>3, <2>4
<1> QED BY <1>1, <1>4, <1>5

-----------------------------------------------------------------------------
(* Type correctness, one lemma for each group of actions. *)

LEMMA TypePoll ==
  ASSUME ConstantsAssumption, PacketsAssumption, TypeOK, Driver, pc = "poll"
  PROVE  TypeOK'
<1>1. CASE PollHardReset
  BY <1>1, ResetType DEF PollHardReset, Poll
<1>2. CASE PollInterrupt
  BY <1>2 DEF PollInterrupt, Poll, OscAfter, TypeOK, rxVars, switchVars
<1>3. CASE PollWaitExpired
  BY <1>3, ResetType DEF PollWaitExpired, PollTimeout, Poll
<1>4. CASE PollMeasureExpired
  <2>1. CASE source_cc # 0 /\ source_cc = meas_cc
    BY <1>4, <2>1 DEF PollMeasureExpired, PollTimeout, Poll, CheckMeasurement,
       EstablishUsbPdWait, TypeOK, rxVars, States
  <2>2. CASE ~(source_cc # 0 /\ source_cc = meas_cc)
    BY <1>4, <2>2 DEF PollMeasureExpired, PollTimeout, Poll, CheckMeasurement,
       StartMeasurement, OtherLine, TypeOK, rxVars
  <2> QED BY <2>1, <2>2
<1>5. CASE PollRetryExpired
  BY <1>5 DEF PollRetryExpired, PollTimeout, Poll, EstablishUsb20, StartMeasurement,
     TypeOK, rxVars
<1>6. CASE PollNothing
  BY <1>6 DEF PollNothing, Poll, TypeOK, rxVars, switchVars
<1> QED
  BY <1>1, <1>2, <1>3, <1>4, <1>5, <1>6 DEF Driver, RxMessage, RxEmpty

LEMMA TypeRxMessage ==
  ASSUME ConstantsAssumption, PacketsAssumption, TypeOK, RxMessage
  PROVE  TypeOK'
<1> DEFINE p == Head(rx_fifo)
<1>1. PICK h \in Headers :
        /\ ReadMessage(p, h)
        /\ IF ~crc_chk \/ h.type = "good_crc"
           THEN UNCHANGED <<state, timeout, events, rx_message_index>>
           ELSE /\ state' = "usb_pd"
                /\ timeout' = IF state # "usb_pd" THEN "off" ELSE timeout
                /\ events' = AddItem(IF state # "usb_pd"
                                     THEN AddItem(events, StateChanged)
                                     ELSE events,
                                     MessageReceived(p, h))
                /\ rx_message_index' = NextIndex(rx_message_index)
  BY DEF RxMessage
<1>2. /\ p \in Packets
      /\ rx_message_buf' \in [0 .. BufWords - 1 -> Words]
      /\ rx_fifo' \in Seq(Packets)
  BY <1>1, ReadMessageType DEF RxMessage
<1>3. events' \in Seq(Events) /\ Len(events') <= QueueSize
  <2>1. events \in Seq(Events) /\ Len(events) <= QueueSize
    BY DEF TypeOK
  <2>2. StateChanged \in Events /\ MessageReceived(p, h) \in Events
    BY <1>2, EventTypes
  <2>3. /\ AddItem(events, StateChanged) \in Seq(Events)
        /\ Len(AddItem(events, StateChanged)) <= QueueSize
    BY <2>1, <2>2, AddItemType
  <2>4. CASE UNCHANGED events
    BY <2>1, <2>4
  <2>5. CASE events' = AddItem(events, MessageReceived(p, h))
    BY <2>1, <2>2, <2>5, AddItemType
  <2>6. CASE events' = AddItem(AddItem(events, StateChanged), MessageReceived(p, h))
    BY <2>2, <2>3, <2>6, AddItemType
  <2> QED BY <1>1, <2>4, <2>5, <2>6
<1>4. /\ state' \in States
      /\ timeout' \in {"off", "running", "expired"}
      /\ rx_message_index' \in 0 .. num_message_buf - 1
  BY <1>1 DEF TypeOK, States, NextIndex, num_message_buf
<1> QED BY <1>2, <1>3, <1>4 DEF RxMessage, TypeOK, switchVars

LEMMA TypeClient ==
  ASSUME ConstantsAssumption, TypeOK, Client
  PROVE  TypeOK'
<1>1. ASSUME MaySend
      PROVE  /\ osc' \in BOOLEAN
             /\ tx_fifo' \in Seq([msg : TxMessages, id : 0 .. NumMessageIds - 1])
             /\ next_message_id' \in 0 .. NumMessageIds - 1
  <2>1. CASE UNCHANGED fifoVars
    BY <2>1 DEF fifoVars, TypeOK
  <2>2. ASSUME NEW m \in TxMessages, SendMessage(m)
        PROVE  /\ osc' \in BOOLEAN
               /\ tx_fifo' \in Seq([msg : TxMessages, id : 0 .. NumMessageIds - 1])
               /\ next_message_id' \in 0 .. NumMessageIds - 1
    <3>1. [msg |-> m, id |-> next_message_id]
            \in [msg : TxMessages, id : 0 .. NumMessageIds - 1]
      BY <2>2 DEF TypeOK
    <3>2. (next_message_id + 1) % NumMessageIds \in 0 .. NumMessageIds - 1
      BY DEF TypeOK, ConstantsAssumption
    <3> QED BY <2>2, <3>1, <3>2 DEF SendMessage, TypeOK
  <2> QED BY <1>1, <2>1, <2>2 DEF MaySend
<1>2. CASE ClientEvent
  <2>1. events' \in Seq(Events) /\ Len(events') <= QueueSize
    BY <1>2 DEF ClientEvent, PopEvent, TypeOK
  <2> QED BY <1>1, <1>2, <2>1
          DEF ClientEvent, UpdateProtocol, TypeOK, rxVars, switchVars
<1>3. CASE ClientDone
  BY <1>1, <1>3 DEF ClientDone, TypeOK, rxVars, switchVars
<1> QED BY <1>2, <1>3 DEF Client

LEMMA TypeEnvironment ==
  ASSUME ConstantsAssumption, PacketsAssumption, TypeOK, Environment
  PROVE  TypeOK'
<1>1. CASE Elapse
  BY <1>1 DEF Elapse, TypeOK, rxVars, chipVars
<1>2. ASSUME NEW p \in Packets, ChipReceive(p) PROVE TypeOK'
  <2>1. rx_fifo' \in Seq(Packets) /\ crc_chk' \in BOOLEAN
    BY <1>2 DEF ChipReceive, TypeOK, PacketsAssumption
  <2> QED BY <1>2, <2>1
          DEF ChipReceive, Chip, Raise, Flags, TypeOK, driverVars, rxVars, switchVars
<1>3. CASE ChipHardReset
  BY <1>3 DEF ChipHardReset, Chip, Raise, Flags, TypeOK, driverVars, rxVars, switchVars
<1>4. CASE ChipActivity
  BY <1>4 DEF ChipActivity, Chip, Raise, Flags, TypeOK, driverVars, rxVars, switchVars
<1>5. CASE ChipTransmit
  <2>1. tx_fifo' \in Seq([msg : TxMessages, id : 0 .. NumMessageIds - 1])
    BY <1>5 DEF ChipTransmit, TypeOK
  <2> QED BY <1>5, <2>1 DEF ChipTransmit, Chip, TypeOK, driverVars, rxVars, switchVars
<1>6. ASSUME NEW result \in {"txsent", "retryfail"}, ChipTransmitted(result) PROVE TypeOK'
  BY <1>6 DEF ChipTransmitted, Chip, Raise, Flags, TypeOK, driverVars, rxVars, switchVars
<1> QED BY <1>1, <1>2, <1>3, <1>4, <1>5, <1>6 DEF Environment

LEMMA TypeInit ==
  ASSUME ConstantsAssumption, FusbInit
  PROVE  TypeOK
<1>1. /\ <<>> \in Seq(Events) /\ Len(<<>>) <= QueueSize
      /\ <<>> \in Seq(Packets)
      /\ <<>> \in Seq([msg : TxMessages, id : 0 .. NumMessageIds - 1])
  BY DEF ConstantsAssumption
<1>2. /\ rx_message_buf \in [0 .. BufWords - 1 -> Words]
      /\ next_message_id \in 0 .. NumMessageIds - 1
  BY DEF FusbInit, ConstantsAssumption
<1>3. /\ events = <<>> /\ rx_fifo = <<>> /\ tx_fifo = <<>>
  BY DEF FusbInit
<1>4. /\ events \in Seq(Events) /\ Len(events) <= QueueSize
      /\ rx_fifo \in Seq(Packets)
      /\ tx_fifo \in Seq([msg : TxMessages, id : 0 .. NumMessageIds - 1])
  BY <1>1, <1>3
<1>5. int_enabled \in BOOLEAN /\ osc \in BOOLEAN /\ crc_chk \in BOOLEAN /\ irq \in SUBSET Flags
  BY Zenon DEF FusbInit
<1>6. /\ sending = "no" /\ pc = "poll" /\ protocol = "usb_20" /\ state = "usb_20" /\ timeout = "running"
      /\ measuring_cc = 1 /\ rx_message_index = 0 /\ source_cc \in 0 .. 2
      /\ meas_cc = 1 /\ tx_cc = 0
  BY DEF FusbInit
<1> QED BY <1>2, <1>4, <1>5, <1>6 DEF TypeOK, States, num_message_buf

LEMMA TypeStep ==
  ASSUME ConstantsAssumption, PacketsAssumption, TypeOK, [FusbNext]_fusbVars
  PROVE  TypeOK'
<1>1. CASE Driver /\ pc = "poll"
  BY <1>1, TypePoll
<1>2. CASE RxMessage
  BY <1>2, TypeRxMessage
<1>3. CASE RxEmpty
  BY <1>3 DEF RxEmpty, TypeOK, driverVars, rxVars, chipVars
<1>4. CASE Client
  BY <1>4, TypeClient
<1>5. CASE Environment
  BY <1>5, TypeEnvironment
<1>6. CASE UNCHANGED fusbVars
  BY <1>6 DEF fusbVars, TypeOK, driverVars, rxVars, chipVars
<1>7. Driver => RxMessage \/ RxEmpty \/ pc = "poll"
  BY DEF Driver, PollHardReset, PollInterrupt, PollWaitExpired, PollMeasureExpired,
         PollRetryExpired, PollNothing, PollTimeout, Poll
<1> QED BY <1>1, <1>2, <1>3, <1>4, <1>5, <1>6, <1>7 DEF FusbNext

(* Every variable has its type in every reachable state. *)
THEOREM TypeCorrect ==
  ASSUME ConstantsAssumption, PacketsAssumption
  PROVE  FusbSpec => []TypeOK
<1>1. FusbInit => TypeOK
  BY TypeInit
<1>2. TypeOK /\ [FusbNext]_fusbVars => TypeOK'
  BY TypeStep
<1> QED BY <1>1, <1>2, PTL DEF FusbSpec

-----------------------------------------------------------------------------
(* The inductive invariant. *)

LEMMA InvInit ==
  ASSUME ConstantsAssumption, FusbInit
  PROVE  FusbInv
<1>1. TypeOK
  BY TypeInit
<1>2. RxNotForgotten /\ NothingSentYet /\ OscillatorOn
  BY DEF FusbInit, RxNotForgotten, NothingSentYet, OscillatorOn
<1> QED BY <1>1, <1>2
        DEF FusbInit, FusbInv, EnabledWhenAttached, Attached, MeasuringInStep, Lines,
            QueueBeforePd, PdReported, TimerArmed, CommOnSourceLine

(* A reset establishes the invariant, whatever was before. *)
LEMMA InvReset ==
  ASSUME ConstantsAssumption, PacketsAssumption, FusbInv, TypeOK',
         EstablishRetryWait, pc' = "events"
  PROVE  FusbInv'
<1>1. events' = <<StateChanged>>
  BY ResetQueue DEF EstablishRetryWait
<1>2. RxNotForgotten' /\ NothingSentYet' /\ OscillatorOn' /\ EnabledWhenAttached'
  BY DEF EstablishRetryWait, RxNotForgotten, NothingSentYet, OscillatorOn, EnabledWhenAttached,
     Attached
<1>3. QueueBeforePd' /\ PdReported'
  BY <1>1 DEF EstablishRetryWait, QueueBeforePd, PdReported
<1>4. MeasuringInStep' /\ TimerArmed' /\ CommOnSourceLine'
  BY DEF EstablishRetryWait, MeasuringInStep, TimerArmed, CommOnSourceLine
<1> QED BY <1>1, <1>2, <1>3, <1>4 DEF FusbInv

(* A measurement keeps the two records of the line measured in step; only  *)
(* a line with the source on it is used for communication.                 *)
LEMMA InvMeasure ==
  ASSUME FusbInv, TypeOK', PollMeasureExpired \/ PollRetryExpired
  PROVE  FusbInv'
<1> USE DEF FusbInv, PollMeasureExpired, PollRetryExpired, PollTimeout, Poll, States
<1>1. EnabledWhenAttached' /\ CommOnSourceLine' /\ MeasuringInStep' /\ TimerArmed'
  <2>1. CASE PollMeasureExpired
    <3>1. measuring_cc \in Lines /\ meas_cc = measuring_cc /\ events = <<>>
      BY <2>1 DEF MeasuringInStep, QueueBeforePd
    <3>2. CASE source_cc # 0 /\ source_cc = meas_cc
      BY <2>1, <3>1, <3>2 DEF CheckMeasurement, EstablishUsbPdWait, EnabledWhenAttached,
         Attached, CommOnSourceLine, MeasuringInStep, TimerArmed
    <3>3. CASE ~(source_cc # 0 /\ source_cc = meas_cc)
      BY <2>1, <3>1, <3>3 DEF CheckMeasurement, StartMeasurement, OtherLine,
         EnabledWhenAttached, Attached, CommOnSourceLine, MeasuringInStep, TimerArmed, Lines
    <3> QED BY <3>2, <3>3
  <2>2. CASE PollRetryExpired
    BY <2>2 DEF EstablishUsb20, StartMeasurement, EnabledWhenAttached, Attached,
       CommOnSourceLine, MeasuringInStep, TimerArmed
  <2> QED BY <2>1, <2>2
<1>2. QueueBeforePd' /\ PdReported'
  BY DEF CheckMeasurement, EstablishUsbPdWait, StartMeasurement, EstablishUsb20,
     QueueBeforePd, PdReported
<1>3. NothingSentYet' /\ OscillatorOn'
  BY DEF CheckMeasurement, EstablishUsb20, NothingSentYet, OscillatorOn
<1>4. RxNotForgotten'
  <2>1. rx_fifo = <<>>
    BY DEF EnabledWhenAttached, Attached
  <2> QED BY <2>1 DEF CheckMeasurement, EstablishUsb20, RxNotForgotten
<1> QED BY <1>1, <1>2, <1>3, <1>4

(* Clearing the flags makes the driver read the FIFO if they say so, and   *)
(* leaves the oscillator on if something waits for transmission; if a      *)
(* packet is on the wire, TXSENT is not the flag of another.               *)
LEMMA InvInterrupt ==
  ASSUME FusbInv, TypeOK', PollInterrupt
  PROVE  FusbInv'
<1> USE DEF FusbInv, PollInterrupt, Poll, switchVars
<1>1. EnabledWhenAttached'
  BY DEF EnabledWhenAttached, Attached, IsInterruptAsserted
<1>2. RxNotForgotten'
  BY DEF RxNotForgotten, MayHaveMessage
<1>3. NothingSentYet' /\ OscillatorOn'
  BY DEF NothingSentYet, OscillatorOn, OscAfter
<1> QED BY <1>1, <1>2, <1>3
        DEF MeasuringInStep, QueueBeforePd, PdReported, TimerArmed, CommOnSourceLine

(* A message is read only while attached; then the queue has room for the  *)
(* news that USB PD has been established.                                  *)
LEMMA InvRxMessage ==
  ASSUME ConstantsAssumption, PacketsAssumption, FusbInv, TypeOK', RxMessage
  PROVE  FusbInv'
<1> DEFINE p == Head(rx_fifo)
<1>1. PICK h \in Headers :
        IF ~crc_chk \/ h.type = "good_crc"
        THEN UNCHANGED <<state, timeout, events, rx_message_index>>
        ELSE /\ state' = "usb_pd"
             /\ timeout' = IF state # "usb_pd" THEN "off" ELSE timeout
             /\ events' = AddItem(IF state # "usb_pd"
                                  THEN AddItem(events, StateChanged)
                                  ELSE events,
                                  MessageReceived(p, h))
             /\ rx_message_index' = NextIndex(rx_message_index)
  BY DEF RxMessage
<1>2. state \in Attached /\ int_enabled /\ tx_cc # 0
  BY DEF RxMessage, FusbInv, EnabledWhenAttached
<1>3. state' \in Attached
  BY <1>1, <1>2 DEF Attached
<1>4. /\ EnabledWhenAttached' /\ MeasuringInStep' /\ TimerArmed'
      /\ RxNotForgotten' /\ NothingSentYet' /\ OscillatorOn' /\ CommOnSourceLine'
  BY <1>1, <1>2, <1>3
     DEF RxMessage, switchVars, FusbInv, Attached, EnabledWhenAttached, MeasuringInStep,
         TimerArmed, RxNotForgotten, NothingSentYet, OscillatorOn, CommOnSourceLine
<1>5. CASE UNCHANGED <<state, events>>
  BY <1>4, <1>5 DEF RxMessage, FusbInv, QueueBeforePd, PdReported
<1>6. CASE state' = "usb_pd" /\ state = "usb_pd"
  <2>1. events' = AddItem(events, MessageReceived(p, h)) \/ UNCHANGED events
    BY <1>1, <1>6
  <2>2. \A i \in DOMAIN events : i \in DOMAIN events' /\ events'[i] = events[i]
    <3>1. events \in Seq(Events)
      BY DEF FusbInv, TypeOK
    <3>2. ASSUME NEW e
          PROVE  \A i \in DOMAIN events : /\ i \in DOMAIN Append(events, e)
                                          /\ Append(events, e)[i] = events[i]
      BY <3>1
    <3> QED BY <2>1, <3>2 DEF AddItem
  <2> QED BY <1>4, <1>6, <2>2 DEF RxMessage, FusbInv, QueueBeforePd, PdReported
<1>7. CASE state' = "usb_pd" /\ state = "usb_pd_wait"
  <2>1. events = <<>>
    BY <1>7 DEF FusbInv, QueueBeforePd
  <2>2. AddItem(events, StateChanged) = <<StateChanged>>
    BY <2>1 DEF AddItem, ConstantsAssumption
  <2>3. events' = AddItem(<<StateChanged>>, MessageReceived(p, h))
    BY <1>1, <1>7, <2>2
  <2>4. 1 \in DOMAIN events' /\ events'[1] = StateChanged
    BY <2>3 DEF AddItem
  <2> QED BY <1>4, <1>7, <2>4 DEF FusbInv, QueueBeforePd, PdReported
<1> QED BY <1>1, <1>2, <1>5, <1>6, <1>7 DEF Attached

(* The client takes over the attach state with the event that reports it. *)
LEMMA InvClient ==
  ASSUME ConstantsAssumption, FusbInv, TypeOK', Client
  PROVE  FusbInv'
<1>1. ASSUME MaySend, UNCHANGED sending
      PROVE  OscillatorOn'
  BY <1>1 DEF MaySend, SendMessage, fifoVars, FusbInv, OscillatorOn
<1>2. CASE ClientDone
  BY <1>1, <1>2 DEF ClientDone, rxVars, switchVars, FusbInv, EnabledWhenAttached,
     MeasuringInStep, QueueBeforePd, PdReported, TimerArmed, RxNotForgotten, NothingSentYet,
     CommOnSourceLine
<1>3. CASE ClientEvent
  <2>1. /\ EnabledWhenAttached' /\ MeasuringInStep' /\ TimerArmed'
        /\ RxNotForgotten' /\ CommOnSourceLine' /\ NothingSentYet' /\ OscillatorOn'
    BY <1>1, <1>3 DEF ClientEvent, rxVars, switchVars, FusbInv, EnabledWhenAttached,
       MeasuringInStep, TimerArmed, RxNotForgotten, NothingSentYet, CommOnSourceLine
  <2>2. events \in Seq(Events) /\ events # <<>> /\ events' = Tail(events)
    BY <1>3 DEF ClientEvent, PopEvent, FusbInv, TypeOK
  <2>3. QueueBeforePd'
    <3>1. state \notin {"usb_20", "usb_pd_wait"}
      BY <2>2 DEF FusbInv, QueueBeforePd
    <3>2. CASE state = "usb_retry_wait"
      <4>1. events = <<StateChanged>>
        BY <2>2, <3>2 DEF FusbInv, QueueBeforePd
      <4>2. events' = <<>>
        BY <2>2, <4>1
      <4>3. ~IsMessage(Head(events))
        BY <4>1 DEF IsMessage, StateChanged
      <4> QED BY <1>3, <3>2, <4>2, <4>3
              DEF ClientEvent, UpdateProtocol, QueueBeforePd
    <3>3. CASE state = "usb_pd"
      BY <1>3, <3>3 DEF ClientEvent, QueueBeforePd
    <3> QED BY <3>1, <3>2, <3>3 DEF FusbInv, TypeOK, States
  <2>4. PdReported'
    <3>1. SUFFICES ASSUME state = "usb_pd", protocol' # "usb_pd"
                   PROVE  \E i \in DOMAIN events' : events'[i] = StateChanged
      BY <1>3 DEF ClientEvent, PdReported
    <3>2. IsMessage(Head(events)) /\ protocol # "usb_pd"
      BY <1>3, <3>1 DEF ClientEvent, UpdateProtocol
    <3>3. PICK i \in DOMAIN events : events[i] = StateChanged
      BY <3>1, <3>2 DEF FusbInv, PdReported
    <3>4. i # 1
      BY <2>2, <3>2, <3>3 DEF IsMessage, StateChanged
    <3>5. i - 1 \in DOMAIN events' /\ events'[i - 1] = events[i]
      BY <2>2, <3>3, <3>4
    <3> QED BY <3>3, <3>5
  <2> QED BY <2>1, <2>3, <2>4 DEF FusbInv
<1> QED BY <1>2, <1>3 DEF Client

(* The chip acts only while it communicates; whatever it receives raises   *)
(* the flag that gets it read.                                             *)
LEMMA InvEnvironment ==
  ASSUME FusbInv, TypeOK', Environment
  PROVE  FusbInv'
<1> USE DEF FusbInv, QueueBeforePd, PdReported, MeasuringInStep, CommOnSourceLine,
            EnabledWhenAttached, TimerArmed, Attached
<1>1. CASE Elapse
  BY <1>1 DEF Elapse, rxVars, chipVars, RxNotForgotten, NothingSentYet, OscillatorOn
<1>2. ASSUME Chip, rx_fifo' # rx_fifo => "activity" \in irq', irq \subseteq irq',
             NothingSentYet' /\ OscillatorOn'
      PROVE  FusbInv'
  <2>1. RxNotForgotten'
    BY <1>2 DEF Chip, driverVars, rxVars, switchVars, RxNotForgotten
  <2> QED BY <1>2, <2>1 DEF Chip, driverVars, rxVars, switchVars
<1>3. ASSUME Chip, UNCHANGED <<tx_fifo, sending>>, "txsent" \in irq' => "txsent" \in irq
      PROVE  NothingSentYet' /\ OscillatorOn'
  BY <1>3 DEF Chip, NothingSentYet, OscillatorOn
<1>4. ASSUME NEW p \in Packets, ChipReceive(p) PROVE FusbInv'
  BY <1>2, <1>3, <1>4 DEF ChipReceive, Raise
<1>5. CASE ChipHardReset
  BY <1>2, <1>3, <1>5 DEF ChipHardReset, Raise
<1>6. CASE ChipActivity
  BY <1>2, <1>3, <1>6 DEF ChipActivity, Raise
<1>7. CASE ChipTransmit
  <2>1. NothingSentYet' /\ OscillatorOn'
    BY <1>7 DEF ChipTransmit, Chip, NothingSentYet, OscillatorOn
  <2> QED BY <1>2, <1>7, <2>1 DEF ChipTransmit
<1>8. ASSUME NEW result \in {"txsent", "retryfail"}, ChipTransmitted(result) PROVE FusbInv'
  <2>1. NothingSentYet' /\ OscillatorOn'
    BY <1>8 DEF ChipTransmitted, Chip, NothingSentYet, OscillatorOn
  <2> QED BY <1>2, <1>8, <2>1 DEF ChipTransmitted, Raise
<1> QED BY <1>1, <1>4, <1>5, <1>6, <1>7, <1>8 DEF Environment

LEMMA InvStep ==
  ASSUME ConstantsAssumption, PacketsAssumption, FusbInv, [FusbNext]_fusbVars
  PROVE  FusbInv'
<1>1. TypeOK'
  BY TypeStep DEF FusbInv
<1>2. CASE PollHardReset
  BY <1>1, <1>2, InvReset DEF PollHardReset
<1>3. CASE PollWaitExpired
  BY <1>1, <1>3, InvReset DEF PollWaitExpired, PollTimeout
<1>4. CASE PollMeasureExpired \/ PollRetryExpired
  BY <1>1, <1>4, InvMeasure
<1>5. CASE PollInterrupt
  BY <1>1, <1>5, InvInterrupt
<1>6. CASE RxMessage
  BY <1>1, <1>6, InvRxMessage
<1>7. CASE Client
  BY <1>1, <1>7, InvClient
<1>8. CASE Environment
  BY <1>1, <1>8, InvEnvironment
<1>9. CASE PollNothing \/ RxEmpty \/ UNCHANGED fusbVars
  BY <1>1, <1>9
     DEF PollNothing, Poll, RxEmpty, fusbVars, driverVars, rxVars, chipVars, switchVars,
         FusbInv, EnabledWhenAttached, MeasuringInStep, QueueBeforePd, PdReported,
         TimerArmed, RxNotForgotten, NothingSentYet, OscillatorOn, CommOnSourceLine
<1> QED BY <1>2, <1>3, <1>4, <1>5, <1>6, <1>7, <1>8, <1>9 DEF FusbNext, Driver

(***************************************************************************)
(* The invariant holds, and with it what the driver must get right:        *)
(* an attach state the client can trust, a timeout or an interrupt that    *)
(* gets the driver going, no packet forgotten, communication on the line   *)
(* of the source with the oscillator running.                              *)
(***************************************************************************)
THEOREM Invariance ==
  ASSUME ConstantsAssumption, PacketsAssumption
  PROVE  FusbSpec => []FusbInv
<1>1. FusbInit => FusbInv
  BY InvInit
<1>2. FusbInv /\ [FusbNext]_fusbVars => FusbInv'
  BY InvStep
<1> QED BY <1>1, <1>2, PTL DEF FusbSpec

(* No message of an old connection is queued once the connection is gone.  *)
THEOREM MessagesOnlyInPdHolds ==
  ASSUME ConstantsAssumption, PacketsAssumption
  PROVE  FusbSpec => []MessagesOnlyInPd
<1>1. FusbInv => MessagesOnlyInPd
  BY DEF FusbInv, QueueBeforePd, MessagesOnlyInPd, TypeOK, States, IsMessage, StateChanged
<1> QED BY <1>1, Invariance, PTL

(* The client's protocol is the driver's, or the news is in the queue.     *)
THEOREM ProtocolTracksStateHolds ==
  ASSUME ConstantsAssumption, PacketsAssumption
  PROVE  FusbSpec => []ProtocolTracksState
<1>1. FusbInv => ProtocolTracksState
  <2> SUFFICES ASSUME FusbInv PROVE ProtocolTracksState
    OBVIOUS
  <2>1. CASE state = "usb_pd"
    BY <2>1 DEF FusbInv, PdReported, ProtocolTracksState
  <2>2. CASE events = <<>>
    BY <2>2 DEF FusbInv, QueueBeforePd, PdReported, ProtocolTracksState, TypeOK, States
  <2>3. CASE events = <<StateChanged>>
    BY <2>3 DEF ProtocolTracksState
  <2> QED BY <2>1, <2>2, <2>3 DEF FusbInv, QueueBeforePd, TypeOK, States
<1> QED BY <1>1, Invariance, PTL

(* Without USB PD a timeout is always armed. *)
THEOREM TimerArmedHolds ==
  ASSUME ConstantsAssumption, PacketsAssumption
  PROVE  FusbSpec => []TimerArmed
<1>1. FusbInv => TimerArmed
  BY DEF FusbInv
<1> QED BY <1>1, Invariance, PTL

(* No packet in the RX FIFO is forgotten. *)
THEOREM RxNotForgottenHolds ==
  ASSUME ConstantsAssumption, PacketsAssumption
  PROVE  FusbSpec => []RxNotForgotten
<1>1. FusbInv => RxNotForgotten
  BY DEF FusbInv
<1> QED BY <1>1, Invariance, PTL

(* The oscillator runs as long as a message waits in the TX FIFO or is on  *)
(* the wire, though check_for_interrupts switches it off after the message *)
(* before; but for a packet that started before TXSENT of the one before   *)
(* was read.                                                               *)
THEOREM OscillatorOnHolds ==
  ASSUME ConstantsAssumption, PacketsAssumption
  PROVE  FusbSpec => []OscillatorOn
<1>1. FusbInv => OscillatorOn
  BY DEF FusbInv
<1> QED BY <1>1, Invariance, PTL

(* The chip communicates on the line the source pulls up: measuring_cc is  *)
(* the line that was measured (check_measurement).                         *)
THEOREM CommOnSourceLineHolds ==
  ASSUME ConstantsAssumption, PacketsAssumption
  PROVE  FusbSpec => []CommOnSourceLine
<1>1. FusbInv => CommOnSourceLine
  BY DEF FusbInv
<1> QED BY <1>1, Invariance, PTL

-----------------------------------------------------------------------------
(* The driver implements PdLink. *)

LinkPc == IF pc = "events" THEN "events" ELSE "poll"
LinkState == IF state = "usb_pd" THEN "up" ELSE "down"

LEMMA LinkStep ==
  ASSUME ConstantsAssumption, PacketsAssumption, FusbInv, [FusbNext]_fusbVars
  PROVE  [Link!LinkNext]_(Link!linkVars)
<1> DEFINE linkUnchanged ==
      UNCHANGED <<LinkPc, LinkState, protocol, events>>
<1>1. ASSUME linkUnchanged PROVE [Link!LinkNext]_(Link!linkVars)
  BY <1>1 DEF Link!linkVars, LinkPc, LinkState
<1>2. ASSUME EstablishRetryWait, pc = "poll", pc' = "events", UNCHANGED protocol
      PROVE  Link!Reset
  BY <1>2, ResetQueue DEF EstablishRetryWait, Link!Reset, Link!StateChanged, StateChanged
<1>3. ASSUME pc = "poll", pc' = "events", UNCHANGED <<protocol, events>>,
             (state = "usb_pd") = (state' = "usb_pd")
      PROVE  Link!Return
  BY <1>3 DEF Link!Return
<1>4. CASE PollHardReset \/ PollWaitExpired
  <2>1. Link!Reset
    BY <1>2, <1>4 DEF PollHardReset, PollWaitExpired, PollTimeout, Poll
  <2> QED BY <2>1 DEF Link!LinkNext
<1>5. CASE PollInterrupt
  <2>1. CASE pc' = "rx"
    BY <1>1, <1>5, <2>1 DEF PollInterrupt, Poll, LinkPc, LinkState
  <2>2. CASE pc' = "events"
    <3>1. Link!Return
      BY <1>3, <1>5, <2>2 DEF PollInterrupt, Poll
    <3> QED BY <3>1 DEF Link!LinkNext
  <2> QED BY <1>5, <2>1, <2>2 DEF PollInterrupt
<1>6. CASE PollMeasureExpired \/ PollRetryExpired \/ PollNothing
  <2>1. Link!Return
    BY <1>3, <1>6
       DEF PollMeasureExpired, PollRetryExpired, PollNothing, PollTimeout, Poll,
           CheckMeasurement, EstablishUsbPdWait, StartMeasurement, EstablishUsb20
  <2> QED BY <2>1 DEF Link!LinkNext
<1>7. CASE RxMessage
  <2> DEFINE p == Head(rx_fifo)
  <2>1. PICK h \in Headers :
          IF ~crc_chk \/ h.type = "good_crc"
          THEN UNCHANGED <<state, timeout, events, rx_message_index>>
          ELSE /\ state' = "usb_pd"
               /\ timeout' = IF state # "usb_pd" THEN "off" ELSE timeout
               /\ events' = AddItem(IF state # "usb_pd"
                                    THEN AddItem(events, StateChanged)
                                    ELSE events,
                                    MessageReceived(p, h))
               /\ rx_message_index' = NextIndex(rx_message_index)
    BY <1>7 DEF RxMessage
  <2>2. CASE UNCHANGED <<state, events>>
    BY <1>1, <1>7, <2>2 DEF RxMessage, LinkPc, LinkState
  <2>3. CASE /\ state' = "usb_pd"
             /\ events' = AddItem(IF state # "usb_pd"
                                  THEN AddItem(events, StateChanged)
                                  ELSE events,
                                  MessageReceived(p, h))
    <3>1. p \in Packets
      BY <1>7 DEF RxMessage, FusbInv, TypeOK
    <3>2. MessageReceived(p, h) \in MessageEvents
      BY <3>1, EventTypes DEF FusbInv
    <3>3. Link!Deliver(MessageReceived(p, h))
      BY <1>7, <2>3
         DEF RxMessage, Link!Deliver, Link!AddItem, AddItem, Link!StateChanged, StateChanged
    <3> QED BY <3>2, <3>3 DEF Link!LinkNext
  <2> QED BY <2>1, <2>2, <2>3
<1>8. CASE RxEmpty
  BY <1>8 DEF RxEmpty, driverVars, Link!LinkNext, Link!Return
<1>9. CASE ClientEvent
  <2>1. Link!Pop
    BY <1>9 DEF ClientEvent, PopEvent, UpdateProtocol, Link!Pop, Link!ProtocolOf,
       Link!IsMessage, IsMessage
  <2> QED BY <2>1 DEF Link!LinkNext
<1>10. CASE ClientDone
  <2>1. CASE pc' = "poll"
    <3>1. Link!Idle
      BY <1>10, <2>1 DEF ClientDone, Link!Idle
    <3> QED BY <3>1 DEF Link!LinkNext
  <2>2. CASE pc' = "events"
    BY <1>1, <1>10, <2>2 DEF ClientDone, LinkPc, LinkState
  <2> QED BY <1>10, <2>1, <2>2 DEF ClientDone
<1>11. CASE Environment \/ UNCHANGED fusbVars
  BY <1>1, <1>11
     DEF Environment, Elapse, ChipReceive, ChipHardReset, ChipActivity, ChipTransmit,
         ChipTransmitted, Chip,
         fusbVars, driverVars, LinkPc, LinkState
<1> QED BY <1>4, <1>5, <1>6, <1>7, <1>8, <1>9, <1>10, <1>11 DEF FusbNext, Driver, Client

(* The driver keeps the promises of PdLink: every change of the attachment *)
(* is reported once, in front of the messages it enables and behind none   *)
(* it invalidates, and only while the client polls.                        *)
THEOREM LinkImplemented ==
  ASSUME ConstantsAssumption, PacketsAssumption
  PROVE  FusbSpec => ImplementsLink
<1>1. FusbInit => Link!LinkInit
  BY DEF FusbInit, Link!LinkInit
<1>2. FusbInv /\ [FusbNext]_fusbVars => [Link!LinkNext]_(Link!linkVars)
  BY LinkStep
<1> QED BY <1>1, <1>2, Invariance, PTL DEF FusbSpec, ImplementsLink, Link!LinkSpec
=============================================================================
