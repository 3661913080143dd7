------------------------------ MODULE Fusb302 ------------------------------
(***************************************************************************)
(* The FUSB302 driver (src/src/fusb302.cpp) together with the chip it      *)
(* drives and the least its client does with it.                           *)
(*                                                                         *)
(*   driver   struct fusb302: attach state, timeout, RX buffers, events    *)
(*   chip     the FUSB302B as the driver uses it: masks and interrupt      *)
(*            flags, CC switches, oscillator, RX and TX FIFO               *)
(*   client   pops one event per poll, follows the attach state, and may   *)
(*            send a message (what pd_sink does, PdSink.tla has the rest)  *)
(*                                                                         *)
(* The firmware is one thread.  pc says where it is: about to call poll(), *)
(* in the loop of check_for_msg(), or back in the client.  Chip and source *)
(* act between any two of its steps.  Time is abstracted to the question   *)
(* the code asks: has the pending timeout expired.                         *)
(***************************************************************************)
EXTENDS Integers, Sequences, FiniteSets

CONSTANTS
  Words,        \* 32 bit words: data objects and CRCs
  ZeroWord,     \* the content of zero-initialised memory
  Packets,      \* what the chip may put into its RX FIFO
  Headers,      \* headers the uninitialised local of check_for_msg may hold
  TxMessages,   \* messages the client may send
  QueueSize,    \* N of queue<event, N>: 6 in the code
  NumMessageIds,\* values of next_message_id: 8 in the code
  BufWords,     \* words of rx_message_buf: 64 in the code
  MaxRxFifo,    \* bound: packets waiting in the RX FIFO
  MaxTxFifo     \* bound: messages waiting in the TX FIFO

(* rx_message_buf is declared [64][num_message_buf]: a row, and so the     *)
(* distance of two payloads, is num_message_buf bytes, one word.           *)
num_message_buf == 4
RowStart(i) == (i * num_message_buf) \div 4

(* A packet fills RowStart .. RowStart + number of objects (objects + CRC). *)
PacketWords(p) == Append(p.objs, p.crc)

ASSUME ConstantsAssumption ==
  /\ QueueSize \in Nat \ {0}
  /\ NumMessageIds \in Nat \ {0, 1}
  /\ BufWords \in Nat
  /\ MaxRxFifo \in Nat \ {0}
  /\ MaxTxFifo \in Nat \ {0}
  /\ ZeroWord \in Words

ASSUME PacketsAssumption ==
  \A p \in Packets :
    /\ p.sop \in BOOLEAN
    /\ p.crc_ok \in BOOLEAN
    /\ p.header \in Headers
    /\ p.objs \in Seq(Words)
    /\ p.crc \in Words
    /\ RowStart(num_message_buf - 1) + Len(p.objs) < BufWords

VARIABLES
  pc,               \* "poll", "rx" or "events"
  protocol,         \* client: pd_sink::protocol_
  \* struct fusb302
  state, measuring_cc, timeout, events,
  rx_message_buf, rx_message_index, next_message_id,
  \* the chip
  source_cc,        \* the CC line with the source's pull-up, 0 if none
  int_enabled,      \* interrupts unmasked (MASK, MASKA, MASKB, CONTROL0)
  irq,              \* latched interrupt flags
  meas_cc, tx_cc,   \* lines selected by SWITCHES0 and SWITCHES1
  osc,              \* POWER: internal oscillator on
  rx_fifo, tx_fifo,
  sending,          \* a packet is on the wire: "no", "clear", or "behind" if
                    \* TXSENT of the one before was unread when it started
  crc_chk           \* STATUS0: the last packet received had a valid CRC

rxVars     == <<rx_message_buf, rx_message_index>>
driverVars == <<state, measuring_cc, timeout, events, rxVars, next_message_id>>
fifoVars   == <<osc, tx_fifo, next_message_id>>
switchVars == <<int_enabled, meas_cc, tx_cc>>
chipVars   == <<source_cc, int_enabled, irq, meas_cc, tx_cc, osc, rx_fifo, tx_fifo, sending,
                crc_chk>>
fusbVars   == <<pc, protocol, driverVars, chipVars>>

States == {"usb_20", "usb_pd_wait", "usb_pd", "usb_retry_wait"}
Lines  == {1, 2}
Flags  == {"hardrst", "txsent", "retryfail", "activity"}

(***************************************************************************)
(* Events.  objs is a history field: the data objects the message had when *)
(* it was read, which payload should still point to when it is consumed.   *)
(***************************************************************************)
StateChanged == [kind |-> "state_changed"]
ObjSeqs == {<<>>} \cup {p.objs : p \in Packets}
MessageEvents ==
  [kind : {"message_received"}, header : Headers,
   payload : 0 .. num_message_buf - 1, objs : ObjSeqs]
Events == {StateChanged} \cup MessageEvents
IsMessage(e) == e.kind = "message_received"

(* queue::add_item drops the item when the queue is full. *)
M_DropOldest(q, e) == IF Len(q) < QueueSize THEN Append(q, e) ELSE Append(Tail(q), e)
AddItem(q, e) == IF Len(q) < QueueSize THEN Append(q, e) ELSE q

TypeOK ==
  /\ pc \in {"poll", "rx", "events"}
  /\ protocol \in {"usb_20", "usb_pd"}
  /\ state \in States
  /\ measuring_cc \in 0 .. 2
  /\ timeout \in {"off", "running", "expired"}
  /\ events \in Seq(Events)
  /\ Len(events) <= QueueSize
  /\ rx_message_buf \in [0 .. BufWords - 1 -> Words]
  /\ rx_message_index \in 0 .. num_message_buf - 1
  /\ next_message_id \in 0 .. NumMessageIds - 1
  /\ source_cc \in 0 .. 2
  /\ int_enabled \in BOOLEAN
  /\ irq \in SUBSET Flags
  /\ meas_cc \in 0 .. 2
  /\ tx_cc \in 0 .. 2
  /\ osc \in BOOLEAN
  /\ rx_fifo \in Seq(Packets)
  /\ tx_fifo \in Seq([msg : TxMessages, id : 0 .. NumMessageIds - 1])
  /\ sending \in {"no", "clear", "behind"}
  /\ crc_chk \in BOOLEAN

-----------------------------------------------------------------------------
(* Initially: init() and start_sink() have been called by pd_sink::init(). *)
FusbInit ==
  /\ pc = "poll"
  /\ protocol = "usb_20"
  /\ state = "usb_20"
  /\ measuring_cc = 1
  /\ timeout = "running"
  /\ events = <<>>
  /\ rx_message_buf = [i \in 0 .. BufWords - 1 |-> ZeroWord]
  /\ rx_message_index = 0
  /\ next_message_id = 0
  /\ source_cc \in 0 .. 2
  /\ int_enabled = FALSE
  /\ irq = {}
  /\ meas_cc = 1
  /\ tx_cc = 0
  /\ osc = FALSE
  /\ rx_fifo = <<>>
  /\ tx_fifo = <<>>
  /\ sending = "no"
  /\ crc_chk = FALSE

-----------------------------------------------------------------------------
(* Operations of the driver; each one names what it assigns. *)

(* start_measurement: look at one CC line for 10ms. *)
M_MeasureStaleLine(cc) ==
  /\ meas_cc' = cc
  /\ timeout' = "running"
  /\ measuring_cc' = IF measuring_cc = 0 THEN cc ELSE measuring_cc
M_MeasureNoTimeout(cc) ==
  /\ meas_cc' = cc
  /\ timeout' = "off"
  /\ measuring_cc' = cc
StartMeasurement(cc) ==
  /\ meas_cc' = cc
  /\ timeout' = "running"
  /\ measuring_cc' = cc

(* queue::clear *)
M_ClearForgotten(q) == q
Cleared(q) == <<>>

(* establish_retry_wait: init() resets the chip, masks its interrupts and  *)
(* clears the queue; then wait 500ms.                                      *)
EstablishRetryWait ==
  /\ int_enabled' = FALSE
  /\ irq' = {}
  /\ meas_cc' = 0
  /\ tx_cc' = 0
  /\ osc' = FALSE
  /\ rx_fifo' = <<>>
  /\ tx_fifo' = <<>>
  /\ sending' = "no"
  /\ crc_chk' = FALSE
  /\ next_message_id' = 0
  /\ state' = "usb_retry_wait"
  /\ timeout' = "running"
  /\ events' = AddItem(Cleared(events), StateChanged)

(* establish_usb_20: start_sink() again.  It does not assign state_. *)
EstablishUsb20 ==
  /\ StartMeasurement(1)
  /\ UNCHANGED <<state, events, next_message_id, int_enabled, irq, tx_cc,
                 osc, rx_fifo, tx_fifo, sending, crc_chk>>

(* establish_usb_pd_wait: unmask the interrupts, set up BMC communication  *)
(* on the line that showed activity, wait 300ms for a message.             *)
EstablishUsbPdWait(cc) ==
  /\ int_enabled' = TRUE
  /\ meas_cc' = cc
  /\ tx_cc' = cc
  /\ state' = "usb_pd_wait"
  /\ timeout' = "running"

M_SameLine(cc) == cc
OtherLine(cc) == IF cc = 1 THEN 2 ELSE 1

(* check_measurement: BC_LVL is non-zero if the line measured is pulled up. *)
CheckMeasurement ==
  /\ IF source_cc # 0 /\ source_cc = meas_cc
     THEN /\ EstablishUsbPdWait(measuring_cc)
          /\ measuring_cc' = 0
     ELSE /\ StartMeasurement(OtherLine(measuring_cc))
          /\ UNCHANGED <<state, int_enabled, tx_cc>>
  /\ UNCHANGED <<events, next_message_id, irq, osc, rx_fifo, tx_fifo, sending, crc_chk>>

(* send_message: oscillator on, message with the next ID to the TX FIFO. *)
SendMessage(m) ==
  /\ osc' = TRUE
  /\ tx_fifo' = Append(tx_fifo, [msg |-> m, id |-> next_message_id])
  /\ next_message_id' = (next_message_id + 1) % NumMessageIds

-----------------------------------------------------------------------------
(* poll(): the interrupt line first, and only if it is idle the timeout. *)

IsInterruptAsserted == int_enabled /\ irq # {}

Poll ==
  /\ pc = "poll"
  /\ UNCHANGED <<protocol, rxVars, source_cc>>

(* check_for_interrupts, hard reset: everything else flagged is dropped. *)
PollHardReset ==
  /\ Poll
  /\ IsInterruptAsserted /\ "hardrst" \in irq
  /\ EstablishRetryWait
  /\ pc' = "events"
  /\ UNCHANGED measuring_cc

(* After a transmission the oscillator goes off if the TX FIFO is empty. *)
M_OscOffAlways(flags) == osc /\ "txsent" \notin flags
OscAfter(flags) == osc /\ ~("txsent" \in flags /\ tx_fifo = <<>>)

(* "activity" stands for I_ACTIVITY, I_CRC_CHK and I_GCRCSENT. *)
M_MessageOrTx(flags) == flags = {"activity"}
MayHaveMessage(flags) == "activity" \in flags

(* check_for_interrupts otherwise: reading the flags clears them. *)
PollInterrupt ==
  /\ Poll
  /\ IsInterruptAsserted /\ "hardrst" \notin irq
  /\ irq' = {}
  /\ osc' = OscAfter(irq)
  /\ pc' = IF MayHaveMessage(irq) THEN "rx" ELSE "events"
  /\ UNCHANGED <<state, measuring_cc, timeout, events, next_message_id,
                 switchVars, rx_fifo, tx_fifo, sending, crc_chk>>

PollTimeout(s) ==
  /\ Poll
  /\ ~IsInterruptAsserted
  /\ timeout = "expired"
  /\ state = s
  /\ pc' = "events"

PollWaitExpired    == /\ PollTimeout("usb_pd_wait")
                      /\ EstablishRetryWait
                      /\ UNCHANGED measuring_cc
PollMeasureExpired == PollTimeout("usb_20") /\ CheckMeasurement
PollRetryExpired   == PollTimeout("usb_retry_wait") /\ EstablishUsb20

PollNothing ==
  /\ Poll
  /\ ~IsInterruptAsserted
  /\ timeout # "expired"
  /\ pc' = "events"
  /\ UNCHANGED <<state, measuring_cc, timeout, events, next_message_id,
                 switchVars, irq, osc, rx_fifo, tx_fifo, sending, crc_chk>>

(* read_message copies objects and CRC to the current row; a packet that   *)
(* does not start with SOP is flushed with everything behind it, and the   *)
(* header stays what the stack held.                                       *)
ReadMessage(p, h) ==
  \/ /\ p.sop
     /\ h = p.header
     /\ LET first == RowStart(rx_message_index)
            words == PacketWords(p)
        IN  rx_message_buf' =
              [i \in 0 .. BufWords - 1 |->
                 IF i \in first .. first + Len(words) - 1
                 THEN words[i - first + 1] ELSE rx_message_buf[i]]
     /\ rx_fifo' = Tail(rx_fifo)
  \/ /\ ~p.sop
     /\ rx_fifo' = <<>>
     /\ UNCHANGED rx_message_buf

MessageReceived(p, h) ==
  [kind |-> "message_received", header |-> h, payload |-> rx_message_index,
   objs |-> IF p.sop THEN p.objs ELSE <<>>]

M_NextIndex(i) == IF i + 1 > num_message_buf THEN 0 ELSE i + 1
NextIndex(i) == IF i + 1 >= num_message_buf THEN 0 ELSE i + 1

(* check_for_msg, one round: CRC_CHK is that of the last packet received;  *)
(* GoodCRC packets are skipped; the first other one establishes USB PD.    *)
RxMessage ==
  /\ pc = "rx" /\ rx_fifo # <<>>
  /\ LET p == Head(rx_fifo)
     IN  \E h \in Headers :
           /\ ReadMessage(p, h)
           /\ IF ~crc_chk \/ h.type = "good_crc"
              THEN UNCHANGED <<state, timeout, events, rx_message_index>>
              ELSE /\ state' = "usb_pd"
                   /\ timeout' = IF state # "usb_pd" THEN "off" ELSE timeout
                   /\ events' = AddItem(IF state # "usb_pd"
                                        THEN AddItem(events, StateChanged)
                                        ELSE events,
                                        MessageReceived(p, h))
                   /\ rx_message_index' = NextIndex(rx_message_index)
  /\ UNCHANGED <<pc, protocol, measuring_cc, next_message_id, source_cc,
                 switchVars, irq, osc, tx_fifo, sending, crc_chk>>

(* check_for_msg, RX_EMPTY: the loop ends. *)
RxEmpty ==
  /\ pc = "rx" /\ rx_fifo = <<>>
  /\ pc' = "events"
  /\ UNCHANGED <<protocol, driverVars, chipVars>>

-----------------------------------------------------------------------------
(* The client: pops at most one event between two polls, takes over the    *)
(* attach state when told that it changed, and may send.                   *)

(* pd_sink::update_protocol *)
M_UpdateProtocolIfPd ==
  protocol' = IF state = "usb_20" THEN "usb_20" ELSE "usb_pd"
UpdateProtocol ==
  protocol' = IF state = "usb_pd" THEN "usb_pd" ELSE "usb_20"

PopEvent == events # <<>> /\ events' = Tail(events)

MaySend ==
  \/ UNCHANGED fifoVars
  \/ /\ Len(tx_fifo) < MaxTxFifo
     /\ \E m \in TxMessages : SendMessage(m)

ClientEvent ==
  /\ pc = "events"
  /\ PopEvent
  /\ IF IsMessage(Head(events)) THEN UNCHANGED protocol ELSE UpdateProtocol
  /\ MaySend
  /\ pc' = "poll"
  /\ UNCHANGED <<state, measuring_cc, timeout, rxVars, source_cc, switchVars,
                 irq, rx_fifo, sending, crc_chk>>

ClientDone ==
  /\ pc = "events"
  /\ events = <<>>
  /\ MaySend
  /\ pc' \in {"events", "poll"}
  /\ UNCHANGED <<protocol, state, measuring_cc, timeout, events, rxVars,
                 source_cc, switchVars, irq, rx_fifo, sending, crc_chk>>

-----------------------------------------------------------------------------
(* Time, chip and source. *)

Elapse ==
  /\ timeout = "running"
  /\ timeout' = "expired"
  /\ UNCHANGED <<pc, protocol, state, measuring_cc, events, rxVars,
                 next_message_id, chipVars>>

Raise(flags) == irq' = irq \cup flags

Chip ==
  /\ tx_cc # 0
  /\ UNCHANGED <<pc, protocol, driverVars, source_cc, switchVars, osc>>

(* A packet arrives; the chip acknowledges it on its own (AUTO_CRC). *)
ChipReceive(p) ==
  /\ Chip
  /\ Len(rx_fifo) < MaxRxFifo
  /\ rx_fifo' = Append(rx_fifo, p)
  /\ crc_chk' = p.crc_ok
  /\ Raise({"activity"})
  /\ UNCHANGED <<tx_fifo, sending>>

ChipHardReset ==
  /\ Chip
  /\ Raise({"hardrst"})
  /\ UNCHANGED <<rx_fifo, tx_fifo, sending, crc_chk>>

(* CC activity that brings no packet. *)
ChipActivity ==
  /\ Chip
  /\ Raise({"activity"})
  /\ UNCHANGED <<rx_fifo, tx_fifo, sending, crc_chk>>

(* The oldest message goes out if the oscillator runs; the FIFO may be     *)
(* empty before the packet is through.                                     *)
ChipTransmit ==
  /\ Chip
  /\ osc /\ tx_fifo # <<>> /\ sending = "no"
  /\ tx_fifo' = Tail(tx_fifo)
  /\ sending' = IF "txsent" \in irq THEN "behind" ELSE "clear"
  /\ UNCHANGED <<irq, rx_fifo, crc_chk>>

(* It is acknowledged, or given up after the automatic retries.  (What     *)
(* becomes of one that loses the oscillator is not known: either of them,  *)
(* or it never ends.)                                                      *)
ChipTransmitted(result) ==
  /\ Chip
  /\ sending # "no" /\ sending' = "no"
  /\ Raise({result})
  /\ UNCHANGED <<rx_fifo, tx_fifo, crc_chk>>

-----------------------------------------------------------------------------
Driver ==
  \/ PollHardReset \/ PollInterrupt \/ PollWaitExpired \/ PollMeasureExpired
  \/ PollRetryExpired \/ PollNothing \/ RxMessage \/ RxEmpty

Client == ClientEvent \/ ClientDone

Environment ==
  \/ Elapse
  \/ \E p \in Packets : ChipReceive(p)
  \/ ChipHardReset
  \/ ChipActivity
  \/ ChipTransmit
  \/ \E result \in {"txsent", "retryfail"} : ChipTransmitted(result)

FusbNext == Driver \/ Client \/ Environment

FusbSpec == FusbInit /\ [][FusbNext]_fusbVars

(* The main loop never stops (SysTick wakes it every millisecond), the     *)
(* client comes back to poll(), and time passes.                           *)
FusbFairness ==
  /\ WF_fusbVars(Driver)
  /\ WF_fusbVars(ClientEvent)
  /\ WF_fusbVars(ClientDone /\ pc' = "poll")
  /\ WF_fusbVars(Elapse)

FusbFairSpec == FusbSpec /\ FusbFairness

-----------------------------------------------------------------------------
(* What the driver promises its client (PdLink.tla). *)
Link == INSTANCE PdLink WITH
  pc   <- IF pc = "events" THEN "events" ELSE "poll",
  link <- IF state = "usb_pd" THEN "up" ELSE "down"

(* The driver implements the link its client relies on: every change of    *)
(* the attachment is reported, a message only behind that report, and      *)
(* nothing happens behind the back of a client that is not polling.        *)
ImplementsLink == Link!LinkSpec

-----------------------------------------------------------------------------
(* Properties *)

(* A message is only ever queued while USB PD is established: a reset      *)
(* clears the queue, so no message of the old connection (whose buffers    *)
(* and sender are gone) reaches the client after it (establish_retry_wait).*)
MessagesOnlyInPd ==
  (\E i \in DOMAIN events : IsMessage(events[i])) => state = "usb_pd"

(* The client's idea of the protocol may lag behind the driver's state,    *)
(* but only while a state_changed event is on its way: none is ever lost,  *)
(* not even when the queue overflows (establish_usb_pd, add_item).         *)
ProtocolTracksState ==
  \/ protocol = "usb_pd" <=> state = "usb_pd"
  \/ \E i \in DOMAIN events : events[i] = StateChanged

(* Without USB PD no interrupt may come, so the driver must never be left  *)
(* without a timeout to get it going (start_timeout in every establish).   *)
TimerArmed == state # "usb_pd" => timeout # "off"

(* A packet in the RX FIFO is being read, or an interrupt flag that makes  *)
(* the driver read it is set: a packet that arrives while flags are read   *)
(* or right after RX_EMPTY was seen is not forgotten (check_for_msg).      *)
RxNotForgotten ==
  rx_fifo # <<>> /\ pc # "rx" => int_enabled /\ "activity" \in irq

(* A message that waits for transmission or is on the wire has the         *)
(* oscillator it needs, though check_for_interrupts switches it off for    *)
(* the message before.  A packet that starts before TXSENT of the one      *)
(* before is read is not safe: TX_EMPTY is seen, but says nothing of it.   *)
OscillatorOn == tx_fifo # <<>> \/ sending = "clear" => osc

(* The chip communicates on the line the source pulls up: measuring_cc has *)
(* been kept in step with the line measured (check_measurement).           *)
CommOnSourceLine == tx_cc # 0 => tx_cc = source_cc

(* A source on either line is found: start_measurement alternates.         *)
SourceDetected == (state = "usb_20" /\ source_cc # 0) ~> (state # "usb_20")

(* "Wait period after a failure": a period ends (fusb302.h:29).            *)
RetryEnds == state = "usb_retry_wait" ~> state # "usb_retry_wait"

(* "Message payload (valid if event_kind = message_received ...)": the     *)
(* data objects of a queued message are still there (fusb302.h:48).        *)
PayloadIntact ==
  \A i \in DOMAIN events : IsMessage(events[i]) =>
    \A k \in DOMAIN events[i].objs :
      rx_message_buf[RowStart(events[i].payload) + k - 1] = events[i].objs[k]

-----------------------------------------------------------------------------
(* The inductive invariant behind the safety properties. *)

Attached == {"usb_pd_wait", "usb_pd"}

(* Communication and interrupts are enabled exactly while a source is      *)
(* attached; without them nothing is flagged, received or being read.      *)
EnabledWhenAttached ==
  /\ int_enabled <=> state \in Attached
  /\ tx_cc # 0 <=> state \in Attached
  /\ ~int_enabled => irq = {} /\ rx_fifo = <<>> /\ pc # "rx"

(* TXSENT of the packet on the wire is still to come. *)
NothingSentYet == sending = "clear" => "txsent" \notin irq

(* The line a measurement reads is the one measuring_cc names. *)
MeasuringInStep == state = "usb_20" => measuring_cc \in Lines /\ meas_cc = measuring_cc

(* Until a message establishes USB PD at most a state_changed is queued,   *)
(* and before the first reset nothing is: there is room for the next one.  *)
QueueBeforePd ==
  /\ state \in {"usb_20", "usb_pd_wait"} => events = <<>> /\ protocol = "usb_20"
  /\ state = "usb_retry_wait" =>
       events \in {<<>>, <<StateChanged>>} /\ (events = <<>> => protocol = "usb_20")
PdReported ==
  state = "usb_pd" /\ protocol # "usb_pd" =>
    \E i \in DOMAIN events : events[i] = StateChanged

FusbInv ==
  /\ TypeOK
  /\ EnabledWhenAttached
  /\ MeasuringInStep
  /\ QueueBeforePd
  /\ PdReported
  /\ TimerArmed
  /\ RxNotForgotten
  /\ NothingSentYet
  /\ OscillatorOn
  /\ CommOnSourceLine
=============================================================================
