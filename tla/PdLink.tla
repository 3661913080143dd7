------------------------------- MODULE PdLink -------------------------------
(***************************************************************************)
(* What struct fusb302 promises its client: an attachment that is up or    *)
(* down, and a bounded queue of events about it.                           *)
(*                                                                         *)
(*   - the client learns of every change of the attachment;                *)
(*   - messages arrive behind the news that the attachment is up, and none *)
(*     of them survives the news that it is down;                          *)
(*   - the driver acts only while the client is in poll().                 *)
(*                                                                         *)
(* How the attachment comes up, the chip and its FIFOs are hidden;         *)
(* Fusb302.tla implements this specification, PdSink.tla builds on it.     *)
(***************************************************************************)
EXTENDS Naturals, Sequences

CONSTANTS
  MessageEvents,  \* events of kind message_received
  QueueSize       \* N of queue<event, N>: 6 in the code

VARIABLES
  pc,        \* "poll": in fusb302::poll(); "events": back in the client
  link,      \* "up" while the driver's state is usb_pd, otherwise "down"
  protocol,  \* pd_sink::protocol_
  events     \* fusb302::events

linkVars == <<pc, link, protocol, events>>

StateChanged == [kind |-> "state_changed"]
IsMessage(e) == e.kind = "message_received"

(* queue::add_item drops the item when the queue is full. *)
AddItem(q, e) == IF Len(q) < QueueSize THEN Append(q, e) ELSE q

LinkInit ==
  /\ pc \in {"poll", "events"}
  /\ link = "down"
  /\ protocol = "usb_20"
  /\ events = <<>>

(* check_for_msg: the first message brings the attachment up. *)
Deliver(m) ==
  /\ pc = "poll"
  /\ link' = "up"
  /\ events' = AddItem(IF link = "down" THEN AddItem(events, StateChanged)
                                        ELSE events, m)
  /\ UNCHANGED <<pc, protocol>>

(* establish_retry_wait *)
Reset ==
  /\ pc = "poll"
  /\ link' = "down"
  /\ events' = <<StateChanged>>
  /\ pc' = "events"
  /\ UNCHANGED protocol

(* poll() returns. *)
Return ==
  /\ pc = "poll"
  /\ pc' = "events"
  /\ UNCHANGED <<link, protocol, events>>

(* pd_sink::poll pops one event; update_protocol follows the attachment. *)
ProtocolOf(l) == IF l = "up" THEN "usb_pd" ELSE "usb_20"

Pop ==
  /\ pc = "events" /\ events # <<>>
  /\ events' = Tail(events)
  /\ protocol' = IF IsMessage(Head(events)) THEN protocol ELSE ProtocolOf(link)
  /\ pc' = "poll"
  /\ UNCHANGED link

(* The queue is empty: the client does other things and polls again. *)
Idle ==
  /\ pc = "events" /\ events = <<>>
  /\ pc' = "poll"
  /\ UNCHANGED <<link, protocol, events>>

LinkNext == (\E m \in MessageEvents : Deliver(m)) \/ Reset \/ Return \/ Pop \/ Idle

LinkSpec == LinkInit /\ [][LinkNext]_linkVars
=============================================================================
