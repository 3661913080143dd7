------------------------------ MODULE Zy12pdn ------------------------------
(***************************************************************************)
(* The firmware (src/src/main.cpp) on top of the sink (PdSink.tla) and the *)
(* link (PdLink.tla), with the button, a USB PD source and its user.       *)
(*                                                                         *)
(* The firmware is one thread: a loop of hal.poll(), power_sink.poll() and *)
(* a part of its own.  phase says which loop it is in (the 60ms at start,  *)
(* the two loops of the configuration mode, or the regular one), pc where  *)
(* in that loop.  A callback runs inside the step that handles its event.  *)
(*                                                                         *)
(* The source follows the protocol: it advertises, waits for a request,    *)
(* accepts it, rejects it or puts it off, switches and reports.  It may    *)
(* advertise again, what it did before or something else, and reset at any *)
(* time.  A request may get lost for good.                                 *)
(*                                                                         *)
(* Of the driver there is its state.  It hears of the source only while    *)
(* the chip is set up to communicate, and a reset is the end of that: no   *)
(* branch of fusb302::poll() leads out of usb_retry_wait (RetryEnds in     *)
(* Fusb302.tla fails).                                                     *)
(***************************************************************************)
EXTENDS PdSink

CONSTANTS
  Modes,       \* values of desired_mode: 0, 100, or a voltage in V
  Adverts,     \* sequences of power data objects a source may advertise
  MaxUnread,   \* bound: messages of the source not handled yet; it takes some
               \* milliseconds for one, the firmware comes round every millisecond
  MaxDisturb   \* bound: button presses, repeated adverts, resets, requests lost or put off

VARIABLES
  phase, desired_mode, in_config_mode, mode, selected_capability, led,
  button_down, button_pressed,   \* mcu_hal::is_button_down, button_has_been_pressed
  state,     \* fusb302::state_
  \* the source
  src,       \* "startup", "wait_request", "transition", "ready", "rejected"
  pdos,      \* the power data objects it advertises
  contract,  \* the request it fulfils
  granted,   \* the request it has accepted last
  rx,        \* messages in the chip's RX FIFO
  hardrst,   \* a hard reset the driver has not seen yet
  disturb,   \* disturbances so far
  overlap,   \* history: a request was sent before the last was answered
  crossed,   \* history: one was sent while an advert was unread
  unheard    \* history: the last request was lost or put off

voltages == <<0, 9, 12, 15, 20, 100>>
VoltageToMode(v) ==
  IF \E i \in DOMAIN voltages : voltages[i] = v
  THEN (CHOOSE i \in DOMAIN voltages : voltages[i] = v) - 1 ELSE 0

IsFixed(pdo) == pdo.supply_type = "fixed"
vSafe5V == [supply_type |-> "fixed", obj_pos |-> 0, voltage |-> 5000, current |-> 900]

(* The fields of an object have 10 bits, those of a programmable supply 8  *)
(* (voltages) and 7 (current).                                             *)
Field == 0 .. 1023
PowerDataObjects ==
  [supply_type : {"fixed", "battery", "variable", "pps", "apdo"},
   low : Field, high : Field, current : Field]
FieldsFit(pdo) ==
  pdo.supply_type = "pps" => pdo.low <= 255 /\ pdo.high <= 255 /\ pdo.current <= 127

(* USB PD: the first object is the fixed 5V supply; no supply goes down to *)
(* 0V.                                                                     *)
ASSUME AdvertsAssumption ==
  \A a \in Adverts :
    /\ a \in Seq(PowerDataObjects) /\ Len(a) \in 1 .. 7
    /\ IsFixed(a[1]) /\ a[1].low = 100
    /\ \A i \in DOMAIN a : FieldsFit(a[i]) /\ (a[i].supply_type # "apdo" => a[i].low > 0)
ASSUME ModesAssumption == \A d \in Modes : \E i \in DOMAIN voltages : voltages[i] = d
(* The queue is never full: add_item would drop an event.                  *)
ASSUME QueueAssumption == QueueSize \in Nat /\ MaxUnread \in 1 .. QueueSize - 1

configVars == <<desired_mode, in_config_mode, mode>>
buttonVars == <<button_down, button_pressed>>
appVars    == <<phase, configVars, selected_capability, led, buttonVars>>
srcVars    == <<src, pdos, contract, granted>>
history    == <<overlap, crossed, unheard>>
vars       == <<linkVars, state, sink, appVars, srcVars, rx, hardrst, disturb, history>>

Disturb == disturb < MaxDisturb /\ disturb' = disturb + 1

IsFixedMode == desired_mode \notin {0, 100}

(* The chip receives, acknowledges and interrupts. *)
Attached == state \in {"usb_pd_wait", "usb_pd"}

-----------------------------------------------------------------------------
(* LED *)
Led(color, flash) == [color |-> color, flash |-> flash]

(* update_led *)
ColorOf(v) ==
  CASE v = 5000  -> "red"   [] v = 9000  -> "yellow" [] v = 12000 -> "green"
    [] v = 15000 -> "cyan"  [] v = 20000 -> "blue"   [] OTHER     -> "red"
LedFor(s, p) ==
  Led(ColorOf(s.active_voltage),
      IF p = "usb_20" THEN 600
      ELSE IF IsFixedMode /\ s.active_voltage # 1000 * desired_mode THEN 1000
      ELSE IF s.active_voltage \in {5000, 9000, 12000, 15000, 20000} THEN 0 ELSE 200)

ModeColors == <<"red", "yellow", "green", "cyan", "blue", "purple">>

Init ==
  /\ pc = "hal" /\ link = "down" /\ protocol = "usb_20" /\ events = <<>>
  /\ state = "usb_20"
  /\ SinkInit
  /\ phase = "startup"
  /\ desired_mode \in Modes
  /\ in_config_mode = FALSE /\ mode = 0
  /\ selected_capability = 0
  /\ led = Led("blue", 600)
  /\ button_down = FALSE /\ button_pressed = FALSE
  /\ src = "startup"
  /\ pdos \in Adverts
  /\ contract = vSafe5V /\ granted = vSafe5V
  /\ rx = <<>> /\ hardrst = FALSE
  /\ disturb = 0 /\ overlap = FALSE /\ crossed = FALSE /\ unheard = FALSE

-----------------------------------------------------------------------------
(* Requests and replies under way *)

IsAdvert(m) == IsMessage(m) /\ m.type = "source_capabilities"
Unread == Range(rx) \cup Range(events)
AdvertUnread == \E m \in Unread : IsAdvert(m)

IsReply(m) == IsMessage(m) /\ m.type \in {"ps_ready", "reject", "wait"}
Unanswered ==
  \/ sink.tx # <<>>
  \/ src = "transition"
  \/ \E m \in Unread : IsReply(m)

(* The sink becomes s; the history notes a request sent too early. *)
SinkBecomes(s) ==
  LET sent == Len(s.tx) > Len(sink.tx)
  IN  /\ sink' = s
      /\ overlap' = (overlap \/ (sent /\ Unanswered))
      /\ crossed' = (crossed \/ (sent /\ AdvertUnread'))
      /\ unheard' = (unheard /\ ~sent)

-----------------------------------------------------------------------------
(* Callbacks *)

(* on_source_caps_changed: the voltage to request *)
M_DesiredAlways(s) == IF IsFixedMode THEN desired_mode * 1000 ELSE 5000
DesiredVoltage(s) ==
  LET offered == Range(s.source_caps)
  IN  CASE in_config_mode -> 5000
        [] ~in_config_mode /\ desired_mode = 0 -> s.source_caps[1].voltage
        [] ~in_config_mode /\ desired_mode = 100 ->
             Min({20000, Max({5000} \cup {cap.voltage : cap \in offered})})
        [] ~in_config_mode /\ IsFixedMode ->
             IF \E cap \in offered : InRange(cap, desired_mode * 1000)
             THEN desired_mode * 1000 ELSE 5000

OnSourceCapsChanged(s) == RequestPower(s, DesiredVoltage(s))

(* sink_callback; s is the sink, p the protocol at the time of the call. *)
M_LedWhenAccepted(event) == event = "power_accepted"
ShowsLed(event) == event # "none"

SinkCallback(event, s, p) ==
  /\ SinkBecomes(IF event = "source_caps_changed" THEN OnSourceCapsChanged(s) ELSE s)
  /\ selected_capability' =
       IF \/ event = "source_caps_changed" /\ ~in_config_mode /\ desired_mode = 0
          \/ event = "protocol_changed" /\ p = "usb_20"
       THEN 0 ELSE selected_capability
  /\ led' = IF ~in_config_mode /\ ShowsLed(event) THEN LedFor(s, p) ELSE led

-----------------------------------------------------------------------------
(* power_sink.poll() *)

Link == UNCHANGED <<phase, configVars, buttonVars, srcVars, disturb>>

(* A measurement has found the source: the chip is set up to communicate.  *)
LinkAttach ==
  /\ state = "usb_20" /\ Return
  /\ state' = "usb_pd_wait"
  /\ Link /\ UNCHANGED <<sink, selected_capability, led, rx, hardrst, history>>

(* The driver reads a message from the FIFO. *)
LinkDeliver ==
  /\ Attached /\ rx # <<>> /\ Deliver(Head(rx))
  /\ state' = "usb_pd"
  /\ rx' = Tail(rx)
  /\ Link /\ UNCHANGED <<sink, selected_capability, led, hardrst, history>>

(* The chip is reset: its FIFOs are emptied, its interrupts masked. *)
EstablishRetryWait ==
  /\ Reset
  /\ state' = "usb_retry_wait"
  /\ hardrst' = FALSE /\ rx' = <<>>
  /\ overlap' = FALSE /\ crossed' = FALSE /\ unheard' = FALSE
  /\ sink' = [sink EXCEPT !.tx = <<>>]
  /\ Link /\ UNCHANGED <<selected_capability, led>>

(* The driver sees the hard reset, ... *)
LinkReset == hardrst /\ EstablishRetryWait

(* ... or has waited for a message for 300ms. *)
LinkTimeout == state = "usb_pd_wait" /\ rx = <<>> /\ ~hardrst /\ EstablishRetryWait

(* Nothing is left unread when poll() returns. *)
LinkReturn ==
  /\ rx = <<>> /\ ~hardrst /\ Return
  /\ Link /\ UNCHANGED <<state, sink, selected_capability, led, rx, hardrst, history>>

(* One event is popped and handled, with its callback. *)
PopEvent ==
  /\ UNCHANGED <<state, rx, hardrst>> /\ Pop /\ Link
  /\ LET e == Head(events)
     IN  IF IsMessage(e)
         THEN SinkCallback(CallbackOf(e), HandleMsg(sink, e), protocol)
         ELSE SinkCallback(IF protocol' # protocol THEN "protocol_changed" ELSE "none",
                           UpdateProtocol(sink, link), protocol')

(* No event is left: a programmable supply may have to be asked again. *)
M_OneEventPerPoll == pc = "events"
NoEventLeft == pc = "events" /\ events = <<>>

SinkPollEnds ==
  /\ NoEventLeft
  /\ pc' = "tail"
  /\ Link
  /\ UNCHANGED <<link, protocol, events, state, selected_capability, led, rx, hardrst>>
  /\ SinkBecomes(KeepAlive(sink))

-----------------------------------------------------------------------------
(* The program's own loops *)

App == UNCHANGED <<link, protocol, events, state, srcVars, rx, hardrst, desired_mode>>

(* hal.poll() samples the button; a release counts as a press if it was    *)
(* held for more than 50ms.                                                *)
ButtonSampled ==
  \/ UNCHANGED <<buttonVars, disturb>>
  \/ ~button_down /\ Disturb /\ button_down' = TRUE /\ UNCHANGED button_pressed
  \/ \E held \in BOOLEAN :
       /\ button_down /\ button_down' = FALSE /\ UNCHANGED disturb
       /\ button_pressed' = (button_pressed \/ held)

(* The first step of every loop.  A button held at start leads to          *)
(* run_config_mode.                                                        *)
HalPoll ==
  /\ pc = "hal" /\ phase # "saved"
  /\ ButtonSampled
  /\ IF phase # "startup"
     THEN pc' = "poll" /\ UNCHANGED <<phase, in_config_mode, led>>
     ELSE /\ pc' = "hal"
          /\ IF button_down'
             THEN phase' = "release" /\ in_config_mode' = TRUE /\ led' = Led("cyan", 70)
             ELSE UNCHANGED <<phase, in_config_mode, led>>
  /\ App /\ UNCHANGED <<sink, mode, selected_capability, history>>

(* 60ms have passed. *)
StartupEnds ==
  /\ pc = "hal" /\ phase = "startup"
  /\ phase' = "loop"
  /\ led' = LedFor(sink, protocol)
  /\ App /\ UNCHANGED <<pc, sink, in_config_mode, mode, selected_capability, buttonVars,
                        disturb, history>>

AtTail(p) ==
  /\ pc = "tail" /\ phase = p
  /\ pc' = "hal"
  /\ App /\ UNCHANGED <<button_down, disturb>>

M_FlagKept == UNCHANGED in_config_mode
LeaveConfigMode == in_config_mode' = FALSE

(* run_config_mode, first loop: until the button is released; a press that *)
(* was too short leads back to the regular mode.                           *)
ConfigRelease ==
  /\ AtTail("release")
  /\ IF button_down THEN UNCHANGED <<phase, in_config_mode, mode, led, button_pressed>>
     ELSE IF ~button_pressed
     THEN /\ phase' = "startup" /\ LeaveConfigMode
          /\ UNCHANGED <<mode, led, button_pressed>>
     ELSE /\ phase' = "select" /\ button_pressed' = FALSE
          /\ mode' = VoltageToMode(desired_mode)
          /\ led' = Led(ModeColors[mode' + 1], 80)
          /\ UNCHANGED in_config_mode
  /\ UNCHANGED <<sink, selected_capability, history>>

(* run_config_mode, second loop: a press selects the next mode, a long one *)
(* (the button is still down) saves it and ends the program.               *)
ConfigSelect ==
  /\ AtTail("select")
  /\ \/ /\ button_pressed /\ button_pressed' = FALSE
        /\ mode' = (mode + 1) % 6
        /\ led' = Led(ModeColors[mode' + 1], 80)
        /\ UNCHANGED phase
     \/ /\ ~button_pressed /\ button_down
        /\ phase' = "saved" /\ led' = Led("off", 0)
        /\ UNCHANGED <<button_pressed, mode>>
     \/ /\ ~button_pressed
        /\ UNCHANGED <<phase, button_pressed, mode, led>>
  /\ UNCHANGED <<sink, in_config_mode, selected_capability, history>>

(* save_mode does not return. *)
Saved ==
  /\ phase = "saved"
  /\ UNCHANGED vars

(* switch_voltage: the next fixed supply, in a circle *)
NextFixed(caps) ==
  LET n    == Len(caps)
      At(k) == (selected_capability + k) % n
      steps == {k \in 1 .. n : caps[At(k) + 1].supply_type = "fixed"}
  IN  IF n = 0 THEN 0 ELSE At(Min(steps))

SwitchVoltage ==
  IF protocol # "usb_pd" THEN UNCHANGED <<sink, selected_capability, history>>
  ELSE LET next == NextFixed(sink.source_caps)
       IN  /\ selected_capability' = next
           /\ SinkBecomes(IF sink.source_caps = <<>> THEN sink
                          ELSE RequestPower(sink, sink.source_caps[next + 1].voltage))

(* The rest of loop() *)
LoopButton ==
  /\ AtTail("loop")
  /\ IF desired_mode = 0 /\ button_pressed
     THEN SwitchVoltage /\ button_pressed' = FALSE
     ELSE UNCHANGED <<sink, selected_capability, history, button_pressed>>
  /\ UNCHANGED <<phase, in_config_mode, mode, led>>

(* Eight seconds have passed since the last request to a programmable      *)
(* supply.                                                                 *)
PpsDue ==
  /\ sink.selected_pps_index # 0 /\ ~sink.pps_due
  /\ sink' = [sink EXCEPT !.pps_due = TRUE]
  /\ UNCHANGED <<linkVars, state, appVars, srcVars, rx, hardrst, disturb, history>>

-----------------------------------------------------------------------------
(* The source *)

Source == UNCHANGED <<linkVars, state, appVars, overlap>>

(* Nobody acknowledges a message while the chip is not set up. *)
Speaks(m) ==
  /\ Attached
  /\ Len(rx) + Len(events) < MaxUnread
  /\ rx' = Append(rx, m)

(* Advertise; the source does not talk across a message of the sink. *)
SendCapabilities(objects) ==
  /\ ~hardrst /\ rx = <<>> /\ sink.tx = <<>>
  /\ src' = "wait_request"
  /\ pdos' = objects /\ Speaks(Message("source_capabilities", objects))
  /\ Source /\ UNCHANGED <<sink, contract, granted, hardrst, crossed, unheard>>

Advertise == src = "startup" /\ SendCapabilities(pdos) /\ UNCHANGED disturb
AdvertiseAgain ==
  src \in {"ready", "rejected"} /\ (\E a \in Adverts : SendCapabilities(a)) /\ Disturb

(* What a source may grant: the object named offers voltage and current. *)
Offers(r) ==
  /\ r.obj_pos \in DOMAIN pdos
  /\ LET cap == Capability(pdos[r.obj_pos], r.obj_pos)
     IN  /\ cap.supply_type = r.supply_type
         /\ InRange(cap, r.voltage) /\ r.current <= cap.max_current

(* What a source makes of a request: it looks at its own object at that    *)
(* position; the fields of a request meant for another type are anything.  *)
Meanings(r) ==
  IF r.obj_pos \notin DOMAIN pdos THEN {r}
  ELSE LET cap     == Capability(pdos[r.obj_pos], r.obj_pos)
           At(v,c) == [supply_type |-> cap.supply_type, obj_pos |-> r.obj_pos,
                       voltage |-> v, current |-> c]
       IN  IF cap.supply_type # r.supply_type
           THEN {At(cap.min_voltage, cap.max_current), At(cap.voltage, cap.max_current)}
           ELSE {At(IF cap.supply_type = "fixed" THEN cap.voltage ELSE r.voltage, r.current)}

Reply(type) == Speaks(Message(type, <<>>))

TakesRequest(r) ==
  /\ src \in {"wait_request", "ready", "rejected"} /\ ~hardrst
  /\ sink.tx # <<>> /\ r = Head(sink.tx)
  /\ sink' = [sink EXCEPT !.tx = Tail(@)]
  /\ Source /\ UNCHANGED <<pdos, contract, hardrst, crossed>>

Requests == Range(sink.tx)
Honours(r) == contract.obj_pos = 0 \/ Offers(r)

Accept ==
  \E r \in Requests : \E g \in Meanings(r) :
    /\ TakesRequest(r) /\ Offers(g)
    /\ granted' = g /\ src' = "transition"
    /\ Reply("accept")
    /\ UNCHANGED <<disturb, unheard>>

(* A source does not refuse what it already supplies, nor when it can no   *)
(* longer supply that.                                                     *)
Refuses(r) == TakesRequest(r) /\ contract \notin Meanings(r) /\ Honours(contract)
              /\ src' = "rejected" /\ UNCHANGED granted

Reject ==
  \E r \in Requests : Refuses(r) /\ Reply("reject") /\ UNCHANGED <<disturb, unheard>>

(* Wait: handle_msg ignores it. *)
PutOff ==
  \E r \in Requests : Refuses(r) /\ Reply("wait") /\ Disturb /\ unheard' = TRUE

(* No GoodCRC after three retries: the driver gives up and tells nobody. *)
LoseRequest ==
  /\ sink.tx # <<>> /\ ~hardrst /\ Disturb
  /\ sink' = [sink EXCEPT !.tx = Tail(@)]
  /\ unheard' = TRUE
  /\ Source /\ UNCHANGED <<srcVars, rx, hardrst, crossed>>

Switched ==
  /\ src = "transition" /\ ~hardrst
  /\ src' = "ready" /\ contract' = granted
  /\ Reply("ps_ready")
  /\ Source /\ UNCHANGED <<sink, pdos, granted, hardrst, disturb, crossed, unheard>>

(* A hard reset: back to 5V, maybe new capabilities.  (One that the chip    *)
(* does not hear changes nothing: 5V is all there is then.)                *)
Resets ==
  /\ Attached /\ ~hardrst /\ hardrst' = TRUE
  /\ src' = "startup" /\ contract' = vSafe5V /\ granted' = vSafe5V
  /\ pdos' \in Adverts
  /\ Source /\ UNCHANGED <<sink, rx, crossed, unheard>>

HardReset == Resets /\ Disturb

(* The source waits in vain for a request, or gets one it can neither      *)
(* grant nor refuse.                                                       *)
GiveUp ==
  /\ src = "wait_request"
  /\ \/ unheard /\ sink.tx = <<>> /\ ~AdvertUnread
     \/ sink.tx # <<>> /\ ~Honours(contract) /\ \A g \in Meanings(Head(sink.tx)) : ~Offers(g)
  /\ Resets /\ UNCHANGED disturb

-----------------------------------------------------------------------------
Firmware ==
  \/ LinkAttach \/ LinkDeliver \/ LinkReset \/ LinkTimeout \/ LinkReturn
  \/ PopEvent \/ SinkPollEnds
  \/ HalPoll \/ ConfigRelease \/ ConfigSelect \/ LoopButton

Next ==
  \/ Firmware \/ StartupEnds \/ Saved \/ PpsDue
  \/ Advertise \/ AdvertiseAgain \/ Accept \/ Reject \/ PutOff \/ LoseRequest \/ Switched
  \/ HardReset \/ GiveUp

Spec == Init /\ [][Next]_vars

(* The firmware never stops (SysTick wakes it every millisecond): its      *)
(* loops come round, so pc goes on.  (This is what weak fairness of        *)
(* Firmware amounts to, in a form that TLC evaluates quickly: pc is the    *)
(* firmware's alone, and outside the start-up and the end every one of its *)
(* values has a step that leads on once the few messages unread are.)      *)
LoopGoesOn ==
  /\ phase \notin {"startup", "saved"}
  /\ pc' \in {"hal", "poll", "events", "tail"} /\ pc' # pc

(* Its 60ms at start pass, a source is found in some poll (SourceDetected  *)
(* in Fusb302.tla), and goes on with what it has begun.                    *)
Fairness ==
  /\ WF_pc(LoopGoesOn) /\ WF_vars(StartupEnds) /\ SF_vars(LinkAttach)
  /\ WF_vars(Advertise \/ Accept \/ Reject \/ Switched \/ GiveUp)

FairSpec == Spec /\ Fairness

-----------------------------------------------------------------------------
(* Properties *)

(* The types, and that in_config_mode says in which loop the program is.   *)
SystemTypeOK ==
  /\ pc \in {"hal", "poll", "events", "tail"}
  /\ link \in {"up", "down"} /\ protocol \in {"usb_20", "usb_pd"}
  /\ state \in {"usb_20", "usb_pd_wait", "usb_pd", "usb_retry_wait"}
  /\ Len(events) <= QueueSize
  /\ phase \in {"startup", "release", "select", "loop", "saved"}
  /\ in_config_mode <=> phase \in {"release", "select", "saved"}
  /\ desired_mode \in Modes /\ mode \in 0 .. 5
  /\ {in_config_mode, button_down, button_pressed, hardrst, overlap, crossed, unheard} \subseteq BOOLEAN
  /\ src \in {"startup", "wait_request", "transition", "ready", "rejected"}
  /\ sink.selected_pps_index \in 0 .. 7
  /\ selected_capability \in 0 .. 6

Quiet == events = <<>> /\ rx = <<>> /\ sink.tx = <<>> /\ ~hardrst
         /\ src \in {"ready", "rejected"}
Agreed == /\ sink.active_voltage = contract.voltage
          /\ sink.active_max_current = contract.current
          /\ sink.requested_voltage = 0 \/ unheard

(* "Active voltage (in mV)" (pd_sink.h:157): when nothing is under way the *)
(* sink's idea of voltage and current is the contract the source fulfils,  *)
(* through rejections, repeated adverts, keep-alives and lost requests, as *)
(* long as no request overtook the answer to another one.                  *)
ContractAgreed == Quiet /\ ~overlap => Agreed

(* The same whatever the order of the requests: what the header says.      *)
AlwaysAgreed == Quiet /\ ~unheard => Agreed

(* A programmable supply must be asked again and again or it resets: then  *)
(* the sink knows which capability it is, no old request is pending that   *)
(* would hold the keep-alive back, and the request would be sent.          *)
KeepAliveReady ==
  Quiet /\ ~overlap /\ ~unheard /\ src = "ready" /\ contract.supply_type = "pps" =>
    /\ sink.requested_voltage = 0
    /\ CanRequest(sink, sink.selected_pps_index, sink.active_voltage, sink.active_max_current)

(* "While in configuration mode, the output voltage remains at 5V", a      *)
(* configured voltage or else 5V (README.md:49, 26), and no more than 20V  *)
(* in mode 100: no order of button presses, resets and messages makes the  *)
(* source supply anything else.                                            *)
OutputAllowed == ~crossed =>
  /\ in_config_mode => contract.voltage = 5000
  /\ IsFixedMode => contract.voltage \in {5000, desired_mode * 1000}
  /\ desired_mode = 100 => contract.voltage <= 20000

(* A request that reaches the source is one that its present objects       *)
(* offer: object position, rounded voltage and current fit, also when it   *)
(* has changed them since the request before.                              *)
RequestHonourable ==
  ~hardrst /\ ~crossed => \A r \in Requests : Offers(r)

(* "If one of the capabilities is not requested in time, the power supply  *)
(* will reset" (main.cpp:148): a source that waits for a request gets one; *)
(* either its advert is still to be handled or a request is under way.     *)
CapsAnswered ==
  src = "wait_request" /\ ~hardrst =>
    sink.tx # <<>> \/ AdvertUnread \/ unheard

(* The LED shows the active voltage, and that it is not the desired one,   *)
(* in the regular loop: every change of it has led to a callback.          *)
LedTruthful == phase = "loop" => led = LedFor(sink, protocol)

OffersDesired ==
  \E i \in DOMAIN pdos : IsFixed(pdos[i]) /\ Capability(pdos[i], i).voltage = desired_mode * 1000
Supplied == contract.voltage = desired_mode * 1000 \/ src = "rejected"

(* The driver has been reset, by a hard reset or because it heard nothing  *)
(* for 300ms; the board stays at 5V until it is replugged.                 *)
GivenUp == state = "usb_retry_wait"

(* "The board supplies a configured voltage" (README.md:26): a source that *)
(* offers it and starts to advertise while the board is in its regular     *)
(* loop ends up supplying it, has refused to, or changes its offer; only a *)
(* reset of the driver gets in the way, and that is the end of it.         *)
FixedVoltageSupplied ==
  phase = "loop" /\ src = "startup" /\ IsFixedMode /\ OffersDesired
    ~> Supplied \/ ~OffersDesired \/ GivenUp

(* The same whatever the start was like: outside the configuration mode a  *)
(* board in fixed voltage mode always gets to its voltage.                 *)
FixedModeSettles ==
  []<>(IsFixedMode /\ OffersDesired /\ ~in_config_mode /\ ~GivenUp => Supplied)

(* The program uses the link as PdLink says a client does.                 *)
UsesLink == INSTANCE PdLink WITH
  pc <- IF pc = "poll" THEN "poll" ELSE "events",
  MessageEvents <- {Message(type, objs) :
                      type \in {"source_capabilities", "accept", "reject", "wait", "ps_ready"},
                      objs \in Adverts \cup {<<>>}}
LinkUsed == UsesLink!LinkSpec

-----------------------------------------------------------------------------
(* What SystemTypeOK, OutputAllowed, RequestHonourable, LedTruthful and    *)
(* LinkUsed need to be inductive *)

SourceMessages ==
  {Message("source_capabilities", a) : a \in Adverts}
  \cup {Message(type, <<>>) : type \in {"accept", "reject", "wait", "ps_ready"}}

Asked == [supply_type : {"fixed", "pps"}, obj_pos : 1 .. 7, voltage : Nat, current : Nat]

SinkRecords ==
  [ source_caps : {<<>>} \cup {SourceCaps(a) : a \in Adverts},
    requested_voltage : Nat, requested_max_current : Nat,
    active_voltage : Nat, active_max_current : Nat,
    selected_pps_index : 0 .. 7, pps_due : BOOLEAN, tx : Seq(Asked) ]

(* The sink's fields and what is under way between sink and source; the    *)
(* event queue is never full.                                              *)
WireTypes ==
  /\ sink \in SinkRecords
  /\ pdos \in Adverts
  /\ rx \in Seq(SourceMessages) /\ events \in Seq(SourceMessages \cup {StateChanged})
  /\ Len(rx) + Len(events) <= IF link = "up" THEN MaxUnread + 1 ELSE MaxUnread

(* A report of the attachment is first in the queue; a sink whose link is  *)
(* down has no messages; without a report the sink knows how the link is.  *)
LinkInStep ==
  /\ pc \in {"hal", "tail"} => events = <<>>
  /\ phase \in {"startup", "saved"} => pc = "hal"
  /\ \A i \in DOMAIN events : events[i] = StateChanged => i = 1
  /\ link = "down" => events = <<>> \/ (events = <<StateChanged>> /\ pc = "events")
  /\ events = <<>> \/ events[1] # StateChanged => protocol = ProtocolOf(link)
  /\ protocol = "usb_20" => sink.active_voltage = 5000

(* The voltages that OutputAllowed lets pass, before they are supplied:    *)
(* whatever is active, requested or on its way is one of them.             *)
Allowed(v) ==
  /\ phase # "loop" => v = 5000
  /\ IsFixedMode => v \in {5000, desired_mode * 1000}
  /\ desired_mode = 100 => v <= 20000

VoltagesAllowed ==
  /\ sink.active_voltage = 0 \/ Allowed(sink.active_voltage)
  /\ sink.requested_voltage = 0 \/ Allowed(sink.requested_voltage)
  /\ \A r \in Requests : Allowed(r.voltage)
  /\ ~crossed => Allowed(contract.voltage) /\ Allowed(granted.voltage)
  /\ hardrst => contract = vSafe5V /\ granted = vSafe5V

(* The sink has no other capabilities than the source's, unless it is      *)
(* about to learn of an advert or of a reset.                              *)
CapsCurrent ==
  ~hardrst /\ ~crossed =>
    /\ \/ sink.source_caps \in {<<>>, SourceCaps(pdos)}
       \/ AdvertUnread
       \/ link = "down" /\ events = <<StateChanged>>
    /\ AdvertUnread => src = "wait_request" /\ sink.tx = <<>>
    /\ \A m \in Unread : IsAdvert(m) => m.objs = pdos
    /\ \A r \in Requests : Offers(r)

(* The driver's state, and what it says of the rest: the chip hears        *)
(* nothing unless it is set up, and nothing has happened before it was.    *)
AttachmentKnown ==
  /\ link = "up" <=> state = "usb_pd"
  /\ ~Attached => rx = <<>> /\ ~hardrst
  /\ state \in {"usb_20", "usb_pd_wait"} =>
       /\ protocol = "usb_20" /\ events = <<>> /\ SinkInit
       /\ contract = vSafe5V /\ granted = vSafe5V
       /\ src \in {"startup", "wait_request"}
       /\ src = "wait_request" => rx # <<>>

SystemInv ==
  /\ SystemTypeOK /\ WireTypes /\ LinkInStep
  /\ VoltagesAllowed /\ CapsCurrent /\ LedTruthful
=============================================================================
