# ZY12PDN firmware in TLA+

A verification development for the open-source firmware of the ZY12PDN USB Power
Delivery trigger board (`src/`). The modules model the firmware's logic, TLC checks
them on small instances, and TLAPS proves what matters most for all of them. Every
definition is a translation of the code; `PROJECT.json` names the lines for each
(`map`), the runs, the findings, the hazards, and for every checked property a
plausible bug that breaks it (`mutants`).

    tlc -config MCFusb302.cfg MCFusb302.tla      # likewise for the other .cfg files
    tlapm Fusb302Proofs.tla

## The system

One thread runs on an STM32F030: `main()` initialises, waits 60 ms for a button press,
then loops over `loop()` and a sleep until the next interrupt (SysTick comes every
millisecond). Interrupt handlers do nothing but count milliseconds, wake the processor
and, in debug builds, feed the UART. What makes the system hard is not threads but the
FUSB302B chip, the USB PD source, the user and the power supply, each of which acts
between any two steps of the program.

| Component | State | Operations | Interacts with |
| --- | --- | --- | --- |
| FUSB302 driver, `fusb302.cpp/.h` | attachment state, timeout, CC line measured, receive buffers, event queue, message ID | `init`, `start_sink`, `poll`, `send_message`, `pop_event` | chip registers over I2C, INT_N pin; PD sink calls it |
| PD sink, `pd_sink.cpp/.h` | protocol, capabilities, requested and active contract, keep-alive | `init`, `poll`, `request_power` | pops the driver's events, sends requests, calls back into the program |
| Main program, `main.cpp` | desired mode, configuration mode, selected capability | `loop`, `sink_callback`, `run_config_mode`, `save_mode` | all others |
| EEPROM emulation, `eeprom.cpp/.h` | two flash pages | `init`, `read`, `write` | flash; main program at start and in `save_mode` |
| HAL, `hal.cpp/.h` | millisecond counter, LED, debounced button | `poll`, `set_led`, `delay`, `has_expired` | everything |
| Queue, `queue.h` | ring buffer | `add_item`, `pop_item`, `clear` | driver's events |
| Codec, `usb_pd.h` | none | header fields | driver, sink |
| I2C, `i2c_bit_bang.cpp/.h` | bus started or not | `read_data`, `write_data` | HAL |
| Debug UART, `pd_debug.cpp/.h` | ring buffer, DMA transfer | `debug_log`, transfer complete interrupt | everything, with `PD_DEBUG` |

What makes each one correct:

- *Driver*: nothing received, reported or waiting to be sent gets lost; the client learns
  of every change of the attachment, and no message of an old connection reaches it; the
  driver never gets stuck; it communicates on the right line.
- *PD sink*: its idea of the contract is the source's; a request is one the source can
  grant; a programmable supply is asked again in time.
- *Main program*: the output voltage is one the mode allows, and the configured one is
  reached; every advert is answered; the LED tells the truth.
- *EEPROM*: a completed write survives everything; whatever a power failure cuts off, the
  pages get back in order.
- *Queue, UART*: first in, first out with an interrupt in between.
- *HAL, I2C, codec*: time arithmetic across the wrap; transactions that fail half-way;
  fields that do not overlap.

The hazards this leads to are listed, with lines, in `PROJECT.json`.

## Modules

    PdLink   <-- implements --  Fusb302  <-- EXTENDS --  Fusb302Proofs, MCFusb302
      ^ EXTENDS
    PdSink   <-- EXTENDS -- Zy12pdn  <-- EXTENDS --  Zy12pdnProofs, MCZy12pdn
    NvStore  <-- implements --  Eeprom  <-- EXTENDS --  EepromProofs
    BoundedFifo  <-- implements --  SpscQueue  <-- EXTENDS --  SpscQueueProofs
    ByteStream   <-- implements --  UartTx     <-- EXTENDS --  UartProofs
    RegisterAccess  <-- implements --  I2cBus  <-- EXTENDS --  I2cProofs
    Clock  <-- EXTENDS --  Hal, Timing  <-- EXTENDS --  TimingProofs
    SpscQueue, UartTx, Timing, Hal, I2cBus  <-- EXTENDS --  MCBoard
    NatLemmas  <-- EXTENDS --  Zy12pdnProofs, EepromProofs, I2cProofs

**PdLink** is the contract between the driver and its client: an attachment that is up
or down and a bounded queue of events. The proofs and the runs meet here: `Fusb302`
implements it (`ImplementsLink`, proved), `PdSink` and `Zy12pdn` are built on its
actions, and `Zy12pdn` is shown to use it as it allows (`LinkUsed`). The whole system
can thus be checked without the chip.

**Fusb302** is the driver with the chip. `state`, `measuring_cc`, `events`,
`rx_message_buf`, `rx_message_index` and `next_message_id` are the fields of
`struct fusb302`; `timeout` (off, running, expired) stands for `is_timeout_active` and
`timeout_expiration`. Of the chip there are the CC switches, masks and interrupt flags,
oscillator, FIFOs and `CRC_CHK`. `pc` is where the thread is: about to `poll()`
(`Poll...` actions, one per branch), in the loop of `check_for_msg()` (`RxMessage`,
`RxEmpty`), or back in the client (`ClientEvent`, `ClientDone`). Chip, source and time
are actions of their own and come between any two of these steps. A packet on the wire
(`sending`) has left the TX FIFO (`ChipTransmit`) and is not yet acknowledged or given up
(`ChipTransmitted`). The uninitialised
header of a packet without SOP is any header. The client is the least one: it pops an
event per poll, follows the attachment and may send.

**PdSink** is `struct pd_sink`, a record `sink` and one operator per function, each from
the record before to the record after. Indices start at 1, 0 is the code's -1.
`sink.tx` is what was handed to `send_message` and not yet taken by the source.

**Zy12pdn** is the program. `phase` says in which loop it is: the start-up, the two
loops of `run_config_mode` (`release`, `select`), `saved`, or the regular `loop`; `pc`
says where in the loop. One `PopEvent` handles one event with the callback it causes, as
the code does in one call. `state` is the driver's, with its timeout and CC lines left
out: a poll finds the source and sets the chip up (`LinkAttach`), the first message brings
the link up (`LinkDeliver`), and a hard reset (`LinkReset`) or 300 ms without a message
(`LinkTimeout`) ends in `usb_retry_wait`, for good, as finding 1 says. Only while the chip
is set up (`Attached`) does it hear the source. The USB PD source advertises, accepts, rejects or puts off
(`PutOff`, a Wait message), switches and reports, advertises again, the same or something
else, and makes hard resets after which it may offer something else. It reads a request
by its own object at the position named (`Meanings`), which matters when an advert and a
request cross. A request may get lost for good (`LoseRequest`): after three retries the
driver only logs it. A source that waits in vain resets (`GiveUp`). `desired_mode` is any
configured mode. Three history variables say what has gone wrong since the last reset:
`overlap` (a request was sent while an earlier one was unanswered), `crossed` (one was
sent while an advert was unread) and `unheard` (the last one was lost or put off).
Properties that fail in such a case name it; each of these conditions is needed, TLC
finds a counterexample without it.

**NvStore** is what the EEPROM emulation comes down to: a map that survives power
cycles, where a write changes its key only and a power failure costs the value of one key
at most. Nothing else loses a value: `init()` after a failure (`PowerUp` and what follows)
changes nothing. **Eeprom** implements it step by step: `page` is the flash, `todo` the
flash steps the running `init()` or `write()` has left, in the order of the statements.
`Crash` may come before any of them, and before `init()` itself. The refinement mapping
(`Effective`) is what `read()` would give if `init()` ran now; a power failure between a
key and its value is where a key loses its value.

**SpscQueue** is the ring of `queue.h` with one reader and one writer, each of which may
interrupt the other between any two accesses of `buf_head`, `buf_tail` and `buffer`, as
the header promises to allow (the program itself uses the queue from one thread).
`w_pc`, `w_head`, `w_item` are the locals of `add_item`; `r_pc`, `r_tail`, `r_head`
those of `pop_item` and `num_items`; `known` is a history variable, what the reader may
rely on after `num_items`. **BoundedFifo** is what a caller sees: calls that take effect
at one instant. They do so at the store to `buf_head` (add), at the store to `buf_tail`
(pop), and at the comparison that finds the ring full or empty.

**UartTx** is the debug output: the program fills a ring, DMA empties it, and the
transfer complete interrupt may come between any two accesses of the program to shared
variables, also between two bytes of its `memcpy`. `t_pc`, `t_data`, `t_size`, `t_copied`
are the locals of `uart_transmit`, `dma_...` the DMA channel. **ByteStream** is what it
promises: bytes leave in order, once, and a message is cut short only if the buffer is
full. The bytes waiting are those between what the DMA has sent and the head (`Waiting`).

**Clock** is the millisecond counter, of any width, with the unsigned and signed
arithmetic done on it; a signed difference that overflows is undefined, so `HasExpired`
is the set of what compilers make of it. **Timing** holds every duration the firmware
measures (the driver's timeout, the keep-alive of a programmable supply, `delay`, the
start-up) against a count of the milliseconds that really pass (`left`). **Hal** is the
LED with its patterns and the button with its debouncing, and SysTick between any two
reads of the counter.

**I2cBus** is the I2C master pin by pin: a piece (start condition, byte, stop condition)
is a sequence of pin operations, and what the code decides after it is an action of its
own. The device follows the bus as the I2C specification says and may refuse any byte.
**RegisterAccess** is what a call of `pd_ctrl_read` or `pd_ctrl_write` comes down to, and
what `Fusb302` builds on (there no access is refused): bytes in order, each once, and an
answer that tells the truth.

**MCBoard** puts the components that share nothing into one run; `part` says which of
them is running, and the others stand still.

Operators whose names begin with `M_` are the mutants; nothing refers to them.

## Runs

| Run | Distinct states | What it shows |
| --- | --- | --- |
| `fusb302` | 677,436 | the driver against every order of chip, source and client steps |
| `fusb302_retry` | finding | the wait after a reset never ends |
| `fusb302_payload` | finding | payloads of queued messages are overwritten |
| `system` | 258,432 | program, button and source together |
| `system_overlap` | finding | active voltage after overlapping requests |
| `system_short_press` | finding | a short press at start leaves 5V |
| `system_variable` | finding | a variable supply that matches is never requested |
| `eeprom` | 851,178 | writes, transfers and repairs, cut off anywhere |
| `eeprom_torn` | finding | a write cut off between key and value |
| `eeprom_repair` | finding | a repair cut off |
| `board` | 759,560 | queue, debug output, timeouts, LED and button, I2C |
| `timing_overflow` | finding | a timeout across the middle of the counter's range |

`fusb302`: `MessagesOnlyInPd` (a reset clears the queue), `ProtocolTracksState` (no
report is lost when the queue overflows), `TimerArmed`, `RxNotForgotten` (packets arriving
while flags are read), `OscillatorOn` (the race of a finished transmission with the next
message, waiting or on the wire), `CommOnSourceLine`, `SourceDetected` (liveness), `ImplementsLink` (refinement).

`system`: `ContractAgreed`, `KeepAliveReady`, `OutputAllowed`, `RequestHonourable`,
`CapsAnswered`, `LedTruthful`, `FixedVoltageSupplied` (liveness: the configured voltage is
reached unless the source refuses it, changes its offer, or the driver is reset, which is
the end of it), `LinkUsed` (refinement).

`eeprom`: `KnownGoodState`, `ImplementsStore` (refinement), `Settles` (liveness).

`board`, queue: `SlotNotShared` (the slot `pop_item` has given free before reading it is
not written), `CountReliable`, `ImplementsFifo` (refinement). Debug output: `OneTransfer`
(program and interrupt neither both start a transfer nor leave it to each other),
`ImplementsStream` (refinement), `RingDrains` (liveness). Time: `UnsignedExact`,
`SignedExact`, `LedKeepsTime`, `ButtonTimed`, all of them across the wrap of the counter
and with polls that come late. I2C: `BusReady` (whatever was refused, the next call can
start), `OnlyMeantConditions` (no start or stop condition by accident),
`ImplementsAccess` (refinement).

### Findings

Eight places where the code does not do what it, its comments or the README say; the
quotes are in `PROJECT.json`.

1. `fusb302.cpp:184`: `establish_usb_20` does not assign `state_`. After a hard reset, or
   300 ms without a message, the driver stays in `usb_retry_wait` for good.
2. `fusb302.h:159`: the dimensions of `rx_message_buf` are swapped; payloads overlap.
3. `pd_sink.cpp:83`: with two requests under way the first PS_RDY is taken for the answer
   to the second, and a second PS_RDY sets `active_voltage` to 0.
4. `main.cpp:228`: after a press too short for the configuration mode nothing requests
   the configured voltage any more.
5. `main.cpp:173`: a voltage found in a variable or battery supply is not requested, and
   no other is, so the source gets no request at all.
6. `eeprom.cpp:202`: key before value; a write cut off in between leaves 0xffff.
7. `eeprom.cpp:73`: a repair that is cut off in its first slot makes the next one drop a
   key that no write was about.
8. `hal.cpp:198`: `has_expired` overflows 24.8 days after power-up, in the milliseconds
   in which a timeout lies beyond 2^31 and the counter does not. The timeout of a steady
   LED, `millis() + 0x7fffffff` (`hal.cpp:131`), overflows from the first millisecond on,
   harmlessly: the same colour is set again.

`Fusb302` and `Zy12pdn` keep the error of finding 1: a reset is final in both, and
`FixedVoltageSupplied` and `FixedModeSettles` excuse what follows it (`GivenUp`). What is
still checked after a reset is that nothing of the old connection is taken for real: LED,
contract, capabilities, a keep-alive that is still due. `PdLink` would let the link come
up again, as a repaired driver does.

Seen on the way, without a run, as no line of the repository says otherwise or the effect
is outside the model: a write ends with a stop condition only if it failed
(`i2c_bit_bang.cpp:36`), so the bus stays started until the next read, which the code
copes with (`BusReady`); `create_data` ORs the revision into bits that are already set
(`usb_pd.h`), which for revision 3 gives the reserved value; a rejected request drops the
keep-alive of a programmable contract that goes on (`pd_sink.cpp:79`, why `KeepAliveReady`
asks for `src = "ready"`); a Wait or a lost request holds the keep-alive back, since
`requested_voltage` stays set (`unheard`); a keep-alive that crosses an advert is read by
the new objects (`crossed`); and `TX_EMPTY` says nothing of a packet on the wire, so if a
second one has started before TXSENT of the first is read, `fusb302.cpp:131` switches the
oscillator off under it (`sending = "behind"`, reached in 9 states; `OscillatorOn` is about
every other packet).

### Bounds

- `N = 3` in `board` (6 in the code): full, empty and wrapped rings with items in between;
  two items tell apart order, loss and duplication. The proofs have every `N`.
- `QueueSize = 2` in `fusb302` (6 in the code): overflows happen at once, which is the
  interesting case, and the proofs are for any size. `system` and `fusb302_payload` use 6.
- `MaxRxFifo = 2`, `MaxTxFifo = 1`: one packet being read with another behind it, one
  message waiting behind one on the wire. `NumMessageIds = 2` wraps.
- `BufWords = 5` is the last row plus the CRC of a packet without objects;
  `fusb302_payload` has room for two objects.
- `MaxUnread = 3` messages of the source on the way (2 in the runs of findings): the
  program polls every millisecond and a message takes longer than that. The proofs have
  every bound below the queue's size; from there on the driver may drop events.
- `MaxDisturb = 3`: button presses, repeated adverts, hard resets, lost requests and Wait
  messages together, e.g. a press, a changed advert and a reset. Everything else is
  unbounded. The run also passed with 4 (703,977 states).
- Three sources (two plain ones, where the same position and the same voltage mean
  different things, and one with an unknown augmented object before a programmable supply
  that goes above 20V) and modes 0, 9 and 100 cover every branch of
  `on_source_caps_changed`; 9V is fixed with some sources and programmable with another.
  The run also passed with a fourth source that has a fixed 20V object behind a
  programmable one (509,221 states).
- `BufLen = 5`, `MaxChunk = 2` in `board` (512 and 32): a ring that holds two chunks and
  wraps inside a message, messages of 1 to 3 bytes of two kinds.
- `HalfWrap = 10` (16 in `timing_overflow`; 2^31 in the code): the counter wraps and
  crosses its sign with every duration under way, at every phase. `Margin`, the durations
  and `DebounceMs = 1`, `LongPressMs = 3` are shrunk with it and keep their order. `MaxLag = 2`
  lets polls come late; a button is held for up to `MaxHeld = 4` ms, longer than a long press.
- `NBits = 3` (8 in the code): a first, an inner and a last bit; reads and writes of one
  and two bytes, written and read values with different bits.
- Eeprom: 2 keys, 4 slots, 2 values, 2 power failures with steps
  left for each write (`crashes` counts from the last `write()`), and so any number
  altogether. A page fills with every fourth write, so transfers happen all the time; two
  failures are what it takes to cut off a repair. A transfer that is redone appends every
  key but the first once more, so `n` failures take `NumKeys + (NumKeys - 1) * n` slots,
  which the run has exactly (`EepromAssumption`). With 255 slots, all that a page has
  (`PageSlots`), and the program's 3 keys, that is 126 failures in one transfer.

### Fairness

The main loop never stops, since SysTick wakes it every millisecond: weak fairness of the
driver's steps and of the client's return to `poll()`; in `Zy12pdn` that `pc` goes on
(`LoopGoesOn`, which is what weak fairness of `Firmware` amounts to and much faster to
check). Time passes: weak fairness of `Elapse` and `StartupEnds`. A source goes on with
what it began (it advertises, answers, switches, or gives up waiting): weak fairness of
these together. It is found in some poll if the driver keeps measuring: strong fairness of
`LinkAttach`, which is what `SourceDetected` shows of `Fusb302`. A processor with power executes its next flash step. `uart_transmit`
returns, the UART sends, and the DMA interrupt is enabled (`UartFairness`). Nothing is
assumed of the user, of chip interrupts, rejections, resets, lost requests or power
failures.

## Proofs

`Fusb302Proofs` proves, for all values of the constants that meet `ConstantsAssumption`
and `PacketsAssumption` (queue and FIFO sizes at least 1, at least two message IDs,
packets that fit behind the last buffer row):

- `TypeCorrect`, `Invariance`: `FusbSpec => []TypeOK`, `FusbSpec => []FusbInv`;
- `MessagesOnlyInPdHolds`, `ProtocolTracksStateHolds`, `TimerArmedHolds`,
  `RxNotForgottenHolds`, `OscillatorOnHolds`, `CommOnSourceLineHolds`: the safety
  properties of the run;
- `LinkImplemented`: `FusbSpec => ImplementsLink`.

The properties are not inductive. `ProtocolTracksState` needs that the event queue has
room when `state_changed` is added, which holds because before USB PD is established at
most one such event is queued (`QueueBeforePd`), and because the queue drops new items,
never old ones (`PdReported`). `RxNotForgotten` needs that nothing is received while the
interrupts are masked (`EnabledWhenAttached`). `CommOnSourceLine` needs that
`measuring_cc` names the line the switches select (`MeasuringInStep`). `OscillatorOn` needs
that TXSENT cannot be set while a packet that started without it is on the wire
(`NothingSentYet`). `FusbInv` is their
conjunction with `TypeOK`; the run's own properties follow from it. The proof goes
action by action and, for each, part by part. `LinkImplemented` maps every step to a step
of `PdLink` or to a stutter under the same invariant.

`Zy12pdnProofs` proves, for every set of sources (`AdvertsAssumption`: one to seven
objects whose fields have the widths the standard gives them, fixed 5V first), every set of
modes the configuration can store (`ModesAssumption`), every bound on messages that the
event queue can hold (`QueueAssumption`), and any number of disturbances:

- `AttachmentInvariance`: `Spec => []AttachmentKnown`, what the driver's state says of the
  rest;
- `SystemInvariance`, `SystemTypes`: `Spec => []SystemInv`, `Spec => []SystemTypeOK`;
- `OutputStaysAllowed`, `RequestsHonourable`, `LedAlwaysTruthful`: the safety properties
  of that name in the run;
- `LinkUsedAsPromised`: `Spec => LinkUsed`, so the program may be put on top of
  `Fusb302`, for which `LinkImplemented` is proved;
- `EveryAdvertAnswered`: `PlainSources => (Spec => []CapsAnswered)`;
- `ContractStaysAgreed`, `KeepAliveStaysReady` and, under them, `AgreementInvariance`:
  `PlainSources => (Spec => []ContractAgreed)`, likewise `KeepAliveReady` and
  `AgreementInv`.

`SystemInv` is the conjunction of `SystemTypeOK`, `LedTruthful` and four parts.
`OutputAllowed` speaks of the contract, but a voltage is allowed or not when it is asked
for: `VoltagesAllowed` carries it from the request over what is granted to the contract
and to the active voltage, which the keep-alive asks for again. `RequestHonourable` needs
that the sink's capabilities are the source's (`CapsCurrent`), which is true only between
adverts and resets, so that also says what is on its way when they differ. Both need to
know how link, queue and protocol fit together (`LinkInStep`): a reset throws away every
message, and the first event after it is the report that clears the capabilities.
`WireTypes` bounds the queue, which never overflows. A hard reset says itself that 5V is all
there is; that it is so too when the driver gives up after 300 ms follows from
`AttachmentKnown`: as long as no message has come, the sink has asked for nothing. It is
inductive alone, and every other invariant of the system is proved on top of it. The lemmas underneath say what the
operators of `PdSink` compute: a capability keeps the position of its object
(`SourceCapsOf`, `CapsType`), and rounding to the units of a request does not leave the
range of the capability or of the mode (`RequestCovered`, `RoundedAllowed`).

The last four theorems have the hypothesis `PlainSources`: no supply is a variable or battery one,
offers less than 25mA or starts above 20V. Otherwise `request_power` may give up without
a request, which is finding 5 for variable supplies. The sources of the `system` run are
plain. With it, the desired voltage is always in the range of a capability
(`DesiredOffered`), and a request for such a voltage is made (`RequestMade`).

`ContractAgreed` and `KeepAliveReady` speak of the moments in which nothing is under way;
what they need says what sink and source know of each other in between. `Way` is all that
the source has said and the sink has not handled, in order: the events, then what the
driver has still to read. `Agreement` says of it that at most one request, acceptance or
answer is under way (`OneAtATime`); that the sink remembers, in `requested_voltage` and
`selected_pps_index`, the one that is, and can ask for it again (`RequestKnown`); that the
active values are the contract's unless a `PS_RDY` is still to come (`ActiveKnown`); that
an advert on the way excuses a request that is out of date, because the sink will ask
anew when it handles the advert (`RequestKnown` again), and that the advert is the
source's last one and the capabilities follow it (`AdvertsInOrder`, `CapsFollow`); and
that a reset leaves nothing of the old connection (`StartsAfresh`).
Here `PlainSources` is what makes the excuse good: an advert that is followed by no
request would leave the sink with a request that was lost. `AgreementInv` claims
`Agreement` only while no request has overtaken an answer (`overlap`) and no hard reset is
still unnoticed (`hardrst`). TLC checked it on all states of `system` before it was proved.

`EepromProofs` proves, for all keys, values, numbers of slots and of power failures that
meet `EepromAssumption`: `EepromInvariance`, `EepromTypes`, `KnownGoodStateHolds`,
`StoreInvariance` and `StoreImplemented` (`EepromSpec => ImplementsStore`).
`KnownGoodState` speaks of an EEPROM at rest; `EepromInv` says what holds in the middle of
things: the two pages fit together in one of the few ways there are (`PagesFit`), and
however many of the steps left are executed before the next failure, they will again
(`TodoFits`). Then a crash needs no case of its own, and what `init()` and `write()` have
to do is to make plans that keep `PagesFit` at every step.

That is about the order of the pages; `StoreInv` is about what they hold. It reads them as
if a value whose key is programmed were there already (`Flash`) and says of the steps left
(`PlanFits`) that they append the pair that is written unless it is in force
(`Committed`), and, in a transfer, that they finish the copy (`Progress`): no slot but the
first has the first slot's key (`CopiesOnly`), so the pair that was written stays in force
and a value of the old page cannot come back; keys below the one `copy_slots` has got to
read the same on both pages (`CopiedBelow`), so that erasing the old page loses nothing
(`OldNotNeeded`); and the slots used and the keys left together fit in `Room`. A power
failure moves `copy_slots` back to key 0, and `Room` has the slots for that (`CutOff`).
TLC checked `StoreInv` before it was proved, on this instance and with 3 keys and 5 slots.

`SpscQueueProofs` proves, for every capacity `N >= 1` and every set of items
(`QueueAssumption`): `QueueInvariance` (`[]QueueInv`), `QueueTypes`, `SlotsNotShared`,
`CountsReliable`, and `FifoImplemented` (`QueueSpec => ImplementsFifo`). `SlotNotShared`
alone is not inductive: it needs that the writer, once past its check, still has a slot
to go to however far the reader gets (`WriterInStep`), and that the tail stays one
behind the reader's copy (`ReaderInStep`); then it is the injectivity of the wrapping
increment. The refinement rests on `ItemsAdd` and `ItemsPop`: moving the head appends to
the sequence of slots between tail and head, moving the tail takes its first item.

`TimingProofs` proves, for every width of the counter and all durations and margins that
meet `ClockAssumption` and `TimingAssumption`: `TimingInvariance`, `TimingTypes`,
`UnsignedExactHolds` and `SignedExactHolds`. The invariant adds to the types that the
distance from the counter to the mark and the milliseconds left differ by whole turns of
the counter (`MarkInStep`), and that nobody looks later than half a turn (24.8 days; for
the driver's timeout a turn less its margin) after the end (`InTime`). Then a difference
that is in range can only be the milliseconds left. It does the same for `Hal` under
`HalAssumption`: `HalInvariance`, `HalTypes`, `LedKeepsTimeHolds` and `ButtonTimedHolds`.
`HalInv` says that the time at which the LED changes next and the time of the last change
of the button are where the milliseconds left and held put them, but for whole turns of
the counter. `HalAssumption` asks of a blinking pattern that a pause is no shorter than
polls may be late (in the firmware, the shortest is 40 ms and polls come every
millisecond): a shorter one could be over before it is seen, and `LedKeepsTime` fails.

`I2cProofs` proves, for bytes of any width, any set of calls and any refusals
(`I2cAssumption`): `I2cInvariance`, `I2cTypesHold`, `BusReadyHolds`,
`OnlyMeantConditionsHolds` and `AccessImplemented` (`I2cSpec => ImplementsAccess`). The
invariant says for every pin operation of every piece what the two lines are before it
and what the device has seen of the byte (`PieceInv`), how far the call is (`CallInv`) and
that what was read is what the device sent (`GotInv`). `BusReady` is its case of a call
that is over, and no condition is made by accident since SDA changes only where
`PieceInv` has the clock low or a condition is due.

`UartProofs` proves, for every size of buffer and chunk (`UartAssumption`):
`UartInvariance`, `UartTypes`, `OneTransferHolds` and `StreamImplemented`
(`UartSpec => ImplementsStream`). `OneTransfer` needs that a transfer ends at the end of
the buffer at the latest (`TransferInStep`), that what is copied fits (`CopyFits`), and
that after the program's look at `tx_size` a ring with something in it is being emptied
(`NobodyForgets`). The refinement adds what the program and the DMA hold (`StreamInv`): the
bytes copied so far are behind the head, where no transfer reads, and there is still room
for all of them. Moving the head appends them to the bytes waiting (`RingGrows`), and a
byte that the DMA sends is the first of these.

TLAPS does not reach liveness under fairness: `SourceDetected`, `FixedVoltageSupplied`,
`Settles` and `RingDrains` are model-checked only. Everything else that a passing run
checks is also a theorem.

## What is abstracted

- Register access never fails in `Fusb302` (what it is otherwise is in `RegisterAccess`),
  CC voltage levels are "pulled up or not", token framing and header bits are left out.
- In the driver and the system, time is whether a timeout has expired: the order of poll
  and expiry is free, but no duration is compared with another, save for what a variable
  says (a held button counts as a press or not). `Timing` and `Hal` show that the code
  gets from durations to such answers correctly.
- A source that breaks the protocol (no fixed supply first, unsolicited PS_RDY) is not
  modelled.
- The interrupt registers (INTERRUPT, INTERRUPTA, INTERRUPTB, STATUS1) are read in one
  step; what arrives later is seen by the next poll, as in the code.
- `clear` is modelled between calls only: it stores to both indices, and nothing suggests
  that it may interrupt another call.
- The accesses of `queue.h` happen in the order of the statements, although `buffer` is
  not volatile.
- Programming a half word and erasing a page are indivisible.
- `I2cBus`: no clock stretching (the code does not support it), and the device does not
  hang in the middle of a byte. The delays between pin changes are left out.
- `UartTx`: `snprintf` and the set-up of UART and DMA are left out; a message is a
  sequence of bytes.
- The codec's bit positions (`usb_pd.h`, the shifts in `handle_src_cap_msg` and in the
  request payloads) are left out; their units, rounding and limits are in `PdSink`.
- `fusb302_regs.h` is constants; `get_device_id`, debug output and the build are left out.

## Plan

Done: all components but the codec's bit fields; proofs of every invariant, action
property and refinement that the runs check.

Left: `PdMessage`, the codec's header, objects and requests packed and unpacked bit by bit.
