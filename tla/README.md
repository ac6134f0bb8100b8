# TLA+ models of pico-framework

Specifications of the parts of this firmware framework (RP2040/RP2350, C) whose
behaviour depends on the order of things: interrupts against the main loop, calls
against lwIP's callbacks, flash operations against power cuts, a sender against a
receiver. Each model is checked by TLC on a small instance; the invariants that
matter most are proved by TLAPS for every instance.

Paths below are relative to `src/`.

## Contents

| Module | Models | Configurations |
|---|---|---|
| `ByteFifo` | what a byte FIFO promises (abstract) | through `RingBuffer` |
| `RingBuffer` | `components/ring_buffer` | `MCRingBuffer.cfg` |
| `PersistentConfig` | `components/persistent_config/persistent_config.c` and its flash | `MCPersistentConfig*.cfg` |
| `PersistentConfigProofs` | theorems about it | |
| `FirmwareUpdate` | `components/firmware_update`: service, receiver, manifest, apply | `MCFirmwareUpdate*.cfg` |
| `FirmwareUpdateProofs` | theorems about it | |
| `TcpClient` | `components/tcp` with the retry budget of `components/wifi/wifi_policy.c` | `MCTcpClient*.cfg` |
| `TcpClientProofs` | theorems about it | |
| `WifiLink` | `components/wifi` and the radio | through `HomeLed` |
| `MqttSession` | `components/mqtt`: session, lookup, retry, requests | through `HomeLed` |
| `Lamp` | what `apps/home_led` is asked to show, keeps and restores (operators) | through `HomeLed` |
| `HomeLed` | `apps/home_led` over the three, with broker and flash | `MCHomeLed*.cfg` |
| `HomeLedProofs` | theorems about the four | |
| `Mcp2515` | `components/mcp2515/mcp2515.c` and the controller | through `CanLink` |
| `CanBus` | `components/can` and the queue of `components/can_frame` | through `CanLink` |
| `CanLink` | the two as nodes of one bus | `MCCanLink*.cfg` |
| `CanLinkProofs` | theorems about the three, and about `RingBuffer`, which holds their records | |
| `ServoBus` | `components/servo_bus`, `feetech`, `ax12` over `half_duplex_uart`, and the servos | `MCServoBusSet*.cfg`, `MCBench.cfg` |
| `Cli` | the line editor of `components/cli` and the terminal | `MCBench.cfg` |
| `Vl53l0x` | `components/vl53l0x` on `i2c_device`, and the sensor | `MCBench.cfg` |
| `JsonText` | `components/json`: writer and reader | `MCBench.cfg` |
| `JsonTextProofs` | theorems about it | |
| `ConfigStore` | `components/persistent_config/config_store.c` | `MCBench.cfg` |
| `LogSink` | `components/logging/log.c` | `MCBench.cfg` |
| `Strip` | `components/ws2812`: a frame on its way | `MCBench.cfg`, `MCStripLatch.cfg` |
| `PioBlock` | what `ws2812`, `half_duplex_uart` and `can` claim of one PIO block | `MCBench.cfg` |
| `PwmSlice` | `components/pwm`: the outputs of one slice | `MCBench.cfg`, `MCPwmSliceDeinit.cfg` |
| `MqttMessages` | `components/mqtt`: messages that come in pieces | `MCBench.cfg` |
| `UdpSocket` | `components/udp` | `MCBench.cfg` |
| `BtConsole` | `components/bluetooth` | `MCBench.cfg` |
| `Fade` | the fades of `apps/home_led/light.c` | `MCBench.cfg` |
| `Algorithms` | pure algorithms (operators): servo packets, colours, timing arithmetic, HEX records, CAN registers | `MCBench.cfg` |
| `Codecs` | what each of those is for, and the layout of flash | `MCBench.cfg` |
| `Bench` | the drivers and algorithms that share no state, one at a time | `MCBench.cfg` |
| `DriverProofs` | theorems about `MqttMessages`, `UdpSocket`, `BtConsole`, `LogSink`, `Cli`, `ServoBus`, `Vl53l0x` and `ConfigStore` | |
| `BenchProofs` | theorems about `PioBlock`, `PwmSlice`, `Fade` and `Strip`, and all of them on `Bench` | |

`MCx` modules only give constants their values; a model that needs none is run under its own name. To run one:
`tlc -config MCTcpClient.cfg MCTcpClient`, `tlc -config MCCanLink.cfg CanLink`; to check proofs:
`tlapm FirmwareUpdateProofs.tla`.

In each model, some definitions come with a *faulty variant* in front of them, used by
no specification: substituted for the definition it precedes, it makes one of the
properties fail. `PROJECT.json` says which, and which source lines each definition stands
for.

## The system

One core runs a main loop that polls every component; there is no operating system and
no thread. Three things interleave with the loop: interrupt handlers (the CAN
controller), hardware that moves on by itself (PIO state machines, DMA, the MCP2515, flash
during an erase), and lwIP/BTstack callbacks, which run *inside* the poll of the link.
Power may go at any time, and only flash survives.

### Components, their state, and what makes them correct

**Storage and update**

| Component | State | Operations | What is hard | Correct when |
|---|---|---|---|---|
| `ring_buffer` | head, tail, caller's storage | push, write, pop, read, peek, discard, clear | one side is an interrupt; no lock, only the order of accesses | a FIFO: no byte lost, doubled, overwritten or read early |
| `flash_storage` | none; regions of flash | erase, program, verify | an operation cut short; bounds against the program's own image | never touches flash outside its region |
| `persistent_config` | two slots in flash, sequence number, working copy (`config_store`) | load, save, erase, get/set | a save cut or failed at any operation; number wrap-around | a power cycle recovers the last saved configuration, or the one being saved |
| `hex_parser` | base address | parse a line | malformed lines | data and addresses as written, or an error |
| `firmware_update` | staging, manifest, receiver's page, `verified` | `fwbegin`, lines, `fwverify`, `fwapply`, `fwstatus`, boot | transfers that fail, restart or are cut; a manifest out of step with staging; an install cut short | only an image that was checked whole is installed |

**Network**

| Component | State | Operations | What is hard | Correct when |
|---|---|---|---|---|
| `wifi` | state, retry, address | connect, disconnect, poll | link drops; time-out against a late link-up; clock wrap | reconnects; gives up only when told to |
| `tcp` | state, control block, retry, two rings | open, close, poll, write, read, six callbacks | callbacks in any order with calls; who owns the control block; back-pressure | no block leaked or used after free; both streams intact; keeps trying |
| `mqtt` | state, lwIP client, retry, reassembly buffer | connect, close, poll, publish, subscribe, callbacks | reconnecting while connected; late lookups; split messages | the state is that of the session; a message is whole or dropped |
| `udp` | control block, remembered configuration, counters | open, close, send, callbacks | opening an open socket; a lookup in flight; a callback that calls back | one block while open; every datagram counted as received, dropped or sent |
| `bluetooth` | one console, channel, credits, two rings | init, deinit, poll, callbacks | channel closing with a send credit outstanding | output resumes on each channel; nothing crosses sessions |
| `home_led` (application) | generations of light and range: current, published, saved; announcement step | the main loop, MQTT commands, console | changes while three messages drain; session lost between them; a save that fails | the last change is announced, published and saved in the end |

**Buses and devices**

| Component | State | Operations | What is hard | Correct when |
|---|---|---|---|---|
| `can_frame` | a ring of fixed records, drop count | push, pop, clear | a record half written or half read | frames whole, in order, or dropped and counted |
| `can` | controller, receive queue, active buses | init, deinit, send, receive, interrupt | the interrupt at any point of receive, clear, deinit | no frame after deinit; none torn |
| `mcp2515` | chip registers; next transmit buffer, statistics | init, send, receive, set_mode, statistics | the chip moves between two register accesses | every frame it accepted is returned once |
| `half_duplex_uart` | PIO FIFOs, echo mode | write, read, flush | own echo; a FIFO of eight; time-outs | a reader gets the reply, not the echo or an old reply |
| `servo_bus` (`ax12`, `feetech` on top) | retry budget, statistics | ping, read, write, sync write | lost and late replies, retries of what was done | a result belongs to its request |
| `ws2812` | pixel buffers, DMA, latch time, shared program count | show, show_async, is_busy | hardware flags read one after another | a frame is handed over whole, and the latch time after the last one was (the line itself may have been quiet for less: see the disagreements) |
| `vl53l0x`, `i2c_device` | the handle's budget, address and stop byte; the sensor's registers | init, address, budget, periods, single and continuous reading | a transfer that fails half-way; a measurement left over from before | a measurement is handed out once; the sensor takes the time it was given |
| `pwm` | a slice's counter, period, polarity and levels | init, duty, frequency, start, stop, deinit | the outputs share all but the level | initialising or moving an output leaves the other channel's signal alone; stopping one leaves the neighbouring GPIO's (not the whole slice's: see the disagreements) |
| `logging` | sinks, levels, a ring in memory | write, add sink, read, clear | a full ring; a line longer than its buffer | memory holds the newest bytes |

**Text and arithmetic**

| Component | State | Operations | What is hard | Correct when |
|---|---|---|---|---|
| `cli` | line, cursor, history, escape state | a character at a time | edits inside a line, recall over a longer one, a line too long | the screen shows the line that Enter runs |
| `json` | writer: buffer, depth | one call per value; find in a text | a buffer too small; texts cut short; escapes | what was written is found, and nothing else |
| `crc`, and the `_timing`, `_policy`, `_registers`, `_filters`, `_color` files | none | pure functions | rounding, wrap-around, ends of ranges | inverse of each other, or the nearest value there is |

Interactions: `tcp`, `bluetooth`, `logging` and `can_frame` keep their bytes in a
`ring_buffer`; `firmware_update` and `persistent_config` use `flash_storage` and `crc`;
`firmware_update` takes lines from `cli` through `hex_parser`; `tcp`, `mqtt` and `udp` are
driven by `wifi_poll`, through lwIP, and reuse `wifi_policy`'s back-off; `home_led` joins
`wifi`, `mqtt`, `persistent_config`, `cli` and `ws2812`.

`PROJECT.json` lists every component with its status, and under "hazards" what could go
wrong at which line and which property would show it.

## The models

### RingBuffer and ByteFifo

A step is one access to memory the other side can see. `PushBegin`/`WriteBegin` read the
other side's index, `CopyIn` stores one byte, `PublishHead` moves the head; on the consumer's side
`PopBegin`, `PeekBegin`, `ReadBegin`, `DiscardBegin`, `CopyOut`, `CopyOutDone`,
`PublishTail`, and `ClearBegin`/`ClearEnd`, whose two accesses are apart. The two sides
interleave freely: an interrupt may preempt the other side between any two. The bytes are
numbered, so that `storage` says which byte lies where.

`MCRingBuffer.cfg` (4 slots, 7 bytes: full, empty and wrapped more than once) checks that
the indices alone count the bytes (`CountIsExact`), that no held byte is overwritten
(`HeldBytesIntact`), that a copy is made of the oldest bytes (`CopiesAreOldestBytes`), that
`ring_buffer_read`, which counts twice, removes just what it returned
(`ReadRemovesWhatItReturns`), that the whole implements `ByteFifo` under the mapping from
storage and indices to a sequence (`ImplementsFifo`), and that an accepted byte leaves
(`AcceptedBytesLeave`).

*Fairness*: a call that began ends (its caller runs on), and the reading loop keeps
coming back and finds the buffer non-empty (strong: the reader may be between calls when
it is not). The producer owes nothing.

*Proved* for every `Size >= 2`: the type, the three safety invariants, `ReadRemovesWhatItReturns`
and `ImplementsFifo`, all from the inductive `RingIInv` (`CanLinkProofs`), which adds to them what each side's call in progress has established
(`ProducerCall`, `ConsumerCall`): the space a writer claimed stays free, and the head a
reader saw was a head. That is why stale counts are safe: each side's index moves only in
the direction that makes the other side's estimate too small. The refinement has one lemma per step that the
abstract FIFO can see: publishing the head accepts what was copied in, the last byte of a copy
delivers, moving the tail removes, and every other access leaves the queue alone.

### PersistentConfig

A step is one flash operation of `persistent_config_load`, `_save` or `_erase`. A slot's
pages are erased, torn, or belong to a configuration; power may be cut in any state
(`half done` erases and programs), any operation may fail, and the next session loads with
a buffer that may be too small. The sequence number wraps (`HalfRange`).

`MCPersistentConfig.cfg`: two pages per slot and configurations of zero to three pages, so
that saves are single-page, multi-page, and too large; sequence numbers modulo 4, so they
wrap. `PowerCycleKeepsConfig`: whatever is cut or fails, a power cycle recovers what was
last saved or loaded, or what was being saved. An erase takes slot 0 first, whichever slot is current. Until its first
operation has begun nothing is given up; from then on the current configuration or nothing may come back; and only
when slot 0 was the current one, and the erase was cut or refused before slot 1 was done, may the older configuration
come back (`exposed`). The code does nothing against it (persistent_config.c:245-250), and no document says otherwise:
persistent_config.h:86 speaks of an erase that was done. `CurrentSlotSurvives`: what the session calls
current stays readable and carries the session's sequence number. Both are for sessions
whose load was not refused for want of buffer; `config_interrupted_save` below shows why.

*Proved* for every set of configurations, slot size and range >= 2: the type and both
invariants. `IInv` adds what a save in progress knows of its target (`CallInProgress`),
that the session's slot is the one recovered (`Session`), and what a wipe leaves behind
(`Wiping`); the key lemmas say that the choice between two readable slots depends only on
`sequence_is_later`, which orders a number and its successor even across the wrap.

### FirmwareUpdate

A step is a command without flash operations, or one flash operation of `fwbegin` (manifest
first, then staging sector by sector), of a data line (a page is flushed when the next
begins), of `fwverify`, of `fwapply` (sector by sector over the application), or of a boot.
The sender restarts files, loses and damages lines, and sends lines of two images.
Power is cut anywhere; an interrupted install does not boot again, which is why deadlock
is not an error there.

`MCFirmwareUpdate.cfg`: two images over three sectors, with a record across a page
boundary and gaps where the other image has data; `fwbegin` for one sector, for all, and
for too much. `VerifiedIsVouched`: `verified` means the staging region holds the image whose
checksum was matched. `ManifestAgreesWithStaging`: a valid manifest describes what is
staged, after any power cut. `ApplicationIsWhole`: what boots is an image whole, unless an
install was cut short. `CleanTransferIsExact`: a transfer without losses onto erased
staging stages the file and nothing else. `FailedTransferStaysFailed`: an error in the
receiver lasts until the next `fwbegin`.

*Proved* for every geometry and set of images: the type and all five properties. `IInv` adds `Bookkeeping` (what the
program counter says about `rx`, manifest and cursor) and `CopyInProgress` (below the
cursor the application is the staged image). One lemma per conjunct, one step per action.
`CleanTransferIsExact` has an invariant of its own, `CleanInv`: while no line was lost, staging with
the page in RAM laid over it (`Image`) holds each cell of the file that has arrived and is blank everywhere
else, and what has not arrived is in a line not yet sent or in the one being placed (`TransferGoesOn`); before that,
`fwbegin` has blanked the sectors behind its cursor (`ErasedSoFar`). The proof needs of an image what
`ExtentAssumption` says: it is not empty, its last cell is one of its own, and no record is empty.

### TcpClient

One `tcp_client_t`, lwIP's pool of control blocks, the resolver and the peer. A call and a
callback cannot overlap, so each is one action; what interleaves is their order. The static
helpers (`release_pcb`, `handle_failure`, `begin_attempt`, `pump_output`) are functions from
a world to the set of worlds they may leave, and a handler composes them in the order of the
code. A timer may have expired at any poll. A byte is labelled with its session and place.

`MCTcpClient.cfg`: two blocks (so that one may still be closing while the next is
needed, and a third is refused), rings of two bytes, three bytes of input per session in segments
of one or two (so that segments are declined), two sessions, and the three kinds of
configuration: retry for ever, give up, connect once. An open may find its buffers refused
(tcp.c:448-455): the block of the connection before it has been released by then, and the state stays as it was.
`OneControlBlock`: a block is the client's
or nobody's, and never freed twice; a client that connects or is connected has one, unless its last
open was refused. `EveryLossIsReported`: each connection is up, was reported once by `on_recv` or `on_error`, or was
ended from this side, by close, open or deinit, which report nothing (that they should, as tcp.h says, is the first of
the claims below that are false). `StreamsAreIntact`: both
directions, over declined segments and partial writes. `ClosedStaysClosed`. Under fairness
`KeepsTrying`, and `StreamsMove`: a declined segment is taken and accepted output leaves. In this run an answer from the resolver does not
outlive the attempt that asked (`LateAnswers = FALSE`); the violation `tcp_late_answer` below is what
happens when it does.

*Proved* for any number of blocks, bytes, sessions and lookups, and any ring sizes: the type and the four safety
properties, under `~LateAnswers`, without which they are false. The inductive `Sound` is a
predicate of a world, as the helpers are functions of one, so that a handler is followed through its
calls: `begin_attempt` and `handle_failure` are shown to take a client that has let go of everything
(`Detached`) to sound worlds, the handlers to let go or to keep the world sound. Its parts are
who holds which block (`OwnsItsBlock`), what was counted (`LossesAreCounted`), when the
streams are up (`StreamFollowsState`), that the output in the ring, with lwIP and at the peer is what was written
(`OutputAddsUp`), and that the input is one run of bytes, from what the application has read over the ring to
the segments not yet taken (`InputSoFar`, `InputGoesOn`).

*Fairness*: the main loop polls for ever, so expired timers are acted on and lwIP's own
work (acknowledging, reclaiming, offering a declined segment again) gets done; the
application reads. Strong fairness stands for a network that is not down for ever: a lookup,
a connection and a `tcp_write` that are tried again and again succeed at last.

### Mcp2515, CanBus, CanLink

`Mcp2515` is the driver and its controller. The driver's step is one SPI transaction; between
two of them the chip receives (first buffer, roll-over into the second, or overflow), transmits,
or reaches the mode it was asked for. `call` holds the place and the locals of the function in
progress. `clearsOnRead` is chosen once: a controller whose fast read clears the flag, as the
driver's comment says it is documented to, or a clone that leaves it, which the driver means
to support as well.

`CanBus` is can.c with the queue of can_frame.c. Its ring is an instance of `ByteFifo`, which
`RingBuffer` is shown to implement, so a record is `RecordSize` numbered bytes; the interrupt
handler is one step, because it runs on the core that reads the queue, and falls between the copy
of a pop and the store of its tail, or between the two accesses of a clear.

`CanLink` puts the two on one bus. A frame that leaves one controller arrives at the other in
the same step; frames are numbered, so a duplicate or a mix-up shows.

`MCCanLink.cfg`: three frames, sent by either node in any split (one more than the receive
buffers of the chip, so that overflow happens), a queue of two records with a byte to spare (room
for part of a record), two transmit buffers instead of three (so that three frames use one
twice), one upset (a mode switch, a stop, a clear, or an interrupt that came too late).
`McpAccountsHold`: a frame the controller took is returned once, in its buffer or counted as
lost, and nothing is counted twice. `SendsGoOutOnce`, `CanFramesAccounted`, and under fairness
`FramesAreRead`.

*Proved* for any number of frames, transmit buffers and upsets, any size of record and ring, any filters and
both kinds of controller: the type of both nodes and the three safety properties. The inductive `IInv` has three
parts. `McpInv` speaks of the MCP2515 only: what the call in progress knows of the chip, which a step of the
controller cannot undo (`ReadKnows`: the buffer about to be read is full; `SendKnows`: the one being loaded is not
requested; `ClearKnows`: which frame the second clear may meet), that no two buffers in use hold the same
frame, and that every flag raised and not yet counted is still to be added (`CountsAddUp`). `CanInv` speaks of
can.c only: the ring holds the records that were queued and have not left, as one run of numbered bytes (`QueueHolds`),
and the bytes a pop has copied are still at its head (`PopKnows`). `LinkKnows` speaks of the bus: a frame that is
still to go out on one node has not been seen by the other. Without it none of the three properties is inductive: a frame that came in twice would
be queued, or returned, twice. `TakenInOrder` names the place in the queue each returned frame came from.

*Fairness*: a call that has begun goes on; a main loop comes round to its reads, the MCP2515's
whenever the INT pin is low (mcp2515_test/main.c, the README's poll_can). None for the bus.

### WifiLink, MqttSession, Lamp, HomeLed

The one application of the repository in which most components meet. `WifiLink` is wifi.c against
a radio; `MqttSession` extends it with mqtt.c, lwIP's client, its table of requests (`wire`) and the
resolver; `Lamp` has the operators of light.c, led_range.c, ha.c and settings.c that change
what is to be shown; `HomeLed` is main.c, net.c, settings.c and the commands of console.c.

A pass of the main loop is two steps: one command of the console or none (`Console`), then the
rest (`Pass`: the switch of wifi_poll, mqtt_poll, the announcement's next step, the
publication's next part, and the bookkeeping of generations, in this order). Between the two
stand lwIP's callbacks, which run in the poll of the link (`Radio`, `Lookup`, `SessionAccepted`,
`SessionFails`, `SessionBreaks`, `Deliver`, `CommandArrives`). So the lamp may change at any
point of an announcement or a publication, by console or by broker; a session may break after
any part of what is under way has reached the broker; and power may be cut between passes.
Saves are one step: that an interrupted one is harmless is what `PersistentConfig` shows.

Abstracted: time (a back-off, the publication interval and the quiet period may be over at any
pass; an attempt has timed out once the radio is "slow"), and delivery (the broker
acknowledges all that is under way at once; any part of it when the session breaks, but
not in between).

`MCHomeLed.cfg`: a table of three requests, which three subscriptions fill, so that publishing is
refused and taken up again; retries without limit, whose count of failures stops at `AttemptsBound` (the code's goes
on rising, wifi_policy.c:111, and is read by nothing but the delay by then); one change of the lamp and one mishap of any kind (failed attempt,
loss, cut, failed save, a console command about the network), at any point. Larger
bounds do not fit in the few minutes given to a run.
`BrokerIsTold` is the safety of the generations: Home Assistant sees the lamp only after it
has its description and its topics, and what main counts as published is shown or on its way.
`LampIsReported` and `LampIsSaved` say that the last change is shown and saved in the end. The first
excuses a link that stays idle: the user has disconnected for good, or the radio would not start at the first
`wifi_connect`, which nothing tries again (see the disagreements).
The lookup, the second attempt and `connect` typed into a session are in `mqtt_connect_again`.

*Fairness*: the loop runs for ever (weak, `Loop`). Strong fairness stands for a world that
does not fail for ever: a timer that is waited for runs out at last, the radio joins, a lookup is
answered, a session is accepted, what is sent arrives, the flash takes a save. Nothing is assumed of
the user.

Proved (`HomeLedProofs`): `TypesHold` (`TypeOK`) and `BrokerTold` (`BrokerIsTold`), for all commands,
ranges, retry budgets and any number of changes and mishaps, and whether or not `connect` may be typed
during a session (`Careless`). One assumption matters: the request table holds three subscriptions
(`HomeAssumption`: `MaxInFlight >= 3`; lwIP's default is four and the repository's lwipopts.h leaves it). With fewer, a
session's subscription could be refused, net_announce does not ask again, and the lamp would be called online with a
command topic missing. The invariant (`Sound`) says of each thing a session has
begun what the broker will know of it once everything under way has arrived: the topics are
subscribed before anything else is sent (`Subscribed`); the documents of the steps an announcement has
taken are there (`DocumentsSent`), so "online", which is sent last, finds them (`OnlineIsLast`,
`OnlineIsTrue`); the parts a publication has sent show the lamp if it is still the one captured
at its beginning (`PartsSent`); and when neither is under way, and what is published is what
the lamp is, all three show it (`AllSent`). `BrokerIsTold` alone is not inductive: it says nothing between two steps.
Two facts carry the proof. Every command leaves the lamp as it was or counts a
generation (`LampGrows`), and no generation noted is ahead of the lamp's (`NotAhead`), so a change can never be taken for
one that has been published. And an announcement ends a publication of the session before it
(`AnnouncingSound`), without which the new session would be credited with parts the old one lost.

### ServoBus

A step is a packet on the wire with the fate of its answer (`Send`), or what a call makes of
what is in the receive FIFO (`Retry`, `TransactionDone`, `UnlockDone`, ...). `call.step` is
the place in the calls of feetech.c and ax12.c that take several transactions: unlock, write,
re-lock, follow the servo to its new rate or ID. A servo hears a packet or not; its answer comes
whole, not at all, damaged, cut, or late. Two servos with one ID answer with noise
(two servos do not fit in the run below, which has one).
An answer that is late comes before the next packet is sent: the protocol numbers nothing, so later
than that it could not be told from the next one's, and no code could.

`ServoCallsHold`: a call that reports success did what was asked, whatever was lost on the way, and
any call leaves the host with the retry budget, and at another rate than before only if its servo is there too. Of a reset
it says that somebody answers at the factory settings, and that whoever came to them during the call was reset: a
servo that was at them before (`there`) confirms a reset it did not hear, as feetech_factory_reset cannot tell. It
promises nothing of the servo that a *failed* call was about: that the servo is neither stranded nor left open is what
feetech.h says and the code does not do (see the disagreements). One servo
(two IDs, two rates) with unlimited faults is on the bench; `servo_set_id` runs the same module
against what feetech_set_id says of a write that failed.

### Bench

`Bench` puts together what shares no state: one component, chosen in the initial state, takes steps, and
the others rest as their init left them. The states add up instead of multiplying, and a property
may speak of several components that promise the same kind of thing. Each of its modules is
a specification of its own (`ServoSpec`, `CliSpec`, ...).

* `Cli`: a key is a step. The terminal is modelled from the bytes it is sent: a character
  overwrites, BS moves left. `ScreenShowsTheLine`: what is left of the screen is the line that
  Enter would run. Lines of three characters, entries of two, a history of two.
* `Vl53l0x`: a step is a register transfer (or several that a failure abandons alike), failed with
  or without effect (`MaxTofFaults`), while the sensor measures. `SensorAgrees`: no
  measurement is returned twice (though it may be one that an earlier call started and did not wait for:
  the interrupt is cleared after a reading, not before it; also after one whose status could not be read); a call that set budget or periods leaves the
  sensor with that budget, to half a period; a handle follows its sensor to a new address.
* `JsonText`: the writer is used as its header says, into a buffer too small for some texts; the
  reader is put to every text and every prefix of it. `ConfigStore`: records of keys that begin alike,
  with values that look like records, in a buffer that holds some of them; `Narrow` stands for 256.
  `WhatIsWrittenIsRead` joins them.
* `Strip`: one tick is the time of a word on the line; DMA, FIFO, stall flag and latch move by themselves
  while the application draws, shows and asks `is_busy`. A frame is handed over whole, no sooner than the latch time
  after the last word of the one before was *handed over*; when the FIFO has not drained by then, the line has been
  quiet for less (see the disagreements). `Fade`: the counter wraps (12 stands
  for 2^32, 9 for the unit of the easing curve); the loop's sample may be older than the fade. The temperature fades
  like the brightness, and a temperature asked for while a colour is shown is always a new one; TLC follows the
  brightness (`Fades`), the theorem is about both. `LightIsShown` joins them.
* `PioBlock`: three strips, two UARTs and a CAN bus claim program memory, state machines and DMA
  channels, each initialisation refused at every point it can be. `PwmSlice`: two outputs of
  neighbouring GPIOs, two periods; the module is about any GPIOs of the slice. A stop asks the neighbouring GPIO alone, so
  that is all it is said to spare. `HardwareIsShared` joins them.
* `MqttMessages` (payloads up to one byte longer than the buffer, in pieces of any size, the session lost
  between any two), `UdpSocket` (two blocks, so that a second one could be taken while the first is held), `BtConsole` (rings of two bytes, packets of one or three), and `LogSink` (a
  ring for a line and a bit; the ring must hold one whole line, as every use of it in the repository does; a line at or above `LevelNone` is written
  nowhere). Console output still in the ring when the channel
  closes is cleared, and neither the code nor `BtConsole` counts it: of the "bytes lost" of bt_stream.h:55, the code counts those
  refused for want of room or of a peer (bt_stream.c:57, 65).
  `DeliveriesAreAccounted` joins them.
* `Codecs` walks through the inputs (`at`) and compares each pure algorithm with what it is for
  (`CodecsAgree`): packets, frames, headers and addresses come back as they went in; a damaged
  HEX line or packet is refused; an acceptance plan lets through exactly the identifiers it was asked for;
  bit times, PWM periods and baud dividers are the nearest there are, and colours, fades and back-offs stay
  within bounds and in order. Words of 32 bits are scaled (`Word` = 256) where wrap-around matters,
  because TLC computes in 32 bits; CAN identifiers have their 11 and 29 bits. The products of vl53l0x_timing.c wrap
  at `Product`, which is 2^32 in the code (times above 4.29 s) and 2^30 in the run, for the same reason; budgets
  on either side of the wrap are among the inputs.

*Proved*, for every value of the constants, each component's part of these properties as a theorem of its own
specification (`DriverProofs`, `BenchProofs`, `JsonTextProofs`). What each needed beside the property and the types:

* `DatagramsCorrect`: nothing; the key step is that a close takes the one block there is.
* `MessagesCorrect`: the buffer holds the beginning of the publish on its way, as much as fits (`Reassembly`); a piece
  copied behind such a beginning makes a longer one (`PiecesJoin`). A lost session needs no
  invariant: `on_incoming_publish` empties the buffer.
* `ConsoleCorrect`: what the peer has heard and what still waits for it are together one ascending run of this
  connection's bytes, and likewise what waits for the console (`Ordered`).
* `LogCorrect`: nothing but types; one lemma for one line (`KeptIsNewest`: what `memory_sink` keeps is what is due, because
  the ring has room for a line), followed through the sinks in their order.
* `CliCorrect`: the editor's indices agree with its line (`EditorSound`), and the terminal shows it with the cursor
  in place (`Displays`), also in the middle of an escape sequence. One lemma for each way of echoing an edit.
* `ServoCorrect`: for each place in a call (`call.step`) at which rate the host is and what the servo called is known to
  hold by then (`Underway`), and what an answer that is taken shows of the servo that gave it (`Acked`).
* `TofCorrect`: the transfers a call has left are the end of its plan (`WellPlanned`), and a measurement that is being
  read was ready when its reading began (`ReadingUnderWay`). The first attempt found the model wrong: it let
  a budget the chip cannot afford be written, by a `write_final` whose transfer failed with effect, where
  vl53l0x.c:505-524 looks before it writes. The two actions for a failed transfer now ask `Passes` first.
* `StoreCorrect`: there are a sequence of keys, each once, and a sequence of places, such that the record of each key lies
  at its place and the next one behind it, up to the end of the buffer (`LaidOut`). Each walk of
  config_store.c is an equation over places; that its value is the same for the walk from any place of the layout
  is shown with a least counterexample (`LeastExists`, from the well-foundedness of the naturals), which stands in for
  induction. A value that looks like a record does no harm because a walk that starts
  at a place stays on places; and an image cut within a record is refused because its walk reaches the cut record.
  For the sake of the proof the walks of the model are functions on all numbers above zero, and the walk of
  `Loads` says where it stops.
* `JsonCorrect` (`JsonTextProofs`): for any alphabet, keys, strings, depth and buffer, what the reader makes of *every text
  that continues the one written so far*, since a reader walks from the front and the document is written from the front.
  For each container that is open (`Reading`, `Nested`): reading it comes down to reading what is left of it (`Upon`) after
  the container opened inside it, and reading the innermost comes down to reading on from the end of the text
  (`Ahead`). For the members of a root object (`Finds`): a key not among them sends json_find_n on to the end of the text,
  and a key among them to the first member that has it. For the last member, when it is an array (`Arrays`): json_array_at
  and json_array_length see the elements written and then what comes. `Inside` joins the three, and `JsonInv` says that a
  writer that has not failed stands `Inside` a document or behind a whole one. A value may then be anything that reads
  as itself wherever it stands and is not read when it is cut (`Readable`): a digit, a literal, a quoted string. Of the strings, that unescaping
  undoes escaping (`UnescapedEscaped`), and that no quote of theirs ends them. The reader's recursive functions are
  solutions of their equations, which exist because each looks only further ahead in a finite text (`SolutionExists`); where they are the same
  on two texts is shown with a least counterexample, in place of induction.
  For the sake of the proof the model has a set of `Characters`, of which keys and strings are made, and the reader's functions
  of several arguments take them as one tuple.
* `PioCorrect`: a strip has a DMA channel only while it is initialised. `NothingLeaks` counts drivers, so each
  initialisation and each undoing is shown to change one count and the block alike (`Counted`).
* `PwmCorrect`: nothing but types; each call rewrites just what belongs to its own channel, and a stop asks the neighbouring GPIO.
* `FadesCorrect`: what the counters say has passed since a fade started is its age, in spite of the wrap, until its time
  is over (`FadeSound`); and the easing curve rises.
* `StripCorrect`, whose gap is counted from the hand-over: with a wire buffer, what is not sent is still to be moved, and the deadline is as far off as the
  gap lacks (`DmaSound`); without one, how much is sent at each step of the blocking show (`ShowSound`).

These are lifted to `BenchSpec`, which the runs check, as `BenchCallsHold`, `BenchShowsTheLine`,
`BenchSensorAgrees`, `BenchHardwareIsShared`, `BenchLightIsShown`, `BenchDeliveriesAreAccounted` and
`BenchReadsBack`. The bench starts with
each component at its init (`BenchStarts`) and a step is one component's step that leaves the others' variables
(`BenchStands`, and a lemma for each component), so it implements every `[...Next]_vars` at once.

The bench stops when a bounded number of messages, bytes or inputs is used up, hence
`CHECK_DEADLOCK FALSE`. Nothing on it is said to be fair.

## Disagreements between code and documentation

Each of these is a run that TLC must find violated; `PROJECT.json` ("findings") quotes both sides.

* `config_interrupted_save`: a session whose `load` was refused for want of buffer saves over
  the only good slot (persistent_config.c:185), so an interrupted save does lose the
  previous configuration.
* `tcp_late_answer`: the answer to a lookup connects a client that was closed (tcp.c:372).
* `can_second_clear`: the second clear of RXnIF forgets a frame that came in between
  (mcp2515.c:429), where the comment says it costs one transaction.
* `mqtt_connect_again`: `mqtt_connect` during a session is refused by lwIP and leaves the state
  waiting for ever, with the session up and unused (mqtt.c:154).
* `servo_set_id`: a write of the ID that was not acknowledged is taken for one that did not
  happen (feetech.c:263), so the servo is left unlocked under an ID nobody talks to.

Five more are stated in the modules next to the property that is true, each with a configuration under which TLC
finds it false:

* `EveryEndIsReported` (`tlc -config MCTcpClientOwnClose.cfg MCTcpClient`): on_closed is "Called when an established
  connection ends, whichever side ended it" (tcp.h:112), but `tcp_client_close`, `_open` and `_deinit` end one and call
  nothing (tcp.c:426-479).
* `NeedsNoConsole` (`tlc -config MCHomeLedFirstConnect.cfg MCHomeLed`): "After that the board needs no console"
  (apps/home_led/README.md:110), but when the radio does not start at the first `wifi_connect`, `begin_attempt` returns with the
  link idle (wifi.c:158-160), net_start_if_configured looks at the result only to leave out mqtt_connect
  (net.c:293), and nothing tries again.
* `RateFailureStrandsNobody` (`tlc -config MCServoBusSetRate.cfg ServoBus`): "neither a refusal nor a failure strands a
  servo or leaves its EEPROM open" (feetech.h:137-140), but when the write of the rate landed and the pings at the new rate
  are lost, the host goes back to the old rate and sends the lock there, where the servo is not any more
  (feetech.c:335-344).
* `LatchIsWaitedFor` (`tlc -config MCStripLatch.cfg Strip`): `ws2812_is_busy` is true while a frame goes out "or while the
  latch gap after one has yet to elapse" (ws2812.h:194-195). `ws2812_show_async` clears the stall flag before the
  transfer, "so seeing it again means *this* frame has finished" (ws2812.c:341), but a machine that is still idle raises it
  again before the first word comes (as ws2812.c:377 says of the same flag). The gap is then counted from the
  hand-over of the last word, with up to a FIFO of words still to go out, so that the next frame may start
  before the line has been quiet for WS2812_RESET_US. `FramesAreWhole`, a part of `LightIsShown`, promises no more than what is left.
* `DeinitSparesTheSlice` (`tlc -config MCPwmSliceDeinit.cfg PwmSlice`): "The slice is left alone if its other channel is still
  enabled" (pwm.h:120-121), but pwm.c:164 asks the GPIO next to its own only, and a GPIO sixteen away is on the same slice:
  with outputs on GPIO 0 and GPIO 17, stopping the one stops the other.

Others were met while modelling and have no configuration of their own:

* a second open whose buffers are refused leaves the client in the state of the connection it has released (tcp.c:446-455):
  connected, or still trying, with no block and a stream that takes nothing. `OneControlBlock` names the case;
* feetech_factory_reset, "Back at the factory settings, which includes a locked EEPROM" (feetech.c:401-403), reports success
  when another servo answers at the factory ID, or one whose reset was lost was at it already; `ServoCallsHold` leaves
  that one out by name;
* after a load that was refused the sequence starts again at 0, so a save reports success
  (persistent_config.c:218) and the next load picks the other slot, whose number is higher;
* records out of page order are not always refused, as firmware_service.c:322 says
  (firmware_receive.c:80);
* a receive ring smaller than a segment stops the input for ever (tcp.c:255), where the
  documentation says it costs only throughput;
* `config_get_string` casts `capacity - 1` to `uint8_t` (config_store.c:333), so that a buffer of 257
  bytes is too small for any value;
* hex_parser.h:91 says the record is filled only when the line is accepted; it is filled
  before a malformed extension record is refused;
* "Every line ends CRLF" (log.c:145) but one that fills the buffer;
* `parse_u32` lets a value wrap (cli.c:182): `4294967297` reads as 1;
* `udp_socket_send_to` of the text `255.255.255.255` does not come by the check of `broadcast`
  that `udp_socket_send_to_endpoint` makes (udp.c:318).

## What is checked and what is proved

Theorems are listed above under each model. They hold for every value of the constants
under the named assumptions of the modules, which TLC also evaluates on every run; those about
`TcpClient` have `~LateAnswers` as a hypothesis, which says what lwIP's resolver may do.
Proved are all safety properties that the passing runs check, except `CodecsAgree`, and that `RingBuffer`
implements `ByteFifo`.

Only model-checked: `CodecsAgree`, what the code does not do, and all liveness, since the prover does not reason
about fairness, `ENABLED` or induction over data. The last can be replaced by a least counterexample where a walk has a
meaning that can be said without recursion, as those of `ConfigStore` and `JsonText` do; the checksums and
searches of `Algorithms` are folds over bytes, and what `CodecsAgree` says of them
(a damaged line or packet is refused) rests on particular polynomials and widths, so it is computed and not proved.

Assumed throughout: a checksum tells any two contents apart; memory accesses of the ring
buffer take effect in program order on the single core; a flash operation cut short leaves
each of its cells old, new or torn.

## Not modelled

`PROJECT.json` names for each component what is left out. In short: the text of console output,
log lines, discovery documents and topics; rendering and effects, which compute pixels from the
light; calibration and tuning tables of the distance sensor, whose values nothing reads back;
`config_set_u32`/`config_get_u32`, `mqtt_unsubscribe_topic`, I2C devices with 16-bit registers and
the statistics of the servo bus, which add no state anything else depends on; interrupt masking
and the parking of the other core during a flash operation, which are calls of the SDK; can2040, lwIP
and BTstack themselves, which are modelled from how `components/` uses them; test benches and demos.

A callback of the application that calls `tcp_client_open` or `_close` from within is not modelled
(tcp.c:234), nor is a mode switch of the MCP2515 held to anything after its time-out (mcp2515.c:162): no
document says what the mode is then.

## Plan

1. `RingBuffer`, `PersistentConfig`, `FirmwareUpdate`, `TcpClient`, the CAN modules, `HomeLed` and the
   bench: done.
2. Proofs: every safety invariant within the prover's reach has its theorem; of `CodecsAgree`, the parts that are
   arithmetic without recursion (the flash layout, the PWM divider) could be stated as lemmas for every input.
3. Models: callbacks of the application that call `tcp` back; the quiet period and the publication
   interval as clocks, once a bound on them is a promise; effects against the frame clock.
