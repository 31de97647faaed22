# rust-rgb in TLA+

rust-rgb is the firmware of an LED controller on an ESP32-C3: it negotiates
power over USB-C with a FUSB302 PHY, watches a BQ25620 charger, receives
Art-Net packets over Wi-Fi, drives WS2812 LEDs over SPI and serves a small web
page.  This directory holds TLA+ models of it, TLC configurations that check
them on small instances, and TLAPS proofs for every value of the constants.
Paths below are relative to the repository; `mod.rs` without a directory is
`src/pd/mod.rs`.

## 1. The system

Everything runs on one core under the embassy executor: one thread, tasks that
yield only at an `.await` that is not ready.  There are no tests and no design
document; the comments in the code are the only statements of intent.
`main.rs:45` declares a module `i2creg` whose file is not in the repository;
nothing uses it.

| component | code | state | operations |
|---|---|---|---|
| PD sink | `src/pd/mod.rs` | `PdState`, last `Status`, `pdos`, `num_pdos`, `message_id` | `tick`: one handler per state; `poll_status`, `handle_new_data`, `handle_source_capabilities` |
| FUSB302 driver | `src/pd/fusb302.rs`, `proto.rs` | none (the chip has it) | register read and write, block status read, FIFO reads, `send` |
| FUSB302 chip, PD source | not in the repository | registers, flags, FIFOs; what the source waits for | AutoCRC, transmission with retries, interrupts; capabilities, Request |
| shared I2C bus | `src/pd/i2c.rs`, `main.rs:117-126` | embassy `Mutex`: a flag and one waker | lock, transfer, unlock |
| charger monitor | `src/pd/bq25620.rs` | none | `tick`: three transfers, for ever |
| HTTP server, 3 tasks | `src/web.rs`, `main.rs:247-305` | socket, 1024 byte request buffer | accept, read headers, route, reply, close |
| Art-Net task | `src/artnet.rs` | receive buffer, LED buffer, own address | poll reply, LED update |
| byte buffers | `src/buffer.rs` | cursor | take, read, write |
| WS2812 encoding | `src/ws2812.rs` | encoded buffer | `set_led` |
| Wi-Fi connection task | `main.rs:206-240` | none (the driver has it) | start, connect, wait for the disconnect event, retry |
| boot, network task | `main.rs:75-204`, `242-245` | | set-up and spawning |
| errors | `src/error.rs` | | conversions |

Interaction: `pd::task` joins two futures, `handle_pd` and `handle_bq`; they and
the three HTTP tasks share the I2C bus through one mutex.  The chip interrupts
the sink through a GPIO pin the sink waits for by level.  The Art-Net task owns
the SPI bus alone.  All network tasks share the network stack.

### What is hard

* The sink and its chip run concurrently with a source that has deadlines.  The
  chip acknowledges on its own (AutoCRC), so the source's view can run ahead of
  the sink's.
* Every transfer can fail; `?` returns to `handle_pd`, which starts the handler
  of the present state over, on a chip that may have taken the transfer or not.
* The microcontroller restarts without the chip.
* Plugging is a race: the two CC samples are 20 ms apart and the cable has two
  orientations.
* The mutex is not fair and has one waker slot for all its waiters.
* A task that never awaits anything else monopolises the bus; a loop that never
  awaits at all stops the executor.
* The web handlers keep the guard of the bus while they write to their peer.
* The Wi-Fi driver reports events at any moment, also between the look at the
  state and the wait for the event.
* The Art-Net task indexes the data of a datagram at fixed offsets.

`PROJECT.json` lists each hazard at its line with the properties that cover it.

### What makes each component correct

* PD sink: is Online only with its chip configured and on the right line; answers
  what its chip acknowledged, and only what the chip checked; never sleeps on a
  message, on a source that has come or on a VBUS that has gone, and keeps room
  for the next offer while it sleeps.
* Bus: transfers exclude one another, no waiter is forgotten, every client is
  granted the bus.
* Selection: the request is for the object of the present message that offers
  most power up to 18 V.
* HTTP: a connection ends whatever the peer does, and no peer can keep the bus.
* Art-Net: what arrives is answered or shown, with the data it carried, and no
  datagram stops the firmware.
* Buffers: a packet has the layout its write function spells out, and is read
  back as it was written.
* WS2812: each LED shows the colour it was last given, and the reset around the
  frame survives.
* Wi-Fi: a lost link is asked for again, and the serving tasks start.

## 2. Modules

| module | what it is |
|---|---|
| `Fusb302` | the chip as operators on a record: register writes and reads, FIFOs, flags, packets.  No variables. |
| `PdSink` | the future `handle_pd`: one action per await |
| `PdSystem`, `MCPdSystem` | sink + chip + cable + source + restarts, and the properties; the bound on the FIFO after a failed transfer |
| `PdReply` | abstract: what the sink promises a source |
| `PdAnswers`, `MCPdAnswers` | the refinement mapping from `PdSystem` to `PdReply`; symmetry among the offers and the bound on faults |
| `PdSelect`, `MCPdSelect` | the choice among the power data objects, over successive messages; objects at the edges |
| `BusLock` | abstract: what the mutex promises, one guard at a time |
| `I2cBus`, `MCI2cBus` | mutex, executor and clients of the bus, which implement `BusLock`; the firmware's clients and the property that fails |
| `WebServer`, `MCWebServer` | the HTTP tasks, their sockets and peers, locking through `BusLock`; the property that fails |
| `ArtNet` | the Art-Net task, its socket and its lease |
| `ByteBuffer` | the cursors of `buffer.rs` |
| `Ws2812`, `LedStrip` | the encoded buffer; abstract: the strip it stands for |
| `MCArtNet` | the three of them side by side; datagrams at the edges |
| `WifiConnection` | the Wi-Fi task, the driver, the stack and the tasks that wait for it |
| `PdSystemProofs`, `PdAnswersProofs`, `PdSelectProofs`, `I2cBusProofs`, `WebServerProofs`, `NodeProofs`, `WifiConnectionProofs` | the proofs; `NodeProofs` has those of the modules under `MCArtNet` |
| `DataInduction` | induction and recursive functions over the natural numbers, for the proofs |

Operators whose comment begins with "Mutant" stand next to the definition they
change.  Nothing uses them: each is a plausible bug of the code, and replacing
the definition by it makes a property of a run fail.

### PdSink and the code

`pc` is the await at which `handle_pd` is suspended and `step` the position in
a run of writes; the other variables are the fields of `Pd` and the locals of
the handlers.  What the code does between two awaits belongs to the action
before it, since nothing else can run there.

| action | code |
|---|---|
| `SwReset`, `ReadId`, `FusbSetup` | `fusb_setup` (118-164), called by `handle_reset_state` |
| `StartVbus`, `PollStatus`, `WaitForLow`, `PollReturns` | `handle_wait_for_vbus_state` (276-302), `handle_online_state` (314-323), `poll_status` (229-250) |
| `RxStatus`, `RxToken`, `RxHeader`, `RxPayload`, `RxCrc` | `handle_new_data` (340-365); `RxCrc` goes on into `handle_message` and `handle_source_capabilities` up to `send` |
| `Send` | `Fusb302MessageBuffer::send` (fusb302.rs:534-563) |
| `CcDelay`, `ProbeCc1`, `SampleCc1`, `ProbeCc2`, `SampleCc2`, `EnableCc` | `detect_cc_line` (166-227) |
| `FusbReset` | `fusb_reset` (94-107) and the change to Online |
| `Abort` | any transfer that fails: `?` up to `handle_pd` (463-473) and `tick` again |

A failed write may have reached the chip or not; a failed burst read from the
FIFO has taken any number of its bytes; a failed status read has cleared any of
the flags.

The data is abstract.  An offer is a model value: two capabilities messages are
told apart and no more.  The receive FIFO holds bytes, each with the frame and
the position it comes from, so that a read that is out of step with the frames
is visible: it yields any header (`Header`) and what is answered is marked as
not `good`.  Other traffic is `"vdm"` (one data object), `"ctrl"` and
`"goodcrc"`.

### PdSystem: the environment

The chip and the source are not in the repository.  The chip does what the
driver relies on: interrupt flags are latched until read and are visible at the
pin when unmasked; `i_gcrcsent` is raised when the chip has acknowledged a
packet; a packet is received on the line being measured and acknowledged on the
line the transmitter is on; a GoodCRC goes into the receive FIFO without an
interrupt; a transmission starts with TxOn and takes what the FIFO holds.  The
source repeats its capabilities until one is acknowledged, waits for a Request
and takes a Request for its present offer as the contract.  With a contract it
may send other messages and may change its offer.  It may leave at any time.

Bounds on faults are counters in the guards: `MaxErrs` failed transfers,
`MaxNoise` lost packets or acknowledgements, `MaxBoots` restarts.  The source's
messages are bounded by the FIFO: one that does not fit is not received.

### PdReply and PdAnswers

`PdReply` says what a source may count on, without registers, FIFOs or reads: an
offer is taken in; an online sink answers the offers it has taken in once each,
in the order they came, by a good Request with the next message id; only a sink
that is not online forgets.  A restart costs at most the offer that was being
read or answered, and the ids start over.  `PdAnswers` maps `PdSystem` to it:
pending are the offer that is being read or answered (`InHand`) and those whose
header is still in the receive FIFO (`Unread`), and an answer happens with the
third FIFO write of `send`.  Between the composition of the Request and that
write the id is spent in the code but not yet in `PdReply` (`NextId`).

### PdSelect and the code

One action, the part of `handle_source_capabilities` (mod.rs:386-431) that
`PdSystem` abstracts to "an offer is answered": the copy of the objects over
those of the message before, the fold that picks one, and the fields of the
request.  An object is the two raw fields the code reads.  The code reads them
from every object whatever its `pdo_type`, so a battery, variable or augmented
object counts here as the fixed supply the code takes it for.

### I2cBus and the code

`Acquire` and `Register` are the two outcomes of `Mutex::lock`; `Continue` is
the next write of `send` under one guard; `Release` drops the guard and lets
the client go on in the same poll, either back to the lock or to another await.
`handle_bq` never has another await (`Looping`).  `StartPoll`, `EndPoll`,
`StillPending` are the executor; `TransferDone` and `Event` are interrupts and
happen at any time.  `Futures` is the order in which `join` polls: the sink
before the charger (mod.rs:502).

`BusLock` is the lock as its users see it.  `ImplementsLock` says that the mutex,
its waker, the executor and the clients together are such a lock; `WebServer`
uses the lock in place of them.  In `PdSystem` a transfer of the sink may take any
time, so that what is said there holds however the bus is shared.  That the sink
is granted the bus at all is a question for `I2cBus`, whose answer is no
(`PdGranted`).

### WebServer and the code

`pc[t]` is the await task `t` of the three is suspended at.

| action | code |
|---|---|
| `LinkUp`, `Configured`, `Listen`, `Accept`, `Finish`, `WaitClosed` | `task` (main.rs:247-305): the two loops before serving, `TcpSocket::new`, `accept`, the close and the loop that waits for the closed state |
| `ReadData`, `ReadEof`, `ReadFull`, `ReadReset` | the read loop of `handle_connection` (web.rs:104-110) |
| `Dispatch` | the parser, the routes and the argument checks (web.rs:112-192) |
| `LockBus`, `Transfer` | `i2c_read`, `i2c_read_multiple`, `i2c_write` up to the reply |
| `WriteSome`, `WriteFails`, `Flush` | `write_all` and the `flush` at the end |

Bytes are counted in units, and what a peer sends is `"part"` or `"blank"`: bytes
that end in a blank line or do not.  A request is told apart by what becomes of
it.  The socket follows the states of a TCP connection; the connection attempt
of a peer that is given up before it is established is left out.

The library (embassy-net on smoltcp 0.9) is modelled as it is used here: `read`
returns `Ok(0)` when the peer has closed its side; a read into the full buffer
may return 0 at once or never (`ReadFull` is an action without fairness);
`flush` returns when all is acknowledged or the connection is gone;
`set_timeout` ends a connection with unacknowledged data and no other, so that a
peer that connects and says nothing occupies its task for ever.  `"spin"` is a
loop that turns without yielding: every other action is then disabled, since
the executor has one thread.

### ArtNet, ByteBuffer, Ws2812 and the code

`Configured`, `Recv`, `Reply` and `Show` are the awaits of `task`
(artnet.rs:415-483): the loop that looks for an address, `recv_from`, the
`send_to` of `send_poll_reply`, and the SPI write.  `Recv` holds everything up to
the next await: `Packet::parse`, the comparison of the universe and the loop over
the LEDs, whose index beyond the data panics and stops the firmware.  A datagram
is what the parser looks at: kind, length, the flag that adds two fields, the
length an Output claims, the universe.  `ReplyRead` and `ReplyWritten` are the
fields of `PollReply::parse` and `PollReply::write` in the order of the code, with
their lengths.  The socket keeps 16 datagrams each way; one more is dropped by
the stack, `send_to` waits for room.

`ByteBuffer` is a `MutBuffer` over a slice that still holds the datagram before,
and then an `OldBuffer` over what was written: `Write` for each of the write
functions, `Pass` for the ones that take or read and leave the bytes, `Open` for
the hand-over of `pos()`, `Read` for each of the read functions.  An operation
that does not fit has no effect (`Eof`).  A byte is a digit of base `Base`; the
conversions to and from little-endian integers are written out.

`Ws2812` is the buffer of `set_led` byte by byte.  `Encoded` is the shift and or
of `set_byte`; `Decoded` reads the pulses back the way a LED does.  `Shown` maps
the buffer to `LedStrip`, in which a call changes one LED.  The code calls
`set_led` with indices below `NUM_LEDS` only.

### WifiConnection and the code

`Check` to `Again` are the awaits of `connection` (main.rs:206-240), with a place
of its own (`"wait"`) between the look at the state and `wait_for_event`: the
driver runs from an interrupt and its `LinkLost` may fall there.  The driver
latches an event until somebody clears it, and `wait_for_event` and `connect`
clear what they are about to wait for; that is what loses the event.  `missed`
records it.  `start` and `set_configuration` are unwrapped: `StartFails` ends in a
panic.  `NetTask` is one poll of the stack (`net_task`).  `Service` stands for the
loops before a task serves: an HTTP task waits for the link and then for an
address (main.rs:256-271; it is in `LinkFirst`), the Art-Net task only for an
address (artnet.rs:430-435).

## 3. Runs

| run | checks | what it shows |
|---|---|---|
| `pd_safety` | `TypeOK`, `NoLostWakeup`, `HandledGenuine`, `ImplementsReply` | no I2C error, two offers, one packet lost or one restart, anywhere: the sink implements `PdReply` |
| `pd_errors` | `OnlineConfigured`, `RightCc`, `OnlyAckedOnline`, `WireWellFormed`, `TxBacklog`, `SourceNotSlept`, `VbusLossNotSlept`, `RoomForNext` | two failed transfers and one restart, anywhere |
| `pd_acked_lost` | `AckedIsPending` | violated: see below |
| `pd_misread` | `HandledGenuine` | violated with one failed transfer: see below |
| `pd_select` | `RequestTypeOK`, `BestRequest` | all sequences of messages of up to three objects, against a reference definition over the last message alone |
| `bus_safety` | `TypeOK`, `GuardHeld`, `WaiterKnown`, `BusNotIdle`, `LoopingKeepsBus`, `ImplementsLock` | the sink, the charger and two web clients implement `BusLock` |
| `bus_starved` | `PdGranted` | violated: see below |
| `web` | `TypeOK`, `GuardIndependentOfPeer`, `BusReturned`, `ReplyEnds`, `FailedAcceptRecovers` | two HTTP tasks, another user of the bus, and peers that send, stop, close and reset at will |
| `web_eof` | `ReadEnds` | violated: see below |
| `artnet` | `PartsTypeOK`, `PanicsOnlyOnShortFrame`, `FrameWithinDatagram`, `ReplyUnderstood`, `PollAnswered`, `FrameShown`, `Layout`, `ReadBack`, `ResetKept`, `ImplementsStrip` | the node: its task, and the encodings of packets and of LEDs |
| `wifi` | `SleepsOnLiveLink`, `ConnectsWhenDown`, `Reconnects`, `ServicesStart` | the Wi-Fi task against its driver, and two serving tasks |
| `wifi_missed` | `WaitEnds` | violated: see below |

The five violations are disagreements between a comment and the code.

* `AckedIsPending`.  `detect_cc_line` turns AutoCRC on and `fusb_reset` flushes
  the receive FIFO afterwards (mod.rs:216, 102).  Capabilities that arrive in
  between are acknowledged and thrown away; the source waits for a Request that
  nobody will send.  The comment at mod.rs:213 says what happens then: "If we
  don't respond the messages in time, the peer will likely disconnect."
* `HandledGenuine`.  When a read of the FIFO fails half way through a message
  (mod.rs:343-358), its rest stays there and is parsed as the next message.
  Without failed transfers the property holds (`pd_safety`, and proved); with
  one the sink may answer bytes of which the comment at mod.rs:356 says that the
  chip "has already verified the crc".
* `PdGranted`.  `handle_bq` releases the bus and locks it again within one poll,
  so the sink, polled before it, finds it locked every time: "It is important
  that we reply quickly" (mod.rs:412).  `LoopingKeepsBus` says the same as a
  safety property, and is proved.
* `ReadEnds`.  When the peer closes its side before the blank line, `read`
  returns 0 at once, every time, and the loop of web.rs:104-110 turns without
  ever yielding; the line that answers "incomplete headers" (web.rs:119) is not
  reached.  The other properties of `WebServer` say "unless a task spins" for
  this reason.
* `WaitEnds`.  `connection` looks at the state and then calls `wait_for_event`,
  which clears the disconnect event before it waits (main.rs:211-214).  A
  disconnect in between is cleared unseen: the task is to "wait until we're no
  longer connected" (main.rs:213), and waits on although it no longer is.
  `SleepsOnLiveLink` says that there is no other way to sleep on a dead link, and
  `Reconnects` that from every other await a link that is down is asked for again.

Some behaviour is stated as the code has it, because nothing in the repository
says otherwise: an Output frame for the strip with fewer than 62 channels, which
Art-Net allows, panics the task (`PanicsOnlyOnShortFrame`: nothing else does);
a reply may carry an address that has changed since the task started, which has
read it once (`Configured` in `ArtNet`); a request whose body arrives in the same
read hides its blank line (`ReadData`); a poll that fails after its block read has
lost the notice that VBUS is gone (`VbusLossNotSlept` speaks of the time before
the first failed transfer); when the retries of a Request run out nothing is sent in its
place (`PdReply` lets a packet on the wire be lost); a cable turned over between two
polls leaves an Online sink on the wrong line (`RightCc`); and more than 18 V is
asked for if the first object is above 18 V and no other is usable
(`BestRequest`).

### Bounds and why they are enough

* `RxCapacity`.  A capabilities frame takes 11 bytes (token, header, one object,
  CRC), a GoodCRC 7.  11 holds one message, 22 two messages, 25 two GoodCRCs and
  a message, 32 three and a message; each run has the least that lets its case
  happen.  The real FIFO has 80 bytes.  `RoomForNext` needs the 32 of `pd_errors`:
  copies of the capabilities that arrive while another is read or answered are
  answered too, the GoodCRCs of those Requests lie in the FIFO and no interrupt
  comes for them, so there must be room for the next offer beside them.  With 31
  bytes three of them fill it and the property is violated; the theorem asks for
  50, and the chip has 80.
* `MCPdSystem`: after a failed transfer the FIFO of `pd_errors` holds 11 bytes at
  most (`ShortFifo`; 18 was tried as well), since every failed read leaves its own
  rows of bytes.  No property of the run depends on more once a transfer has
  failed.  The proofs know no such bound.
* `MessageIds` is 2 instead of 8, so that ids wrap.  `pd_errors`, whose properties
  do not look at the id, has a single one.
* `IdRetries` is 2 instead of 5.  With the two failures of `pd_errors` they run
  out, and `fusb_setup` ends in `SoftResetFailure` (mod.rs:129-131).
* Two failures and one restart in `pd_errors`: each action has its failing branch,
  and two failures at any awaits of any states, before or after a restart
  anywhere, are among the behaviours.  The proofs hold for any number.
* `pd_safety` has two offers, so that a Request for an old offer can be told
  from one for the present offer, and two answers can be out of order.  The
  offers are interchangeable (no definition names one, and the properties are
  safety properties), so states that differ by a permutation of them are
  explored once (`Symmetry`).  A lost packet and a restart do not occur in one
  behaviour (`OneFault`); the proofs have no such bound.
* `pd_select` has three slots instead of seven: enough for a shorter message
  after a longer one and for ties; its seven objects are those at 18 V and one
  step above, one without current, two of equal power and the largest.
* The bus runs have two HTTP tasks of three: the single waker slot is displaced
  already with two tasks waiting for it, and the third is like the second.
  `MaxHold` is 2 in `bus_safety`, which has a first, a last and no middle write;
  the invariants are proved for any.
* `web` has a request buffer of two units and a receive buffer of one: a request
  may come whole, in two reads, or fill the buffer.  The transmit buffer is as
  long as the reply of the i2c handlers and shorter than the page, which are the
  two relations the code has (34 and 73822 bytes against 4096).
* `artnet`: three datagrams with room for two, and one reply in the socket, so
  that both queues run full; the datagrams lie one byte to either side of each
  length the parser and the LED loop compare.  The buffer has five bytes, which
  four fields of up to four bytes overrun, in base 2; two LEDs have a neighbour
  on either side, and levels 1 and 178 have every pulse at the ends of a byte.
* `wifi` has two services, one of each kind, whose waits are independent;
  `wifi_missed` has one, since its counterexample needs none.

The task, the cursors and the strip of `artnet` are independent of one another:
what the task needs of the two encodings, the lengths of the fields and that an
LED shows what it was given, is what their properties say.  A behaviour of
`MCArtNet` therefore moves one of the three.

### Fairness

The PD sink has none: `PdSystem` is about safety.  Whether it ever gets to Online
or answers depends on the bus, which this firmware does not grant it
(`bus_starved`), so nothing may be promised of it in the end; what it must not
do is fall asleep on something, and that is a safety property.

In `I2cBus` the executor polls woken tasks, ends each poll (each future returns), and the hardware ends each
transfer; `Event` has no fairness.  In `WebServer` a task goes on when what it
awaits is there, a transfer ends, and the timeout strikes; a peer owes nothing,
and the lock of the bus is not fair.  In `ArtNet` the task is polled, the SPI
write ends and the stack sends; nothing need arrive.  In `WifiConnection` the
driver answers every request, by success or failure, and DHCP answers while the
link stays; nobody is obliged to keep the link.

The deadlock check is off in three runs.  In `artnet` everything may have arrived,
and a panic stops the firmware; in `wifi` and `wifi_missed` a panic does.
Everywhere else it is on: a source can come or go at any time, the charger never stops, and a loop
that spins goes on spinning.

## 4. Proofs

The proofs hold for every value of the constants that the ASSUMEs of the modules
allow.  Those give the constants their types (`WifiAssumption`: the services that
look for the link first are services), and state three facts of the code:
the frame of LEDs is whole SPI chunks (`ArtNetAssumption`), a reply fits the
transmit buffer (`WebAssumption`), and a message has at most the seven objects
that `num_data_objects`, a field of three bits, can count (`SelectAssumption`).
One theorem has an assumption of its own, `PdRoomForNext`.

Every safety property that a passing run checks is also a theorem.

### Induction over data

The induction theorems of the library take a predicate as a parameter, and no
prover at hand instantiates one.  `DataInduction` therefore states induction for
a set and recursion for a function, and proves both from the library's theorem
that the natural numbers are well-founded: `UpTo` (a set that holds 0 and with
each number below `n` its successor holds 0 to `n`), `Recursion` (there is a
function on `0..n` that starts with `base` and goes on with `next`), and
`FollowsUnique`.  To reason about a recursive function of a module, a proof shows
that it is the one of `Recursion` (`BestFold`, `EndsStep`, `BytesFold`,
`OffersFold`) and then applies `UpTo` to the set of indices at which it has the
wanted value.  The modules that are proved about write their recursions as
functions for this reason.

### PdSystem

`PdTypeOK`, `PdOnlineConfigured`, `PdRightCc`, `PdOnlyAckedOnline` (in
`PdSystemProofs`), `PdTxBacklog`, `PdWireWellFormed`, `PdHandledGenuine` and
`PdNoLostWakeup` (in `PdAnswersProofs`) are proved of `Spec` for any offers, FIFO
size and number of failed transfers, lost packets and restarts; the last two under the condition `errs = 0`, without which they are
false.  None of these properties is inductive.  `IInv` says what the registers
hold at each await:

* `PcInv` ties the await to the state;
* `PowerInv`: in `fusb_setup` the chip has been powered and unmasked as far as
  `step` says; out of Reset it is and stays so, because the only software reset
  is the first write of the Reset handler, and every error in another handler
  restarts that handler;
* `CcInv`: the receiver is on the line being sampled; from the first write of
  `EnableCc` on the line chosen; from `fusb_reset` on receiver and transmitter
  are both there and AutoCRC is on;
* `PlugInv`: unless VBUS has gone away since the first sample, a high sample of
  CC1 still means that the plug is there, and after the decision it is where
  `useCc` says.  A source that comes between the two samples is either not seen
  or seen on the right line;
* `RxInv`: after the flush of `fusb_reset` the FIFO holds only acknowledged
  frames, because `CcInv` makes the chip acknowledge whatever it receives.

`CleanInv` adds what the FIFOs and the flags hold:

* `TxBacklog`, which is inductive: a failed transfer of `send` adds two chunks at
  most, and is counted;
* `FrameInv`, as long as no transfer has failed: the receive FIFO is a row of
  whole frames but for the one being read (`Linked`), and its first byte is the
  one the next read expects.  `LinkedPop` and `LinkedAppend` say what a read and a new frame do to such a row;
* `TxInv`, as long as no transfer has failed: the transmit FIFO holds what `send`
  has written of the present message; a restart leaves more, but `SwReset` drops
  it before anything is sent;
* `LatchInv`, as long as no transfer has failed: outside `handle_new_data` an
  acknowledged message in the FIFO has its flag latched; `poll_status` clears
  the flag and then drains the FIFO, and only an empty FIFO ends the drain.

`SleepInv` adds what a sleeping sink has not missed, for `PdSourceNotSlept`,
`PdVbusLossNotSlept` and `PdRoomForNext`:

* `VbusInv`: while a sink that waits for a source is at the pin and the plug is
  there, the flag of VBUS is latched; and as long as no transfer has failed, a
  VBUS that is gone has its flag latched or has been read by the poll that is
  still draining the FIFO, whose handler will then look at it;
* `WorkInv`: as long as no transfer has failed, each packet on the wire stands for
  the eleven bytes of the offer it answers, which have left the FIFO or are being
  taken out of it (`Taking`), and no offer comes in while a packet is on the wire.
  FIFO and wire together are thereby bounded by the size of the FIFO;
* `RestInv`: after a drain only GoodCRCs come in without a flag, seven bytes for
  each packet that was on the wire.  With `WorkInv` they take at most seven
  elevenths of the FIFO and seven bytes; fifty bytes leave eleven for an offer.

Each conjunct has its lemma that every step preserves it.  `SinkCases`, `PlainStep`,
`ReadStep`, `SendStep` and `EnvironmentEffect` say once what each kind of step does
to FIFOs and flags; `OnlineReads`, `GoesOnline` and `PowerKept` do so for the
registers.

### PdAnswers: the sink implements PdReply

`PdImplementsReply` is `Spec /\ [](errs = 0) => ImplementsReply`: in every
behaviour in which no I2C transfer fails, with any offers, FIFO size, traffic,
number of lost packets and number of restarts, each step of the system is a step
of `PdReply` or a stutter.  The condition is needed.  After a failed read the rest
of a message is parsed as another one (`pd_misread`), and a failed `send` drops
its offer; neither is a step of `PdReply`.  The steps are taken one by one:

* `Unread` is a fold over the bytes of the FIFO.  `OffersConcat` says that it
  takes a concatenation to a concatenation, `OffersFrame` that a whole frame adds
  its own offer, once, and `OffersPop` what a read of some bytes takes away.  The
  last two rest on `FrameInv`: a header is found exactly once because the FIFO is
  a row of whole frames;
* `TakeInStep`: a frame the chip takes in appends to `Unread`.
  `EnvironmentStep`: nothing else outside the sink changes what is pending, except
  that packets leave the wire;
* `ReadReply`: reading moves an offer from `Unread` to `InHand` and leaves
  `Pending` alone.  `SendReply`: the third write of `send` appends one packet to
  the wire, which is good because `TxInv` says what the transmit FIFO holds, and
  takes the head of `Pending`;
* `RestartStep`, `SwResetReply` and `PlainReply`: a restart drops `InHand` and
  keeps the FIFO; the flushes of the FIFO happen in states other than Online.

The mapping needs one invariant beyond `IInv` and `CleanInv`, `AnswerInv`: messages
are read only Online, `poll_status` finds no acknowledged message in
WaitForVbus because AutoCRC is off, and during `send` the id in the Request is the
one before `message_id`.

### PdSelect

`RequestFitsFields` is type correctness: for any objects of ten bit fields, the
position fits its four bits and the currents their ten (`PowerFits`: the product
of voltage and current stays far below 2^32, and the current survives its
scaling).  `AsksForTheBest` is `BestRequest` for any objects and any number of
messages: `SelectFound` follows the fold of the code over the slots, with the
invariant that the pair it carries is the best usable object so far, or
`(0, 0)` if there is none; the slots behind `num_pdos`, which keep objects of
earlier messages, are never looked at.

### The other modules

* `I2cBusProofs`: type correctness, `GuardHeld`, `WaiterKnown`, `LoopingKeepsBus`
  and the refinement `ImplementsLock`, for any tasks, clients and order of
  polling.  `WaiterKnown` needs that the waker slot is filled only while the bus
  is locked, and that the client being polled is the next one of its task; the
  refinement needs `GuardHeld`, since a release must be the holder's.
* `WebServerProofs`: type correctness and `GuardIndependentOfPeer`, for any number
  of tasks and any lengths.  The invariant says that the guard is held exactly
  in a transfer and its reply, and that nothing is written before the reply.
* `NodeProofs`, cursors: type correctness, `Layout` and `ReadBack`, for any slice
  and any fields.  The invariant says where the reader is among the items and that
  no item reaches past the cursor.  `ConversionsInvert`, on which `ReadBack` rests,
  says that the conversions of the byteorder crate between integers and bytes are
  each other's inverse, for every base, width and value; it is proved by induction
  over the bytes.
* `NodeProofs`, LEDs: `ResetKept`, and that the buffer implements `LedStrip`, for
  any number of LEDs and any length of the reset.  The heart is arithmetic: what
  `set_byte` puts into three bytes, a LED decodes to the level it encodes.
* `NodeProofs`, task: type correctness and `PanicsOnlyOnShortFrame`,
  `FrameWithinDatagram` and `ReplyUnderstood`, for any datagrams and queues.  `ArtNetReplyUnderstood` adds the fields of
  the two lists of `PollReply` up, one after the other, and finds each name at the
  same offset in both.
* `NodeProofs`, the whole: `PartsOfNode` says that a behaviour of `MCArtNet` is one
  of each of the three, so that what is proved of a part holds of the node;
  `NodeTypeOK` is the type correctness of all three.
* `WifiConnectionProofs`: type correctness, `SleepsOnLiveLink` and
  `ConnectsWhenDown`.  The invariant `LinkKnown` says what the task may conclude
  of the link at each await.

### Model-checked only

The liveness properties: `BusNotIdle`, `BusReturned`, `ReplyEnds`,
`FailedAcceptRecovers`, `PollAnswered`, `FrameShown`, `Reconnects` and
`ServicesStart`.  Each needs the fairness of its
specification, hence ENABLED, which the prover does not handle.

The five properties that a run finds violated are false as they stand.
`HandledGenuine` is proved for the time before the first failed transfer.

`WireWellFormed` speaks of the time before the first failed transfer only.  One
that fails in the middle of `send` leaves half a packet in the transmit FIFO of an
Online sink, and the next packet carries it.  `TxBacklog` bounds what stays.

## 5. Not modelled

* `error.rs` and the wording of errors and logs: that an error ends its handler is
  in the modules of the handlers.
* The encoding of registers in `fusb302.rs` and `bq25620.rs`, and fields that
  nothing uses: the modules have the accesses, not the bit positions.
* The set-up of the peripherals in `main` (clocks, pins, SPI, DMA): straight-line
  configuration of hardware.  The tasks are there from the initial state.
* The text of requests and replies of the web server, and the content of its
  pages.
* Collision of a reply with a message of the source, message ids of the source
  and hard resets: the sink does not handle them, and the source of the model
  does not do them.
* The library code: embassy-sync's mutex is modelled whole, embassy-net, smoltcp
  and esp-wifi as far as the code depends on them.
