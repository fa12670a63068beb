# Formal models of the W80x Arduino core

TLA+ models, TLC configurations and TLAPS proofs for the stateful parts of
`board707/w80x_arduino_iot`: the Arduino core for the W800/W801 chips and the vendor SDK
below it. `PROJECT.json` is the machine-readable index (components, runs, mutants, the map
from definitions to source lines, findings, hazards, theorems).

    tlc -workers 2 -config ParamStore_power.cfg MCParamStore     # a run
    tlapm ParamStoreProofs.tla                                   # the proofs

## 1. The system

| Part | State | Operations | Talks to |
|---|---|---|---|
| Parameter manager (`wm_param.c`) | `flash_param` (magic, modify_count, partition_num, parameters) in RAM, two copies in flash, `sys_param_lock` | init and repair, set, save, reset to default, get | flash driver; every task |
| Firmware update (`wm_fwup.c`) | `struct tls_fwup` (session, state bits, lengths, program address, packet number), `wait_list`, the scheduler's request, the header `booter`, the OTA flag | enter, exit, reset, clear_error, set_crc_error, request_sync, the scheduler task | flash driver; UART, socket and HTTP callers; boot loader |
| Flash driver (`wm_internal_fls.c`) | sector cache `gsflscache`, `gsSector`, `fls_lock` | write, read, erase; fast write init, write, destroy | the two above |
| MQTT client (`MQTTClient.cpp`, lwmqtt) | connected flag, packet ids, keep alive and command timers, pong flag, buffers | connect, publish, prepareDuplicate, subscribe, unsubscribe, loop, disconnect, message callback | a `Client` (TCP), the sketch, a broker |
| TCP client (`ClientContext.h`, `WiFiClient.cpp`) | pcb, receive chain and offset, data source and send state, time-outs | connect, write, read, peek, close, abort, the callbacks of lwIP | lwIP in the TCP/IP task; the sketch |
| TCP server and client objects (`WiFiServer.cpp`, `WiFiClient.cpp`) | list of unclaimed connections, listening pcb, reference counts, the objects | begin, accept, available, close; construct, copy, assign, stop, stopAll, destroy | lwIP in the TCP/IP task; the sketch |
| Worker tasks (`wm_wl_task.c`, `wm_wl_mbox.c`, `wm_wl_timers.c`) | mailbox, static messages with their counts, list of relative timeouts | post a callback, static or allocated; arm and cancel a timeout; the worker's loop | tasks, interrupt handlers, the worker itself |
| UDP (`UdpContext.h`, `WiFiUDP.cpp`) | receive and send chains, first-buffer flag | begin, next packet, read, send | lwIP; the sketch |
| Serial (`HardwareSerial.cpp`, `wm_uart.c`) | pending list, FIFO, list of messages to be freed; the sketch's buffer and its two indices | write, transmit and receive interrupt, freeing, read, readString, readStringUntil | interrupts; the sketch and other tasks |
| Hardware timers (`hw_timers.cpp`, `wm_timer.c`) | bitmap of six timers, contexts, one control register | set, start, stop, change, destroy, ISR | interrupts; the sketch |
| I2C (`Wire.cpp`, software and hardware back end) | transmit and receive buffers | begin/endTransmission, requestFrom, read, write | the bus |
| Pins and interrupts (`Arduino.cpp`) | interrupt contexts | attach, detach, ISR | interrupts |

What is hard: power loss between any two flash operations; API calls of several tasks
that test a state before a critical section and change it inside; a scheduler that uses no
lock for the fields the API changes; callbacks that re-enter the client they are called
from; acknowledgements, timeouts and lost connections in any order; sector boundaries;
chains, lists and buffers that an interrupt or the TCP/IP task extends while the sketch's
task takes them apart without a lock; counters loaded and stored around a preemption.
`hazards` in `PROJECT.json` lists these at their lines.

The rest of the repository is listed under `components` as not modelled, with the reason:
vendored projects (lwIP, FreeRTOS, mbedTLS, fatfs, libwebsockets, Bluetooth, mDNS, iperf),
prebuilt archives, register-level drivers, formatting and parsing, AT commands and pages.

### What makes each part correct

* Parameters: a block that was reported as saved is never replaced by an older one,
  whenever the power fails; the spare copy is rebuilt, and start-up repairs whatever a race
  or a failure left behind; the lock is given back.
* Firmware update: the boot loader is told of an image only if all of it that the checksum
  covers is in the update area; every request is answered; a repeated packet does no harm.
* Fast write: every byte handed over reaches its address; nothing else is overwritten.
* MQTT: a publish that returned true reached the broker; a message is acknowledged only
  after the sketch saw it; connected() is true only for a connection the broker accepted;
  a pong timeout is not reported with the pong in the buffer; calls return; a vanished
  broker is noticed.
* TCP client: bytes are read once and in order; the receive window is given back for what
  is read; the stack has no callback left into a deleted context; connect and write end.
* TCP server: each accepted connection is handed out once and in order; a context lives
  exactly as long as an object holds it.
* Worker tasks: a callback that was asked for runs; timeouts keep their own times however
  the list is changed, do not fire early, and fire.
* Serial: what tasks write is sent whole, in order and without another write to push it;
  messages are freed once; what is received is read at most once and in order.

## 2. Modules

| Module | Models | Checked by |
|---|---|---|
| `ParamRegister` | what the parameter store promises: one block, replaced atomically, kept across power loss | refinement target |
| `ParamStore` | `wm_param.c` and the flash writes it makes | `param_*` |
| `MqttClient` | the client: Arduino wrapper and lwmqtt | through `MqttSession` |
| `MqttSession` | client, network and broker (external) together | `mqtt_*` |
| `Fwup` | `wm_fwup.c`: API, request list, scheduler; `uart_fwup_send` | `fwup_*` |
| `FastWrite` | the fast write path of `wm_internal_fls.c` | `fast_*` |
| `TimerQueue` | what the worker's timeouts promise: a queue in which each has its own time | refinement target |
| `WlTask` | a worker task: mailbox, static messages, timeouts | `wl_worker` |
| `ClientContext` | one TCP connection: the sketch's calls and lwIP's callbacks | `tcp_connection` |
| `WiFiServer` | accepted connections and the `WiFiClient` objects that hold them | `tcp_server` |
| `HardwareSerial` | UART 0 and the sketch's buffer | `serial_port` |
| `*Proofs` | theorems about `ParamStore`, `MqttSession`, `Fwup`, `FastWrite`, `WlTask`, `ClientContext`, `WiFiServer`, `HardwareSerial` | tlapm |
| `MC*` | model values and small sets for the runs | |

Definitions marked `(fault)` are deliberately wrong versions of the definition that follows
them. No specification uses them; `mutants` in `PROJECT.json` names the property each one
must break, which shows that the property depends on that piece of code.

### ParamStore

`flash` is the two partitions, each an image (magic, count, parameters, checksum state) or
something erased or half programmed; `ram` is `flash_param` with its `magic`, `crc` what the
last save computed, `sem` the holder of `sys_param_lock`, `job` the position of each task in
`param_to_flash`, `mode` off, booting or running, and `lastOK` a history variable: the block
that start-up has to load. The whole parameter structure is one value, because saves write
it as a whole: a block some caller wrote, `NoParams` for one that was cleared, or `Mixed`
for one with fields of several.

One action per operation: `tls_param_init` with `Repair`, `tls_param_set`,
`tls_param_to_flash` (`FlushSame` finds nothing to do, `FlushWrites` starts a save),
`tls_param_to_default`, which takes no lock in the code and takes none here. It is cut into
the clearing of the block, the refill (`Fill`), the two writes and the clearing of the magic
(`Unmark`); a save of another task that runs in between stamps, programs and verifies the
block as it then is, so that a refill that other fields get into ends as `Mixed`.
`param_to_flash` is cut where power loss or another task can be seen: `Stamp` (count and partition advanced
in RAM), `Erase`, `Program`, `VerifyMore`/`VerifyDone`, and the failures `AllocFails` and
`VerifyFails`. `PowerLoss` is possible at every step. `Stamp` (magic, count, partition,
checksum and address) is one step, and so are the clearing and a refill that nothing
interrupts: a reset that changes the block while the checksum is being computed is seen
before or after it. The block of `tls_param_init` that
lines 478 to 490 hold cannot be reached and is not modelled.

### MqttClient and MqttSession

`stack` holds the calls in progress, innermost first: a callback that publishes runs inside
the wait of another call, on the same buffers and the same command timer. Each entry has
the packet it still has to write, the packet type it waits for and what it still may read.
`rx` and `tx` are the byte streams as sequences of packets; unread bytes survive `stop()`
and are dropped by the next TCP connect, as in `WiFiClient`. `kaDue` and `cmdDue` are the
timers: running or expired, with an action for the moment they expire. `okPub` and
`delivered` record what `publish` returned and what the callback saw.

`Step` is one turn of the innermost call: write, read and handle one packet, find nothing
to read, return from the callback, do the keep alive. `StepFails` holds the errors: a write
to a broken connection, a packet cut off. `MqttSession` adds the environment: the broker
takes, confirms and sends messages in order over the connection, may refuse a connect, and
may vanish; the connection may break between any two steps.

### Fwup

`fw` is `struct tls_fwup`, with lengths in blocks; `area` the update area; `flag` the OTA
flag. A packet is one block of an image, the first one with the header. The last block of a
signed image (`Signed`) is its signature, which `Verified` leaves out as
`wm_fwup.c:279` does. The tests at the
top of `tls_fwup_enter`, `_exit`, `_reset`, `_clear_error` and their critical sections are
separate actions (`EnterCheck`/`Enter`, `LeaveCheck`/`Leave`), because another task or the
scheduler may run in between; so are the list operation and the message of a request
(`Enqueue`, `Kick`). The scheduler is cut into `Receive`, `Start` (the check of the header
and the lengths), `WriteHeader`, `WriteBlocks`, `Account`, `Verify`, `SetFlag`, `Finish`
(the request is taken off the list), `ClearBusy` and `Done`. Each of these is one step: in
particular the test for an empty list and the clearing of BUSY after it are, and
`current_state |= x` and `&= ~x` are not cut into load and store. A wrong header leaves
`received_len` at the size of the header, as line 209 does. `Pick` looks up
the following request before the current one is processed, as `dl_list_for_each_safe` does.
`WriteBlocks` writes through; that the cache in between is empty when the verification
reads the flash is what `FastWrite` establishes.

A checksum is taken as exact: `Verified` compares the blocks under it. With `Numbered` the packets come
through `uart_fwup_send`, otherwise from a caller that sends anything.

### FastWrite

An address is a sector and an offset, a byte is identified by its session and address. A
write is `tls_fls_fast_write` (the flush of a stale cache) followed by one `Copy` per turn
of its loop. A session that is given up leaves `gsSector` and the cache; a new cache holds
what the heap held.

### WlTask and TimerQueue

`mbox` is the worker's queue, `cnt` the counter of each static message, `timers` the list of
timeouts with times that count from the entry before, `worker` and `call` what the worker
and each caller is doing. An interrupt handler posts in one step (`IsrPost`), since nothing
preempts it on this single core; a task is cut before the post, between its tries, and
between load and store of `cnt++`, as is the worker around `cnt--`. Functions and timeout
handlers run in the worker and may themselves call the API (`call["worker"]`).
`Receive` ends a wait with a message and takes the whole ticks that passed from the first
timeout; `Expire` ends it with the timeout; `Tick` is the clock, which moves only while the
worker waits. Times of more than 32 bits in `timeout * HZ / 1000` (`wm_wl_mbox.c:135`) are
left out. Shared slots, posted by tasks and interrupts alike, are in the model and
excluded from the claims on the counter.

`TimerQueue` is the promise: a queue of timeouts each with its own remaining time, ordered,
from which time takes the same amount everywhere. `WlTask` implements it with the sums of
the relative times as the mapping.

### ClientContext

`pcb` is the state of lwIP's connection or null, `rx` the chain of segments with the offset
of the first, `unacked` the part of the receive window that was not given back, `sketch` the
call in progress with its locals. `hooks` counts which of `tcp_arg`, `tcp_sent`, `tcp_recv`,
`tcp_err` and `tcp_poll` are still set: `close()` and `abort()` take them away in this order,
one `Detach` each, before `Closed`. Until then the TCP/IP task may run: a callback that comes
after `tcp_arg` is gone has a null context (`NullContext`), and `tcpip` becomes `undefined`,
from where nothing continues. `unref` discards what was received in one step (a segment that
arrives inside it is freed with the rest, and the connection is closed next), then releases
the connection, then deletes the context; a segment that arrives after the discarding and
before `tcp_arg` is gone stays in a chain that nobody frees. `_consume` is cut where the TCP/IP task can run: after the
copy, after the test of `next`, after the free, before the chain is cleared. A segment that
`_recv` appends in between goes into `lost`, which is what the code does to it. A write is
cut at its turns: `WriteSome` sends what fits into the send buffer chunk by chunk, `Wake`
polls, `Check` decides on progress and time-out; `_acked` and `_poll` count `_send_waiting`
down from 1 and delay (`FromCb`), and send nothing themselves. `PeerCloses` and `_error` are the two ways in which the stack ends a connection;
`_notify_error` holds them back for the sketch (`NotifyDelays`, `Resume`). `FinAborts` is the
`abort()` after that delay: during a release of the sketch, or on a context deleted by then,
its outcome is `undefined`, or in the last case nothing. Loading `_pcb` once for test and use
is assumed.

### WiFiServer

A connection's context has a state, a count and a `next`; an object (`Handles`) holds a
context, nothing, or does not exist. `_accept` appends in one step; `available` is cut
between the claim of the head and the read of its `next`, and what is appended in that gap
is recorded in `missed`. `begin` is one step, although `tcp_accept` is set before `tcp_arg`
(`WiFiServer.cpp:67`) and a connection accepted in between finds no server. The constructors do not initialise the list; the model starts from
a server with static storage, where it is empty.

### HardwareSerial

Sending: `pending` holds messages with their unsent bytes, `fifo` the port's FIFO, `tofree`
the messages that are done, `writer` what each task does. The critical sections of the
driver are single actions, everything between them is open to the interrupt and to other
tasks; the interrupt runs to its end, including its freeing. Receiving: `RxInterrupt` is the
handler together with `uart0_rx_cb`, which it calls: at most `BufSize - 3` bytes go to the
front of `_serial_buf` and both indices are set. `read()` is cut between the load of its
indices, the load of the byte and the store of the index, as the `-O2` build has it.
`readString` and `readStringUntil` end in a `memset` over `begin - end` bytes; with unread
bytes the length is negative, and the model goes to the state `wiped`, from which nothing
continues.

## 3. Runs

Every passing run checks its properties in every reachable state of its instance.

| Run | Instance | Shows |
|---|---|---|
| `param_power` | two tasks, three blocks, count up to 7, power loss anywhere | `TypeOK`; `AckedSurvives`: start-up never loads a block older than the last one reported as saved; `FlashReadable`: with no write under way the partition `partition_num` names holds a valid block; `RedundancyKept`: both copies are good whenever nothing is being written; `AtomicBlock`: the whole refines `ParamRegister`; `LockReleased` |
| `param_reset` | two tasks (symmetric), two blocks, count up to 2, resets without lock in the middle of saves, allocation failures, power loss; history variables outside the view | `StartUpHeals`: whatever is in the flash, a start-up without error leaves both copies good and would load the same block again |
| `mqtt_session` | two outgoing, two incoming messages (one too large), ids wrapping at 2, three calls, no nesting | `PublishConfirmed`, `ConnectedMeansAccepted`, `PongTimeoutJustified` |
| `mqtt_nested` | nesting depth 2, three calls, one outgoing message, two incoming, the second too large and dropped | `AckedWasDelivered`, `CallsReturn`, `VanishedBrokerNoticed` |
| `fwup_update` | one task, two images of three packets, one of them signed, all API calls, flash errors, power loss | `FlagMeansVerified`: header and every block under the checksum are those of the image the flag announces |
| `fwup_uart` | numbered packets of a four-packet image, three sessions | `NumberedNeverFails`, `RequestServed` |
| `fwup_forgotten` | violation, two tasks | a request nobody looks at |
| `fast_stream` | sectors of 3 bytes, image at an unaligned address, writes of 1 to 7 bytes, two sessions, restarts | `NothingLost`, `ImageInFlash`, `IInv`, the invariant of the proofs, and `OtherSectorsKept`: sectors before the image are never touched |
| `wl_worker` | one task, the worker and two interrupt slots (one shared), a mailbox of two, two tries, two handlers, times of 2 and 3 ms at 2 ms a tick | `StaticSound`: types; `CntExact`, the count of a slot is the number of its messages; `RunToCome`, a static callback that was asked for, refused or not, still runs; `NeverEarly`; `RefinesQueue`: refinement of `TimerQueue`; `TimersFire` |
| `tcp_connection` | segments of 1 and 2 bytes, a window of 3, reads and writes of 1 and 3, a send buffer of 2, two polls to the time-out | `InOrder`, `WindowExact`, `AssertWaiting`, `CallbacksToLive`, `CallsReturn` |
| `tcp_server` | three connections, three objects, symmetric in both | `ContextsSound`: types, counts equal to the number of holders (`RefExact`), no object with a deleted context (`NoDangling`); `ClaimOrder`; `NoneStranded` |
| `serial_port` | two tasks, messages of 1 and 3 bytes, a FIFO of 2, four received bytes, one of them zero and one a terminator | `TxExact`, `FreedOnce`, `ReadInOrder`, `AllSent` |

### Bounds

* `MaxCount` bounds the saves. Seven of them write each partition several times, before and
  after repairs. The count's width is the constant `CountMod`, 65536 here and in the code.
* `MaxCalls` bounds the top-level MQTT calls. The state between calls is small, and three
  calls cover connect, a publish that times out and one that meets its late
  acknowledgement. With nesting, three calls are the connect, a publish or subscribe that
  waits, and one of the callback inside it that restarts the shared timer. Large messages
  come with QoS 0, since they are dropped unread. `MaxId` is small so that ids wrap; it
  stands for 65535.
* `MaxSess` bounds update sessions; two are enough for one to find what another left.
* Sectors of three bytes have a first, a middle and a last byte, writes of seven span three
  sectors, and all alignments occur.
* `MaxReq = 3` calls of the worker's API let one caller arm, cancel and post, or three calls
  meet; two tries and a mailbox of two fill it and run out of tries. Times that are and are
  not multiples of a tick show the rounding.
* Two writes of up to three bytes over a send buffer of two need several acknowledgements
  and can time out with data under way; four bytes in segments of one and two give chains of
  up to three segments, with a window that fills.
* Three connections and three objects are enough for a list with a middle, and for copies
  that outlive the original. The count's width is the constant `RefMod`, 256.
* Messages longer than the FIFO take several turns; two of them let a task finish the
  other's message. A receive buffer of 5 keeps 2 bytes of a batch of 3, so bytes are dropped,
  replaced and read.
* Deadlock checking is off where the system may rest (`CHECK_DEADLOCK FALSE`): a sketch may
  stop calling, an update may stop, the bounds may be used up. The parameter runs have it on.

### Fairness

`ParamStore`: a task inside a save goes on with it, and the start-up is carried through; no
task has to call anything. `MqttSession`: a step of the innermost call is taken if one is
possible, since the call is a loop in the sketch's task; timers expire; the sketch keeps
calling `loop()`, which the library requires. The broker and the network are under no
obligation. `VanishedBrokerNoticed` needs the sketch to stop publishing at some point
(`MaxCalls`), because every packet sent restarts the keep alive timer; `CallsReturn` needs
the callback to stop likewise, because every nested call restarts the command timer of the
call it is in. `Fwup`: the scheduler
task runs, and a task inside a call goes on with it; nothing obliges a task to send packets.
`WlTask`: the worker and tasks inside a call go on, and the clock ticks; interrupts and
callers are free, and `TimersFire` exempts interrupts that never stop posting, for which it
fails. `ClientContext`: the sketch's call goes on and its polling time passes; the peer owes
nothing. `HardwareSerial`: the port sends what is in its FIFO, raises and gets its
interrupt, and a task inside a write goes on.

### Disagreements between code and documentation

The run `fwup_forgotten` is listed under `findings` with the lines that say otherwise: a
request appended while the scheduler works on what it took for the last one is neither
announced nor found. The same models show more with other constants, or have the behaviour
in them as an exemption that a property names; each is a hazard in `PROJECT.json`:

* A save that fails for lack of memory has already switched partitions, and the next one
  erases the newest good block (`wm_param.c:339`; `wm_params.h:562` promises a block in
  flash): `AllocMayFail = TRUE` in `param_power` violates `AckedSurvives`.
* A publish from the message callback takes the outer publish's acknowledgement for its own,
  since ids are not compared (`client.c:523`; `lwmqtt.h:313`: "wait for all acks to
  complete"): `MaxDepth = 2` in `mqtt_session` violates `PublishConfirmed`.
* A callback that publishes for every message it gets keeps an outer publish or subscribe
  that is never acknowledged waiting for as long as messages come (`client.c:469`, `394`):
  `CallsReturn` holds because `MaxCalls` stops the callback.
* A dropped oversized packet ends the yield with bytes unread, and the keep alive reports a
  pong timeout (`client.c:390`; `client.c:377`: "loop until timeout has been reached"):
  `DropOverflow = TRUE` in `mqtt_session` violates `PongTimeoutJustified`.
* An image that ends at the end of a sector makes `tls_fls_fast_write_destroy` overwrite the
  sector behind it with the stale cache (`wm_internal_fls.c:1243`); `OtherSectorsKept` names
  that sector as the only other one.
* A segment that arrives while `_consume` clears the chain is lost, and with it its share of
  the receive window (`ClientContext.h:481` to `487`); `WindowExact` counts it.
* Between `tcp_arg(NULL)` and the end of `close()` or `abort()` a callback runs on a null
  context (`ClientContext.h:68`), and the `abort()` of a peer's close delayed in
  `_notify_error` may run on a deleted one (`508`); `CallbacksToLive` names these two as the
  only ones.
* A connection accepted while `available()` takes the last one off the list is lost
  (`WiFiServer.cpp:88`); a `WiFiClient` assigned to itself deletes its context
  (`WiFiClient.cpp:74`). `NoneStranded` and `NoDangling` (part of `ContextsSound`) exempt exactly these.
* `connected()` answers 0 with unread data after the peer's close (`WiFiClient.cpp:461`),
  where the note above it (`456`) says 1: the close aborts the pcb, and the state of a null
  pcb is tested first.
* The receive interrupt overwrites unread bytes (`HardwareSerial.cpp:56`); `read()` never
  gets past a zero byte (`177`); `readStringUntil` with bytes behind the terminator clears
  memory (`257`).
* A static message shared by a task and an interrupt loses a count and is never posted again
  (`wm_wl_task.c:82`): the slot counts of
  `StaticSound` leave shared slots out for that reason.
* A reset to defaults writes both partitions in place and takes no lock; power loss between
  the two leaves start-up with the older block: `ResetAllowed = TRUE` in `param_power`
  violates `AckedSurvives`. A save that runs into the reset may program a half-filled block
  with a right checksum, which start-up loads, or report success for a sector that start-up
  will find damaged (the magic or the checksum of another moment); the partition number in a
  good sector may name the other one. `param_reset` shows what still holds.
* `modify_count` wraps: `CountMod = 4` in `param_power` violates `AckedSurvives`.
* `tls_fwup_exit` between the end of the last request and the reset cancels the reset and
  lets the next session overwrite the area while the OTA flag stands: two tasks, two images,
  `N = 2`, `Numbered = TRUE`, exit allowed, two sessions violate `FlagMeansVerified`. With one
  image and one session the exit clears `program_base` under a request that is being written.
* `tls_fwup_reset` keeps `received_number`: reset allowed in `fwup_uart` violates
  `NumberedNeverFails`.
* `prepareDuplicate()` has no effect: `publish()` clears the id before lwmqtt reads it
  (`MQTTClient.cpp:408`), and the model's `publish` does the same.

## 4. Proofs

Every safety invariant, action property and refinement that a passing run checks is also a
theorem. The runs show it on one instance; the theorem holds for any tasks, messages,
images, sizes and bounds that satisfy the assumption named in the component's module, and
is checked by TLAPS to the last leaf. Where a theorem has a hypothesis, it excludes what
section 3 describes under the disagreements, where the code really breaks the promise. TLC
agrees with every invariant below on the instances of the runs.

| Module | Theorem | States | Hypothesis |
|---|---|---|---|
| `ParamStoreProofs` | `TypeCorrect` | `TypeOK` | |
| | `SavedBlockSurvives` | `AckedSurvives` | `Reliable` |
| | `NamedPartitionReadable` | `FlashReadable` | `Reliable` |
| | `BothCopiesKept` | `RedundancyKept` | `Reliable` |
| | `ImplementsRegister` | `AtomicBlock` | `Reliable` |
| | `FlashHealed` | `StartUpHeals` | |
| `MqttSessionProofs` | `SessionTypeCorrect` | `TypeOK` | |
| | `AcknowledgedDelivered` | `AckedWasDelivered` | |
| | `ConnectedIsAccepted` | `ConnectedMeansAccepted` | |
| | `PongTimeoutIsJustified` | `PongTimeoutJustified` | `~DropOverflow` |
| | `PublishIsConfirmed` | `PublishConfirmed` | `MaxDepth = 1` |
| `FwupProofs` | `FwupTypeCorrect` | `TypeOK` | |
| | `FlagSetVerified` | the step that sets the flag finds the header and every block under the checksum | |
| | `FlagAnnouncesVerified` | `FlagMeansVerified` | `OneCaller` |
| | `NumberedUpdateNeverFails` | `NumberedNeverFails` | `Uart` |
| `FastWriteProofs` | `Inductive`, `NeverLost`, `ImageComplete`, `OthersUntouched` | `IInv`, `NothingLost`, `ImageInFlash`, `OtherSectorsKept` | |
| `WlTaskProofs` | `StaticCallbacksSound`, `TimeoutsNeverEarly` | `StaticSound`, `NeverEarly` | |
| | `ImplementsTimerQueue` | `RefinesQueue` | |
| `ClientContextProofs` | `ContextTypeCorrect`, `BytesInOrder`, `WindowAccounted`, `WaitingIsZero`, `NoCallbackToDeleted` | `TypeOK`, `InOrder`, `WindowExact`, `AssertWaiting`, `CallbacksToLive` | |
| `WiFiServerProofs` | `ContextsCounted`, `ClaimedInOrder`, `AllReachable` | `ContextsSound`, `ClaimOrder`, `NoneStranded` | |
| `HardwareSerialProofs` | `SerialTypeCorrect`, `SentExactly`, `MessagesFreedOnce`, `BytesReadInOrder` | `TypeOK`, `TxExact`, `FreedOnce`, `ReadInOrder` | |

The hypotheses, in words. `Reliable`: no allocation failure, no concurrent reset, the count
does not wrap. `~DropOverflow`: an oversized packet is an error, not skipped. `MaxDepth = 1`:
the message callback makes no calls. `OneCaller`: at most one task uses the update API, with
all its calls, flash errors and power loss. `Uart`: one task sends numbered packets of one
image into a flash that works, and may leave and enter sessions. `WiFiServer` assumes fewer
objects than the count can hold, which is what `_refcnt` needs in the code.

### The invariants

`ParamStoreProofs`. `AckedSurvives` alone is not inductive: it says nothing about where a
save is. `IInv` adds, for each position of a save, which partition is being written, that
the other one holds the last good block with a smaller count, what RAM and the checksum
hold, and who owns the lock; and, for start-up, which partition a repair writes. Each action
preserves this conjunct by conjunct. `BothCopiesKept` is its case with no call in progress;
the refinement follows because only the step that completes a block changes what start-up
would load. `FlashHealed` needs none of the conditions and has an invariant of its own,
`HealInv`: start-up runs alone, and at each step of a repair the other partition is good and
holds the parameters that are in RAM (or, with both damaged, the first of the two writes is
followed by the second). Nothing is assumed of what the flash held before.

`MqttSessionProofs`. `Base` types the calls in progress and the packets both ways relative
to what was delivered: a PUBACK, PUBREC or PUBCOMP that is pending in a call or under way
names a delivered message, which gives `AcknowledgedDelivered` through any nesting.
`Session` says how far a connect is (`Handshake`: the CONNECT is about to be sent, or is all
that was sent, or its answer is the first packet to be read), and that outside of a connect
no CONNECT is under way and a DISCONNECT only on a closed connection; only with that does
`connected()` mean something while the broker's answers are delayed. `Yielded`: the outer
calls are all in their callback, and `loop()` reaches its keep alive in time only after it
read everything it saw. `Published`: there is at most one exchange for a message of the
sketch, and its one packet is about to be written, on its way to the broker, or on its way
back, and fits what the call waits for; what an earlier call left behind was dropped with
its connection. That is why ids need no comparison as long as calls do not nest.

`FwupProofs`. `TypeInv` adds to the types how lengths, status and scheduler belong together
(`Flow`), which holds while other tasks close and open sessions in the middle of a request.
`HeaderInv`: from the write of the header on, and as long as no call has cleared the session,
the header in the update area is the one in RAM, and at the flag all blocks under the
checksum are those of that header; hence `FlagSetVerified` for any number of tasks. That the
flag goes on announcing such an image needs one caller: `OneInv` says that the task is inside its request
while the scheduler works on it, `FlagInv` that nothing but the end of the request and the
reset follows the flag. `NumInv` ties `received_number` to the packets in the update area,
for the packet that is waiting, being written and accounted.

`FastWriteProofs`. `NothingLost` and `ImageInFlash` become inductive with two facts: the
cache is for the sector of the next byte as soon as a byte of the image is in it, so a flush
for "another sector" never touches the image; and the position never lies before the image's
start. `OthersUntouched` adds that `gsSector` is 0 or lies at or behind the image's first
sector, and that a step changes no sector but the one it names.

`WlTaskProofs`. `TypeInv` says which message the worker has at each step and that a timeout
is no further away than the longest time asked for. `SlotInv`: a slot that is not shared is
in one place, the mailbox or the worker's hand, and `cnt` says whether it is; so the refusal
on `cnt > 0` is right although the worker stores `cnt` late. `EarlyInv`: the sum of the
relative times up to a timeout, less the ticks waited, is what it is owed but for the
rounding. The refinement rests on lemmas about these sums: what insertion in the middle,
removal and the end of a wait do to the sum up to each entry.

`ClientContextProofs`. `Inv` has `Types`; `Sending`, what a chunk may add to the send buffer
and when `_send_waiting` is zero; `Living`, a connection has all five callbacks until the
sketch is in `close()` or `abort()` and none once it is gone, and only there, or after the
deletion, can a callback be without its context; `Chain`,
the chain holds the last bytes that arrived, in order, and the offset lies inside its first
segment; `Order`, all that was read came before what will be read, also between the copy, the
free and the clearing of the chain; and `WindowExact`.

`WiFiServerProofs`. `CountInv` has the counts; `ListInv` the shape of the list in each phase
of `available()`: which contexts nobody holds, that `next` leads only to such, joins no two
contexts, and that what the list no longer leads to is in `missed`; `OrderInv`, that `next`
leads to later connections and what is left was accepted after all that was claimed.

`HardwareSerialProofs`. `TxLine` is the sequence of all bytes from wire to pending list, with
lemmas on flattening a list of messages whose first one shrinks; `FreedInv`, that the places
of messages are disjoint and message numbers are not given out twice; `RxInv`, that what
lies ahead of the index `read()` has or will store came after everything it returned, also
when the interrupt moves the bytes and both indices between its loads and its store.

### Induction over data

The library's induction theorems take a predicate and cannot be used with the installed
provers. The sums of `WlTask` and the flattened lists of `HardwareSerial` and `ClientContext` are
recursive functions; facts about them are proved by induction on a set of
numbers, whose least counterexample exists because `<` on the naturals is well founded
(`WFMin`, `NatLessThanWellFounded`), after a lemma that a function with the recursive
equations exists.

### Only model-checked

Liveness (`LockReleased`, `CallsReturn`, `VanishedBrokerNoticed`, `RequestServed`,
`TimersFire`, `AllSent`), which the prover cannot do under fairness; and the run
`fwup_forgotten`, whose result is a counterexample.

## 5. Not modelled, and the plan

Inside the modelled parts: the user default parameters of `wm_param.c` (lines 561 to 583 and
1440 to 1544), parameter ids and field conversion; MQTT packet bytes, the will and other
settings, `connect(skip)`, a callback that connects or disconnects, a keep alive of 0; image
headers split over packets, the contents of signatures, the one-shot and auto-connect flags
around an update; the register level of the flash; the race of a callback that clears `_pcb` between
the sketch's test and its use, and what follows once a callback used a null or deleted
context; UART 1 to 4, flow control and DMA; the creation of
worker tasks.

Not modelled at all, among the core's own parts:

* UDP: the same unlocked receive chain as `ClientContext`, without window, time-outs or
  shared handles.
* Hardware timers, pin interrupts: single unlocked read-modify-write races, which the
  hazards give at their lines; no property beyond them.
* I2C, SPI, Print, String, IPAddress, DNS server: sequential code, formatting and parsing.
* WiFi station, access point, scan: wrappers around a library that is delivered without
  source.

Known weak spots that no model covers, at their lines:

* `wm_timer.c:179`: start and stop read, modify and write the control register of all six
  timers, so a timer stopped by a callback in between runs again; `hw_timers.cpp:19`:
  `set()` never destroys a timer, and after six calls there is none left.
* `Arduino.cpp:216`: `detachInterrupt` clears the pin before it disables the interrupt.
* `wm_uart.c:675`: on UART 1 to 4 the interrupt moves `tail` in the middle of
  `tls_uart_read`.
* `UdpContext.h:379`: datagrams that arrive during a read are chained to the one being read.
* `wm_cmdp_hostif.c:1876`: untimeout and add_timeout around a firing handler leave two
  timeouts of it; `wm_wl_timers.c:92`: without memory a timeout is forgotten silently.
* `client.c:271`: a repeated QoS 2 message reaches the callback twice; `MQTTClient.cpp:40`:
  the timer's arithmetic is one off at the clock's wrap.
* `wm_fwup.c:386`: two tasks may both open a session; `wm_fwup.c:420`: a failed allocation
  of the sector cache is ignored.

Next are weaker hypotheses for the theorems that have one: `FlagMeansVerified` for several tasks
that do not leave a session another one is in, `PublishConfirmed` for callbacks that publish
with QoS 0 only, and `NumberedNeverFails` with flash errors that the sender repeats.
