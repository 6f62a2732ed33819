# A verification of ESP32_deskflow

The program in `src/` makes an ESP32-P4 a screen of a deskflow (Barrier)
server: it keeps a TLS session to the server over Ethernet and turns what the
server sends into reports of a USB keyboard and an absolute mouse. Its
configuration and certificates come from a USB stick and can be changed
through a web page. It runs as half a dozen FreeRTOS tasks on two cores, plus
the callbacks of TinyUSB, of the Ethernet driver and of the USB host.

This directory holds TLA+ models of the parts that run concurrently, TLC
configurations that check them on small instances, and TLAPS proofs of the
safety properties that matter most, for every value of the constants.

To check a configuration: `tlc -config HidAgree.cfg MCHidActuator` (`PROJECT.json`
names the module of each). To check the proofs: `tlapm` on each of the modules
`HidActuatorProofs`, `HidPipelineProofs`, `ReconnectProofs`, `BarrierClientProofs`,
`UsbStorageProofs`, `LogRingProofs`, `UartBridgeProofs` and `PacketStreamProofs`.

## 1. Inventory

| Part | State it keeps | Operations | Talks to |
|---|---|---|---|
| **HID actuator** `tusb/tusb_actuator.c` | `cmd_queue` (32 deep), target position, `movement_pending`, pressed keys, buttons, wheel, `last_sent_*`, `last_queued_*`, screen size | `actuator_queue_*`, `actuator_set_movement`, `actuator_move_relative` (network task); `hid_task` | the Barrier client calls it; it calls TinyUSB |
| **HID device glue** `tusb/tusb_device.c` | `g_suspended`, `g_remote_wakeup_en`, `g_pending_send` | suspend, resume and completion callbacks, `tusb_try_remote_wakeup` | notifies the HID task; the HID task sets its pending flag |
| **Key codes** `tusb/keycodes.c` | none | tables from Barrier keys and masks to HID usages | used by `hid_task` |
| **Barrier client** `barrier/barrier_client.c` | connection state, `cursor_entered`, read buffer, back-off counter | `barrier_client_task`: wait for an address, apply a new configuration, handshake, read, handle, clean up | TLS client, actuator, event group, task notification |
| **Packet codec** `barrier/barrier_packet.c`, `barrier_io.c` | none; works on the client's two buffers, which keep what older packets left | parse and serialize | used by the client |
| **TLS client** `network/tls_client.c` | connection, server, port | create, connect, read, write, close, destroy | mbedTLS, the certificate buffers |
| **Reconnect** `network/reconnect.c` | `retry_count` | delay, reset, should-retry | used by the client |
| **Ethernet** `network/eth_network.c` | interface, VLAN | got-IP and link handlers, `eth_reconfig_task` | sets `EVENT_ETH_HAS_IP` and `EVENT_RECONNECT` |
| **Web server**, settings `web/web_server.c` | none of its own | settings, certificate upload, reboot | configuration, `EVENT_RECONNECT`, notification of the client |
| **Web server**, log stream | ring with head and tail, `g_log_ws_ctx` | `web_log_push`, `web_log_drain`, `log_ws_handler` | called by every task that logs and by the monitor loop |
| **Web server**, UART bridge | `g_ws_ctx`, one sender task for each connection | `uart_ws_handler`, `uart_ws_cleanup`, sender task, queued sends, `uart_read_handler` | the UART driver's buffer and event queue, the server's work queue |
| **Configuration** `config/config.c` | `s_config`, three certificate buffers | `config_load`, `config_save`, `config_load_certs`, `config_upload_cert` | the stick at `/usb0` |
| **USB mass storage** `usb_host/usb_host_msc.c` | `s_state`, `s_stop`, `s_devices`, event queue, semaphore | start, host task, driver callback | calls `config_load` after a mount |
| **Boot** `main.c` | none | starts everything in order, then drives the LED | all |
| Grove UART `grove/grove_uart.c` | the driver's buffer, an event queue 4 deep | init, read, write | UART bridge |
| LED, reset button, HTML | hardware | input and output | web server, boot |

How they interact: the server's packets reach the actuator through the Barrier
client's task; the actuator's two halves share the queue, the target position,
an atomic flag and the HID task's one notification, which TinyUSB's task gives
too. The web server, the Ethernet task and the client share the event group and
the client's notification. The boot and the USB host task share `s_state`, the
semaphore and the configuration.

What is hard about them, and what makes them correct:

- *Actuator.* Commands pass one queue, positions do not; one notification
  serves three senders and two waits. Correct: no wake-up and no movement is
  lost, the host ends with the keys and buttons the server holds, the tracker's
  slots and count agree, a suppressed report was redundant, nothing queued
  outlives its session.
- *Device glue.* Two tasks check each other's flag before they signal wake-up.
  Correct: one of the two always signals.
- *Client.* `EVENT_RECONNECT` is read and cleared in two places, the
  notification may be consumed by a wait it was not meant for, and a session
  can break in a dozen places. Correct: the actuator is told in an order it can
  rely on, an outdated session ends, the client comes back, the delays grow.
- *Storage and boot.* A semaphore is used for two purposes, two tasks load the
  configuration at once, devices come and go while their events are queued.
  Correct: the boot never hangs, no slot leaks, the configuration is that of
  the stick.
- *Packets.* They come in pieces of any size into a buffer that holds older
  ones, a read may give up in the middle, a write may end half way and count as
  done. Correct: the client takes every packet for what it was, reads no stale
  byte, fills no buffer too far and never writes behind half a reply.
- *Log stream.* Every task that logs writes the ring without a lock and drains
  it when it gets full, next to the monitor loop and a handler that discards.
  Correct: it is a queue while one task pushes and one drains; its indices stay
  inside it and it drains whatever the tasks do to each other; a new browser
  gets nothing old.
- *UART bridge.* Bytes and their events are in two queues that fill up
  separately; a stopped sender may miss its stop. Correct: no byte is forgotten,
  order is kept, an accepted connection has a sender, stopped senders end.
- *Certificate buffers.* Freed by an upload while a handshake may read them:
  listed as a hazard, see section 5.

## 2. Modules

| Module | What it models |
|---|---|
| `KeySlots` | the pressed-key array and its count, as operators on a record of slots |
| `HidCoords` | `to_hid_x/y` and `clamp_u16`, in 16 bit arithmetic |
| `UsbHid` | the endpoint, the bus and the callbacks of `tusb_device.c`; the USB host as environment |
| `HidActuator` | the actuator: network task, HID task and `UsbHid` together, with the server as environment |
| `SessionProtocol` | abstract: the order of calls the client promises the actuator; it counts them modulo 2, so that a repeated call is a step and not a stutter |
| `Reconnect` | the back-off in machine arithmetic |
| `BarrierClient` | the client task, the web server's two changing handlers and the Ethernet reconfiguration task; implements `SessionProtocol` |
| `UsbStorage` | boot, host task, stick and both uses of `config_load` |
| `LogRing` | the log ring with everybody that pushes, drains and discards, and the browsers that come and go |
| `BarrierPacket` | the codec: numbers, fields of each type, `packet_parse`, `packet_serialize`, as operators on bytes |
| `PacketStream` | one connection to the server byte by byte: `handshake`, `read_packet`, `send_packet` over `tls_client_read` and `tls_client_write`, with `BarrierPacket` and `Reconnect` |
| `UartBridge` | the bridge: UART driver, sender tasks and the web server's thread |
| `MCHidActuator`, `MCBarrierClient`, `MCPacketStream` | sets of commands, movements, packets and greetings, and the word size, for TLC |
| `HidActuatorProofs`, `HidPipelineProofs`, `BarrierClientProofs`, `UsbStorageProofs`, `LogRingProofs`, `UartBridgeProofs`, `PacketStreamProofs` | theorems and proofs |
| `ReconnectProofs` | lemmas on the back-off, for `BarrierClientProofs` and `PacketStreamProofs` |

`HidActuator` composes with `UsbHid` (the HID task and the callbacks share its
variables) and takes the order of the server's calls from `ServerSends`;
`BarrierClient` is shown to keep that order (`KeepsProtocol`, a refinement of
`SessionProtocol`), which closes the gap between the two. `PacketStream` looks
inside one step of `BarrierClient`, the reading, handling and answering of a
packet: in `BarrierClient` any of these may succeed or end the session, in
`PacketStream` it is decided by the bytes.

### How actions correspond to code

Each action is one stretch of code between two accesses to shared state. In
`HidActuator` the network task's program counter `netPc` walks through `_q`
(`Enqueue`, then `NetGive`), through the 10 ms wait on a full queue (`NetUnblock`,
`NetTimeout`, then `_dump_queue` item by item in `NetDump`), the flush of
`actuator_queue_disconnected` (`NetFlush`) and a movement's two stores and
compare-and-swap (`NetMoveX`, `NetMoveY`, `NetMoveCas`, `NetGive`). The HID task's
`hidPc` walks through the loop (`HidClaimMove`, `HidMove`, `HidReceive`, `HidWake`)
and through the case of each command; the blocking sends are `HidWakeHost`,
`HidSendAccepted`, `HidSendRefused` and `HidRetry`. The target position is two
`volatile` variables, and each store (`HidStoreX`, `HidStoreY`) and each load
(`HidLoadX`, `HidLoadY`) of one is an action, so that the x of one position and the
y of another can be sent. `ENTER` and the jiggle store what `goal` says, and every mouse
report is made from what was loaded (`seen`): in one try (`SendAbsMouseOnce`, in
`HidSendMove`, `HidSendEnter`, `HidSendLeave` and `HidSendJiggle`, which runs twice) or
insisting (`StartSending`). The ghost `leaveLost` is true from a `LEAVE` whose one
try was refused, while the host held a button, until the endpoint takes the next
mouse report. The handlers of TinyUSB are
`CompleteCb`, `SuspendCb`/`SuspendCheck` (its two halves: the flags, then the look at
the pending flag) and `ResumeCb`.

In `BarrierClient` the read of `EVENT_RECONNECT` and its clearing are separate
actions in both places (`CheckConfig`/`ClearForApply`, `CheckReconnect`/`Break`), as
are a handler's change of the data and its signal (`WebSave`/`WebSignal`,
`WebCert`/`WebCertsEnd`). `WebCert` is the upload of one certificate; a request has up
to three, and what `cert_upload_handler` returns is the result of the last. The
ghost `silent` is true from a request that changed something and told nobody until
the next change. A configuration is the number of the save that made it,
so "outdated" is a comparison of numbers.

In `UsbStorage` a device is one insertion of a stick. `config_load` stores the
defaults field by field, reads, and stores what it read field by field
(`MainLoad`, `MainRead`, `MainAssign`, and the same for the task), so that two calls
at once mix their fields in every order. `s_state` is set before
the semaphore is given, as in the code.

In `LogRing` each access to `s_log_ring_head`, `s_log_ring_tail` or the array is
an action (`PushCheck`, `PushStore`, `PushAdvance`, `PushUsed`; `DrainTail`,
`DrainHead`, `DrainFirst`, `DrainSecond`, `DrainRelease`), and any task may be at
any of them. So it is in `log_ws_handler`: the socket (`FrameNew`), the flag
(`FrameConnect`), the head that is loaded and the tail that is set to it
(`DiscardLoad`, `Discard`), and the two stores after a frame that failed
(`FrameFails`, `Forget`). A byte is the number of bytes stored before it. The ghost `queue`
is the abstract state, a queue of bytes; `overlap` remembers that two tasks
pushed, or drained, at once, or either while the handler discarded.

In `UartBridge` the web server's thread handles one frame or queued send at a time
(`httpd`), and each store to `g_ws_ctx` is an action, those of `uart_ws_cleanup`
around its wait of 50 ms (`CleanupStop`, `CleanupDelay`, `CleanupForget`,
`CleanupNumber`) and those of a new connection around the creation of its sender
(`HttpdServer`, `HttpdStart`, `HttpdRaise`, `HttpdCreate`, and `HttpdLower` if it
fails). Each sender task has its own program counter and loads the server and the
socket one after the other (`SenderSend`, `SenderAddress`). Bytes are numbers in
order of arrival.

In `PacketStream` every `tls_client_read` inside `read_packet` is an action that
takes any number of the bytes that have arrived (`ReadHeader`, `ReadPayload`);
`HeaderRead` is the check of the declared length, `Break` the end of a session
whose configuration changed while the packet was read, `Handle` is `packet_parse`,
`handle_packet` and the serialization of the answer, and the three ends of a
write are `WriteDone`, `WriteTorn` and `WriteTimesOut`. What the protocol defines
(`Wire`, `Meant`) is written down separately from what the code does
(`BarrierPacket`), and the properties compare the two.

The lines each definition stands for are in `PROJECT.json`.

### Abstractions

- Packets, settings and certificates are kinds or versions. Key codes are model
  values; that different keys have different HID usages is assumed. The mask of
  a command is the modifier byte `mask_to_tusb_modifier` makes of it; of an ENTER's,
  whether it has a bit that presses nothing as well (`lock`).
- Time is not modelled. The 30 ms window of the duplicate filter is a choice
  (`NetQueue` or `NetDropRepeat`), timeouts may happen whenever their wait has
  not been served.
- Memory is sequentially consistent and a weak compare-and-swap does not fail
  spuriously. `g_suspended` and `g_pending_send` are plain variables shared by
  two tasks, so on real hardware this is an assumption of `NoMissedWakeup`; the
  log ring's indices are `volatile` and not atomic, so it is one of
  `QueueHeld` too.
- Of a packet code the model keeps the number of its type, four times, instead
  of its letters; lengths of 2^24 and more count as one, `TooLong`. The reads
  and writes of a handshake are single steps, as nothing else happens meanwhile.
  What `handle_packet` does with the actuator is `BarrierClient`'s.
- In `LogRing` head and tail are read in one step where the code compares them
  (`PushCheck`, `PushUsed`): the one that others may move in between only makes
  more room. The server's handle is left out of its context, as a frame without it
  fails like one to a closed socket. What goes from a frame to the UART is left
  out of `UartBridge`.
- The USB host, the user, the server, mbedTLS, DHCP and the MSC driver are
  environments; their actions are marked external in the map.
- The MSC driver takes longer to notice an unplugging than the boot's
  `config_load` takes for its last stores (`AnnounceGone`); the host task gets
  past its first statement within the 10 s for which the boot waits
  (`MainTimeout`); the MSC client stays registered, so the loop's other exit
  (`usb_host_msc.c:244`) is never taken.

## 3. Runs

| Run | Question | Answer |
|---|---|---|
| `HidAgree` | do keys and buttons arrive, whatever the order of calls, reports and completions? | yes: `HostAgrees`, `NoStuckKey`, `TrackerWellFormed`, `TypeOK` |
| `HidFaults` | with unplugging, suspend, lost sessions and a full queue: can a wake-up or a movement be lost, a scroll step doubled, input outlive its session? | no: `NoLostWakeup`, `MoveNotLost`, `NoDoubleScroll`, `FlushedOnDisconnect`, `NoMissedWakeup` |
| `HidLive` | does everything that is queued get sent, across suspends, and is nothing suppressed that the host needs? | yes: `SendCompletes`, `InputServed`, `BlockedSendWoken`, `LastSentFaithful` |
| `ClientSession` | do sessions open and close in order, do outdated ones end, does the client come back? | yes: `KeepsProtocol`, `EnteredAgrees`, `ScreenFixedInSession`, `StaleSessionDoomed`, `StaleSessionEnds`, `SessionReturns`, `TypeOK` |
| `Packets` | is every packet taken for what it was, whatever the pieces, the lengths and the breaks? | yes, until a read gives up in the middle of one: `InStep`, `ReadsOnlyWhatCame`, `RepliesWhole`, `BackoffAsDocumented`, `TypeOK` |
| `Storage` | does the boot return, are slots freed, is the right configuration left? | yes: `StartReturns`, `SlotsSound`, `ConfigFollowsStick`, `TypeOK` |
| `LogStream` | is the ring a queue, does it drain, does a browser get only what is its own? | yes: `QueueHeld`, `SendsTheQueue`, `NothingStale` while no two tasks are in each other's way; `RingDrains`, `TypeOK` always |
| `UartSender` | do bytes reach the browser in order, and do senders come and go with connections? | yes: `NothingStranded`, `BytesAreRead`, `DeliveredInOrder`, `ConnectionServed`, `SendersEnd`, `TypeOK` |
| `HidLeaveButtons` | "Release all mouse buttons" on LEAVE? | **no**: one try behind a busy endpoint |
| `HidReplug` | does a blocked report go out after unplugging and plugging in? | **no**: nobody wakes the HID task |
| `ClientScreen` | "Keep the chain 1:1 physical throughout"? | **no**: a changed screen size is not applied |
| `StorageLate` | "automatically reloaded when a USB stick is inserted"? | **no**: not after the boot has given up waiting |

Each of the last four refutes one sentence of a comment or of the README; the
counterexample is what TLC prints, the sentence is quoted under "findings" in
`PROJECT.json`. Every property of the passing runs is broken by at least one
mutant of the code (the definitions marked *Mutant* in the modules, paired with
their property in `PROJECT.json`).

Several properties exclude a case in which the code does not do what one would
wish; each says so in its comment, and these are the cases: a press dropped as
a repetition although a LEAVE came in between (`HostAgrees`); buttons whose release
by a LEAVE was refused, until the next mouse report is accepted (`HostAgrees`; of
these, and not of a MOUSE_UP, `leaveLost` keeps account); a command the HID
task already holds when the session ends (`FlushedOnDisconnect`); a request that
changes the VLAN or a certificate and then fails before it has signalled the client,
until the next change (`StaleSessionDoomed`, `StaleSessionEnds`; `silent`); a client
without memory for its TLS context, which never makes one (`SessionReturns`); a
read that gives up in the middle of a packet (`InStep`); the 30th failed attempt
in a row, from which on the delay is 0 (`BackoffAsDocumented`); two tasks that
push to the log at once (`QueueHeld`); a log connection that gets the number of
the last one (`NothingStale`); two UART senders alive at once
(`DeliveredInOrder`); a sender task that could not be created
(`ConnectionServed`); a line that is odd as often as the event queue is deep
(`NothingStranded`, `BytesAreRead`).

### Bounds, and why they are enough

- *Actuator.* One ordinary key more than needed to fill a tracker of 2 slots
  together with a modifier (the code has 6; the theorem is for any number), a
  queue of 1 or 2 so that it is full in reach of a few calls, 7 calls in `HidAgree`
  (an opening and an entering, then five of anything) and 4 in `HidFaults` and
  `HidLive`, where what the bus and the faults do in between makes the behaviours
  long (0.9, 3.3 and 0.1 million states), a screen of 3 by 2
  pixels so that the jiggle meets the edge. Calls are bounded by `MaxCalls`;
  once they are used up everything in flight still finishes, so the "quiet"
  states in which host and server are compared are reached. `NoDoubleScroll` is stated
  for a server that scrolls one way, as a sum of signed steps would otherwise cancel.
- *Client.* One save and two uploaded certificates, each at any moment and each
  with and without failing (fault `web`): a request whose first certificate is taken
  and whose second is refused, and one the other way round, are among them, and so
  is a change behind one that told nobody. A second session follows in every
  behaviour.
  The shift stops at 1 in `ClientSession` (the delay does not influence
  control) and at 30, as in the code, in `Packets`, where the arithmetic is
  exact in units of 8 ms.
- *Packets.* Two packets in all, of eleven, which include each width at its
  edges, negative numbers, data that is too short and too long and a packet
  larger than the buffer: what one packet leaves behind meets every other. The
  buffers have 24 bytes instead of 1024, which holds the largest reply. Four
  greetings: with and without the version, too short, and of another program.
  2.5 million states.
- *Storage.* Two insertions and two slots: a stick that is pulled and replaced, or
  two at once, during the boot or after it. Two fields of the configuration:
  enough for one to be from one stick and one from another. The event queue holds
  2 instead of 8, so that the driver has to wait.
- *Log stream.* A ring of 3 slots, so that three bytes wrap around and fill it;
  two tasks, each of which pushes and drains, one of them the monitor loop and
  the other the web server's; two lines of one or two bytes, two connections.
  Two lines suffice for two tasks to push at once, and a line and a greeting for
  a push to meet a discard.
- *UART bridge.* Two senders, an event queue and a buffer of 2, three bytes and
  one oddity: the queue is full before the buffer, the buffer before the bytes
  are out, and the second connection comes while the first sender runs. 1.1 million
  states.

Deadlock is checked in all runs but two: the server, the HID task's timeouts, the
monitor loop, a sender's timeout or a waiting client always have a step. In `LogStream`
everything really stops once all lines are logged and all browsers are gone; in
`Packets` the client connects no more once the server has sent its last packet.

### Fairness

- *Actuator* (`FairSpec`): weak fairness of the network task inside the actuator's
  API, of the HID task and of the TinyUSB task, because FreeRTOS runs them
  whenever they are ready (the HID task has a core of its own); strong fairness
  of the host's polling, because a configured host polls an interrupt endpoint
  periodically whenever it is not suspended; a host that was signalled resumes.
  None of plugging, unplugging, suspending or sending.
- *Client*: weak fairness of the tasks and of DHCP; strong fairness of "the
  server sends something" (it sends a keep-alive every few seconds) and of "a
  handshake succeeds" (it is tried for ever; a server that never answers again
  obviously ends sessions for good). None of failures and of configuration
  changes.
- *Storage*: weak fairness of boot, host task and driver. None of the user.
- *Log stream*: weak fairness of every task inside a push or a drain and of the
  handler that discards, because they run whenever they are ready, and of the
  monitor loop, which comes round every 100 ms; strong fairness of the two
  sends, because a frame to an open socket does not fail for ever. None of
  logging and of browsers.
- *UART bridge*: weak fairness of the sender tasks and of the web server's
  thread. None of browsers and of the UART.
- `Packets` has safety properties only.

## 4. Theorems

For every value of the constants that meets the named assumptions
(`KeySlotsAssumption`, `ActuatorAssumption`, `ClientAssumption`,
`ReconnectAssumption`, `StorageAssumption`, `LogAssumption`, `BridgeAssumption`,
`BufferAssumption`, `StreamAssumption`, `PacketAssumption` and `HelloAssumption`,
which TLC evaluates in each run that uses them). Each safety invariant and each
action property of a passing run is a theorem.

`HidActuatorProofs`

- `TypesAreRespected`, `TrackerStaysWellFormed`. The invariant is `TypeInv`:
  `TypeOK` together with `WellFormed` of the tracker and with what each program
  counter implies (a task that is inside a command holds one). The tracker's part
  is proved from lemmas on `Press` and `Release` for any number of slots: a
  release of a tracked key moves the last slot into the gap, one of an unknown
  key clears all.
- `NoWakeupIsLost`, `MovesAreNotLost`. What makes them inductive is that the queue or
  flag is written before the notification and read after it was taken. For the
  movements the strengthening (`MoveInv`) adds that between the two loads the x that
  was loaded is the target's, or the flag is up or about to be raised.
- `BlockedSendsAreWoken`, `NoWakeupIsMissed`. Their strengthenings say who is
  about to act: a blocked send has a report in the endpoint, a completion
  about to notify or a notification pending; a device and a host that disagree
  about suspension have a callback under way.
- `LastSentIsFaithful`. The strengthening ties the buttons and position in the
  endpoint to `last_sent_*`, which needs that a report enters the endpoint in
  the same step as it is recorded.
- `DoingIsKept`, a theorem the others cite: at which program counters the HID task
  holds which command, so that one action `SendAbsMouseOnce` serves four callers.
- `QueueIsFlushedOnDisconnect`. The strengthening covers the command a blocked
  call holds as well as the queue.

`HidPipelineProofs` (about the commands on their way from the server to the host)

The first two look at the command the HID task has in hand, the queue, and the
command the network task is blocked with as one queue (`Pipe`). The lemmas from
`PipeGrows` to `PipeKept` say that the steps between its parts leave it as it is,
that a call appends to it and that the HID task takes from its head; three more
(`SendOnceShows`, `HidShows`, `UsbShows`) say what a step does to the last report
on its way through `wait`, `send` and the endpoint to the host.

- `NoKeySticks`. What the host shows, or is about to, is bounded by what the server
  holds *or will have released*: each key the tracker or a queued press holds down
  and the server does not has a release of it, or a LEAVE, behind it in the
  pipeline (`KeysBounded`; `ModsBounded` for the modifiers). When everything is
  handled, nothing is behind it. The duplicate filter matters here: it may drop a
  press but, by `DedupInv`, no release of a key that the server holds.
- `HostAndServerAgree`. `AgreeInv`: there is a replay of the pipeline (`Replays`), from
  what the tracker and the buttons stand for to what the server holds. It is a
  function from the places of the pipeline to what is held there, by `After`, the
  effect a command has; `Fits` says that the device can track it. A replay may
  also begin behind a LEAVE, because `exact` becomes true again with one. `Shows` says
  that the last accepted mouse report has the buttons of the replay, unless one that
  is insisted on is under way (`Mousing`), or the replay holds no button and a `LEAVE`
  is being executed (`Leaving`) or has lost its report (`leaveLost`). A lost release
  of a MOUSE_UP is neither.
- `NothingIsScrolledTwice`, under every fault. What the host has scrolled, what is in
  the endpoint and in `mouse_wheel`, and what the commands on their way will yet add
  (`Backlog`, again a function on the places of the queue) is at most what the
  server asked for. Dropping a command only makes it less.

`HostAgrees` and `NoStuckKey` are stated for an undisturbed device (`Undisturbed`: of
the faults, only suspending): a session that breaks, a cable that is pulled or a
queue that stays full drops commands, and nothing is sent for those. `NoDoubleScroll`
is stated for a server that scrolls one way (`ScrollsOneWay`).

`ReconnectProofs`

- Lemmas only. `Shifted` is a recursive function; `ShiftedType` and `BackoffRange` are
  proved by a least counterexample (`LeastNatural`, `InductionUpTo`), which needs
  no induction theorem with an operator parameter. `DelaysOfTheCode` computes the
  delays for the constants of `reconnect.c` in units of 8 ms (`CodeConstants`).

`BarrierClientProofs`

- `ClientInvHolds`. `ClientInv` relates the program counter to what the actuator was
  told: a session is open exactly between handshake and cleanup, and
  `entered` agrees there.
- `EnteredIsWhatWasTold`, `ScreenIsFixed` follow from it; so does
  `ClientKeepsProtocol`, the refinement of `SessionProtocol` step by step.
- `StaleSessionsAreDoomed`. Its strengthening says at every point between two
  sessions that a change not yet in `session` has been announced, unless the
  last request was `silent`, for any number of changes, failing requests and
  Ethernet tasks at once.
- `ClientTypeOK`. Only the delay is not obvious: the product that makes it
  overflows, and its range is a lemma of `ReconnectProofs`.

`UsbStorageProofs`

- `StorageTypes`; `SlotsAreSound`, for any number of insertions and slots and any
  length of the event queue. `SlotsSound` is not inductive: that a device is in
  one slot only depends on its being announced once. `SlotInv` therefore says
  of every device (`Tracked`) that its announcement is queued at most once, that
  it is in no slot before that was handled, that the driver forgets it only
  after it went, and that one above the number of insertions has left no trace.
  It rests on two lemmas about what a queue of messages still contains
  (`QueueGrows`, `QueueShrinks`).
- `ConfigIsTheSticks`, for any set of fields. `LoadInv` follows both calls of
  `config_load`, and `FieldInv` every field by itself, with the fields each call has
  yet to store (`LeftInv`): what a call has read is still at `/usb0` when it
  assigns it; unless the task has yet to start its call, the field is that of the
  stick or the default; and once neither call has it to store it is that of the
  stick. Why the boot's call cannot assign
  the settings of a stick that was replaced meanwhile: a device that was plugged in
  when it was read has not been reported gone (`GoneInv`), and the driver is slower
  with that than the boot with its last stores (`AnnounceGone`, an assumption on
  ESP-IDF's timing). Why neither call takes the stick for absent: whoever gets that
  far finds `s_state` mounted (`HostInv`), unless the boot has given up.

`LogRingProofs`

- `RingTypes`, for any number of tasks that push and drain at once.
- `RingIsAQueue`, for any size of the ring and any number of tasks. `RingInv` adds
  to `QueueHeld` what the locals of the tasks still mean: a task that found a slot
  still has it (`Room`), what a drain has loaded is still a part of the queue
  (`Draining`), the head a discard has loaded is still the head (`Loaded`), and no
  two tasks are in the same section (`Apart`, which is what `overlap` not having
  been set means). The arithmetic of the ring, with its wrap, is in five lemmas.
- `DrainsSendTheQueue` follows: the two frames are the first bytes of the queue.
- `NoStaleFrames`. `FreshInv` says that all bytes in the queue, and the one about
  to enter it, were stored after the browser's socket was opened, from the
  discard on.

`UartBridgeProofs`

- `BridgeTypes`, `ConnectionsAreServed`: an accepted connection has a sender
  that sees the flag raised, for any number of connections. `ServedInv` adds
  that the flag is up when the sender is created.
- `NothingIsStranded`. The strengthening counts: the events in the queue that are
  not data are no more than the oddities so far, so a full queue contains one of
  data, and an empty queue with bytes left needs a sender on its way.
- `BytesInOrder`. The strengthening puts all bytes in the order of their way:
  those delivered come before those in the work queue, those before the
  sender's, those before the driver's, each part in order itself.

`PacketStreamProofs`

- `BufferBounds` and `ParsesWhatWasRead`, for any buffer smaller than 2^24 bytes,
  any server and any pieces. The invariant: while a payload is read, the length
  it was read with stands in front of it in the buffer. `FieldsFit` goes through
  the types and shows that no field lies behind the data `packet_parse` asks for.
- `StreamTypeOK`. A reply fits the write buffer and what was read fits the read
  buffer, which is `BufferBounds` again.
- `PacketsAreTakenInOrder`. `Framed`: what was read of a packet, and behind it what is
  under way, is the stream of the packets sent and not yet taken (`Remaining`), until
  a read gives up inside one. The step that takes a packet rests on
  `ParseGivesWhatWasMeant`: `packet_parse` gives back, from the bytes the protocol
  prescribes and whatever stood in the buffer before, what the packet meant. This
  is proved field by field from lemmas on numbers as bytes (of 1, 2 and 4 bytes,
  signed and not).
- `ServerGetsWhatIsDue`. `Owed`: what was written, and behind it what is being
  written, is the hello and the answers to the packets that were taken.
  `RepliesSerialized` says that `packet_serialize` covers every byte of an answer.
- `DelaysAreAsDocumented`, for the constants of `reconnect.c` (`CodeConstants`, a
  hypothesis of the theorem as the delays of the comment are its).

`PacketAssumption` and `HelloAssumption` are about the server: its numbers fit their
fields, a packet that lacks arguments is shorter than a complete one, one has
less than 2^24 bytes of data, and a greeting that the client accepts is as long as
it says. They are the protocol's rules, not the code's; a server that breaks them
is out of `InStep`'s reach.

Two recursions that these proofs needed are functions, and what they compute is
proved from their tables without an induction theorem: the sequences of bytes
that `FlattenSeq` joins (`IsJoin`) and `Shifted`.

Only model-checked: the eight liveness properties (`SendCompletes`, `InputServed`,
`StaleSessionEnds`, `SessionReturns`, `StartReturns`, `RingDrains`, `SendersEnd`,
`BytesAreRead`), because fairness and ENABLED are not within the prover's reach, and
the four runs that refute a sentence.

## 5. What is not modelled, and why

- `actuator_hid_task_stop`, `barrier_client_stop`, `barrier_client_destroy`,
  `usb_host_msc_stop`: called by nobody.
- Who owns the certificate buffers. `config_upload_cert` frees one while the
  client may be in a handshake; whether that is read then is decided by esp_tls,
  which is not in this repository, and a model would only repeat the guess.
- The key tables of `keycodes.c`: data, without a rule they could be compared
  with. The actuator takes from them which keys are modifiers or unmapped.
- The text of `settings.json`, the requests and pages of the web server and the
  letters of the packet codes: parsing and formatting.
- The Ethernet driver's events, VLAN tags and set-up: ESP-IDF's, the code passes
  them on. What matters to the client, the bit `HAS_IP` and the reconfiguration
  task, is in `BarrierClient`.
- LED, reset button, descriptors, driver set-up, the start of the parts in
  `app_main`: no state that any property would be about.

Noticed on the way and not stated as a property of a run:

- `s_state` of `usb_host_msc.c` stays `MOUNTED` after the stick was pulled out, so
  the LED shows a stick that is gone (`MainMonitor`).
- A save that changes the VLAN when the Ethernet task cannot be created, and an
  upload that is refused half way, leave what they have changed and never raise
  the client's reconnect bit (`WebSpawn` and `WebCert`, fault `web`). Nor does an upload
  that is refused its first certificate and granted its last report the failure: it
  answers "ok" (`src/main/web/web_server.c:382-407`).
- A client that could not create its TLS context does not try again
  (`RecreateTlsFails`, fault `nomem`).
- After a read that gave up in the middle of a packet the client is out of step
  with the server until the session ends (`ReadTimesOut`, ghost `stalled`).

## 6. Plan

Done, in this order: the input path (`KeySlots`, `HidCoords`, `UsbHid`,
`HidActuator`) with its proofs; the session (`SessionProtocol`, `Reconnect`,
`BarrierClient`) with its proofs; storage and boot (`UsbStorage`); the log stream
(`LogRing`), the UART bridge (`UartBridge`) and the packets (`BarrierPacket`,
`PacketStream`); the proofs of these four; the proofs that need the whole way of a
command, a packet or a configuration (`HidPipelineProofs`, and the later theorems of
`PacketStreamProofs` and `UsbStorageProofs`).

Left:

1. *Packets and session composed.* `PacketStream` shown to implement the steps of
   `BarrierClient` that read and answer, so that a session that is out of step
   appears in the latter.
2. *Saving against loading.* `config_save` of the web server composed with
   `config_load` of an insertion, and with a stick that was pulled while
   `s_state` says mounted.
3. *The steps of the pipeline.* `HostAgrees` as a refinement: the actuator as an
   implementation of a queue of commands between the server and the host.

New properties of the same component join its existing runs; a run of its own
is for a different question only.
