# A TLA+ model of the ctxLink ESP32 Wi-Fi adapter

The firmware in this repository puts a ctxLink debug probe on a Wi-Fi network: GDB connects to a
TCP server on the ESP32, and what it sends travels over SPI to ctxLink and back. The difficulty of the
program is in its concurrency: six FreeRTOS tasks on two cores, two interrupt handlers and a DMA
driver's task share queues of pointers into a ring of eight buffers, four pins and a handful of
variables. This directory models that concurrency, checks it with TLC and proves part of it with TLAPS.

Paths below are relative to the repository.

## The system

| Component | State | Operations | Talks to |
|---|---|---|---|
| SPI Comms task, `src/tasks/task_spi_comms.cpp` | input queue (10 pointers), output queue (4), current message, ring of 8 buffers with `buffer_index` under `my_lock` | take a packet from the input queue and dispatch on its type; hand out the next buffer | everyone posts to its input queue; it posts to the server's and the Wi-Fi task's queues and calls the transmit path |
| ctxLink interface, `src/ctxlink.cpp` | `tx_saved_transaction`, `is_tx`, `zero_transaction_buffer`, pins nREADY, nSPI_READY, ATTN | `spi_save_tx_transaction_buffer` (SPI Comms task); `spi_ss_activated` (CS interrupt); `userPostSetupCallback`, `userTransactionCallback` (driver) | queues, driver, pins |
| DMA SPI slave driver, `include/ESP32DMASPISlave.h` | `transactions` (at most 1), request queue (1), in-flight mailbox | `queue`, `trigger`; a task that loads a transaction, waits for it and counts it out | ESP-IDF SPI slave driver |
| GDB server task, `src/tasks/task_server.cpp` | listening and client descriptor, `client_connected`, `server_queue` (32) | configure, accept, create a client task, send packets to the client, obey SHUTDOWN / START / CLIENT_CLOSED | lwIP, client task |
| Client task, `src/tasks/task_client.cpp` | the descriptor of its connection | report "connected", read and forward requests, on the end of the connection close it, tell the server, report "disconnected" | lwIP, server queue, input queue |
| Wi-Fi task, `src/tasks/task_wifi.cpp`, `src/wifi-tools/wifi_tools.cpp` | credentials, `is_connected`, two "processed" flags, `network_info` | start and restart the connection, start the server or send it commands, report the network to ctxLink | Wi-Fi driver events, server queue, input queue |
| Preferences, `src/ctxlink_preferences.cpp` | two values in flash | read, with defaults; write | Wi-Fi task |
| Monitor task, `src/tasks/task_monitor.cpp`, `include/serial_control.h` | queue of log lines | print | everyone logs |
| Start-up, `src/main.cpp` | task handles | create the tasks | all |

A packet for ctxLink goes: client task -> input queue -> SPI Comms task -> output queue and
`tx_saved_transaction`, ATTN low -> ctxLink selects -> CS interrupt hands the saved packet to the driver ->
slave task loads it, nSPI_READY low -> ctxLink clocks -> completion callback releases both pins, removes
the packet from the output queue and posts TRANSACTION_COMPLETED, on which the SPI Comms task announces
the next one. A packet from ctxLink is received by the same driver when ATTN is high at the falling edge
of CS and is posted by the completion callback to the input queue.

### What is hard

* The transmit path is a loop through three contexts (task, CS interrupt, completion interrupt) without
  a lock: each step assumes what another context has or has not done yet.
* A completed *receive* releases ATTN as well, and the driver refuses a transaction that comes
  before it has retired the last.
* Queues of different lengths hold pointers into a ring that is reused blindly; sends with a timeout of 0
  drop in silence, sends with `portMAX_DELAY` block the sender.
* Client task and server both close the connection's descriptor, lwIP reuses descriptors at once, and
  the server acts on commands only between accepts.
* Losing the network interleaves with all of that.

`PROJECT.json` lists each such hazard at its line with the properties that watch it.

### What makes each component correct

* SPI link: packets reach ctxLink and the client exactly once and in order; no null or stale buffer is
  transmitted; the completion handler treats a transaction for what it is; a queued packet is always
  announced.
* Buffer pool: concurrent callers get different buffers, and a buffer is not reused before N - 1 others.
* Server and client tasks: no descriptor is used by anyone but its owner; one client at a time; every
  client is served, answered and kept; the server task lives for ever; ctxLink knows whether a client is there.
* Wi-Fi task: the server runs when the network does; credentials in use, stored and reported agree.

## Modules

| Module | Models | Kind |
|---|---|---|
| `RequestReply` | what a client with one open request is promised; implemented by `SpiLink`, and in its safety part by `Gateway` | abstract specification |
| `ServerControl` | how the Wi-Fi task drives the server; implemented by `WifiTask`, taken for granted by `GdbServer` | abstract specification |
| `SpiLink` | SPI Comms task, transmit path, interrupt handlers, slave driver, ctxLink as SPI master | detailed specification |
| `MCSpiLink` | refinement mapping from `SpiLink` to `RequestReply`; TLC instances `MCSpiLink_*.cfg` | model checking |
| `BufferPool` | `get_next_spi_buffer_index`, `my_lock`, masking of interrupts, two cores | detailed specification |
| `MCBufferPool` | two tasks and a handler | model checking |
| `Gateway` | client, server, Wi-Fi and SPI task and the handlers around the ring of buffers; ctxLink and network clients from outside | composition |
| `Boot` | `setup()`, `initCtxLink`, the start of every task, monitor task and log queue, the first network report | detailed specification |
| `GdbServer` | server task, client tasks, the Wi-Fi task's commands; lwIP descriptors and network clients | detailed specification |
| `WifiTask` | Wi-Fi task, event handler, stored credentials; driver events and ctxLink's credentials from outside | detailed specification |
| `SpiLinkProofs`, `RequestReplyProofs`, `GdbServerProofs`, `GatewayProofs`, `WifiTaskProofs`, `BootProofs`, `BufferPoolProofs` | theorems about the module of that name; `RequestReplyProofs` about the refinement in `MCSpiLink` | TLAPS |
| `GatewaySessionProofs` | the theorems about one session of `Gateway` | TLAPS |

Each operator that models code is tied to its lines under `map` in `PROJECT.json`. Operators introduced as
"Mutant of" are not part of the model: each is a plausible wrong version of the definition that follows
it, and substituting it breaks a property, which shows that the property depends on that code.

### SpiLink

Task code between two points where another context can change or see shared state is one action.
`spi_save_tx_transaction_buffer` is therefore five: queue the packet (`SaveSend`) or look whether there is
one (`SaveCheck`), count (`SaveCount`), peek (`SavePeek`), assert ATTN (`SaveAttn`); the log
calls between them can even block. The completion callback is four (`IsrPins`, then
`IsrReceived` or `IsrRemove` and `IsrCompleted`). `spi_ss_activated` with `queue` and `trigger` is one:
it runs in an interrupt on the core of the slave task, which alone shares its state, except for ATTN and
`tx_saved_transaction`, which it reads at once.

The driver is `pending` (`Slave::transactions`), `trans` (the request handed to the slave task) and `drv`:
"queued" in the request queue, "armed" once loaded and counted in flight, "done" when transferred
and not yet counted out. ctxLink is outside the repository; it selects when ATTN asks it to or when it
has a packet, clocks when nSPI_READY is low and otherwise gives up. `BackToBack` says whether it may select
while the slave task has not counted the last transaction out; the code has no protection against
that, so both are checked: with it a transaction that one selection leaves behind is run at a later one, and
the completion handler takes it for the direction of that later one. `Window` and `Unsolicited` bound how much traffic is under way.

Abstracted: a packet is a type and a number; all packets for ctxLink have type `from_gdb` (NETWORK_INFO and
STATUS take the same path); a buffer is its packet, so reuse of a buffer still in use does not show
here (it does in `Gateway`). Bytes are not modelled, nor is a transfer that ctxLink breaks off half-way.

### BufferPool

`Enter` masks the interrupts of the core (nobody else runs there), `Acquire` takes the spinlock, `Read` and
`Write` are the two statements of the critical section, `Exit` leaves it. A handler that is running keeps
the task it interrupted from running (`Runs`), which the masking makes impossible inside the section.

### GdbServer

A step is a call that another task or lwIP can see. Descriptors are modelled as lwIP manages them: lowest
free number first, close of a free one harmless. `AcceptFails` ends the task as the code does.
`SendFails` does not change the state: the loop really goes round without end. The SPI side is a queue
of requests that ctxLink answers in order, which is what `SpiLink` implements with one request open. Dropping the
network closes no TCP connection by itself. `send` may accept a part of a packet first (`SendPart`); with
`TaskMayFail` the client's task may not be created, and the server waits for it all the same. The Wi-Fi task sleeps for a second after creating the
server task; the model takes this to be enough for the server to create its queue.

Abstracted: bytes; `read` never returns EAGAIN on these blocking sockets.

### WifiTask

A step is the code between two points where the event task or flash can be seen: a receive with its 10 ms limit
(`Receive`, `ReceiveTimesOut`), what new credentials lead to (`Connect`, `Unchanged`, `Reconnect`), the test
inside `wifi_disconnect`, the look at `is_connected` and what the two flags make of it, the end of the one-second
delay, and each of the two writes to flash. The event handler runs in the task that delivers driver events, so that
`is_connected` may lag behind `radio`, the driver's own state. `Reset` may come anywhere and keeps only flash. No
action ends the wait for a notification ("notify"), because no code in the repository sends one.
`commands` is the history of what was done to the server and `reports` of the network information posted: the
send has a timeout of 0 (`task_wifi.cpp:260`), so a full input queue drops a report that the task counts as made.
The driver does not reconnect by itself (`WiFi_Tools::begin` turns that off), so the network it is on is always that of
the last attempt. `unnoticed` is true from when a network is joined while the last connection still counts as processed,
within 10 ms of its loss in practice, until the task next sees the network gone: the code does not exclude it, and
the task then has nothing to post. `LastReportTrue` exempts that time. `ServerControl` is the abstract specification
of what the task does to the server, with `wifi_connect_processed` for its `up`.

Abstracted: the timer of `WiFi_Tools::reconnect` (it may or may not try), addresses and signal strength,
the length of the delay, lengths of names; both defaults are one value. `_should_reconnect` starts
true and is never cleared, so it is left out with `_is_first_disconnect`, which only guards its setting.
`wifi_comms_queue` holds a packet's contents, not the pool buffer they are in. The commands are posted with
a timeout of 0 to a queue of 32, which this many commands cannot fill; `GdbServer` models that queue and its overflow.

### Gateway

The ring of eight buffers is shorter than the queues of pointers into it (10, 4, 32, 4) and nobody gives a buffer
back, so that all depends on how far apart the parts can get. Here a buffer has an index and content; an entry of a
queue, or a task that has taken a buffer, carries the packet it was taken for, and `Intact` compares the two for as
long as someone will still look. The program decides by the *content*: the SPI task and the server dispatch on
the type they find in the buffer, the driver sends what the buffer holds when ctxLink clocks. Taking a buffer is
one step (`BufferPool` shows that it is atomic); filling it goes with it, except where time passes in between:
`read` in the client task, the one-second delay of the Wi-Fi task, a reception. The transmit path is coarser than in
`SpiLink`: announcing and completing are one step each. ctxLink answers requests, and may send up to `Unsolicited`
packets before an answer, as the output of a debugged program; there is one network client at a time, which
has up to `Window` requests unanswered, and `returned` is what its answers were to. `Intact` is about content; `NeverTakenInUse` says
why it holds, where it holds for a good reason: no step takes a buffer that an entry, a client task in `read` or an armed reception still has.
With `EarlyClients` a client may connect within the Wi-Fi task's delay. With `Failures` accept may fail, which ends the
server's task (`AcceptFails`), and the client's task may not be created, so that the server waits for messages of a
client nobody reads. `Polite` says that a client leaves only with all its answers. A send succeeds while the client is
connected; once it has left, the loop of `task_server.cpp:134` goes round without end, so `ServerSends` is never enabled again.

### Boot

A step is the creation of a queue or a task, or a use of one. `made` is what exists; FreeRTOS aborts on a null
handle, which `aborted` records with the user and the queue. The driver's task has priority 5 and is pinned to the core of `setup()`
and of the monitor task, so those do not run before it has made its queues (`Core1`); everything else interleaves.
Log lines matter as they block: a task waits for room in the monitor's queue, a handler does not. The
CS interrupt is live from `initCtxLink` on and ctxLink may select at any time; it clocks once nREADY is low. A network is
joined only after the SPI task has made its queues: an assumption about time (`Joins`), not code. The SPI task and the
Wi-Fi task have the same priority and neither is pinned, so nothing but the seconds that joining takes orders them;
that `system_setup_done` and the SPI task's two queues exist by then rests on it. The server's queue need not exist
when nREADY goes LOW: the server task has been created by then and no more, and a packet for a client needs a client first.

## Runs

| Run | Instance | Shows |
|---|---|---|
| `storm` | queues of 3, 2, 1, 1; 3 packets out, 2 in of both kinds; nothing paced; `BackToBack` | `TypeOK`, `NoNullTransfer`, `InOrder` hold whatever overflows: 803 000 states |
| `pingpong` | real queue lengths, one request open, 4 exchanges | implements `RequestReply`; `AttnHeld`, `ZeroBufferIsZero` |
| `pair` | real lengths, two packets out | `NoStall`, `RemovesCompleted`, `EveryPacketDelivered` |
| `three` | three packets out | `NoStall` fails |
| `pool` | 3 buffers, 2 tasks, 1 handler, 2 cores, 5 calls and those begun | `ReuseDistance`, `SomeoneIsServed` |
| `calm` | 3 clients with 2 requests each, network up, clients wait for answers | `ClientKept`, `OwnAnswers`, `EveryClientServed`, `EveryRequestAnswered` |
| `flaps` | 2 clients that leave at will, network lost twice, bind and task creation may fail | `DescriptorsOwned`, `OneClientAtATime`: 325 000 states |
| `drop` | 1 client, network lost once | `ServerRuns` fails |
| `network` | all contents of flash, 4 driver events, 1 packet of credentials, 1 reset | implements `ServerControl`; `StartsAsStored`, `LastReportTrue`, `ServerFollows`, `TakesCredentials`: 174 000 states |
| `boot` | log queue of 2, 2 packets from ctxLink, network lost once | `OnlyEarlyLog`, `ReadyInOrder`, `StartUpEnds`: 13 000 states |
| `ring` | ring of 8 and real input and output queues, server queue of 1; 2 connections of 2 requests, 1 unsolicited packet before an answer; accept and task creation may fail, clients are polite | `Intact`, `AssertHolds`, `NothingLost`, `NeverTakenInUse`, `AnswersReturn`, safety of `RequestReply`: 601 000 states |
| `assert` | the same with 2 open requests, 4 unsolicited packets | `AssertHolds` fails |

**Bounds.** In `storm` each queue overflows and each blocking send blocks, which real lengths would hide behind
states that differ only in how full a queue is. Three packets out are the least that leave two behind a
completed one, the case that separates `pair` from `three`. In the pool three buffers let the ring wrap
within five calls and two callers can overlap in every way; the theorem covers the rest. Three connections reuse the
first descriptor twice; two losses of the network give every order of two SHUTDOWNs and two STARTs against a
client's end. Four driver events
let the network come, go, come and go, or come and go between two looks at it, before or after the reset.
In `ring` the ring wraps several times, one packet between request and answer is as many as `Intact` allows for
two connections of two requests, and the server's queue of one makes the SPI task wait. A single connection allows for more; that
is what the theorems about a session are for. A log queue of two in `boot` fills up
at once, which ten would not. Deadlock is not checked: the traffic is bounded, and at its end the system rests.

**Fairness.** `SpiLink`: weak fairness of the SPI Comms task, the slave task and the handlers, because
FreeRTOS runs every ready task (nothing of higher priority runs for ever) and interrupts are taken, and of ctxLink,
which answers ATTN and finishes transfers. Nothing is assumed of the network. `BufferPool`: each
caller inside the section makes progress; which of two spinning cores gets the lock is open, so the property is that
*someone* is served. `GdbServer`: the tasks run, ctxLink answers, Wi-Fi connects, and a client that has its
answers leaves (in `calm` the next one waits for that). Nothing obliges a client to connect or ask. `WifiTask`: the task and the event
task run; the driver promises nothing, credentials and resets may never come. `Boot`: every task is scheduled, ctxLink
promises nothing, and a network can be joined if it is tried. `Gateway`: the tasks run, ctxLink clocks what it
has begun and answers; no client need connect, ask or leave. `AnswersReturn` says that an answer, once given, reaches its
client, through a SPI task that waits for room in the server's queue; that a request reaches ctxLink is not said, and
is not so (below).

### What fails, and when

* `three`: the check for queued packets after a completion uses the same "more than one, do nothing" test as
  the queueing of a new packet. With two packets left nothing announces them, and every later packet
  finds more than one as well: the adapter never sends again.
* `assert`: a client's task takes its buffer, blocks in `read`, and ctxLink's packets take the other seven and then
  that one again; a request the client sends meanwhile (GDB's interrupt, while the program prints) is read into a
  packet that is on its way to the server, which finds no frame and stops in its assertion. Nothing else can stop it there (`NeverAsserts`).
* `drop`: the order SHUTDOWN, CLIENT_CLOSED, START is the usual one when the network goes away for longer
  than it takes a task to notice its closed socket.

`Intact` holds under conditions that the code does not enforce. With one request open and one connection it
holds for three unsolicited packets before each answer and fails for four: the SPI task can be behind by more
packets than the ring has buffers, as the input queue holds ten. With two connections of two requests each it holds for one and
fails for two. `NeverTakenInUse` is the sharper property: with one connection it holds for two unsolicited packets and fails for three: the client task
is handed the buffer of the request it has just queued. `Intact` still holds, as the task waits in `read` and gets nothing to
put into that buffer before the request is answered. With two requests open `Intact` holds for none and fails for one. With `EarlyClients` it fails at once: a client that
connects and asks within the Wi-Fi task's delay has the network report overwritten before it is queued.
`Gateway` with fairness does not bring every request to ctxLink either, even without unsolicited packets: network report, status and first request
are three packets, the case of `three`. Nothing is lost then (`NothingLost`); it waits for ever.

With a client that leaves with a request open (`Polite` false; one connection, three requests) `NeverTakenInUse`, `Intact` and
`NothingLost` are violated, and so is `AnswersReturn`, with two requests: the answer finds no client, the server stays in its send loop and the SPI task waits at `task_spi_comms.cpp:162` for ever. `RequestReplySafety` still
holds: what comes is right, it need not come.

Known from the models, and not runs of their own:

* ATTN asserted between CS falling and the end of a *receive* is released with it (`SpiLink`: `AttnHeld` fails
  with one packet each way); the packet waits until another comes, which finds two queued, and waits too.
* A client leaves before its answer arrives: `send` fails, but an unsigned count is compared with zero, and the
  server loops (`SendFails` in `GdbServer`).
* New credentials on a live connection reach `ulTaskNotifyTake` with no limit (`WifiTask`, "notify"). The driver's event
  clears `is_connected` and nobody notifies the task: it never uses the credentials, and the server is not
  shut down. `ServerFollows` and `TakesCredentials` hold but for this.
* SHUTDOWN is sent with a timeout of 0 (`task_wifi.cpp:100`). While the server waits in accept nothing drains its queue,
  and sixteen losses and returns of the network fill it. If a client is then accepted, the next SHUTDOWN is dropped and the
  START that follows it, once the server has taken a message, is not: the server comes to START twice in a row, and the second
  listening socket gets the number of the descriptor the client's task was given. `DescriptorsOwned` is violated with the real
  queue of 32, one client and 17 losses (a million states), and sooner with a shorter one. This is the one condition of
  the theorem `OwnDescriptors`, and was found by its proof.
* After a loss of the network a client can connect to the old listening socket before the server has seen SHUTDOWN, and is
  then cut off (`ClientKept` fails with one client and one loss).
* The Wi-Fi task's first log line (`ctxlink_preferences.cpp:77` when flash is empty, `task_wifi.cpp:158` otherwise) may come
  before the monitor task, of lower priority and pinned to one core, has made its queue (`Boot`): FreeRTOS aborts.
  `OnlyEarlyLog` says that nothing else can.
* A connection given up for new credentials just as it is made is reported under the new name with the old address,
  until the next report.

Six more disagreements were found with the same modules and are recorded as hazards in `PROJECT.json`: a
completion can remove a packet that was not sent (save routine against completion handler, three
packets out); ctxLink's packet lands in `zero_transaction_buffer` when it is clocked out in a transmit
transaction; a SHUTDOWN that reaches a server waiting in accept disconnects the *next* client; an answer that
comes after its client has left goes to the next client; a selection before the slave task has retired the
last transaction leaves its own behind, to be run later with `is_tx` set for another (with `BackToBack`, one packet
out and two in, the handler takes a completed transaction for one of the other direction); a client task reports "disconnected" after the next client's has
reported "connected". `RemovesCompleted`, `ZeroBufferIsZero`,
`ClientKept` and `OwnAnswers` state their absence and hold in the passing runs under the conditions
named there. Lastly, `ctxlink_toggle_nReady`, "a debug aid", inverts nREADY for each request.

## Proofs

| Theorem | States | For |
|---|---|---|
| `SpiLinkProofs!TypeCorrect` | `Spec => []TypeOK` | all queue lengths, windows and traffic |
| `SpiLinkProofs!NeverNull` | `Spec => []NoNullTransfer` | the same |
| `SpiLinkProofs!KeepsOrder` | `Spec => []InOrder` | the same as `TypeCorrect` |
| `RequestReplyProofs!StaysZero` | `Spec => []ZeroBufferIsZero` | one request open (`OneOpen`), any number of exchanges, all queue lengths (input queue of at least 2) |
| `RequestReplyProofs!NeverStalls` | `Spec => []NoStall` | the same |
| `RequestReplyProofs!HoldsAttn` | `Spec => AttnHeld` | the same |
| `RequestReplyProofs!RemovesTheRightOne` | `Spec => RemovesCompleted` | the same |
| `RequestReplyProofs!Implements` | `Spec => RequestReplySafety` | the same |
| `GdbServerProofs!TypeCorrect` | `Spec => []TypeOK` | all clients, requests, losses of the network, queue lengths, failures |
| `GdbServerProofs!OneAtATime` | `Spec => []OneClientAtATime` | the same |
| `GdbServerProofs!OwnDescriptors` | `Spec /\ [][ShutdownHeard]_vars => []DescriptorsOwned` | the same, if no SHUTDOWN is dropped |
| `GdbServerProofs!KeepsClients` | `Spec => [](drops = 0 => ClientKept)` | the same, until the network is lost |
| `GdbServerProofs!AnswersTheRightOne` | `Spec => [](drops = 0 => OwnAnswers)` | the same, if clients wait for their answers (`Polite`) |
| `GatewayProofs!TypeCorrect` | `Spec => []TypeOK` | all rings, queue lengths, connections, requests and unsolicited packets |
| `GatewayProofs!KeepsIntact` | `Spec /\ NeverTakenInUse => []Intact` | the same |
| `GatewayProofs!KeepsChannel` | `Spec /\ NeverTakenInUse => RequestReplySafety` | the same, one request open at a time (`Window = 1`) |
| `GatewayProofs!NeverAsserts` | `Spec /\ NeverTakenInUse => []AssertHolds` | the same as `KeepsIntact` |
| `GatewaySessionProofs!SessionNeverTakesInUse` | `Spec => NeverTakenInUse` | one session (`OneSession`: one connection once the network is reported, a client that waits for its answers (`Polite`), one request open at a time, a ring of at least `Unsolicited + 6`), any number of requests but none, all queue lengths |
| `GatewaySessionProofs!SessionIntact` | `Spec => []Intact` | the same |
| `GatewaySessionProofs!SessionChannel` | `Spec => RequestReplySafety` | the same |
| `GatewaySessionProofs!SessionLosesNothing` | `Spec => []NothingLost` | the same, with an input queue as long as the ring and an output queue of 3 (`LongQueues`; the code has 10 and 4 for 8 buffers) |
| `GatewaySessionProofs!SessionNeverAsserts` | `Spec => []AssertHolds` | the same |
| `WifiTaskProofs!TypeCorrect` | `Spec => []TypeOK` | all names, contents of flash, queue lengths, events and resets |
| `WifiTaskProofs!StoredKept` | `Spec => []StartsAsStored` | the same |
| `WifiTaskProofs!Implements` | `Spec => ServerControlSpec` | the same |
| `WifiTaskProofs!ReportsTruly` | `Spec => []LastReportTrue` | the same; the name only, what is posted only, and not between an unnoticed join and the next loss that is seen |
| `BootProofs!TypeCorrect` | `Spec => []TypeOK` | all queue lengths, traffic, losses of the network |
| `BootProofs!OneEarlyUse` | `Spec => []OnlyEarlyLog` | the same |
| `BootProofs!ReadyInPlace` | `Spec => []ReadyInOrder` | the same |
| `BufferPoolProofs!TypeCorrect` | `Spec => []TypeOK` | all pool sizes, callers, cores |
| `BufferPoolProofs!NoEarlyReuse` | `Spec => []ReuseDistance` | the same |

The assumptions are the modules' own on their constants, and the conditions named in the table, which are
those of the runs or weaker. Each inductive invariant was checked by TLC on a run's instance before it was proved.

**SpiLink.** *TypeOK* of `SpiLink` needs to know that a
packet ctxLink is clocking out is still within its bound (`ClockingOut`). *NeverNull*: `tx_saved_transaction`
is null only before the first peek. The danger is a peek that finds the queue empty, leaves the pointer null and
asserts ATTN; the queue can be empty then only if a completion removed the packet, a
completion needs a transmit transaction, that needs ATTN, and ATTN a peek that succeeded. `Announced` and
`PeekFinds` say this step by step.
*KeepsOrder*: `InOrder` says that the numbers received only grow. `TOrder` follows a packet for ctxLink through the
input queue, the task's hands, the output queue, the saved pointer and the driver, and bounds what is behind by what is
ahead (`Submitted`, `Waiting`, `Saved`, `Driven`, `Delivered`); `ROrder` does so for the other direction (`Clocked`,
`Received`, `Forwarded`, `PassedOn`). Nothing in it needs that a packet arrives, or arrives once: a completion that
removes the wrong packet and a dropped send keep the order too.

**One request open.** `OneOpen` (`Window = 1`, `Unsolicited = 0`, `~BackToBack`, answers only) is what GDB's protocol
does while no program runs. The invariant of `RequestReplyProofs` says that the one packet is in one of seven phases
(`AtRest`, `Asked`, `AnnouncedToLink`, `Fetched`, `Due`, `Answering`, `Answered`), and in each what every queue,
pin, task and handler is at; `Wire` says that nothing is ever left in the driver, `Counted` that what was received is
1, 2, 3, ... Two phases overlap with the handling of the completion (`Confirming`), which the answer may overtake or
follow; that is why the input queue must hold two messages. *Implements* maps each step that moves the packet from one party to the next to
`Request`, `Deliver`, `Answer` or `Return` of `RequestReply`, and every other step to a stutter. `NoStall` and `RemovesCompleted` are false for
three packets (`three`); for two (`pair`) they are model-checked.

**GdbServer.** *OneAtATime* passes a turn: the server has it until it creates a client task, that task until it sends
CLIENT_CLOSED, then the message, of which there is at most one (`Turns`). A dropped message loses the turn for good,
which is safe. *OwnDescriptors* rests on two facts. `Commanded`: if no SHUTDOWN is dropped, starts and shutdowns alternate
as far as the queue shows, and the server is down when it comes to a START; a START may well be dropped. `Numbered` and
`Holds`: the listening socket is therefore always descriptor 0 and the connection 1, so that the second `close`, of the
task or of the server, never hits a number given to another. The condition `ShutdownHeard` is an action, so that a queue that is
full at other times is covered. *KeepsClients*: `Calm` says that before the first loss no SHUTDOWN or START is anywhere,
that client task and server mean the same descriptor (`UsesOne`), that a task closes only after its client has left, and that the
descriptor is free by the time the server closes it again. *AnswersTheRightOne* counts (`Owed`): what is in ctxLink, in the
server's queue and in its hands is all for the client now connected, and with what it has received and what is unread makes up what it
asked. A client that leaves with all its answers therefore leaves nothing behind. After a loss neither theorem holds (see above).

**Gateway.** *TypeCorrect* needs that a task that will use its entry has one (`Pointers`), and that ATTN or an armed transmission
mean a packet in the output queue, so that the completion removes something (`Announced`).

The ring is proved in three layers. (1) *Who has a buffer.* `Holdings` lists everything that has an entry (a place in a
queue, a task's hands), `Reserved` the buffers handed out to be filled (a client task in `read`, an armed reception).
`RingInv` says that a buffer is held or reserved once (`OneHolder`, `OneWaiter`, `Apart`, `OnceInQueues`), that it
contains what its holder was given (`Kept`, whence *KeepsIntact*), and that what is announced or armed for ctxLink is
the first of the output queue (`SendsFirst`). It is inductive only if no buffer is taken that is in use, which the code
does not see to: hence the condition `NeverTakenInUse`, an action property of its own. What each action does to the
holdings is stated once (`ClientPasses`, `SpiPasses`, ...) and is all the other layers need. From it *NeverAsserts*:
each place has its types (`InPlace`), and a client task frames what it read before it queues it (`Packaged`). (2) *The
channel.* `Tokens` says that there is one request on its way out or one answer on its way back, which one, and how the
external counters agree with it; *KeepsChannel* maps `Request`, `Transmitted`, `Answer` and `ServerSends` to the four
steps of `RequestReply`. It is a safety statement: nothing is repeated, reordered, overwritten or made up, but a channel that
stops, or drops what it has, does no wrong step. That nothing is dropped is (4). (3) *When the ring is long enough.* A buffer's age is the number of buffers taken since it was;
its cost is the number that can still be taken while it is in use: for a packet on its way out, what the client task
(`ClientWill`) and the completions of the packets before it (`InfoLeft`, `StatusLeft`) will take; for an answer also
what ctxLink may still send (`Coming`). Age and cost never add up to more than `Unsolicited + 6` (`HoldBounds`,
`WaitBounds`, `DoneBounds`), so that the buffer next to be taken, whose age is N, is not in use (`SessionFree`). That
cost goes down whenever age goes up needs most of what is known about a session: network report, status and request pass
in this order (`ForwardOrder`), an answer is behind everything ctxLink sent before it (`ReplyLast`), ctxLink sends only
between a request and its answer (`Delivering`), and nothing else happens before the network is reported or after the
client has left (`Beginning`, `Closing`). The bound is exact: with N = 8 TLC finds `NeverTakenInUse` violated for three
unsolicited packets. (4) *When nothing is lost.* The entries of a queue have different buffers and leave out the one about to be
queued, so a queue as long as the ring has room (`Room`); in the output queue at most the network report and the
status are before a request (`OutputRoom`). `Goes` follows the open request and the open answer from one holder to the
next, and *SessionLosesNothing* turns that into `NothingLost`, which speaks of every request and answer there was.

**BufferPool.** *NoEarlyReuse*: `BehindIndex` places each of the last N buffers handed out at its distance behind the index, modulo N;
`MutualExclusion` and `CopyIsCurrent` say that the index a caller read is the one it advances.

**WifiTask.** *StoredKept* needs to know which of the two values has been saved (`Saved`). *Implements*: a server was created exactly if
something was done to it, and the two flags cannot both be false once there is one (`Created`), so a look
that finds the network gone shuts down a running server or changes nothing that `ServerControl` sees. *ReportsTruly*:
`is_connected` after all pending events is what the radio is (`EventsTell`), and a connection that counts as processed has been
reported under its name unless the radio has left it since (`Told`).

**Boot.** *TypeCorrect* needs `Counted`: a packet is announced or armed only if there is one, so the count
never falls below zero. The two others rest on `Ordered`: what each task has made by the time it gets where it is
(`Made`), what must have come before (`Before`: nothing connects before the SPI task receives, and nothing is
clocked before something connects), and that no packet for a client waits unless the server listens (`Traffic`).
*ReadyInPlace* needs besides that whatever makes the SPI task announce a packet, the report or a completion, has nREADY behind it (`Announcing`).
Joining a network taking longer than the SPI task's start is an assumption of `Boot` (`Joins`), not a result.

**Model-checked only.** Liveness under fairness, which is beyond what the prover handles: `EveryPacketDelivered`, `SomeoneIsServed`,
`EveryClientServed`, `EveryRequestAnswered`, `ServerFollows`, `TakesCredentials`, `StartUpEnds`, `AnswersReturn`, and the liveness
half of `RequestReplySpec`. `Intact`, `NothingLost` and the channel of `Gateway` for two connections one after the other, without the condition (`ring`): what the
second finds in the queues depends on what the first left there. `NoStall` and `RemovesCompleted` with two packets open (`pair`).

## Not modelled, and what remains

1. Proofs: `NoStall` and `RemovesCompleted` for two packets open (`pair`); `NeverTakenInUse` for several connections in a row.
2. Packet sizes as arithmetic (2048-byte reads, 2000-byte transfers) once the framing library is part of the sources.
3. `GdbServer` over `ServerControl` instead of its own `WifiConnected` and `WifiDisconnected`; the address in a report.

Left out for good: log formatting, debugging pins, OTA credentials, event logging
(`src/wifi-tools/wifi_tools_debug.cpp`), build settings, the driver's operations this program never calls, and
the ESP-IDF, FreeRTOS and lwIP beneath.
