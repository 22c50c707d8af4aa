-------------------------------- MODULE Boot --------------------------------
(***************************************************************************)
(* Start-up: setup() (main.cpp), initCtxLink (ctxlink.cpp), and the first    *)
(* steps of the tasks it creates, each of which creates the queues that the  *)
(* others and the interrupt handlers use without a check, with the monitor   *)
(* task (task_monitor.cpp) and the logging macros (serial_control.h).        *)
(* Outside src/: ctxLink, the access point, and FreeRTOS, which aborts when  *)
(* it is given a null queue handle.                                          *)
(*                                                                           *)
(* The driver's task has priority 5 and is pinned to the core that runs      *)
(* setup() and the monitor task (priority 1): until it waits, they do not    *)
(* run.  All else interleaves freely.                                        *)
(***************************************************************************)
EXTENDS Naturals, Sequences

CONSTANTS
  LogLen,      \* MONITOR_OUTPUT_QUEUE_DEPTH (10)
  InLen,       \* spi_comms_input_queue_length (10)
  MaxPackets,  \* bound: packets from ctxLink
  MaxDrops     \* bound: times the network is lost

ASSUME BootAssumption ==
  /\ LogLen \in Nat \ {0} /\ InLen \in Nat \ {0}
  /\ MaxPackets \in Nat /\ MaxDrops \in Nat

(* driver: the slave task's queues; params: gdb_server_params.server_queue.  *)
Queues == {"driver", "monitor", "input", "output", "wifi", "server", "params"}
Users == {"setup", "ss_activated", "trans_cb", "spi", "wifi", "server"}

VARIABLES
  setup, slave, monitor, spi, wifi, server, \* control of each task
  made,               \* the queues that exist
  system_setup_done,
  nReady, attn,       \* TRUE: the pin is LOW (asserted)
  armed,              \* nSPI_READY is LOW: the transaction that waits for ctxLink
  input,              \* spi_comms_input_queue
  out,                \* messages in spi_comms_output_queue
  logged,             \* messages in task_monitor_queue
  processed,          \* wifi_connect_processed
  link, drops, sent,  \* external: the network; counts for the bounds
  aborted             \* the uses of a queue that did not exist

tasks == <<setup, slave, monitor, spi, wifi, server>>
pins  == <<nReady, attn, armed>>
spiQueues == <<input, out>>
outside == <<link, drops, sent>>
vars == <<tasks, made, system_setup_done, pins, spiQueues, logged, processed,
          outside, aborted>>

Init ==
  /\ setup = "pins"
  /\ slave = "none" /\ monitor = "none" /\ spi = "none" /\ wifi = "none"
  /\ server = "none"
  /\ made = {} /\ system_setup_done = FALSE
  /\ nReady = FALSE /\ attn = FALSE /\ armed = "no"
  /\ input = <<>> /\ out = 0 /\ logged = 0
  /\ processed = FALSE
  /\ link = "off" /\ drops = 0 /\ sent = 0
  /\ aborted = {}
-----------------------------------------------------------------------------
Running == aborted = {}
Uses(user, queues) == aborted' = {<<user, q>> : q \in queues \ made}

(* Pinned to core 1, below the driver's task.                                *)
Core1 == slave # "created"

(* generic_send: a task waits for room, an interrupt handler does not.       *)
Log == logged < LogLen /\ logged' = logged + 1
LogFromIsr == logged' = IF logged < LogLen THEN logged + 1 ELSE logged
-----------------------------------------------------------------------------
(* Mutant of SetupPins: the level nREADY starts at is inverted.              *)
SetupPinsReady ==
  /\ Running /\ setup = "pins"
  /\ setup' = "driver"
  /\ nReady' = TRUE
  /\ UNCHANGED <<slave, monitor, spi, wifi, server, made, system_setup_done,
                 attn, armed, spiQueues, logged, processed, outside, aborted>>

(* initCtxLink sets the pins and attaches the interrupt of the CS pin; then  *)
(* setup() creates the driver's task and the three others.                   *)
SetupPins ==
  /\ Running /\ setup = "pins"
  /\ setup' = "driver"
  /\ UNCHANGED <<slave, monitor, spi, wifi, server, made, system_setup_done,
                 pins, spiQueues, logged, processed, outside, aborted>>

SetupDriver ==
  /\ Running /\ setup = "driver"
  /\ slave' = "created" /\ setup' = "monitor"
  /\ UNCHANGED <<monitor, spi, wifi, server, made, system_setup_done, pins,
                 spiQueues, logged, processed, outside, aborted>>

SetupMonitor ==
  /\ Running /\ setup = "monitor" /\ Core1
  /\ monitor' = "created" /\ setup' = "spi"
  /\ UNCHANGED <<slave, spi, wifi, server, made, system_setup_done, pins,
                 spiQueues, logged, processed, outside, aborted>>

SetupSpi ==
  /\ Running /\ setup = "spi" /\ Core1
  /\ spi' = "created" /\ setup' = "wifi"
  /\ UNCHANGED <<slave, monitor, wifi, server, made, system_setup_done, pins,
                 spiQueues, logged, processed, outside, aborted>>

SetupWifi ==
  /\ Running /\ setup = "wifi" /\ Core1
  /\ wifi' = "created" /\ setup' = "loop"
  /\ UNCHANGED <<slave, monitor, spi, server, made, system_setup_done, pins,
                 spiQueues, logged, processed, outside, aborted>>

Setup == SetupPins \/ SetupDriver \/ SetupMonitor \/ SetupSpi \/ SetupWifi

(* spi_slave_task: its queues, then the loop.                                *)
SlaveStart ==
  /\ Running /\ slave = "created"
  /\ made' = made \cup {"driver"}
  /\ slave' = "wait"
  /\ UNCHANGED <<setup, monitor, spi, wifi, server, system_setup_done, pins,
                 spiQueues, logged, processed, outside, aborted>>

MonitorStart ==
  /\ Running /\ monitor = "created" /\ Core1
  /\ made' = made \cup {"monitor"}
  /\ monitor' = "receive"
  /\ UNCHANGED <<setup, slave, spi, wifi, server, system_setup_done, pins,
                 spiQueues, logged, processed, outside, aborted>>

MonitorPrint ==
  /\ Running /\ monitor = "receive" /\ Core1
  /\ logged > 0
  /\ logged' = logged - 1
  /\ UNCHANGED <<tasks, made, system_setup_done, pins, spiQueues, processed,
                 outside, aborted>>

Monitor == MonitorStart \/ MonitorPrint
-----------------------------------------------------------------------------
(* task_spi_comms: two queues, then the flag that lets the CS handler act.   *)
SpiMakeInput ==
  /\ Running /\ spi = "created"
  /\ made' = made \cup {"input"}
  /\ spi' = "output"
  /\ UNCHANGED <<setup, slave, monitor, wifi, server, system_setup_done, pins,
                 spiQueues, logged, processed, outside, aborted>>

SpiMakeOutput ==
  /\ Running /\ spi = "output"
  /\ made' = made \cup {"output"}
  /\ spi' = "done"
  /\ UNCHANGED <<setup, slave, monitor, wifi, server, system_setup_done, pins,
                 spiQueues, logged, processed, outside, aborted>>

SpiSetupDone ==
  /\ Running /\ spi = "done"
  /\ system_setup_done' = TRUE
  /\ spi' = "receive"
  /\ UNCHANGED <<setup, slave, monitor, wifi, server, made, pins, spiQueues,
                 logged, processed, outside, aborted>>

SpiForward(type, queue) ==
  /\ Running /\ spi = "receive"
  /\ input # <<>> /\ Head(input) = type
  /\ input' = Tail(input)
  /\ Uses("spi", {queue})
  /\ UNCHANGED <<tasks, made, system_setup_done, pins, out, logged, processed,
                 outside>>

SpiForwardToServer == SpiForward("to_gdb", "params")
SpiForwardToWifi == SpiForward("set_network_info", "wifi")

(* Mutant of SpiReport: the packets are counted before this one is queued.   *)
SpiReportCountsFirst ==
  /\ Running /\ spi = "receive"
  /\ input # <<>> /\ Head(input) = "network_info"
  /\ input' = Tail(input)
  /\ Log
  /\ Uses("spi", {"monitor", "output"})
  /\ out' = out + 1
  /\ attn' = (attn \/ out = 1)
  /\ UNCHANGED <<tasks, made, system_setup_done, nReady, armed, processed, outside>>

(* The network report is queued for ctxLink and announced.                   *)
SpiReport ==
  /\ Running /\ spi = "receive"
  /\ input # <<>> /\ Head(input) = "network_info"
  /\ input' = Tail(input)
  /\ Log
  /\ Uses("spi", {"monitor", "output"})
  /\ out' = out + 1
  /\ attn' = (attn \/ out = 0)
  /\ UNCHANGED <<tasks, made, system_setup_done, nReady, armed, processed, outside>>

SpiCompleted ==
  /\ Running /\ spi = "receive"
  /\ input # <<>> /\ Head(input) = "completed"
  /\ input' = Tail(input)
  /\ Log
  /\ Uses("spi", {"monitor", "output"})
  /\ attn' = (attn \/ out = 1)
  /\ UNCHANGED <<tasks, made, system_setup_done, nReady, armed, out, processed,
                 outside>>

Spi == SpiMakeInput \/ SpiMakeOutput \/ SpiSetupDone \/ SpiForwardToServer
       \/ SpiForwardToWifi \/ SpiReport \/ SpiCompleted
-----------------------------------------------------------------------------
(* task_wifi: its queue, the stored credentials, and then the first attempt  *)
(* to connect.  WifiLog is the first line of log on the way: that a value is *)
(* not in flash (ctxlink_preferences.cpp:77 or 87), or else the name read    *)
(* (task_wifi.cpp:158).                                                      *)
WifiStart ==
  /\ Running /\ wifi = "created"
  /\ made' = made \cup {"wifi"}
  /\ wifi' = "log"
  /\ UNCHANGED <<setup, slave, monitor, spi, server, system_setup_done, pins,
                 spiQueues, logged, processed, outside, aborted>>

WifiLog ==
  /\ Running /\ wifi = "log"
  /\ Log
  /\ Uses("wifi", {"monitor"})
  /\ wifi' = "begin"
  /\ UNCHANGED <<setup, slave, monitor, spi, server, made, system_setup_done,
                 pins, spiQueues, processed, outside>>

WifiBegin ==
  /\ Running /\ wifi = "begin"
  /\ link' = "trying"
  /\ wifi' = "poll"
  /\ UNCHANGED <<setup, slave, monitor, spi, server, made, system_setup_done,
                 pins, spiQueues, logged, processed, drops, sent, aborted>>

(* The server task is created for the first connection; a later one sends it *)
(* a command, if it has made its queue.                                      *)
WifiConnected ==
  /\ Running /\ wifi = "poll" /\ link = "up" /\ ~processed
  /\ processed' = TRUE
  /\ Log
  /\ IF server = "none"
     THEN server' = "created" /\ Uses("wifi", {"monitor"})
     ELSE Uses("wifi", {"monitor"} \cup ({"server"} \cap made)) /\ UNCHANGED server
  /\ wifi' = "ready"
  /\ UNCHANGED <<setup, slave, monitor, spi, made, system_setup_done, pins,
                 spiQueues, outside>>

WifiReady ==
  /\ Running /\ wifi = "ready"
  /\ nReady' = TRUE
  /\ wifi' = "delay"
  /\ UNCHANGED <<setup, slave, monitor, spi, server, made, system_setup_done,
                 attn, armed, spiQueues, logged, processed, outside, aborted>>

WifiReport ==
  /\ Running /\ wifi = "delay"
  /\ Uses("wifi", {"input"})
  /\ input' = IF Len(input) < InLen THEN Append(input, "network_info") ELSE input
  /\ wifi' = "poll"
  /\ UNCHANGED <<setup, slave, monitor, spi, server, made, system_setup_done,
                 pins, out, logged, processed, outside>>

(* wifi_send_server_command looks at the handle and the queue first.         *)
WifiDisconnected ==
  /\ Running /\ wifi = "poll" /\ link # "up" /\ processed
  /\ processed' = FALSE
  /\ Log
  /\ Uses("wifi", {"monitor"} \cup ({"server"} \cap made))
  /\ UNCHANGED <<tasks, made, system_setup_done, pins, spiQueues, outside>>

Wifi == WifiStart \/ WifiLog \/ WifiBegin \/ WifiConnected \/ WifiReady
        \/ WifiReport \/ WifiDisconnected

(* task_wifi_server: the queue, the copy of its handle that the SPI task     *)
(* uses, and the listening socket.                                           *)
ServerMakeQueue ==
  /\ Running /\ server = "created"
  /\ made' = made \cup {"server"}
  /\ server' = "params"
  /\ UNCHANGED <<setup, slave, monitor, spi, wifi, system_setup_done, pins,
                 spiQueues, logged, processed, outside, aborted>>

ServerSaveQueue ==
  /\ Running /\ server = "params"
  /\ made' = made \cup {"params"}
  /\ server' = "configure"
  /\ UNCHANGED <<setup, slave, monitor, spi, wifi, system_setup_done, pins,
                 spiQueues, logged, processed, outside, aborted>>

ServerListen ==
  /\ Running /\ server = "configure"
  /\ Log
  /\ Uses("server", {"monitor"})
  /\ server' = "listen"
  /\ UNCHANGED <<setup, slave, monitor, spi, wifi, made, system_setup_done, pins,
                 spiQueues, processed, outside>>

Server == ServerMakeQueue \/ ServerSaveQueue \/ ServerListen
-----------------------------------------------------------------------------
(* Mutant of SpiSsActivated: it acts before system_setup_done.               *)
SpiSsActivatedEarly ==
  /\ Running /\ setup # "pins"
  /\ armed = "no"
  /\ Uses("ss_activated", {"driver"})
  /\ armed' = IF attn THEN "tx" ELSE "rx"
  /\ UNCHANGED <<tasks, made, system_setup_done, nReady, attn, spiQueues, logged,
                 processed, outside>>

(* ctxLink pulls CS low, ready or not; the handler and the driver's task arm *)
(* a transaction.                                                            *)
SpiSsActivated ==
  /\ Running /\ setup # "pins"
  /\ system_setup_done /\ armed = "no"
  /\ Uses("ss_activated", {"driver"})
  /\ armed' = IF attn THEN "tx" ELSE "rx"
  /\ UNCHANGED <<tasks, made, system_setup_done, nReady, attn, spiQueues, logged,
                 processed, outside>>

(* Mutant of UserTransactionCallback: nSPI_READY stays LOW after a           *)
(* transaction.                                                              *)
UserTransactionCallbackStays(type) ==
  /\ Running /\ nReady
  /\ attn' = FALSE
  /\ Uses("trans_cb", {"input", "output", "monitor"})
  /\ LogFromIsr
  /\ input' = IF Len(input) < InLen THEN Append(input, type) ELSE input
  /\ UNCHANGED <<tasks, made, system_setup_done, nReady, armed, processed, link,
                 drops>>

(* ctxLink clocks a transaction once nREADY is LOW: it collects a packet, or *)
(* sends one of its own.  Traffic for a client needs a client, which needs a *)
(* server that listens.                                                      *)
UserTransactionCallback(type) ==
  /\ Running /\ nReady
  /\ armed' = "no"
  /\ attn' = FALSE
  /\ Uses("trans_cb", {"input", "output", "monitor"})
  /\ LogFromIsr
  /\ input' = IF Len(input) < InLen THEN Append(input, type) ELSE input
  /\ UNCHANGED <<tasks, made, system_setup_done, nReady, processed, link, drops>>

Collects ==
  /\ armed = "tx"
  /\ UserTransactionCallback("completed")
  /\ out' = out - 1
  /\ UNCHANGED sent

Sends(type) ==
  /\ armed = "rx" /\ sent < MaxPackets
  /\ type = "to_gdb" => server = "listen"
  /\ UserTransactionCallback(type)
  /\ sent' = sent + 1
  /\ UNCHANGED out

CtxLink == Collects \/ \E type \in {"to_gdb", "set_network_info"} : Sends(type)

(* Joining a network takes longer than the SPI task takes to start.          *)
Joins ==
  /\ Running /\ link = "trying"
  /\ spi = "receive"
  /\ link' = "up"
  /\ UNCHANGED <<tasks, made, system_setup_done, pins, spiQueues, logged,
                 processed, drops, sent, aborted>>

Loses ==
  /\ Running /\ link = "up" /\ drops < MaxDrops
  /\ link' = "trying"
  /\ drops' = drops + 1
  /\ UNCHANGED <<tasks, made, system_setup_done, pins, spiQueues, logged,
                 processed, sent, aborted>>
-----------------------------------------------------------------------------
Next == Setup \/ SlaveStart \/ Monitor \/ Spi \/ Wifi \/ Server
        \/ SpiSsActivated \/ CtxLink \/ Joins \/ Loses

Spec == Init /\ [][Next]_vars

(* Every task is scheduled, and the network can be joined.                   *)
Fairness ==
  /\ WF_vars(Setup) /\ WF_vars(SlaveStart) /\ WF_vars(Monitor) /\ WF_vars(Spi)
  /\ WF_vars(Wifi) /\ WF_vars(Server) /\ WF_vars(Joins)

FairSpec == Spec /\ Fairness
-----------------------------------------------------------------------------
TypeOK ==
  /\ setup \in {"pins", "driver", "monitor", "spi", "wifi", "loop"}
  /\ slave \in {"none", "created", "wait"}
  /\ monitor \in {"none", "created", "receive"}
  /\ spi \in {"none", "created", "output", "done", "receive"}
  /\ wifi \in {"none", "created", "log", "begin", "poll", "ready", "delay"}
  /\ server \in {"none", "created", "params", "configure", "listen"}
  /\ made \subseteq Queues
  /\ system_setup_done \in BOOLEAN /\ nReady \in BOOLEAN /\ attn \in BOOLEAN
  /\ processed \in BOOLEAN
  /\ armed \in {"no", "rx", "tx"}
  /\ input \in Seq({"to_gdb", "set_network_info", "network_info", "completed"})
  /\ Len(input) <= InLen /\ logged \in 0..LogLen /\ out \in Nat
  /\ link \in {"off", "trying", "up"}
  /\ drops \in 0..MaxDrops /\ sent \in 0..MaxPackets
  /\ aborted \subseteq Users \X Queues

(* Of all the uses of a queue by tasks and interrupt handlers, one alone can *)
(* come before the queue is created: the first log line of the Wi-Fi task    *)
(* (ctxlink_preferences.cpp:77 when flash is empty, otherwise                *)
(* task_wifi.cpp:158), which overtakes the start of the monitor task.        *)
OnlyEarlyLog == aborted \subseteq {<<"wifi", "monitor">>}

(* nREADY, once LOW (ctxlink.cpp:240, task_wifi.cpp:258), comes in its place: *)
(* after the driver's task, the monitor task and the Wi-Fi task have their   *)
(* queues, whichever was slow to start, and before any packet is announced   *)
(* to ctxLink or handed to the driver for it, which only a report posted     *)
(* after nREADY or a transaction clocked after nREADY brings about.  The     *)
(* server's queue need not exist then: the server task has been created, no  *)
(* more.                                                                     *)
ReadyInOrder ==
  /\ nReady => {"driver", "monitor", "wifi"} \subseteq made
  /\ attn \/ armed = "tx" => nReady

(* Start-up ends: unless the early log line aborts it, ctxLink is told that  *)
(* there is a network report for it.                                         *)
StartUpEnds == <>(aborted # {} \/ attn)
=============================================================================
