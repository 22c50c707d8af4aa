------------------------------ MODULE WifiTask ------------------------------
(***************************************************************************)
(* The Wi-Fi task (task_wifi.cpp) with the credentials it reads from flash  *)
(* at start-up (ctxlink_preferences.cpp) and the event handler that tells   *)
(* it whether the network is there (wifi_tools.cpp).  Outside src/: the     *)
(* radio and its driver, which post events, and ctxLink, which sends new    *)
(* credentials.                                                             *)
(***************************************************************************)
EXTENDS Naturals, Sequences

CONSTANTS
  Names,      \* strings that serve as network names and pass phrases
  Default,    \* the default of either
  NONE,       \* a key that is not in flash; no network
  QueueLen,   \* wifi_comms_queue_length (4)
  MaxInfo,    \* bound: SET_NETWORK_INFO packets from ctxLink
  MaxEvents,  \* bound: driver events
  MaxResets   \* bound: resets of the ESP32

ASSUME WifiTaskAssumption ==
  /\ Default \in Names /\ NONE \notin Names
  /\ QueueLen \in Nat \ {0}
  /\ MaxInfo \in Nat /\ MaxEvents \in Nat /\ MaxResets \in Nat

Credentials == [ssid : Names, password : Names]

VARIABLES
  flash,                       \* what the two keys hold
  pc,                          \* control of the task
  credentials,                 \* ssid and password
  message,                     \* the packet being processed
  wifi_comms_queue,
  wifi_connect_processed, wifi_disconnect_processed,
  network_info,                \* the network name it holds
  gdb_task,                    \* gdb_task_handle # NULL
  commands,                    \* history: what was done to the server
  reports,                     \* history: NETWORK_INFO packets posted
  is_connected,                \* WiFi_Tools::is_connected
  radio, events,               \* external: driver state and pending events
  unnoticed,                   \* history: was a network joined while the last
                               \* connection still counts as processed?
  infos, occurred, resets      \* counts for the bounds

taskVars  == <<pc, credentials, message, network_info>>
flagVars  == <<wifi_connect_processed, wifi_disconnect_processed>>
serverVars == <<gdb_task, commands, reports>>
radioVars == <<is_connected, radio, events, unnoticed, occurred>>
vars == <<flash, taskVars, wifi_comms_queue, flagVars, serverVars, radioVars,
          infos, resets>>

Defaults == [ssid |-> Default, password |-> Default]

(* The flash may hold neither, one or both of the keys.                      *)
Init ==
  /\ flash \in [ssid : Names \cup {NONE}, password : Names \cup {NONE}]
  /\ pc = "boot"
  /\ credentials = Defaults
  /\ message = Defaults
  /\ wifi_comms_queue = <<>>
  /\ wifi_connect_processed = FALSE /\ wifi_disconnect_processed = FALSE
  /\ network_info = NONE
  /\ gdb_task = FALSE /\ commands = <<>> /\ reports = <<>>
  /\ is_connected = FALSE
  /\ radio = "off" /\ events = <<>> /\ unnoticed = FALSE
  /\ infos = 0 /\ occurred = 0 /\ resets = 0
-----------------------------------------------------------------------------
(* Mutant of Stored: a missing value is used as it is.                       *)
StoredMissing(v) == v

(* preferences_get_wifi_parameters: a missing value is replaced by its       *)
(* default, and then both are saved, one after the other.                    *)
Stored(v) == IF v = NONE THEN Default ELSE v

(* Mutant of ReadPreferences: a missing name is not saved.                   *)
ReadPreferencesUnsaved ==
  /\ pc = "boot"
  /\ credentials' = [ssid |-> Stored(flash.ssid), password |-> Stored(flash.password)]
  /\ pc' = IF flash.password = NONE THEN "save_ssid" ELSE "begin"
  /\ UNCHANGED <<flash, message, network_info, wifi_comms_queue, flagVars,
                 serverVars, radioVars, infos, resets>>

ReadPreferences ==
  /\ pc = "boot"
  /\ credentials' = [ssid |-> Stored(flash.ssid), password |-> Stored(flash.password)]
  /\ pc' = IF NONE \in {flash.ssid, flash.password} THEN "save_ssid" ELSE "begin"
  /\ UNCHANGED <<flash, message, network_info, wifi_comms_queue, flagVars,
                 serverVars, radioVars, infos, resets>>

SaveSsid ==
  /\ pc = "save_ssid"
  /\ flash' = [flash EXCEPT !.ssid = credentials.ssid]
  /\ pc' = "save_password"
  /\ UNCHANGED <<credentials, message, network_info, wifi_comms_queue, flagVars,
                 serverVars, radioVars, infos, resets>>

SavePassword ==
  /\ pc = "save_password"
  /\ flash' = [flash EXCEPT !.password = credentials.password]
  /\ pc' = "begin"
  /\ UNCHANGED <<credentials, message, network_info, wifi_comms_queue, flagVars,
                 serverVars, radioVars, infos, resets>>
-----------------------------------------------------------------------------
(* The driver leaves the network it is on, which it reports.                 *)
Left == IF radio = "up" THEN Append(events, "disconnected") ELSE events

(* wifi_startup: the driver starts to connect.                               *)
WifiStartup ==
  /\ radio' = "trying"
  /\ events' = Left
  /\ UNCHANGED <<is_connected, unnoticed, occurred>>

Begin ==
  /\ pc = "begin"
  /\ WifiStartup
  /\ pc' = "poll"
  /\ UNCHANGED <<flash, credentials, message, network_info, wifi_comms_queue,
                 flagVars, serverVars, infos, resets>>

Receive ==
  /\ pc = "poll"
  /\ wifi_comms_queue # <<>>
  /\ message' = Head(wifi_comms_queue)
  /\ wifi_comms_queue' = Tail(wifi_comms_queue)
  /\ pc' = "message"
  /\ UNCHANGED <<flash, credentials, network_info, flagVars, serverVars, radioVars,
                 infos, resets>>

ReceiveTimesOut ==
  /\ pc = "poll"
  /\ wifi_comms_queue = <<>>
  /\ pc' = "check"
  /\ UNCHANGED <<flash, credentials, message, network_info, wifi_comms_queue,
                 flagVars, serverVars, radioVars, infos, resets>>

(* New credentials: used at once when there is no connection, answered with  *)
(* the network information when nothing changes, and otherwise the way in to *)
(* wifi_disconnect.                                                          *)
Connect ==
  /\ pc = "message" /\ ~is_connected
  /\ credentials' = message
  /\ WifiStartup
  /\ pc' = "check"
  /\ UNCHANGED <<flash, message, network_info, wifi_comms_queue, flagVars,
                 serverVars, infos, resets>>

Unchanged ==
  /\ pc = "message" /\ is_connected /\ message = credentials
  /\ reports' = Append(reports, network_info)
  /\ pc' = "check"
  /\ UNCHANGED <<flash, credentials, message, network_info, wifi_comms_queue,
                 flagVars, gdb_task, commands, radioVars, infos, resets>>

Reconnect ==
  /\ pc = "message" /\ is_connected /\ message # credentials
  /\ network_info' = NONE
  /\ credentials' = message
  /\ pc' = "disconnect"
  /\ UNCHANGED <<flash, message, wifi_comms_queue, flagVars, serverVars, radioVars,
                 infos, resets>>

(* wifi_disconnect.  The task then waits in ulTaskNotifyTake ("notify"): no  *)
(* code notifies it, so there is no step that ends the wait.                 *)
Disconnect ==
  /\ pc = "disconnect" /\ is_connected
  /\ radio' = "off"
  /\ events' = Left
  /\ pc' = "notify"
  /\ UNCHANGED <<flash, credentials, message, network_info, wifi_comms_queue,
                 flagVars, serverVars, is_connected, unnoticed, occurred, infos,
                 resets>>

AlreadyDisconnected ==
  /\ pc = "disconnect" /\ ~is_connected
  /\ WifiStartup
  /\ pc' = "check"
  /\ UNCHANGED <<flash, credentials, message, network_info, wifi_comms_queue,
                 flagVars, serverVars, infos, resets>>
-----------------------------------------------------------------------------
(* Mutant of Connected: the network information is filled in only once.      *)
ConnectedOnce ==
  /\ pc = "check" /\ is_connected /\ ~wifi_connect_processed
  /\ wifi_connect_processed' = TRUE
  /\ wifi_disconnect_processed' = FALSE
  /\ network_info' = IF gdb_task THEN network_info ELSE credentials.ssid
  /\ gdb_task' = TRUE
  /\ commands' = Append(commands, IF gdb_task THEN "start" ELSE "create")
  /\ pc' = "delay"
  /\ UNCHANGED <<flash, credentials, message, wifi_comms_queue, reports, radioVars,
                 infos, resets>>

(* The first look at a connection: start the server, or have it restarted.   *)
(* The network information is captured now and posted a second later.        *)
Connected ==
  /\ pc = "check" /\ is_connected /\ ~wifi_connect_processed
  /\ wifi_connect_processed' = TRUE
  /\ wifi_disconnect_processed' = FALSE
  /\ network_info' = credentials.ssid
  /\ gdb_task' = TRUE
  /\ commands' = Append(commands, IF gdb_task THEN "start" ELSE "create")
  /\ pc' = "delay"
  /\ UNCHANGED <<flash, credentials, message, wifi_comms_queue, reports, radioVars,
                 infos, resets>>

(* xQueueSend with a timeout of 0 posts the report; it is dropped if the SPI *)
(* task's input queue is full, which this task does not learn.               *)
DelayOver ==
  /\ pc = "delay"
  /\ reports' = Append(reports, network_info)
  /\ pc' = "poll"
  /\ UNCHANGED <<flash, credentials, message, network_info, wifi_comms_queue,
                 flagVars, gdb_task, commands, radioVars, infos, resets>>

(* Mutant of StillConnected: the queue is not looked at again.               *)
StillConnectedStays ==
  /\ pc = "check" /\ is_connected /\ wifi_connect_processed
  /\ UNCHANGED vars

StillConnected ==
  /\ pc = "check" /\ is_connected /\ wifi_connect_processed
  /\ pc' = "poll"
  /\ UNCHANGED <<flash, credentials, message, network_info, wifi_comms_queue,
                 flagVars, serverVars, radioVars, infos, resets>>

(* WiFi_Tools::reconnect, limited by a timer.  _should_reconnect starts TRUE  *)
(* and is never cleared, so neither it nor _is_first_disconnect matters.     *)
TryAgain ==
  \/ UNCHANGED <<radio, events>>
  \/ radio' = "trying" /\ events' = Left

(* Mutants of Disconnected: wifi_connect_processed is not reset; the flag    *)
(* that it has been run is not set.                                          *)
DisconnectedKeepsFlag ==
  /\ pc = "check" /\ ~is_connected /\ ~wifi_disconnect_processed
  /\ TryAgain
  /\ wifi_disconnect_processed' = TRUE
  /\ commands' = IF gdb_task THEN Append(commands, "shutdown") ELSE commands
  /\ unnoticed' = FALSE
  /\ pc' = "poll"
  /\ UNCHANGED <<flash, credentials, message, network_info, wifi_comms_queue,
                 wifi_connect_processed, gdb_task, reports, is_connected,
                 occurred, infos, resets>>
DisconnectedAgain ==
  /\ pc = "check" /\ ~is_connected /\ ~wifi_disconnect_processed
  /\ TryAgain
  /\ wifi_connect_processed' = FALSE
  /\ commands' = IF gdb_task THEN Append(commands, "shutdown") ELSE commands
  /\ unnoticed' = FALSE
  /\ pc' = "poll"
  /\ UNCHANGED <<flash, credentials, message, network_info, wifi_comms_queue,
                 wifi_disconnect_processed, gdb_task, reports, is_connected,
                 occurred, infos, resets>>

Disconnected ==
  /\ pc = "check" /\ ~is_connected /\ ~wifi_disconnect_processed
  /\ TryAgain
  /\ wifi_disconnect_processed' = TRUE
  /\ wifi_connect_processed' = FALSE
  /\ commands' = IF gdb_task THEN Append(commands, "shutdown") ELSE commands
  /\ unnoticed' = FALSE
  /\ pc' = "poll"
  /\ UNCHANGED <<flash, credentials, message, network_info, wifi_comms_queue,
                 gdb_task, reports, is_connected, occurred, infos, resets>>

StillDisconnected ==
  /\ pc = "check" /\ ~is_connected /\ wifi_disconnect_processed
  /\ TryAgain
  /\ pc' = "poll"
  /\ UNCHANGED <<flash, credentials, message, network_info, wifi_comms_queue,
                 flagVars, serverVars, is_connected, unnoticed, occurred, infos,
                 resets>>
-----------------------------------------------------------------------------
(* WiFi_Tools::_event_handler, in the task that delivers driver events.      *)
EventHandler ==
  /\ events # <<>>
  /\ is_connected' = (Head(events) = "got_ip")
  /\ events' = Tail(events)
  /\ UNCHANGED <<flash, taskVars, wifi_comms_queue, flagVars, serverVars, radio,
                 unnoticed, occurred, infos, resets>>

(* The driver gets a connection, fails to, or loses it.                      *)
RadioChanges(from, to, event) ==
  /\ radio = from
  /\ occurred < MaxEvents
  /\ occurred' = occurred + 1
  /\ radio' = to
  /\ events' = Append(events, event)
  /\ UNCHANGED <<flash, taskVars, wifi_comms_queue, flagVars, serverVars,
                 is_connected, infos, resets>>

Associates ==
  /\ RadioChanges("trying", "up", "got_ip")
  /\ unnoticed' = (unnoticed \/ (wifi_connect_processed /\ pc # "delay"))

Fails ==
  /\ RadioChanges("trying", "off", "disconnected")
  /\ UNCHANGED unnoticed

Loses ==
  /\ RadioChanges("up", "off", "disconnected")
  /\ UNCHANGED unnoticed

(* The SPI task forwards credentials from ctxLink, waiting for room.         *)
SetNetworkInfo ==
  /\ pc \notin {"boot", "save_ssid", "save_password", "begin"}
  /\ infos < MaxInfo
  /\ Len(wifi_comms_queue) < QueueLen
  /\ infos' = infos + 1
  /\ \E c \in Credentials : wifi_comms_queue' = Append(wifi_comms_queue, c)
  /\ UNCHANGED <<flash, taskVars, flagVars, serverVars, radioVars, resets>>

(* A reset loses all but the flash.                                          *)
Reset ==
  /\ resets < MaxResets
  /\ resets' = resets + 1
  /\ pc' = "boot"
  /\ credentials' = Defaults
  /\ message' = Defaults
  /\ wifi_comms_queue' = <<>>
  /\ wifi_connect_processed' = FALSE /\ wifi_disconnect_processed' = FALSE
  /\ network_info' = NONE
  /\ gdb_task' = FALSE /\ commands' = <<>> /\ reports' = <<>>
  /\ is_connected' = FALSE
  /\ radio' = "off" /\ events' = <<>> /\ unnoticed' = FALSE
  /\ UNCHANGED <<flash, infos, occurred>>
-----------------------------------------------------------------------------
Task == ReadPreferences \/ SaveSsid \/ SavePassword \/ Begin \/ Receive
        \/ ReceiveTimesOut \/ Connect \/ Unchanged \/ Reconnect \/ Disconnect
        \/ AlreadyDisconnected \/ Connected \/ DelayOver \/ StillConnected
        \/ Disconnected \/ StillDisconnected

Next == Task \/ EventHandler \/ Associates \/ Fails \/ Loses \/ SetNetworkInfo \/ Reset

Spec == Init /\ [][Next]_vars

(* The task and the event task are scheduled; the radio promises nothing.    *)
FairSpec == Spec /\ WF_vars(Task) /\ WF_vars(EventHandler)
-----------------------------------------------------------------------------
TypeOK ==
  /\ flash \in [ssid : Names \cup {NONE}, password : Names \cup {NONE}]
  /\ pc \in {"boot", "save_ssid", "save_password", "begin", "poll", "message",
             "disconnect", "notify", "check", "delay"}
  /\ credentials \in Credentials /\ message \in Credentials
  /\ wifi_comms_queue \in Seq(Credentials) /\ Len(wifi_comms_queue) <= QueueLen
  /\ wifi_connect_processed \in BOOLEAN /\ wifi_disconnect_processed \in BOOLEAN
  /\ network_info \in Names \cup {NONE}
  /\ gdb_task \in BOOLEAN
  /\ commands \in Seq({"create", "start", "shutdown"})
  /\ reports \in Seq(Names \cup {NONE})
  /\ is_connected \in BOOLEAN
  /\ radio \in {"off", "trying", "up"}
  /\ events \in Seq({"got_ip", "disconnected"}) /\ unnoticed \in BOOLEAN
  /\ infos \in 0..MaxInfo /\ occurred \in 0..MaxEvents /\ resets \in 0..MaxResets

(* However the network comes and goes between two looks at it, the server is *)
(* created once and then shut down and started in turn (task_wifi.cpp:       *)
(* 206-276), which GdbServer takes for granted.                              *)
SC == INSTANCE ServerControl WITH up <- wifi_connect_processed
ServerControlSpec == SC!Spec

(* Wherever a reset hits the saving of defaults, the task starts with the    *)
(* two values that are in flash, and both are (ctxlink_preferences.cpp:      *)
(* 51-58, 75-94).                                                            *)
StartsAsStored == pc = "begin" => credentials = flash

(* The network is named in what is posted for ctxLink: when the task waits   *)
(* on a connection that it has processed and no event is pending, the last   *)
(* report names the network the driver is on, which is that of the           *)
(* credentials - whether credentials come before, while or after an attempt  *)
(* to connect succeeds, and whatever the one-second delay covers             *)
(* (task_wifi.cpp:185-204, 210, 259).  Not so from the moment a network is   *)
(* joined before the task has seen that the last one was lost until it next  *)
(* sees the network gone: the task has then nothing to post.  The address in *)
(* the report is not covered.                                                *)
LastReportTrue ==
  pc = "poll" /\ is_connected /\ events = <<>> /\ wifi_connect_processed /\ ~unnoticed
    => reports # <<>> /\ reports[Len(reports)] = credentials.ssid

(* The server follows the network: if it stays, the server is eventually     *)
(* running, and if it stays away, shut down - unless the task is stuck in    *)
(* wifi_disconnect.                                                          *)
ServerIs(s) == commands # <<>> /\ commands[Len(commands)] \in s
ServerFollows ==
  /\ is_connected ~> ~is_connected \/ pc = "notify" \/ ServerIs({"create", "start"})
  /\ ~is_connected /\ gdb_task
       ~> is_connected \/ ~gdb_task \/ pc = "notify" \/ ServerIs({"shutdown"})

(* Credentials do not stay in the queue, where the SPI task would end up     *)
(* waiting for room (task_spi_comms.cpp:171) - unless the task is stuck in   *)
(* wifi_disconnect.                                                          *)
TakesCredentials ==
  wifi_comms_queue # <<>> ~> wifi_comms_queue = <<>> \/ pc = "notify"
=============================================================================
