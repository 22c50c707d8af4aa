--------------------------- MODULE WifiTaskProofs ---------------------------
(***************************************************************************)
(* Theorems about the Wi-Fi task, for all names, all contents of flash and   *)
(* every interleaving of the task, the driver's events, ctxLink's            *)
(* credentials and resets.                                                   *)
(***************************************************************************)
EXTENDS WifiTask, TLAPS

(* Only these actions touch the variables ServerControl sees.                *)
Others == ReadPreferences \/ SaveSsid \/ SavePassword \/ Begin \/ Receive
          \/ ReceiveTimesOut \/ Connect \/ Unchanged \/ Reconnect \/ Disconnect
          \/ AlreadyDisconnected \/ DelayOver \/ StillConnected
          \/ StillDisconnected \/ EventHandler \/ Associates \/ Fails \/ Loses
          \/ SetNetworkInfo

LEMMA NextSplit ==
  [Next]_vars => Others \/ Connected \/ Disconnected \/ Reset \/ UNCHANGED vars
BY DEF Next, Task, Others

(* A packet keeps its type through the events and the queue.                 *)
LEMMA LeftType ==
  ASSUME TypeOK
  PROVE  Left \in Seq({"got_ip", "disconnected"})
BY DEF TypeOK, Left

LEMMA DefaultsType == Defaults \in Credentials
BY WifiTaskAssumption DEF Defaults, Credentials

LEMMA InitType == Init => TypeOK
<1> SUFFICES ASSUME Init PROVE TypeOK
  OBVIOUS
<1>1. /\ wifi_comms_queue \in Seq(Credentials) /\ Len(wifi_comms_queue) <= QueueLen
      /\ commands \in Seq({"create", "start", "shutdown"})
      /\ reports \in Seq(Names \cup {NONE})
      /\ events \in Seq({"got_ip", "disconnected"})
  BY WifiTaskAssumption DEF Init
<1>2. infos \in 0..MaxInfo /\ occurred \in 0..MaxEvents /\ resets \in 0..MaxResets
  BY WifiTaskAssumption DEF Init
<1> QED
  BY <1>1, <1>2, DefaultsType DEF Init, TypeOK
-----------------------------------------------------------------------------
(* The type invariant is inductive.                                          *)
LEMMA NextType == TypeOK /\ [Next]_vars => TypeOK'
<1> SUFFICES ASSUME TypeOK, [Next]_vars PROVE TypeOK'
  OBVIOUS
<1> USE WifiTaskAssumption
<1>1. CASE ReadPreferences
  BY <1>1 DEF ReadPreferences, Stored, TypeOK, Credentials, serverVars, flagVars, radioVars
<1>2. CASE SaveSsid
  BY <1>2 DEF SaveSsid, TypeOK, Credentials, serverVars, flagVars, radioVars
<1>3. CASE SavePassword
  BY <1>3 DEF SavePassword, TypeOK, Credentials, serverVars, flagVars, radioVars
<1>4. CASE Begin
  BY <1>4, LeftType DEF Begin, WifiStartup, TypeOK, serverVars, flagVars
<1>5. CASE Receive
  BY <1>5 DEF Receive, TypeOK, serverVars, flagVars, radioVars
<1>6. CASE ReceiveTimesOut
  BY <1>6 DEF ReceiveTimesOut, TypeOK, serverVars, flagVars, radioVars
<1>7. CASE Connect
  BY <1>7, LeftType DEF Connect, WifiStartup, TypeOK, serverVars, flagVars
<1>8. CASE Unchanged
  BY <1>8 DEF Unchanged, TypeOK, flagVars, radioVars
<1>9. CASE Reconnect
  BY <1>9 DEF Reconnect, TypeOK, serverVars, flagVars, radioVars
<1>10. CASE Disconnect
  BY <1>10, LeftType DEF Disconnect, TypeOK, serverVars, flagVars
<1>11. CASE AlreadyDisconnected
  BY <1>11, LeftType DEF AlreadyDisconnected, WifiStartup, TypeOK, serverVars, flagVars
<1>12. CASE Connected
  <2>1. commands' \in Seq({"create", "start", "shutdown"})
    BY <1>12 DEF Connected, TypeOK
  <2>2. network_info' \in Names \cup {NONE}
    BY <1>12 DEF Connected, TypeOK, Credentials
  <2> QED
    BY <1>12, <2>1, <2>2 DEF Connected, TypeOK, radioVars
<1>13. CASE DelayOver
  BY <1>13 DEF DelayOver, TypeOK, flagVars, radioVars
<1>14. CASE StillConnected
  BY <1>14 DEF StillConnected, TypeOK, serverVars, flagVars, radioVars
<1>15. CASE Disconnected
  <2>1. commands' \in Seq({"create", "start", "shutdown"})
    BY <1>15 DEF Disconnected, TypeOK
  <2>2. radio' \in {"off", "trying", "up"} /\ events' \in Seq({"got_ip", "disconnected"})
    BY <1>15, LeftType DEF Disconnected, TryAgain, TypeOK
  <2> QED
    BY <1>15, <2>1, <2>2 DEF Disconnected, TypeOK
<1>16. CASE StillDisconnected
  <2>1. radio' \in {"off", "trying", "up"} /\ events' \in Seq({"got_ip", "disconnected"})
    BY <1>16, LeftType DEF StillDisconnected, TryAgain, TypeOK
  <2> QED
    BY <1>16, <2>1 DEF StillDisconnected, TypeOK, serverVars, flagVars
<1>17. CASE EventHandler
  BY <1>17 DEF EventHandler, TypeOK, taskVars, serverVars, flagVars
<1>18. CASE Associates \/ Fails \/ Loses
  <2>1. PICK from, to \in {"off", "trying", "up"}, event \in {"got_ip", "disconnected"} :
              RadioChanges(from, to, event)
    BY <1>18 DEF Associates, Fails, Loses
  <2>2. occurred' \in 0..MaxEvents
    BY <2>1 DEF RadioChanges, TypeOK
  <2>3. events' \in Seq({"got_ip", "disconnected"})
    BY <2>1 DEF RadioChanges, TypeOK
  <2>4. unnoticed' \in BOOLEAN
    BY <1>18 DEF Associates, Fails, Loses, TypeOK
  <2> QED
    BY <2>1, <2>2, <2>3, <2>4 DEF RadioChanges, TypeOK, taskVars, serverVars, flagVars
<1>19. CASE SetNetworkInfo
  BY <1>19 DEF SetNetworkInfo, TypeOK, taskVars, serverVars, flagVars, radioVars
<1>20. CASE Reset
  <2>1. /\ wifi_comms_queue' \in Seq(Credentials) /\ Len(wifi_comms_queue') <= QueueLen
        /\ commands' \in Seq({"create", "start", "shutdown"})
        /\ reports' \in Seq(Names \cup {NONE})
        /\ events' \in Seq({"got_ip", "disconnected"})
    BY <1>20 DEF Reset
  <2>2. resets' \in 0..MaxResets
    BY <1>20 DEF Reset, TypeOK
  <2> QED
    BY <1>20, <2>1, <2>2, DefaultsType DEF Reset, TypeOK
<1>21. CASE UNCHANGED vars
  BY <1>21 DEF TypeOK, vars, taskVars, serverVars, flagVars, radioVars
<1> QED
  BY <1>1, <1>2, <1>3, <1>4, <1>5, <1>6, <1>7, <1>8, <1>9, <1>10, <1>11, <1>12,
     <1>13, <1>14, <1>15, <1>16, <1>17, <1>18, <1>19, <1>20, <1>21
     DEF Next, Task

(* Every variable of the Wi-Fi task, its queue and its flash keeps its type, *)
(* whatever flash holds at first and wherever a reset comes.                 *)
THEOREM TypeCorrect == Spec => []TypeOK
BY InitType, NextType, PTL DEF Spec
-----------------------------------------------------------------------------
(* What the saving of defaults has done so far: the strengthening that makes *)
(* StartsAsStored inductive.                                                 *)
Saved ==
  /\ pc = "save_password" => flash.ssid = credentials.ssid
  /\ StartsAsStored

LEMMA NextSaved == TypeOK /\ Saved /\ [Next]_vars => Saved'
<1> SUFFICES ASSUME TypeOK, Saved, [Next]_vars PROVE Saved'
  OBVIOUS
<1> USE DEF Saved, StartsAsStored
<1>1. CASE ReadPreferences
  <2>1. pc' = "begin" => Stored(flash.ssid) = flash.ssid /\ Stored(flash.password) = flash.password
    BY <1>1 DEF ReadPreferences, Stored
  <2>2. flash = [ssid |-> flash.ssid, password |-> flash.password]
    BY DEF TypeOK
  <2> QED
    BY <1>1, <2>1, <2>2 DEF ReadPreferences
<1>2. CASE SaveSsid
  BY <1>2 DEF SaveSsid, TypeOK, Credentials
<1>3. CASE SavePassword
  <2>1. flash' = [ssid |-> credentials.ssid, password |-> credentials.password]
    BY <1>3 DEF SavePassword, TypeOK
  <2>2. credentials = [ssid |-> credentials.ssid, password |-> credentials.password]
    BY DEF TypeOK, Credentials
  <2> QED
    BY <1>3, <2>1, <2>2 DEF SavePassword
<1>4. CASE EventHandler \/ Associates \/ Fails \/ Loses \/ SetNetworkInfo
  BY <1>4 DEF EventHandler, Associates, Fails, Loses, RadioChanges, SetNetworkInfo, taskVars
<1>5. CASE UNCHANGED vars
  BY <1>5 DEF vars, taskVars
<1>6. CASE pc' \notin {"begin", "save_password"}
  BY <1>6
<1>7. CASE \/ Begin \/ Receive \/ ReceiveTimesOut \/ Connect \/ Unchanged \/ Reconnect
           \/ Disconnect \/ AlreadyDisconnected \/ Connected \/ DelayOver
           \/ StillConnected \/ Disconnected \/ StillDisconnected \/ Reset
  <2>1. pc' \notin {"begin", "save_password"}
    BY <1>7 DEF Begin, Receive, ReceiveTimesOut, Connect, Unchanged, Reconnect,
       Disconnect, AlreadyDisconnected, Connected, DelayOver, StillConnected,
       Disconnected, StillDisconnected, Reset
  <2> QED
    BY <2>1, <1>6
<1> QED
  BY <1>1, <1>2, <1>3, <1>4, <1>5, <1>7 DEF Next, Task

(* Wherever a reset hits the saving of defaults, the credentials the task    *)
(* starts with are those in flash.                                           *)
THEOREM StoredKept == Spec => []StartsAsStored
<1>1. Init => Saved
  BY DEF Init, Saved, StartsAsStored
<1>2. Saved => StartsAsStored
  BY DEF Saved
<1> QED
  BY <1>1, <1>2, NextSaved, TypeCorrect, PTL DEF Spec
-----------------------------------------------------------------------------
(* A server has been created if and only if something was done to it; while  *)
(* the task counts itself connected there is one.                            *)
Created ==
  /\ gdb_task <=> commands # <<>>
  /\ wifi_connect_processed => gdb_task
  /\ ~wifi_connect_processed /\ gdb_task => wifi_disconnect_processed

LEMMA OthersKeep ==
  Others => UNCHANGED <<flagVars, gdb_task, commands>>
BY DEF Others, ReadPreferences, SaveSsid, SavePassword, Begin, Receive, ReceiveTimesOut,
   Connect, Unchanged, Reconnect, Disconnect, AlreadyDisconnected, DelayOver,
   StillConnected, StillDisconnected, EventHandler, Associates, Fails, Loses,
   RadioChanges, SetNetworkInfo, serverVars

LEMMA NextCreated == TypeOK /\ Created /\ [Next]_vars => Created'
<1> SUFFICES ASSUME TypeOK, Created, [Next]_vars PROVE Created'
  OBVIOUS
<1> USE DEF Created
<1>1. CASE Others
  BY <1>1, OthersKeep DEF flagVars
<1>2. CASE Connected
  <2>1. commands' # <<>>
    BY <1>2 DEF Connected, TypeOK
  <2> QED
    BY <1>2, <2>1 DEF Connected
<1>3. CASE Disconnected
  <2>1. gdb_task => commands' # <<>>
    BY <1>3 DEF Disconnected, TypeOK
  <2>2. ~gdb_task => commands' = commands
    BY <1>3 DEF Disconnected
  <2> QED
    BY <1>3, <2>1, <2>2 DEF Disconnected
<1>4. CASE Reset
  BY <1>4 DEF Reset
<1>5. CASE UNCHANGED vars
  BY <1>5 DEF vars, flagVars, serverVars
<1> QED
  BY <1>1, <1>2, <1>3, <1>4, <1>5, NextSplit

(* Every step of the Wi-Fi task is a step of ServerControl or leaves what it *)
(* sees alone.                                                               *)
LEMMA StepSimulation ==
  ASSUME TypeOK, Created, [Next]_vars
  PROVE  [SC!Next]_(SC!vars)
<1> USE DEF SC!vars, SC!Next
<1>1. CASE Others
  BY <1>1, OthersKeep DEF flagVars
<1>2. CASE Connected
  BY <1>2 DEF Connected, Created, SC!Start
<1>3. CASE Disconnected
  <2>1. CASE gdb_task
    BY <1>3, <2>1 DEF Disconnected, Created, SC!Shutdown
  <2>2. CASE ~gdb_task
    BY <1>3, <2>2 DEF Disconnected, Created, TypeOK
  <2> QED
    BY <2>1, <2>2
<1>4. CASE Reset
  BY <1>4 DEF Reset, SC!Reset
<1>5. CASE UNCHANGED vars
  BY <1>5 DEF vars, flagVars, serverVars
<1> QED
  BY <1>1, <1>2, <1>3, <1>4, <1>5, NextSplit

(* However the network comes and goes and wherever a reset comes, the server *)
(* is created once and then shut down and started in turn.                   *)
THEOREM Implements == Spec => ServerControlSpec
<1>1. Init => Created
  BY DEF Init, Created
<1>2. Init => SC!Init
  BY DEF Init, SC!Init
<1>3. Spec => []Created
  BY <1>1, NextCreated, TypeCorrect, PTL DEF Spec
<1>4. TypeOK /\ Created /\ [Next]_vars => [SC!Next]_(SC!vars)
  BY StepSimulation
<1> QED
  BY <1>2, <1>3, <1>4, TypeCorrect, PTL DEF Spec, ServerControlSpec, SC!Spec
-----------------------------------------------------------------------------
(***************************************************************************)
(* What ctxLink knows.  Two facts make LastReportTrue inductive: what the    *)
(* pending events will make of is_connected is what the radio is now, and a  *)
(* processed connection has been reported, unless the radio has left it.     *)
(***************************************************************************)
EventsTell ==
  IF events = <<>> THEN is_connected <=> radio = "up"
  ELSE events[Len(events)] = "got_ip" <=> radio = "up"

Starting == pc \in {"boot", "save_ssid", "save_password", "begin"}
Reported == reports # <<>> /\ reports[Len(reports)] = credentials.ssid
Told ==
  /\ Starting => ~wifi_connect_processed
  /\ pc = "delay" => network_info = credentials.ssid
  /\ wifi_connect_processed /\ ~unnoticed /\ radio = "up"
       /\ pc \notin {"delay", "disconnect", "notify"}
     => network_info = credentials.ssid /\ Reported

LEMMA JustOne == \A n \in Nat : n # 0 /\ ~(n > 1) => n = 1
OBVIOUS

(* Events arrive at the end of the queue and are taken from its head.        *)
LEMMA LastEvent ==
  ASSUME NEW S, NEW q \in Seq(S), NEW e
  PROVE  /\ Append(q, e) # <<>> /\ Append(q, e)[Len(Append(q, e))] = e
         /\ q # <<>> /\ Tail(q) # <<>> => Tail(q)[Len(Tail(q))] = q[Len(q)]
         /\ q # <<>> /\ Tail(q) = <<>> => Head(q) = q[Len(q)]
<1>0. Len(q) \in Nat /\ (q # <<>> => Len(q) # 0 /\ Head(q) = q[1])
  OBVIOUS
<1>1. Append(q, e) # <<>> /\ Append(q, e)[Len(Append(q, e))] = e
  OBVIOUS
<1>2. ASSUME q # <<>>, Tail(q) # <<>> PROVE Tail(q)[Len(Tail(q))] = q[Len(q)]
  BY <1>2
<1>3. ASSUME q # <<>>, Tail(q) = <<>> PROVE Head(q) = q[Len(q)]
  <2>1. Len(q) > 1 => DOMAIN Tail(q) # {}
    <3>1. Len(q) > 1 => 1 \in DOMAIN Tail(q)
      BY <1>3
    <3> QED
      BY <3>1
  <2>2. Len(q) = 1
    <3>1. DOMAIN Tail(q) = {}
      BY <1>3
    <3>2. ~(Len(q) > 1)
      BY <2>1, <3>1
    <3>3. Len(q) \in Nat /\ Len(q) # 0
      BY <1>0, <1>3
    <3> QED
      BY <3>2, <3>3, JustOne
  <2> QED
    BY <1>0, <1>3, <2>2
<1> QED
  BY <1>1, <1>2, <1>3

(* Starting to connect, or ceasing to, leaves the network if there was one,  *)
(* and says so.                                                              *)
LEMMA LeavingTold ==
  ASSUME TypeOK, EventsTell, events' = Left, radio' # "up", is_connected' = is_connected
  PROVE  EventsTell'
<1>1. events \in Seq({"got_ip", "disconnected"})
  BY DEF TypeOK
<1>2. CASE radio = "up"
  <2>1. events' = Append(events, "disconnected")
    BY <1>2 DEF Left
  <2> QED
    BY <1>1, <2>1, LastEvent DEF EventsTell
<1>3. CASE radio # "up"
  BY <1>3 DEF Left, EventsTell
<1> QED
  BY <1>2, <1>3

LEMMA NextEventsTell == TypeOK /\ EventsTell /\ [Next]_vars => EventsTell'
<1> SUFFICES ASSUME TypeOK, EventsTell, [Next]_vars PROVE EventsTell'
  OBVIOUS
<1>0. events \in Seq({"got_ip", "disconnected"})
  BY DEF TypeOK
<1>1. ASSUME UNCHANGED <<events, radio, is_connected>> PROVE EventsTell'
  BY <1>1 DEF EventsTell
<1>2. CASE Begin \/ Connect \/ AlreadyDisconnected \/ Disconnect
  BY <1>2, LeavingTold DEF Begin, Connect, AlreadyDisconnected, Disconnect, WifiStartup
<1>3. CASE Disconnected \/ StillDisconnected
  BY <1>1, <1>3, LeavingTold DEF Disconnected, StillDisconnected, TryAgain
<1>4. CASE EventHandler
  <2>1. /\ events # <<>> /\ is_connected' = (Head(events) = "got_ip")
        /\ events' = Tail(events) /\ radio' = radio
    BY <1>4 DEF EventHandler
  <2>2. CASE Tail(events) = <<>>
    BY <1>0, <2>1, <2>2, LastEvent DEF EventsTell
  <2>3. CASE Tail(events) # <<>>
    BY <1>0, <2>1, <2>3, LastEvent DEF EventsTell
  <2> QED
    BY <2>2, <2>3
<1>5. CASE Associates \/ Fails \/ Loses
  <2>1. \/ events' = Append(events, "got_ip") /\ radio' = "up"
        \/ events' = Append(events, "disconnected") /\ radio' = "off"
    BY <1>5 DEF Associates, Fails, Loses, RadioChanges
  <2>2. events' # <<>> /\ (events'[Len(events')] = "got_ip" <=> radio' = "up")
    BY <1>0, <2>1, LastEvent
  <2> QED
    BY <2>2 DEF EventsTell
<1>6. CASE Reset
  BY <1>6 DEF Reset, EventsTell
<1>7. CASE ReadPreferences \/ SaveSsid \/ SavePassword \/ Receive \/ ReceiveTimesOut
           \/ Unchanged \/ Reconnect \/ Connected \/ DelayOver \/ StillConnected
           \/ SetNetworkInfo \/ UNCHANGED vars
  BY <1>1, <1>7 DEF ReadPreferences, SaveSsid, SavePassword, Receive, ReceiveTimesOut,
     Unchanged, Reconnect, Connected, DelayOver, StillConnected, SetNetworkInfo,
     radioVars, vars
<1> QED
  BY <1>2, <1>3, <1>4, <1>5, <1>6, <1>7 DEF Next, Task

LEMMA NextTold == TypeOK /\ Told /\ [Next]_vars => Told'
<1> SUFFICES ASSUME TypeOK, Told, [Next]_vars PROVE Told'
  OBVIOUS
<1> USE DEF Starting, taskVars, flagVars, serverVars, radioVars
<1>0. reports \in Seq(Names \cup {NONE}) /\ pc \in {"boot", "save_ssid", "save_password", "begin",
        "poll", "message", "disconnect", "notify", "check", "delay"}
  BY DEF TypeOK
<1>1. ASSUME UNCHANGED <<credentials, network_info, reports, wifi_connect_processed>>
      PROVE  Reported' <=> Reported
  BY <1>1 DEF Reported
(* The task moves on, and the radio has left the network or stays.           *)
<1>2. ASSUME UNCHANGED <<credentials, network_info, reports, wifi_connect_processed, unnoticed>>,
             radio' = "up" => radio = "up", pc' \in {"poll", "message", "check"},
             pc \notin {"delay", "disconnect", "notify"}
      PROVE  Told'
  BY <1>1, <1>2 DEF Told
<1>3. CASE ReadPreferences \/ SaveSsid \/ SavePassword \/ Begin
  <2>1. ~wifi_connect_processed /\ wifi_connect_processed' = wifi_connect_processed
        /\ pc' # "delay"
    BY <1>3 DEF ReadPreferences, SaveSsid, SavePassword, Begin, Told
  <2> QED
    BY <2>1 DEF Told
<1>4. CASE Receive \/ ReceiveTimesOut \/ StillConnected \/ StillDisconnected
  <2>1. /\ UNCHANGED <<credentials, network_info, reports, wifi_connect_processed, unnoticed>>
        /\ radio' = "up" => radio = "up"
        /\ pc' \in {"poll", "message", "check"} /\ pc \in {"poll", "check"}
    BY <1>4 DEF Receive, ReceiveTimesOut, StillConnected, StillDisconnected, TryAgain
  <2> QED
    BY <1>2, <2>1
<1>5. CASE Connect \/ AlreadyDisconnected
  <2>1. radio' # "up" /\ pc' = "check"
    BY <1>5 DEF Connect, AlreadyDisconnected, WifiStartup
  <2> QED
    BY <2>1 DEF Told
<1>6. CASE Unchanged
  <2>1. /\ pc = "message" /\ pc' = "check" /\ reports' = Append(reports, network_info)
        /\ UNCHANGED <<credentials, network_info, wifi_connect_processed, unnoticed, radio>>
    BY <1>6 DEF Unchanged
  <2>2. reports' # <<>> /\ reports'[Len(reports')] = network_info
    BY <1>0, <2>1, LastEvent
  <2> QED
    BY <2>1, <2>2 DEF Told, Reported
<1>7. CASE Reconnect \/ Disconnect
  <2>1. pc' \in {"disconnect", "notify"}
    BY <1>7 DEF Reconnect, Disconnect
  <2> QED
    BY <2>1 DEF Told
<1>8. CASE Connected
  BY <1>8 DEF Connected, Told
<1>9. CASE DelayOver
  <2>1. /\ pc = "delay" /\ pc' = "poll" /\ reports' = Append(reports, network_info)
        /\ UNCHANGED <<credentials, network_info, wifi_connect_processed, unnoticed, radio>>
    BY <1>9 DEF DelayOver
  <2>2. reports' # <<>> /\ reports'[Len(reports')] = network_info
    BY <1>0, <2>1, LastEvent
  <2> QED
    BY <2>1, <2>2 DEF Told, Reported
<1>10. CASE Disconnected
  BY <1>10 DEF Disconnected, Told
<1>11. CASE EventHandler \/ SetNetworkInfo \/ UNCHANGED vars
  <2>1. UNCHANGED <<credentials, network_info, reports, wifi_connect_processed, unnoticed, radio, pc>>
    BY <1>11 DEF EventHandler, SetNetworkInfo, vars
  <2> QED
    BY <1>1, <2>1 DEF Told
<1>12. CASE Associates \/ Fails \/ Loses
  <2>1. /\ UNCHANGED <<credentials, network_info, reports, wifi_connect_processed, pc>>
        /\ radio' = "up" => unnoticed' = (unnoticed \/ (wifi_connect_processed /\ pc # "delay"))
    BY <1>12 DEF Associates, Fails, Loses, RadioChanges
  <2> QED
    BY <1>1, <2>1 DEF Told
<1>13. CASE Reset
  BY <1>13 DEF Reset, Told
<1> QED
  BY <1>3, <1>4, <1>5, <1>6, <1>7, <1>8, <1>9, <1>10, <1>11, <1>12, <1>13 DEF Next, Task

(* Whenever the task waits on a connection it has processed and no event is  *)
(* pending, the last report posted for ctxLink names the network of the      *)
(* credentials, for all credentials, any number of events and wherever a     *)
(* reset comes - except from when a network is joined before the loss of the *)
(* last one was seen until the task next sees the network gone.              *)
THEOREM ReportsTruly == Spec => []LastReportTrue
<1>1. Init => EventsTell /\ Told
  BY DEF Init, EventsTell, Told, Starting
<1>2. EventsTell /\ Told => LastReportTrue
  BY DEF EventsTell, Told, Reported, LastReportTrue
<1> QED
  BY <1>1, <1>2, NextEventsTell, NextTold, TypeCorrect, PTL DEF Spec
=============================================================================
