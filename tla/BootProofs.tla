----------------------------- MODULE BootProofs -----------------------------
(***************************************************************************)
(* Theorems about start-up, for every length of the queues, any traffic and  *)
(* every interleaving that the priorities allow.                             *)
(***************************************************************************)
EXTENDS Boot, TLAPS

(* A packet is announced or armed only if there is one.                      *)
Counted == attn \/ armed = "tx" => out > 0

LEMMA InitType == Init => TypeOK /\ Counted
<1> SUFFICES ASSUME Init PROVE TypeOK /\ Counted
  OBVIOUS
<1>1. logged \in 0..LogLen /\ drops \in 0..MaxDrops /\ sent \in 0..MaxPackets
  BY BootAssumption DEF Init
<1>2. /\ input \in Seq({"to_gdb", "set_network_info", "network_info", "completed"})
      /\ Len(input) <= InLen
  BY BootAssumption DEF Init
<1> QED
  BY <1>1, <1>2 DEF Init, TypeOK, Counted

LEMMA UsesType ==
  ASSUME NEW user \in Users, NEW queues \in SUBSET Queues, Uses(user, queues)
  PROVE  aborted' \subseteq Users \X Queues
BY DEF Uses

LEMMA LogType ==
  ASSUME TypeOK, Log \/ LogFromIsr
  PROVE  logged' \in 0..LogLen
BY BootAssumption DEF TypeOK, Log, LogFromIsr

(* What a handler or a task does not put into the full queue is dropped.     *)
LEMMA InputType ==
  ASSUME TypeOK,
         NEW type \in {"to_gdb", "set_network_info", "network_info", "completed"},
         input' = IF Len(input) < InLen THEN Append(input, type) ELSE input
  PROVE  /\ input' \in Seq({"to_gdb", "set_network_info", "network_info", "completed"})
         /\ Len(input') <= InLen
BY BootAssumption DEF TypeOK

LEMMA TailType ==
  ASSUME TypeOK, input # <<>>, input' = Tail(input)
  PROVE  /\ input' \in Seq({"to_gdb", "set_network_info", "network_info", "completed"})
         /\ Len(input') <= InLen
BY BootAssumption DEF TypeOK
-----------------------------------------------------------------------------
LEMMA NextType == TypeOK /\ Counted /\ [Next]_vars => TypeOK' /\ Counted'
<1> SUFFICES ASSUME TypeOK, Counted, [Next]_vars PROVE TypeOK' /\ Counted'
  OBVIOUS
<1> USE DEF Users, Queues
<1>1. CASE Setup
  <2> USE DEF TypeOK, Counted, pins, spiQueues, outside
  <2>1. CASE SetupPins
    BY <2>1 DEF SetupPins
  <2>2. CASE SetupDriver
    BY <2>2 DEF SetupDriver
  <2>3. CASE SetupMonitor
    BY <2>3 DEF SetupMonitor
  <2>4. CASE SetupSpi
    BY <2>4 DEF SetupSpi
  <2>5. CASE SetupWifi
    BY <2>5 DEF SetupWifi
  <2> QED
    BY <1>1, <2>1, <2>2, <2>3, <2>4, <2>5 DEF Setup
<1>2. CASE SlaveStart
  BY <1>2 DEF SlaveStart, TypeOK, Counted, pins, spiQueues, outside
<1>3. CASE MonitorStart
  BY <1>3 DEF MonitorStart, TypeOK, Counted, pins, spiQueues, outside
<1>4. CASE MonitorPrint
  <2>1. logged' \in 0..LogLen
    BY <1>4, BootAssumption DEF MonitorPrint, TypeOK
  <2> QED
    BY <1>4, <2>1 DEF MonitorPrint, TypeOK, Counted, tasks, pins, spiQueues, outside
<1>5. CASE SpiMakeInput \/ SpiMakeOutput \/ SpiSetupDone
  <2> USE DEF TypeOK, Counted, pins, spiQueues, outside
  <2>1. CASE SpiMakeInput
    BY <2>1 DEF SpiMakeInput
  <2>2. CASE SpiMakeOutput
    BY <2>2 DEF SpiMakeOutput
  <2>3. CASE SpiSetupDone
    BY <2>3 DEF SpiSetupDone
  <2> QED
    BY <1>5, <2>1, <2>2, <2>3
<1>6. CASE SpiForwardToServer \/ SpiForwardToWifi
  <2>1. PICK type \in {"to_gdb", "set_network_info"}, queue \in {"params", "wifi"} :
              SpiForward(type, queue)
    BY <1>6 DEF SpiForwardToServer, SpiForwardToWifi
  <2>2. aborted' \subseteq Users \X Queues
    BY <2>1, UsesType DEF SpiForward
  <2> QED
    BY <2>1, <2>2, TailType DEF SpiForward, TypeOK, Counted, tasks, pins, outside
<1>7. CASE SpiReport
  <2>1. aborted' \subseteq Users \X Queues
    BY <1>7, UsesType DEF SpiReport
  <2> QED
    BY <1>7, <2>1, TailType, LogType DEF SpiReport, TypeOK, Counted, tasks, outside
<1>8. CASE SpiCompleted
  <2>1. aborted' \subseteq Users \X Queues
    BY <1>8, UsesType DEF SpiCompleted
  <2> QED
    BY <1>8, <2>1, TailType, LogType DEF SpiCompleted, TypeOK, Counted, tasks, outside
<1>9. CASE WifiStart \/ WifiBegin \/ WifiReady
  <2> USE DEF TypeOK, Counted, pins, spiQueues, outside
  <2>1. CASE WifiStart
    BY <2>1 DEF WifiStart
  <2>2. CASE WifiBegin
    BY <2>2 DEF WifiBegin
  <2>3. CASE WifiReady
    BY <2>3 DEF WifiReady
  <2> QED
    BY <1>9, <2>1, <2>2, <2>3
<1>10. CASE WifiLog
  <2>1. aborted' \subseteq Users \X Queues
    BY <1>10, UsesType DEF WifiLog
  <2> QED
    BY <1>10, <2>1, LogType DEF WifiLog, TypeOK, Counted, pins, spiQueues, outside
<1>11. CASE WifiConnected
  <2>1. aborted' \subseteq Users \X Queues
    BY <1>11 DEF WifiConnected, Uses
  <2>2. server' \in {"none", "created", "params", "configure", "listen"}
    BY <1>11 DEF WifiConnected, TypeOK
  <2> QED
    BY <1>11, <2>1, <2>2, LogType DEF WifiConnected, TypeOK, Counted, pins, spiQueues,
       outside
<1>12. CASE WifiReport
  <2>1. aborted' \subseteq Users \X Queues
    BY <1>12, UsesType DEF WifiReport
  <2> QED
    BY <1>12, <2>1, InputType DEF WifiReport, TypeOK, Counted, pins, outside
<1>13. CASE WifiDisconnected
  <2>1. aborted' \subseteq Users \X Queues
    BY <1>13 DEF WifiDisconnected, Uses
  <2>2. logged' \in 0..LogLen
    BY <1>13, LogType DEF WifiDisconnected
  <2>3. processed' \in BOOLEAN /\ UNCHANGED <<tasks, made, system_setup_done, pins, spiQueues, outside>>
    BY <1>13 DEF WifiDisconnected
  <2> QED
    BY <2>1, <2>2, <2>3 DEF TypeOK, Counted, tasks, pins, spiQueues, outside
<1>14. CASE ServerMakeQueue \/ ServerSaveQueue
  <2> USE DEF TypeOK, Counted, pins, spiQueues, outside
  <2>1. CASE ServerMakeQueue
    BY <2>1 DEF ServerMakeQueue
  <2>2. CASE ServerSaveQueue
    BY <2>2 DEF ServerSaveQueue
  <2> QED
    BY <1>14, <2>1, <2>2
<1>15. CASE ServerListen
  <2>1. aborted' \subseteq Users \X Queues
    BY <1>15, UsesType DEF ServerListen
  <2> QED
    BY <1>15, <2>1, LogType DEF ServerListen, TypeOK, Counted, pins, spiQueues, outside
<1>16. CASE SpiSsActivated
  <2>1. aborted' \subseteq Users \X Queues
    BY <1>16, UsesType DEF SpiSsActivated
  <2>2. armed' \in {"rx", "tx"} /\ (armed' = "tx" => attn)
    BY <1>16 DEF SpiSsActivated
  <2> QED
    BY <1>16, <2>1, <2>2 DEF SpiSsActivated, TypeOK, Counted, tasks, spiQueues, outside
<1>17. ASSUME NEW type \in {"to_gdb", "set_network_info", "completed"},
              UserTransactionCallback(type),
              out' \in Nat, sent' \in 0..MaxPackets
       PROVE  TypeOK' /\ Counted'
  <2>1. aborted' \subseteq Users \X Queues
    BY <1>17, UsesType DEF UserTransactionCallback
  <2>2. /\ input' \in Seq({"to_gdb", "set_network_info", "network_info", "completed"})
        /\ Len(input') <= InLen
    BY <1>17, InputType DEF UserTransactionCallback
  <2>3. logged' \in 0..LogLen
    BY <1>17, LogType DEF UserTransactionCallback
  <2>4. /\ armed' = "no" /\ attn' = FALSE
        /\ UNCHANGED <<tasks, made, system_setup_done, nReady, processed, link, drops>>
    BY <1>17 DEF UserTransactionCallback
  <2>5. Counted'
    BY <2>4 DEF Counted
  <2>6. out' \in Nat /\ sent' \in 0..MaxPackets
    BY <1>17
  <2>7. TypeOK'
    <3>1. attn' \in BOOLEAN /\ armed' \in {"no", "rx", "tx"}
      BY <2>4
    <3>2. UNCHANGED <<setup, slave, monitor, spi, wifi, server, made, system_setup_done,
                      nReady, processed, link, drops>>
      BY <2>4 DEF tasks
    <3> QED
      BY <2>1, <2>2, <2>3, <2>6, <3>1, <3>2 DEF TypeOK
  <2> QED
    BY <2>5, <2>7
<1>18. CASE Collects
  <2>1. out' \in Nat /\ sent' \in 0..MaxPackets
    BY <1>18 DEF Collects, TypeOK, Counted
  <2>2. UserTransactionCallback("completed")
    BY <1>18 DEF Collects
  <2> QED
    BY <2>1, <2>2, <1>17
<1>19. ASSUME NEW type \in {"to_gdb", "set_network_info"}, Sends(type)
       PROVE  TypeOK' /\ Counted'
  <2>1. sent' \in 0..MaxPackets
    BY <1>19, BootAssumption DEF Sends, TypeOK
  <2>2. UserTransactionCallback(type) /\ out' \in Nat
    BY <1>19 DEF Sends, TypeOK
  <2> QED
    BY <2>1, <2>2, <1>17
<1>20. CASE Joins \/ Loses
  <2>1. drops' \in 0..MaxDrops
    BY <1>20, BootAssumption DEF Joins, Loses, TypeOK
  <2> USE DEF TypeOK, Counted, tasks, pins, spiQueues
  <2>2. CASE Joins
    BY <2>1, <2>2 DEF Joins
  <2>3. CASE Loses
    BY <2>1, <2>3 DEF Loses
  <2> QED
    BY <1>20, <2>2, <2>3
<1>21. CASE UNCHANGED vars
  BY <1>21 DEF TypeOK, Counted, vars, tasks, pins, spiQueues, outside
<1> QED
  BY <1>1, <1>2, <1>3, <1>4, <1>5, <1>6, <1>7, <1>8, <1>9, <1>10, <1>11, <1>12,
     <1>13, <1>14, <1>15, <1>16, <1>18, <1>19, <1>20, <1>21
     DEF Next, Setup, Monitor, Spi, Wifi, Server, CtxLink

(* Every variable of start-up keeps its type and every queue its length; in  *)
(* particular the count of packets for ctxLink never falls below zero.       *)
THEOREM TypeCorrect == Spec => []TypeOK
<1>1. Spec => [](TypeOK /\ Counted)
  BY InitType, NextType, PTL DEF Spec
<1> QED
  BY <1>1, PTL
-----------------------------------------------------------------------------
(* What each task has made by the time it gets where it is, and what must    *)
(* have come before: the strengthening that makes the two orders inductive.  *)
Set ==
  /\ setup = "monitor" => slave # "none"
  /\ setup \in {"spi", "wifi", "loop"} => slave = "wait"
Made ==
  /\ slave = "wait" => "driver" \in made
  /\ spi \in {"output", "done", "receive"} => "input" \in made
  /\ spi \in {"done", "receive"} => "output" \in made
  /\ wifi \notin {"none", "created"} => "wifi" \in made
  /\ wifi = "begin" => "monitor" \in made \/ aborted # {}
  /\ wifi \in {"poll", "ready", "delay"} => "monitor" \in made
  /\ server \in {"params", "configure", "listen"} => "server" \in made
  /\ server \in {"configure", "listen"} => "params" \in made
Before ==
  /\ spi # "none" => setup \in {"wifi", "loop"}
  /\ wifi # "none" => setup = "loop"
  /\ system_setup_done => spi = "receive"
  /\ spi = "receive" => system_setup_done
  /\ link # "off" => wifi \in {"poll", "ready", "delay"}
  /\ link = "up" \/ processed \/ wifi \in {"ready", "delay"} \/ server # "none" \/ nReady
       => spi = "receive" /\ system_setup_done /\ wifi \in {"poll", "ready", "delay"}
Traffic ==
  /\ input # <<>> => wifi \in {"poll", "ready", "delay"}
  /\ \A i \in DOMAIN input : input[i] = "to_gdb" => server = "listen"
Ordered == Set /\ Made /\ Before /\ Traffic /\ OnlyEarlyLog

LEMMA InitOrdered == Init => Ordered
BY DEF Init, Ordered, Set, Made, Before, Traffic, OnlyEarlyLog

(* A use of queues that exist aborts nothing.                                *)
LEMMA UsesMade ==
  ASSUME NEW user, NEW queues, queues \subseteq made, Uses(user, queues)
  PROVE  aborted' = {}
BY DEF Uses

(* A packet for a client is still among the first ones, or has just come.    *)
LEMMA TailTraffic ==
  ASSUME TypeOK, Traffic, input # <<>>, input' = Tail(input), server' = server,
         wifi' = wifi
  PROVE  Traffic'
BY DEF TypeOK, Traffic

LEMMA AppendTraffic ==
  ASSUME TypeOK, Traffic, NEW type, type = "to_gdb" => server = "listen",
         input' = IF Len(input) < InLen THEN Append(input, type) ELSE input,
         server' = server, wifi' \in {"poll", "ready", "delay"}
  PROVE  Traffic'
BY DEF TypeOK, Traffic

LEMMA NextOrdered == TypeOK /\ Ordered /\ [Next]_vars => Ordered'
<1> SUFFICES ASSUME TypeOK, Ordered, [Next]_vars PROVE Ordered'
  OBVIOUS
<1> USE DEF Ordered, Set, Made, Before, OnlyEarlyLog, Running
<1> DEFINE Underway == wifi \in {"poll", "ready", "delay"}
<1>1. CASE Setup
  <2> USE DEF TypeOK, Core1, Traffic, pins, spiQueues, outside
  <2>1. CASE SetupPins
    BY <2>1 DEF SetupPins
  <2>2. CASE SetupDriver
    BY <2>2 DEF SetupDriver
  <2>3. CASE SetupMonitor
    <3>1. setup = "monitor" /\ setup' = "spi" /\ slave = "wait"
      BY <2>3 DEF SetupMonitor
    <3>2. spi = "none" /\ wifi = "none"
      BY <3>1
    <3>3. Before'
      BY <2>3, <3>1, <3>2 DEF SetupMonitor
    <3>4. Set' /\ Made' /\ OnlyEarlyLog'
      BY <2>3, <3>1 DEF SetupMonitor
    <3>5. Traffic'
      BY <2>3 DEF SetupMonitor
    <3> QED
      BY <3>3, <3>4, <3>5
  <2>4. CASE SetupSpi
    <3>0. setup = "spi" /\ setup' = "wifi" /\ spi' = "created"
      BY <2>4 DEF SetupSpi
    <3>1. spi = "none" /\ spi' = "created" /\ setup = "spi" /\ setup' = "wifi"
      BY <3>0
    <3>2. ~(link = "up" \/ processed \/ wifi \in {"ready", "delay"} \/ server # "none" \/ nReady)
      BY <3>1
    <3>3. wifi = "none" /\ slave = "wait" /\ ~system_setup_done
      BY <3>1
    <3>4. Before'
      BY <2>4, <3>1, <3>2, <3>3 DEF SetupSpi
    <3>5. Set' /\ Made' /\ OnlyEarlyLog'
      BY <2>4, <3>1, <3>3 DEF SetupSpi
    <3>6. Traffic'
      BY <2>4 DEF SetupSpi
    <3> QED
      BY <3>4, <3>5, <3>6
  <2>5. CASE SetupWifi
    BY <2>5 DEF SetupWifi
  <2> QED
    BY <1>1, <2>1, <2>2, <2>3, <2>4, <2>5 DEF Setup
<1>2. CASE SlaveStart
  BY <1>2 DEF SlaveStart, Traffic, pins, spiQueues, outside
<1>3. CASE MonitorStart
  BY <1>3 DEF MonitorStart, Traffic, pins, spiQueues, outside
<1>4. CASE MonitorPrint
  BY <1>4 DEF MonitorPrint, Traffic, tasks, pins, spiQueues, outside
<1>5. CASE SpiMakeInput \/ SpiMakeOutput \/ SpiSetupDone
  BY <1>5 DEF SpiMakeInput, SpiMakeOutput, SpiSetupDone, Traffic, pins, spiQueues, outside
<1>6. CASE SpiForwardToServer
  <2>1. input # <<>> /\ input[1] = "to_gdb" /\ 1 \in DOMAIN input
    BY <1>6 DEF SpiForwardToServer, SpiForward, TypeOK
  <2>2. {"params"} \subseteq made
    BY <2>1 DEF Traffic
  <2>3. aborted' = {}
    BY <1>6, <2>2, UsesMade DEF SpiForwardToServer, SpiForward
  <2>4. Traffic'
    BY <1>6, TailTraffic DEF SpiForwardToServer, SpiForward, tasks
  <2> QED
    BY <1>6, <2>3, <2>4 DEF SpiForwardToServer, SpiForward, tasks, pins, outside
<1>7. CASE SpiForwardToWifi
  <2>1. {"wifi"} \subseteq made
    BY <1>7 DEF SpiForwardToWifi, SpiForward, Traffic
  <2>2. aborted' = {}
    BY <1>7, <2>1, UsesMade DEF SpiForwardToWifi, SpiForward
  <2>3. Traffic'
    BY <1>7, TailTraffic DEF SpiForwardToWifi, SpiForward, tasks
  <2> QED
    BY <1>7, <2>2, <2>3 DEF SpiForwardToWifi, SpiForward, tasks, pins, outside
<1>8. CASE SpiReport \/ SpiCompleted
  <2>1. {"monitor", "output"} \subseteq made
    BY <1>8 DEF SpiReport, SpiCompleted, Traffic
  <2>2. aborted' = {}
    BY <1>8, <2>1, UsesMade DEF SpiReport, SpiCompleted
  <2>3. Traffic'
    BY <1>8, TailTraffic DEF SpiReport, SpiCompleted, tasks
  <2> QED
    BY <1>8, <2>2, <2>3 DEF SpiReport, SpiCompleted, tasks, outside
<1>9. CASE WifiStart
  BY <1>9 DEF WifiStart, Traffic, pins, spiQueues, outside
<1>10. CASE WifiLog
  <2>1. aborted' \subseteq {<<"wifi", "monitor">>} /\ (aborted' = {} => "monitor" \in made)
    BY <1>10 DEF WifiLog, Uses
  <2> QED
    BY <1>10, <2>1 DEF WifiLog, Traffic, pins, spiQueues, outside
<1>11. CASE WifiBegin
  BY <1>11 DEF WifiBegin, Traffic, pins, spiQueues
<1>12. CASE WifiConnected
  <2>1. Underway /\ "monitor" \in made
    BY <1>12 DEF WifiConnected
  <2>2. aborted' = {}
    BY <1>12, <2>1 DEF WifiConnected, Uses
  <2>3. server' = server \/ (server = "none" /\ server' = "created")
    BY <1>12 DEF WifiConnected
  <2> QED
    BY <1>12, <2>1, <2>2, <2>3 DEF WifiConnected, Traffic, pins, spiQueues, outside
<1>13. CASE WifiReady
  BY <1>13 DEF WifiReady, Traffic, spiQueues, outside
<1>14. CASE WifiReport
  <2>1. {"input"} \subseteq made
    BY <1>14 DEF WifiReport
  <2>2. aborted' = {}
    BY <1>14, <2>1, UsesMade DEF WifiReport
  <2>3. Traffic'
    BY <1>14, AppendTraffic DEF WifiReport
  <2> QED
    BY <1>14, <2>2, <2>3 DEF WifiReport, pins, outside
<1>15. CASE WifiDisconnected
  <2>1. Underway /\ "monitor" \in made
    BY <1>15 DEF WifiDisconnected
  <2>2. aborted' = {}
    BY <1>15, <2>1 DEF WifiDisconnected, Uses
  <2> QED
    BY <1>15, <2>2 DEF WifiDisconnected, Traffic, tasks, pins, spiQueues, outside
<1>16. CASE ServerMakeQueue \/ ServerSaveQueue
  BY <1>16 DEF ServerMakeQueue, ServerSaveQueue, Traffic, pins, spiQueues, outside
<1>17. CASE ServerListen
  <2>1. {"monitor"} \subseteq made
    BY <1>17 DEF ServerListen
  <2>2. aborted' = {}
    BY <1>17, <2>1, UsesMade DEF ServerListen
  <2> QED
    BY <1>17, <2>2 DEF ServerListen, Traffic, pins, spiQueues, outside
<1>18. CASE SpiSsActivated
  <2>1. {"driver"} \subseteq made
    BY <1>18 DEF SpiSsActivated
  <2>2. aborted' = {}
    BY <1>18, <2>1, UsesMade DEF SpiSsActivated
  <2> QED
    BY <1>18, <2>2 DEF SpiSsActivated, Traffic, tasks, spiQueues, outside
<1>19. ASSUME NEW type, type = "to_gdb" => server = "listen",
              UserTransactionCallback(type)
       PROVE  Ordered'
  <2>1. Underway /\ {"input", "output", "monitor"} \subseteq made
    BY <1>19 DEF UserTransactionCallback
  <2>2. aborted' = {}
    BY <1>19, <2>1, UsesMade DEF UserTransactionCallback
  <2>3. Traffic'
    BY <1>19, <2>1, AppendTraffic DEF UserTransactionCallback, tasks
  <2> QED
    BY <1>19, <2>2, <2>3 DEF UserTransactionCallback, tasks
<1>20. CASE CtxLink
  BY <1>20, <1>19 DEF CtxLink, Collects, Sends
<1>21. CASE Joins \/ Loses
  BY <1>21 DEF Joins, Loses, Traffic, tasks, pins, spiQueues
<1>22. CASE UNCHANGED vars
  BY <1>22 DEF Traffic, vars, tasks, pins, spiQueues, outside
<1> QED
  BY <1>1, <1>2, <1>3, <1>4, <1>5, <1>6, <1>7, <1>8, <1>9, <1>10, <1>11, <1>12,
     <1>13, <1>14, <1>15, <1>16, <1>17, <1>18, <1>20, <1>21, <1>22
     DEF Next, Monitor, Spi, Wifi, Server

LEMMA AlwaysOrdered == Spec => [](TypeOK /\ Ordered)
BY InitOrdered, NextOrdered, TypeCorrect, PTL DEF Spec

(* Whichever task is slow to start, and whatever ctxLink does meanwhile, no   *)
(* task and no interrupt handler uses a queue before it is created, but for  *)
(* the Wi-Fi task's first line of log.                                       *)
THEOREM OneEarlyUse == Spec => []OnlyEarlyLog
<1>1. Ordered => OnlyEarlyLog
  BY DEF Ordered
<1> QED
  BY <1>1, AlwaysOrdered, PTL

-----------------------------------------------------------------------------
(* What leads to an announcement has nREADY behind it: the report that the   *)
(* Wi-Fi task is about to post, the messages that make the SPI task announce *)
(* a packet, and the pins.                                                   *)
Announcing ==
  /\ wifi = "delay" \/ attn \/ armed = "tx" => nReady
  /\ \A i \in DOMAIN input : input[i] \in {"network_info", "completed"} => nReady

LEMMA TailAnnouncing ==
  ASSUME TypeOK, Announcing, input # <<>>, input' = Tail(input), nReady' = nReady
  PROVE  \A i \in DOMAIN input' : input'[i] \in {"network_info", "completed"} => nReady'
BY DEF TypeOK, Announcing

LEMMA AppendAnnouncing ==
  ASSUME TypeOK, Announcing, NEW type, nReady, nReady' = nReady,
         input' = IF Len(input) < InLen THEN Append(input, type) ELSE input
  PROVE  \A i \in DOMAIN input' : input'[i] \in {"network_info", "completed"} => nReady'
BY DEF TypeOK, Announcing

LEMMA NextAnnouncing == TypeOK /\ Announcing /\ [Next]_vars => Announcing'
<1> SUFFICES ASSUME TypeOK, Announcing, [Next]_vars PROVE Announcing'
  OBVIOUS
(* Nothing is announced, or what is goes on.                                 *)
<1>1. ASSUME UNCHANGED <<input, nReady>>, wifi' = "delay" => wifi = "delay" \/ nReady,
             attn' => attn, armed' = "tx" => armed = "tx" \/ attn
      PROVE  Announcing'
  BY <1>1 DEF Announcing
<1>2. CASE Setup
  BY <1>1, <1>2 DEF Setup, SetupPins, SetupDriver, SetupMonitor, SetupSpi, SetupWifi,
     pins, spiQueues
<1>3. CASE SlaveStart \/ MonitorStart \/ MonitorPrint \/ SpiMakeInput \/ SpiMakeOutput
           \/ SpiSetupDone
  BY <1>1, <1>3 DEF SlaveStart, MonitorStart, MonitorPrint, SpiMakeInput, SpiMakeOutput,
     SpiSetupDone, tasks, pins, spiQueues
<1>4. CASE SpiForwardToServer \/ SpiForwardToWifi
  <2>1. /\ input # <<>> /\ input' = Tail(input)
        /\ UNCHANGED <<nReady, attn, armed, wifi>>
    BY <1>4 DEF SpiForwardToServer, SpiForwardToWifi, SpiForward, tasks, pins
  <2> QED
    BY <2>1, TailAnnouncing DEF Announcing
<1>5. CASE SpiReport \/ SpiCompleted
  <2>1. /\ input # <<>> /\ input' = Tail(input)
        /\ Head(input) \in {"network_info", "completed"}
        /\ UNCHANGED <<nReady, armed, wifi>>
    BY <1>5 DEF SpiReport, SpiCompleted, tasks
  <2>2. 1 \in DOMAIN input /\ Head(input) = input[1]
    BY <2>1 DEF TypeOK
  <2>3. nReady'
    BY <2>1, <2>2 DEF Announcing
  <2> QED
    BY <2>3 DEF Announcing
<1>6. CASE WifiStart \/ WifiLog \/ WifiBegin \/ WifiConnected \/ WifiDisconnected
  BY <1>1, <1>6 DEF WifiStart, WifiLog, WifiBegin, WifiConnected, WifiDisconnected,
     tasks, pins, spiQueues
<1>7. CASE WifiReady
  BY <1>7 DEF WifiReady, Announcing
<1>8. CASE WifiReport
  <2>1. /\ nReady /\ UNCHANGED <<nReady, attn, armed>>
        /\ input' = IF Len(input) < InLen THEN Append(input, "network_info") ELSE input
    BY <1>8 DEF WifiReport, Announcing, pins
  <2> QED
    BY <2>1, AppendAnnouncing DEF Announcing
<1>9. CASE Server \/ Joins \/ Loses
  BY <1>1, <1>9 DEF Server, ServerMakeQueue, ServerSaveQueue, ServerListen, Joins, Loses,
     tasks, pins, spiQueues
<1>10. CASE SpiSsActivated
  BY <1>1, <1>10 DEF SpiSsActivated, tasks, spiQueues
<1>11. CASE CtxLink
  <2>1. PICK type : UserTransactionCallback(type)
    BY <1>11 DEF CtxLink, Collects, Sends
  <2>2. /\ nReady /\ UNCHANGED nReady
        /\ input' = IF Len(input) < InLen THEN Append(input, type) ELSE input
    BY <2>1 DEF UserTransactionCallback
  <2> QED
    BY <2>2, AppendAnnouncing DEF Announcing
<1>12. CASE UNCHANGED vars
  BY <1>1, <1>12 DEF vars, tasks, pins, spiQueues
<1> QED
  BY <1>2, <1>3, <1>4, <1>5, <1>6, <1>7, <1>8, <1>9, <1>10, <1>11, <1>12
     DEF Next, Monitor, Spi, Wifi

(* nREADY goes LOW after the driver's, the monitor's and the Wi-Fi task's    *)
(* queues exist and before any packet is announced to ctxLink or handed to   *)
(* the driver, whichever task is slow to start.                              *)
THEOREM ReadyInPlace == Spec => []ReadyInOrder
<1>1. Init => Announcing
  BY DEF Init, Announcing
<1>2. TypeOK /\ Ordered /\ Announcing => ReadyInOrder
  BY DEF TypeOK, Ordered, Set, Made, Before, Announcing, ReadyInOrder
<1> QED
  BY <1>1, <1>2, NextAnnouncing, AlwaysOrdered, PTL DEF Spec
=============================================================================
