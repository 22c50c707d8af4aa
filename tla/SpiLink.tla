------------------------------ MODULE SpiLink ------------------------------
(***************************************************************************)
(* The SPI link between the ESP32 adapter and ctxLink: the SPI Comms task   *)
(* (task_spi_comms.cpp), the transmit path and interrupt handlers of        *)
(* ctxlink.cpp, the DMA slave driver they run on (ESP32DMASPISlave.h) and,  *)
(* outside src/, the ctxLink end of the wire, which is the SPI master.      *)
(*                                                                          *)
(* Three contexts run concurrently: the SPI Comms task (either core), the   *)
(* two interrupt handlers (core 1, one at a time) and the driver's slave    *)
(* task (core 1).  The handlers and the save routine are therefore split    *)
(* into the steps another context can observe.                              *)
(*                                                                          *)
(* Buffers are identified with the packets they hold: this module assumes   *)
(* that no buffer is reused while a queue still points to it.               *)
(***************************************************************************)
EXTENDS Integers, Sequences

CONSTANTS
  InLen,        \* spi_comms_input_queue_length (10)
  OutLen,       \* spi_comms_output_queue_length (4)
  SrvLen,       \* server_queue_length (32)
  WifiLen,      \* wifi_comms_queue_length (4)
  MaxTx,        \* bound: packets the network side submits
  MaxRx,        \* bound: packets ctxLink sends
  RxKinds,      \* the packet types ctxLink sends
  Window,       \* requests a network client may have unanswered
  Unsolicited,  \* packets ctxLink may send that answer no request
  BackToBack,   \* may ctxLink select again before the slave task has retired
                \* the previous transaction?
  NULL          \* the null pointer

ASSUME SpiLinkAssumption ==
  /\ {InLen, OutLen, SrvLen, WifiLen} \subseteq Nat \ {0}
  /\ {MaxTx, MaxRx, Window, Unsolicited} \subseteq Nat
  /\ RxKinds \subseteq {"to_gdb", "set_network_info"}
  /\ BackToBack \in BOOLEAN

TxMsg == [type: {"from_gdb"}, id: 1..MaxTx]
RxMsg == [type: RxKinds, id: 1..MaxRx]
Completed == [type |-> "transaction_completed", id |-> 0]
Empty == [type |-> "empty", id |-> 0]

ASSUME NullAssumption == NULL \notin TxMsg

ToClientMsg == [type: {"to_client"}, id: 1..MaxRx]
InMsg == TxMsg \cup RxMsg \cup {Completed, Empty}
Transaction == [dir: {"tx"}, pkt: TxMsg \cup {NULL}] \cup [dir: {"rx"}, pkt: {NULL}]

VARIABLES
  inq,        \* spi_comms_input_queue
  outq,       \* spi_comms_output_queue
  srvq,       \* gdb_server_params.server_queue
  wifiq,      \* wifi_comms_queue
  pc,         \* control of the SPI Comms task
  message,    \* the task's current message
  saved,      \* tx_saved_transaction
  attn,       \* TRUE: the ATTN pin is LOW (asserted)
  spiReady,   \* TRUE: the nSPI_READY pin is LOW (asserted)
  isTx,       \* is_tx
  zeroBuf,    \* what zero_transaction_buffer holds
  pending,    \* Slave::transactions
  drv,        \* the slave task: idle, request queued, armed, transfer done
  trans,      \* the transaction handed to the slave task
  isr,        \* control of userTransactionCallback
  master,     \* ctxLink: is CS asserted?
  mosi,       \* what ctxLink clocks out in this transfer
  sent,       \* number of packets submitted by the network side
  rxSent,     \* number of packets clocked out by ctxLink
  delivered,  \* history: the packets ctxLink clocked in
  replies     \* history: the packets the server passed to the network client

taskVars == <<pc, message, saved>>
pinVars  == <<attn, spiReady>>
drvVars  == <<pending, drv, trans, isTx, zeroBuf>>
srvVars  == <<srvq, wifiq, replies>>
wireVars == <<master, mosi, rxSent, delivered>>
vars == <<inq, outq, taskVars, pinVars, drvVars, srvVars, wireVars, isr, sent>>

Init ==
  /\ inq = <<>> /\ outq = <<>> /\ srvq = <<>> /\ wifiq = <<>>
  /\ pc = "wait" /\ message = Empty /\ saved = NULL
  /\ attn = FALSE /\ spiReady = FALSE /\ isTx = FALSE
  /\ zeroBuf = Empty
  /\ pending = <<>> /\ drv = "idle" /\ trans = [dir |-> "rx", pkt |-> NULL]
  /\ isr = "idle"
  /\ master = "idle" /\ mosi = Empty
  /\ sent = 0 /\ rxSent = 0 /\ delivered = <<>> /\ replies = <<>>
-----------------------------------------------------------------------------
(* Mutants of Enqueue: the length check dropped; sending to the front.       *)
EnqueueUnbounded(q, m, len) == Append(q, m)
EnqueueFront(q, m, len) == IF Len(q) < len THEN <<m>> \o q ELSE q

(* xQueueSend with a timeout of 0 and xQueueSendFromISR: a full queue drops. *)
Enqueue(q, m, len) == IF Len(q) < len THEN Append(q, m) ELSE q

-----------------------------------------------------------------------------
(***************************************************************************)
(* The network side: a task that packs a message and posts it to the SPI    *)
(* Comms task.  A client keeps at most Window requests unanswered.          *)
(***************************************************************************)
Submit ==
  /\ sent < MaxTx
  /\ sent < Len(replies) + Window
  /\ sent' = sent + 1
  /\ inq' = Enqueue(inq, [type |-> "from_gdb", id |-> sent + 1], InLen)
  /\ UNCHANGED <<outq, taskVars, pinVars, drvVars, srvVars, wireVars, isr>>

(* The GDB server task takes a packet and sends it to its client. *)
ServerSend ==
  /\ srvq # <<>>
  /\ srvq' = Tail(srvq)
  /\ replies' = Append(replies, Head(srvq))
  /\ UNCHANGED <<inq, outq, taskVars, pinVars, drvVars, wifiq, wireVars, isr,
                 sent>>

(* The Wi-Fi task takes a packet. *)
WifiReceive ==
  /\ wifiq # <<>>
  /\ wifiq' = Tail(wifiq)
  /\ UNCHANGED <<inq, outq, taskVars, pinVars, drvVars, srvq, replies,
                 wireVars, isr, sent>>
-----------------------------------------------------------------------------
(***************************************************************************)
(* task_spi_comms                                                           *)
(***************************************************************************)
Route(type) ==
  CASE type = "to_gdb"                -> "to_server"
    [] type = "set_network_info"      -> "to_wifi"
    [] type = "from_gdb"              -> "save"
    [] type = "transaction_completed" -> "check"
    [] OTHER                          -> "wait"

SpiReceive ==
  /\ pc = "wait"
  /\ inq # <<>>
  /\ inq' = Tail(inq)
  /\ message' = Head(inq)
  /\ pc' = Route(Head(inq).type)
  /\ UNCHANGED <<outq, saved, pinVars, drvVars, srvVars, wireVars, isr, sent>>

(* Both forwards block (portMAX_DELAY) while the destination is full. *)
ForwardToServer ==
  /\ pc = "to_server"
  /\ Len(srvq) < SrvLen
  /\ srvq' = Append(srvq, [message EXCEPT !.type = "to_client"])
  /\ pc' = "wait"
  /\ UNCHANGED <<inq, outq, message, saved, pinVars, drvVars, wifiq, replies,
                 wireVars, isr, sent>>

ForwardToWifi ==
  /\ pc = "to_wifi"
  /\ Len(wifiq) < WifiLen
  /\ wifiq' = Append(wifiq, message)
  /\ pc' = "wait"
  /\ UNCHANGED <<inq, outq, message, saved, pinVars, drvVars, srvq, replies,
                 wireVars, isr, sent>>
-----------------------------------------------------------------------------
(***************************************************************************)
(* spi_save_tx_transaction_buffer, called with a packet ("save") or with    *)
(* NULL ("check").                                                          *)
(***************************************************************************)
SaveSend ==
  /\ pc = "save"
  /\ outq' = Enqueue(outq, message, OutLen)
  /\ pc' = "count"
  /\ UNCHANGED <<inq, message, saved, pinVars, drvVars, srvVars, wireVars,
                 isr, sent>>

SaveCheck ==
  /\ pc = "check"
  /\ pc' = IF outq = <<>> THEN "wait" ELSE "count"
  /\ UNCHANGED <<inq, outq, message, saved, pinVars, drvVars, srvVars,
                 wireVars, isr, sent>>

(* Mutants of SaveCount: the packet is announced without being saved; the    *)
(* count is not checked.                                                    *)
SaveCountSkipsPeek ==
  /\ pc = "count"
  /\ pc' = IF Len(outq) > 1 THEN "wait" ELSE "attn"
  /\ UNCHANGED <<inq, outq, message, saved, pinVars, drvVars, srvVars,
                 wireVars, isr, sent>>
SaveCountUnchecked ==
  /\ pc = "count"
  /\ pc' = "peek"
  /\ UNCHANGED <<inq, outq, message, saved, pinVars, drvVars, srvVars,
                 wireVars, isr, sent>>

SaveCount ==
  /\ pc = "count"
  /\ pc' = IF Len(outq) > 1 THEN "wait" ELSE "peek"
  /\ UNCHANGED <<inq, outq, message, saved, pinVars, drvVars, srvVars,
                 wireVars, isr, sent>>

SavePeek ==
  /\ pc = "peek"
  /\ saved' = IF outq = <<>> THEN saved ELSE Head(outq)
  /\ pc' = "attn"
  /\ UNCHANGED <<inq, outq, message, pinVars, drvVars, srvVars, wireVars, isr,
                 sent>>

(* Mutant of SaveAttn: the packet is saved but not announced.                *)
SaveAttnSilent ==
  /\ pc = "attn"
  /\ pc' = "wait"
  /\ UNCHANGED <<inq, outq, message, saved, pinVars, drvVars, srvVars,
                 wireVars, isr, sent>>

SaveAttn ==
  /\ pc = "attn"
  /\ attn' = TRUE
  /\ pc' = "wait"
  /\ UNCHANGED <<inq, outq, message, saved, spiReady, drvVars, srvVars,
                 wireVars, isr, sent>>
-----------------------------------------------------------------------------
(***************************************************************************)
(* The DMA slave driver                                                     *)
(***************************************************************************)
InFlight == drv \in {"armed", "done"}   \* s_in_flight_mailbox holds 1

(* Slave::queue refuses a second transaction; Slave::trigger hands over the *)
(* queued one unless another is in flight, and then keeps it.               *)
QueueAndTrigger(t) ==
  LET q == IF pending = <<>> THEN <<t>> ELSE pending
  IN IF InFlight
     THEN /\ pending' = q
          /\ UNCHANGED <<drv, trans>>
     ELSE /\ pending' = <<>>
          /\ drv' = "queued"
          /\ trans' = Head(q)

(* The slave task takes the request, counts it in flight and loads it; the  *)
(* driver calls userPostSetupCallback.                                      *)
SlaveArm ==
  /\ drv = "queued"
  /\ drv' = "armed"
  /\ spiReady' = TRUE
  /\ UNCHANGED <<inq, outq, taskVars, attn, pending, trans, isTx, zeroBuf,
                 srvVars, wireVars, isr, sent>>

(* The slave task collects the result and counts nothing in flight. *)
SlaveRetire ==
  /\ drv = "done"
  /\ drv' = "idle"
  /\ UNCHANGED <<inq, outq, taskVars, pinVars, pending, trans, isTx, zeroBuf,
                 srvVars, wireVars, isr, sent>>
-----------------------------------------------------------------------------
(***************************************************************************)
(* ctxLink (outside src/): pulls CS low to read what ATTN announces or to   *)
(* send a packet of its own, clocks once nSPI_READY is low, and lets go of  *)
(* CS if nSPI_READY never comes.  The falling edge of CS runs               *)
(* spi_ss_activated.                                                        *)
(***************************************************************************)
SpiSsActivated ==
  /\ isTx' = attn
  /\ QueueAndTrigger(IF attn THEN [dir |-> "tx", pkt |-> saved]
                             ELSE [dir |-> "rx", pkt |-> NULL])

Select(m) ==
  /\ master = "idle"
  /\ isr = "idle"
  /\ drv = "idle" \/ (BackToBack /\ drv = "done")
  /\ master' = "selected"
  /\ mosi' = m
  /\ SpiSsActivated
  /\ UNCHANGED <<inq, outq, taskVars, pinVars, zeroBuf, srvVars, rxSent,
                 delivered, isr, sent>>

SelectToRead == attn /\ Select(Empty)

SelectToSend ==
  /\ rxSent < MaxRx
  /\ rxSent < Len(delivered) + Unsolicited
  /\ \E k \in RxKinds : Select([type |-> k, id |-> rxSent + 1])

Transfer ==
  /\ master = "selected"
  /\ spiReady
  /\ IF trans.dir = "tx"
     THEN /\ delivered' = Append(delivered, trans.pkt)
          /\ zeroBuf' = mosi
     ELSE UNCHANGED <<delivered, zeroBuf>>
  /\ rxSent' = IF mosi = Empty THEN rxSent ELSE rxSent + 1
  /\ master' = "idle"
  /\ isr' = "pins"
  /\ UNCHANGED <<inq, outq, taskVars, pinVars, pending, drv, trans, isTx,
                 srvVars, mosi, sent>>

GiveUp ==
  /\ master = "selected"
  /\ drv \in {"idle", "done"}
  /\ master' = "idle"
  /\ UNCHANGED <<inq, outq, taskVars, pinVars, drvVars, srvVars, mosi, rxSent,
                 delivered, isr, sent>>
-----------------------------------------------------------------------------
(***************************************************************************)
(* userTransactionCallback, in the interrupt that ends a transfer           *)
(***************************************************************************)
IsrPins ==
  /\ isr = "pins"
  /\ spiReady' = FALSE
  /\ attn' = FALSE
  /\ isr' = IF isTx THEN "remove" ELSE "received"
  /\ UNCHANGED <<inq, outq, taskVars, drvVars, srvVars, wireVars, sent>>

IsrReceived ==
  /\ isr = "received"
  /\ inq' = Enqueue(inq, mosi, InLen)
  /\ isr' = "idle"
  /\ drv' = "done"
  /\ UNCHANGED <<outq, taskVars, pinVars, pending, trans, isTx, zeroBuf,
                 srvVars, wireVars, sent>>

(* Mutant of IsrRemove: the sent packet stays in the output queue.           *)
IsrRemoveForgets ==
  /\ isr = "remove"
  /\ isr' = "completed"
  /\ UNCHANGED <<inq, outq, taskVars, pinVars, drvVars, srvVars, wireVars, sent>>

IsrRemove ==
  /\ isr = "remove"
  /\ outq' = IF outq = <<>> THEN outq ELSE Tail(outq)
  /\ isr' = "completed"
  /\ UNCHANGED <<inq, taskVars, pinVars, drvVars, srvVars, wireVars, sent>>

(* Mutant of IsrCompleted: the SPI Comms task is not told.                   *)
IsrCompletedSilent ==
  /\ isr = "completed"
  /\ isr' = "idle"
  /\ drv' = "done"
  /\ UNCHANGED <<inq, outq, taskVars, pinVars, pending, trans, isTx, zeroBuf,
                 srvVars, wireVars, sent>>

IsrCompleted ==
  /\ isr = "completed"
  /\ inq' = Enqueue(inq, Completed, InLen)
  /\ isr' = "idle"
  /\ drv' = "done"
  /\ UNCHANGED <<outq, taskVars, pinVars, pending, trans, isTx, zeroBuf,
                 srvVars, wireVars, sent>>
-----------------------------------------------------------------------------
SpiTask == SpiReceive \/ ForwardToServer \/ ForwardToWifi \/ SaveSend
           \/ SaveCheck \/ SaveCount \/ SavePeek \/ SaveAttn
SlaveTask == SlaveArm \/ SlaveRetire
Isr == IsrPins \/ IsrReceived \/ IsrRemove \/ IsrCompleted
CtxLink == SelectToRead \/ SelectToSend \/ Transfer \/ GiveUp

Next == Submit \/ ServerSend \/ WifiReceive \/ SpiTask \/ SlaveTask \/ Isr \/ CtxLink

Spec == Init /\ [][Next]_vars

(* FreeRTOS keeps scheduling every ready task, interrupts are taken, and    *)
(* ctxLink answers ATTN, finishes the transfers it starts and sends what it *)
(* has to send.  Nothing is assumed of the network side.                    *)
Fairness ==
  /\ WF_vars(SpiTask) /\ WF_vars(SlaveTask) /\ WF_vars(Isr)
  /\ WF_vars(ServerSend) /\ WF_vars(WifiReceive)
  /\ WF_vars(SelectToRead) /\ WF_vars(SelectToSend) /\ WF_vars(Transfer)
  /\ WF_vars(GiveUp)

FairSpec == Spec /\ Fairness
-----------------------------------------------------------------------------
TypeOK ==
  /\ inq \in Seq(InMsg) /\ Len(inq) <= InLen
  /\ outq \in Seq(TxMsg) /\ Len(outq) <= OutLen
  /\ srvq \in Seq(ToClientMsg) /\ Len(srvq) <= SrvLen
  /\ wifiq \in Seq(RxMsg) /\ Len(wifiq) <= WifiLen
  /\ pc \in {"wait", "to_server", "to_wifi", "save", "check", "count", "peek", "attn"}
  /\ message \in InMsg
  /\ pc = "save" => message \in TxMsg
  /\ pc \in {"to_server", "to_wifi"} => message \in RxMsg
  /\ saved \in TxMsg \cup {NULL}
  /\ {attn, spiReady, isTx} \subseteq BOOLEAN
  /\ zeroBuf \in RxMsg \cup {Empty}
  /\ pending \in Seq(Transaction) /\ Len(pending) <= 1
  /\ drv \in {"idle", "queued", "armed", "done"}
  /\ trans \in Transaction
  /\ isr \in {"idle", "pins", "received", "remove", "completed"}
  /\ master \in {"idle", "selected"}
  /\ mosi \in RxMsg \cup {Empty}
  /\ sent \in 0..MaxTx /\ rxSent \in 0..MaxRx
  /\ delivered \in Seq(TxMsg \cup {NULL})
  /\ replies \in Seq(ToClientMsg)

(* spi_ss_activated never hands the driver a null transmit pointer: once    *)
(* ATTN is asserted, tx_saved_transaction has been set (ctxlink.cpp:91-95,  *)
(* 157-160), in every interleaving with the completion interrupt.           *)
NoNullTransfer ==
  /\ attn => saved # NULL
  /\ \A t \in {trans} \cup {pending[i] : i \in DOMAIN pending} :
       t.dir = "tx" => t.pkt # NULL

(* Whatever is dropped or sent twice, packets never overtake each other in  *)
(* either direction, and the network client never gets a packet twice.      *)
InOrder ==
  /\ \A i, j \in DOMAIN delivered : i < j => delivered[i].id <= delivered[j].id
  /\ \A i, j \in DOMAIN replies : i < j => replies[i].id < replies[j].id

(* A packet that waits in the output queue while everything else is at rest *)
(* has been announced to ctxLink: nothing else would ever restart the       *)
(* transmit path (ctxlink.cpp:79-95).                                       *)
Quiet == inq = <<>> /\ pc = "wait" /\ isr = "idle" /\ drv = "idle" /\ master = "idle"
NoStall == Quiet /\ outq # <<>> => attn

(* ATTN is released only by the transfer of a packet to ctxLink.            *)
AttnHeld == [][attn /\ ~attn' => trans.dir = "tx"]_vars

(* The packet removed from the output queue on completion is the one the    *)
(* completed transaction carried (ctxlink.cpp:121-123).                     *)
RemovesCompleted ==
  [][isr = "remove" /\ isr' # isr /\ outq # <<>> => Head(outq) = trans.pkt]_vars

(* zero_transaction_buffer, the stand-in for a missing buffer, is all zero. *)
ZeroBufferIsZero == zeroBuf = Empty

(* Every packet submitted reaches ctxLink.                                   *)
EveryPacketDelivered ==
  \A n \in 1..MaxTx :
    sent >= n ~> \E i \in DOMAIN delivered : delivered[i].id = n
=============================================================================
