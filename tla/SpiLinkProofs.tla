--------------------------- MODULE SpiLinkProofs ---------------------------
(***************************************************************************)
(* Theorems about the SPI link, for all queue lengths, all traffic and      *)
(* every interleaving of the task, the handlers, the driver and ctxLink.    *)
(***************************************************************************)
EXTENDS SpiLink, TLAPS

(* A send to a queue, with or without room, keeps its type and its length.   *)
LEMMA EnqueueType ==
  ASSUME NEW S, NEW q \in Seq(S), NEW m \in S, NEW len \in Nat, Len(q) <= len
  PROVE  Enqueue(q, m, len) \in Seq(S) /\ Len(Enqueue(q, m, len)) <= len
BY DEF Enqueue

(* A receive from a queue keeps its type and its length.                     *)
LEMMA TailType ==
  ASSUME NEW S, NEW q \in Seq(S), q # <<>>, NEW len \in Nat, Len(q) <= len
  PROVE  Head(q) \in S /\ Tail(q) \in Seq(S) /\ Len(Tail(q)) <= len
OBVIOUS

(* The task's dispatch sends each kind of packet to its own code.            *)
LEMMA RouteType ==
  ASSUME NEW m \in InMsg
  PROVE  /\ Route(m.type) \in {"wait", "to_server", "to_wifi", "save", "check"}
         /\ Route(m.type) = "save" => m \in TxMsg
         /\ Route(m.type) \in {"to_server", "to_wifi"} => m \in RxMsg
BY SpiLinkAssumption DEF InMsg, TxMsg, RxMsg, Completed, Empty, Route

(* A packet that ctxLink is about to clock out is within its bound.          *)
ClockingOut == master = "selected" /\ mosi # Empty => rxSent < MaxRx

TInv == TypeOK /\ ClockingOut

(* Selecting the adapter keeps the driver's state well typed.                *)
LEMMA SelectType ==
  ASSUME TInv, NEW m \in RxMsg \cup {Empty}, Select(m), m # Empty => rxSent < MaxRx
  PROVE  TInv'
<1> DEFINE t == IF attn THEN [dir |-> "tx", pkt |-> saved] ELSE [dir |-> "rx", pkt |-> NULL]
<1> DEFINE q == IF pending = <<>> THEN <<t>> ELSE pending
<1>1. t \in Transaction
  BY DEF TInv, TypeOK, Transaction
<1>2. q \in Seq(Transaction) /\ Len(q) <= 1 /\ Head(q) \in Transaction
  <2>1. pending \in Seq(Transaction) /\ Len(pending) <= 1
    BY DEF TInv, TypeOK
  <2>2. CASE pending = <<>>
    BY <1>1, <2>2
  <2>3. CASE pending # <<>>
    <3>1. Head(pending) \in Transaction
      BY <2>1, <2>3
    <3>2. q = pending
      BY <2>3
    <3> QED
      BY <2>1, <3>1, <3>2
  <2> QED
    BY <2>2, <2>3
<1>3. /\ pending' \in Seq(Transaction) /\ Len(pending') <= 1
      /\ drv' \in {"idle", "queued", "armed", "done"} /\ trans' \in Transaction
  <2>1. QueueAndTrigger(t)
    BY DEF Select, SpiSsActivated
  <2>2. IF InFlight THEN pending' = q /\ drv' = drv /\ trans' = trans
        ELSE pending' = <<>> /\ drv' = "queued" /\ trans' = Head(q)
    BY <2>1 DEF QueueAndTrigger
  <2>3. drv \in {"idle", "queued", "armed", "done"} /\ trans \in Transaction
    BY DEF TInv, TypeOK
  <2> HIDE DEF q
  <2>4. CASE InFlight
    BY <1>2, <2>2, <2>3, <2>4
  <2>5. CASE ~InFlight
    <3>1. <<>> \in Seq(Transaction) /\ Len(<<>>) <= 1
      OBVIOUS
    <3> QED
      BY <1>2, <2>2, <2>5, <3>1
  <2> QED
    BY <2>4, <2>5
<1>4. isTx' = attn /\ master' = "selected" /\ mosi' = m
  BY DEF Select, SpiSsActivated
<1> QED
  BY <1>3, <1>4 DEF Select, TInv, TypeOK, ClockingOut, pinVars, taskVars, srvVars

LEMMA TInvInductive == TInv /\ [Next]_vars => TInv'
<1> SUFFICES ASSUME TInv, [Next]_vars PROVE TInv'
  OBVIOUS
<1> USE SpiLinkAssumption DEF taskVars, pinVars, drvVars, srvVars, wireVars
<1>1. CASE Submit
  <2>1. sent' = sent + 1 /\ sent' \in 0..MaxTx /\ sent' \in 1..MaxTx
    BY <1>1, SMTT(30) DEF Submit, TInv, TypeOK
  <2>2. [type |-> "from_gdb", id |-> sent + 1] \in InMsg
    BY <2>1 DEF InMsg, TxMsg
  <2>3. inq' \in Seq(InMsg) /\ Len(inq') <= InLen
    BY <1>1, <2>2, EnqueueType DEF Submit, TInv, TypeOK
  <2> QED
    BY <1>1, <2>1, <2>3 DEF Submit, TInv, TypeOK, ClockingOut
<1>2. CASE ServerSend
  <2>1. srvq \in Seq(ToClientMsg) /\ srvq # <<>> /\ Len(srvq) <= SrvLen
        /\ replies \in Seq(ToClientMsg)
    BY <1>2 DEF ServerSend, TInv, TypeOK
  <2>2. Head(srvq) \in ToClientMsg /\ Tail(srvq) \in Seq(ToClientMsg)
        /\ Len(Tail(srvq)) <= SrvLen
    BY <2>1, TailType
  <2>3. srvq' \in Seq(ToClientMsg) /\ Len(srvq') <= SrvLen /\ replies' \in Seq(ToClientMsg)
    BY <1>2, <2>1, <2>2 DEF ServerSend
  <2> QED
    BY <1>2, <2>3 DEF ServerSend, TInv, TypeOK, ClockingOut
<1>3. CASE WifiReceive
  <2>1. wifiq \in Seq(RxMsg) /\ wifiq # <<>> /\ Len(wifiq) <= WifiLen
    BY <1>3 DEF WifiReceive, TInv, TypeOK
  <2>2. wifiq' \in Seq(RxMsg) /\ Len(wifiq') <= WifiLen
    BY <1>3, <2>1, TailType DEF WifiReceive
  <2> QED
    BY <1>3, <2>2 DEF WifiReceive, TInv, TypeOK, ClockingOut
<1>4. CASE SpiReceive
  BY <1>4, RouteType, TailType DEF SpiReceive, TInv, TypeOK, ClockingOut
<1>5. CASE ForwardToServer
  <2>1. [message EXCEPT !.type = "to_client"] \in ToClientMsg
    BY <1>5 DEF ForwardToServer, TInv, TypeOK, RxMsg, ToClientMsg
  <2> QED
    BY <1>5, <2>1 DEF ForwardToServer, TInv, TypeOK, ClockingOut
<1>6. CASE ForwardToWifi
  <2>1. wifiq' \in Seq(RxMsg) /\ Len(wifiq') <= WifiLen
    BY <1>6 DEF ForwardToWifi, TInv, TypeOK
  <2> QED
    BY <1>6, <2>1 DEF ForwardToWifi, TInv, TypeOK, ClockingOut
<1>7. CASE SaveSend
  BY <1>7, EnqueueType DEF SaveSend, TInv, TypeOK, ClockingOut
<1>8. CASE SaveCheck
  BY <1>8 DEF SaveCheck, TInv, TypeOK, ClockingOut
<1>9. CASE SaveCount
  BY <1>9 DEF SaveCount, TInv, TypeOK, ClockingOut
<1>10. CASE SavePeek
  <2>1. saved' \in TxMsg \cup {NULL}
    <3>1. outq \in Seq(TxMsg) /\ saved \in TxMsg \cup {NULL}
      BY DEF TInv, TypeOK
    <3>2. saved' = IF outq = <<>> THEN saved ELSE Head(outq)
      BY <1>10 DEF SavePeek
    <3> QED
      BY <3>1, <3>2
  <2> QED
    BY <1>10, <2>1 DEF SavePeek, TInv, TypeOK, ClockingOut
<1>11. CASE SaveAttn
  BY <1>11 DEF SaveAttn, TInv, TypeOK, ClockingOut
<1>12. CASE SlaveArm
  BY <1>12 DEF SlaveArm, TInv, TypeOK, ClockingOut
<1>13. CASE SlaveRetire
  BY <1>13 DEF SlaveRetire, TInv, TypeOK, ClockingOut
<1>14. CASE SelectToRead
  BY <1>14, SelectType DEF SelectToRead
<1>15. CASE SelectToSend
  <2>1. PICK k \in RxKinds : Select([type |-> k, id |-> rxSent + 1])
    BY <1>15 DEF SelectToSend
  <2>2. rxSent < MaxRx /\ rxSent + 1 \in 1..MaxRx
    <3>1. MaxRx \in Nat /\ rxSent \in 0..MaxRx /\ rxSent < MaxRx
      BY <1>15 DEF SelectToSend, TInv, TypeOK
    <3> QED
      BY <3>1
  <2>3. [type |-> k, id |-> rxSent + 1] \in RxMsg
    BY <2>2 DEF RxMsg
  <2> QED
    BY <2>1, <2>2, <2>3, SelectType
<1>16. CASE Transfer
  <2>1. trans.dir = "tx" => trans.pkt \in TxMsg \cup {NULL}
    BY DEF TInv, TypeOK, Transaction
  <2>2. delivered' \in Seq(TxMsg \cup {NULL}) /\ zeroBuf' \in RxMsg \cup {Empty}
    <3>1. /\ delivered \in Seq(TxMsg \cup {NULL}) /\ mosi \in RxMsg \cup {Empty}
          /\ zeroBuf \in RxMsg \cup {Empty}
      BY DEF TInv, TypeOK
    <3>2. CASE trans.dir = "tx"
      <4>1. delivered' = Append(delivered, trans.pkt) /\ zeroBuf' = mosi
        BY <1>16, <3>2 DEF Transfer
      <4> QED
        BY <2>1, <3>1, <3>2, <4>1
    <3>3. CASE trans.dir # "tx"
      BY <1>16, <3>1, <3>3 DEF Transfer
    <3> QED
      BY <3>2, <3>3
  <2>3. rxSent' \in 0..MaxRx
    BY <1>16, SMTT(30) DEF Transfer, TInv, TypeOK, ClockingOut
  <2> QED
    BY <1>16, <2>2, <2>3 DEF Transfer, TInv, TypeOK, ClockingOut
<1>17. CASE GiveUp
  BY <1>17 DEF GiveUp, TInv, TypeOK, ClockingOut
<1>18. CASE IsrPins
  <2>1. /\ attn' \in BOOLEAN /\ spiReady' \in BOOLEAN
        /\ isr' \in {"remove", "received"} /\ ClockingOut' = ClockingOut
    BY <1>18 DEF IsrPins, ClockingOut
  <2> QED
    BY <1>18, <2>1, SMTT(30) DEF IsrPins, TInv, TypeOK
<1>19. CASE IsrReceived
  <2>1. inq' \in Seq(InMsg) /\ Len(inq') <= InLen
    BY <1>19, EnqueueType DEF IsrReceived, TInv, TypeOK, InMsg
  <2> QED
    BY <1>19, <2>1 DEF IsrReceived, TInv, TypeOK, ClockingOut
<1>20. CASE IsrRemove
  <2>1. outq' \in Seq(TxMsg) /\ Len(outq') <= OutLen
    BY <1>20, TailType DEF IsrRemove, TInv, TypeOK
  <2> QED
    BY <1>20, <2>1 DEF IsrRemove, TInv, TypeOK, ClockingOut
<1>21. CASE IsrCompleted
  <2>1. inq' \in Seq(InMsg) /\ Len(inq') <= InLen
    BY <1>21, EnqueueType DEF IsrCompleted, TInv, TypeOK, InMsg
  <2> QED
    BY <1>21, <2>1 DEF IsrCompleted, TInv, TypeOK, ClockingOut
<1>22. CASE UNCHANGED vars
  BY <1>22 DEF vars, TInv, TypeOK, ClockingOut
<1> QED
  BY <1>1, <1>2, <1>3, <1>4, <1>5, <1>6, <1>7, <1>8, <1>9, <1>10, <1>11, <1>12,
     <1>13, <1>14, <1>15, <1>16, <1>17, <1>18, <1>19, <1>20, <1>21, <1>22
     DEF Next, SpiTask, SlaveTask, Isr, CtxLink

LEMMA InitTyped == Init => TInv
<1> SUFFICES ASSUME Init PROVE TInv
  OBVIOUS
<1>1. /\ inq \in Seq(InMsg) /\ outq \in Seq(TxMsg) /\ srvq \in Seq(ToClientMsg)
      /\ wifiq \in Seq(RxMsg) /\ pending \in Seq(Transaction)
      /\ delivered \in Seq(TxMsg \cup {NULL}) /\ replies \in Seq(ToClientMsg)
  BY DEF Init
<1>2. /\ Len(inq) <= InLen /\ Len(outq) <= OutLen /\ Len(srvq) <= SrvLen
      /\ Len(wifiq) <= WifiLen /\ Len(pending) <= 1
  BY SpiLinkAssumption DEF Init
<1>3. message \in InMsg /\ trans \in Transaction
  BY DEF Init, InMsg, Transaction
<1>4. sent \in 0..MaxTx /\ rxSent \in 0..MaxRx
  BY SpiLinkAssumption DEF Init
<1> QED
  BY <1>1, <1>2, <1>3, <1>4 DEF Init, TInv, TypeOK, ClockingOut

LEMMA TInvInvariant == Spec => []TInv
BY InitTyped, TInvInductive, PTL DEF Spec

(* Every queue holds well-formed packets and never more than its length, in  *)
(* every reachable state.                                                    *)
THEOREM TypeCorrect == Spec => []TypeOK
BY TInvInvariant, PTL DEF TInv
-----------------------------------------------------------------------------
(***************************************************************************)
(* NoNullTransfer.  tx_saved_transaction is null only until the first peek.  *)
(* The peek finds the queue empty only after a completion removed a packet,  *)
(* and a completion implies an earlier peek.                                 *)
(***************************************************************************)
Announced == attn \/ isTx \/ pc = "attn" \/ isr = "remove" => saved # NULL
PeekFinds == saved = NULL /\ pc \in {"count", "peek"} => outq # <<>>
InDriver == \A t \in {trans} \cup {pending[i] : i \in DOMAIN pending} :
              t.dir = "tx" => t.pkt # NULL
NInv == TypeOK /\ Announced /\ PeekFinds /\ InDriver

(* A selection hands over the saved packet, which is not null when ATTN is   *)
(* asserted.                                                                 *)
LEMMA SelectNotNull ==
  ASSUME NInv, NEW m, Select(m)
  PROVE  Announced' /\ PeekFinds' /\ InDriver'
<1> DEFINE t == IF attn THEN [dir |-> "tx", pkt |-> saved] ELSE [dir |-> "rx", pkt |-> NULL]
<1> DEFINE q == IF pending = <<>> THEN <<t>> ELSE pending
<1>1. /\ isTx' = attn /\ UNCHANGED <<attn, pc, isr, saved, outq>>
      /\ IF InFlight THEN pending' = q /\ trans' = trans
         ELSE pending' = <<>> /\ trans' = Head(q)
  BY DEF Select, SpiSsActivated, QueueAndTrigger, pinVars, taskVars
<1>2. Announced' /\ PeekFinds'
  BY <1>1 DEF NInv, Announced, PeekFinds
<1>3. t.dir = "tx" => t.pkt # NULL
  BY DEF NInv, Announced
<1>4. /\ Head(q) \in {t} \cup {pending[i] : i \in DOMAIN pending}
      /\ \A i \in DOMAIN q : q[i] \in {t} \cup {pending[i_1] : i_1 \in DOMAIN pending}
  <2>1. pending \in Seq(Transaction)
    BY DEF NInv, TypeOK
  <2>2. CASE pending = <<>>
    BY <2>2
  <2>3. CASE pending # <<>>
    <3>1. q = pending /\ 1 \in DOMAIN pending /\ Head(pending) = pending[1]
      BY <2>1, <2>3
    <3> QED
      BY <3>1
  <2> QED
    BY <2>2, <2>3
<1>5. InDriver'
  <2> HIDE DEF t, q
  <2>1. CASE InFlight
    BY <1>1, <1>3, <1>4, <2>1 DEF NInv, InDriver
  <2>2. CASE ~InFlight
    BY <1>1, <1>3, <1>4, <2>2 DEF NInv, InDriver
  <2> QED
    BY <2>1, <2>2
<1> QED
  BY <1>2, <1>5

LEMMA NInvInductive == NInv /\ TypeOK' /\ [Next]_vars => NInv'
<1> SUFFICES ASSUME NInv, TypeOK', [Next]_vars PROVE Announced' /\ PeekFinds' /\ InDriver'
  BY DEF NInv
<1> USE SpiLinkAssumption, NullAssumption
        DEF taskVars, pinVars, drvVars, srvVars, wireVars, NInv, Announced, PeekFinds, InDriver
<1>1. CASE Submit \/ ServerSend \/ WifiReceive
  BY <1>1 DEF Submit, ServerSend, WifiReceive
<1>2. CASE SpiReceive
  BY <1>2, RouteType DEF SpiReceive, TypeOK, Route
<1>3. CASE ForwardToServer \/ ForwardToWifi
  BY <1>3 DEF ForwardToServer, ForwardToWifi
<1>4. CASE SaveSend
  <2>1. outq' # <<>>
    <3>1. outq \in Seq(TxMsg) /\ message \in TxMsg /\ outq' = Enqueue(outq, message, OutLen)
      BY <1>4 DEF SaveSend, TypeOK
    <3>2. CASE Len(outq) < OutLen
      BY <3>1, <3>2 DEF Enqueue
    <3>3. CASE ~(Len(outq) < OutLen)
      <4>1. Len(outq) # 0 /\ outq' = outq
        BY <3>1, <3>3 DEF Enqueue
      <4> QED
        BY <4>1
    <3> QED
      BY <3>2, <3>3
  <2> QED
    BY <1>4, <2>1 DEF SaveSend
<1>5. CASE SaveCheck \/ SaveCount
  BY <1>5 DEF SaveCheck, SaveCount
<1>6. CASE SavePeek
  <2>1. saved' # NULL
    BY <1>6, SMTT(30) DEF SavePeek, TypeOK
  <2> QED
    BY <1>6, <2>1 DEF SavePeek
<1>7. CASE SaveAttn
  BY <1>7 DEF SaveAttn
<1>8. CASE SlaveArm \/ SlaveRetire
  BY <1>8 DEF SlaveArm, SlaveRetire
<1>9. CASE SelectToRead \/ SelectToSend
  BY <1>9, SelectNotNull DEF SelectToRead, SelectToSend
<1>10. CASE Transfer
  BY <1>10 DEF Transfer
<1>11. CASE GiveUp
  BY <1>11 DEF GiveUp
<1>12. CASE IsrPins \/ IsrReceived \/ IsrCompleted
  BY <1>12 DEF IsrPins, IsrReceived, IsrCompleted
<1>13. CASE IsrRemove
  BY <1>13 DEF IsrRemove
<1>14. CASE UNCHANGED vars
  BY <1>14 DEF vars
<1> QED
  BY <1>1, <1>2, <1>3, <1>4, <1>5, <1>6, <1>7, <1>8, <1>9, <1>10, <1>11, <1>12,
     <1>13, <1>14 DEF Next, SpiTask, SlaveTask, Isr, CtxLink

(* No null pointer ever reaches the driver as a transmit buffer, and ATTN is *)
(* asserted only when there is a packet to send.                             *)
THEOREM NeverNull == Spec => []NoNullTransfer
<1>1. Init => Announced /\ PeekFinds /\ InDriver
  BY DEF Init, Announced, PeekFinds, InDriver
<1>2. NInv => NoNullTransfer
  BY DEF NInv, Announced, InDriver, NoNullTransfer
<1> QED
  BY <1>1, <1>2, NInvInductive, TypeCorrect, PTL DEF Spec, NInv
-----------------------------------------------------------------------------
(***************************************************************************)
(* InOrder.  Each direction is a pipeline of queues and single places, and   *)
(* in every place the packets are older than in the places before it.        *)
(***************************************************************************)
FromServer(m) == m.type = "from_gdb"
FromLink(m) == m.type \in RxKinds

(* Towards ctxLink: submitted, in the task's hands, in the output queue,     *)
(* saved for the interrupt handler, in the driver, delivered.                *)
Submitted ==
  /\ \A i \in DOMAIN inq : FromServer(inq[i]) =>
       /\ inq[i].id <= sent
       /\ \A j \in DOMAIN inq : FromServer(inq[j]) /\ i < j => inq[i].id <= inq[j].id
  /\ pc = "save" =>
       /\ message.id <= sent
       /\ \A j \in DOMAIN inq : FromServer(inq[j]) => message.id <= inq[j].id
Waiting ==
  \A i \in DOMAIN outq :
    /\ outq[i].id <= sent
    /\ pc = "save" => outq[i].id <= message.id
    /\ \A j \in DOMAIN inq : FromServer(inq[j]) => outq[i].id <= inq[j].id
    /\ \A j \in DOMAIN outq : i < j => outq[i].id <= outq[j].id
Saved ==
  saved # NULL =>
    /\ saved.id <= sent
    /\ pc = "save" => saved.id <= message.id
    /\ \A j \in DOMAIN inq : FromServer(inq[j]) => saved.id <= inq[j].id
    /\ \A j \in DOMAIN outq : saved.id <= outq[j].id
(* A transaction that carries a packet carries one that was saved.           *)
Carries(t) == t.dir = "tx"
Driven ==
  /\ Carries(trans) => saved # NULL /\ trans.pkt.id <= saved.id
  /\ \A i \in DOMAIN pending : Carries(pending[i]) =>
       /\ saved # NULL /\ pending[i].pkt.id <= saved.id
       /\ Carries(trans) => trans.pkt.id <= pending[i].pkt.id
Delivered ==
  \A i \in DOMAIN delivered :
    /\ delivered[i] \in TxMsg
    /\ saved # NULL /\ delivered[i].id <= saved.id
    /\ Carries(trans) => delivered[i].id <= trans.pkt.id
    /\ \A j \in DOMAIN pending : Carries(pending[j]) => delivered[i].id <= pending[j].pkt.id
    /\ \A j \in DOMAIN delivered : i < j => delivered[i].id <= delivered[j].id

(* From ctxLink: clocked in, in the task's queue, in its hands, in the       *)
(* server's queue or past it.                                                *)
AtHand == isr \in {"pins", "received"} /\ mosi # Empty
Seen == IF AtHand THEN rxSent - 1 ELSE rxSent
Passed == replies \o srvq
Clocked ==
  /\ master = "selected" => isr = "idle" /\ (mosi # Empty => mosi.id = rxSent + 1)
  /\ AtHand => mosi.id = rxSent
Received ==
  \A i \in DOMAIN inq : FromLink(inq[i]) =>
    /\ inq[i].id <= Seen
    /\ \A j \in DOMAIN inq : FromLink(inq[j]) /\ i < j => inq[i].id < inq[j].id
Forwarded ==
  pc = "to_server" =>
    /\ message.id <= Seen
    /\ \A j \in DOMAIN inq : FromLink(inq[j]) => message.id < inq[j].id
PassedOn ==
  \A i \in DOMAIN Passed :
    /\ Passed[i].id <= Seen
    /\ pc = "to_server" => Passed[i].id < message.id
    /\ \A j \in DOMAIN inq : FromLink(inq[j]) => Passed[i].id < inq[j].id
    /\ \A j \in DOMAIN Passed : i < j => Passed[i].id < Passed[j].id

(* What the kinds of packets are, and that their numbers can be compared.    *)
LEMMA Kinds ==
  /\ \A m \in InMsg : m.id \in Int /\ (FromServer(m) => m \in TxMsg)
                      /\ (FromLink(m) => m \in RxMsg) /\ ~(FromServer(m) /\ FromLink(m))
  /\ \A m \in TxMsg : m.id \in Int /\ FromServer(m) /\ m \in InMsg
  /\ \A m \in RxMsg : m.id \in Int /\ FromLink(m) /\ m \in InMsg /\ m # Empty
  /\ \A m \in ToClientMsg : m.id \in Int
  /\ ~FromServer(Completed) /\ ~FromLink(Completed)
  /\ ~FromServer(Empty) /\ ~FromLink(Empty) /\ Empty \in InMsg /\ Completed \in InMsg
BY SpiLinkAssumption DEF InMsg, TxMsg, RxMsg, ToClientMsg, Completed, Empty, FromServer, FromLink

(* What a queue holds after a send: what it held and, if there was room,     *)
(* what was sent.                                                            *)
LEMMA EnqueueHolds ==
  ASSUME NEW S, NEW q \in Seq(S), NEW m \in S, NEW len
  PROVE  \A i \in DOMAIN Enqueue(q, m, len) :
           \/ i \in DOMAIN q /\ Enqueue(q, m, len)[i] = q[i]
           \/ i = Len(q) + 1 /\ Enqueue(q, m, len)[i] = m /\ \A j \in DOMAIN q : j < i
BY DEF Enqueue

(* What it holds after a receive, one place further on.                      *)
LEMMA TailHolds ==
  ASSUME NEW S, NEW q \in Seq(S), q # <<>>
  PROVE  /\ 1 \in DOMAIN q /\ Head(q) = q[1]
         /\ \A i \in DOMAIN Tail(q) : i + 1 \in DOMAIN q /\ Tail(q)[i] = q[i + 1] /\ 1 < i + 1
         /\ \A i, j \in DOMAIN Tail(q) : i < j => i + 1 < j + 1
OBVIOUS

TOrder == Submitted /\ Waiting /\ Saved /\ Driven /\ Delivered

(* A message that is not from the network side changes nothing here.         *)
LEMMA OtherSent ==
  ASSUME TypeOK, TOrder, NEW m \in InMsg, ~FromServer(m), inq' = Enqueue(inq, m, InLen),
         UNCHANGED <<outq, saved, pending, trans, delivered, sent, pc, message>>
  PROVE  TOrder'
<1> DEFINE Old(i) == FromServer(inq'[i]) => i \in DOMAIN inq /\ inq'[i] = inq[i]
<1>1. \A i \in DOMAIN inq' : Old(i)
  <2>1. inq \in Seq(InMsg)
    BY DEF TypeOK
  <2> QED
    BY <2>1, EnqueueHolds
<1>2. Submitted'
  BY <1>1 DEF TOrder, Submitted
<1>3. Waiting'
  BY <1>1 DEF TOrder, Waiting
<1>4. Saved'
  BY <1>1 DEF TOrder, Saved
<1> QED
  BY <1>2, <1>3, <1>4 DEF TOrder, Driven, Delivered

LEMMA TOrderNext == TInv /\ NInv /\ TOrder /\ [Next]_vars => TOrder'
<1> SUFFICES ASSUME TInv, NInv, TOrder, [Next]_vars PROVE TOrder'
  OBVIOUS
<1> USE DEF taskVars, pinVars, drvVars, srvVars, wireVars, TOrder
<1>0. /\ inq \in Seq(InMsg) /\ outq \in Seq(TxMsg) /\ message \in InMsg
      /\ pc = "save" => message \in TxMsg
      /\ saved \in TxMsg \cup {NULL} /\ pending \in Seq(Transaction)
      /\ trans \in Transaction /\ mosi \in RxMsg \cup {Empty}
      /\ delivered \in Seq(TxMsg \cup {NULL})
  BY DEF TInv, TypeOK
<1>00. sent \in Int /\ (sent < MaxTx => sent + 1 \in 1..MaxTx)
  <2>1. MaxTx \in Nat
    BY SpiLinkAssumption
  <2>2. sent \in 0..MaxTx
    BY DEF TInv, TypeOK
  <2> QED
    BY <2>1, <2>2
(* Nothing moves.                                                            *)
<1>1. ASSUME UNCHANGED <<inq, outq, message, saved, pending, trans, delivered, sent>>,
             pc' = "save" => pc = "save"
      PROVE  TOrder'
  BY <1>1 DEF Submitted, Waiting, Saved, Driven, Delivered
<1>2. CASE Submit
  <2> DEFINE m == [type |-> "from_gdb", id |-> sent + 1]
  <2>1. /\ sent' = sent + 1 /\ inq' = Enqueue(inq, m, InLen)
        /\ UNCHANGED <<outq, saved, pending, trans, delivered, pc, message>>
    BY <1>2 DEF Submit
  <2>2. m \in InMsg /\ m.id = sent + 1
    BY <1>00, <1>2 DEF Submit, InMsg, TxMsg
  <2> HIDE DEF m
  <2>3. \A i \in DOMAIN inq' : \/ i \in DOMAIN inq /\ inq'[i] = inq[i]
                               \/ inq'[i] = m /\ \A j \in DOMAIN inq : j < i
    BY <1>0, <2>1, <2>2, EnqueueHolds
  <2>4. Submitted'
    <3>1. \A i \in DOMAIN inq' : FromServer(inq'[i]) => inq'[i].id <= sent'
      BY <1>0, <1>00, <2>1, <2>2, <2>3, Kinds DEF Submitted
    <3>2. ASSUME NEW i \in DOMAIN inq', NEW j \in DOMAIN inq', i < j,
                 FromServer(inq'[i]), FromServer(inq'[j])
          PROVE  inq'[i].id <= inq'[j].id
      <4>1. CASE j \in DOMAIN inq /\ inq'[j] = inq[j]
        <5>1. i \in DOMAIN inq /\ inq'[i] = inq[i]
          <6>1. i \in Nat /\ j \in Nat
            BY <1>0, <2>1, <2>2, EnqueueType DEF Enqueue
          <6> QED
            BY <2>3, <3>2, <4>1, <6>1
        <5> QED
          BY <3>2, <4>1, <5>1 DEF Submitted
      <4>2. CASE inq'[j] = m
        BY <1>0, <1>00, <2>1, <2>2, <3>1, <3>2, <4>2
      <4> QED
        BY <2>3, <4>1, <4>2
    <3>3. pc' = "save" =>
            /\ message'.id <= sent'
            /\ \A j \in DOMAIN inq' : FromServer(inq'[j]) => message'.id <= inq'[j].id
      <4>1. message.id \in Int
        BY <1>0, Kinds
      <4>2. pc = "save" => message.id <= sent
        BY DEF Submitted
      <4>3. pc = "save" => message.id <= m.id
        BY <1>00, <2>2, <4>1, <4>2
      <4>4. pc' = "save" => message'.id <= sent'
        BY <1>00, <2>1, <4>1, <4>2
      <4> QED
        BY <2>1, <2>3, <4>3, <4>4 DEF Submitted
    <3> QED
      BY <3>1, <3>2, <3>3 DEF Submitted
  <2>5. Waiting'
    <3>1. \A i \in DOMAIN outq : outq[i].id <= sent /\ outq[i].id \in Int
      BY <1>0, Kinds DEF Waiting
    <3>2. \A i \in DOMAIN outq : outq[i].id <= sent' /\ outq[i].id <= m.id
      BY <1>00, <2>1, <2>2, <3>1
    <3> QED
      BY <2>1, <2>3, <3>2 DEF Waiting
  <2>6. Saved'
    BY <1>0, <1>00, <2>1, <2>2, <2>3, Kinds DEF Saved
  <2> QED
    BY <2>1, <2>4, <2>5, <2>6 DEF Driven, Delivered
<1>3. CASE SpiReceive
  <2>1. /\ inq # <<>> /\ inq' = Tail(inq) /\ message' = Head(inq) /\ pc = "wait"
        /\ pc' = Route(Head(inq).type)
        /\ UNCHANGED <<outq, saved, pending, trans, delivered, sent>>
    BY <1>3 DEF SpiReceive
  <2>2. /\ 1 \in DOMAIN inq /\ message' = inq[1]
        /\ \A i \in DOMAIN inq' : i + 1 \in DOMAIN inq /\ inq'[i] = inq[i + 1] /\ 1 < i + 1
        /\ \A i, j \in DOMAIN inq' : i < j => i + 1 < j + 1
    BY <1>0, <2>1, TailHolds
  <2>3. pc' = "save" => FromServer(inq[1])
    <3>1. message' \in InMsg
      BY <1>0, <2>2
    <3> QED
      BY <2>1, <2>2, <3>1, RouteType, Kinds
  <2>4. Submitted'
    <3>1. \A i, j \in DOMAIN inq' : FromServer(inq'[i]) /\ FromServer(inq'[j]) /\ i < j
                                    => inq'[i].id <= inq'[j].id
      BY <2>2 DEF Submitted
    <3> QED
      BY <2>1, <2>2, <2>3, <3>1 DEF Submitted
  <2>5. Waiting'
    BY <2>1, <2>2, <2>3 DEF Waiting
  <2>6. Saved'
    BY <2>1, <2>2, <2>3 DEF Saved
  <2> QED
    BY <2>1, <2>4, <2>5, <2>6 DEF Driven, Delivered
<1>4. CASE SaveSend
  <2>1. /\ pc = "save" /\ pc' = "count" /\ outq' = Enqueue(outq, message, OutLen)
        /\ UNCHANGED <<inq, message, saved, pending, trans, delivered, sent>>
    BY <1>4 DEF SaveSend
  <2>2. \A i \in DOMAIN outq' : \/ i \in DOMAIN outq /\ outq'[i] = outq[i]
                                \/ outq'[i] = message /\ \A j \in DOMAIN outq : j < i
    BY <1>0, <2>1, EnqueueHolds
  <2>3. Waiting'
    <3>1. ASSUME NEW i \in DOMAIN outq'
          PROVE  /\ outq'[i].id <= sent'
                 /\ \A j \in DOMAIN inq : FromServer(inq[j]) => outq'[i].id <= inq[j].id
                 /\ outq'[i].id <= message.id
      <4>1. CASE i \in DOMAIN outq /\ outq'[i] = outq[i]
        BY <2>1, <4>1 DEF Waiting
      <4>2. CASE outq'[i] = message
        <5>1. message.id <= message.id
          BY <1>0, Kinds
        <5> QED
          BY <2>1, <4>2, <5>1 DEF Submitted
      <4> QED
        BY <2>2, <4>1, <4>2
    <3>2. ASSUME NEW i \in DOMAIN outq', NEW j \in DOMAIN outq', i < j
          PROVE  outq'[i].id <= outq'[j].id
      <4>1. i \in Nat /\ j \in Nat
        BY <1>0, <2>1 DEF Enqueue
      <4>2. CASE outq'[j] = message
        BY <3>1, <4>2
      <4>3. CASE j \in DOMAIN outq /\ outq'[j] = outq[j]
        <5>1. i \in DOMAIN outq /\ outq'[i] = outq[i]
          BY <2>2, <3>2, <4>1, <4>3
        <5> QED
          BY <3>2, <4>3, <5>1 DEF Waiting
      <4> QED
        BY <2>2, <4>2, <4>3
    <3> QED
      BY <2>1, <3>1, <3>2 DEF Waiting
  <2>4. Saved'
    BY <2>1, <2>2 DEF Saved
  <2>5. Submitted'
    BY <2>1 DEF Submitted
  <2> QED
    BY <2>1, <2>3, <2>4, <2>5 DEF Driven, Delivered
<1>5. CASE SavePeek
  <2>1. /\ saved' = IF outq = <<>> THEN saved ELSE Head(outq)
        /\ pc' = "attn" /\ UNCHANGED <<inq, outq, message, pending, trans, delivered, sent>>
    BY <1>5 DEF SavePeek
  <2>2. CASE outq = <<>>
    BY <1>1, <2>1, <2>2
  <2>3. CASE outq # <<>>
    <3>1. 1 \in DOMAIN outq /\ saved' = outq[1] /\ saved' \in TxMsg
          /\ \A j \in DOMAIN outq : 1 = j \/ 1 < j
      BY <1>0, <2>1, <2>3
    <3>2. saved' # NULL /\ saved'.id \in Int
      BY <3>1, NullAssumption, Kinds
    <3>3. saved # NULL => saved.id <= saved'.id /\ saved.id \in Int
      BY <1>0, <3>1, Kinds DEF Saved
    <3>4. Submitted' /\ Waiting'
      BY <2>1 DEF Submitted, Waiting
    <3>5. Saved'
      <4>1. \A j \in DOMAIN outq : outq[1].id <= outq[j].id
        BY <3>1, <3>2 DEF Waiting
      <4> QED
        BY <2>1, <3>1, <4>1 DEF Waiting, Saved
    <3>6. Driven'
      <4>1. Carries(trans) => trans.pkt.id \in Int
        BY <1>0, Kinds DEF Transaction, Carries, NInv, InDriver
      <4>2. \A i \in DOMAIN pending : Carries(pending[i]) => pending[i].pkt.id \in Int
        BY <1>0, Kinds DEF Transaction, Carries, NInv, InDriver
      <4> QED
        BY <2>1, <3>2, <3>3, <4>1, <4>2 DEF Driven, Carries
    <3>7. Delivered'
      <4>1. \A i \in DOMAIN delivered : delivered[i].id <= saved'.id
        BY <3>2, <3>3, Kinds DEF Delivered
      <4> QED
        BY <2>1, <3>2, <4>1 DEF Delivered, Carries
    <3> QED
      BY <3>4, <3>5, <3>6, <3>7
  <2> QED
    BY <2>2, <2>3
<1>6. ASSUME NEW m, Select(m) PROVE TOrder'
  <2> DEFINE t == IF attn THEN [dir |-> "tx", pkt |-> saved] ELSE [dir |-> "rx", pkt |-> NULL]
             q == IF pending = <<>> THEN <<t>> ELSE pending
  <2>1. /\ UNCHANGED <<inq, outq, message, saved, delivered, sent, pc>>
        /\ IF InFlight THEN pending' = q /\ trans' = trans
           ELSE pending' = <<>> /\ trans' = Head(q)
    BY <1>6 DEF Select, SpiSsActivated, QueueAndTrigger
  <2>2. Carries(t) => saved # NULL /\ t.pkt = saved /\ saved.id \in Int
    BY <1>0, Kinds DEF NInv, Announced, Carries
  <2>3. /\ \A i \in DOMAIN q : q[i] = t \/ (i \in DOMAIN pending /\ q[i] = pending[i])
        /\ 1 \in DOMAIN q /\ Head(q) = q[1]
    BY <1>0
  <2> HIDE DEF t, q
  <2>4. ASSUME NEW i \in DOMAIN q, Carries(q[i])
        PROVE  /\ saved # NULL /\ q[i].pkt.id <= saved.id
               /\ Carries(trans) => trans.pkt.id <= q[i].pkt.id
               /\ \A d \in DOMAIN delivered : delivered[d].id <= q[i].pkt.id
    <3>1. CASE q[i] = t
      BY <2>2, <2>4, <3>1 DEF Driven, Delivered
    <3>2. CASE i \in DOMAIN pending /\ q[i] = pending[i]
      BY <2>4, <3>2 DEF Driven, Delivered
    <3> QED
      BY <2>3, <3>1, <3>2
  <2>5. Submitted' /\ Waiting' /\ Saved'
    BY <2>1 DEF Submitted, Waiting, Saved
  <2>6. CASE InFlight
    BY <2>1, <2>4, <2>5, <2>6 DEF Driven, Delivered, Carries
  <2>7. CASE ~InFlight
    BY <2>1, <2>3, <2>4, <2>5, <2>7 DEF Driven, Delivered, Carries
  <2> QED
    BY <2>6, <2>7
<1>7. CASE Transfer
  <2>1. UNCHANGED <<inq, outq, message, saved, pending, trans, sent, pc>>
    BY <1>7 DEF Transfer
  <2>2. CASE ~Carries(trans)
    BY <1>1, <1>7, <2>1, <2>2 DEF Transfer, Carries
  <2>3. CASE Carries(trans)
    <3>1. delivered' = Append(delivered, trans.pkt)
      BY <1>7, <2>3 DEF Transfer, Carries
    <3>2. trans.pkt \in TxMsg /\ trans.pkt.id \in Int
      BY <1>0, <2>3, Kinds DEF Carries, NInv, InDriver, Transaction
    <3> DEFINE pkt == trans.pkt
    <3>3. \A i \in DOMAIN delivered' : \/ i \in DOMAIN delivered /\ delivered'[i] = delivered[i]
                                       \/ delivered'[i] = pkt /\ \A j \in DOMAIN delivered : j < i
      BY <1>0, <3>1
    <3>4. ASSUME NEW i \in DOMAIN delivered'
          PROVE  /\ delivered'[i] \in TxMsg
                 /\ saved # NULL /\ delivered'[i].id <= saved.id
                 /\ delivered'[i].id <= pkt.id
                 /\ \A j \in DOMAIN pending : Carries(pending[j]) => delivered'[i].id <= pending[j].pkt.id
      BY <2>3, <3>2, <3>3 DEF Delivered, Driven
    <3>5. ASSUME NEW i \in DOMAIN delivered', NEW j \in DOMAIN delivered', i < j
          PROVE  delivered'[i].id <= delivered'[j].id
      <4>1. i \in Nat /\ j \in Nat
        BY <1>0, <3>1
      <4>2. CASE delivered'[j] = pkt
        BY <3>4, <4>2
      <4>3. CASE j \in DOMAIN delivered /\ delivered'[j] = delivered[j]
        <5>1. i \in DOMAIN delivered /\ delivered'[i] = delivered[i]
          BY <3>3, <3>5, <4>1, <4>3
        <5> QED
          BY <3>5, <4>3, <5>1 DEF Delivered
      <4> QED
        BY <3>3, <4>2, <4>3
    <3>6. Delivered'
      BY <2>1, <3>4, <3>5 DEF Delivered, Carries
    <3> QED
      BY <2>1, <3>6 DEF Submitted, Waiting, Saved, Driven, Carries
  <2> QED
    BY <2>2, <2>3
<1>8. CASE IsrReceived
  <2>1. mosi \in InMsg /\ ~FromServer(mosi)
    BY <1>0, Kinds
  <2> QED
    BY <1>8, <2>1, OtherSent DEF IsrReceived, TInv
<1>9. CASE IsrCompleted
  BY <1>9, Kinds, OtherSent DEF IsrCompleted, TInv
<1>10. CASE IsrRemove
  <2>1. UNCHANGED <<inq, message, saved, pending, trans, delivered, sent, pc>>
    BY <1>10 DEF IsrRemove
  <2>2. CASE outq = <<>>
    BY <1>1, <1>10, <2>1, <2>2 DEF IsrRemove
  <2>3. CASE outq # <<>>
    <3>1. outq' = Tail(outq)
      BY <1>10, <2>3 DEF IsrRemove
    <3>2. /\ \A i \in DOMAIN outq' : i + 1 \in DOMAIN outq /\ outq'[i] = outq[i + 1]
          /\ \A i, j \in DOMAIN outq' : i < j => i + 1 < j + 1
      BY <1>0, <2>3, <3>1, TailHolds
    <3>3. Waiting'
      BY <2>1, <3>2 DEF Waiting
    <3>4. Saved'
      BY <2>1, <3>2 DEF Saved
    <3> QED
      BY <2>1, <3>3, <3>4 DEF Submitted, Driven, Delivered, Carries
  <2> QED
    BY <2>2, <2>3
<1>11. CASE ServerSend \/ WifiReceive \/ SlaveArm \/ SlaveRetire \/ GiveUp \/ IsrPins
            \/ UNCHANGED vars
  BY <1>1, <1>11 DEF ServerSend, WifiReceive, SlaveArm, SlaveRetire, GiveUp, IsrPins, vars
<1>12. CASE ForwardToServer \/ ForwardToWifi \/ SaveCheck \/ SaveCount \/ SaveAttn
  BY <1>1, <1>12 DEF ForwardToServer, ForwardToWifi, SaveCheck, SaveCount, SaveAttn
<1> QED
  BY <1>2, <1>3, <1>4, <1>5, <1>6, <1>7, <1>8, <1>9, <1>10, <1>11, <1>12
     DEF Next, SpiTask, SlaveTask, Isr, CtxLink, SelectToRead, SelectToSend

ROrder == Clocked /\ Received /\ Forwarded /\ PassedOn

(* Sending on a packet to the client does not change the sequence of the     *)
(* packets that have been passed on.                                         *)
LEMMA PassedSame ==
  ASSUME NEW S, NEW r \in Seq(S), NEW q \in Seq(S), q # <<>>
  PROVE  Append(r, Head(q)) \o Tail(q) = r \o q
OBVIOUS

LEMMA PassedAppend ==
  ASSUME NEW S, NEW r \in Seq(S), NEW q \in Seq(S), NEW m \in S
  PROVE  r \o Append(q, m) = Append(r \o q, m)
OBVIOUS

(* The numbers of all packets are integers.                                  *)
LEMMA Numbers ==
  ASSUME TypeOK
  PROVE  /\ rxSent \in Int /\ Seen \in Int /\ Seen <= rxSent /\ message.id \in Int
         /\ \A i \in DOMAIN inq : inq[i].id \in Int
         /\ Passed \in Seq(ToClientMsg) /\ \A i \in DOMAIN Passed : Passed[i].id \in Int
<1>1. rxSent \in Int
  BY SpiLinkAssumption DEF TypeOK
<1>2. Seen \in Int /\ Seen <= rxSent
  BY <1>1 DEF Seen
<1>3. message \in InMsg /\ inq \in Seq(InMsg) /\ Passed \in Seq(ToClientMsg)
  BY DEF TypeOK, Passed
<1> QED
  BY <1>1, <1>2, <1>3, Kinds

(* More of ctxLink's packets have been clocked in, and nothing else changed. *)
LEMMA SeenGrows ==
  ASSUME TypeOK, TypeOK', ROrder, Seen <= Seen', UNCHANGED <<inq, message, replies, srvq>>,
         pc' = "to_server" => pc = "to_server"
  PROVE  Received' /\ Forwarded' /\ PassedOn'
<1>1. Passed' = Passed
  BY DEF Passed
<1>2. \A n \in Int : n <= Seen => n <= Seen'
  <2>1. rxSent' \in Int
    BY SpiLinkAssumption DEF TypeOK
  <2>2. Seen' \in Int
    BY <2>1 DEF Seen
  <2> QED
    BY <2>2, Numbers
<1>3. Received'
  BY <1>2, Numbers DEF ROrder, Received
<1>4. Forwarded'
  BY <1>2, Numbers DEF ROrder, Forwarded
<1>5. PassedOn'
  BY <1>1, <1>2, Numbers DEF ROrder, PassedOn
<1> QED
  BY <1>3, <1>4, <1>5

(* A message that is not from ctxLink changes nothing here.                  *)
LEMMA OtherQueued ==
  ASSUME TypeOK, TypeOK', ROrder, NEW m \in InMsg, ~FromLink(m), Seen <= Seen',
         inq' = Enqueue(inq, m, InLen), UNCHANGED <<message, replies, srvq, pc>>
  PROVE  Received' /\ Forwarded' /\ PassedOn'
<1>1. \A i \in DOMAIN inq' : FromLink(inq'[i]) => i \in DOMAIN inq /\ inq'[i] = inq[i]
  <2>1. inq \in Seq(InMsg)
    BY DEF TypeOK
  <2> QED
    BY <2>1, EnqueueHolds
<1>2. Passed' = Passed
  BY DEF Passed
<1>3. \A n \in Int : n <= Seen => n <= Seen'
  <2>1. rxSent' \in Int
    BY SpiLinkAssumption DEF TypeOK
  <2>2. Seen' \in Int
    BY <2>1 DEF Seen
  <2> QED
    BY <2>2, Numbers
<1>4. Received'
  BY <1>1, <1>3, Numbers DEF ROrder, Received
<1>5. Forwarded'
  BY <1>1, <1>3, Numbers DEF ROrder, Forwarded
<1>6. PassedOn'
  BY <1>1, <1>2, <1>3, Numbers DEF ROrder, PassedOn
<1> QED
  BY <1>4, <1>5, <1>6

LEMMA ROrderNext == TInv /\ TInv' /\ ROrder /\ [Next]_vars => ROrder'
<1> SUFFICES ASSUME TInv, TInv', ROrder, [Next]_vars PROVE ROrder'
  OBVIOUS
<1> USE DEF taskVars, pinVars, drvVars, srvVars, wireVars
<1>0. /\ TypeOK /\ TypeOK' /\ inq \in Seq(InMsg) /\ message \in InMsg
      /\ srvq \in Seq(ToClientMsg) /\ replies \in Seq(ToClientMsg)
      /\ mosi \in RxMsg \cup {Empty}
  BY DEF TInv, TypeOK
(* Nothing that matters moves.                                               *)
<1>1. ASSUME UNCHANGED <<isr, mosi, rxSent, master>> PROVE Clocked' /\ Seen' = Seen
  BY <1>1 DEF ROrder, Clocked, Seen, AtHand
<1>2. ASSUME UNCHANGED <<isr, mosi, rxSent, master, inq, message, replies, srvq>>,
             pc' = "to_server" => pc = "to_server"
      PROVE  ROrder'
  BY <1>0, <1>1, <1>2, SeenGrows, Numbers DEF ROrder
<1>3. CASE Submit
  <2> DEFINE m == [type |-> "from_gdb", id |-> sent + 1]
  <2>1. /\ inq' = Enqueue(inq, m, InLen)
        /\ UNCHANGED <<isr, mosi, rxSent, master, message, replies, srvq, pc>>
    BY <1>3 DEF Submit
  <2>2. m \in InMsg /\ ~FromLink(m)
    <3>1. sent + 1 \in 1..MaxTx
      <4>1. MaxTx \in Nat /\ sent \in 0..MaxTx /\ sent < MaxTx
        BY <1>0, <1>3, SpiLinkAssumption DEF Submit, TypeOK
      <4> QED
        BY <4>1
    <3> QED
      BY <3>1, SpiLinkAssumption DEF InMsg, TxMsg, FromLink
  <2> HIDE DEF m
  <2> QED
    BY <1>0, <1>1, <2>1, <2>2, OtherQueued, Numbers DEF ROrder
<1>4. CASE ServerSend
  <2>1. /\ srvq # <<>> /\ srvq' = Tail(srvq) /\ replies' = Append(replies, Head(srvq))
        /\ UNCHANGED <<isr, mosi, rxSent, master, message, inq, pc>>
    BY <1>4 DEF ServerSend
  <2>2. Passed' = Passed
    BY <1>0, <2>1, PassedSame DEF Passed
  <2> QED
    BY <1>1, <2>1, <2>2 DEF ROrder, Received, Forwarded, PassedOn
<1>5. CASE SpiReceive
  <2>1. /\ inq # <<>> /\ inq' = Tail(inq) /\ message' = Head(inq) /\ pc = "wait"
        /\ pc' = Route(Head(inq).type)
        /\ UNCHANGED <<isr, mosi, rxSent, master, replies, srvq>>
    BY <1>5 DEF SpiReceive
  <2>2. /\ 1 \in DOMAIN inq /\ message' = inq[1]
        /\ \A i \in DOMAIN inq' : i + 1 \in DOMAIN inq /\ inq'[i] = inq[i + 1] /\ 1 < i + 1
        /\ \A i, j \in DOMAIN inq' : i < j => i + 1 < j + 1
    BY <1>0, <2>1, TailHolds
  <2>3. pc' = "to_server" => FromLink(inq[1])
    <3>1. message' \in InMsg
      BY <1>0, <2>2
    <3> QED
      BY <2>1, <2>2, <3>1, RouteType, Kinds
  <2>4. Passed' = Passed /\ Clocked' /\ Seen' = Seen
    BY <1>1, <2>1 DEF Passed
  <2>5. Received'
    <3>1. \A i, j \in DOMAIN inq' : FromLink(inq'[i]) /\ FromLink(inq'[j]) /\ i < j
                                    => inq'[i].id < inq'[j].id
      BY <2>2 DEF ROrder, Received
    <3> QED
      BY <2>2, <2>4, <3>1 DEF ROrder, Received
  <2>6. Forwarded'
    BY <2>2, <2>3, <2>4 DEF ROrder, Received, Forwarded
  <2>7. PassedOn'
    BY <2>2, <2>3, <2>4 DEF ROrder, PassedOn
  <2> QED
    BY <2>4, <2>5, <2>6, <2>7 DEF ROrder
<1>6. CASE ForwardToServer
  <2> DEFINE m == [message EXCEPT !.type = "to_client"]
  <2>1. /\ pc = "to_server" /\ pc' = "wait" /\ srvq' = Append(srvq, m)
        /\ UNCHANGED <<isr, mosi, rxSent, master, message, inq, replies>>
    BY <1>6 DEF ForwardToServer
  <2>2. m \in ToClientMsg /\ m.id = message.id
    BY <1>0, <2>1 DEF TypeOK, RxMsg, ToClientMsg
  <2> HIDE DEF m
  <2>3. Passed' = Append(Passed, m) /\ Passed \in Seq(ToClientMsg)
    BY <1>0, <2>1, <2>2, PassedAppend, Numbers DEF Passed
  <2>4. /\ DOMAIN Passed' \subseteq Nat
        /\ \A i \in DOMAIN Passed' : \/ i \in DOMAIN Passed /\ Passed'[i] = Passed[i]
                                     \/ Passed'[i] = m /\ \A j \in DOMAIN Passed : j < i
    BY <2>2, <2>3
  <2>5. ASSUME NEW i \in DOMAIN Passed', NEW j \in DOMAIN Passed', i < j
        PROVE  Passed'[i].id < Passed'[j].id
    <3>1. CASE j \in DOMAIN Passed /\ Passed'[j] = Passed[j]
      <4>1. i \in DOMAIN Passed /\ Passed'[i] = Passed[i]
        BY <2>4, <2>5, <3>1
      <4> QED
        BY <2>5, <3>1, <4>1 DEF ROrder, PassedOn
    <3>2. CASE Passed'[j] = m /\ \A d \in DOMAIN Passed : d < j
      <4>1. CASE i \in DOMAIN Passed /\ Passed'[i] = Passed[i]
        BY <2>1, <2>2, <3>2, <4>1 DEF ROrder, PassedOn
      <4>2. CASE Passed'[i] = m /\ i \notin DOMAIN Passed
        <5>1. i = Len(Passed) + 1 /\ j = Len(Passed) + 1
          BY <2>3, <2>2, <3>2, <4>2
        <5> QED
          BY <2>5, <5>1, <2>3
      <4> QED
        BY <2>4, <4>1, <4>2
    <3> QED
      BY <2>4, <3>1, <3>2
  <2>6. PassedOn'
    <3>1. Seen' = Seen
      BY <1>1, <2>1
    <3> QED
      BY <2>1, <2>2, <2>4, <2>5, <3>1 DEF ROrder, PassedOn, Forwarded
  <2> QED
    BY <1>1, <2>1, <2>6 DEF ROrder, Received, Forwarded
<1>7. CASE \E m : Select(m) /\ (m # Empty => m.id = rxSent + 1)
  <2>1. PICK m : Select(m) /\ (m # Empty => m.id = rxSent + 1)
    BY <1>7
  <2>2. /\ isr = "idle" /\ master' = "selected" /\ mosi' = m
        /\ UNCHANGED <<isr, rxSent, inq, message, replies, srvq, pc>>
    BY <2>1 DEF Select
  <2>3. Clocked' /\ Seen' = Seen
    BY <2>1, <2>2 DEF Clocked, Seen, AtHand
  <2> QED
    BY <1>0, <2>2, <2>3, SeenGrows, Numbers DEF ROrder
<1>8. CASE Transfer
  <2>1. /\ master = "selected" /\ master' = "idle" /\ isr' = "pins"
        /\ rxSent' = IF mosi = Empty THEN rxSent ELSE rxSent + 1
        /\ UNCHANGED <<mosi, inq, message, replies, srvq, pc>>
    BY <1>8 DEF Transfer
  <2>2. isr = "idle" /\ (mosi # Empty => mosi.id = rxSent + 1)
    BY <2>1 DEF ROrder, Clocked
  <2>3. Clocked' /\ Seen' = Seen
    BY <1>0, <2>1, <2>2, Numbers DEF Clocked, Seen, AtHand
  <2> QED
    BY <1>0, <2>1, <2>3, SeenGrows, Numbers DEF ROrder
<1>9. CASE IsrPins \/ IsrRemove \/ GiveUp
  <2>1. /\ UNCHANGED <<mosi, rxSent, inq, message, replies, srvq, pc>>
        /\ master' = "selected" => master = "selected" /\ isr' = isr
        /\ isr' \in {"pins", "received"} => isr \in {"pins", "received"}
    BY <1>0, <1>9 DEF IsrPins, IsrRemove, GiveUp, ROrder, Clocked, TypeOK
  <2>2. Clocked'
    BY <2>1 DEF ROrder, Clocked, AtHand
  <2>3. Seen <= Seen'
    BY <1>0, <2>1, Numbers DEF Seen, AtHand
  <2> QED
    BY <1>0, <2>1, <2>2, <2>3, SeenGrows DEF ROrder
<1>10. CASE IsrReceived
  <2>1. /\ isr = "received" /\ isr' = "idle" /\ inq' = Enqueue(inq, mosi, InLen)
        /\ UNCHANGED <<mosi, rxSent, master, message, replies, srvq, pc>>
    BY <1>10 DEF IsrReceived
  <2>2. Clocked' /\ Seen' = rxSent /\ Seen <= Seen'
    BY <1>0, <2>1, Numbers DEF ROrder, Clocked, Seen, AtHand
  <2>3. CASE mosi = Empty
    BY <1>0, <2>1, <2>2, <2>3, OtherQueued, Kinds DEF ROrder
  <2>4. CASE mosi # Empty
    <3>1. Seen = rxSent - 1 /\ mosi.id = rxSent /\ mosi \in InMsg
      BY <1>0, <2>1, <2>4, Kinds DEF Seen, AtHand, ROrder, Clocked
    <3>2. /\ DOMAIN inq' \subseteq Nat
          /\ \A i \in DOMAIN inq' : \/ i \in DOMAIN inq /\ inq'[i] = inq[i]
                                    \/ i = Len(inq) + 1 /\ inq'[i] = mosi
      <4>1. DOMAIN inq' \subseteq Nat
        <5>1. inq' \in Seq(InMsg)
          BY <1>0 DEF TypeOK
        <5> QED
          BY <5>1
      <4> QED
        BY <1>0, <2>1, <3>1, <4>1, EnqueueHolds
    <3>3. \A n \in Int : n <= Seen => n < mosi.id /\ n <= Seen'
      BY <2>2, <3>1, <1>0, Numbers
    <3>4. Received'
      <4>1. \A i \in DOMAIN inq' : FromLink(inq'[i]) => inq'[i].id <= Seen'
        BY <1>0, <2>2, <3>1, <3>2, <3>3, Numbers DEF ROrder, Received
      <4>2. ASSUME NEW i \in DOMAIN inq', NEW j \in DOMAIN inq', i < j,
                   FromLink(inq'[i]), FromLink(inq'[j])
            PROVE  inq'[i].id < inq'[j].id
        <5>1. i \in DOMAIN inq /\ inq'[i] = inq[i]
          BY <1>0, <3>2, <4>2
        <5>2. CASE j \in DOMAIN inq /\ inq'[j] = inq[j]
          BY <4>2, <5>1, <5>2 DEF ROrder, Received
        <5>3. CASE inq'[j] = mosi
          BY <1>0, <3>3, <4>2, <5>1, <5>3, Numbers DEF ROrder, Received
        <5> QED
          BY <3>2, <5>2, <5>3
      <4> QED
        BY <4>1, <4>2 DEF Received
    <3>5. Forwarded'
      BY <1>0, <2>1, <3>2, <3>3, Numbers DEF ROrder, Forwarded
    <3>6. PassedOn'
      <4>1. Passed' = Passed
        BY <2>1 DEF Passed
      <4> QED
        BY <1>0, <2>1, <3>2, <3>3, <4>1, Numbers DEF ROrder, PassedOn
    <3> QED
      BY <2>2, <3>4, <3>5, <3>6 DEF ROrder
  <2> QED
    BY <2>3, <2>4
<1>11. CASE IsrCompleted
  <2>1. /\ isr = "completed" /\ isr' = "idle" /\ inq' = Enqueue(inq, Completed, InLen)
        /\ UNCHANGED <<mosi, rxSent, master, message, replies, srvq, pc>>
    BY <1>11 DEF IsrCompleted
  <2>2. Clocked' /\ Seen <= Seen'
    BY <1>0, <2>1, Numbers DEF ROrder, Clocked, Seen, AtHand
  <2> QED
    BY <1>0, <2>1, <2>2, OtherQueued, Kinds DEF ROrder
<1>12. CASE WifiReceive \/ ForwardToWifi \/ SaveSend \/ SaveCheck
  BY <1>2, <1>12 DEF WifiReceive, ForwardToWifi, SaveSend, SaveCheck
<1>13. CASE SaveCount \/ SavePeek \/ SaveAttn \/ SlaveArm \/ SlaveRetire \/ UNCHANGED vars
  BY <1>2, <1>13 DEF SaveCount, SavePeek, SaveAttn, SlaveArm, SlaveRetire, vars
<1>14. CASE SelectToRead
  BY <1>7, <1>14 DEF SelectToRead
<1>15. CASE SelectToSend
  <2>1. PICK k \in RxKinds : Select([type |-> k, id |-> rxSent + 1])
    BY <1>15 DEF SelectToSend
  <2>2. [type |-> k, id |-> rxSent + 1].id = rxSent + 1
    OBVIOUS
  <2> QED
    BY <1>7, <2>1, <2>2
<1> QED
  BY <1>3, <1>4, <1>5, <1>6, <1>8, <1>9, <1>10, <1>11, <1>12, <1>13, <1>14,
     <1>15 DEF Next, SpiTask, SlaveTask, Isr, CtxLink

(* Whatever is dropped or sent twice, packets never overtake each other in   *)
(* either direction and no packet reaches the network client twice, for all  *)
(* queue lengths, all traffic and every interleaving.                        *)
THEOREM KeepsOrder == Spec => []InOrder
<1>1. Init => NInv /\ TInv /\ TOrder /\ ROrder
  <2> SUFFICES ASSUME Init PROVE NInv /\ TInv /\ TOrder /\ ROrder
    OBVIOUS
  <2>1. TInv
    BY InitTyped
  <2>2. NInv
    BY <2>1 DEF Init, TInv, NInv, Announced, PeekFinds, InDriver
  <2>3. TOrder
    BY DEF Init, TOrder, Submitted, Waiting, Saved, Driven, Delivered, Carries
  <2>4. ROrder
    <3>1. Passed = <<>>
      BY DEF Init, Passed
    <3> QED
      BY <3>1 DEF Init, ROrder, Clocked, Received, Forwarded, PassedOn, AtHand
  <2> QED
    BY <2>1, <2>2, <2>3, <2>4
<1>2. TInv /\ TOrder /\ ROrder => InOrder
  <2> SUFFICES ASSUME TypeOK, Delivered, PassedOn PROVE InOrder
    BY DEF TInv, TOrder, ROrder
  <2>1. \A i, j \in DOMAIN replies : i < j => replies[i].id < replies[j].id
    <3>1. \A i \in DOMAIN replies : i \in DOMAIN Passed /\ Passed[i] = replies[i]
      BY DEF TypeOK, Passed
    <3> QED
      BY <3>1 DEF PassedOn
  <2> QED
    BY <2>1 DEF Delivered, InOrder
<1> DEFINE Inv == NInv /\ TInv /\ TOrder /\ ROrder
<1>3. Inv /\ [Next]_vars => Inv'
  <2>1. TInv => TypeOK
    BY DEF TInv
  <2> QED
    BY <2>1, TInvInductive, NInvInductive, TOrderNext, ROrderNext DEF TInv
<1> QED
  BY <1>1, <1>2, <1>3, PTL DEF Spec
=============================================================================
