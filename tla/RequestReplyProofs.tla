------------------------- MODULE RequestReplyProofs -------------------------
(***************************************************************************)
(* With one request open at a time the SPI link implements RequestReply.     *)
(*                                                                           *)
(* The argument: there is one packet, which is in one of seven places, and   *)
(* every step of task, handlers, driver or ctxLink that moves it takes it to *)
(* the next.                                                                 *)
(***************************************************************************)
EXTENDS MCSpiLink, SpiLinkProofs, SequenceTheorems

(***************************************************************************)
(* The link with one request open at a time: a client waits for its answer, *)
(* ctxLink sends answers only, and leaves the slave task the time to retire *)
(* a transaction.                                                           *)
(***************************************************************************)
OneOpen ==
  /\ Window = 1 /\ Unsolicited = 0 /\ ~BackToBack /\ RxKinds = {"to_gdb"}
  /\ InLen > 1   \* a completion and an answer may wait at once

(***************************************************************************)
(* The wire.  Nothing is ever left behind in the driver, which is busy       *)
(* exactly while ctxLink or the completion handler is.                       *)
(***************************************************************************)
Wire ==
  /\ pending = <<>>
  /\ master = "selected" => isr = "idle"
  /\ drv \in {"idle", "done"} <=> master = "idle" /\ isr = "idle"
  /\ isr # "idle" => drv = "armed"
  /\ spiReady <=> drv = "armed" /\ isr \in {"idle", "pins"}
  /\ drv \in {"queued", "armed"} => (isTx <=> trans.dir = "tx")
  /\ isr \in {"remove", "completed"} => isTx
  /\ isr = "received" => ~isTx

(***************************************************************************)
(* The one packet.  Its number is sent; in every phase everything else is at *)
(* rest but the last transaction's completion.                               *)
(***************************************************************************)
Query == [type |-> "from_gdb", id |-> sent]
Reply == [type |-> "to_gdb", id |-> sent]
ToClient == [type |-> "to_client", id |-> sent]
Returned == Len(replies)
WireIdle == master = "idle" /\ isr = "idle"

Counts(d, a) == sent = Returned + 1 /\ Len(delivered) = Returned + d /\ rxSent = Returned + a

AtRest ==
  /\ sent = Returned /\ Len(delivered) = Returned /\ rxSent = Returned
  /\ inq = <<>> /\ outq = <<>> /\ srvq = <<>> /\ pc = "wait" /\ ~attn /\ WireIdle
Asked ==
  /\ Counts(0, 0) /\ srvq = <<>> /\ ~attn /\ WireIdle
  /\ \/ inq = <<Query>> /\ outq = <<>> /\ pc = "wait"
     \/ inq = <<>> /\ outq = <<>> /\ pc = "save" /\ message = Query
     \/ inq = <<>> /\ outq = <<Query>> /\ pc \in {"count", "peek"}
     \/ inq = <<>> /\ outq = <<Query>> /\ pc = "attn" /\ saved = Query
AnnouncedToLink ==
  /\ Counts(0, 0) /\ srvq = <<>> /\ inq = <<>> /\ outq = <<Query>> /\ pc = "wait"
  /\ saved = Query /\ attn /\ isr = "idle"
  /\ master = "selected" => mosi = Empty /\ trans.dir = "tx" /\ trans.pkt = Query
Fetched ==
  /\ Counts(1, 0) /\ srvq = <<>> /\ inq = <<>> /\ pc = "wait"
  /\ isr # "idle" /\ isTx /\ (attn <=> isr = "pins") /\ trans.dir = "tx" /\ trans.pkt = Query
  /\ outq = IF isr = "completed" THEN <<>> ELSE <<Query>>
(* The completion waits for the task, is in its hands, or is done with.      *)
Confirming ==
  \/ inq = <<Completed>> /\ pc = "wait"
  \/ inq = <<>> /\ pc \in {"check", "wait"}
Due ==
  /\ Counts(1, 0) /\ srvq = <<>> /\ outq = <<>> /\ ~attn /\ Confirming /\ isr = "idle"
  /\ master = "selected" => mosi = Reply /\ trans.dir = "rx"
Answering ==
  /\ Counts(1, 1) /\ srvq = <<>> /\ outq = <<>> /\ ~attn /\ Confirming
  /\ isr # "idle" /\ ~isTx /\ mosi = Reply
Answered ==
  /\ Counts(1, 1) /\ outq = <<>> /\ ~attn /\ WireIdle
  /\ \/ srvq = <<>> /\ inq = <<Completed, Reply>> /\ pc = "wait"
     \/ srvq = <<>> /\ inq = <<Reply>> /\ pc \in {"check", "wait"}
     \/ srvq = <<>> /\ inq = <<>> /\ pc = "to_server" /\ message = Reply
     \/ srvq = <<ToClient>> /\ inq = <<>> /\ pc = "wait"

Phase == AtRest \/ Asked \/ AnnouncedToLink \/ Fetched \/ Due \/ Answering \/ Answered

(* What ctxLink and the client have received is 1, 2, 3, ... in order.       *)
Counted ==
  /\ \A i \in DOMAIN delivered : delivered[i].id = i
  /\ \A i \in DOMAIN replies : replies[i].id = i
  /\ zeroBuf = Empty
-----------------------------------------------------------------------------
(* Short queues, so that no step about them has to look into sequences.      *)
LEMMA Single ==
  ASSUME NEW x
  PROVE  /\ <<x>> # <<>> /\ Len(<<x>>) = 1 /\ Head(<<x>>) = x /\ Tail(<<x>>) = <<>>
         /\ Append(<<>>, x) = <<x>>
OBVIOUS

LEMMA Pair ==
  ASSUME NEW x, NEW y
  PROVE  /\ <<x, y>> # <<>> /\ Head(<<x, y>>) = x /\ Tail(<<x, y>>) = <<y>>
         /\ Append(<<x>>, y) = <<x, y>>
<1> DEFINE S == {x, y}
<1>1. <<x>> \in Seq(S) /\ <<y>> \in Seq(S) /\ <<x, y>> \in Seq(S)
  OBVIOUS
<1>2. <<x, y>> # <<>> /\ Head(<<x, y>>) = x
  OBVIOUS
<1>3. Append(<<x>>, y) = <<x, y>>
  <2>1. Append(<<x>>, y) \in Seq(S) /\ Len(Append(<<x>>, y)) = 2 /\ Len(<<x, y>>) = 2
    BY <1>1
  <2>2. Append(<<x>>, y)[1] = x /\ Append(<<x>>, y)[2] = y
    BY <1>1
  <2>3. \A i \in 1..2 : Append(<<x>>, y)[i] = <<x, y>>[i]
    BY <2>2
  <2> QED
    BY <1>1, <2>1, <2>3, SeqEqual
<1>4. Tail(<<x, y>>) = <<y>>
  <2>1. Tail(<<x, y>>) \in Seq(S) /\ Len(Tail(<<x, y>>)) = 1 /\ Len(<<y>>) = 1
    BY <1>1, <1>2
  <2>2. Tail(<<x, y>>)[1] = y
    BY <1>1, <1>2
  <2>3. \A i \in 1..1 : Tail(<<x, y>>)[i] = <<y>>[i]
    BY <2>2
  <2> QED
    BY <1>1, <2>1, <2>3, SeqEqual
<1> QED
  BY <1>2, <1>3, <1>4

LEMMA EnqueueFirst ==
  ASSUME NEW x, NEW len \in Nat, len > 0
  PROVE  Enqueue(<<>>, x, len) = <<x>>
BY DEF Enqueue

LEMMA EnqueueSecond ==
  ASSUME NEW x, NEW y, NEW len \in Nat, len > 1
  PROVE  Enqueue(<<x>>, y, len) = <<x, y>>
<1>1. Len(<<x>>) < len
  BY Single
<1> QED
  BY <1>1, Pair DEF Enqueue

(* The pieces of OneOpen.                                                    *)
LEMMA Lengths ==
  /\ InLen \in Nat /\ OutLen \in Nat /\ OutLen > 0 /\ SrvLen \in Nat /\ SrvLen > 0
  /\ OneOpen => InLen > 1
BY SpiLinkAssumption DEF OneOpen

(* A selection hands over a transaction of the direction ATTN says.          *)
LEMMA SelectDrives ==
  ASSUME OneOpen, Wire, NEW m, Select(m)
  PROVE  /\ WireIdle /\ drv' = "queued" /\ pending' = <<>> /\ isTx' = attn
         /\ master' = "selected" /\ mosi' = m
         /\ trans' = IF attn THEN [dir |-> "tx", pkt |-> saved] ELSE [dir |-> "rx", pkt |-> NULL]
         /\ UNCHANGED <<inq, outq, srvq, pc, message, saved, attn, spiReady, isr, zeroBuf,
                        replies, delivered, sent, rxSent>>
<1> DEFINE t == IF attn THEN [dir |-> "tx", pkt |-> saved] ELSE [dir |-> "rx", pkt |-> NULL]
<1>1. WireIdle /\ ~InFlight
  BY DEF Select, OneOpen, InFlight, Wire, WireIdle
<1>2. pending' = <<>> /\ drv' = "queued" /\ trans' = Head(<<t>>)
  BY <1>1 DEF Select, SpiSsActivated, QueueAndTrigger, Wire
<1>3. trans' = t
  BY <1>2
<1> QED
  BY <1>1, <1>2, <1>3 DEF Select, SpiSsActivated, pinVars, taskVars, srvVars

LEMMA WireNext == OneOpen /\ TypeOK /\ Wire /\ [Next]_vars => Wire'
<1> SUFFICES ASSUME OneOpen, TypeOK, Wire, [Next]_vars PROVE Wire'
  OBVIOUS
<1> USE DEF Wire, taskVars, pinVars, drvVars, srvVars, wireVars
<1>1. CASE Submit \/ ServerSend \/ WifiReceive \/ UNCHANGED vars
  BY <1>1 DEF Submit, ServerSend, WifiReceive, vars
<1>2. CASE SpiTask
  BY <1>2 DEF SpiTask, SpiReceive, ForwardToServer, ForwardToWifi, SaveSend,
     SaveCheck, SaveCount, SavePeek, SaveAttn
<1>3. CASE SlaveTask
  BY <1>3 DEF SlaveTask, SlaveArm, SlaveRetire
<1>4. CASE SelectToRead \/ SelectToSend
  <2>1. PICK m : Select(m)
    BY <1>4 DEF SelectToRead, SelectToSend
  <2>2. /\ WireIdle /\ drv' = "queued" /\ pending' = <<>> /\ isTx' = attn
        /\ master' = "selected" /\ UNCHANGED <<isr, spiReady>>
        /\ attn <=> trans'.dir = "tx"
    BY <2>1, SelectDrives
  <2> QED
    BY <2>2 DEF WireIdle
<1>5. CASE Transfer
  BY <1>5 DEF Transfer, TypeOK
<1>6. CASE GiveUp
  BY <1>6 DEF GiveUp
<1>7. CASE Isr
  BY <1>7 DEF Isr, IsrPins, IsrReceived, IsrRemove, IsrCompleted, TypeOK
<1> QED
  BY <1>1, <1>2, <1>3, <1>4, <1>5, <1>6, <1>7 DEF Next, CtxLink

(* What the kinds of packets are and what the task does with them.           *)
LEMMA Routes ==
  /\ Route("from_gdb") = "save" /\ Route("to_gdb") = "to_server"
  /\ Route("transaction_completed") = "check"
  /\ Query.type = "from_gdb" /\ Reply.type = "to_gdb" /\ Completed.type = "transaction_completed"
  /\ Query # Completed /\ Reply # Completed /\ Query # Reply
  /\ Reply # Empty /\ Query # Empty
  /\ [Reply EXCEPT !.type = "to_client"] = ToClient
BY DEF Route, Query, Reply, Completed, Empty, ToClient

LEMMA PhaseNext == OneOpen /\ TInv /\ Wire /\ Phase /\ [Next]_vars => Phase'
<1> SUFFICES ASSUME OneOpen, TInv, Wire, Phase, [Next]_vars PROVE Phase'
  OBVIOUS
<1> DEFINE Packets == <<Query, Reply, ToClient>>
<1> USE DEF taskVars, pinVars, drvVars, srvVars, wireVars, Counts, WireIdle, Confirming
<1>0. /\ sent \in Int /\ rxSent \in Int /\ Len(delivered) \in Int /\ Returned \in Int
      /\ attn \in BOOLEAN /\ isTx \in BOOLEAN
      /\ isr \in {"idle", "pins", "received", "remove", "completed"}
      /\ master \in {"idle", "selected"}
  BY SpiLinkAssumption DEF TInv, TypeOK, Returned
<1>1. CASE Submit
  <2>1. /\ sent' = sent + 1 /\ sent < Returned + 1
        /\ inq' = Enqueue(inq, Query', InLen)
        /\ UNCHANGED <<outq, pc, message, saved, attn, isr, master, srvq, replies, delivered, rxSent>>
    BY <1>1 DEF Submit, OneOpen, Returned, Query
  <2>2. AtRest
    BY <1>0, <2>1 DEF Phase, AtRest, Asked, AnnouncedToLink, Fetched, Due, Answering, Answered
  <2>3. inq' = <<Query'>>
    <3>1. inq = <<>>
      BY <2>2 DEF AtRest
    <3> QED
      BY <2>1, <3>1, EnqueueFirst, Lengths
  <2>4. Asked'
    BY <1>0, <2>1, <2>2, <2>3 DEF AtRest, Asked, Returned
  <2> QED
    BY <2>4 DEF Phase
<1>2. CASE ServerSend
  <2>1. /\ srvq # <<>> /\ srvq' = Tail(srvq) /\ replies' = Append(replies, Head(srvq))
        /\ UNCHANGED <<inq, outq, pc, message, attn, isr, master, delivered, sent, rxSent>>
    BY <1>2 DEF ServerSend
  <2>2. Answered /\ srvq = <<ToClient>> /\ inq = <<>> /\ pc = "wait"
    BY <2>1 DEF Phase, AtRest, Asked, AnnouncedToLink, Fetched, Due, Answering, Answered
  <2>3. srvq' = <<>> /\ Returned' = Returned + 1
    <3>1. replies \in Seq(ToClientMsg) /\ Head(srvq) \in ToClientMsg
      BY <2>1 DEF TInv, TypeOK
    <3> QED
      BY <2>1, <2>2, <3>1, Single DEF Returned
  <2>4. AtRest'
    BY <1>0, <2>1, <2>2, <2>3 DEF Answered, AtRest
  <2> QED
    BY <2>4 DEF Phase
(* A step of the task, of the handlers or of the driver changes no number.   *)
<1> DEFINE SameCounts == UNCHANGED <<sent, replies, delivered, rxSent>>
           SameWire == UNCHANGED <<attn, isr, isTx, master, mosi, trans>>
<1>3. ASSUME SameCounts
      PROVE  /\ Returned' = Returned /\ Query' = Query /\ Reply' = Reply /\ ToClient' = ToClient
             /\ \A d, a \in Int : Counts(d, a)' <=> Counts(d, a)
  BY <1>3 DEF Returned, Query, Reply, ToClient
<1>4. CASE SpiReceive
  <2>1. /\ pc = "wait" /\ inq # <<>> /\ inq' = Tail(inq) /\ message' = Head(inq)
        /\ pc' = Route(Head(inq).type) /\ UNCHANGED <<outq, saved, srvq>>
        /\ SameCounts /\ SameWire
    BY <1>4 DEF SpiReceive
  <2>2. CASE Asked
    <3>1. inq = <<Query>> /\ outq = <<>>
      BY <2>1, <2>2 DEF Asked
    <3>2. inq' = <<>> /\ message' = Query /\ pc' = "save"
      BY <2>1, <3>1, Single, Routes
    <3>3. Asked'
      BY <1>3, <2>1, <2>2, <3>1, <3>2 DEF Asked
    <3> QED
      BY <3>3 DEF Phase
  <2>3. CASE Due \/ Answering
    <3>1. inq = <<Completed>>
      BY <2>1, <2>3 DEF Due, Answering
    <3>2. inq' = <<>> /\ pc' = "check"
      BY <2>1, <3>1, Single, Routes
    <3>3. Due' \/ Answering'
      BY <1>3, <2>1, <2>3, <3>2 DEF Due, Answering
    <3> QED
      BY <3>3 DEF Phase
  <2>4. CASE Answered
    <3>1. srvq = <<>> /\ (inq = <<Completed, Reply>> \/ inq = <<Reply>>)
      BY <2>1, <2>4 DEF Answered
    <3>2. \/ inq' = <<Reply>> /\ pc' = "check"
          \/ inq' = <<>> /\ message' = Reply /\ pc' = "to_server"
      <4>1. CASE inq = <<Completed, Reply>>
        BY <2>1, <4>1, Pair, Routes
      <4>2. CASE inq = <<Reply>>
        BY <2>1, <4>2, Single, Routes
      <4> QED
        BY <3>1, <4>1, <4>2
    <3>3. Answered'
      BY <1>3, <2>1, <2>4, <3>1, <3>2 DEF Answered
    <3> QED
      BY <3>3 DEF Phase
  <2> QED
    BY <2>1, <2>2, <2>3, <2>4 DEF Phase, AtRest, AnnouncedToLink, Fetched
<1>5. CASE ForwardToServer
  <2>1. /\ pc = "to_server" /\ pc' = "wait" /\ UNCHANGED <<inq, outq, message, saved>>
        /\ srvq' = Append(srvq, [message EXCEPT !.type = "to_client"])
        /\ SameCounts /\ SameWire
    BY <1>5 DEF ForwardToServer
  <2>2. Answered /\ srvq = <<>> /\ inq = <<>> /\ message = Reply
    BY <2>1 DEF Phase, AtRest, Asked, AnnouncedToLink, Fetched, Due, Answering, Answered
  <2>3. srvq' = <<ToClient>>
    BY <2>1, <2>2, Single, Routes
  <2>4. Answered'
    BY <1>3, <2>1, <2>2, <2>3 DEF Answered
  <2> QED
    BY <2>4 DEF Phase
<1>6. CASE SaveSend
  <2>1. /\ pc = "save" /\ pc' = "count" /\ outq' = Enqueue(outq, message, OutLen)
        /\ UNCHANGED <<inq, message, saved, srvq>> /\ SameCounts /\ SameWire
    BY <1>6 DEF SaveSend
  <2>2. Asked /\ inq = <<>> /\ outq = <<>> /\ message = Query
    BY <2>1 DEF Phase, AtRest, Asked, AnnouncedToLink, Fetched, Due, Answering, Answered
  <2>3. outq' = <<Query>>
    BY <2>1, <2>2, EnqueueFirst, Lengths
  <2>4. Asked'
    BY <1>3, <2>1, <2>2, <2>3 DEF Asked
  <2> QED
    BY <2>4 DEF Phase
<1>7. CASE SaveCheck
  <2>1. /\ pc = "check" /\ pc' = IF outq = <<>> THEN "wait" ELSE "count"
        /\ UNCHANGED <<inq, outq, message, saved, srvq>> /\ SameCounts /\ SameWire
    BY <1>7 DEF SaveCheck
  <2>2. (Due \/ Answering \/ Answered) /\ outq = <<>>
    BY <2>1 DEF Phase, AtRest, Asked, AnnouncedToLink, Fetched, Due, Answering, Answered
  <2>3. Due' \/ Answering' \/ Answered'
    BY <1>3, <2>1, <2>2, Single DEF Due, Answering, Answered
  <2> QED
    BY <2>3 DEF Phase
<1>8. CASE SaveCount
  <2>1. /\ pc = "count" /\ pc' = IF Len(outq) > 1 THEN "wait" ELSE "peek"
        /\ UNCHANGED <<inq, outq, message, saved, srvq>> /\ SameCounts /\ SameWire
    BY <1>8 DEF SaveCount
  <2>2. Asked /\ inq = <<>> /\ outq = <<Query>>
    BY <2>1 DEF Phase, AtRest, Asked, AnnouncedToLink, Fetched, Due, Answering, Answered
  <2>3. pc' = "peek"
    BY <2>1, <2>2, Single
  <2>4. Asked'
    BY <1>3, <2>1, <2>2, <2>3 DEF Asked
  <2> QED
    BY <2>4 DEF Phase
<1>9. CASE SavePeek
  <2>1. /\ pc = "peek" /\ pc' = "attn" /\ saved' = IF outq = <<>> THEN saved ELSE Head(outq)
        /\ UNCHANGED <<inq, outq, message, srvq>> /\ SameCounts /\ SameWire
    BY <1>9 DEF SavePeek
  <2>2. Asked /\ inq = <<>> /\ outq = <<Query>>
    BY <2>1 DEF Phase, AtRest, Asked, AnnouncedToLink, Fetched, Due, Answering, Answered
  <2>3. saved' = Query
    BY <2>1, <2>2, Single
  <2>4. Asked'
    BY <1>3, <2>1, <2>2, <2>3 DEF Asked
  <2> QED
    BY <2>4 DEF Phase
<1>10. CASE SaveAttn
  <2>1. /\ pc = "attn" /\ pc' = "wait" /\ attn' = TRUE
        /\ UNCHANGED <<inq, outq, message, saved, srvq, isr, isTx, master, mosi, trans>>
        /\ SameCounts
    BY <1>10 DEF SaveAttn
  <2>2. Asked /\ inq = <<>> /\ outq = <<Query>> /\ saved = Query
    BY <2>1 DEF Phase, AtRest, Asked, AnnouncedToLink, Fetched, Due, Answering, Answered
  <2>3. AnnouncedToLink'
    BY <1>3, <2>1, <2>2 DEF Asked, AnnouncedToLink
  <2> QED
    BY <2>3 DEF Phase
<1>11. ASSUME UNCHANGED <<inq, outq, pc, message, saved, srvq>>, SameCounts, SameWire
       PROVE  Phase'
  BY <1>3, <1>11 DEF Phase, AtRest, Asked, AnnouncedToLink, Fetched, Due, Answering, Answered
<1>12. CASE SlaveArm \/ SlaveRetire \/ WifiReceive \/ UNCHANGED vars
  BY <1>11, <1>12 DEF SlaveArm, SlaveRetire, WifiReceive, vars
<1>13. CASE GiveUp \/ ForwardToWifi
  <2>1. ~GiveUp
    BY DEF GiveUp, Wire
  <2>2. ~ForwardToWifi
    BY DEF ForwardToWifi, Phase, AtRest, Asked, AnnouncedToLink, Fetched, Due, Answering, Answered
  <2> QED
    BY <1>13, <2>1, <2>2
<1>14. CASE SelectToRead
  <2>1. attn /\ Select(Empty)
    BY <1>14 DEF SelectToRead
  <2>2. AnnouncedToLink
    BY <2>1, SelectDrives DEF Phase, AtRest, Asked, Fetched, Due, Answering, Answered
  <2>3. trans'.dir = "tx" /\ trans'.pkt = Query /\ mosi' = Empty
        /\ UNCHANGED <<inq, outq, srvq, pc, message, saved, attn, isr>> /\ SameCounts
    <3>1. attn /\ saved = Query
      BY <2>2 DEF AnnouncedToLink
    <3>2. trans' = [dir |-> "tx", pkt |-> saved]
      BY <2>1, <3>1, SelectDrives
    <3> QED
      BY <2>1, <3>1, <3>2, SelectDrives
  <2>4. AnnouncedToLink'
    BY <1>3, <2>2, <2>3 DEF AnnouncedToLink
  <2> QED
    BY <2>4 DEF Phase
<1>15. CASE SelectToSend
  <2>1. rxSent < Len(delivered) /\ Select([type |-> "to_gdb", id |-> rxSent + 1])
    BY <1>0, <1>15 DEF SelectToSend, OneOpen
  <2>2. Due
    BY <1>0, <2>1, SelectDrives DEF Phase, AtRest, Asked, AnnouncedToLink, Fetched, Answering, Answered
  <2>3. [type |-> "to_gdb", id |-> rxSent + 1] = Reply
    BY <1>0, <2>2 DEF Due, Reply
  <2>4. trans'.dir = "rx" /\ mosi' = Reply
        /\ UNCHANGED <<inq, outq, srvq, pc, message, saved, attn, isr>> /\ SameCounts
    BY <2>1, <2>2, <2>3, SelectDrives DEF Due
  <2>5. Due'
    BY <1>3, <2>2, <2>4 DEF Due
  <2> QED
    BY <2>5 DEF Phase
<1>16. CASE Transfer
  <2>1. /\ master = "selected" /\ master' = "idle" /\ isr' = "pins"
        /\ rxSent' = IF mosi = Empty THEN rxSent ELSE rxSent + 1
        /\ delivered' = IF trans.dir = "tx" THEN Append(delivered, trans.pkt) ELSE delivered
        /\ UNCHANGED <<inq, outq, pc, message, saved, attn, isTx, trans, mosi, srvq, replies, sent>>
    BY <1>16 DEF Transfer
  <2>2. isr = "idle" /\ spiReady /\ (isTx <=> trans.dir = "tx")
    BY <1>16, <2>1 DEF Transfer, Wire
  <2>3. /\ Returned' = Returned /\ Query' = Query /\ Reply' = Reply
        /\ \A m : Len(Append(delivered, m)) = Len(delivered) + 1
    <3>1. delivered \in Seq(TxMsg \cup {NULL})
      BY DEF TInv, TypeOK
    <3> QED
      BY <2>1, <3>1 DEF Returned, Query, Reply
  <2>4. CASE AnnouncedToLink
    <3>1. Fetched'
      BY <1>0, <2>1, <2>2, <2>3, <2>4 DEF AnnouncedToLink, Fetched
    <3> QED
      BY <3>1 DEF Phase
  <2>5. CASE Due
    <3>1. Answering'
      BY <1>0, <2>1, <2>2, <2>3, <2>5, Routes DEF Due, Answering
    <3> QED
      BY <3>1 DEF Phase
  <2> QED
    BY <2>1, <2>2, <2>4, <2>5 DEF Phase, AtRest, Asked, Fetched, Answering, Answered
<1>17. CASE IsrPins
  <2>1. /\ isr = "pins" /\ attn' = FALSE /\ isr' = (IF isTx THEN "remove" ELSE "received")
        /\ UNCHANGED <<inq, outq, pc, message, saved, isTx, trans, mosi, srvq, master>>
        /\ SameCounts
    BY <1>17 DEF IsrPins
  <2>2. Fetched \/ Answering
    BY <2>1 DEF Phase, AtRest, Asked, AnnouncedToLink, Due, Answered
  <2>3. Fetched' \/ Answering'
    BY <1>3, <2>1, <2>2 DEF Fetched, Answering
  <2> QED
    BY <2>3 DEF Phase
<1>18. CASE IsrReceived
  <2>1. /\ isr = "received" /\ isr' = "idle" /\ inq' = Enqueue(inq, mosi, InLen)
        /\ UNCHANGED <<outq, pc, message, saved, attn, srvq, master>> /\ SameCounts
    BY <1>18 DEF IsrReceived
  <2>2. Answering
    BY <2>1 DEF Phase, AtRest, Asked, AnnouncedToLink, Fetched, Due, Answered, Wire
  <2>3. \/ inq = <<Completed>> /\ pc = "wait" /\ inq' = <<Completed, Reply>>
        \/ inq = <<>> /\ pc \in {"check", "wait"} /\ inq' = <<Reply>>
    <3>1. mosi = Reply /\ Confirming
      BY <2>2 DEF Answering
    <3>2. CASE inq = <<Completed>> /\ pc = "wait"
      BY <2>1, <3>1, <3>2, EnqueueSecond, Lengths
    <3>3. CASE inq = <<>> /\ pc \in {"check", "wait"}
      BY <2>1, <3>1, <3>3, EnqueueFirst, Lengths
    <3> QED
      BY <3>1, <3>2, <3>3
  <2>4. master = "idle"
    BY <1>0, <2>1 DEF Wire
  <2>5. Answered'
    BY <1>3, <2>1, <2>2, <2>3, <2>4 DEF Answering, Answered
  <2> QED
    BY <2>5 DEF Phase
<1>19. CASE IsrRemove
  <2>1. /\ isr = "remove" /\ isr' = "completed" /\ outq' = IF outq = <<>> THEN outq ELSE Tail(outq)
        /\ UNCHANGED <<inq, pc, message, saved, attn, srvq, master, isTx, trans, mosi>>
        /\ SameCounts
    BY <1>19 DEF IsrRemove
  <2>2. Fetched /\ outq = <<Query>>
    BY <2>1 DEF Phase, AtRest, Asked, AnnouncedToLink, Fetched, Due, Answering, Answered, Wire
  <2>3. outq' = <<>>
    BY <2>1, <2>2, Single
  <2>4. Fetched'
    BY <1>3, <2>1, <2>2, <2>3 DEF Fetched
  <2> QED
    BY <2>4 DEF Phase
<1>20. CASE IsrCompleted
  <2>1. /\ isr = "completed" /\ isr' = "idle" /\ inq' = Enqueue(inq, Completed, InLen)
        /\ UNCHANGED <<outq, pc, message, saved, attn, srvq, master>> /\ SameCounts
    BY <1>20 DEF IsrCompleted
  <2>2. Fetched /\ inq = <<>> /\ outq = <<>> /\ pc = "wait"
    BY <2>1 DEF Phase, AtRest, Asked, AnnouncedToLink, Fetched, Due, Answering, Answered, Wire
  <2>3. inq' = <<Completed>> /\ master = "idle"
    <3>1. inq' = <<Completed>>
      BY <2>1, <2>2, EnqueueFirst, Lengths
    <3> QED
      BY <1>0, <2>1, <3>1 DEF Wire
  <2>4. Due'
    BY <1>3, <2>1, <2>2, <2>3 DEF Fetched, Due
  <2> QED
    BY <2>4 DEF Phase
<1> QED
  BY <1>1, <1>2, <1>4, <1>5, <1>6, <1>7, <1>8, <1>9, <1>10, <1>12, <1>13, <1>14, <1>15,
     <1>16, <1>17, <1>18, <1>19, <1>20 DEF Next, SpiTask, SlaveTask, Isr, CtxLink

(* What has been delivered and returned stays in order, because the packet   *)
(* that moves is the one whose turn it is.                                   *)
LEMMA CountedNext == OneOpen /\ TInv /\ Wire /\ Phase /\ Counted /\ [Next]_vars => Counted'
<1> SUFFICES ASSUME OneOpen, TInv, Wire, Phase, Counted, [Next]_vars PROVE Counted'
  OBVIOUS
<1> USE DEF taskVars, pinVars, drvVars, srvVars, wireVars, Counts
<1>0. /\ delivered \in Seq(TxMsg \cup {NULL}) /\ replies \in Seq(ToClientMsg)
      /\ Returned \in Int /\ sent \in Int
  BY SpiLinkAssumption DEF TInv, TypeOK, Returned
<1>1. CASE UNCHANGED <<delivered, replies, zeroBuf>>
  BY <1>1 DEF Counted
<1>2. CASE ServerSend
  <2>1. srvq # <<>> /\ replies' = Append(replies, Head(srvq)) /\ UNCHANGED <<delivered, zeroBuf>>
    BY <1>2 DEF ServerSend
  <2>2. srvq = <<ToClient>> /\ sent = Len(replies) + 1
    BY <2>1 DEF Phase, AtRest, Asked, AnnouncedToLink, Fetched, Due, Answering, Answered, Returned
  <2>3. replies' = Append(replies, ToClient) /\ ToClient.id = Len(replies) + 1
    BY <2>1, <2>2, Single DEF ToClient
  <2>4. \A i \in DOMAIN replies' : replies'[i].id = i
    <3> HIDE DEF ToClient
    <3>1. ASSUME NEW i \in DOMAIN replies' PROVE replies'[i].id = i
      <4>1. CASE i \in DOMAIN replies
        BY <1>0, <2>3, <4>1 DEF Counted
      <4>2. CASE i = Len(replies) + 1
        BY <1>0, <2>3, <4>2
      <4> QED
        BY <1>0, <2>3, <4>1, <4>2
    <3> QED
      BY <3>1
  <2> QED
    BY <2>1, <2>4 DEF Counted
<1>3. CASE Transfer
  <2>1. /\ master = "selected" /\ UNCHANGED replies
        /\ IF trans.dir = "tx" THEN delivered' = Append(delivered, trans.pkt) /\ zeroBuf' = mosi
           ELSE UNCHANGED <<delivered, zeroBuf>>
    BY <1>3 DEF Transfer
  <2>2. CASE trans.dir = "tx"
    <3>1. mosi = Empty /\ trans.pkt = Query /\ sent = Len(delivered) + 1
      BY <1>0, <2>1, <2>2 DEF Phase, AtRest, Asked, AnnouncedToLink, Fetched, Due, Answering,
         Answered, WireIdle, Wire
    <3>2. delivered' = Append(delivered, Query) /\ Query.id = Len(delivered) + 1
      BY <2>1, <2>2, <3>1 DEF Query
    <3>3. \A i \in DOMAIN delivered' : delivered'[i].id = i
      <4> HIDE DEF Query
      <4>1. ASSUME NEW i \in DOMAIN delivered' PROVE delivered'[i].id = i
        <5>1. CASE i \in DOMAIN delivered
          BY <1>0, <3>2, <5>1 DEF Counted
        <5>2. CASE i = Len(delivered) + 1
          BY <1>0, <3>2, <5>2
        <5> QED
          BY <1>0, <3>2, <5>1, <5>2
      <4> QED
        BY <4>1
    <3> QED
      BY <2>1, <2>2, <3>1, <3>3 DEF Counted
  <2>3. CASE trans.dir # "tx"
    BY <1>1, <2>1, <2>3
  <2> QED
    BY <2>2, <2>3
<1>4. CASE Submit \/ WifiReceive \/ GiveUp \/ UNCHANGED vars
  BY <1>1, <1>4 DEF Submit, WifiReceive, GiveUp, vars
<1>5. CASE SpiTask
  BY <1>1, <1>5 DEF SpiTask, SpiReceive, ForwardToServer, ForwardToWifi, SaveSend,
     SaveCheck, SaveCount, SavePeek, SaveAttn
<1>6. CASE SlaveTask
  BY <1>1, <1>6 DEF SlaveTask, SlaveArm, SlaveRetire
<1>7. CASE SelectToRead \/ SelectToSend
  BY <1>1, <1>7, SelectDrives DEF SelectToRead, SelectToSend
<1>8. CASE Isr
  BY <1>1, <1>8 DEF Isr, IsrPins, IsrReceived, IsrRemove, IsrCompleted
<1> QED
  BY <1>2, <1>3, <1>4, <1>5, <1>6, <1>7, <1>8 DEF Next, CtxLink

RInv == TInv /\ Wire /\ Phase /\ Counted

LEMMA OneOpenInvariant == ASSUME OneOpen PROVE Spec => []RInv
<1>1. Init => RInv
  <2> SUFFICES ASSUME Init PROVE RInv
    OBVIOUS
  <2>1. Wire
    BY DEF Init, Wire
  <2>2. AtRest
    BY DEF Init, AtRest, WireIdle, Returned
  <2>3. Counted
    BY DEF Init, Counted
  <2> QED
    BY <2>1, <2>2, <2>3, InitTyped DEF RInv, Phase
<1>2. RInv /\ [Next]_vars => RInv'
  <2>1. TInv => TypeOK
    BY DEF TInv
  <2> QED
    BY <2>1, TInvInductive, WireNext, PhaseNext, CountedNext DEF RInv
<1> QED
  BY <1>1, <1>2, PTL DEF Spec
-----------------------------------------------------------------------------
(* The stand-in for a missing receive buffer stays zero: ctxLink sends        *)
(* nothing while it reads.                                                    *)
THEOREM StaysZero == ASSUME OneOpen PROVE Spec => []ZeroBufferIsZero
<1>1. RInv => ZeroBufferIsZero
  BY DEF RInv, Counted, ZeroBufferIsZero
<1> QED
  BY <1>1, OneOpenInvariant, PTL

(* A packet never waits in the output queue without having been announced to  *)
(* ctxLink once everything else is at rest.                                   *)
THEOREM NeverStalls == ASSUME OneOpen PROVE Spec => []NoStall
<1>1. RInv => NoStall
  <2> SUFFICES ASSUME RInv, Quiet, outq # <<>> PROVE attn
    BY DEF NoStall
  <2> QED
    BY Single DEF Quiet, RInv, Phase, AtRest, Asked, AnnouncedToLink, Fetched, Due, Answering, Answered
<1> QED
  BY <1>1, OneOpenInvariant, PTL

(* ATTN is released by nothing but the completion of the packet it announced. *)
THEOREM HoldsAttn == ASSUME OneOpen PROVE Spec => AttnHeld
<1>1. RInv /\ [Next]_vars => [attn /\ ~attn' => trans.dir = "tx"]_vars
  <2> SUFFICES ASSUME RInv, Next, attn, ~attn' PROVE trans.dir = "tx"
    OBVIOUS
  <2>1. isr = "pins"
    <3> USE DEF taskVars, pinVars
    <3>1. ~(Submit \/ ServerSend \/ WifiReceive)
      BY DEF Submit, ServerSend, WifiReceive
    <3>2. ~SpiTask
      BY DEF SpiTask, SpiReceive, ForwardToServer, ForwardToWifi, SaveSend,
         SaveCheck, SaveCount, SavePeek, SaveAttn
    <3>3. ~SlaveTask
      BY DEF SlaveTask, SlaveArm, SlaveRetire
    <3>4. ~CtxLink
      BY DEF CtxLink, SelectToRead, SelectToSend, Select, Transfer, GiveUp
    <3>5. ~(IsrReceived \/ IsrRemove \/ IsrCompleted)
      BY DEF IsrReceived, IsrRemove, IsrCompleted
    <3> QED
      BY <3>1, <3>2, <3>3, <3>4, <3>5 DEF Next, Isr, IsrPins
  <2>2. Fetched
    BY <2>1 DEF RInv, Phase, AtRest, Asked, AnnouncedToLink, Due, Answering, Answered, WireIdle
  <2> QED
    BY <2>2 DEF Fetched
<1> QED
  BY <1>1, OneOpenInvariant, PTL DEF Spec, AttnHeld

(* The completion handler removes from the output queue the packet that was   *)
(* transferred and no other.                                                  *)
THEOREM RemovesTheRightOne == ASSUME OneOpen PROVE Spec => RemovesCompleted
<1>1. RInv /\ [Next]_vars =>
        [isr = "remove" /\ isr' # isr /\ outq # <<>> => Head(outq) = trans.pkt]_vars
  <2> SUFFICES ASSUME RInv, isr = "remove" PROVE Head(outq) = trans.pkt
    OBVIOUS
  <2>1. isTx
    BY DEF RInv, Wire
  <2>2. outq = <<Query>> /\ trans.pkt = Query
    BY <2>1 DEF RInv, Phase, AtRest, Asked, AnnouncedToLink, Fetched, Due, Answering, Answered, WireIdle
  <2> QED
    BY <2>2, Single
<1> QED
  BY <1>1, OneOpenInvariant, PTL DEF Spec, RemovesCompleted
-----------------------------------------------------------------------------
(* The refinement mapping, step by step: only a submission, a transfer and a  *)
(* send to the client are visible.                                            *)
LEMMA StepImplements ==
  ASSUME OneOpen, RInv, [Next]_vars
  PROVE  [RR!Next]_(RR!vars)
<1> USE DEF taskVars, pinVars, drvVars, srvVars, wireVars, Counts
<1>0. /\ delivered \in Seq(TxMsg \cup {NULL}) /\ replies \in Seq(ToClientMsg)
      /\ Returned \in Int /\ sent \in Int /\ rxSent \in Int /\ Returned = Len(replies)
  BY SpiLinkAssumption DEF RInv, TInv, TypeOK, Returned
<1>1. ASSUME NEW S, NEW s \in Seq(S)
      PROVE  /\ Len(Ids(s)) = Len(s) /\ \A m : Ids(Append(s, m)) = Append(Ids(s), m.id)
  <2>1. Ids(s) = [i \in 1..Len(s) |-> s[i].id]
    BY <1>1 DEF Ids
  <2>2. Len(Ids(s)) = Len(s)
    BY <1>1, <2>1
  <2>3. ASSUME NEW m PROVE Ids(Append(s, m)) = Append(Ids(s), m.id)
    BY <1>1, <2>1 DEF Ids
  <2> QED
    BY <2>2, <2>3
<1>2. Len(Ids(delivered)) = Len(delivered) /\ Len(Ids(replies)) = Len(replies)
  BY <1>0, <1>1
<1>3. CASE UNCHANGED <<sent, delivered, rxSent, replies>>
  BY <1>3 DEF RR!vars, Ids
<1>4. CASE Submit
  <2>1. /\ sent' = sent + 1 /\ sent < MaxTx /\ sent < Len(replies) + 1
        /\ UNCHANGED <<delivered, rxSent, replies>>
    BY <1>4 DEF Submit, OneOpen
  <2>2. sent = Len(replies)
    BY <1>0, <2>1 DEF RInv, Phase, AtRest, Asked, AnnouncedToLink, Fetched, Due, Answering, Answered
  <2> QED
    BY <1>2, <2>1, <2>2 DEF RR!Next, RR!Request, Ids
<1>5. CASE ServerSend
  <2>1. /\ srvq # <<>> /\ replies' = Append(replies, Head(srvq))
        /\ UNCHANGED <<sent, delivered, rxSent>>
    BY <1>5 DEF ServerSend
  <2>2. srvq = <<ToClient>> /\ sent = Len(replies) + 1 /\ rxSent = Len(replies) + 1
    BY <1>0, <2>1 DEF RInv, Phase, AtRest, Asked, AnnouncedToLink, Fetched, Due, Answering, Answered
  <2>3. replies' = Append(replies, ToClient) /\ ToClient.id = Len(replies) + 1
    BY <2>1, <2>2, Single DEF ToClient
  <2>4. Ids(replies') = Append(Ids(replies), Len(Ids(replies)) + 1)
    BY <1>0, <1>1, <1>2, <2>3
  <2>5. Len(Ids(replies)) < rxSent
    BY <1>0, <1>2, <2>2
  <2> QED
    BY <2>1, <2>4, <2>5 DEF RR!Next, RR!Return, Ids
<1>6. CASE Transfer
  <2>1. /\ master = "selected" /\ rxSent' = (IF mosi = Empty THEN rxSent ELSE rxSent + 1)
        /\ delivered' = IF trans.dir = "tx" THEN Append(delivered, trans.pkt) ELSE delivered
        /\ UNCHANGED <<sent, replies>>
    BY <1>6 DEF Transfer
  <2>2. CASE AnnouncedToLink
    <3>1. /\ mosi = Empty /\ trans.dir = "tx" /\ trans.pkt = Query /\ Query.id = Len(delivered) + 1
          /\ Len(delivered) < sent
      BY <1>0, <2>1, <2>2 DEF AnnouncedToLink, Query
    <3>2. delivered' = Append(delivered, Query) /\ rxSent' = rxSent
      BY <2>1, <3>1
    <3>3. Ids(delivered') = Append(Ids(delivered), Len(Ids(delivered)) + 1)
      BY <1>0, <1>1, <1>2, <3>1, <3>2
    <3> QED
      BY <1>2, <2>1, <3>1, <3>2, <3>3 DEF RR!Next, RR!Deliver, Ids
  <2>3. CASE Due
    <3>1. mosi # Empty /\ trans.dir = "rx" /\ rxSent < Len(delivered)
      BY <1>0, <2>1, <2>3, Routes DEF Due
    <3>2. rxSent' = rxSent + 1 /\ delivered' = delivered
      BY <2>1, <3>1
    <3> QED
      BY <1>2, <2>1, <3>1, <3>2 DEF RR!Next, RR!Answer, Ids
  <2> QED
    BY <2>1, <2>2, <2>3 DEF RInv, Wire, Phase, AtRest, Asked, Fetched, Answering, Answered, WireIdle
<1>7. CASE WifiReceive \/ GiveUp \/ UNCHANGED vars
  BY <1>3, <1>7 DEF WifiReceive, GiveUp, vars
<1>8. CASE SpiTask
  BY <1>3, <1>8 DEF SpiTask, SpiReceive, ForwardToServer, ForwardToWifi, SaveSend,
     SaveCheck, SaveCount, SavePeek, SaveAttn
<1>9. CASE SlaveTask
  BY <1>3, <1>9 DEF SlaveTask, SlaveArm, SlaveRetire
<1>10. CASE SelectToRead \/ SelectToSend
  BY <1>3, <1>10, SelectDrives DEF SelectToRead, SelectToSend, RInv
<1>11. CASE Isr
  BY <1>3, <1>11 DEF Isr, IsrPins, IsrReceived, IsrRemove, IsrCompleted
<1> QED
  BY <1>4, <1>5, <1>6, <1>7, <1>8, <1>9, <1>10, <1>11 DEF Next, CtxLink

(* To a client that keeps one request open, the queues, pins, handlers and    *)
(* the driver are invisible: each request is delivered once, answered once    *)
(* and its answer returned once, in order.                                    *)
THEOREM Implements == ASSUME OneOpen PROVE Spec => RequestReplySafety
<1>1. Init => RR!Init
  BY DEF Init, RR!Init, Ids
<1>2. RInv /\ [Next]_vars => [RR!Next]_(RR!vars)
  BY StepImplements
<1> QED
  BY <1>1, <1>2, OneOpenInvariant, PTL DEF Spec, RequestReplySafety
=============================================================================
