----------------------------- MODULE MCSpiLink -----------------------------
(***************************************************************************)
(* SpiLink for model checking, with the refinement mapping under which it   *)
(* implements RequestReply.                                                 *)
(***************************************************************************)
EXTENDS SpiLink

Ids(packets) == [i \in DOMAIN packets |-> packets[i].id]

(* With one request open at a time the SPI link is a request/reply channel:  *)
(* nothing is lost, repeated or reordered by the queues, the interrupt       *)
(* handlers or the driver, and every request is eventually answered.         *)
RR == INSTANCE RequestReply
        WITH delivered <- Ids(delivered), answered <- rxSent,
             returned <- Ids(replies)
RequestReplySpec == RR!Spec

(* What of it does not depend on fairness.                                   *)
RequestReplySafety == RR!Init /\ [][RR!Next]_(RR!vars)
=============================================================================
