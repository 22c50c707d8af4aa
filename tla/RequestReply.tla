---------------------------- MODULE RequestReply ----------------------------
(***************************************************************************)
(* What the adapter promises a network client that keeps one request open:  *)
(* requests reach ctxLink exactly once and in order, each is answered once, *)
(* and each answer is returned once and in order.  The adapter itself is    *)
(* invisible: no queues, pins or interrupts.                                *)
(***************************************************************************)
EXTENDS Naturals, Sequences

CONSTANT MaxTx   \* bound: requests

VARIABLES
  sent,       \* number of requests the client has sent
  delivered,  \* the requests ctxLink has received
  answered,   \* number of answers ctxLink has sent
  returned    \* the answers the client has received

vars == <<sent, delivered, answered, returned>>

Init == sent = 0 /\ delivered = <<>> /\ answered = 0 /\ returned = <<>>

Request ==
  /\ sent < MaxTx
  /\ sent = Len(returned)
  /\ sent' = sent + 1
  /\ UNCHANGED <<delivered, answered, returned>>

Deliver ==
  /\ Len(delivered) < sent
  /\ delivered' = Append(delivered, Len(delivered) + 1)
  /\ UNCHANGED <<sent, answered, returned>>

Answer ==
  /\ answered < Len(delivered)
  /\ answered' = answered + 1
  /\ UNCHANGED <<sent, delivered, returned>>

Return ==
  /\ Len(returned) < answered
  /\ returned' = Append(returned, Len(returned) + 1)
  /\ UNCHANGED <<sent, delivered, answered>>

Next == Request \/ Deliver \/ Answer \/ Return

Spec == Init /\ [][Next]_vars /\ WF_vars(Deliver) /\ WF_vars(Answer) /\ WF_vars(Return)
=============================================================================
