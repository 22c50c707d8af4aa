------------------------ MODULE GatewaySessionProofs ------------------------
(***************************************************************************)
(* Proofs about Gateway: in one session, with one client that has one        *)
(* request open at a time, no buffer is taken that is in use, however many   *)
(* requests it makes and however long the queues are, if only the ring is    *)
(* long enough for the packets ctxLink sends before an answer.  So every     *)
(* packet stays intact, and the adapter does nothing a request/reply channel *)
(* would not do.  And if the queues are long enough too, none is lost        *)
(* (Goes, SessionLosesNothing).                                              *)
(*                                                                           *)
(* The argument: a buffer in use has an age, the number of buffers taken     *)
(* since it was, and a cost, the number that can still be taken before it    *)
(* is let go.  Their sum never exceeds Unsolicited + 6 (HoldBounds,          *)
(* WaitBounds, DoneBounds), so that a buffer that is about to be taken,      *)
(* whose age is N, is in nobody's use (SessionFree).  What can still be      *)
(* taken depends on who holds what and on what the client and ctxLink may    *)
(* still do (Places to ReplyLast).                                           *)
(***************************************************************************)
EXTENDS GatewayProofs, FiniteSetTheorems

USE GatewayAssumption, NoneAssumption

(* One session: a single client, which connects once the network is          *)
(* reported, makes at least one request, has one open at a time and leaves   *)
(* when it has its answers.  Accept and the creation of its task may fail.   *)
(* The eight buffers of the code allow for two packets before an answer.     *)
OneSession == /\ MaxConn = 1 /\ MaxReq # 0 /\ Window = 1 /\ ~EarlyClients
              /\ Polite /\ N >= Unsolicited + 6

(* A buffer's age is the number of times a buffer was taken since it was     *)
(* taken itself, itself included; at N it is the next one to be taken.       *)
Age(b) == IF b < next THEN next - b ELSE next + N - b

(* A packet is of one kind all the way, though its type changes.             *)
Kind(t) == IF t \in {"raw", "from_gdb"} THEN "request"
           ELSE IF t \in {"to_gdb", "to_client"} THEN "message" ELSE t
KindOf(e) == Kind(e.packet.type)
Kinds == {KindOf(h[3]) : h \in Holdings}

(* In the order in which they go to ctxLink.                                 *)
Forward == {"network_info", "status", "request"}
Rank(k) == IF k = "network_info" THEN 1 ELSE IF k = "status" THEN 2 ELSE 3

(* What can be where.                                                        *)
Allowed(place) ==
  IF place = "input" THEN Forward \cup {"completed", "message"}
  ELSE IF place = "output" THEN Forward
  ELSE IF place = "server_queue" THEN {"message", "command"}
  ELSE IF place \in {"spi", "server"} THEN {"message"}
  ELSE IF place = "wifi" THEN {"network_info"}
  ELSE {"request"}
Places == \A h \in Holdings : KindOf(h[3]) \in Allowed(h[1])

(* The one client task; at its end nothing is left to do but report.         *)
task == client[1]
Ending == task \in {"bye", "report", "deleted"}

(* Until the network is reported nothing happens, until the client task      *)
(* runs nothing comes from it, ...                                           *)
Beginning ==
  /\ task # "none" => wifi = "reported"
  /\ wifi = "poll" => Holdings = {}
  /\ \A h \in Holdings : h[1] = "wifi" <=> wifi = "delay"
  /\ task \in {"none", "hello"} =>
       (unread \/ sent = 0) /\ Len(delivered) = 0 /\ Kinds \cap {"status", "request"} = {}

(* ... a client leaves when it has its answers, and leaves nothing behind,   *)
(* ...                                                                       *)
Closing ==
  /\ Ending => peer = "left"
  /\ peer = "left" => sent = Len(returned) /\ sent >= 1
  /\ peer = "connected" => conns = 1
  /\ task \in {"bye", "report"} => Kinds \subseteq {"command"}
  /\ task = "deleted" => Kinds \subseteq {"command", "status", "completed"}
  /\ "command" \in Kinds => Ending

(* ... and ctxLink has something to say only between request and answer.     *)
Delivering ==
  /\ trans.dir = "rx" => CanAnswer
  /\ Len(delivered) = 0 => "message" \notin Kinds
  /\ Len(delivered) >= 1 => /\ "network_info" \notin Kinds
                            /\ "status" \in Kinds => task = "deleted"
  /\ Len(returned) >= 1 /\ Len(returned) = Len(delivered) /\ ~Ending
       => Kinds \subseteq {"request"}

(* Network report, status and request go to ctxLink in this order.           *)
Ordered(q) == \A i, j \in DOMAIN q :
  i < j /\ KindOf(q[i]) \in Forward /\ KindOf(q[j]) \in Forward
    => Rank(KindOf(q[i])) < Rank(KindOf(q[j]))
Follow(p, q) == \A i \in DOMAIN p, j \in DOMAIN q :
  KindOf(p[i]) \in Forward /\ KindOf(q[j]) \in Forward
    => Rank(KindOf(p[i])) < Rank(KindOf(q[j]))
Framed(q) == \A i \in DOMAIN q : q[i].packet.type # "raw"
ForwardOrder == /\ Ordered(spi_comms_input_queue) /\ Ordered(spi_comms_output_queue)
                /\ Follow(spi_comms_output_queue, spi_comms_input_queue)
                /\ Framed(spi_comms_output_queue)

(* The answer is the last packet ctxLink sends for a request, and stays the  *)
(* last on its way.                                                          *)
AtEnd(q) == \A i \in DOMAIN q : IsReply(q[i].packet) => i = Len(q)
ReplyLast ==
  /\ AtEnd(spi_comms_input_queue) /\ AtEnd(server_queue)
  /\ \A h \in Holdings : IsReply(h[3].packet) /\ h[1] # "input" => spi_comms_input_queue = <<>>
  /\ \A h \in Holdings : IsReply(h[3].packet) /\ h[1] \in {"server_queue", "server"} => spiMessage = NONE
  /\ \A h \in Holdings : IsReply(h[3].packet) /\ h[1] = "server" => server_queue = <<>>

(* The buffers still to be taken: by the client task for this request or for *)
(* its reports, for the completions of the network report and the status,    *)
(* and for what comes until the open request is answered.                    *)
Bit(P) == IF P THEN 1 ELSE 0
Posted == sent > Len(returned) /\ ~unread /\ task \notin {"package", "post"}
ClientWill == IF task \in {"none", "hello"} THEN 3
              ELSE IF task = "bye" THEN 2
              ELSE IF task = "report" THEN 1
              ELSE IF task = "deleted" THEN 0
              ELSE Bit(task = "take") + Bit(~Posted)
InfoLeft == Bit(wifi = "poll" \/ "network_info" \in Kinds)
StatusLeft == Bit(task \in {"none", "hello", "bye", "report"} \/ "status" \in Kinds)
Coming == IF "request" \in Kinds THEN Unsolicited + 2
          ELSE IF CanAnswer THEN Unsolicited + 1 - extra - Bit(trans.dir = "rx") ELSE 0
Others == ClientWill + InfoLeft + StatusLeft

(* ... while a packet of this kind is held.                                  *)
Cost(k) == IF k = "network_info" THEN ClientWill
           ELSE IF k = "status" THEN ClientWill + InfoLeft
           ELSE IF k = "request" THEN Others
           ELSE Others + Coming + 1

(* A completion is passed on before a request behind it.                     *)
After(q, i) == \E m \in DOMAIN q : m > i /\ KindOf(q[m]) = "request"
Behind(i) == Sending # {} \/ After(spi_comms_input_queue, i)

(* Age and cost of what is held, of the buffers that wait to be filled, and  *)
(* of completions.                                                           *)
HoldBounds == \A h \in Holdings : KindOf(h[3]) # "completed"
                => Age(h[3].buf) + Cost(KindOf(h[3])) <= Unsolicited + 6
WaitCost(r) == Cost(IF r[1] = 0 \/ Posted THEN "message" ELSE "request")
WaitBounds == \A r \in Reserved : Age(r[2]) + WaitCost(r) <= Unsolicited + 6
DoneCost(i) == Others + 1 + (IF Behind(i) THEN 0 ELSE Coming)
DoneBounds == \A i \in DOMAIN spi_comms_input_queue, b \in Buffers :
  spi_comms_input_queue[i].buf = b /\ KindOf(spi_comms_input_queue[i]) = "completed"
    => Age(b) + DoneCost(i) <= Unsolicited + 6

Session == /\ RingInv /\ NotStarted /\ Tokens
           /\ Places /\ Beginning /\ Closing /\ Delivering /\ ForwardOrder /\ ReplyLast
           /\ HoldBounds /\ WaitBounds /\ DoneBounds
-----------------------------------------------------------------------------
(* The places and what is there.                                             *)
WhereHeld ==
  /\ \A i \in DOMAIN spi_comms_input_queue :
       \E h \in Holdings : h[1] = "input" /\ h[3] = spi_comms_input_queue[i]
  /\ \A i \in DOMAIN spi_comms_output_queue :
       \E h \in Holdings : h[1] = "output" /\ h[3] = spi_comms_output_queue[i]
  /\ \A i \in DOMAIN server_queue :
       \E h \in Holdings : h[1] = "server_queue" /\ h[3] = server_queue[i]
  /\ spiMessage # NONE => \E h \in Holdings : h[1] = "spi" /\ h[3] = spiMessage
  /\ serverMessage # NONE => \E h \in Holdings : h[1] = "server" /\ h[3] = serverMessage
  /\ wifiEntry # NONE => \E h \in Holdings : h[1] = "wifi" /\ h[3] = wifiEntry
  /\ \A k \in Sending : \E h \in Holdings : h[1] = "client" /\ h[3] = clientEntry[k]

WhatHeld == \A h \in Holdings :
  \/ h[1] = "input" /\ \E i \in DOMAIN spi_comms_input_queue : h[3] = spi_comms_input_queue[i]
  \/ h[1] = "output" /\ \E i \in DOMAIN spi_comms_output_queue : h[3] = spi_comms_output_queue[i]
  \/ h[1] = "server_queue" /\ \E i \in DOMAIN server_queue : h[3] = server_queue[i]
  \/ h[1] = "spi" /\ h[3] = spiMessage /\ spiMessage # NONE
  \/ h[1] = "server" /\ h[3] = serverMessage /\ serverMessage # NONE
  \/ h[1] = "wifi" /\ h[3] = wifiEntry /\ wifiEntry # NONE
  \/ h[1] = "client" /\ \E k \in Sending : h[3] = clientEntry[k]

LEMMA IsHeld == WhereHeld
  <1>1. ASSUME NEW place, NEW q, NEW i \in DOMAIN q
        PROVE  \E h \in InQueue(place, q) : h[1] = place /\ h[3] = q[i]
    <2> DEFINE h == <<place, 0, q[i]>>
    <2>1. h \in InQueue(place, q) /\ h[1] = place /\ h[3] = q[i]
      BY DEF InQueue, Members
    <2> HIDE DEF h
    <2> QED BY <2>1
  <1>2. ASSUME NEW place, NEW e, e # NONE
        PROVE  \E h \in InHand(place, e) : h[1] = place /\ h[3] = e
    <2> DEFINE h == <<place, 0, e>>
    <2>1. h \in InHand(place, e) /\ h[1] = place /\ h[3] = e
      BY <1>2 DEF InHand
    <2> HIDE DEF h
    <2> QED BY <2>1
  <1>3. ASSUME NEW k \in Sending
        PROVE  \E h \in ClientHolds : h[1] = "client" /\ h[3] = clientEntry[k]
    <2> DEFINE h == <<"client", k, clientEntry[k]>>
    <2>1. h \in ClientHolds /\ h[1] = "client" /\ h[3] = clientEntry[k]
      BY DEF ClientHolds
    <2> HIDE DEF h
    <2> QED BY <2>1
  <1> QED
    BY <1>1, <1>2, <1>3 DEF WhereHeld, Holdings, InputHolds, OutputHolds, ServerQueueHolds,
                            SpiHolds, ServerHolds, WifiHolds

LEMMA HeldIs == WhatHeld
  <1>1. ASSUME NEW place, NEW q, NEW h \in InQueue(place, q)
        PROVE  h[1] = place /\ \E i \in DOMAIN q : h[3] = q[i]
    BY DEF InQueue, Members
  <1>2. ASSUME NEW place, NEW e, NEW h \in InHand(place, e)
        PROVE  h[1] = place /\ h[3] = e /\ e # NONE
    BY DEF InHand
  <1>3. ASSUME NEW h \in ClientHolds
        PROVE  h[1] = "client" /\ \E k \in Sending : h[3] = clientEntry[k]
    BY DEF ClientHolds
  <1> QED
    BY <1>1, <1>2, <1>3 DEF WhatHeld, Holdings, InputHolds, OutputHolds, ServerQueueHolds,
                            SpiHolds, ServerHolds, WifiHolds

LEMMA HeldNext == WhereHeld' /\ WhatHeld'
  BY IsHeld, HeldIs, PTL
-----------------------------------------------------------------------------
LEMMA AgeTyped ==
  ASSUME next \in Buffers, NEW b \in Buffers
  PROVE  Age(b) \in 1..N
  BY DEF Buffers, Age

LEMMA AgeTake ==
  ASSUME next \in Buffers, NEW b \in Buffers, Take
  PROVE  /\ b # next => Age(b)' = Age(b) + 1
         /\ b = next => Age(b)' = 1
  <1>1. next \in 0..N - 1 /\ b \in 0..N - 1 /\ N \in Nat
    BY DEF Buffers
  <1>2. next' = IF next = N - 1 THEN 0 ELSE next + 1
    BY <1>1 DEF Take
  <1> QED BY <1>1, <1>2 DEF Age

LEMMA Young ==
  ASSUME next \in Buffers, NEW b, Age(b) < N
  PROVE  b # next
  BY DEF Buffers, Age

LEMMA KindsKnown ==
  ASSUME NEW k \in Forward \cup {"completed", "message", "command"}
  PROVE  k \in {"network_info", "status", "request", "completed", "message", "command"}
  BY DEF Forward

(* What a step does to the kinds of packets that are held, and that they     *)
(* stay in their places.                                                     *)
LEMMA FreesKinds ==
  ASSUME Places, Frees
  PROVE  Places' /\ Kinds' \subseteq Kinds
  BY DEF Places, Frees, Kinds, KindOf

LEMMA LosesKinds ==
  ASSUME Places, NEW from, NEW e, Loses(from, e)
  PROVE  Places' /\ Kinds' \subseteq Kinds /\ KindOf(e) \in Kinds /\ KindOf(e) \in Allowed(from)
  BY DEF Places, Loses, Kinds, KindOf

LEMMA GainsKinds ==
  ASSUME Places, NEW to, NEW f, Gains(to, f), KindOf(f) \in Allowed(to)
  PROVE  Places' /\ Kinds' \subseteq Kinds \cup {KindOf(f)}
  BY DEF Places, Gains, Kinds, KindOf

LEMMA MovesKinds ==
  ASSUME Places, NEW from, NEW e, NEW to, NEW f, Moves(from, e, to, f),
         KindOf(f) \in Allowed(to)
  PROVE  /\ Places' /\ Kinds' \subseteq Kinds \cup {KindOf(f)}
         /\ KindOf(e) \in Kinds /\ KindOf(e) \in Allowed(from)
  BY DEF Places, Moves, Kinds, KindOf

LEMMA HeldKinds ==
  ASSUME Places
  PROVE  /\ \A i \in DOMAIN spi_comms_input_queue :
              /\ KindOf(spi_comms_input_queue[i]) \in Kinds
              /\ KindOf(spi_comms_input_queue[i]) \in Allowed("input")
         /\ \A i \in DOMAIN spi_comms_output_queue :
              /\ KindOf(spi_comms_output_queue[i]) \in Kinds
              /\ KindOf(spi_comms_output_queue[i]) \in Allowed("output")
         /\ \A i \in DOMAIN server_queue :
              /\ KindOf(server_queue[i]) \in Kinds
              /\ KindOf(server_queue[i]) \in Allowed("server_queue")
         /\ spiMessage # NONE =>
              /\ KindOf(spiMessage) \in Kinds
              /\ KindOf(spiMessage) \in Allowed("spi")
         /\ serverMessage # NONE =>
              /\ KindOf(serverMessage) \in Kinds
              /\ KindOf(serverMessage) \in Allowed("server")
         /\ wifiEntry # NONE =>
              /\ KindOf(wifiEntry) \in Kinds
              /\ KindOf(wifiEntry) \in Allowed("wifi")
         /\ \A k \in Sending :
              /\ KindOf(clientEntry[k]) \in Kinds
              /\ KindOf(clientEntry[k]) \in Allowed("client")
  BY IsHeld DEF WhereHeld, Places, Kinds

(* The kinds of what is built, and of a packet whose type is changed.        *)
LEMMA NewKinds ==
  ASSUME NEW t, NEW i
  PROVE  /\ KindOf(Built(Packet(t, i))) = Kind(t)
         /\ \A b : KindOf(Entry(b, Packet(t, i))) = Kind(t)
  BY DEF KindOf, Built, Entry, Packet

LEMMA RetypedKind ==
  ASSUME NEW e \in Entries, NEW t
  PROVE  /\ KindOf([e EXCEPT !.packet.type = t]) = Kind(t)
         /\ [e EXCEPT !.packet.type = t].buf = e.buf
         /\ [e EXCEPT !.packet.type = t].packet.id = e.packet.id
  BY DEF KindOf, Entries, Packets

LEMMA RequestKind ==
  ASSUME NEW p \in Packets
  PROVE  /\ IsRequest(p) <=> Kind(p.type) = "request"
         /\ IsReply(p) <=> Kind(p.type) = "message" /\ p.id # 0
  <1>1. p.type \in Types
    BY DEF Packets
  <1> QED BY <1>1 DEF IsRequest, IsReply, Kind, Types

LEMMA RequestHeld ==
  ASSUME GInv
  PROVE  /\ "request" \in Kinds <=> \E h \in Holdings : IsRequest(h[3].packet)
         /\ \A h \in Holdings : IsReply(h[3].packet) => KindOf(h[3]) = "message"
         /\ \A h \in Holdings : IsRequest(h[3].packet) <=> KindOf(h[3]) = "request"
  BY HoldingsTyped, RequestKind DEF Kinds, KindOf

(* There is one client task.                                                 *)
LEMMA OneTask ==
  ASSUME MaxConn = 1, GInv
  PROVE  /\ Conns = {1}
         /\ task \in {"none", "hello", "take", "read", "package", "post", "bye", "report",
                      "deleted"}
         /\ Sending # {} <=> task \in {"package", "post"}
         /\ Reading # {} <=> task = "read"
  <1>1. Conns = {1}
    BY DEF Conns
  <1> QED BY <1>1 DEF GInv, TypeOK, Sending, Reading, task

(* The counters when a request is not with ctxLink yet.                      *)
LEMMA OneOpen ==
  ASSUME GInv, Tokens, sent = Len(delivered) + 1
  PROVE  Len(returned) = Len(delivered) /\ ~CanAnswer /\ sent > Len(returned)
  <1>1. /\ Len(returned) <= answered /\ answered <= Len(delivered)
        /\ Len(delivered) <= sent /\ sent <= Len(returned) + 1
    BY DEF Tokens, Counters
  <1>2. Len(delivered) \in Nat /\ Len(returned) \in Nat /\ sent \in Nat /\ answered \in Nat
    BY CountersTyped
  <1> QED BY <1>1, <1>2 DEF CanAnswer

(* A request on its way to ctxLink, ...                                      *)
LEMMA OnTheWay ==
  ASSUME MaxConn = 1, Session, "request" \in Kinds
  PROVE  /\ sent = Len(delivered) + 1 /\ Len(returned) = Len(delivered) /\ ~unread
         /\ ~CanAnswer /\ trans.dir # "rx" /\ sent > Len(returned)
         /\ "message" \notin Kinds /\ "command" \notin Kinds
         /\ ~Ending /\ task \in {"take", "read", "package", "post"}
  <1>0. GInv /\ Tokens /\ Beginning /\ Closing /\ Delivering
    BY DEF Session, RingInv
  <1>1. /\ sent = Len(delivered) + 1 /\ ~unread
    BY <1>0, RequestHeld DEF Tokens, Requests
  <1>2. Len(returned) = Len(delivered) /\ ~CanAnswer /\ sent > Len(returned)
    BY <1>0, <1>1, OneOpen
  <1>3. ~Ending
    BY <1>0, <1>2, CountersTyped DEF Closing
  <1>4. task \in {"take", "read", "package", "post"}
    BY <1>0, <1>3, OneTask DEF Beginning, Ending
  <1>5. "message" \notin Kinds
    BY <1>0, <1>2, <1>3, CountersTyped DEF Delivering
  <1> QED BY <1>0, <1>1, <1>2, <1>3, <1>4, <1>5 DEF Delivering, Closing

(* ... a request that ctxLink has, ...                                       *)
LEMMA WithCtxLink ==
  ASSUME MaxConn = 1, Session, sent = Len(delivered), sent > Len(returned)
  PROVE  /\ "request" \notin Kinds /\ ~unread /\ Len(delivered) >= 1
         /\ "network_info" \notin Kinds /\ "status" \notin Kinds /\ "command" \notin Kinds
         /\ ~Ending /\ task \in {"take", "read"} /\ Posted
  <1>0. GInv /\ Tokens /\ Beginning /\ Closing /\ Delivering
    BY DEF Session, RingInv
  <1>1. "request" \notin Kinds /\ ~unread
    BY <1>0, RequestHeld, CountersTyped DEF Tokens, Requests
  <1>2. Len(delivered) >= 1
    BY <1>0, CountersTyped
  <1>3. ~Ending
    BY <1>0, CountersTyped DEF Closing
  <1>4. task \notin {"package", "post"}
    BY <1>0, <1>1, OneTask, RequestHeld, IsHeld DEF Tokens, ByPlace, WhereHeld
  <1>5. task \in {"take", "read"}
    BY <1>0, <1>2, <1>3, <1>4, OneTask, CountersTyped DEF Beginning, Ending
  <1> QED
    BY <1>0, <1>1, <1>2, <1>3, <1>4, <1>5 DEF Closing, Delivering, Ending, Posted

LEMMA CanAnswerMeans ==
  ASSUME GInv, Tokens, CanAnswer
  PROVE  /\ sent = Len(delivered) /\ sent > Len(returned) /\ answered = Len(returned)
         /\ answered + 1 = Len(delivered)
  BY CountersTyped DEF Tokens, Counters, CanAnswer

LEMMA ReplyMeans ==
  ASSUME GInv, Tokens, NEW h \in Holdings, IsReply(h[3].packet)
  PROVE  /\ sent = Len(delivered) /\ sent > Len(returned) /\ ~CanAnswer
         /\ answered = Len(returned) + 1 /\ answered = Len(delivered)
  BY CountersTyped DEF Tokens, Counters, Replies, CanAnswer

(* ... a request in the socket, ...                                          *)
LEMMA InTheSocket ==
  ASSUME MaxConn = 1, Session, unread
  PROVE  /\ sent = Len(delivered) + 1 /\ Len(returned) = Len(delivered)
         /\ ~CanAnswer /\ trans.dir # "rx" /\ ~Ending
         /\ "request" \notin Kinds /\ "message" \notin Kinds /\ "command" \notin Kinds
         /\ Len(delivered) >= 1 => Kinds = {}
  <1>0. GInv /\ Tokens /\ Beginning /\ Closing /\ Delivering
    BY DEF Session, RingInv
  <1>1. sent = Len(delivered) + 1 /\ "request" \notin Kinds
    BY <1>0, RequestHeld DEF Tokens, Requests
  <1>2. Len(returned) = Len(delivered) /\ ~CanAnswer /\ sent > Len(returned)
    BY <1>0, <1>1, OneOpen
  <1>3. ~Ending
    BY <1>0, <1>2, CountersTyped DEF Closing
  <1>4. Len(delivered) >= 1 => Kinds = {}
    <2>1. Len(delivered) >= 1 => Kinds \subseteq {"request"}
      BY <1>0, <1>2, <1>3, CountersTyped DEF Delivering
    <2> QED BY <1>1, <2>1
  <1>5. "message" \notin Kinds
    <2>1. Len(delivered) = 0 \/ Len(delivered) >= 1
      BY <1>0, CountersTyped
    <2> QED BY <1>0, <1>4, <2>1 DEF Delivering
  <1>6. trans.dir # "rx" /\ "command" \notin Kinds
    BY <1>0, <1>2, <1>3 DEF Delivering, Closing
  <1> QED BY <1>1, <1>2, <1>3, <1>4, <1>5, <1>6

(* ... and none.                                                             *)
LEMMA AtRest ==
  ASSUME MaxConn = 1, Session, sent = Len(returned)
  PROVE  /\ ~unread /\ ~CanAnswer /\ trans.dir # "rx" /\ "request" \notin Kinds
         /\ Len(delivered) = sent /\ ~Posted
         /\ sent >= 1 /\ ~Ending => Holdings = {}
  <1>0. GInv /\ Tokens /\ Beginning /\ Closing /\ Delivering
    BY DEF Session, RingInv
  <1>1. Len(delivered) = sent /\ ~CanAnswer
    BY <1>0, CountersTyped DEF Tokens, Counters, CanAnswer
  <1>2. ~unread /\ "request" \notin Kinds
    BY <1>0, <1>1, RequestHeld, CountersTyped DEF Tokens, Requests
  <1>3. sent >= 1 /\ ~Ending => Kinds = {}
    BY <1>0, <1>1, <1>2 DEF Delivering
  <1>4. Kinds = {} => Holdings = {}
    BY DEF Kinds
  <1> QED BY <1>0, <1>1, <1>2, <1>3, <1>4, CountersTyped DEF Delivering, Posted
-----------------------------------------------------------------------------
(* What is to come, in buffers.                                              *)
Numbers == /\ ClientWill \in 0..3 /\ InfoLeft \in 0..1 /\ StatusLeft \in 0..1
           /\ Coming \in 0..Unsolicited + 2 /\ Others \in 0..5
           /\ \A k : Cost(k) \in Nat

LEMMA NumbersTyped == GInv => Numbers
  <1> SUFFICES ASSUME GInv PROVE Numbers
    OBVIOUS
  <1>0. \A P : Bit(P) \in 0..1
    BY DEF Bit
  <1>1. ClientWill \in 0..3
    BY <1>0 DEF ClientWill
  <1>2. InfoLeft \in 0..1 /\ StatusLeft \in 0..1
    BY <1>0 DEF InfoLeft, StatusLeft
  <1>3. Coming \in 0..Unsolicited + 2
    <2>1. extra \in Nat /\ extra <= Unsolicited /\ Unsolicited \in Nat
      BY DEF GInv, TypeOK
    <2>2. Bit(trans.dir = "rx") \in 0..1
      BY <1>0
    <2>3. CASE "request" \in Kinds
      BY <2>1, <2>3 DEF Coming
    <2>4. CASE "request" \notin Kinds /\ CanAnswer
      <3> DEFINE n == Bit(trans.dir = "rx")
      <3>1. Coming = Unsolicited + 1 - extra - n /\ n \in 0..1
        BY <2>2, <2>4 DEF Coming
      <3> HIDE DEF n
      <3> QED BY <2>1, <3>1
    <2>5. CASE "request" \notin Kinds /\ ~CanAnswer
      BY <2>1, <2>5 DEF Coming
    <2> QED BY <2>3, <2>4, <2>5
  <1>4. Others \in 0..5
    BY <1>1, <1>2 DEF Others
  <1> QED
    BY <1>1, <1>2, <1>3, <1>4 DEF Numbers, Cost

LEMMA NumbersNext == GInv' => Numbers'
  BY NumbersTyped, PTL

LEMMA ReservedTyped ==
  GInv => /\ \A r \in ToReceive : r[1] = 0 /\ r[2] \in Buffers
          /\ \A r \in ToRead : r[1] # 0 /\ r[2] \in Buffers
          /\ \A r \in Reserved : r[2] \in Buffers
  <1> SUFFICES ASSUME GInv
               PROVE  /\ \A r \in ToReceive : r[1] = 0 /\ r[2] \in Buffers
                      /\ \A r \in ToRead : r[1] # 0 /\ r[2] \in Buffers
    BY DEF Reserved
  <1>1. \A r \in ToReceive : r[1] = 0 /\ r[2] \in Buffers
    BY DEF ToReceive, GInv, TypeOK
  <1>2. ASSUME NEW r \in ToRead
        PROVE  r[1] # 0 /\ r[2] \in Buffers
    <2>1. PICK k \in Reading : r = <<k, clientEntry[k].buf>>
      BY <1>2 DEF ToRead
    <2>2. k # 0 /\ clientEntry[k] \in Entries
      BY <2>1 DEF Reading, Conns, GInv, Pointers
    <2>3. r[1] = k /\ r[2] = clientEntry[k].buf
      BY <2>1
    <2> QED BY <2>2, <2>3, EntryParts
  <1> QED BY <1>1, <1>2

(* Nobody takes a buffer as long as each packet on its way to ctxLink has    *)
(* to make room for one more.                                                *)
LEMMA NotNext ==
  ASSUME OneSession, Session, NEW b \in InUse,
         \A h \in Holdings : h[3].buf = b /\ KindOf(h[3]) \in Forward => Cost(KindOf(h[3])) >= 1
  PROVE  b # next
  <1>0. GInv /\ next \in Buffers /\ Unsolicited \in Nat /\ N \in Nat /\ N >= Unsolicited + 6
    BY DEF OneSession, Session, RingInv, GInv, TypeOK
  <1>1. Numbers
    BY <1>0, NumbersTyped
  <1>2. ASSUME b \in Buffers, NEW n \in Nat, n >= 1, Age(b) + n <= Unsolicited + 6
        PROVE  b # next
    BY <1>0, <1>2, AgeTyped, Young
  <1>3. CASE \E h \in Holdings : h[3].buf = b
    <2>1. PICK h \in Holdings : h[3].buf = b
      BY <1>3
    <2>2. b \in Buffers
      BY <1>0, <2>1, HoldingsTyped
    <2>3. CASE KindOf(h[3]) # "completed"
      <3>1. Cost(KindOf(h[3])) >= 1
        BY <1>1, <2>1 DEF Numbers, Cost, Forward
      <3>2. Age(b) + Cost(KindOf(h[3])) <= Unsolicited + 6
        BY <2>1, <2>3 DEF Session, HoldBounds
      <3> QED BY <1>1, <1>2, <2>2, <3>1, <3>2 DEF Numbers
    <2>4. CASE KindOf(h[3]) = "completed"
      <3>1. h[1] = "input"
        BY <2>1, <2>4 DEF Session, Places, Allowed, Forward
      <3>2. PICK i \in DOMAIN spi_comms_input_queue : h[3] = spi_comms_input_queue[i]
        BY <2>1, <3>1, HeldIs DEF WhatHeld
      <3>3. DoneCost(i) \in Nat /\ DoneCost(i) >= 1
        BY <1>1 DEF Numbers, DoneCost
      <3>4. Age(b) + DoneCost(i) <= Unsolicited + 6
        BY <2>1, <2>2, <2>4, <3>2 DEF Session, DoneBounds
      <3> QED BY <1>2, <2>2, <3>3, <3>4
    <2> QED BY <2>3, <2>4
  <1>4. CASE \E r \in Reserved : r[2] = b
    <2>1. PICK r \in Reserved : r[2] = b
      BY <1>4
    <2>2. b \in Buffers /\ Age(b) + WaitCost(r) <= Unsolicited + 6
      BY <1>0, <2>1, ReservedTyped DEF Session, WaitBounds
    <2>3. WaitCost(r) >= 1
      <3>1. CASE r[1] = 0 \/ Posted
        BY <1>1, <3>1 DEF Numbers, WaitCost, Cost
      <3>2. CASE r[1] # 0 /\ ~Posted
        <4>1. task = "read"
          <5>1. r \in ToRead
            BY <1>0, <2>1, <3>2, ReservedTyped DEF Reserved
          <5> QED BY <1>0, <5>1, OneTask DEF ToRead, OneSession
        <4>2. ClientWill = 1
          BY <3>2, <4>1 DEF ClientWill, Bit
        <4> QED BY <1>1, <3>2, <4>2 DEF Numbers, WaitCost, Cost, Others
      <3> QED BY <3>1, <3>2
    <2>4. WaitCost(r) \in Nat
      BY <1>1 DEF Numbers, WaitCost
    <2> QED BY <1>2, <2>2, <2>3, <2>4
  <1> QED BY <1>3, <1>4, Used

(* What ctxLink is sent goes before all other packets for it.                *)
HeadOut == Head(spi_comms_output_queue)

LEMMA HeadFirst ==
  ASSUME OneSession, Session, spi_comms_output_queue # <<>>
  PROVE  /\ KindOf(HeadOut) \in Forward /\ KindOf(HeadOut) \in Kinds
         /\ wifi = "reported" /\ HeadOut \in Entries
         /\ \E g \in Holdings : g[1] = "output" /\ g[3] = HeadOut
         /\ \A h \in Holdings : KindOf(h[3]) \in Forward /\ ~(h[1] = "output" /\ h[3] = HeadOut)
              => Rank(KindOf(h[3])) > Rank(KindOf(HeadOut))
  <1>0. GInv /\ Places /\ Beginning /\ ForwardOrder /\ Tokens
    BY DEF Session, RingInv
  <1>1. /\ spi_comms_output_queue \in Seq(Entries) /\ Len(spi_comms_output_queue) \in Nat
        /\ DOMAIN spi_comms_output_queue = 1..Len(spi_comms_output_queue)
        /\ 1 \in DOMAIN spi_comms_output_queue /\ HeadOut = spi_comms_output_queue[1]
        /\ HeadOut \in Entries
    BY <1>0 DEF GInv, TypeOK, HeadOut
  <1>2. PICK g \in Holdings : g[1] = "output" /\ g[3] = HeadOut
    BY <1>1, IsHeld DEF WhereHeld
  <1>3. KindOf(HeadOut) \in Forward /\ KindOf(HeadOut) \in Kinds
    BY <1>0, <1>1, HeldKinds DEF Allowed
  <1>4. wifi = "reported"
    BY <1>0, <1>2 DEF Beginning, GInv, TypeOK
  <1>5. ASSUME NEW h \in Holdings, KindOf(h[3]) \in Forward, ~(h[1] = "output" /\ h[3] = HeadOut)
        PROVE  Rank(KindOf(h[3])) > Rank(KindOf(HeadOut))
    <2>1. h[1] \notin {"server_queue", "spi", "server", "wifi"}
      BY <1>0, <1>4, <1>5 DEF Places, Allowed, Forward, Beginning
    <2>2. CASE h[1] = "input"
      BY <1>0, <1>1, <1>3, <1>5, <2>2, HeldIs DEF WhatHeld, ForwardOrder, Follow
    <2>3. CASE h[1] = "output"
      <3>1. PICK i \in DOMAIN spi_comms_output_queue : h[3] = spi_comms_output_queue[i]
        BY <2>3, HeldIs DEF WhatHeld
      <3>2. 1 < i
        BY <1>1, <1>5, <2>3, <3>1
      <3> QED BY <1>0, <1>1, <1>3, <1>5, <3>1, <3>2 DEF ForwardOrder, Ordered
    <2>4. CASE h[1] = "client"
      <3>1. KindOf(h[3]) = "request"
        BY <1>0, <2>4 DEF Places, Allowed
      <3>2. KindOf(HeadOut) # "request"
        BY <1>0, <1>2, <2>4, <3>1, RequestHeld DEF Tokens, Requests
      <3> QED BY <1>3, <3>1, <3>2 DEF Forward, Rank
    <2> QED BY <2>1, <2>2, <2>3, <2>4, HeldIs DEF WhatHeld
  <1> QED BY <1>1, <1>2, <1>3, <1>4, <1>5

LEMMA InTransmission ==
  ASSUME Session, trans.dir = "tx"
  PROVE  /\ spi_comms_output_queue # <<>> /\ trans.buf = HeadOut.buf
         /\ HeadOut \in Entries /\ content[trans.buf] = HeadOut.packet
  <1>0. RingInv /\ GInv
    BY DEF Session, RingInv
  <1>1. spi_comms_output_queue # <<>> /\ trans.buf = HeadOut.buf
    BY <1>0 DEF GInv, Announced, RingInv, SendsFirst, HeadOut
  <1>2. spi_comms_output_queue \in Seq(Entries) /\ 1 \in DOMAIN spi_comms_output_queue
        /\ HeadOut = spi_comms_output_queue[1] /\ HeadOut \in Entries
    BY <1>0, <1>1 DEF GInv, TypeOK, HeadOut
  <1>3. PICK g \in Holdings : g[3] = HeadOut
    BY <1>2, IsHeld DEF WhereHeld
  <1> QED BY <1>0, <1>1, <1>2, <1>3 DEF RingInv, Kept

(* The client task still has buffers to take whenever it takes one.          *)
LEMMA ClientTaking ==
  ASSUME OneSession, Session, NEW k \in Conns,
         SendConnected(k) \/ ClientTakes(k) \/ SendClosed(k) \/ SendDisconnected(k)
  PROVE  k = 1 /\ ClientWill >= 1
  <1>1. k = 1 /\ GInv
    BY OneTask DEF OneSession, Session, RingInv
  <1>2. task \in {"hello", "take", "bye", "report"}
    BY <1>1 DEF SendConnected, ClientTakes, SendClosed, SendDisconnected, ClientAt, task
  <1> QED BY <1>1, <1>2 DEF ClientWill, Bit

(* In a session no buffer is taken that is in use.                           *)
LEMMA SessionFree == OneSession /\ Session => FreeTaken
  <1> SUFFICES ASSUME OneSession, Session PROVE FreeTaken
    OBVIOUS
  <1>0. GInv /\ Tokens /\ Numbers
    BY NumbersTyped DEF Session, RingInv
  <1>1. ASSUME NEW k \in Conns,
               SendConnected(k) \/ ClientTakes(k) \/ SendClosed(k) \/ SendDisconnected(k)
        PROVE  next \notin InUse
    <2>1. \A kind : Cost(kind) >= 1
      BY <1>0, <1>1, ClientTaking DEF Numbers, Cost, Others
    <2> QED BY <2>1, NotNext
  <1>2. ASSUME WifiConnected
        PROVE  next \notin InUse
    <2>1. Holdings = {}
      BY <1>2 DEF WifiConnected, Session, Beginning
    <2> QED BY <2>1, NotNext
  <1>3. ASSUME SelectToSend
        PROVE  next \notin InUse
    <2>1. CanAnswer
      BY <1>3 DEF SelectToSend
    <2>2. "network_info" \notin Kinds /\ "status" \notin Kinds /\ "request" \notin Kinds
      BY <1>0, <2>1, CanAnswerMeans, WithCtxLink DEF OneSession
    <2>3. \A h \in Holdings : KindOf(h[3]) \notin Forward
      BY <2>2 DEF Kinds, Forward
    <2> QED BY <2>3, NotNext
  <1>4. ASSUME Transmitted
        PROVE  next \notin InUse \ {trans.buf}
    <2>1. spi_comms_output_queue # <<>> /\ trans.buf = HeadOut.buf
      BY <1>4, InTransmission DEF Transmitted
    <2>2. ASSUME NEW h \in Holdings, KindOf(h[3]) \in Forward, h[3].buf # HeadOut.buf
          PROVE  Cost(KindOf(h[3])) >= 1
      <3>1. Rank(KindOf(h[3])) > Rank(KindOf(HeadOut))
        BY <2>1, <2>2, HeadFirst
      <3>2. CASE KindOf(HeadOut) = "network_info"
        <4>1. InfoLeft = 1
          BY <2>1, <3>2, HeadFirst DEF InfoLeft, Bit
        <4>2. KindOf(h[3]) \in {"status", "request"}
          BY <2>2, <3>1, <3>2 DEF Forward, Rank
        <4> QED BY <1>0, <4>1, <4>2 DEF Numbers, Cost, Others
      <3>3. CASE KindOf(HeadOut) = "status"
        <4>1. StatusLeft = 1
          BY <2>1, <3>3, HeadFirst DEF StatusLeft, Bit
        <4>2. KindOf(h[3]) = "request"
          BY <2>2, <3>1, <3>3 DEF Forward, Rank
        <4> QED BY <1>0, <4>1, <4>2 DEF Numbers, Cost, Others
      <3>4. CASE KindOf(HeadOut) = "request"
        BY <2>2, <3>1, <3>4 DEF Forward, Rank
      <3> QED BY <2>1, <3>2, <3>3, <3>4, HeadFirst DEF Forward
    <2>3. ASSUME NEW b \in InUse, b # trans.buf
          PROVE  b # next
      BY <2>1, <2>2, <2>3, NotNext
    <2> QED BY <2>3
  <1> QED BY <1>1, <1>2, <1>3, <1>4 DEF FreeTaken
-----------------------------------------------------------------------------
(* The order in the queues.                                                  *)
LEMMA TailOrder ==
  ASSUME NEW q \in Seq(Entries), q # <<>>
  PROVE  /\ Ordered(q) => Ordered(Tail(q))
         /\ \A p : /\ Follow(p, q) => Follow(p, Tail(q))
                   /\ Follow(q, p) => Follow(Tail(q), p)
         /\ AtEnd(q) => AtEnd(Tail(q)) /\ (IsReply(Head(q).packet) => Tail(q) = <<>>)
  <1>1. /\ Len(q) \in Nat /\ Len(q) >= 1 /\ DOMAIN q = 1..Len(q)
        /\ DOMAIN Tail(q) = 1..Len(q) - 1
        /\ \A i \in 1..Len(q) - 1 : Tail(q)[i] = q[i + 1]
        /\ Head(q) = q[1] /\ 1 \in DOMAIN q /\ Tail(q) \in Seq(Entries)
        /\ Len(Tail(q)) = Len(q) - 1
    OBVIOUS
  <1>2. \A i \in DOMAIN Tail(q) : i + 1 \in DOMAIN q /\ Tail(q)[i] = q[i + 1] /\ i \in Nat
    BY <1>1
  <1>3. ASSUME Ordered(q) PROVE Ordered(Tail(q))
    BY <1>2, <1>3 DEF Ordered
  <1>4. ASSUME NEW p PROVE (Follow(p, q) => Follow(p, Tail(q))) /\ (Follow(q, p) => Follow(Tail(q), p))
    BY <1>2 DEF Follow
  <1>5. ASSUME AtEnd(q) PROVE AtEnd(Tail(q))
    BY <1>1, <1>2, <1>5 DEF AtEnd
  <1>6. ASSUME AtEnd(q), IsReply(Head(q).packet) PROVE Tail(q) = <<>>
    <2>1. Len(q) = 1
      BY <1>1, <1>6 DEF AtEnd
    <2> QED BY <1>1, <2>1
  <1> QED BY <1>3, <1>4, <1>5, <1>6

(* An entry may follow what is no packet for ctxLink, or goes before it.     *)
Precedes(q, e) == \A i \in DOMAIN q : KindOf(q[i]) \in Forward /\ KindOf(e) \in Forward
                                        => Rank(KindOf(q[i])) < Rank(KindOf(e))
NoReply(q) == \A i \in DOMAIN q : ~IsReply(q[i].packet)

LEMMA AppendOrder ==
  ASSUME NEW q \in Seq(Entries), NEW e \in Entries
  PROVE  /\ Ordered(q) /\ Precedes(q, e) => Ordered(Append(q, e))
         /\ \A p : /\ Follow(p, q) /\ Precedes(p, e) => Follow(p, Append(q, e))
                   /\ Follow(q, p) /\ (\A j \in DOMAIN p : KindOf(e) \in Forward /\ KindOf(p[j]) \in Forward
                                          => Rank(KindOf(e)) < Rank(KindOf(p[j])))
                        => Follow(Append(q, e), p)
         /\ NoReply(q) => AtEnd(Append(q, e))
  <1>1. /\ Len(q) \in Nat /\ DOMAIN q = 1..Len(q)
        /\ DOMAIN Append(q, e) = 1..Len(q) + 1
        /\ \A i \in 1..Len(q) : Append(q, e)[i] = q[i]
        /\ Append(q, e)[Len(q) + 1] = e
        /\ Len(Append(q, e)) = Len(q) + 1
    OBVIOUS
  <1>2. \A i \in DOMAIN Append(q, e) : \/ i \in DOMAIN q /\ Append(q, e)[i] = q[i] /\ i <= Len(q)
                                       \/ i = Len(q) + 1 /\ Append(q, e)[i] = e
    BY <1>1
  <1>3. ASSUME Ordered(q), Precedes(q, e) PROVE Ordered(Append(q, e))
    <2> SUFFICES ASSUME NEW i \in DOMAIN Append(q, e), NEW j \in DOMAIN Append(q, e), i < j,
                        KindOf(Append(q, e)[i]) \in Forward, KindOf(Append(q, e)[j]) \in Forward
                 PROVE  Rank(KindOf(Append(q, e)[i])) < Rank(KindOf(Append(q, e)[j]))
      BY DEF Ordered
    <2>1. i \in DOMAIN q /\ Append(q, e)[i] = q[i]
      BY <1>1
    <2>2. CASE j \in DOMAIN q /\ Append(q, e)[j] = q[j]
      BY <1>3, <2>1, <2>2 DEF Ordered
    <2>3. CASE Append(q, e)[j] = e
      BY <1>3, <2>1, <2>3 DEF Precedes
    <2> QED BY <1>2, <2>2, <2>3
  <1>4. ASSUME NEW p, Follow(p, q), Precedes(p, e) PROVE Follow(p, Append(q, e))
    BY <1>2, <1>4 DEF Follow, Precedes
  <1>5. ASSUME NEW p, Follow(q, p),
               \A j \in DOMAIN p : KindOf(e) \in Forward /\ KindOf(p[j]) \in Forward
                                     => Rank(KindOf(e)) < Rank(KindOf(p[j]))
        PROVE  Follow(Append(q, e), p)
    BY <1>2, <1>5 DEF Follow
  <1>6. ASSUME NoReply(q) PROVE AtEnd(Append(q, e))
    BY <1>1, <1>2, <1>6 DEF NoReply, AtEnd
  <1> QED BY <1>3, <1>4, <1>5, <1>6

LEMMA AppendFramed ==
  ASSUME NEW q \in Seq(Entries), NEW e \in Entries, Framed(q)
  PROVE  /\ e.packet.type # "raw" => Framed(Append(q, e))
         /\ q # <<>> => Framed(Tail(q)) /\ Head(q).packet.type # "raw"
  <1>1. /\ Len(q) \in Nat /\ DOMAIN q = 1..Len(q)
        /\ DOMAIN Append(q, e) = 1..Len(q) + 1
        /\ \A i \in 1..Len(q) : Append(q, e)[i] = q[i]
        /\ Append(q, e)[Len(q) + 1] = e
    OBVIOUS
  <1>2. e.packet.type # "raw" => Framed(Append(q, e))
    BY <1>1 DEF Framed
  <1>3. ASSUME q # <<>> PROVE Framed(Tail(q)) /\ Head(q).packet.type # "raw"
    <2>1. /\ DOMAIN Tail(q) = 1..Len(q) - 1 /\ Head(q) = q[1] /\ 1 \in DOMAIN q
          /\ \A i \in 1..Len(q) - 1 : Tail(q)[i] = q[i + 1] /\ i + 1 \in DOMAIN q
      BY <1>3
    <2> QED BY <2>1 DEF Framed
  <1> QED BY <1>2, <1>3

(* The first of the input queue goes to the end of the output queue.         *)
LEMMA MoveOrder ==
  ASSUME NEW p \in Seq(Entries), NEW q \in Seq(Entries), q # <<>>,
         Ordered(p), Ordered(q), Follow(p, q)
  PROVE  Ordered(Append(p, Head(q))) /\ Follow(Append(p, Head(q)), Tail(q))
  <1>1. /\ Len(q) \in Nat /\ DOMAIN q = 1..Len(q) /\ 1 \in DOMAIN q /\ Head(q) = q[1]
        /\ Head(q) \in Entries
        /\ DOMAIN Tail(q) = 1..Len(q) - 1
        /\ \A i \in 1..Len(q) - 1 : Tail(q)[i] = q[i + 1]
    OBVIOUS
  <1>2. \A i \in DOMAIN Tail(q) : i + 1 \in DOMAIN q /\ Tail(q)[i] = q[i + 1] /\ 1 < i + 1
    BY <1>1
  <1>3. Precedes(p, Head(q))
    BY <1>1 DEF Follow, Precedes
  <1>4. \A j \in DOMAIN Tail(q) : KindOf(Head(q)) \in Forward /\ KindOf(Tail(q)[j]) \in Forward
                                    => Rank(KindOf(Head(q))) < Rank(KindOf(Tail(q)[j]))
    BY <1>1, <1>2 DEF Ordered
  <1>5. Follow(p, Tail(q))
    BY TailOrder
  <1> QED BY <1>1, <1>3, <1>4, <1>5, AppendOrder
-----------------------------------------------------------------------------
(* What is held after a step was held before it: in the same buffer, and of  *)
(* the same kind.                                                            *)
Follows == \A h \in Holdings' : \E g \in Holdings :
  g[3].buf = h[3].buf /\ KindOf(g[3]) = KindOf(h[3])

(* The network report is not passed on.                                      *)
NotWifi == \A h \in Holdings' : \E g \in Holdings : g[1] = "wifi" <=> h[1] = "wifi"

LEMMA MustFollow ==
  /\ Frees => Follows /\ NotWifi
  /\ \A from, e : Loses(from, e) => Follows /\ NotWifi
  /\ \A from, e, to, f : Moves(from, e, to, f) /\ f.buf = e.buf /\ KindOf(f) = KindOf(e)
       => Follows /\ (from # "wifi" /\ to # "wifi" => NotWifi)
  BY DEF Frees, Loses, Moves, Follows, NotWifi

LEMMA FollowsKinds ==
  ASSUME Follows
  PROVE  Kinds' \subseteq Kinds /\ (Holdings = {} => Holdings' = {})
  BY DEF Follows, Kinds

LEMMA SameAge ==
  ASSUME next \in Buffers, UNCHANGED next, NEW b \in Buffers
  PROVE  Age(b)' = Age(b)
  BY DEF Age

Falling == /\ ClientWill' <= ClientWill /\ InfoLeft' <= InfoLeft
           /\ StatusLeft' <= StatusLeft /\ Coming' <= Coming

LEMMA Totals == /\ Others = ClientWill + InfoLeft + StatusLeft
                /\ Others' = ClientWill' + InfoLeft' + StatusLeft'
  BY DEF Others

LEMMA CostIs ==
  /\ \A k : /\ k = "network_info" => Cost(k) = ClientWill
            /\ k = "status" => Cost(k) = ClientWill + InfoLeft
            /\ k = "request" => Cost(k) = Others
            /\ k \notin Forward => Cost(k) = Others + Coming + 1
  /\ \A k : /\ k = "network_info" => Cost(k)' = ClientWill'
            /\ k = "status" => Cost(k)' = ClientWill' + InfoLeft'
            /\ k = "request" => Cost(k)' = Others'
            /\ k \notin Forward => Cost(k)' = Others' + Coming' + 1
  /\ \A k : k \in Forward => k \in {"network_info", "status", "request"}
  <1>1. ASSUME NEW k
        PROVE  /\ k = "network_info" => Cost(k) = ClientWill
               /\ k = "status" => Cost(k) = ClientWill + InfoLeft
               /\ k = "request" => Cost(k) = Others
               /\ k \notin Forward => Cost(k) = Others + Coming + 1
    BY DEF Cost, Forward
  <1>2. ASSUME NEW k
        PROVE  /\ k = "network_info" => Cost(k)' = ClientWill'
               /\ k = "status" => Cost(k)' = ClientWill' + InfoLeft'
               /\ k = "request" => Cost(k)' = Others'
               /\ k \notin Forward => Cost(k)' = Others' + Coming' + 1
    <2>1. CASE k = "network_info"
      BY <2>1 DEF Cost, Forward
    <2>2. CASE k = "status"
      <3>1. Cost("status")' = ClientWill' + InfoLeft'
        BY DEF Cost
      <3> QED BY <2>2, <3>1 DEF Forward
    <2>3. CASE k = "request"
      BY <2>3 DEF Cost, Forward
    <2>4. CASE k \notin Forward
      <3>1. Cost(k)' = (Others + Coming + 1)'
        BY <2>4 DEF Cost, Forward
      <3>2. (Others + Coming + 1)' = Others' + Coming' + 1
        OBVIOUS
      <3> QED BY <2>4, <3>1, <3>2 DEF Forward
    <2> QED BY <2>1, <2>2, <2>3, <2>4 DEF Forward
  <1> QED BY <1>1, <1>2 DEF Forward

LEMMA CostsFall ==
  ASSUME Numbers, Numbers', Falling
  PROVE  /\ \A k : Cost(k)' <= Cost(k)
         /\ Others' <= Others
         /\ ClientWill' + 1 <= ClientWill =>
              (\A k : Cost(k)' + 1 <= Cost(k)) /\ Others' + 1 <= Others
  <1> DEFINE w == ClientWill'
             i == InfoLeft'
             s == StatusLeft'
             c == Coming'
             o == Others'
  <1>1. /\ ClientWill \in Nat /\ InfoLeft \in Nat /\ StatusLeft \in Nat /\ Coming \in Nat
        /\ w \in Nat /\ i \in Nat /\ s \in Nat /\ c \in Nat
    BY DEF Numbers
  <1>2. w <= ClientWill /\ i <= InfoLeft /\ s <= StatusLeft /\ c <= Coming
    BY DEF Falling
  <1>3. o = w + i + s /\ Others = ClientWill + InfoLeft + StatusLeft
    BY Totals
  <1>4. (w + 1 <= ClientWill) = (ClientWill' + 1 <= ClientWill)
    OBVIOUS
  <1> HIDE DEF w, i, s, c, o
  <1>5. o <= Others /\ (w + 1 <= ClientWill => o + 1 <= Others) /\ Others \in Nat /\ o \in Nat
    BY <1>1, <1>2, <1>3
  <1>6. ASSUME NEW k
        PROVE  Cost(k)' <= Cost(k) /\ (w + 1 <= ClientWill => Cost(k)' + 1 <= Cost(k))
    <2> DEFINE n == Cost(k)'
    <2>1. /\ k = "network_info" => n = ClientWill' /\ Cost(k) = ClientWill
          /\ k = "status" => n = ClientWill' + InfoLeft' /\ Cost(k) = ClientWill + InfoLeft
          /\ k = "request" => n = Others' /\ Cost(k) = Others
          /\ k \notin Forward => n = Others' + Coming' + 1 /\ Cost(k) = Others + Coming + 1
      BY CostIs
    <2>2. /\ k = "network_info" => n = w
          /\ k = "status" => n = w + i
          /\ k = "request" => n = o
          /\ k \notin Forward => n = o + c + 1
      BY <2>1 DEF w, i, o, c
    <2>3. k \in {"network_info", "status", "request"} \/ k \notin Forward
      BY DEF Forward
    <2>4. n <= Cost(k) /\ (w + 1 <= ClientWill => n + 1 <= Cost(k))
      <3> HIDE DEF n
      <3>1. CASE k = "network_info"
        BY <1>1, <1>2, <2>1, <2>2, <3>1
      <3>2. CASE k = "status"
        BY <1>1, <1>2, <2>1, <2>2, <3>2
      <3>3. CASE k = "request"
        BY <1>5, <2>1, <2>2, <3>3
      <3>4. CASE k \notin Forward
        BY <1>1, <1>2, <1>5, <2>1, <2>2, <3>4
      <3> QED BY <2>3, <3>1, <3>2, <3>3, <3>4
    <2> QED BY <2>4
  <1> QED BY <1>4, <1>5, <1>6 DEF w, o

LEMMA ComingFalls ==
  ASSUME GInv, GInv', UNCHANGED <<delivered, answered, extra>>,
         "request" \in Kinds' => "request" \in Kinds,
         trans'.dir = "rx" <=> trans.dir = "rx"
  PROVE  Coming' <= Coming
  <1>1. Numbers /\ Numbers'
    BY NumbersTyped, NumbersNext
  <1>2. CanAnswer' = CanAnswer /\ Bit(trans.dir = "rx")' = Bit(trans.dir = "rx")
    BY DEF CanAnswer, Bit
  <1>3. CASE "request" \in Kinds
    <2>1. Coming = Unsolicited + 2 /\ Unsolicited \in Nat
      BY <1>3 DEF Coming
    <2> QED BY <1>1, <2>1 DEF Numbers
  <1>4. CASE "request" \notin Kinds
    <2>1. Coming' = Coming
      BY <1>2, <1>4 DEF Coming
    <2> QED BY <1>1, <2>1 DEF Numbers
  <1> QED BY <1>3, <1>4

(* The bounds of what is held.                                               *)
LEMMA HoldCalm ==
  ASSUME GInv, GInv', HoldBounds, UNCHANGED next, \A k : Cost(k)' <= Cost(k), Follows
  PROVE  HoldBounds'
  <1>1. Numbers /\ Numbers'
    BY NumbersTyped, NumbersNext
  <1> SUFFICES ASSUME NEW h \in Holdings', KindOf(h[3]) # "completed"
               PROVE  Age(h[3].buf)' + Cost(KindOf(h[3]))' <= Unsolicited + 6
    BY DEF HoldBounds
  <1>2. PICK g \in Holdings : g[3].buf = h[3].buf /\ KindOf(g[3]) = KindOf(h[3])
    BY DEF Follows
  <1>3. g[3].buf \in Buffers /\ next \in Buffers
    BY HoldingsTyped DEF GInv, TypeOK
  <1>4. Age(g[3].buf)' = Age(g[3].buf) /\ Age(g[3].buf) \in 1..N
    BY <1>3, SameAge, AgeTyped
  <1>5. Age(g[3].buf) + Cost(KindOf(g[3])) <= Unsolicited + 6
    BY <1>2 DEF HoldBounds
  <1> QED BY <1>1, <1>2, <1>4, <1>5 DEF Numbers

LEMMA HoldTake ==
  ASSUME GInv, GInv', HoldBounds, Take, NEW G, G \subseteq Holdings,
         \A g \in G : g[3].buf # next,
         \A g \in G : KindOf(g[3]) # "completed" => Cost(KindOf(g[3]))' + 1 <= Cost(KindOf(g[3])),
         NEW h, Holdings' \subseteq G \cup {h}, h[3].buf = next,
         KindOf(h[3]) # "completed" => 1 + Cost(KindOf(h[3]))' <= Unsolicited + 6
  PROVE  HoldBounds'
  <1>1. Numbers /\ Numbers' /\ next \in Buffers
    BY NumbersTyped, NumbersNext DEF GInv, TypeOK
  <1>2. ASSUME NEW x \in Holdings', KindOf(x[3]) # "completed"
        PROVE  Age(x[3].buf)' + Cost(KindOf(x[3]))' <= Unsolicited + 6
    <2>1. CASE x = h
      <3>1. Age(x[3].buf)' = 1
        BY <1>1, <2>1, AgeTake
      <3> QED BY <1>2, <2>1, <3>1
    <2>2. CASE x \in G
      <3>1. x[3].buf \in Buffers
        BY <2>2, HoldingsTyped
      <3>2. Age(x[3].buf)' = Age(x[3].buf) + 1 /\ Age(x[3].buf) \in 1..N
        BY <1>1, <2>2, <3>1, AgeTake, AgeTyped
      <3>3. Age(x[3].buf) + Cost(KindOf(x[3])) <= Unsolicited + 6
        BY <1>2, <2>2 DEF HoldBounds
      <3>4. Cost(KindOf(x[3]))' + 1 <= Cost(KindOf(x[3]))
        BY <1>2, <2>2
      <3> QED BY <1>1, <3>2, <3>3, <3>4 DEF Numbers
    <2> QED BY <2>1, <2>2
  <1> QED BY <1>2 DEF HoldBounds

(* The bounds of the buffers that wait to be filled.                         *)
LEMMA WaitCalm ==
  ASSUME GInv, GInv', WaitBounds, UNCHANGED next, Reserved' \subseteq Reserved,
         \A r \in Reserved' : WaitCost(r)' <= WaitCost(r)
  PROVE  WaitBounds'
  <1>1. Numbers /\ Numbers' /\ next \in Buffers
    BY NumbersTyped, NumbersNext DEF GInv, TypeOK
  <1>2. \A r : WaitCost(r) \in Nat /\ WaitCost(r)' \in Nat
    BY <1>1 DEF Numbers, WaitCost
  <1>3. ASSUME NEW r \in Reserved'
        PROVE  Age(r[2])' + WaitCost(r)' <= Unsolicited + 6
    <2>1. r[2] \in Buffers /\ Age(r[2]) + WaitCost(r) <= Unsolicited + 6
      BY <1>3, ReservedTyped DEF WaitBounds
    <2>2. Age(r[2])' = Age(r[2]) /\ Age(r[2]) \in 1..N
      BY <1>1, <2>1, SameAge, AgeTyped
    <2>3. WaitCost(r)' <= WaitCost(r)
      BY <1>3
    <2> QED BY <1>2, <2>1, <2>2, <2>3
  <1> QED BY <1>3 DEF WaitBounds

LEMMA WaitTake ==
  ASSUME GInv, GInv', WaitBounds, Take,
         \A r \in Reserved' :
           \/ r \in Reserved /\ r[2] # next /\ WaitCost(r)' + 1 <= WaitCost(r)
           \/ r[2] = next /\ 1 + WaitCost(r)' <= Unsolicited + 6
  PROVE  WaitBounds'
  <1>1. Numbers /\ Numbers' /\ next \in Buffers
    BY NumbersTyped, NumbersNext DEF GInv, TypeOK
  <1>2. \A r : WaitCost(r) \in Nat /\ WaitCost(r)' \in Nat
    BY <1>1 DEF Numbers, WaitCost
  <1>3. ASSUME NEW r \in Reserved'
        PROVE  Age(r[2])' + WaitCost(r)' <= Unsolicited + 6
    <2>1. CASE r[2] = next /\ 1 + WaitCost(r)' <= Unsolicited + 6
      <3>1. Age(r[2])' = 1
        BY <1>1, <2>1, AgeTake
      <3> QED BY <2>1, <3>1
    <2>2. CASE r \in Reserved /\ r[2] # next /\ WaitCost(r)' + 1 <= WaitCost(r)
      <3>1. r[2] \in Buffers /\ Age(r[2]) + WaitCost(r) <= Unsolicited + 6
        BY <2>2, ReservedTyped DEF WaitBounds
      <3>2. Age(r[2])' = Age(r[2]) + 1 /\ Age(r[2]) \in 1..N
        BY <1>1, <2>2, <3>1, AgeTake, AgeTyped
      <3> QED BY <1>2, <2>2, <3>1, <3>2
    <2> QED BY <1>3, <2>1, <2>2
  <1> QED BY <1>3 DEF WaitBounds

(* The bounds of the completions, in the input queue.                        *)
LEMMA OthersTyped == Others \in Nat
  <1>1. \A P : Bit(P) \in 0..1
    BY DEF Bit
  <1>2. ClientWill \in Nat /\ InfoLeft \in Nat /\ StatusLeft \in Nat
    BY <1>1 DEF ClientWill, InfoLeft, StatusLeft
  <1> QED BY <1>2 DEF Others

LEMMA OthersNext == Others' \in Nat
  <1>1. (Others \in Nat)'
    BY OthersTyped, PTL
  <1> QED BY <1>1

LEMMA DoneCostIs ==
  /\ \A i : /\ Behind(i) => DoneCost(i) = Others + 1
            /\ ~Behind(i) => DoneCost(i) = Others + 1 + Coming
  /\ \A i : /\ Behind(i)' => DoneCost(i)' = Others' + 1
            /\ ~(Behind(i)') => DoneCost(i)' = Others' + 1 + Coming'
  <1>1. ASSUME NEW i
        PROVE  /\ Behind(i) => DoneCost(i) = Others + 1 + 0
               /\ ~Behind(i) => DoneCost(i) = Others + 1 + Coming
    BY DEF DoneCost
  <1>2. ASSUME NEW i
        PROVE  /\ Behind(i)' => DoneCost(i)' = Others' + 1 + 0
               /\ ~(Behind(i)') => DoneCost(i)' = Others' + 1 + Coming'
    BY DEF DoneCost
  <1>3. Others + 1 + 0 = Others + 1 /\ Others' + 1 + 0 = Others' + 1
    <2> DEFINE o == Others'
    <2>1. Others \in Nat /\ o \in Nat
      BY OthersTyped, OthersNext
    <2> HIDE DEF o
    <2>2. o + 1 + 0 = o + 1 /\ Others + 1 + 0 = Others + 1
      BY <2>1
    <2> QED BY <2>2 DEF o
  <1> QED BY <1>1, <1>2, <1>3

DoneTyped == \A i : DoneCost(i) \in Nat

LEMMA DoneCostTyped == GInv => DoneTyped
  BY NumbersTyped DEF Numbers, DoneTyped, DoneCost

LEMMA DoneCostNext == GInv' => DoneTyped'
  BY DoneCostTyped, PTL

InputKind(i) == KindOf(spi_comms_input_queue[i])

LEMMA DoneCalm ==
  ASSUME GInv, GInv', DoneBounds, UNCHANGED next,
         \A i \in DOMAIN spi_comms_input_queue' : InputKind(i)' = "completed" =>
           \E j \in DOMAIN spi_comms_input_queue :
             /\ spi_comms_input_queue[j] = spi_comms_input_queue'[i]
             /\ DoneCost(i)' <= DoneCost(j)
  PROVE  DoneBounds'
  <1> SUFFICES ASSUME NEW i \in DOMAIN spi_comms_input_queue', NEW b \in Buffers,
                      spi_comms_input_queue'[i].buf = b, InputKind(i)' = "completed"
               PROVE  Age(b)' + DoneCost(i)' <= Unsolicited + 6
    BY DEF DoneBounds, InputKind
  <1> DEFINE n == DoneCost(i)'
             a == Age(b)'
  <1>1. PICK j \in DOMAIN spi_comms_input_queue :
          /\ spi_comms_input_queue[j] = spi_comms_input_queue'[i]
          /\ n <= DoneCost(j)
    OBVIOUS
  <1>2. KindOf(spi_comms_input_queue[j]) = "completed" /\ spi_comms_input_queue[j].buf = b
    BY <1>1 DEF InputKind
  <1>3. Age(b) + DoneCost(j) <= Unsolicited + 6
    BY <1>2 DEF DoneBounds
  <1>4. n \in Nat /\ DoneCost(j) \in Nat
    BY DoneCostTyped, DoneCostNext DEF DoneTyped
  <1>5. a = Age(b) /\ Age(b) \in 1..N
    BY SameAge, AgeTyped DEF GInv, TypeOK
  <1> HIDE DEF a, n
  <1>6. a + n <= Unsolicited + 6
    BY <1>1, <1>3, <1>4, <1>5
  <1> QED BY <1>6 DEF a, n

LEMMA DoneTake ==
  ASSUME GInv, GInv', DoneBounds, Take,
         \A h \in Holdings : h[1] = "input" => h[3].buf # next,
         \A i \in DOMAIN spi_comms_input_queue' : InputKind(i)' = "completed" =>
           \/ \E j \in DOMAIN spi_comms_input_queue :
                /\ spi_comms_input_queue[j] = spi_comms_input_queue'[i]
                /\ DoneCost(i)' + 1 <= DoneCost(j)
           \/ /\ spi_comms_input_queue'[i].buf = next
              /\ 1 + DoneCost(i)' <= Unsolicited + 6
  PROVE  DoneBounds'
  <1> SUFFICES ASSUME NEW i \in DOMAIN spi_comms_input_queue', NEW b \in Buffers,
                      spi_comms_input_queue'[i].buf = b, InputKind(i)' = "completed"
               PROVE  Age(b)' + DoneCost(i)' <= Unsolicited + 6
    BY DEF DoneBounds, InputKind
  <1> DEFINE n == DoneCost(i)'
             a == Age(b)'
  <1>0. next \in Buffers
    BY DEF GInv, TypeOK
  <1>1. CASE b = next /\ 1 + n <= Unsolicited + 6
    <2>1. a = 1
      BY <1>0, <1>1, AgeTake
    <2> QED BY <1>1, <2>1
  <1>2. CASE \E j \in DOMAIN spi_comms_input_queue :
                /\ spi_comms_input_queue[j] = spi_comms_input_queue'[i]
                /\ n + 1 <= DoneCost(j)
    <2>1. PICK j \in DOMAIN spi_comms_input_queue :
            /\ spi_comms_input_queue[j] = spi_comms_input_queue'[i]
            /\ n + 1 <= DoneCost(j)
      BY <1>2
    <2>2. KindOf(spi_comms_input_queue[j]) = "completed" /\ spi_comms_input_queue[j].buf = b
      BY <2>1 DEF InputKind
    <2>3. Age(b) + DoneCost(j) <= Unsolicited + 6
      BY <2>2 DEF DoneBounds
    <2>4. n \in Nat /\ DoneCost(j) \in Nat
      BY DoneCostTyped, DoneCostNext DEF DoneTyped
    <2>5. b # next
      BY <2>1, <2>2, IsHeld DEF WhereHeld
    <2>6. a = Age(b) + 1 /\ Age(b) \in 1..N
      BY <1>0, <2>5, AgeTake, AgeTyped
    <2> HIDE DEF a, n
    <2>7. a + n <= Unsolicited + 6
      BY <2>1, <2>3, <2>4, <2>6
    <2> QED BY <2>7 DEF a, n
  <1> QED BY <1>1, <1>2

LEMMA DoneCostFalls ==
  ASSUME GInv, GInv', Others' <= Others, Coming' <= Coming,
         NEW i, NEW j, Behind(j) => Behind(i)'
  PROVE  /\ DoneCost(i)' <= DoneCost(j)
         /\ Others' + 1 <= Others => DoneCost(i)' + 1 <= DoneCost(j)
         /\ ~Behind(j) /\ Coming' + 1 <= Coming => DoneCost(i)' + 1 <= DoneCost(j)
  <1> DEFINE o == Others'
             c == Coming'
             n == DoneCost(i)'
  <1>1. /\ o \in Nat /\ c \in Nat /\ Others \in Nat /\ Coming \in Nat
        /\ o <= Others /\ c <= Coming
    BY NumbersTyped, NumbersNext DEF Numbers
  <1>2. /\ n = o + 1 \/ (n = o + 1 + c /\ ~(Behind(i)'))
        /\ Behind(j) => n = o + 1 /\ DoneCost(j) = Others + 1
        /\ ~Behind(j) => DoneCost(j) = Others + 1 + Coming
    BY DoneCostIs
  <1>3. /\ (o + 1 <= Others) = (Others' + 1 <= Others)
        /\ (c + 1 <= Coming) = (Coming' + 1 <= Coming)
    OBVIOUS
  <1> HIDE DEF o, c, n
  <1>4. CASE Behind(j)
    <2>1. n <= DoneCost(j) /\ (o + 1 <= Others => n + 1 <= DoneCost(j))
      BY <1>1, <1>2, <1>4
    <2> QED BY <1>3, <1>4, <2>1 DEF n
  <1>5. CASE ~Behind(j)
    <2>1. /\ n <= DoneCost(j) /\ (o + 1 <= Others => n + 1 <= DoneCost(j))
          /\ (c + 1 <= Coming => n + 1 <= DoneCost(j))
      BY <1>1, <1>2, <1>5
    <2> QED BY <1>3, <2>1 DEF n
  <1> QED BY <1>4, <1>5

LEMMA TailAfter ==
  ASSUME NEW q \in Seq(Entries), q # <<>>, NEW i \in DOMAIN Tail(q)
  PROVE  /\ i + 1 \in DOMAIN q /\ q[i + 1] = Tail(q)[i]
         /\ After(q, i + 1) => After(Tail(q), i)
  <1>1. /\ Len(q) \in Nat /\ Len(q) >= 1 /\ DOMAIN q = 1..Len(q)
        /\ DOMAIN Tail(q) = 1..Len(q) - 1
        /\ \A j \in 1..Len(q) - 1 : Tail(q)[j] = q[j + 1]
    OBVIOUS
  <1>2. ASSUME After(q, i + 1) PROVE After(Tail(q), i)
    <2>1. PICK m \in DOMAIN q : m > i + 1 /\ KindOf(q[m]) = "request"
      BY <1>2 DEF After
    <2>2. m - 1 \in DOMAIN Tail(q) /\ m - 1 > i /\ Tail(q)[m - 1] = q[m]
      BY <1>1, <2>1
    <2> QED BY <2>1, <2>2 DEF After
  <1> QED BY <1>1, <1>2

LEMMA AppendAfter ==
  ASSUME NEW q \in Seq(Entries), NEW e \in Entries, NEW i \in DOMAIN Append(q, e)
  PROVE  \/ /\ i \in DOMAIN q /\ q[i] = Append(q, e)[i]
            /\ After(q, i) \/ KindOf(e) = "request" => After(Append(q, e), i)
         \/ Append(q, e)[i] = e
  <1>1. /\ Len(q) \in Nat /\ DOMAIN q = 1..Len(q)
        /\ DOMAIN Append(q, e) = 1..Len(q) + 1
        /\ \A j \in 1..Len(q) : Append(q, e)[j] = q[j]
        /\ Append(q, e)[Len(q) + 1] = e
    OBVIOUS
  <1>2. CASE i = Len(q) + 1
    BY <1>1, <1>2
  <1>3. CASE i \in DOMAIN q
    <2>1. After(q, i) => After(Append(q, e), i)
      BY <1>1 DEF After
    <2>2. KindOf(e) = "request" => After(Append(q, e), i)
      <3>1. Len(q) + 1 \in DOMAIN Append(q, e) /\ Len(q) + 1 > i
        BY <1>1, <1>3
      <3> QED BY <1>1, <3>1 DEF After
    <2> QED BY <1>1, <1>3, <2>1, <2>2
  <1> QED BY <1>1, <1>2, <1>3
-----------------------------------------------------------------------------
(* Steps that take no buffer and only pass on what is held.                  *)
Calm == /\ UNCHANGED <<next, client, clientEntry, peer, conns, sent, unread, delivered,
                       answered, extra, returned, wifi>>
        /\ trans'.dir = "rx" <=> trans.dir = "rx"
        /\ Reserved' = Reserved

(* The input queue is as it was, loses its first, or gains one.              *)
Unlengthened == \/ UNCHANGED spi_comms_input_queue
                \/ /\ spi_comms_input_queue # <<>>
                   /\ spi_comms_input_queue' = Tail(spi_comms_input_queue)

LEMMA DoneShortens ==
  ASSUME GInv, GInv', DoneBounds, UNCHANGED next, Unlengthened, Sending # {} => Sending' # {},
         Others' <= Others, Coming' <= Coming
  PROVE  DoneBounds'
  <1>1. spi_comms_input_queue \in Seq(Entries)
    BY DEF GInv, TypeOK
  <1> SUFFICES ASSUME NEW i \in DOMAIN spi_comms_input_queue', InputKind(i)' = "completed"
               PROVE  \E j \in DOMAIN spi_comms_input_queue :
                        /\ spi_comms_input_queue[j] = spi_comms_input_queue'[i]
                        /\ DoneCost(i)' <= DoneCost(j)
    BY DoneCalm
  <1>2. \E j \in DOMAIN spi_comms_input_queue :
          /\ spi_comms_input_queue[j] = spi_comms_input_queue'[i]
          /\ After(spi_comms_input_queue, j) => After(spi_comms_input_queue', i)
    <2>1. CASE UNCHANGED spi_comms_input_queue
      BY <2>1
    <2>2. CASE /\ spi_comms_input_queue # <<>>
               /\ spi_comms_input_queue' = Tail(spi_comms_input_queue)
      BY <1>1, <2>2, TailAfter
    <2> QED BY <2>1, <2>2 DEF Unlengthened
  <1>3. PICK j \in DOMAIN spi_comms_input_queue :
          /\ spi_comms_input_queue[j] = spi_comms_input_queue'[i]
          /\ After(spi_comms_input_queue, j) => After(spi_comms_input_queue', i)
    BY <1>2
  <1>4. Behind(j) => Behind(i)'
    BY <1>3 DEF Behind
  <1>5. DoneCost(i)' <= DoneCost(j)
    BY <1>4, DoneCostFalls
  <1> QED BY <1>3, <1>5

LEMMA HoldWaitFall ==
  ASSUME Session, GInv', UNCHANGED next, Follows, Falling, Posted' = Posted,
         Reserved' \subseteq Reserved
  PROVE  HoldBounds' /\ WaitBounds'
  <1>0. GInv /\ HoldBounds /\ WaitBounds
    BY DEF Session, RingInv
  <1>1. \A k : Cost(k)' <= Cost(k)
    BY <1>0, NumbersTyped, NumbersNext, CostsFall
  <1>2. HoldBounds'
    BY <1>0, <1>1, HoldCalm
  <1>3. WaitBounds'
    <2>1. \A r \in Reserved' : WaitCost(r)' <= WaitCost(r)
      BY <1>1 DEF WaitCost
    <2> QED BY <1>0, <2>1, WaitCalm
  <1> QED BY <1>2, <1>3

LEMMA BoundsFall ==
  ASSUME Session, GInv', UNCHANGED next, Follows, Unlengthened, Falling, Posted' = Posted,
         Sending # {} => Sending' # {}, Reserved' \subseteq Reserved
  PROVE  HoldBounds' /\ WaitBounds' /\ DoneBounds'
  <1>1. GInv /\ DoneBounds /\ Others' <= Others /\ Coming' <= Coming
    BY NumbersTyped, NumbersNext, CostsFall DEF Session, RingInv, Falling
  <1> QED BY <1>1, HoldWaitFall, DoneShortens

(* Without messages, and without completions, some bounds say nothing.       *)
NoMessage == "message" \notin Kinds => ReplyLast
NoCompletion == "completed" \notin Kinds => DoneBounds

LEMMA NothingSaid == GInv => NoMessage /\ NoCompletion
  <1> SUFFICES ASSUME GInv PROVE NoMessage /\ NoCompletion
    OBVIOUS
  <1>1. ASSUME "message" \notin Kinds PROVE ReplyLast
    <2>1. \A h \in Holdings : ~IsReply(h[3].packet)
      BY <1>1, RequestHeld DEF Kinds
    <2> QED BY <2>1, IsHeld DEF ReplyLast, AtEnd, WhereHeld
  <1>2. ASSUME "completed" \notin Kinds PROVE DoneBounds
    BY <1>2, IsHeld DEF DoneBounds, WhereHeld, Kinds
  <1> QED BY <1>1, <1>2 DEF NoMessage, NoCompletion

LEMMA NothingSaidNext == GInv' => NoMessage' /\ NoCompletion'
  BY NothingSaid, PTL

LEMMA LeqSame == GInv => \A n \in {ClientWill, InfoLeft, StatusLeft, Coming} : n <= n
  BY NumbersTyped DEF Numbers

LEMMA CalmStep ==
  ASSUME OneSession, Session, GInv', Calm, Follows, NotWifi, Unlengthened
  PROVE  /\ Beginning' /\ Closing' /\ Delivering'
         /\ HoldBounds' /\ WaitBounds' /\ DoneBounds'
  <1>0. GInv /\ Beginning /\ Closing /\ Delivering
    BY DEF Session, RingInv
  <1>1. Kinds' \subseteq Kinds /\ (Holdings = {} => Holdings' = {})
    BY FollowsKinds
  <1>2. task' = task /\ Ending' = Ending /\ CanAnswer' = CanAnswer /\ Posted' = Posted
        /\ Sending' = Sending
    BY DEF Calm, task, Ending, CanAnswer, Posted, Sending
  <1>3. Beginning'
    BY <1>0, <1>1, <1>2 DEF Calm, Beginning, NotWifi
  <1>4. Closing'
    BY <1>0, <1>1, <1>2 DEF Calm, Closing
  <1>5. Delivering'
    BY <1>0, <1>1, <1>2 DEF Calm, Delivering
  <1>6. ClientWill' = ClientWill
    BY <1>2 DEF ClientWill
  <1>7. InfoLeft' <= InfoLeft /\ StatusLeft' <= StatusLeft
    BY <1>1, <1>2 DEF Calm, InfoLeft, StatusLeft, Bit
  <1>8. Coming' <= Coming
    BY <1>0, <1>1, ComingFalls DEF Calm
  <1>9. Falling
    BY <1>0, <1>6, <1>7, <1>8, LeqSame DEF Falling
  <1>10. HoldBounds' /\ WaitBounds' /\ DoneBounds'
    BY <1>2, <1>9, BoundsFall DEF Calm
  <1> QED BY <1>3, <1>4, <1>5, <1>10

LEMMA SameReserved ==
  ASSUME UNCHANGED <<client, clientEntry>>,
         trans' = trans \/ (trans.dir # "rx" /\ trans'.dir # "rx")
  PROVE  Reserved' = Reserved /\ (trans'.dir = "rx" <=> trans.dir = "rx")
  <1>1. Reading' = Reading
    BY DEF Reading
  <1>2. ToRead' = ToRead
    BY <1>1 DEF ToRead
  <1>3. ToReceive' = ToReceive
    BY DEF ToReceive
  <1> QED BY <1>2, <1>3 DEF Reserved

LEMMA FirstTyped ==
  ASSUME GInv
  PROVE  /\ /\ spi_comms_input_queue \in Seq(Entries) /\ spi_comms_output_queue \in Seq(Entries)
            /\ server_queue \in Seq(Entries)
         /\ spi_comms_input_queue # <<>> => Head(spi_comms_input_queue) \in Entries
         /\ server_queue # <<>> => Head(server_queue) \in Entries
  <1>1. ASSUME NEW q \in Seq(Entries), q # <<>> PROVE Head(q) \in Entries
    BY <1>1
  <1> QED BY <1>1 DEF GInv, TypeOK

LEMMA ServerReceivesSession ==
  ASSUME OneSession, Session, RingInv', NotStarted', Tokens', ServerReceives, ServerPasses
  PROVE  Session'
  <1> DEFINE e == Head(server_queue)
  <1>0. /\ GInv /\ GInv' /\ Places /\ ForwardOrder /\ ReplyLast
        /\ server_queue # <<>> /\ server_queue' = Tail(server_queue)
        /\ server_queue \in Seq(Entries) /\ e \in Entries
        /\ UNCHANGED <<spi_comms_input_queue, spi_comms_output_queue, spiMessage>>
    BY FirstTyped DEF Session, RingInv, ServerReceives, spiVars
  <1>1. Calm
    <2>1. UNCHANGED <<client, clientEntry, trans, next, peer, conns, sent, unread, delivered,
                      answered, extra, returned, wifi>>
      BY DEF ServerReceives, ring, line, clientVars, peerVars, ctxVars, wifiVars
    <2> QED BY <2>1, SameReserved DEF Calm
  <1>2. IF e.packet.type = "to_client" THEN Moves("server_queue", e, "server", e)
                                       ELSE Loses("server_queue", e)
    BY DEF ServerPasses, ServerReceives, ServerSends
  <1>3. Places' /\ Follows /\ NotWifi
    <2>1. e.packet.type = "to_client" => KindOf(e) \in Allowed("server")
      BY DEF KindOf, Kind, Allowed
    <2> HIDE DEF e
    <2>2. \/ Moves("server_queue", e, "server", e) /\ KindOf(e) \in Allowed("server")
          \/ Loses("server_queue", e)
      BY <1>2, <2>1
    <2>3. Places'
      BY <1>0, <2>2, MovesKinds, LosesKinds
    <2>4. Follows /\ NotWifi
      BY <2>2, MustFollow
    <2> QED BY <2>3, <2>4
  <1>4. ForwardOrder'
    BY <1>0 DEF ForwardOrder
  <1>5. ReplyLast'
    <2>1. AtEnd(Tail(server_queue)) /\ (IsReply(e.packet) => Tail(server_queue) = <<>>)
      BY <1>0, TailOrder DEF ReplyLast
    <2>2. PICK g, h :
            /\ g \in Holdings
            /\ g[1] = "server_queue" /\ g[3] = e /\ h[1] = "server" /\ h[3] = e
            /\ Holdings' \subseteq (Holdings \ {g}) \cup {h}
      <3>1. CASE Moves("server_queue", e, "server", e)
        BY <3>1 DEF Moves
      <3>2. CASE Loses("server_queue", e)
        <4>1. PICK g \in Holdings : /\ g[1] = "server_queue" /\ g[3] = e
                                   /\ Holdings' \subseteq Holdings \ {g}
          BY <3>2 DEF Loses
        <4> DEFINE h == <<"server", 0, e>>
        <4>2. h[1] = "server" /\ h[3] = e
          OBVIOUS
        <4> HIDE DEF h, e
        <4> QED BY <4>1, <4>2
      <3> QED BY <1>2, <3>1, <3>2
    <2>3. ASSUME NEW x \in Holdings', IsReply(x[3].packet)
          PROVE  /\ x[1] # "input" => spi_comms_input_queue = <<>>
                 /\ x[1] \in {"server_queue", "server"} => spiMessage = NONE
                 /\ x[1] = "server" => Tail(server_queue) = <<>>
      <3> HIDE DEF e
      <3>1. CASE x \in Holdings
        BY <1>0, <2>3, <3>1 DEF ReplyLast
      <3>2. CASE x = h
        BY <1>0, <2>1, <2>2, <2>3, <3>2 DEF ReplyLast
      <3> QED BY <2>2, <3>1, <3>2
    <2> QED BY <1>0, <2>1, <2>3 DEF ReplyLast
  <1> QED BY <1>0, <1>1, <1>3, <1>4, <1>5, CalmStep DEF Session, Unlengthened

LEMMA SpiConsumesSession ==
  ASSUME OneSession, Session, RingInv', NotStarted', Tokens', SpiConsumes, SpiPasses
  PROVE  Session'
  <1> DEFINE e == Head(spi_comms_input_queue)
             forward == {"network_info", "from_gdb", "status"}
  <1>0. /\ GInv /\ GInv' /\ Places /\ ForwardOrder /\ ReplyLast
        /\ spi_comms_input_queue # <<>> /\ spi_comms_input_queue' = Tail(spi_comms_input_queue)
        /\ spi_comms_input_queue \in Seq(Entries) /\ e \in Entries
        /\ spi_comms_output_queue \in Seq(Entries)
        /\ UNCHANGED <<server_queue, spiMessage>>
    BY FirstTyped DEF Session, RingInv, SpiConsumes, Dispatch, spiVars
  <1>1. Calm
    <2>1. UNCHANGED <<client, clientEntry, trans, next, peer, conns, sent, unread, delivered,
                      answered, extra, returned, wifi>>
      BY DEF SpiConsumes, ring, clientVars, peerVars, ctxVars, wifiVars
    <2> QED BY <2>1, SameReserved DEF Calm
  <1>2. IF e.packet.type \in forward THEN Moves("input", e, "output", e)
                                     ELSE Loses("input", e)
    <2>1. ~SpiToServer /\ ~SpiForwards
      BY DEF SpiConsumes, SpiToServer, SpiForwards, Dispatch
    <2> QED BY <2>1 DEF SpiPasses
  <1>3. Places' /\ Follows /\ NotWifi
    <2>1. e.packet.type \in forward => KindOf(e) \in Allowed("output")
      BY DEF KindOf, Kind, Allowed, Forward
    <2> HIDE DEF e
    <2>2. \/ Moves("input", e, "output", e) /\ KindOf(e) \in Allowed("output")
          \/ Loses("input", e)
      BY <1>2, <2>1
    <2>3. Places'
      BY <1>0, <2>2, MovesKinds, LosesKinds
    <2>4. Follows /\ NotWifi
      BY <2>2, MustFollow
    <2> QED BY <2>3, <2>4
  <1>4. ForwardOrder'
    <2>1. \/ spi_comms_output_queue' = spi_comms_output_queue
          \/ /\ spi_comms_output_queue' = Append(spi_comms_output_queue, e)
             /\ Framed(Append(spi_comms_output_queue, e))
      <3>1. content[e.buf] = e.packet
        <4>1. 1 \in DOMAIN spi_comms_input_queue /\ e = spi_comms_input_queue[1]
          BY <1>0
        <4>2. PICK x \in Holdings : x[3] = e
          BY <4>1, IsHeld DEF WhereHeld
        <4> HIDE DEF e
        <4> QED BY <4>2 DEF Session, RingInv, Kept
      <3>2. \/ spi_comms_output_queue' = spi_comms_output_queue
            \/ /\ spi_comms_output_queue' = Append(spi_comms_output_queue, e)
               /\ content[e.buf].type # "raw"
        BY DEF SpiConsumes, Enqueue
      <3>3. ASSUME e.packet.type # "raw" PROVE Framed(Append(spi_comms_output_queue, e))
        <4> HIDE DEF e
        <4> QED BY <1>0, <3>3, AppendFramed DEF ForwardOrder
      <3> HIDE DEF e
      <3> QED BY <3>1, <3>2, <3>3
    <2>2. /\ Ordered(Tail(spi_comms_input_queue))
          /\ Follow(spi_comms_output_queue, Tail(spi_comms_input_queue))
      BY <1>0, TailOrder DEF ForwardOrder
    <2>3. /\ Ordered(Append(spi_comms_output_queue, e))
          /\ Follow(Append(spi_comms_output_queue, e), Tail(spi_comms_input_queue))
      BY <1>0, MoveOrder DEF ForwardOrder
    <2> QED BY <1>0, <2>1, <2>2, <2>3 DEF ForwardOrder
  <1>5. ReplyLast'
    <2>1. AtEnd(Tail(spi_comms_input_queue))
      BY <1>0, TailOrder DEF ReplyLast
    <2>2. ASSUME NEW x \in Holdings', IsReply(x[3].packet)
          PROVE  x \in Holdings /\ x[1] = "input"
      <3>1. x \in Holdings
        <4>1. CASE e.packet.type \in forward
          <5>1. PICK g, h : h[3] = e /\ Holdings' \subseteq (Holdings \ {g}) \cup {h}
            BY <1>2, <4>1 DEF Moves
          <5>2. ~IsReply(e.packet)
            BY <4>1 DEF IsReply
          <5> HIDE DEF e
          <5> QED BY <2>2, <5>1, <5>2
        <4>2. CASE e.packet.type \notin forward
          BY <1>2, <4>2 DEF Loses
        <4> QED BY <4>1, <4>2
      <3> QED BY <1>0, <2>2, <3>1 DEF ReplyLast
    <2> QED BY <1>0, <2>1, <2>2 DEF ReplyLast
  <1> QED BY <1>0, <1>1, <1>3, <1>4, <1>5, CalmStep DEF Session, Unlengthened

LEMMA SpiToServerSession ==
  ASSUME OneSession, Session, RingInv', NotStarted', Tokens', SpiToServer, SpiPasses
  PROVE  Session'
  <1> DEFINE e == Head(spi_comms_input_queue)
             f == [e EXCEPT !.packet.type = "to_client"]
  <1>0. /\ GInv /\ GInv' /\ Places /\ ForwardOrder /\ ReplyLast
        /\ spi_comms_input_queue # <<>> /\ spi_comms_input_queue' = Tail(spi_comms_input_queue)
        /\ spi_comms_input_queue \in Seq(Entries) /\ e \in Entries
        /\ UNCHANGED <<server_queue, spi_comms_output_queue>>
    BY FirstTyped DEF Session, RingInv, SpiToServer, Dispatch
  <1>1. Calm
    <2>1. UNCHANGED <<client, clientEntry, trans, next, peer, conns, sent, unread, delivered,
                      answered, extra, returned, wifi>>
      BY DEF SpiToServer, line, clientVars, peerVars, ctxVars, wifiVars
    <2> QED BY <2>1, SameReserved DEF Calm
  <1>2. e.packet.type = "to_gdb" /\ Moves("input", e, "spi", f)
    <2>1. ~SpiConsumes /\ ~SpiForwards
      BY DEF SpiConsumes, SpiToServer, SpiForwards, Dispatch
    <2> QED BY <2>1 DEF SpiPasses
  <1>3. /\ f.buf = e.buf /\ KindOf(f) = "message" /\ KindOf(e) = "message"
        /\ f.packet.type = "to_client" /\ f.packet.id = e.packet.id
    BY <1>0, <1>2, RetypedKind DEF KindOf, Kind, Entries, Packets
  <1>4. Places' /\ Follows /\ NotWifi
    <2>1. KindOf(f) \in Allowed("spi")
      BY <1>3 DEF Allowed
    <2> HIDE DEF e, f
    <2> QED BY <1>0, <1>2, <1>3, <2>1, MovesKinds, MustFollow
  <1>5. ForwardOrder'
    BY <1>0, TailOrder DEF ForwardOrder
  <1>6. ReplyLast'
    <2>1. /\ AtEnd(Tail(spi_comms_input_queue))
          /\ IsReply(e.packet) => Tail(spi_comms_input_queue) = <<>>
      BY <1>0, TailOrder DEF ReplyLast
    <2>2. PICK g, h : /\ g \in Holdings
                      /\ h[1] = "spi" /\ h[3] = f
                      /\ Holdings' \subseteq (Holdings \ {g}) \cup {h}
      BY <1>2 DEF Moves
    <2>3. IsReply(f.packet) => IsReply(e.packet)
      BY <1>2, <1>3 DEF IsReply
    <2>4. ASSUME NEW x \in Holdings', IsReply(x[3].packet)
          PROVE  \/ x[1] = "input"
                 \/ x[1] = "spi" /\ Tail(spi_comms_input_queue) = <<>>
      <3> HIDE DEF e, f
      <3>1. CASE x \in Holdings
        BY <1>0, <2>4, <3>1 DEF ReplyLast
      <3>2. CASE x = h
        BY <2>1, <2>2, <2>3, <2>4, <3>2
      <3> QED BY <2>2, <3>1, <3>2
    <2> QED BY <1>0, <2>1, <2>4 DEF ReplyLast
  <1> QED BY <1>0, <1>1, <1>4, <1>5, <1>6, CalmStep DEF Session, Unlengthened

LEMMA SpiForwardsSession ==
  ASSUME OneSession, Session, RingInv', NotStarted', Tokens', SpiForwards, SpiPasses
  PROVE  Session'
  <1>0. /\ GInv /\ GInv' /\ Places /\ ForwardOrder /\ ReplyLast /\ Tokens
        /\ spiMessage \in Entries /\ spiMessage # NONE /\ spiMessage' = NONE
        /\ server_queue \in Seq(Entries) /\ server_queue' = Append(server_queue, spiMessage)
        /\ UNCHANGED <<spi_comms_input_queue, spi_comms_output_queue>>
    BY DEF Session, RingInv, SpiForwards, GInv, Pointers, TypeOK
  <1>1. Calm
    <2>1. UNCHANGED <<client, clientEntry, trans, next, peer, conns, sent, unread, delivered,
                      answered, extra, returned, wifi>>
      BY DEF SpiForwards, ring, line, clientVars, peerVars, ctxVars, wifiVars
    <2> QED BY <2>1, SameReserved DEF Calm
  <1>2. Moves("spi", spiMessage, "server_queue", spiMessage)
    <2>1. ~SpiConsumes /\ ~SpiToServer
      BY DEF SpiConsumes, SpiToServer, SpiForwards, Dispatch
    <2> QED BY <2>1 DEF SpiPasses
  <1>3. Places' /\ Follows /\ NotWifi
    <2>1. KindOf(spiMessage) \in Allowed("server_queue")
      BY <1>0, HeldKinds DEF Allowed
    <2> QED BY <1>0, <1>2, <2>1, MovesKinds, MustFollow
  <1>4. ForwardOrder'
    BY <1>0 DEF ForwardOrder
  <1>5. ReplyLast'
    <2>1. PICK g, h :
            /\ g \in Holdings
            /\ g[1] = "spi" /\ g[3] = spiMessage /\ h[1] = "server_queue" /\ h[3] = spiMessage
            /\ Holdings' \subseteq (Holdings \ {g}) \cup {h}
      BY <1>2 DEF Moves
    <2>2. \A x \in Holdings : IsReply(x[3].packet) => x[1] \notin {"server_queue", "server"}
      BY <1>0 DEF ReplyLast
    <2>3. NoReply(server_queue)
      BY <2>2, IsHeld DEF WhereHeld, NoReply
    <2>4. AtEnd(Append(server_queue, spiMessage))
      BY <1>0, <2>3, AppendOrder
    <2>5. ASSUME NEW x \in Holdings', IsReply(x[3].packet)
          PROVE  /\ x[1] # "input" => spi_comms_input_queue = <<>>
                 /\ x[1] # "server"
      <3>1. CASE x \in Holdings
        BY <1>0, <2>2, <2>5, <3>1 DEF ReplyLast
      <3>2. CASE x = h
        BY <1>0, <2>1, <2>5, <3>2 DEF ReplyLast
      <3> QED BY <2>1, <3>1, <3>2
    <2> QED BY <1>0, <2>4, <2>5 DEF ReplyLast
  <1> QED BY <1>0, <1>1, <1>3, <1>4, <1>5, CalmStep DEF Session, Unlengthened

(* Steps that leave the queues alone.                                        *)
LEMMA Unmoved ==
  ASSUME Session, Frees,
         UNCHANGED <<spi_comms_input_queue, spi_comms_output_queue, server_queue, spiMessage>>
  PROVE  /\ Places' /\ ForwardOrder' /\ ReplyLast'
         /\ Follows /\ NotWifi /\ Kinds' \subseteq Kinds /\ (Holdings = {} => Holdings' = {})
  <1>1. Places' /\ Kinds' \subseteq Kinds
    BY FreesKinds DEF Session
  <1>2. ForwardOrder'
    BY DEF Session, ForwardOrder
  <1>3. ReplyLast'
    BY DEF Session, ReplyLast, Frees
  <1> QED BY <1>1, <1>2, <1>3, MustFollow DEF Frees

LEMMA SelectToReadSession ==
  ASSUME OneSession, Session, RingInv', NotStarted', Tokens', SelectToRead \/ AcceptFails \/ UNCHANGED vars,
         Frees
  PROVE  Session'
  <1>1. /\ UNCHANGED <<spi_comms_input_queue, spi_comms_output_queue, server_queue, spiMessage,
                       client, clientEntry, next, peer, conns, sent, unread, delivered,
                       answered, extra, returned, wifi>>
        /\ trans' = trans \/ (trans.dir # "rx" /\ trans'.dir # "rx")
    BY DEF SelectToRead, AcceptFails, vars, ring, queues, line, Idle, spiVars, clientVars, peerVars, ctxVars, wifiVars
  <1>2. Calm
    BY <1>1, SameReserved DEF Calm
  <1>3. GInv'
    BY DEF RingInv
  <1> QED BY <1>1, <1>2, <1>3, Unmoved, CalmStep DEF Session, Unlengthened

(* The network client asks, having all its answers, ...                      *)
LEMMA RequestSession ==
  ASSUME OneSession, Session, RingInv', NotStarted', Tokens', Request, Frees
  PROVE  Session'
  <1>0. GInv /\ GInv' /\ Beginning /\ Closing /\ Delivering /\ Tokens
    BY DEF Session, RingInv
  <1>1. /\ UNCHANGED <<spi_comms_input_queue, spi_comms_output_queue, server_queue, spiMessage,
                       client, clientEntry, trans, next, peer, conns, delivered,
                       answered, extra, returned, wifi>>
        /\ peer = "connected" /\ sent' = sent + 1 /\ unread' /\ ~unread
        /\ sent < Len(returned) + 1
    BY DEF Request, OneSession, ring, queues, line, spiVars, clientVars, ctxVars, wifiVars
  <1>2. sent = Len(returned)
    BY <1>0, <1>1, CountersTyped DEF Tokens, Counters
  <1>3. ~Ending /\ ~Posted /\ ~Posted'
    BY <1>0, <1>1, <1>2, AtRest DEF Closing, OneSession, Posted
  <1>4. /\ Places' /\ ForwardOrder' /\ ReplyLast' /\ Follows /\ NotWifi /\ Kinds' \subseteq Kinds
        /\ (Holdings = {} => Holdings' = {})
    BY <1>1, Unmoved
  <1>5. task' = task /\ Ending' = Ending /\ CanAnswer' = CanAnswer /\ Sending' = Sending
    BY <1>1 DEF task, Ending, CanAnswer, Sending
  <1>6. Beginning' /\ Closing' /\ Delivering'
    <2>1. Beginning'
      BY <1>0, <1>1, <1>4, <1>5 DEF Beginning, NotWifi
    <2>2. Closing'
      BY <1>0, <1>1, <1>3, <1>4, <1>5 DEF Closing, Ending
    <2>3. Delivering'
      BY <1>0, <1>1, <1>4, <1>5 DEF Delivering
    <2> QED BY <2>1, <2>2, <2>3
  <1>7. Falling
    <2>1. ClientWill' = ClientWill
      BY <1>3, <1>5 DEF ClientWill
    <2>2. InfoLeft' <= InfoLeft /\ StatusLeft' <= StatusLeft
      BY <1>1, <1>4, <1>5 DEF InfoLeft, StatusLeft, Bit
    <2>3. Coming' <= Coming
      BY <1>0, <1>1, <1>4, ComingFalls
    <2> QED BY <1>0, <2>1, <2>2, <2>3, LeqSame DEF Falling
  <1>8. HoldBounds' /\ WaitBounds' /\ DoneBounds'
    <2>1. Reserved' = Reserved
      BY <1>1, SameReserved
    <2>2. Posted' = Posted
      BY <1>3 DEF Posted
    <2> QED BY <1>0, <1>1, <1>4, <1>5, <1>7, <2>1, <2>2, BoundsFall DEF Unlengthened
  <1> QED BY <1>4, <1>6, <1>8 DEF Session

(* ... leaves, having all its answers, ...                                   *)
LEMMA LeaveSession ==
  ASSUME OneSession, Session, RingInv', NotStarted', Tokens', Leave, Frees
  PROVE  Session'
  <1>0. GInv /\ GInv' /\ Beginning /\ Closing /\ Delivering /\ Tokens
    BY DEF Session, RingInv
  <1>1. /\ UNCHANGED <<spi_comms_input_queue, spi_comms_output_queue, server_queue, spiMessage,
                       client, clientEntry, trans, next, conns, sent, unread, delivered,
                       answered, extra, returned, wifi>>
        /\ peer = "connected" /\ peer' = "left" /\ sent = conns * MaxReq /\ Len(returned) = sent
    BY DEF Leave, OneSession, ring, queues, line, spiVars, clientVars, ctxVars, wifiVars
  <1>2. sent >= 1
    BY <1>0, <1>1 DEF Closing, OneSession
  <1>3. /\ Places' /\ ForwardOrder' /\ ReplyLast' /\ Follows /\ NotWifi /\ Kinds' \subseteq Kinds
        /\ (Holdings = {} => Holdings' = {})
    BY <1>1, Unmoved
  <1>4. task' = task /\ Ending' = Ending /\ CanAnswer' = CanAnswer /\ Sending' = Sending
        /\ Posted' = Posted
    BY <1>1 DEF task, Ending, CanAnswer, Sending, Posted
  <1>5. Beginning' /\ Closing' /\ Delivering'
    <2>1. Beginning'
      BY <1>0, <1>1, <1>3, <1>4 DEF Beginning, NotWifi
    <2>2. Closing'
      BY <1>0, <1>1, <1>2, <1>3, <1>4 DEF Closing
    <2>3. Delivering'
      BY <1>0, <1>1, <1>3, <1>4 DEF Delivering
    <2> QED BY <2>1, <2>2, <2>3
  <1>6. Falling
    <2>1. ClientWill' = ClientWill
      BY <1>4 DEF ClientWill
    <2>2. InfoLeft' <= InfoLeft /\ StatusLeft' <= StatusLeft
      BY <1>1, <1>3, <1>4 DEF InfoLeft, StatusLeft, Bit
    <2>3. Coming' <= Coming
      BY <1>0, <1>1, <1>3, ComingFalls
    <2> QED BY <1>0, <2>1, <2>2, <2>3, LeqSame DEF Falling
  <1>7. HoldBounds' /\ WaitBounds' /\ DoneBounds'
    <2>1. Reserved' = Reserved
      BY <1>1, SameReserved
    <2> QED BY <1>0, <1>1, <1>3, <1>4, <1>6, <2>1, BoundsFall DEF Unlengthened
  <1> QED BY <1>3, <1>5, <1>7 DEF Session

(* ... and has connected before, when the network had been reported.         *)
LEMMA AcceptSession ==
  ASSUME OneSession, Session, RingInv', NotStarted', Tokens', Accept, Frees
  PROVE  Session'
  <1>0. GInv /\ GInv' /\ Beginning /\ Closing /\ Delivering /\ Tokens /\ NotStarted
    BY DEF Session, RingInv
  <1>1. /\ UNCHANGED <<spi_comms_input_queue, spi_comms_output_queue, server_queue, spiMessage,
                       clientEntry, trans, next, sent, unread, delivered,
                       answered, extra, returned, wifi>>
        /\ peer' = "connected" /\ conns' = conns + 1 /\ conns < 1 /\ wifi = "reported"
        /\ client' \in {client, [client EXCEPT ![conns + 1] = "hello"]}
    BY DEF Accept, OneSession, ring, queues, line, spiVars, ctxVars, wifiVars
  <1>2. conns = 0 /\ Conns = {1} /\ client \in [Conns -> {"none", "hello", "take", "read", "package",
                                                     "post", "bye", "report", "deleted"}]
    BY <1>0, <1>1, OneTask DEF OneSession, GInv, TypeOK
  <1>3. task = "none" /\ task' \in {"none", "hello"} /\ conns' = 1
    BY <1>0, <1>1, <1>2 DEF NotStarted, task
  <1>4. /\ Places' /\ ForwardOrder' /\ ReplyLast' /\ Follows /\ NotWifi /\ Kinds' \subseteq Kinds
        /\ (Holdings = {} => Holdings' = {})
    BY <1>1, Unmoved
  <1>5. CanAnswer' = CanAnswer /\ ~Ending /\ ~Ending'
    BY <1>1, <1>3 DEF Ending, CanAnswer
  <1>6. Sending = {} /\ Sending' = {} /\ Reading = {} /\ Reading' = {}
    BY <1>1, <1>2, <1>3 DEF Sending, Reading, task
  <1>7. Beginning' /\ Closing' /\ Delivering'
    <2>1. Beginning'
      BY <1>0, <1>1, <1>3, <1>4 DEF Beginning, NotWifi
    <2>2. Closing'
      BY <1>0, <1>1, <1>3, <1>4, <1>5 DEF Closing
    <2>3. Delivering'
      BY <1>0, <1>1, <1>3, <1>4, <1>5 DEF Delivering
    <2> QED BY <2>1, <2>2, <2>3
  <1>8. Posted' = Posted
    BY <1>1, <1>3 DEF Posted
  <1>9. Falling
    <2>1. ClientWill' = ClientWill
      BY <1>3 DEF ClientWill
    <2>2. InfoLeft' <= InfoLeft /\ StatusLeft' <= StatusLeft
      BY <1>1, <1>3, <1>4 DEF InfoLeft, StatusLeft, Bit
    <2>3. Coming' <= Coming
      BY <1>0, <1>1, <1>4, ComingFalls
    <2> QED BY <1>0, <2>1, <2>2, <2>3, LeqSame DEF Falling
  <1>10. HoldBounds' /\ WaitBounds' /\ DoneBounds'
    <2>1. Reserved' = Reserved
      BY <1>1, <1>6 DEF Reserved, ToRead, ToReceive
    <2> QED BY <1>0, <1>1, <1>4, <1>6, <1>8, <1>9, <2>1, BoundsFall DEF Unlengthened
  <1> QED BY <1>4, <1>7, <1>10 DEF Session

(* Before the network is reported nothing else happens.                      *)
LEMMA WifiConnectedSession ==
  ASSUME OneSession, Session, RingInv', NotStarted', Tokens', WifiConnected, WifiPasses
  PROVE  Session'
  <1>0. GInv /\ GInv' /\ Places /\ Beginning /\ Closing /\ Delivering /\ ForwardOrder /\ HoldBounds
        /\ WaitBounds
    BY DEF Session, RingInv
  <1>1. /\ UNCHANGED <<spi_comms_input_queue, spi_comms_output_queue, server_queue,
                       client, clientEntry, trans, peer, conns, sent, unread, delivered,
                       answered, extra, returned>>
        /\ wifi = "poll" /\ wifi' = "delay" /\ Take
    BY DEF WifiConnected, Build, queues, line, clientVars, peerVars, ctxVars
  <1>2. Gains("wifi", Built(Packet("network_info", 0)))
    BY DEF WifiPasses, WifiConnected, WifiReports
  <1>3. PICK h : /\ h[1] = "wifi" /\ h[3] = Built(Packet("network_info", 0))
                 /\ Holdings' \subseteq Holdings \cup {h}
    BY <1>2 DEF Gains
  <1>4. Holdings = {} /\ task = "none"
    BY <1>0, <1>1 DEF Beginning
  <1>5. KindOf(h[3]) = "network_info" /\ h[3].buf = next
    BY <1>3, NewKinds DEF Kind, Built
  <1>6. Kinds = {} /\ Kinds' \subseteq {"network_info"} /\ Places'
    BY <1>3, <1>4, <1>5 DEF Kinds, Places, Allowed
  <1>7. task' = task /\ Ending' = Ending /\ CanAnswer' = CanAnswer
    BY <1>1 DEF task, Ending, CanAnswer
  <1>8. trans.dir # "rx" /\ Reading = {}
    BY <1>0, <1>4, OneTask, CountersTyped DEF Beginning, Delivering, CanAnswer, OneSession
  <1>9. Reserved' = {}
    BY <1>1, <1>8 DEF Reserved, ToRead, ToReceive, Reading
  <1>10. Beginning' /\ Closing' /\ Delivering'
    <2>1. Beginning'
      BY <1>0, <1>1, <1>3, <1>4, <1>6, <1>7 DEF Beginning
    <2>2. Closing'
      BY <1>0, <1>1, <1>4, <1>6, <1>7 DEF Closing
    <2>3. Delivering'
      <3>1. Len(delivered) = 0 /\ Len(returned) \in Nat
        BY <1>0, <1>4, CountersTyped DEF Beginning
      <3>2. Len(returned) = 0
        BY <1>0, <3>1, CountersTyped DEF Session, Tokens, Counters
      <3> QED BY <1>1, <1>6, <1>8, <3>1, <3>2 DEF Delivering
    <2> QED BY <2>1, <2>2, <2>3
  <1>11. ForwardOrder' /\ ReplyLast' /\ DoneBounds'
    <2>1. ForwardOrder'
      BY <1>0, <1>1 DEF ForwardOrder
    <2> QED BY <1>0, <1>6, <2>1, NothingSaidNext DEF NoMessage, NoCompletion
  <1>12. HoldBounds'
    <2>1. Cost("network_info")' = ClientWill' /\ ClientWill' = 3
      BY <1>4, <1>7, CostIs DEF ClientWill
    <2>2. 1 + Cost("network_info")' <= Unsolicited + 6
      BY <2>1
    <2> QED BY <1>0, <1>1, <1>3, <1>4, <1>5, <2>2, HoldTake
  <1>13. WaitBounds'
    BY <1>9 DEF WaitBounds
  <1> QED BY <1>6, <1>10, <1>11, <1>12, <1>13 DEF Session

LEMMA WifiReportsSession ==
  ASSUME OneSession, Session, RingInv', NotStarted', Tokens', WifiReports, WifiPasses
  PROVE  Session'
  <1>0. GInv /\ GInv' /\ Places /\ Beginning /\ Closing /\ Delivering /\ ForwardOrder
    BY DEF Session, RingInv
  <1>1. /\ UNCHANGED <<spi_comms_output_queue, server_queue, client, clientEntry, trans, next, peer,
                       conns, sent, unread, delivered, answered, extra, returned>>
        /\ wifi = "delay" /\ wifi' = "reported" /\ wifiEntry' = NONE /\ ToSpi(wifiEntry)
    BY DEF WifiReports, ring, line, clientVars, peerVars, ctxVars
  <1>2. Moves("wifi", wifiEntry, "input", wifiEntry)
    BY DEF WifiPasses, WifiConnected, WifiReports
  <1>3. KindOf(wifiEntry) = "network_info" /\ wifiEntry \in Entries
    BY <1>0, <1>1, HeldKinds DEF GInv, Pointers, Allowed
  <1>4. Places' /\ Follows /\ Kinds' \subseteq Kinds /\ Kinds \subseteq {"network_info"}
    <2>1. KindOf(wifiEntry) \in Allowed("input")
      BY <1>3 DEF Allowed, Forward
    <2>2. Kinds \subseteq {"network_info"}
      BY <1>0, <1>1 DEF Beginning, Places, Kinds, Allowed
    <2>3. Follows
      BY <1>2, MustFollow
    <2> QED BY <1>0, <1>2, <2>1, <2>2, <2>3, MovesKinds, FollowsKinds
  <1>5. \A h \in Holdings' : h[1] # "wifi"
    BY <1>1, HeldNext DEF WhatHeld
  <1>6. spi_comms_input_queue \in Seq(Entries) /\ DOMAIN spi_comms_input_queue = {}
        /\ DOMAIN spi_comms_output_queue = {}
    BY <1>0, <1>1, IsHeld DEF Beginning, WhereHeld, GInv, TypeOK
  <1>7. task = "none" /\ task' = task /\ Ending' = Ending /\ CanAnswer' = CanAnswer
        /\ Posted' = Posted
    BY <1>0, <1>1 DEF Beginning, task, Ending, CanAnswer, Posted
  <1>8. Beginning' /\ Closing' /\ Delivering'
    <2>1. Beginning'
      BY <1>0, <1>1, <1>4, <1>5, <1>7 DEF Beginning
    <2>2. Closing'
      BY <1>0, <1>1, <1>4, <1>7 DEF Closing
    <2>3. Delivering'
      BY <1>0, <1>1, <1>4, <1>7 DEF Delivering
    <2> QED BY <2>1, <2>2, <2>3
  <1>9. ForwardOrder'
    <2>1. /\ Ordered(Append(spi_comms_input_queue, wifiEntry))
          /\ Follow(spi_comms_output_queue, Append(spi_comms_input_queue, wifiEntry))
      BY <1>0, <1>3, <1>6, AppendOrder DEF ForwardOrder, Precedes
    <2> QED BY <1>0, <1>1, <2>1 DEF ForwardOrder, ToSpi, Enqueue
  <1>10. ReplyLast' /\ DoneBounds'
    BY <1>0, <1>4, NothingSaidNext DEF NoMessage, NoCompletion
  <1>11. Falling
    <2>1. ClientWill' = ClientWill
      BY <1>7 DEF ClientWill
    <2>2. InfoLeft' <= InfoLeft /\ StatusLeft' <= StatusLeft
      BY <1>1, <1>4, <1>7 DEF InfoLeft, StatusLeft, Bit
    <2>3. Coming' <= Coming
      BY <1>0, <1>1, <1>4, ComingFalls
    <2> QED BY <1>0, <2>1, <2>2, <2>3, LeqSame DEF Falling
  <1>12. HoldBounds' /\ WaitBounds'
    <2>1. Reserved' = Reserved
      BY <1>1, SameReserved
    <2> QED BY <1>0, <1>1, <1>4, <1>7, <1>11, <2>1, HoldWaitFall
  <1> QED BY <1>4, <1>8, <1>9, <1>10, <1>12 DEF Session

(* The network client gets a packet: the answer is the last it can get.      *)
LEMMA ServerSendsSession ==
  ASSUME OneSession, Session, RingInv', NotStarted', Tokens', ServerSends, ServerPasses
  PROVE  Session'
  <1> DEFINE p == serverMessage.packet
  <1>0. GInv /\ GInv' /\ Places /\ Beginning /\ Closing /\ Delivering /\ Tokens /\ Tokens'
        /\ ReplyLast /\ WaitBounds /\ RingInv
    BY DEF Session, RingInv
  <1>1. /\ UNCHANGED <<spi_comms_input_queue, spi_comms_output_queue, server_queue, spiMessage,
                       client, clientEntry, trans, next, peer, conns, sent, unread, delivered,
                       answered, extra, wifi>>
        /\ server = "send"
    BY DEF ServerSends, ring, queues, line, spiVars, clientVars, wifiVars, peerVars, ctxVars
  <1>2. serverMessage \in Entries /\ Loses("server", serverMessage)
    BY <1>1 DEF ServerPasses, ServerReceives
  <1>3. PICK g \in Holdings : /\ g[1] = "server" /\ g[3] = serverMessage
                              /\ Holdings' \subseteq Holdings \ {g}
    BY <1>2 DEF Loses
  <1>4. content[serverMessage.buf] = p
    BY <1>0, <1>3 DEF RingInv, Kept
  <1>5. returned' = IF p.id # 0 THEN Append(returned, p.id) ELSE returned
    BY <1>4 DEF ServerSends, Returns
  <1>6. Frees
    BY <1>3 DEF Frees
  <1>7. /\ Places' /\ ForwardOrder' /\ ReplyLast'
        /\ Follows /\ NotWifi /\ Kinds' \subseteq Kinds /\ (Holdings = {} => Holdings' = {})
    BY <1>1, <1>6, Unmoved
  <1>8. Reserved' = Reserved /\ (trans'.dir = "rx" <=> trans.dir = "rx")
    BY <1>1, SameReserved
  <1>9. CASE p.id = 0
    <2>1. Calm
      BY <1>1, <1>5, <1>8, <1>9 DEF Calm
    <2> QED BY <1>0, <1>1, <1>7, <2>1, CalmStep DEF Session, Unlengthened
  <1>10. CASE p.id # 0
    <2>1. IsReply(g[3].packet)
      <3>1. p.type = "to_client"
        BY <1>0, <1>2 DEF Tokens, ByPlace
      <3> QED BY <1>3, <1>10, <3>1 DEF IsReply
    <2>2. sent = Len(delivered) /\ sent > Len(returned) /\ ~CanAnswer
      BY <1>0, <2>1, ReplyMeans
    <2>3. /\ "request" \notin Kinds /\ ~unread /\ Len(delivered) >= 1
          /\ "network_info" \notin Kinds /\ "status" \notin Kinds /\ "command" \notin Kinds
          /\ ~Ending /\ task \in {"take", "read"} /\ Posted
      BY <2>2, WithCtxLink DEF OneSession
    <2>4. spi_comms_input_queue = <<>> /\ server_queue = <<>> /\ spiMessage = NONE
      BY <1>0, <1>3, <2>1 DEF ReplyLast
    <2>5. Holdings' = {}
      <3>1. ASSUME NEW h \in Holdings PROVE h = g
        <4>1. KindOf(h[3]) \in Allowed(h[1]) /\ KindOf(h[3]) \in Kinds
          BY <1>0 DEF Places, Kinds
        <4>2. h[1] \notin {"output", "wifi", "client"}
          BY <2>3, <4>1 DEF Allowed, Forward
        <4>3. h[1] \notin {"input", "server_queue", "spi"}
          BY <2>4, HeldIs DEF WhatHeld
        <4>4. h[3] = g[3]
          BY <1>3, <4>2, <4>3, HeldIs DEF WhatHeld
        <4> QED BY <1>0, <4>4 DEF RingInv, OneHolder
      <3> QED BY <1>3, <3>1
    <2>6. Kinds' = {}
      BY <2>5 DEF Kinds
    <2>7. Len(returned') = Len(returned) + 1 /\ Len(returned) \in Nat
      <3>1. p.id \in Ids /\ returned \in Seq(Ids)
        BY <1>0, <1>2, EntryParts DEF GInv, TypeOK, Packets
      <3> QED BY <1>5, <1>10, <3>1
    <2>8. Len(returned') = sent
      <3>1. sent <= Len(returned) + 1 /\ sent \in Nat
        BY <1>0, CountersTyped DEF Tokens, Counters
      <3> QED BY <2>2, <2>7, <3>1
    <2>9. task' = task /\ Ending' = Ending /\ CanAnswer' = CanAnswer /\ ~Posted'
      <3>1. sent' = Len(returned') /\ Len(returned') \in Nat
        BY <1>0, <1>1, <2>8, CountersTyped
      <3>2. ~Posted'
        BY <3>1 DEF Posted
      <3> QED BY <1>1, <3>2 DEF task, Ending, CanAnswer
    <2>10. Beginning' /\ Closing' /\ Delivering'
      <3>1. Beginning'
        BY <1>0, <1>1, <1>7, <2>3, <2>5, <2>9 DEF Beginning, NotWifi
      <3>2. Closing'
        <4>1. peer # "left"
          BY <1>0, <2>2, CountersTyped DEF Closing
        <4> QED BY <1>0, <1>1, <2>3, <2>6, <2>9, <4>1 DEF Closing
      <3>3. Delivering'
        BY <1>0, <1>1, <2>6, <2>9 DEF Delivering
      <3> QED BY <3>1, <3>2, <3>3
    <2>11. HoldBounds' /\ DoneBounds'
      <3>1. HoldBounds'
        BY <2>5 DEF HoldBounds
      <3> QED BY <1>0, <2>6, <3>1, NothingSaidNext DEF NoCompletion
    <2>12. WaitBounds'
      <3>1. ASSUME NEW r \in Reserved'
            PROVE  WaitCost(r)' <= WaitCost(r)
        <4>1. r \in ToRead /\ r[1] # 0
          <5>1. trans.dir # "rx"
            BY <1>0, <2>2 DEF Delivering
          <5>2. ToReceive = {}
            BY <5>1 DEF ToReceive
          <5> QED BY <1>0, <1>8, <5>2, ReservedTyped DEF Reserved
        <4>2. WaitCost(r) = Others + Coming + 1
          BY <2>3, CostIs DEF WaitCost, Forward
        <4>3. WaitCost(r)' = Others'
          <5>1. WaitCost(r)' = Cost("request")'
            BY <2>9, <4>1 DEF WaitCost
          <5> QED BY <5>1, CostIs
        <4>4. ClientWill' = ClientWill + 1
          BY <2>3, <2>9 DEF ClientWill, Bit
        <4>5. InfoLeft' <= InfoLeft /\ StatusLeft' <= StatusLeft
          BY <1>1, <2>6, <2>9 DEF InfoLeft, StatusLeft, Bit
        <4> DEFINE w == ClientWill'
                   i == InfoLeft'
                   s == StatusLeft'
                   o == Others'
        <4>6. /\ Numbers /\ o = w + i + s /\ w \in Nat /\ i \in Nat /\ s \in Nat
              /\ w = ClientWill + 1 /\ i <= InfoLeft /\ s <= StatusLeft
              /\ Others = ClientWill + InfoLeft + StatusLeft
          BY <1>0, <4>4, <4>5, NumbersTyped, NumbersNext, Totals DEF Numbers
        <4> HIDE DEF w, i, s, o
        <4>7. o <= Others + Coming + 1
          BY <4>6 DEF Numbers
        <4> QED BY <4>2, <4>3, <4>7 DEF o
      <3> QED BY <1>0, <1>1, <1>8, <3>1, WaitCalm
    <2> QED BY <1>0, <1>7, <2>10, <2>11, <2>12 DEF Session
  <1> QED BY <1>9, <1>10
-----------------------------------------------------------------------------
(* A packet of another kind is queued after the completions.                 *)
LEMMA DoneLengthens ==
  ASSUME GInv, NEW e \in Entries, ToSpi(e) \/ UNCHANGED spi_comms_input_queue,
         KindOf(e) # "completed", Sending # {} => Sending' # {},
         NEW i \in DOMAIN spi_comms_input_queue', InputKind(i)' = "completed"
  PROVE  \E j \in DOMAIN spi_comms_input_queue :
           /\ spi_comms_input_queue[j] = spi_comms_input_queue'[i]
           /\ Behind(j) => Behind(i)'
  <1>1. spi_comms_input_queue \in Seq(Entries)
    BY DEF GInv, TypeOK
  <1>2. KindOf(spi_comms_input_queue'[i]) = "completed"
    BY DEF InputKind
  <1>3. \E j \in DOMAIN spi_comms_input_queue :
          /\ spi_comms_input_queue[j] = spi_comms_input_queue'[i]
          /\ After(spi_comms_input_queue, j) => After(spi_comms_input_queue', i)
    <2>1. CASE UNCHANGED spi_comms_input_queue
      BY <2>1
    <2>2. CASE spi_comms_input_queue' = Append(spi_comms_input_queue, e)
      BY <1>1, <1>2, <2>2, AppendAfter
    <2> QED BY <2>1, <2>2 DEF ToSpi, Enqueue
  <1> QED BY <1>3 DEF Behind

(* A buffer is taken by the client task, for a packet or to read into.       *)
LEMMA ClientTakesOne ==
  ASSUME OneSession, Session, GInv', Take, next \notin InUse,
         Falling, ClientWill' + 1 <= ClientWill,
         NEW h, Holdings' \subseteq Holdings \cup {h}, h[3].buf = next,
         KindOf(h[3]) # "completed" => 1 + Cost(KindOf(h[3]))' <= Unsolicited + 6,
         NEW e \in Entries, ToSpi(e) \/ UNCHANGED spi_comms_input_queue,
         KindOf(e) # "completed", Sending # {} => Sending' # {}
  PROVE  HoldBounds' /\ DoneBounds'
  <1>0. GInv /\ HoldBounds /\ DoneBounds /\ Numbers /\ Numbers'
    BY NumbersTyped, NumbersNext DEF Session, RingInv
  <1>1. \A g \in Holdings : g[3].buf # next
    BY <1>0, Unused
  <1>2. (\A k : Cost(k)' + 1 <= Cost(k)) /\ Others' + 1 <= Others /\ Others' <= Others
    BY <1>0, CostsFall
  <1>3. HoldBounds'
    BY <1>0, <1>1, <1>2, HoldTake
  <1>4. ASSUME NEW i \in DOMAIN spi_comms_input_queue', InputKind(i)' = "completed"
        PROVE  \E j \in DOMAIN spi_comms_input_queue :
                 /\ spi_comms_input_queue[j] = spi_comms_input_queue'[i]
                 /\ DoneCost(i)' + 1 <= DoneCost(j)
    <2>1. PICK j \in DOMAIN spi_comms_input_queue :
            /\ spi_comms_input_queue[j] = spi_comms_input_queue'[i]
            /\ Behind(j) => Behind(i)'
      BY <1>0, <1>4, DoneLengthens
    <2>2. DoneCost(i)' + 1 <= DoneCost(j)
      BY <1>0, <1>2, <2>1, DoneCostFalls DEF Falling
    <2> QED BY <2>1, <2>2
  <1>5. DoneBounds'
    BY <1>0, <1>1, <1>4, DoneTake
  <1> QED BY <1>3, <1>5

LEMMA OneClient ==
  ASSUME OneSession, Session, NEW k \in Conns, NEW from, NEW to, ClientAt(k, from, to)
  PROVE  /\ k = 1 /\ task = from /\ task' = to
         /\ Sending' # {} <=> task' \in {"package", "post"}
         /\ Reading' # {} <=> task' = "read"
         /\ Sending # {} <=> task \in {"package", "post"}
         /\ Reading # {} <=> task = "read"
  <1>1. Conns = {1} /\ client \in [Conns -> {"none", "hello", "take", "read", "package",
                                             "post", "bye", "report", "deleted"}]
    BY OneTask DEF OneSession, Session, RingInv, GInv, TypeOK
  <1>2. k = 1 /\ task = from /\ task' = to /\ client' = [client EXCEPT ![1] = to]
    BY <1>1 DEF ClientAt, task
  <1>3. client'[1] = task'
    BY DEF task
  <1> QED BY <1>1, <1>2, <1>3 DEF Sending, Reading, task

(* The client task reports a connection.                                     *)
LEMMA SendConnectedSession ==
  ASSUME OneSession, Session, RingInv', NotStarted', Tokens', FreeTaken, NEW k \in Conns,
         SendConnected(k), ClientPasses(k)
  PROVE  Session'
  <1> DEFINE e == Built(Packet("status", 1))
  <1>0. GInv /\ GInv' /\ Places /\ Beginning /\ Closing /\ Delivering /\ ForwardOrder /\ Tokens
        /\ Numbers
    BY NumbersTyped DEF Session, RingInv
  <1>1. /\ UNCHANGED <<spi_comms_output_queue, server_queue, trans, peer, conns, sent, unread,
                       delivered, answered, extra, returned, wifi>>
        /\ ClientAt(k, "hello", "take") /\ Take /\ ToSpi(e)
    BY DEF SendConnected, Build, line, wifiVars, peerVars, ctxVars
  <1>2. /\ task = "hello" /\ task' = "take" /\ Sending' = {} /\ Reading' = {} /\ Sending = {}
    BY <1>1, OneClient
  <1>3. next \notin InUse
    BY DEF FreeTaken
  <1>4. PICK i \in Ids : Gains("input", Built(Packet("status", i)))
    <2>1. client[k] = "hello"
      BY <1>1 DEF ClientAt
    <2> QED BY <2>1 DEF ClientPasses, ClientTakes, ClientReads, ClientPackages, ClientPosts,
                        ClientEnds, SendClosed, ClientAt
  <1>5. PICK h : /\ h[1] = "input" /\ h[3] = Built(Packet("status", i))
                 /\ Holdings' \subseteq Holdings \cup {h}
    BY <1>4 DEF Gains
  <1>6. KindOf(h[3]) = "status" /\ h[3].buf = next /\ KindOf(e) = "status" /\ e \in Entries
    <2>1. KindOf(h[3]) = "status" /\ h[3].buf = next /\ KindOf(e) = "status"
      BY <1>5, NewKinds DEF Kind, Built
    <2>2. e \in Entries
      BY <1>0, Builds, BuiltTyped DEF GInv, TypeOK
    <2> QED BY <2>1, <2>2
  <1>7. /\ wifi = "reported" /\ Len(delivered) = 0 /\ Len(returned) = 0 /\ ~Posted' /\ ~CanAnswer
        /\ Kinds \subseteq {"network_info", "completed"} /\ trans.dir # "rx"
    <2>1. wifi = "reported" /\ Len(delivered) = 0 /\ (unread \/ sent = 0)
          /\ Kinds \cap {"status", "request"} = {}
      BY <1>0, <1>2 DEF Beginning
    <2>2. Len(returned) = 0 /\ ~CanAnswer
      BY <1>0, <2>1, CountersTyped DEF Tokens, Counters, CanAnswer
    <2>3. "message" \notin Kinds /\ "command" \notin Kinds
      BY <1>0, <1>2, <2>1 DEF Delivering, Closing, Ending
    <2>4. Kinds \subseteq {"network_info", "status", "request", "completed", "message", "command"}
      BY <1>0, HeldIs DEF Kinds, Places, Allowed, Forward, WhatHeld
    <2>5. ~Posted'
      BY <1>1, <2>1, <2>2 DEF Posted
    <2> QED BY <1>0, <2>1, <2>2, <2>3, <2>4, <2>5 DEF Delivering
  <1>8. /\ Places' /\ Kinds' \subseteq Kinds \cup {"status"}
        /\ Kinds' \subseteq {"network_info", "completed", "status"}
    <2>1. KindOf(Built(Packet("status", i))) \in Allowed("input")
          /\ KindOf(Built(Packet("status", i))) = "status"
      BY <1>5, <1>6 DEF Allowed, Forward
    <2> QED BY <1>0, <1>4, <1>7, <2>1, GainsKinds
  <1>9. ~Ending /\ ~Ending' /\ ~CanAnswer'
    BY <1>1, <1>2, <1>7 DEF Ending, CanAnswer
  <1>10. Beginning' /\ Closing' /\ Delivering'
    <2>1. Beginning'
      BY <1>0, <1>1, <1>2, <1>5, <1>7 DEF Beginning
    <2>2. Closing'
      BY <1>0, <1>1, <1>2, <1>8, <1>9 DEF Closing
    <2>3. Delivering'
      BY <1>1, <1>7, <1>8 DEF Delivering
    <2> QED BY <2>1, <2>2, <2>3
  <1>11. ForwardOrder'
    <2>1. Precedes(spi_comms_input_queue, e) /\ Precedes(spi_comms_output_queue, e)
      BY <1>0, <1>6, <1>7, HeldKinds DEF Precedes, Forward, Rank
    <2>2. /\ Ordered(Append(spi_comms_input_queue, e))
          /\ Follow(spi_comms_output_queue, Append(spi_comms_input_queue, e))
      BY <1>0, <1>6, <2>1, FirstTyped, AppendOrder DEF ForwardOrder
    <2> QED BY <1>0, <1>1, <2>2 DEF ForwardOrder, ToSpi, Enqueue
  <1>12. ReplyLast'
    BY <1>0, <1>8, NothingSaidNext DEF NoMessage
  <1>13. ClientWill = 3 /\ ClientWill' = 2 /\ Falling
    <2>1. ClientWill = 3 /\ ClientWill' = 2
      BY <1>2, <1>7 DEF ClientWill, Bit
    <2>2. InfoLeft' <= InfoLeft /\ StatusLeft' <= StatusLeft
      BY <1>1, <1>2, <1>7, <1>8 DEF InfoLeft, StatusLeft, Bit
    <2>3. Coming' = 0
      BY <1>8, <1>9 DEF Coming
    <2> QED BY <1>0, <2>1, <2>2, <2>3 DEF Falling, Numbers
  <1>14. 1 + Cost("status")' <= Unsolicited + 6
    <2>1. Cost("status")' = ClientWill' + InfoLeft' /\ InfoLeft' \in 0..1
      BY <1>0, CostIs, NumbersNext DEF Numbers
    <2> DEFINE n == InfoLeft'
    <2>2. Cost("status")' = 2 + n /\ n \in 0..1
      BY <1>13, <2>1
    <2> HIDE DEF n
    <2> QED BY <2>2
  <1>15. HoldBounds' /\ DoneBounds'
    <2>1. KindOf(h[3]) # "completed" => 1 + Cost(KindOf(h[3]))' <= Unsolicited + 6
      BY <1>6, <1>14
    <2>2. ClientWill' + 1 <= ClientWill
      BY <1>13
    <2> HIDE DEF e
    <2> QED BY <1>0, <1>1, <1>2, <1>3, <1>5, <1>6, <1>13, <2>1, <2>2, ClientTakesOne
  <1>16. WaitBounds'
    BY <1>1, <1>2, <1>7 DEF WaitBounds, Reserved, ToRead, ToReceive
  <1> QED BY <1>8, <1>10, <1>11, <1>12, <1>15, <1>16 DEF Session

(* It takes a buffer to read into, ...                                       *)
LEMMA ClientTakesSession ==
  ASSUME OneSession, Session, RingInv', NotStarted', Tokens', FreeTaken, NEW k \in Conns,
         ClientTakes(k), ClientPasses(k)
  PROVE  Session'
  <1>0. GInv /\ GInv' /\ Places /\ Beginning /\ Closing /\ Delivering /\ Numbers /\ WaitBounds
        /\ Numbers'
    BY NumbersTyped, NumbersNext DEF Session, RingInv
  <1>1. /\ UNCHANGED <<spi_comms_input_queue, spi_comms_output_queue, server_queue, spiMessage,
                       trans, peer, conns, sent, unread, delivered, answered, extra, returned,
                       wifi>>
        /\ ClientAt(k, "take", "read") /\ Take
        /\ clientEntry' = [clientEntry EXCEPT ![k] = Built(content[next])]
    BY DEF ClientTakes, queues, line, spiVars, wifiVars, peerVars, ctxVars
  <1>2. /\ k = 1 /\ task = "take" /\ task' = "read" /\ Sending' = {} /\ Reading = {} /\ Sending = {}
    BY <1>1, OneClient
  <1>3. next \notin InUse
    BY DEF FreeTaken
  <1>4. Frees
    <2>1. client[k] = "take"
      BY <1>1 DEF ClientAt
    <2> QED BY <2>1 DEF ClientPasses, SendConnected, ClientReads, ClientPackages, ClientPosts,
                        SendDisconnected, SendClosed, ClientAt
  <1>5. /\ Places' /\ ForwardOrder' /\ ReplyLast' /\ Follows /\ NotWifi /\ Kinds' \subseteq Kinds
        /\ (Holdings = {} => Holdings' = {})
    BY <1>1, <1>4, Unmoved
  <1>6. ~Ending /\ ~Ending' /\ CanAnswer' = CanAnswer /\ Posted' = Posted
    BY <1>1, <1>2 DEF Ending, CanAnswer, Posted
  <1>7. Beginning' /\ Closing' /\ Delivering'
    <2>1. Beginning'
      BY <1>0, <1>1, <1>2, <1>5 DEF Beginning, NotWifi
    <2>2. Closing'
      BY <1>0, <1>1, <1>2, <1>5, <1>6 DEF Closing
    <2>3. Delivering'
      BY <1>0, <1>1, <1>2, <1>5, <1>6 DEF Delivering
    <2> QED BY <2>1, <2>2, <2>3
  <1>8. /\ ClientWill = 1 + Bit(~Posted) /\ ClientWill' = 0 + Bit(~Posted) /\ Bit(~Posted) \in 0..1
        /\ Posted => ClientWill' = 0
    BY <1>2, <1>6 DEF ClientWill, Bit
  <1>9. Falling
    <2>1. ClientWill' <= ClientWill
      BY <1>8
    <2>2. InfoLeft' <= InfoLeft /\ StatusLeft' <= StatusLeft
      BY <1>1, <1>2, <1>5 DEF InfoLeft, StatusLeft, Bit
    <2>3. Coming' <= Coming
      BY <1>0, <1>1, <1>5, ComingFalls
    <2> QED BY <2>1, <2>2, <2>3 DEF Falling
  <1>10. ClientWill' + 1 <= ClientWill
    BY <1>8
  <1>11. HoldBounds' /\ DoneBounds'
    <2> DEFINE e == Built(Packet("completed", 0))
               s == Built(Packet("status", 0))
               h == <<"new", 0, e>>
    <2>1. KindOf(e) = "completed" /\ KindOf(s) = "status" /\ e.buf = next /\ s \in Entries
      BY <1>0, NewKinds, Builds, BuiltTyped DEF Kind, Built, GInv, TypeOK
    <2>2. h[3] = e /\ Holdings' \subseteq Holdings \cup {h}
      BY <1>4 DEF Frees
    <2>3. KindOf(h[3]) = "completed" /\ h[3].buf = next /\ KindOf(s) # "completed"
      BY <2>1, <2>2
    <2> HIDE DEF e, s, h
    <2> QED BY <1>0, <1>1, <1>2, <1>3, <1>9, <1>10, <2>1, <2>2, <2>3, ClientTakesOne
  <1>12. WaitBounds'
    <2>0. PICK x : x = <<1, next>>
      OBVIOUS
    <2>1. x[1] = 1 /\ x[2] = next
      BY <2>0
    <2>2. Reserved' \subseteq Reserved \cup {x}
      <3>1. ToReceive' = ToReceive
        BY <1>1 DEF ToReceive
      <3>2. ToRead' \subseteq {x}
        <4>1. clientEntry'[1].buf = next
          BY <1>0, <1>1, <1>2, OneTask DEF OneSession, GInv, TypeOK, Built
        <4>2. Reading' \subseteq {1}
          BY OneTask DEF OneSession, Session, RingInv, Reading
        <4> QED BY <2>0, <4>1, <4>2 DEF ToRead
      <3> QED BY <3>1, <3>2 DEF Reserved
    <2>3. \A r \in Reserved : r[2] # next
      BY <1>0, <1>3, Unused
    <2>4. \A r \in Reserved : WaitCost(r)' + 1 <= WaitCost(r)
      <3>1. \A c : Cost(c)' + 1 <= Cost(c)
        BY <1>0, <1>9, <1>10, CostsFall
      <3> QED BY <1>6, <3>1 DEF WaitCost
    <2>5. 1 + WaitCost(x)' <= Unsolicited + 6
      <3> DEFINE w == ClientWill'
                 i == InfoLeft'
                 s == StatusLeft'
                 c == Coming'
                 o == Others'
                 n == WaitCost(x)'
      <3>1. /\ w \in 0..1 /\ (Posted => w = 0) /\ o = w + i + s
            /\ i \in 0..1 /\ s \in 0..1 /\ c \in 0..Unsolicited + 2 /\ Unsolicited \in Nat
        BY <1>0, <1>8, Totals DEF Numbers
      <3>2. n = IF Posted THEN o + c + 1 ELSE o
        <4>1. /\ Posted' => WaitCost(x)' = Cost("message")'
              /\ ~Posted' => WaitCost(x)' = Cost("request")'
          BY <2>1 DEF WaitCost
        <4>2. /\ Cost("message")' = Others' + Coming' + 1
              /\ Cost("request")' = Others'
          BY CostIs DEF Forward
        <4> QED BY <1>6, <4>1, <4>2
      <3> HIDE DEF w, i, s, c, o, n
      <3>3. 1 + n <= Unsolicited + 6
        <4>1. CASE Posted
          BY <3>1, <3>2, <4>1
        <4>2. CASE ~Posted
          BY <3>1, <3>2, <4>2
        <4> QED BY <4>1, <4>2
      <3> QED BY <3>3 DEF n
    <2>6. \A r \in Reserved' :
            \/ r \in Reserved /\ r[2] # next /\ WaitCost(r)' + 1 <= WaitCost(r)
            \/ r[2] = next /\ 1 + WaitCost(r)' <= Unsolicited + 6
      BY <2>1, <2>2, <2>3, <2>4, <2>5
    <2> QED BY <1>0, <1>1, <2>6, WaitTake
  <1> QED BY <1>5, <1>7, <1>11, <1>12 DEF Session

(* ... the request is read into it, ...                                      *)
LEMMA ClientReadsSession ==
  ASSUME OneSession, Session, RingInv', NotStarted', Tokens', NEW k \in Conns,
         ClientReads(k), ClientPasses(k)
  PROVE  Session'
  <1> DEFINE f == Entry(clientEntry[k].buf, Packet("raw", sent))
  <1>0. GInv /\ GInv' /\ Places /\ Beginning /\ Closing /\ Delivering /\ Numbers /\ WaitBounds
        /\ Numbers' /\ HoldBounds /\ DoneBounds
    BY NumbersTyped, NumbersNext DEF Session, RingInv
  <1>1. /\ UNCHANGED <<spi_comms_input_queue, spi_comms_output_queue, server_queue, spiMessage,
                       trans, peer, conns, sent, delivered, answered, extra, returned, wifi, next>>
        /\ ClientAt(k, "read", "package") /\ unread /\ ~unread'
    BY DEF ClientReads, queues, line, spiVars, wifiVars, ctxVars
  <1>2. /\ k = 1 /\ task = "read" /\ task' = "package" /\ Sending' # {} /\ Reading' = {}
    BY <1>1, OneClient
  <1>3. Gains("client", f)
    <2>1. client[k] = "read" /\ ~ClientEnds(k)
      BY <1>1 DEF ClientAt, ClientEnds
    <2> QED BY <2>1 DEF ClientPasses, SendConnected, ClientTakes, ClientPackages, ClientPosts,
                        SendDisconnected, SendClosed, ClientAt
  <1>4. PICK h : h[1] = "client" /\ h[3] = f /\ Holdings' \subseteq Holdings \cup {h}
    BY <1>3 DEF Gains
  <1>5. KindOf(f) = "request" /\ f.buf = clientEntry[1].buf
    BY <1>2, NewKinds DEF Kind, Entry
  <1>6. /\ ~CanAnswer /\ trans.dir # "rx" /\ ~Ending
        /\ "request" \notin Kinds /\ "message" \notin Kinds /\ "command" \notin Kinds
        /\ Len(delivered) >= 1 => Kinds = {}
        /\ Len(returned) = Len(delivered)
    BY <1>1, InTheSocket DEF OneSession
  <1> HIDE DEF f
  <1>7. Places' /\ Kinds' \subseteq Kinds \cup {"request"}
    <2>1. KindOf(f) \in Allowed("client")
      BY <1>5 DEF Allowed
    <2> QED BY <1>0, <1>3, <1>5, <2>1, GainsKinds
  <1>8. ~Ending' /\ CanAnswer' = CanAnswer /\ ~Posted /\ ~Posted'
    BY <1>1, <1>2 DEF Ending, CanAnswer, Posted
  <1>9. Beginning' /\ Closing' /\ Delivering'
    <2>1. Beginning'
      BY <1>0, <1>1, <1>2, <1>4, <1>7 DEF Beginning
    <2>2. Closing'
      BY <1>0, <1>1, <1>2, <1>6, <1>7, <1>8 DEF Closing
    <2>3. Delivering'
      BY <1>0, <1>1, <1>2, <1>6, <1>7, <1>8 DEF Delivering
    <2> QED BY <2>1, <2>2, <2>3
  <1>10. ForwardOrder' /\ ReplyLast'
    <2>1. ForwardOrder'
      BY <1>1 DEF Session, ForwardOrder
    <2>2. "message" \notin Kinds'
      BY <1>6, <1>7
    <2> QED BY <1>0, <2>1, <2>2, NothingSaidNext DEF NoMessage
  <1>11. /\ ClientWill = 1 /\ ClientWill' = 1
         /\ InfoLeft' <= InfoLeft /\ StatusLeft' <= StatusLeft
    <2>1. ClientWill = 1 /\ ClientWill' = 1
      BY <1>2, <1>8 DEF ClientWill, Bit
    <2> QED BY <1>1, <1>2, <1>7, <2>1 DEF InfoLeft, StatusLeft, Bit
  <1>12. Others' <= Others
    <2> DEFINE i == InfoLeft'
               s == StatusLeft'
               o == Others'
    <2>1. /\ o = 1 + i + s /\ Others = 1 + InfoLeft + StatusLeft /\ i <= InfoLeft /\ s <= StatusLeft
          /\ i \in Nat /\ s \in Nat /\ InfoLeft \in Nat /\ StatusLeft \in Nat
      BY <1>0, <1>11, Totals DEF Numbers
    <2> HIDE DEF i, s, o
    <2>2. o <= Others
      BY <2>1
    <2> QED BY <2>2 DEF o
  <1>13. HoldBounds'
    <2> SUFFICES ASSUME NEW x \in Holdings', KindOf(x[3]) # "completed"
                 PROVE  Age(x[3].buf)' + Cost(KindOf(x[3]))' <= Unsolicited + 6
      BY DEF HoldBounds
    <2> DEFINE a == Age(x[3].buf)'
               n == Cost(KindOf(x[3]))'
    <2>1. x[3].buf \in Buffers /\ next \in Buffers
      <3>1. CASE x \in Holdings
        BY <1>0, <3>1, HoldingsTyped DEF GInv, TypeOK
      <3>2. CASE x = h
        <4>1. clientEntry[1] \in Entries
          BY <1>0, <1>1, <1>2 DEF GInv, Pointers, ClientAt
        <4> QED BY <1>0, <1>4, <1>5, <3>2, <4>1, EntryParts DEF GInv, TypeOK
      <3> QED BY <1>4, <3>1, <3>2
    <2>2. a = Age(x[3].buf) /\ Age(x[3].buf) \in Nat
      BY <1>1, <2>1, SameAge, AgeTyped
    <2>3. \E m \in Nat : Age(x[3].buf) + m <= Unsolicited + 6 /\ n <= m /\ n \in Nat
      <3>1. CASE x \in Holdings
        <4>1. KindOf(x[3]) \in {"network_info", "status"}
          <5>1. KindOf(x[3]) \in Kinds /\ KindOf(x[3]) \in Allowed(x[1])
            BY <1>0, <3>1 DEF Kinds, Places
          <5> QED BY <1>6, <2>1, <3>1, <5>1, HeldIs DEF Allowed, Forward, WhatHeld
        <4>2. Age(x[3].buf) + Cost(KindOf(x[3])) <= Unsolicited + 6
          BY <3>1 DEF Session, HoldBounds
        <4>3. n <= Cost(KindOf(x[3]))
          <5>1. CASE KindOf(x[3]) = "network_info"
            <6>1. n = ClientWill' /\ Cost(KindOf(x[3])) = ClientWill
              BY <5>1, CostIs
            <6> QED BY <1>11, <6>1
          <5>2. CASE KindOf(x[3]) = "status"
            <6> DEFINE i == InfoLeft'
            <6>1. n = 1 + i /\ Cost(KindOf(x[3])) = 1 + InfoLeft
              BY <1>11, <5>2, CostIs
            <6>2. i \in Nat /\ InfoLeft \in Nat /\ i <= InfoLeft
              BY <1>0, <1>11 DEF Numbers
            <6> HIDE DEF n, i
            <6> QED BY <6>1, <6>2
          <5> QED BY <4>1, <5>1, <5>2
        <4>4. n \in Nat /\ Cost(KindOf(x[3])) \in Nat
          BY <1>0 DEF Numbers
        <4> HIDE DEF n
        <4> QED BY <4>2, <4>3, <4>4
      <3>2. CASE x = h
        <4>1. n = Others' /\ x[3].buf = clientEntry[1].buf
          BY <1>4, <1>5, <3>2, CostIs
        <4>2. Age(x[3].buf) + Others <= Unsolicited + 6
          <5> DEFINE r == <<1, clientEntry[1].buf>>
          <5>1. r[1] = 1 /\ r[2] = x[3].buf
            BY <4>1
          <5>2. 1 \in Reading
            BY <1>1, <1>2 DEF ClientAt, Reading
          <5>3. r \in Reserved
            BY <5>2 DEF Reserved, ToRead
          <5> HIDE DEF r
          <5>4. WaitCost(r) = Others
            BY <1>8, <5>1, CostIs DEF WaitCost
          <5> QED BY <1>0, <5>1, <5>3, <5>4 DEF WaitBounds
        <4>3. Others' \in Nat /\ Others \in Nat
          BY OthersTyped, OthersNext
        <4> QED BY <1>12, <4>1, <4>2, <4>3
      <3> QED BY <1>4, <3>1, <3>2
    <2> HIDE DEF a, n
    <2>4. a + n <= Unsolicited + 6
      BY <2>2, <2>3
    <2> QED BY <2>4 DEF a, n
  <1>14. WaitBounds'
    BY <1>1, <1>2, <1>6 DEF WaitBounds, Reserved, ToRead, ToReceive
  <1>15. DoneBounds'
    <2>1. ASSUME NEW i PROVE DoneCost(i)' <= DoneCost(i)
      <3> DEFINE n == DoneCost(i)'
                 o == Others'
      <3>1. n = o + 1
        BY <1>2, DoneCostIs DEF Behind
      <3>2. DoneCost(i) = Others + 1 \/ DoneCost(i) = Others + 1 + Coming
        BY DoneCostIs
      <3>3. o \in Nat /\ Others \in Nat /\ Coming \in Nat /\ o <= Others
        BY <1>0, <1>12, OthersTyped, OthersNext DEF Numbers
      <3> HIDE DEF n, o
      <3>4. n <= DoneCost(i)
        BY <3>1, <3>2, <3>3
      <3> QED BY <3>4 DEF n
    <2> QED BY <1>0, <1>1, <2>1, DoneCalm
  <1> QED BY <1>7, <1>9, <1>10, <1>13, <1>14, <1>15 DEF Session

(* ... framed, ...                                                           *)
LEMMA ClientPackagesSession ==
  ASSUME OneSession, Session, RingInv', NotStarted', Tokens', NEW k \in Conns,
         ClientPackages(k), ClientPasses(k)
  PROVE  Session'
  <1> DEFINE e == clientEntry[k]
             f == [e EXCEPT !.packet.type = "from_gdb"]
  <1>0. GInv /\ GInv' /\ Places /\ Beginning /\ Closing /\ Delivering
    BY DEF Session, RingInv
  <1>1. /\ UNCHANGED <<spi_comms_input_queue, spi_comms_output_queue, server_queue, spiMessage,
                       trans, peer, conns, sent, unread, delivered, answered, extra, returned,
                       wifi, next>>
        /\ ClientAt(k, "package", "post")
    BY DEF ClientPackages, queues, line, spiVars, wifiVars, peerVars, ctxVars
  <1>2. /\ k = 1 /\ task = "package" /\ task' = "post" /\ Sending' # {} /\ Reading' = {}
    BY <1>1, OneClient
  <1>3. Moves("client", e, "client", f)
    <2>1. client[k] = "package"
      BY <1>1 DEF ClientAt
    <2> QED BY <2>1 DEF ClientPasses, SendConnected, ClientTakes, ClientReads, ClientPosts,
                        ClientEnds, SendDisconnected, SendClosed, ClientAt
  <1>4. KindOf(f) = "request" /\ f.buf = e.buf /\ e \in Entries
    <2>1. e \in Entries
      BY <1>0, <1>1 DEF ClientAt, GInv, Pointers
    <2> HIDE DEF e
    <2> QED BY <2>1, RetypedKind DEF Kind
  <1> HIDE DEF e, f
  <1>5. KindOf(e) = "request" /\ "request" \in Kinds /\ Places' /\ Kinds' \subseteq Kinds
    <2>1. KindOf(f) \in Allowed("client")
      BY <1>4 DEF Allowed
    <2>2. KindOf(e) \in Kinds /\ KindOf(e) \in Allowed("client") /\ Places'
      BY <1>0, <1>3, <2>1, MovesKinds
    <2>3. KindOf(e) = "request"
      BY <2>2 DEF Allowed
    <2> QED BY <1>0, <1>3, <1>4, <2>1, <2>2, <2>3, MovesKinds
  <1>6. Follows
    BY <1>3, <1>4, <1>5, MustFollow
  <1>7. /\ ~CanAnswer /\ trans.dir # "rx" /\ ~Ending /\ "message" \notin Kinds
    BY <1>5, OnTheWay DEF OneSession
  <1>8. ~Ending' /\ CanAnswer' = CanAnswer /\ ~Posted /\ ~Posted'
    BY <1>1, <1>2 DEF Ending, CanAnswer, Posted
  <1>9. Beginning' /\ Closing' /\ Delivering'
    <2>1. Beginning'
      <3>1. \A h \in Holdings' : h[1] # "wifi"
        <4>1. \A h \in Holdings : h[1] # "wifi"
          BY <1>0, <1>2 DEF Beginning
        <4> QED BY <1>3, <4>1 DEF Moves
      <3> QED BY <1>0, <1>1, <1>2, <1>5, <3>1 DEF Beginning
    <2>2. Closing'
      BY <1>0, <1>1, <1>2, <1>5, <1>7, <1>8 DEF Closing
    <2>3. Delivering'
      BY <1>0, <1>1, <1>2, <1>5, <1>7, <1>8 DEF Delivering
    <2> QED BY <2>1, <2>2, <2>3
  <1>10. ForwardOrder' /\ ReplyLast'
    <2>1. ForwardOrder'
      BY <1>1 DEF Session, ForwardOrder
    <2> QED BY <1>0, <1>5, <1>7, <2>1, NothingSaidNext DEF NoMessage
  <1>11. Falling
    <2>1. ClientWill' = ClientWill
      BY <1>2, <1>8 DEF ClientWill, Bit
    <2>2. InfoLeft' <= InfoLeft /\ StatusLeft' <= StatusLeft
      BY <1>1, <1>2, <1>5 DEF InfoLeft, StatusLeft, Bit
    <2>3. Coming' <= Coming
      BY <1>0, <1>1, <1>5, ComingFalls
    <2> QED BY <1>0, <2>1, <2>2, <2>3, LeqSame DEF Falling
  <1>12. HoldBounds' /\ WaitBounds' /\ DoneBounds'
    <2>1. Reserved' \subseteq Reserved
      BY <1>1, <1>2 DEF Reserved, ToRead, ToReceive
    <2>2. Posted' = Posted
      BY <1>8 DEF Posted
    <2> QED BY <1>0, <1>1, <1>2, <1>6, <1>11, <2>1, <2>2, BoundsFall DEF Unlengthened
  <1> QED BY <1>5, <1>9, <1>10, <1>12 DEF Session

(* ... and queued, the last of the packets for ctxLink.                      *)
LEMMA ClientPostsSession ==
  ASSUME OneSession, Session, RingInv', NotStarted', Tokens', NEW k \in Conns,
         ClientPosts(k), ClientPasses(k)
  PROVE  Session'
  <1> DEFINE e == clientEntry[k]
  <1>0. GInv /\ GInv' /\ Places /\ Beginning /\ Closing /\ Delivering /\ ForwardOrder /\ Tokens
        /\ Numbers /\ Numbers' /\ HoldBounds /\ DoneBounds
    BY NumbersTyped, NumbersNext DEF Session, RingInv
  <1>1. /\ UNCHANGED <<spi_comms_output_queue, server_queue, spiMessage,
                       trans, peer, conns, sent, unread, delivered, answered, extra, returned,
                       wifi, next>>
        /\ ClientAt(k, "post", "take") /\ ToSpi(e)
    BY DEF ClientPosts, ring, line, spiVars, wifiVars, peerVars, ctxVars
  <1>2. /\ k = 1 /\ task = "post" /\ task' = "take" /\ Sending # {} /\ Reading' = {}
        /\ Sending' = {}
    BY <1>1, OneClient
  <1>3. Moves("client", e, "input", e)
    <2>1. client[k] = "post"
      BY <1>1 DEF ClientAt
    <2> QED BY <2>1 DEF ClientPasses, SendConnected, ClientTakes, ClientReads, ClientPackages,
                        ClientEnds, SendDisconnected, SendClosed, ClientAt
  <1>4. e \in Entries
    BY <1>0, <1>1 DEF ClientAt, GInv, Pointers
  <1> HIDE DEF e
  <1>5. PICK g, h : /\ g \in Holdings
                    /\ g[1] = "client" /\ g[3] = e /\ h[1] = "input" /\ h[3] = e
                    /\ Holdings' \subseteq (Holdings \ {g}) \cup {h}
    BY <1>3 DEF Moves
  <1>6. KindOf(e) = "request" /\ "request" \in Kinds /\ Places' /\ Kinds' \subseteq Kinds
    <2>1. KindOf(e) = "request"
      BY <1>0, <1>5 DEF Places, Allowed
    <2>2. KindOf(e) \in Allowed("input")
      BY <2>1 DEF Allowed, Forward
    <2> QED BY <1>0, <1>3, <2>1, <2>2, MovesKinds
  <1>7. Follows /\ NotWifi
    BY <1>3, MustFollow
  <1>8. /\ sent > Len(returned) /\ ~unread
        /\ ~CanAnswer /\ trans.dir # "rx" /\ ~Ending /\ "message" \notin Kinds
    BY <1>6, OnTheWay DEF OneSession
  <1>9. ~Ending' /\ CanAnswer' = CanAnswer /\ ~Posted /\ Posted'
    BY <1>1, <1>2, <1>8 DEF Ending, CanAnswer, Posted
  (* It is the only request.                                                 *)
  <1>10. \A x \in Holdings : KindOf(x[3]) = "request" => x = g
    BY <1>0, <1>5, <1>6, RequestHeld DEF Tokens, Requests
  <1>11. Beginning' /\ Closing' /\ Delivering'
    <2>1. Beginning'
      BY <1>0, <1>1, <1>2, <1>6, <1>7 DEF Beginning, NotWifi
    <2>2. Closing'
      BY <1>0, <1>1, <1>2, <1>6, <1>8, <1>9 DEF Closing
    <2>3. Delivering'
      BY <1>0, <1>1, <1>2, <1>6, <1>8, <1>9 DEF Delivering
    <2> QED BY <2>1, <2>2, <2>3
  <1>12. ForwardOrder'
    <2>1. Precedes(spi_comms_input_queue, e) /\ Precedes(spi_comms_output_queue, e)
      <3>1. \A x \in Holdings : x[1] # "client" => KindOf(x[3]) # "request"
        BY <1>5, <1>10
      <3> QED BY <1>6, <3>1, IsHeld DEF WhereHeld, Precedes, Forward, Rank
    <2>2. /\ Ordered(Append(spi_comms_input_queue, e))
          /\ Follow(spi_comms_output_queue, Append(spi_comms_input_queue, e))
      BY <1>0, <1>4, <2>1, FirstTyped, AppendOrder DEF ForwardOrder
    <2> QED BY <1>0, <1>1, <2>2 DEF ForwardOrder, ToSpi, Enqueue
  <1>13. ReplyLast'
    BY <1>0, <1>6, <1>8, NothingSaidNext DEF NoMessage
  <1>14. Falling
    <2>1. ClientWill' = ClientWill
      BY <1>2, <1>9 DEF ClientWill, Bit
    <2>2. InfoLeft' <= InfoLeft /\ StatusLeft' <= StatusLeft
      BY <1>1, <1>2, <1>6 DEF InfoLeft, StatusLeft, Bit
    <2>3. Coming' <= Coming
      BY <1>0, <1>1, <1>6, ComingFalls
    <2> QED BY <1>0, <2>1, <2>2, <2>3, LeqSame DEF Falling
  <1>15. HoldBounds'
    <2>1. \A c : Cost(c)' <= Cost(c)
      BY <1>0, <1>14, CostsFall
    <2> QED BY <1>0, <1>1, <1>7, <2>1, HoldCalm
  <1>16. WaitBounds'
    BY <1>1, <1>2, <1>8 DEF WaitBounds, Reserved, ToRead, ToReceive
  <1>17. DoneBounds'
    <2>1. Others' <= Others
      BY <1>0, <1>14, CostsFall
    <2>2. ASSUME NEW i \in DOMAIN spi_comms_input_queue', InputKind(i)' = "completed"
          PROVE  \E j \in DOMAIN spi_comms_input_queue :
                   /\ spi_comms_input_queue[j] = spi_comms_input_queue'[i]
                   /\ Behind(i)' \/ Coming' = 0
      <3>1. KindOf(spi_comms_input_queue'[i]) = "completed"
        BY <2>2 DEF InputKind
      <3>2. CASE spi_comms_input_queue' = Append(spi_comms_input_queue, e)
        <4>1. PICK j \in DOMAIN spi_comms_input_queue :
                /\ spi_comms_input_queue[j] = spi_comms_input_queue'[i]
                /\ After(spi_comms_input_queue', i)
          BY <1>0, <1>4, <1>6, <3>1, <3>2, FirstTyped, AppendAfter
        <4>2. Behind(i)'
          BY <4>1 DEF Behind
        <4> QED BY <4>1, <4>2
      <3>3. CASE UNCHANGED spi_comms_input_queue
        <4>1. "request" \notin Kinds'
          <5> SUFFICES ASSUME NEW x \in Holdings', KindOf(x[3]) = "request"
                       PROVE  FALSE
            BY DEF Kinds
          <5>1. x = h
            BY <1>5, <1>10
          <5>2. PICK m \in DOMAIN spi_comms_input_queue : x[3] = spi_comms_input_queue[m]
            BY <1>5, <3>3, <5>1, HeldNext DEF WhatHeld
          <5>3. PICK y \in Holdings : y[1] = "input" /\ y[3] = x[3]
            BY <5>2, IsHeld DEF WhereHeld
          <5> QED BY <1>5, <1>10, <5>3
        <4>2. Coming' = 0
          BY <1>8, <1>9, <4>1 DEF Coming
        <4> QED BY <3>3, <4>2
      <3> QED BY <1>1, <3>2, <3>3 DEF ToSpi, Enqueue
    <2>3. ASSUME NEW i, NEW j, Behind(i)' \/ Coming' = 0
          PROVE  DoneCost(i)' <= DoneCost(j)
      <3> DEFINE n == DoneCost(i)'
                 o == Others'
      <3>1. n = o + 1 \/ n = o + 1 + 0
        BY <2>3, DoneCostIs
      <3>2. DoneCost(j) = Others + 1
        BY <1>2, DoneCostIs DEF Behind
      <3>3. o \in Nat /\ Others \in Nat /\ o <= Others
        BY <2>1, OthersTyped, OthersNext
      <3> HIDE DEF n, o
      <3>4. n <= DoneCost(j)
        BY <3>1, <3>2, <3>3
      <3> QED BY <3>4 DEF n
    <2>4. ASSUME NEW i \in DOMAIN spi_comms_input_queue', InputKind(i)' = "completed"
          PROVE  \E j \in DOMAIN spi_comms_input_queue :
                   /\ spi_comms_input_queue[j] = spi_comms_input_queue'[i]
                   /\ DoneCost(i)' <= DoneCost(j)
      BY <2>2, <2>3, <2>4
    <2> QED BY <1>0, <1>1, <2>4, DoneCalm
  <1> QED BY <1>6, <1>11, <1>12, <1>13, <1>15, <1>16, <1>17 DEF Session

(* The client task finds that its client has left, having all its answers:   *)
(* nothing is held then; ...                                                 *)
LEMMA ClientEndsSession ==
  ASSUME OneSession, Session, RingInv', NotStarted', Tokens', NEW k \in Conns,
         ClientEnds(k), ClientPasses(k)
  PROVE  Session'
  <1>0. GInv /\ GInv' /\ Places /\ Beginning /\ Closing /\ Delivering /\ Tokens
    BY DEF Session, RingInv
  <1>1. /\ UNCHANGED <<spi_comms_input_queue, spi_comms_output_queue, server_queue, spiMessage,
                       trans, peer, conns, sent, unread, delivered, answered, extra, returned,
                       wifi, next>>
        /\ ClientAt(k, "read", "bye") /\ peer = "left"
    BY DEF ClientEnds, ring, queues, line, spiVars, wifiVars, peerVars, ctxVars
  <1>2. /\ k = 1 /\ task = "read" /\ task' = "bye" /\ Reading' = {}
    BY <1>1, OneClient
  <1>3. Frees
    <2>1. client[k] = "read" /\ ~ClientReads(k)
      <3>1. client'[k] = "bye"
        BY <1>0, <1>1 DEF ClientAt, GInv, TypeOK
      <3> QED BY <1>0, <1>1, <3>1 DEF ClientAt, ClientReads, GInv, TypeOK
    <2> QED BY <2>1 DEF ClientPasses, SendConnected, ClientPackages, ClientPosts,
                        SendDisconnected, SendClosed, ClientAt
  <1>4. /\ Places' /\ ForwardOrder' /\ ReplyLast'
    BY <1>1, <1>3, Unmoved
  <1>5. Holdings = {} /\ ~CanAnswer /\ trans.dir # "rx"
    <2>1. sent = Len(returned) /\ sent >= 1 /\ ~Ending
      BY <1>0, <1>1, <1>2 DEF Closing, Ending
    <2> QED BY <2>1, AtRest DEF OneSession
  <1>6. Holdings' = {} /\ Kinds' = {}
    BY <1>3, <1>5 DEF Frees, Kinds
  <1>7. Beginning' /\ Closing' /\ Delivering'
    <2>1. Beginning'
      BY <1>0, <1>1, <1>2, <1>5, <1>6 DEF Beginning
    <2>2. Closing'
      BY <1>0, <1>1, <1>6 DEF Closing
    <2>3. Delivering'
      BY <1>1, <1>5, <1>6 DEF Delivering
    <2> QED BY <2>1, <2>2, <2>3
  <1>8. HoldBounds' /\ WaitBounds' /\ DoneBounds'
    <2>1. HoldBounds'
      BY <1>6 DEF HoldBounds
    <2>2. WaitBounds'
      BY <1>1, <1>2, <1>5 DEF WaitBounds, Reserved, ToRead, ToReceive
    <2> QED BY <1>0, <1>6, <2>1, <2>2, NothingSaidNext DEF NoCompletion
  <1> QED BY <1>4, <1>7, <1>8 DEF Session

(* ... it tells the server, ...                                              *)
LEMMA SendClosedSession ==
  ASSUME OneSession, Session, RingInv', NotStarted', Tokens', FreeTaken, NEW k \in Conns,
         SendClosed(k), ClientPasses(k)
  PROVE  Session'
  <1> DEFINE e == Built(Packet("command", 0))
  <1>0. GInv /\ GInv' /\ Places /\ Beginning /\ Closing /\ Delivering /\ ForwardOrder
        /\ Numbers /\ Numbers'
    BY NumbersTyped, NumbersNext DEF Session, RingInv
  <1>1. /\ UNCHANGED <<spi_comms_input_queue, spi_comms_output_queue, trans, peer, conns, sent,
                       unread, delivered, answered, extra, returned, wifi>>
        /\ ClientAt(k, "bye", "report") /\ Take
    BY DEF SendClosed, Build, line, wifiVars, peerVars, ctxVars
  <1>2. /\ task = "bye" /\ task' = "report" /\ Sending' = {} /\ Reading' = {} /\ Sending = {}
    BY <1>1, OneClient
  <1>3. next \notin InUse
    BY DEF FreeTaken
  <1>4. Gains("server_queue", e)
    <2>1. client[k] = "bye"
      BY <1>1 DEF ClientAt
    <2> QED BY <2>1 DEF ClientPasses, SendConnected, ClientTakes, ClientReads, ClientPackages,
                        ClientPosts, ClientEnds, SendDisconnected, ClientAt
  <1>5. PICK h : h[1] = "server_queue" /\ h[3] = e /\ Holdings' \subseteq Holdings \cup {h}
    BY <1>4 DEF Gains
  <1>6. KindOf(e) = "command" /\ e.buf = next /\ e \in Entries
    <2>1. KindOf(e) = "command" /\ e.buf = next
      BY NewKinds DEF Kind, Built
    <2>2. e \in Entries
      BY <1>0, Builds, BuiltTyped DEF GInv, TypeOK
    <2> QED BY <2>1, <2>2
  <1> HIDE DEF e
  <1>7. /\ ~CanAnswer /\ trans.dir # "rx" /\ Ending /\ Ending'
        /\ Kinds \subseteq {"command"}
    <2>1. Ending /\ Ending'
      BY <1>2 DEF Ending
    <2>2. sent = Len(returned) /\ Kinds \subseteq {"command"}
      BY <1>0, <1>2, <2>1 DEF Closing
    <2> QED BY <2>1, <2>2, AtRest DEF OneSession
  <1>8. Places' /\ Kinds' \subseteq {"command"}
    <2>1. KindOf(e) \in Allowed("server_queue")
      BY <1>6 DEF Allowed
    <2> QED BY <1>0, <1>4, <1>6, <1>7, <2>1, GainsKinds
  <1>9. CanAnswer' = CanAnswer
    BY <1>1 DEF CanAnswer
  <1>10. Beginning' /\ Closing' /\ Delivering'
    <2>1. Beginning'
      BY <1>0, <1>1, <1>2, <1>5 DEF Beginning
    <2>2. Closing'
      BY <1>0, <1>1, <1>2, <1>7, <1>8 DEF Closing
    <2>3. Delivering'
      BY <1>1, <1>7, <1>8 DEF Delivering
    <2> QED BY <2>1, <2>2, <2>3
  <1>11. ForwardOrder' /\ ReplyLast'
    <2>1. ForwardOrder'
      BY <1>0, <1>1 DEF ForwardOrder
    <2> QED BY <1>0, <1>8, <2>1, NothingSaidNext DEF NoMessage
  <1>12. ClientWill = 2 /\ ClientWill' = 1 /\ Coming' = 0 /\ Falling
    <2>1. ClientWill = 2 /\ ClientWill' = 1
      BY <1>2 DEF ClientWill
    <2>2. InfoLeft' <= InfoLeft /\ StatusLeft' <= StatusLeft
      BY <1>1, <1>2, <1>8 DEF InfoLeft, StatusLeft, Bit
    <2>3. Coming' = 0
      BY <1>7, <1>8, <1>9 DEF Coming
    <2> QED BY <1>0, <2>1, <2>2, <2>3 DEF Falling, Numbers
  <1>13. 1 + Cost("command")' <= Unsolicited + 6
    <2> DEFINE i == InfoLeft'
               s == StatusLeft'
               o == Others'
    <2>1. Cost("command")' = Others' + Coming' + 1
      BY CostIs DEF Forward
    <2>2. Cost("command")' = o + 0 + 1 /\ o = 1 + i + s /\ i \in 0..1 /\ s \in 0..1
      BY <1>0, <1>12, <2>1, Totals DEF Numbers
    <2> HIDE DEF i, s, o
    <2> QED BY <2>2
  <1>14. HoldBounds' /\ DoneBounds'
    <2>1. KindOf(h[3]) # "completed" => 1 + Cost(KindOf(h[3]))' <= Unsolicited + 6
      BY <1>5, <1>6, <1>13
    <2>2. ClientWill' + 1 <= ClientWill
      BY <1>12
    <2> QED BY <1>0, <1>1, <1>2, <1>3, <1>5, <1>6, <1>12, <2>1, <2>2, ClientTakesOne
  <1>15. WaitBounds'
    BY <1>1, <1>2, <1>7 DEF WaitBounds, Reserved, ToRead, ToReceive
  <1> QED BY <1>8, <1>10, <1>11, <1>14, <1>15 DEF Session

(* ... and ctxLink.                                                          *)
LEMMA SendDisconnectedSession ==
  ASSUME OneSession, Session, RingInv', NotStarted', Tokens', FreeTaken, NEW k \in Conns,
         SendDisconnected(k), ClientPasses(k)
  PROVE  Session'
  <1> DEFINE e == Built(Packet("status", 0))
  <1>0. GInv /\ GInv' /\ Places /\ Beginning /\ Closing /\ Delivering /\ ForwardOrder
        /\ Numbers /\ Numbers'
    BY NumbersTyped, NumbersNext DEF Session, RingInv
  <1>1. /\ UNCHANGED <<spi_comms_output_queue, server_queue, trans, peer, conns, sent,
                       unread, delivered, answered, extra, returned, wifi>>
        /\ ClientAt(k, "report", "deleted") /\ Take /\ ToSpi(e)
    BY DEF SendDisconnected, Build, line, wifiVars, peerVars, ctxVars
  <1>2. /\ task = "report" /\ task' = "deleted" /\ Sending' = {} /\ Reading' = {} /\ Sending = {}
    BY <1>1, OneClient
  <1>3. next \notin InUse
    BY DEF FreeTaken
  <1>4. PICK i \in Ids : Gains("input", Built(Packet("status", i)))
    <2>1. client[k] = "report"
      BY <1>1 DEF ClientAt
    <2> QED BY <2>1 DEF ClientPasses, ClientTakes, ClientReads, ClientPackages, ClientPosts,
                        ClientEnds, SendClosed, ClientAt
  <1>5. PICK h : /\ h[1] = "input" /\ h[3] = Built(Packet("status", i))
                 /\ Holdings' \subseteq Holdings \cup {h}
    BY <1>4 DEF Gains
  <1>6. KindOf(h[3]) = "status" /\ h[3].buf = next /\ KindOf(e) = "status" /\ e \in Entries
    <2>1. KindOf(h[3]) = "status" /\ h[3].buf = next /\ KindOf(e) = "status"
      BY <1>5, NewKinds DEF Kind, Built
    <2>2. e \in Entries
      BY <1>0, Builds, BuiltTyped DEF GInv, TypeOK
    <2> QED BY <2>1, <2>2
  <1> HIDE DEF e
  <1>7. /\ ~CanAnswer /\ trans.dir # "rx" /\ Ending /\ Ending'
        /\ Kinds \subseteq {"command"}
    <2>1. Ending /\ Ending'
      BY <1>2 DEF Ending
    <2>2. sent = Len(returned) /\ Kinds \subseteq {"command"}
      BY <1>0, <1>2, <2>1 DEF Closing
    <2> QED BY <2>1, <2>2, AtRest DEF OneSession
  <1>8. Places' /\ Kinds' \subseteq {"command", "status"}
    <2>1. KindOf(Built(Packet("status", i))) \in Allowed("input")
          /\ KindOf(Built(Packet("status", i))) = "status"
      BY <1>5, <1>6 DEF Allowed, Forward
    <2> QED BY <1>0, <1>4, <1>7, <2>1, GainsKinds
  <1>9. CanAnswer' = CanAnswer
    BY <1>1 DEF CanAnswer
  <1>10. Beginning' /\ Closing' /\ Delivering'
    <2>1. Beginning'
      BY <1>0, <1>1, <1>2, <1>5 DEF Beginning
    <2>2. Closing'
      BY <1>0, <1>1, <1>2, <1>7, <1>8 DEF Closing
    <2>3. Delivering'
      BY <1>1, <1>2, <1>7, <1>8 DEF Delivering
    <2> QED BY <2>1, <2>2, <2>3
  <1>11. ForwardOrder' /\ ReplyLast'
    <2>1. Precedes(spi_comms_input_queue, e) /\ Precedes(spi_comms_output_queue, e)
      BY <1>0, <1>7, HeldKinds DEF Precedes, Forward
    <2>2. /\ Ordered(Append(spi_comms_input_queue, e))
          /\ Follow(spi_comms_output_queue, Append(spi_comms_input_queue, e))
      BY <1>0, <1>6, <2>1, FirstTyped, AppendOrder DEF ForwardOrder
    <2>3. ForwardOrder'
      BY <1>0, <1>1, <2>2 DEF ForwardOrder, ToSpi, Enqueue
    <2> QED BY <1>0, <1>8, <2>3, NothingSaidNext DEF NoMessage
  <1>12. ClientWill = 1 /\ ClientWill' = 0 /\ Coming' = 0 /\ Falling
    <2>1. ClientWill = 1 /\ ClientWill' = 0
      BY <1>2 DEF ClientWill
    <2>2. InfoLeft' <= InfoLeft /\ StatusLeft' <= StatusLeft
      BY <1>1, <1>2, <1>8 DEF InfoLeft, StatusLeft, Bit
    <2>3. Coming' = 0
      BY <1>7, <1>8, <1>9 DEF Coming
    <2> QED BY <1>0, <2>1, <2>2, <2>3 DEF Falling, Numbers
  <1>13. 1 + Cost("status")' <= Unsolicited + 6
    <2> DEFINE n == InfoLeft'
    <2>1. Cost("status")' = ClientWill' + InfoLeft' /\ InfoLeft' \in 0..1
      BY <1>0, CostIs DEF Numbers
    <2>2. Cost("status")' = 0 + n /\ n \in 0..1
      BY <1>12, <2>1
    <2> HIDE DEF n
    <2> QED BY <2>2
  <1>14. HoldBounds' /\ DoneBounds'
    <2>1. KindOf(h[3]) # "completed" => 1 + Cost(KindOf(h[3]))' <= Unsolicited + 6
      BY <1>6, <1>13
    <2>2. ClientWill' + 1 <= ClientWill
      BY <1>12
    <2> QED BY <1>0, <1>1, <1>2, <1>3, <1>5, <1>6, <1>12, <2>1, <2>2, ClientTakesOne
  <1>15. WaitBounds'
    BY <1>1, <1>2, <1>7 DEF WaitBounds, Reserved, ToRead, ToReceive
  <1> QED BY <1>8, <1>10, <1>11, <1>14, <1>15 DEF Session
-----------------------------------------------------------------------------
(* ctxLink has the request and has not answered it.                          *)
LEMMA BeingAnswered ==
  ASSUME OneSession, Session, CanAnswer
  PROVE  /\ Kinds \subseteq {"completed", "message"} /\ ~unread /\ Len(delivered) >= 1
         /\ sent > Len(returned) /\ answered + 1 = Len(delivered)
         /\ ~Ending /\ task \in {"take", "read"} /\ Posted /\ Sending = {}
         /\ \A h \in Holdings : ~IsReply(h[3].packet)
  <1>0. GInv /\ Tokens /\ Places
    BY DEF Session, RingInv
  <1>1. sent = Len(delivered) /\ sent > Len(returned) /\ answered + 1 = Len(delivered)
    BY <1>0, CanAnswerMeans
  <1>2. /\ "request" \notin Kinds /\ ~unread /\ Len(delivered) >= 1
        /\ "network_info" \notin Kinds /\ "status" \notin Kinds /\ "command" \notin Kinds
        /\ ~Ending /\ task \in {"take", "read"} /\ Posted
    BY <1>1, WithCtxLink DEF OneSession
  <1>3. Kinds \subseteq {"network_info", "status", "request", "completed", "message", "command"}
    BY <1>0, HeldIs DEF Kinds, Places, Allowed, Forward, WhatHeld
  <1>4. \A h \in Holdings : ~IsReply(h[3].packet)
    BY <1>0, ReplyMeans
  <1>5. Sending = {}
    BY <1>0, <1>2, OneTask DEF OneSession
  <1> QED BY <1>1, <1>2, <1>3, <1>4, <1>5

(* A completion waits for the request in the input queue or in the client    *)
(* task, if there is one.                                                    *)
LEMMA NoneBehind ==
  ASSUME GInv, Sending = {}, \A h \in Holdings : h[1] = "input" => KindOf(h[3]) # "request"
  PROVE  \A i : ~Behind(i)
  BY IsHeld DEF Behind, After, WhereHeld

LEMMA SelectToSendSession ==
  ASSUME OneSession, Session, RingInv', NotStarted', Tokens', FreeTaken, SelectToSend, Frees
  PROVE  Session'
  <1>0. GInv /\ GInv' /\ Places /\ Beginning /\ Closing /\ Delivering /\ Numbers
        /\ Numbers' /\ HoldBounds /\ DoneBounds /\ WaitBounds
    BY NumbersTyped, NumbersNext DEF Session, RingInv
  <1>1. /\ UNCHANGED <<spi_comms_input_queue, spi_comms_output_queue, server_queue, spiMessage,
                       client, clientEntry, peer, conns, sent, unread, delivered, answered, extra,
                       returned, wifi>>
        /\ CanAnswer /\ Take /\ trans = Idle /\ trans' = [dir |-> "rx", buf |-> next]
    BY DEF SelectToSend, queues, spiVars, clientVars, wifiVars, peerVars, ctxVars
  <1>2. next \notin InUse
    BY DEF FreeTaken
  <1>3. /\ Kinds \subseteq {"completed", "message"} /\ ~unread /\ Len(delivered) >= 1
        /\ ~Ending /\ task \in {"take", "read"} /\ Posted /\ Sending = {}
    BY <1>1, BeingAnswered
  <1>4. /\ Places' /\ ForwardOrder' /\ ReplyLast' /\ Follows /\ NotWifi /\ Kinds' \subseteq Kinds
        /\ (Holdings = {} => Holdings' = {})
    BY <1>1, Unmoved
  <1>5. task' = task /\ Ending' = Ending /\ CanAnswer' = CanAnswer /\ Posted' = Posted
    BY <1>1 DEF task, Ending, CanAnswer, Posted
  <1>6. Beginning' /\ Closing' /\ Delivering'
    <2>1. Beginning'
      BY <1>0, <1>1, <1>3, <1>4, <1>5 DEF Beginning, NotWifi
    <2>2. Closing'
      BY <1>0, <1>1, <1>3, <1>4, <1>5 DEF Closing
    <2>3. Delivering'
      BY <1>0, <1>1, <1>3, <1>4, <1>5 DEF Delivering
    <2> QED BY <2>1, <2>2, <2>3
  <1>7. Coming' + 1 = Coming /\ Coming' <= Unsolicited /\ Coming' <= Coming
    <2>1. extra' = extra /\ extra \in Nat /\ extra <= Unsolicited /\ Unsolicited \in Nat
      BY <1>0, <1>1 DEF GInv, TypeOK
    <2>2. "request" \notin Kinds /\ "request" \notin Kinds'
      BY <1>3, <1>4
    <2>3. Bit(trans.dir = "rx") = 0 /\ Bit(trans.dir = "rx")' = 1
      BY <1>1 DEF Idle, Bit
    <2>4. Coming = Unsolicited + 1 - extra - 0
      BY <1>1, <2>2, <2>3 DEF Coming
    <2>5. Coming' = Unsolicited + 1 - extra - 1
      BY <1>1, <1>5, <2>1, <2>2, <2>3 DEF Coming
    <2> QED BY <2>1, <2>4, <2>5
  <1>8. /\ Falling /\ ClientWill \in 0..1 /\ ClientWill' = ClientWill
        /\ InfoLeft' = 0 /\ StatusLeft' = 0
    <2>1. ClientWill' = ClientWill /\ ClientWill \in 0..1
      BY <1>3, <1>5 DEF ClientWill, Bit
    <2>2. InfoLeft' = 0 /\ StatusLeft' = 0
      <3>1. wifi = "reported"
        BY <1>0, <1>3 DEF Beginning
      <3> QED BY <1>1, <1>3, <1>4, <1>5, <3>1 DEF InfoLeft, StatusLeft, Bit
    <2> QED BY <1>0, <1>7, <2>1, <2>2 DEF Falling, Numbers
  <1>9. (\A k : Cost(k)' <= Cost(k)) /\ Others' <= Others
    BY <1>0, <1>8, CostsFall
  <1>10. Cost("message")' + 1 <= Cost("message")
    <2> DEFINE o == Others'
               c == Coming'
               n == Cost("message")'
    <2>1. n = o + c + 1 /\ Cost("message") = Others + Coming + 1
      BY CostIs DEF Forward
    <2>2. o \in Nat /\ c \in Nat /\ Others \in Nat /\ Coming \in Nat
      BY <1>0 DEF Numbers
    <2>3. c + 1 = Coming /\ o <= Others
      BY <1>7, <1>9
    <2> HIDE DEF o, c, n
    <2>4. n + 1 <= Cost("message")
      BY <2>1, <2>2, <2>3
    <2> QED BY <2>4 DEF n
  <1>11. HoldBounds'
    <2> DEFINE e == Built(Packet("completed", 0))
               h == <<"new", 0, e>>
    <2>1. KindOf(e) = "completed" /\ e.buf = next
      BY NewKinds DEF Kind, Built
    <2>2. h[3] = e /\ Holdings' \subseteq Holdings \cup {h}
      BY DEF Frees
    <2>3. KindOf(h[3]) = "completed" /\ h[3].buf = next
      BY <2>1, <2>2
    <2> HIDE DEF e, h
    <2>4. \A g \in Holdings : g[3].buf # next
      BY <1>0, <1>2, Unused
    <2>5. \A g \in Holdings :
            KindOf(g[3]) # "completed" => Cost(KindOf(g[3]))' + 1 <= Cost(KindOf(g[3]))
      <3>1. \A g \in Holdings : KindOf(g[3]) # "completed" => KindOf(g[3]) = "message"
        BY <1>3 DEF Kinds
      <3> QED BY <1>10, <3>1
    <2> QED BY <1>0, <1>1, <2>2, <2>3, <2>4, <2>5, HoldTake
  <1>12. WaitBounds'
    <2>0. PICK x : x = <<0, next>>
      OBVIOUS
    <2>1. x[1] = 0 /\ x[2] = next
      BY <2>0
    <2>2. Reserved' \subseteq Reserved \cup {x}
      <3>1. ToReceive' = {x}
        BY <1>1, <2>0 DEF ToReceive
      <3>2. ToRead' = ToRead
        BY <1>1 DEF ToRead, Reading
      <3> QED BY <3>1, <3>2 DEF Reserved
    <2>3. \A r \in Reserved : r[2] # next
      BY <1>0, <1>2, Unused
    <2>4. \A r : WaitCost(r) = Cost("message") /\ WaitCost(r)' = Cost("message")'
      BY <1>3, <1>5 DEF WaitCost
    <2>5. \A r \in Reserved : WaitCost(r)' + 1 <= WaitCost(r)
      BY <1>10, <2>4
    <2>6. 1 + WaitCost(x)' <= Unsolicited + 6
      <3> DEFINE w == ClientWill'
                 o == Others'
                 c == Coming'
                 n == WaitCost(x)'
      <3>1. /\ n = o + c + 1 /\ o = w + 0 + 0 /\ w \in 0..1 /\ c <= Unsolicited
            /\ c \in Nat /\ Unsolicited \in Nat
        BY <1>0, <1>7, <1>8, <2>4, CostIs, Totals DEF Numbers, Forward
      <3> HIDE DEF w, o, c, n
      <3>2. 1 + n <= Unsolicited + 6
        BY <3>1
      <3> QED BY <3>2 DEF n
    <2>7. \A r \in Reserved' :
            \/ r \in Reserved /\ r[2] # next /\ WaitCost(r)' + 1 <= WaitCost(r)
            \/ r[2] = next /\ 1 + WaitCost(r)' <= Unsolicited + 6
      BY <2>1, <2>2, <2>3, <2>5, <2>6
    <2> QED BY <1>0, <1>1, <2>7, WaitTake
  <1>13. DoneBounds'
    <2>1. \A h \in Holdings : h[1] = "input" => h[3].buf # next
      BY <1>0, <1>2, Unused
    <2>2. ASSUME NEW i PROVE DoneCost(i)' + 1 <= DoneCost(i)
      <3>1. ~Behind(i)
        BY <1>0, <1>3, NoneBehind DEF Kinds
      <3>2. Coming' + 1 <= Coming
        <4> DEFINE c == Coming'
        <4>1. c + 1 = Coming
          BY <1>7
        <4>2. c \in Nat
          BY <1>0 DEF Numbers
        <4> HIDE DEF c
        <4>3. c + 1 <= Coming
          BY <4>1, <4>2
        <4> QED BY <4>3 DEF c
      <3> QED BY <1>0, <1>7, <1>9, <3>1, <3>2, DoneCostFalls
    <2> QED BY <1>0, <1>1, <2>1, <2>2, DoneTake
  <1> QED BY <1>4, <1>6, <1>11, <1>12, <1>13 DEF Session

(* What ctxLink sends comes to the end of the input queue; nothing comes     *)
(* after the answer.                                                         *)
LEMMA ReceivesSession ==
  ASSUME OneSession, Session, RingInv', NotStarted', Tokens', Answer \/ SendMore, TransferPasses
  PROVE  Session'
  <1>0. GInv /\ GInv' /\ Places /\ Beginning /\ Closing /\ Delivering /\ ForwardOrder /\ Numbers
        /\ Numbers' /\ HoldBounds /\ DoneBounds /\ WaitBounds
    BY NumbersTyped, NumbersNext DEF Session, RingInv
  <1>1. PICK i \in Ids : /\ Receives(Packet("to_gdb", i))
                         /\ Gains("input", Entry(trans.buf, Packet("to_gdb", i)))
    <2>1. delivered \in Seq(Ids) /\ answered \in Nat /\ ~Transmitted
      BY <1>0 DEF GInv, TypeOK, Answer, SendMore, Receives, Transmitted
    <2>2. CASE Answer
      <3>1. ~SendMore
        <4>1. answered' = answered + 1
          BY <2>2 DEF Answer
        <4> QED BY <2>1, <4>1 DEF SendMore
      <3>2. delivered[answered + 1] \in Ids
        BY <2>1, <2>2 DEF Answer, CanAnswer
      <3> QED BY <2>1, <2>2, <3>1, <3>2 DEF TransferPasses, Answer
    <2>3. CASE SendMore
      <3>1. ~Answer
        <4>1. answered' = answered
          BY <2>3 DEF SendMore
        <4> QED BY <2>1, <4>1 DEF Answer
      <3>2. 0 \in Ids
        BY ZeroId
      <3> QED BY <2>1, <2>3, <3>1, <3>2 DEF TransferPasses, SendMore
    <2> QED BY <2>2, <2>3
  <1> DEFINE e == Entry(trans.buf, Packet("to_gdb", i))
  <1>2. /\ UNCHANGED <<spi_comms_output_queue, server_queue, spiMessage, client, clientEntry, peer,
                       conns, sent, unread, delivered, returned, wifi, next>>
        /\ CanAnswer /\ trans.dir = "rx" /\ trans' = Idle /\ ToSpi(e)
    BY <1>1 DEF Answer, SendMore, CanSendMore, Receives, Entry, spiVars, clientVars, wifiVars,
                peerVars
  <1>3. PICK h : h[1] = "input" /\ h[3] = e /\ Holdings' \subseteq Holdings \cup {h}
    BY <1>1 DEF Gains
  <1>4. KindOf(e) = "message" /\ e.buf = trans.buf /\ e \in Entries
    <2>1. KindOf(e) = "message" /\ e.buf = trans.buf
      BY NewKinds DEF Kind, Entry
    <2>2. e \in Entries
      <3>1. "to_gdb" \in Types
        BY DEF Types
      <3> QED BY <1>0, <3>1, PacketTyped, EntryOf DEF GInv, TypeOK, Entry
    <2> QED BY <2>1, <2>2
  <1> HIDE DEF e
  <1>5. /\ Kinds \subseteq {"completed", "message"} /\ ~unread /\ Len(delivered) >= 1
        /\ sent > Len(returned) /\ answered + 1 = Len(delivered)
        /\ ~Ending /\ task \in {"take", "read"} /\ Posted /\ Sending = {}
        /\ \A x \in Holdings : ~IsReply(x[3].packet)
    BY <1>2, BeingAnswered
  <1>6. Places' /\ Kinds' \subseteq {"completed", "message"}
    <2>1. KindOf(e) \in Allowed("input")
      BY <1>4 DEF Allowed
    <2>2. Gains("input", e)
      BY <1>1 DEF e
    <2> QED BY <1>0, <1>4, <1>5, <2>1, <2>2, GainsKinds
  <1>7. task' = task /\ Ending' = Ending /\ Posted' = Posted /\ Sending' = Sending
    BY <1>2 DEF task, Ending, Posted, Sending
  <1>8. Beginning' /\ Closing' /\ Delivering'
    <2>1. Beginning'
      BY <1>0, <1>2, <1>3, <1>5, <1>7 DEF Beginning
    <2>2. Closing'
      BY <1>0, <1>2, <1>5, <1>6, <1>7 DEF Closing
    <2>3. Delivering'
      <3>1. Len(delivered) # Len(returned) /\ trans'.dir # "rx"
        BY <1>0, <1>2, <1>5, CountersTyped DEF Session, Tokens, Counters, Idle
      <3> QED BY <1>0, <1>2, <1>5, <1>6, <1>7, <3>1, CountersTyped DEF Delivering
    <2> QED BY <2>1, <2>2, <2>3
  <1>9. ForwardOrder'
    <2>1. Precedes(spi_comms_input_queue, e) /\ Precedes(spi_comms_output_queue, e)
      BY <1>4 DEF Precedes, Forward
    <2>2. /\ Ordered(Append(spi_comms_input_queue, e))
          /\ Follow(spi_comms_output_queue, Append(spi_comms_input_queue, e))
      BY <1>0, <1>4, <2>1, FirstTyped, AppendOrder DEF ForwardOrder
    <2> QED BY <1>0, <1>2, <2>2 DEF ForwardOrder, ToSpi, Enqueue
  <1>10. ReplyLast'
    <2>1. NoReply(spi_comms_input_queue)
      BY <1>5, IsHeld DEF WhereHeld, NoReply
    <2>2. AtEnd(Append(spi_comms_input_queue, e))
      BY <1>0, <1>4, <2>1, FirstTyped, AppendOrder
    <2>3. AtEnd(spi_comms_input_queue) /\ AtEnd(server_queue)
      BY DEF Session, ReplyLast
    <2>4. \A x \in Holdings' : IsReply(x[3].packet) => x[1] = "input"
      BY <1>3, <1>5
    <2> QED BY <1>2, <2>2, <2>3, <2>4 DEF ReplyLast, ToSpi, Enqueue
  <1>11. Coming' <= Coming
    <2>1. extra \in Nat /\ extra <= Unsolicited /\ Unsolicited \in Nat
      BY <1>0 DEF GInv, TypeOK
    <2>2. "request" \notin Kinds /\ "request" \notin Kinds'
      BY <1>5, <1>6
    <2>3. CASE Answer
      <3>1. ~CanAnswer'
        <4>1. answered' = Len(delivered) /\ Len(delivered) \in Nat
          BY <1>0, <1>5, <2>3, CountersTyped DEF Answer
        <4> QED BY <1>2, <4>1 DEF CanAnswer
      <3>2. Coming' = 0
        BY <2>2, <3>1 DEF Coming
      <3> QED BY <1>0, <3>2 DEF Numbers
    <2>4. CASE SendMore
      <3>1. CanAnswer' /\ extra' = extra + 1
        BY <1>2, <2>4 DEF SendMore, CanAnswer
      <3>2. Bit(trans.dir = "rx") = 1 /\ Bit(trans.dir = "rx")' = 0
        BY <1>2 DEF Idle, Bit
      <3>3. Coming = Unsolicited + 1 - extra - 1
        BY <1>2, <2>2, <3>2 DEF Coming
      <3>4. Coming' = Unsolicited + 1 - (extra + 1) - 0
        BY <2>2, <3>1, <3>2 DEF Coming
      <3> QED BY <2>1, <3>3, <3>4
    <2> QED BY <2>3, <2>4
  <1>12. Falling
    <2>1. ClientWill' = ClientWill
      BY <1>7 DEF ClientWill
    <2>2. InfoLeft' <= InfoLeft /\ StatusLeft' <= StatusLeft
      BY <1>2, <1>6, <1>7 DEF InfoLeft, StatusLeft, Bit
    <2> QED BY <1>0, <1>11, <2>1, <2>2, LeqSame DEF Falling
  <1>13. (\A k : Cost(k)' <= Cost(k)) /\ Others' <= Others
    BY <1>0, <1>12, CostsFall
  <1>14. HoldBounds'
    <2> SUFFICES ASSUME NEW x \in Holdings', KindOf(x[3]) # "completed"
                 PROVE  Age(x[3].buf)' + Cost(KindOf(x[3]))' <= Unsolicited + 6
      BY DEF HoldBounds
    <2>1. x[3].buf \in Buffers /\ Age(x[3].buf) + Cost(KindOf(x[3])) <= Unsolicited + 6
      <3>1. CASE x \in Holdings
        BY <1>0, <3>1, HoldingsTyped DEF HoldBounds
      <3>2. CASE x = h
        <4> DEFINE r == <<0, trans.buf>>
        <4>1. r[1] = 0 /\ r[2] = e.buf
          BY <1>4
        <4>2. r \in Reserved
          BY <1>2 DEF Reserved, ToReceive
        <4> HIDE DEF r
        <4>3. WaitCost(r) = Cost("message")
          BY <4>1 DEF WaitCost
        <4> QED BY <1>0, <1>3, <1>4, <3>2, <4>1, <4>2, <4>3, EntryParts DEF WaitBounds
      <3> QED BY <1>3, <3>1, <3>2
    <2> DEFINE a == Age(x[3].buf)'
               n == Cost(KindOf(x[3]))'
    <2>2. a = Age(x[3].buf) /\ Age(x[3].buf) \in Nat
      <3>1. next \in Buffers /\ UNCHANGED next
        BY <1>0, <1>2 DEF GInv, TypeOK
      <3> QED BY <2>1, <3>1, SameAge, AgeTyped
    <2>3. n <= Cost(KindOf(x[3])) /\ n \in Nat /\ Cost(KindOf(x[3])) \in Nat
      BY <1>0, <1>13 DEF Numbers
    <2> HIDE DEF a, n
    <2>4. a + n <= Unsolicited + 6
      BY <2>1, <2>2, <2>3
    <2> QED BY <2>4 DEF a, n
  <1>15. WaitBounds'
    <2>1. Reserved' \subseteq Reserved
      BY <1>2 DEF Reserved, ToRead, Reading, ToReceive, Idle
    <2>2. \A r \in Reserved' : WaitCost(r)' <= WaitCost(r)
      BY <1>7, <1>13 DEF WaitCost
    <2> QED BY <1>0, <1>2, <2>1, <2>2, WaitCalm
  <1>16. DoneBounds'
    <2>1. ASSUME NEW m \in DOMAIN spi_comms_input_queue', InputKind(m)' = "completed"
          PROVE  \E j \in DOMAIN spi_comms_input_queue :
                   /\ spi_comms_input_queue[j] = spi_comms_input_queue'[m]
                   /\ DoneCost(m)' <= DoneCost(j)
      <3>1. PICK j \in DOMAIN spi_comms_input_queue :
              /\ spi_comms_input_queue[j] = spi_comms_input_queue'[m]
              /\ Behind(j) => Behind(m)'
        BY <1>0, <1>2, <1>4, <1>7, <2>1, DoneLengthens
      <3>2. DoneCost(m)' <= DoneCost(j)
        BY <1>0, <1>11, <1>13, <3>1, DoneCostFalls
      <3> QED BY <3>1, <3>2
    <2> QED BY <1>0, <1>2, <2>1, DoneCalm
  <1> QED BY <1>6, <1>8, <1>9, <1>10, <1>14, <1>15, <1>16 DEF Session

(* While the client task has much to do, ctxLink has nothing.                *)
LEMMA LittleComing ==
  ASSUME OneSession, Session, ClientWill >= 2
  PROVE  Coming = 0
  <1>0. GInv /\ Tokens /\ Beginning /\ Closing
    BY DEF Session, RingInv
  <1>1. task \in {"none", "hello", "take", "read", "package", "post", "bye", "report", "deleted"}
    BY <1>0, OneTask DEF OneSession
  <1>2. "request" \notin Kinds /\ ~CanAnswer
    <2>1. CASE task \in {"none", "hello"}
      <3>1. "request" \notin Kinds /\ Len(delivered) = 0
        BY <1>0, <2>1 DEF Beginning
      <3> QED BY <1>0, <3>1, CountersTyped DEF CanAnswer
    <2>2. CASE task = "bye"
      <3>1. sent = Len(returned)
        BY <1>0, <2>2 DEF Closing, Ending
      <3> QED BY <3>1, AtRest DEF OneSession
    <2>3. CASE task = "take" /\ ~Posted
      <3>1. unread \/ ~(sent > Len(returned))
        BY <2>3 DEF Posted
      <3>2. CASE unread
        BY <3>2, InTheSocket DEF OneSession
      <3>3. CASE ~(sent > Len(returned))
        <4>1. sent = Len(returned)
          BY <1>0, <3>3, CountersTyped DEF Tokens, Counters
        <4> QED BY <4>1, AtRest DEF OneSession
      <3> QED BY <3>1, <3>2, <3>3
    <2> QED BY <1>1, <2>1, <2>2, <2>3 DEF ClientWill, Bit
  <1> QED BY <1>2 DEF Coming

(* What is sent is removed from the output queue, a completion is built and  *)
(* queued, and the other packets for ctxLink come later; ...                 *)
LEMMA SentIsGone ==
  ASSUME OneSession, Session, Transmitted, TransferPasses, FreeTaken
  PROVE  /\ spi_comms_output_queue # <<>> /\ HeadOut \in Entries /\ trans.dir = "tx"
         /\ content[trans.buf] = HeadOut.packet /\ HeadOut.packet.type # "raw"
         /\ \E h : /\ h[1] = "input" /\ h[3] = Built(Packet("completed", 0))
                   /\ \A x \in Holdings' : x = h \/ (x \in Holdings /\ x[3].buf # next)
         /\ \A x \in Holdings' : KindOf(x[3]) \in Forward =>
              x \in Holdings /\ Rank(KindOf(x[3])) > Rank(KindOf(HeadOut))
         /\ \A x \in Holdings : x[1] = "input" => x[3].buf # next
         /\ \A r \in Reserved : r[2] # next
  <1>0. trans.dir = "tx" /\ RingInv /\ ForwardOrder /\ GInv
    BY DEF Transmitted, Session, RingInv
  <1>1. /\ spi_comms_output_queue # <<>> /\ trans.buf = HeadOut.buf
        /\ HeadOut \in Entries /\ content[trans.buf] = HeadOut.packet
    BY <1>0, InTransmission
  <1>2. HeadOut.packet.type # "raw"
    BY <1>0, <1>1, FirstTyped, AppendFramed DEF HeadOut, ForwardOrder
  <1>3. Moves("output", HeadOut, "input", Built(Packet("completed", 0)))
    <2>1. ~Answer /\ ~SendMore
      BY <1>0 DEF Answer, SendMore, Receives
    <2> QED BY <2>1 DEF TransferPasses, HeadOut
  <1>4. PICK g, h :
          /\ g \in Holdings
          /\ g[1] = "output" /\ g[3] = HeadOut
          /\ h[1] = "input" /\ h[3] = Built(Packet("completed", 0))
          /\ Holdings' \subseteq (Holdings \ {g}) \cup {h}
    BY <1>3 DEF Moves
  <1>5. \A x \in Holdings : x # g => x[3].buf # trans.buf
    BY <1>0, <1>1, <1>4 DEF RingInv, OneHolder
  <1>6. next \notin InUse \/ next = trans.buf
    BY DEF FreeTaken
  <1>7. \A x \in Holdings : x # g => x[3].buf # next
    BY <1>0, <1>5, <1>6, Unused
  <1>8. \A r \in Reserved : r[2] # next
    BY <1>0, <1>1, <1>4, <1>6, Unused DEF RingInv, Apart
  <1>9. ASSUME NEW x \in Holdings', KindOf(x[3]) \in Forward
        PROVE  x \in Holdings /\ Rank(KindOf(x[3])) > Rank(KindOf(HeadOut))
    <2>1. KindOf(h[3]) = "completed"
      BY <1>4, NewKinds DEF Kind
    <2>2. x \in Holdings /\ x # g
      BY <1>4, <1>9, <2>1 DEF Forward
    <2>3. x[3] # HeadOut
      BY <1>1, <1>5, <2>2
    <2> QED BY <1>1, <1>9, <2>2, <2>3, HeadFirst
  <1>10. \A x \in Holdings' : x = h \/ (x \in Holdings /\ x[3].buf # next)
    BY <1>4, <1>7
  <1>11. \A x \in Holdings : x[1] = "input" => x[3].buf # next
    BY <1>4, <1>7
  <1> QED BY <1>0, <1>1, <1>2, <1>4, <1>8, <1>9, <1>10, <1>11

(* ... of this kind it was.                                                  *)
Sent(k) == KindOf(HeadOut) = k

LEMMA TransmittedLeaves ==
  ASSUME OneSession, Session, RingInv', Transmitted, TransferPasses, FreeTaken
  PROVE  /\ UNCHANGED <<server_queue, spiMessage, client, clientEntry, peer, conns, sent, unread,
                        answered, extra, returned, wifi>>
         /\ Take /\ trans' = Idle /\ ToSpi(Built(Packet("completed", 0)))
         /\ spi_comms_output_queue' = Tail(spi_comms_output_queue)
         /\ Sent("request") => Len(delivered') = Len(delivered) + 1
         /\ ~Sent("request") => delivered' = delivered
         /\ Posted' = Posted /\ Sending' = Sending /\ task' = task /\ Ending' = Ending
  <1>1. /\ UNCHANGED <<server_queue, spiMessage, client, clientEntry, peer, conns, sent, unread,
                       answered, extra, returned, wifi>>
        /\ Take /\ trans' = Idle /\ ToSpi(Built(Packet("completed", 0)))
        /\ spi_comms_output_queue' = Tail(spi_comms_output_queue)
    BY DEF Transmitted, Build, spiVars, clientVars, wifiVars, peerVars
  <1>2. /\ HeadOut \in Entries /\ content[trans.buf] = HeadOut.packet
        /\ HeadOut.packet.type # "raw" /\ HeadOut.packet \in Packets
    BY SentIsGone, EntryParts
  <1>3. Sent("request") <=> HeadOut.packet.type = "from_gdb"
    <2>1. HeadOut.packet.type \in Types
      BY <1>2 DEF Packets
    <2> QED BY <1>2, <2>1 DEF Sent, KindOf, Kind, Types
  <1>4. delivered' = IF HeadOut.packet.type = "from_gdb" THEN Append(delivered, HeadOut.packet.id)
                                                         ELSE delivered
    BY <1>2 DEF Transmitted
  <1>5. delivered \in Seq(Ids) /\ HeadOut.packet.id \in Ids
    BY <1>2 DEF Session, RingInv, GInv, TypeOK, Packets
  <1>6. Sent("request") => Len(delivered') = Len(delivered) + 1
    BY <1>3, <1>4, <1>5
  <1>7. ~Sent("request") => delivered' = delivered
    BY <1>3, <1>4
  <1>8. Posted' = Posted
    BY <1>1 DEF Posted, task
  <1>9. Sending' = Sending /\ task' = task /\ Ending' = Ending
    BY <1>1 DEF Sending, task, Ending
  <1> QED BY <1>1, <1>6, <1>7, <1>8, <1>9

LEMMA TransmittedKinds ==
  ASSUME OneSession, Session, Transmitted, TransferPasses, FreeTaken
  PROVE  /\ wifi = "reported" /\ (Sent("network_info") \/ Sent("status") \/ Sent("request"))
         /\ KindOf(HeadOut) \in Kinds
         /\ Places' /\ Kinds' \subseteq Kinds \cup {"completed"}
         /\ "network_info" \notin Kinds' /\ (~Sent("network_info") => "status" \notin Kinds')
         /\ Sent("request") => "request" \notin Kinds'
         /\ task \notin {"bye", "report"} /\ (Sent("status") => task \notin {"none", "hello"})
         /\ Sent("request") => task \in {"take", "read"} /\ Posted /\ \A i : ~Behind(i)
         /\ \A x \in Holdings : ~IsReply(x[3].packet)
  <1>0. GInv /\ Tokens /\ Places /\ Beginning /\ Closing
    BY DEF Session, RingInv
  <1>1. /\ wifi = "reported" /\ KindOf(HeadOut) \in Kinds /\ KindOf(HeadOut) \in Forward
        /\ \E g \in Holdings : g[1] = "output" /\ g[3] = HeadOut
    BY SentIsGone, HeadFirst
  <1>2. Sent("network_info") \/ Sent("status") \/ Sent("request")
    BY <1>1 DEF Sent, Forward
  <1>3. PICK h : /\ h[1] = "input" /\ h[3] = Built(Packet("completed", 0))
                 /\ \A x \in Holdings' : x = h \/ x \in Holdings
    BY SentIsGone
  <1>4. KindOf(h[3]) = "completed"
    BY <1>3, NewKinds DEF Kind
  <1>5. Places' /\ Kinds' \subseteq Kinds \cup {"completed"}
    BY <1>0, <1>3, <1>4 DEF Places, Allowed, Kinds
  <1>6. \A k \in Kinds' : k \in Forward => Rank(k) > Rank(KindOf(HeadOut))
    BY SentIsGone DEF Kinds
  <1>7. "network_info" \notin Kinds' /\ (~Sent("network_info") => "status" \notin Kinds')
        /\ (Sent("request") => "request" \notin Kinds')
    BY <1>1, <1>6 DEF Sent, Forward, Rank
  <1>8. task \notin {"bye", "report"} /\ (Sent("status") => task \notin {"none", "hello"})
    BY <1>0, <1>1 DEF Closing, Beginning, Sent, Forward
  <1>9. ASSUME Sent("request") PROVE task \in {"take", "read"} /\ Posted /\ \A i : ~Behind(i)
    <2>1. /\ "request" \in Kinds
      BY <1>1, <1>9 DEF Sent
    <2>2. /\ ~unread /\ sent > Len(returned) /\ task \in {"take", "read", "package", "post"}
      BY <2>1, OnTheWay DEF OneSession
    <2>3. \A x \in Holdings : KindOf(x[3]) = "request" => x[1] = "output"
      BY <1>0, <1>1, <1>9, RequestHeld DEF Tokens, Requests, Sent
    <2>4. Sending = {}
      <3>1. \A k \in Sending : KindOf(clientEntry[k]) = "request"
        BY <1>0, HeldKinds DEF Allowed
      <3> QED BY <2>3, <3>1, IsHeld DEF WhereHeld
    <2>5. task \in {"take", "read"}
      BY <1>0, <2>2, <2>4, OneTask DEF OneSession
    <2>6. Posted
      BY <2>2, <2>5 DEF Posted
    <2>7. \A i : ~Behind(i)
      BY <1>0, <2>3, <2>4, NoneBehind
    <2> QED BY <2>5, <2>6, <2>7
  <1>10. ASSUME NEW x \in Holdings, IsReply(x[3].packet) PROVE FALSE
    <2>1. sent = Len(delivered) /\ sent > Len(returned)
      BY <1>0, <1>10, ReplyMeans
    <2>2. "request" \notin Kinds /\ "network_info" \notin Kinds /\ "status" \notin Kinds
      BY <2>1, WithCtxLink DEF OneSession
    <2> QED BY <1>1, <2>2 DEF Forward
  <1> QED BY <1>1, <1>2, <1>5, <1>7, <1>8, <1>9, <1>10

LEMMA TransmittedCosts ==
  ASSUME OneSession, Session, RingInv', Tokens', Transmitted, TransferPasses, FreeTaken
  PROVE  /\ Falling
         /\ Sent("request") => Coming' + 1 <= Coming
         /\ ~Sent("request") => Others' + 1 <= Others
         /\ Sent("network_info") => InfoLeft = 1 /\ InfoLeft' = 0
         /\ 2 + Others' + Coming' <= Unsolicited + 6
  <1>0. GInv /\ GInv' /\ Numbers /\ Numbers' /\ Tokens
    BY NumbersTyped, NumbersNext DEF Session, RingInv
  <1>1. /\ UNCHANGED <<sent, answered, extra, returned, wifi>> /\ trans' = Idle
        /\ Posted' = Posted /\ task' = task
        /\ ~Sent("request") => delivered' = delivered
    BY TransmittedLeaves
  <1>2. /\ wifi = "reported" /\ (Sent("network_info") \/ Sent("status") \/ Sent("request"))
        /\ KindOf(HeadOut) \in Kinds /\ Kinds' \subseteq Kinds \cup {"completed"}
        /\ "network_info" \notin Kinds' /\ (~Sent("network_info") => "status" \notin Kinds')
        /\ Sent("request") => "request" \notin Kinds'
        /\ task \notin {"bye", "report"} /\ (Sent("status") => task \notin {"none", "hello"})
        /\ Sent("request") => task \in {"take", "read"} /\ Posted
    BY TransmittedKinds
  <1>3. ClientWill' = ClientWill
    BY <1>1 DEF ClientWill
  <1>4. InfoLeft' = 0 /\ (Sent("network_info") => InfoLeft = 1)
    BY <1>1, <1>2 DEF InfoLeft, Bit, Sent
  <1>5. /\ StatusLeft' <= StatusLeft
        /\ Sent("status") => StatusLeft = 1 /\ StatusLeft' = 0
        /\ Sent("request") => StatusLeft' = 0
    <2>1. Sent("status") => StatusLeft = 1
      BY <1>2 DEF StatusLeft, Bit, Sent
    <2>2. ~Sent("network_info") => StatusLeft' = 0
      BY <1>1, <1>2 DEF StatusLeft, Bit, Sent
    <2>3. StatusLeft' <= StatusLeft
      BY <1>1, <1>2 DEF StatusLeft, Bit
    <2> QED BY <2>1, <2>2, <2>3 DEF Sent
  <1>6. /\ Coming' <= Coming
        /\ Sent("request") => Coming' + 1 <= Coming
    <2>1. CASE Sent("request")
      <3>1. Coming = Unsolicited + 2
        BY <1>2, <2>1 DEF Coming, Sent
      <3>2. extra \in Nat /\ extra <= Unsolicited /\ Unsolicited \in Nat
        BY <1>0 DEF GInv, TypeOK
      <3>3. Bit(trans.dir = "rx")' = 0
        BY <1>1 DEF Bit, Idle
      <3>4. "request" \notin Kinds' /\ extra' = extra
        BY <1>1, <1>2, <2>1
      <3>5. Coming' = Unsolicited + 1 - extra - 0 \/ Coming' = 0
        BY <3>3, <3>4 DEF Coming
      <3> QED BY <3>1, <3>2, <3>5
    <2>2. CASE ~Sent("request")
      <3>1. trans.dir = "tx" /\ trans'.dir # "rx"
        BY <1>1, SentIsGone DEF Idle
      <3> QED BY <1>0, <1>1, <1>2, <2>2, <3>1, ComingFalls
    <2> QED BY <2>1, <2>2
  <1>7. Falling
    BY <1>0, <1>3, <1>4, <1>5, <1>6, LeqSame DEF Falling, Numbers
  <1> DEFINE w == ClientWill'
             s == StatusLeft'
             c == Coming'
             o == Others'
             i == InfoLeft'
  <1>8. /\ o = w + i + s /\ Others = ClientWill + InfoLeft + StatusLeft
        /\ w = ClientWill /\ w \in 0..3 /\ i = 0 /\ InfoLeft \in 0..1
        /\ s \in 0..1 /\ StatusLeft \in 0..1 /\ s <= StatusLeft
        /\ c \in Nat /\ Coming \in Nat /\ c <= Coming /\ Coming <= Unsolicited + 2
        /\ Unsolicited \in Nat
    <2>1. o = w + i + s /\ Others = ClientWill + InfoLeft + StatusLeft
      BY Totals
    <2>2. /\ w \in 0..3 /\ InfoLeft \in 0..1 /\ s \in 0..1 /\ StatusLeft \in 0..1
          /\ c \in Nat /\ Coming \in Nat /\ Coming <= Unsolicited + 2 /\ Unsolicited \in Nat
      BY <1>0 DEF Numbers
    <2>3. w = ClientWill /\ i = 0 /\ s <= StatusLeft /\ c <= Coming
      BY <1>3, <1>4, <1>5, <1>6
    <2> QED BY <2>1, <2>2, <2>3
  <1>9. Sent("status") => s = 0
    BY <1>5
  <1>10. ClientWill >= 2 => Coming = 0
    BY LittleComing
  <1> HIDE DEF w, s, c, o, i
  <1>11. ~Sent("request") => o + 1 <= Others
    BY <1>2, <1>4, <1>5, <1>8, <1>9
  <1>12. 2 + o + c <= Unsolicited + 6
    <2>1. CASE ClientWill >= 2
      BY <1>8, <1>10, <2>1
    <2>2. CASE ClientWill <= 1
      BY <1>8, <2>2
    <2> QED BY <1>8, <2>1, <2>2
  <1> QED BY <1>4, <1>6, <1>7, <1>11, <1>12 DEF o, c

LEMMA TransmittedSession ==
  ASSUME OneSession, Session, RingInv', NotStarted', Tokens', FreeTaken, Transmitted, TransferPasses
  PROVE  Session'
  <1> DEFINE e == Built(Packet("completed", 0))
  <1>0. GInv /\ GInv' /\ Beginning /\ Closing /\ Delivering /\ ForwardOrder /\ ReplyLast
        /\ Numbers /\ Numbers' /\ HoldBounds /\ WaitBounds /\ DoneBounds /\ Tokens
    BY NumbersTyped, NumbersNext DEF Session, RingInv
  <1>1. /\ UNCHANGED <<server_queue, spiMessage, client, clientEntry, peer, conns, sent, unread,
                       answered, extra, returned, wifi>>
        /\ Take /\ trans' = Idle /\ ToSpi(e)
        /\ spi_comms_output_queue' = Tail(spi_comms_output_queue)
        /\ Sent("request") => Len(delivered') = Len(delivered) + 1
        /\ ~Sent("request") => delivered' = delivered
        /\ Posted' = Posted /\ Sending' = Sending /\ task' = task /\ Ending' = Ending
    BY TransmittedLeaves
  <1>2. /\ wifi = "reported" /\ (Sent("network_info") \/ Sent("status") \/ Sent("request"))
        /\ KindOf(HeadOut) \in Kinds
        /\ Places' /\ Kinds' \subseteq Kinds \cup {"completed"}
        /\ "network_info" \notin Kinds' /\ (~Sent("network_info") => "status" \notin Kinds')
        /\ Sent("request") => "request" \notin Kinds'
        /\ task \notin {"bye", "report"}
        /\ Sent("request") => task \in {"take", "read"} /\ Posted /\ \A i : ~Behind(i)
        /\ \A x \in Holdings : ~IsReply(x[3].packet)
    BY TransmittedKinds
  <1>3. /\ Falling
        /\ Sent("request") => Coming' + 1 <= Coming
        /\ ~Sent("request") => Others' + 1 <= Others
        /\ Sent("network_info") => InfoLeft = 1 /\ InfoLeft' = 0
        /\ 2 + Others' + Coming' <= Unsolicited + 6
    BY TransmittedCosts
  <1>4. PICK h : /\ h[1] = "input" /\ h[3] = e
                 /\ \A x \in Holdings' : x = h \/ (x \in Holdings /\ x[3].buf # next)
    BY SentIsGone
  <1>5. /\ spi_comms_output_queue # <<>>
        /\ \A x \in Holdings' : KindOf(x[3]) \in Forward =>
             Rank(KindOf(x[3])) > Rank(KindOf(HeadOut))
        /\ \A x \in Holdings : x[1] = "input" => x[3].buf # next
        /\ \A r \in Reserved : r[2] # next
    BY SentIsGone
  <1>6. KindOf(e) = "completed" /\ e.buf = next /\ e \in Entries /\ ~IsReply(e.packet)
    <2>1. KindOf(e) = "completed" /\ e.buf = next
      BY NewKinds DEF Kind, Built
    <2>2. e \in Entries
      BY <1>0, Builds, BuiltTyped DEF GInv, TypeOK
    <2>3. ~IsReply(e.packet)
      BY Neither
    <2> QED BY <2>1, <2>2, <2>3
  <1> HIDE DEF e
  <1>7. ASSUME Sent("request")
        PROVE  /\ Len(returned) = Len(delivered) /\ "message" \notin Kinds /\ "command" \notin Kinds
    BY <1>2, <1>7, OnTheWay DEF Sent, OneSession
  <1>8. Beginning' /\ Closing' /\ Delivering'
    <2>1. Beginning'
      <3>1. task \in {"none", "hello"} => delivered' = delivered
        BY <1>1, <1>2
      <3>2. Kinds' \cap {"status", "request"} \subseteq Kinds \cap {"status", "request"}
        BY <1>2
      <3> QED BY <1>0, <1>1, <1>2, <1>4, <3>1, <3>2 DEF Beginning
    <2>2. Closing'
      BY <1>0, <1>1, <1>2 DEF Closing, Ending
    <2>3. Delivering'
      <3>1. trans'.dir # "rx"
        BY <1>1 DEF Idle
      <3>2. Len(delivered) \in Nat /\ Len(returned) \in Nat
        BY <1>0, CountersTyped
      <3>3. CASE Sent("request")
        <4>1. Len(delivered') >= 1 /\ Len(returned) # Len(delivered') /\ Len(delivered') # 0
          BY <1>1, <1>7, <3>2, <3>3
        <4>2. "status" \notin Kinds' /\ "network_info" \notin Kinds'
          BY <1>2, <3>3 DEF Sent
        <4> QED BY <1>1, <3>1, <4>1, <4>2 DEF Delivering
      <3>4. CASE ~Sent("request")
        <4>1. delivered' = delivered /\ ("message" \notin Kinds' \/ "message" \in Kinds)
          BY <1>1, <1>2, <3>4
        <4>2. Len(returned) >= 1 /\ Len(returned) = Len(delivered) => Ending
          BY <1>0, <1>2, <3>4 DEF Delivering, Sent
        <4>3. "status" \in Kinds' => "status" \in Kinds
          BY <1>2
        <4>4. delivered' = delivered /\ ("message" \in Kinds' => "message" \in Kinds)
          BY <1>1, <1>2, <3>4
        <4> QED BY <1>0, <1>1, <1>2, <3>1, <4>2, <4>3, <4>4 DEF Delivering
      <3> QED BY <3>3, <3>4
    <2> QED BY <2>1, <2>2, <2>3
  <1>9. ForwardOrder'
    <2> DEFINE q == spi_comms_input_queue
               p == spi_comms_output_queue
    <2>1. q \in Seq(Entries) /\ p \in Seq(Entries) /\ p # <<>>
      BY <1>0, <1>5, FirstTyped
    <2>2. Ordered(Tail(p)) /\ Follow(Tail(p), q) /\ Framed(Tail(p))
      BY <1>0, <1>6, <2>1, TailOrder, AppendFramed DEF ForwardOrder
    <2>3. Precedes(q, e) /\ Precedes(Tail(p), e)
      BY <1>6 DEF Precedes, Forward
    <2>4. Ordered(Append(q, e)) /\ Follow(Tail(p), Append(q, e)) /\ Ordered(q)
      BY <1>0, <1>6, <2>1, <2>2, <2>3, AppendOrder DEF ForwardOrder
    <2> QED BY <1>1, <2>2, <2>4 DEF ForwardOrder, ToSpi, Enqueue
  <1>10. ReplyLast'
    <2>1. NoReply(spi_comms_input_queue)
      BY <1>2, IsHeld DEF WhereHeld, NoReply
    <2>2. AtEnd(Append(spi_comms_input_queue, e))
      BY <1>0, <1>6, <2>1, FirstTyped, AppendOrder
    <2>3. AtEnd(spi_comms_input_queue) /\ AtEnd(server_queue)
      BY <1>0 DEF ReplyLast
    <2>4. \A x \in Holdings' : ~IsReply(x[3].packet)
      BY <1>2, <1>4, <1>6
    <2> QED BY <1>1, <2>2, <2>3, <2>4 DEF ReplyLast, ToSpi, Enqueue
  <1>11. (\A k : Cost(k)' <= Cost(k)) /\ Others' <= Others /\ Coming' <= Coming
    BY <1>0, <1>3, CostsFall DEF Falling
  (* Each packet that goes to ctxLink brings the others closer to their end. *)
  <1>12. \A k : /\ ~Sent("request") /\ k = "request" => Cost(k)' + 1 <= Cost(k)
                /\ k \notin Forward => Cost(k)' + 1 <= Cost(k)
                /\ Sent("network_info") /\ k = "status" => Cost(k)' + 1 <= Cost(k)
    <2> TAKE k
    <2> DEFINE n == Cost(k)'
               o == Others'
               c == Coming'
               w == ClientWill'
               i == InfoLeft'
    <2>1. /\ k = "request" => n = o /\ Cost(k) = Others
          /\ k \notin Forward => n = o + c + 1 /\ Cost(k) = Others + Coming + 1
          /\ k = "status" => n = w + i /\ Cost(k) = ClientWill + InfoLeft
      BY CostIs
    <2>2. /\ o \in Nat /\ c \in Nat /\ Others \in Nat /\ Coming \in Nat
          /\ w \in Nat /\ ClientWill \in Nat
      BY <1>0 DEF Numbers
    <2>3. o <= Others /\ c <= Coming /\ w <= ClientWill
      BY <1>3, <1>11 DEF Falling
    <2>4. /\ Sent("request") => c + 1 <= Coming
          /\ ~Sent("request") => o + 1 <= Others
          /\ Sent("network_info") => InfoLeft = 1 /\ i = 0
      BY <1>3
    <2> HIDE DEF n, o, c, w, i
    <2>5. ~Sent("request") /\ k = "request" => n + 1 <= Cost(k)
      BY <2>1, <2>4
    <2>6. k \notin Forward => n + 1 <= Cost(k)
      BY <2>1, <2>2, <2>3, <2>4
    <2>7. Sent("network_info") /\ k = "status" => n + 1 <= Cost(k)
      BY <2>1, <2>2, <2>3, <2>4
    <2> QED BY <2>5, <2>6, <2>7 DEF n
  <1>13. HoldBounds'
    <2>1. PICK G : G = (Holdings' \cap Holdings) \ {h}
      OBVIOUS
    <2>2. G \subseteq Holdings /\ Holdings' \subseteq G \cup {h} /\ \A g \in G : g[3].buf # next
      BY <1>4, <2>1
    <2>3. ASSUME NEW g \in G, KindOf(g[3]) # "completed"
          PROVE  Cost(KindOf(g[3]))' + 1 <= Cost(KindOf(g[3]))
      <3>1. CASE KindOf(g[3]) \notin Forward
        BY <1>12, <3>1
      <3>2. CASE KindOf(g[3]) \in Forward
        <4>1. Rank(KindOf(g[3])) > Rank(KindOf(HeadOut))
          BY <1>5, <2>1, <3>2
        <4>2. \/ ~Sent("request") /\ KindOf(g[3]) = "request"
              \/ Sent("network_info") /\ KindOf(g[3]) = "status"
          BY <1>2, <3>2, <4>1 DEF Sent, Forward, Rank
        <4> QED BY <1>12, <4>2
      <3> QED BY <3>1, <3>2
    <2>4. h[3].buf = next /\ KindOf(h[3]) = "completed"
      BY <1>4, <1>6
    <2> QED BY <1>0, <1>1, <2>2, <2>3, <2>4, HoldTake
  <1>14. WaitBounds'
    <2>1. Reserved' \subseteq Reserved
      BY <1>1 DEF Reserved, ToRead, Reading, ToReceive, Idle
    <2>2. ASSUME NEW r \in Reserved' PROVE WaitCost(r)' + 1 <= WaitCost(r)
      <3>1. CASE r[1] = 0 \/ Posted
        <4>1. WaitCost(r) = Cost("message") /\ WaitCost(r)' = Cost("message")'
          BY <1>1, <3>1 DEF WaitCost
        <4> QED BY <1>12, <4>1 DEF Forward
      <3>2. CASE r[1] # 0 /\ ~Posted
        <4>1. WaitCost(r) = Cost("request") /\ WaitCost(r)' = Cost("request")'
          BY <1>1, <3>2 DEF WaitCost
        <4> QED BY <1>2, <1>12, <3>2, <4>1
      <3> QED BY <3>1, <3>2
    <2>3. \A r \in Reserved' :
            \/ r \in Reserved /\ r[2] # next /\ WaitCost(r)' + 1 <= WaitCost(r)
            \/ r[2] = next /\ 1 + WaitCost(r)' <= Unsolicited + 6
      BY <1>5, <2>1, <2>2
    <2> QED BY <1>0, <1>1, <2>3, WaitTake
  <1>15. DoneBounds'
    <2>1. ASSUME NEW i \in DOMAIN spi_comms_input_queue', InputKind(i)' = "completed"
          PROVE  \/ \E j \in DOMAIN spi_comms_input_queue :
                      /\ spi_comms_input_queue[j] = spi_comms_input_queue'[i]
                      /\ Behind(j) => Behind(i)'
                 \/ spi_comms_input_queue'[i] = e
      <3>1. CASE UNCHANGED spi_comms_input_queue
        BY <1>1, <3>1 DEF Behind
      <3>2. CASE spi_comms_input_queue' = Append(spi_comms_input_queue, e)
        <4>1. \/ \E j \in DOMAIN spi_comms_input_queue :
                   /\ spi_comms_input_queue[j] = spi_comms_input_queue'[i]
                   /\ After(spi_comms_input_queue, j) => After(spi_comms_input_queue', i)
              \/ spi_comms_input_queue'[i] = e
          BY <1>0, <1>6, <3>2, FirstTyped, AppendAfter
        <4> QED BY <1>1, <4>1 DEF Behind
      <3> QED BY <1>1, <3>1, <3>2 DEF ToSpi, Enqueue
    <2>2. ASSUME NEW i, NEW j, Behind(j) => Behind(i)'
          PROVE  DoneCost(i)' + 1 <= DoneCost(j)
      <3>1. /\ Others' + 1 <= Others => DoneCost(i)' + 1 <= DoneCost(j)
            /\ ~Behind(j) /\ Coming' + 1 <= Coming => DoneCost(i)' + 1 <= DoneCost(j)
        BY <1>0, <1>11, <2>2, DoneCostFalls
      <3> QED BY <1>2, <1>3, <3>1
    <2>3. ASSUME NEW i PROVE 1 + DoneCost(i)' <= Unsolicited + 6
      <3> DEFINE n == DoneCost(i)'
                 o == Others'
                 c == Coming'
      <3>1. n = o + 1 \/ n = o + 1 + c
        BY DoneCostIs
      <3>2. o \in Nat /\ c \in Nat /\ Unsolicited \in Nat
        BY <1>0 DEF Numbers
      <3>3. 2 + o + c <= Unsolicited + 6
        BY <1>3
      <3> HIDE DEF n, o, c
      <3>4. 1 + n <= Unsolicited + 6
        BY <3>1, <3>2, <3>3
      <3> QED BY <3>4 DEF n
    <2>4. ASSUME NEW i \in DOMAIN spi_comms_input_queue', InputKind(i)' = "completed"
          PROVE  \/ \E j \in DOMAIN spi_comms_input_queue :
                      /\ spi_comms_input_queue[j] = spi_comms_input_queue'[i]
                      /\ DoneCost(i)' + 1 <= DoneCost(j)
                 \/ /\ spi_comms_input_queue'[i].buf = next
                    /\ 1 + DoneCost(i)' <= Unsolicited + 6
      BY <1>6, <2>1, <2>2, <2>3, <2>4
    <2> QED BY <1>0, <1>1, <1>5, <2>4, DoneTake
  <1> QED BY <1>2, <1>8, <1>9, <1>10, <1>13, <1>14, <1>15 DEF Session
-----------------------------------------------------------------------------
LEMMA SessionInit == OneSession /\ Init => Session
  <1> SUFFICES ASSUME OneSession, Init PROVE Session
    OBVIOUS
  <1>1. RingInv /\ NotStarted /\ Tokens
    BY RingInit, NotStartedInit, TokensInit
  <1>2. Sending = {} /\ Reserved = {}
    BY DEF Init, Sending, Reading, ToRead, ToReceive, Reserved, Idle
  <1>3. Holdings = {} /\ Kinds = {}
    <2>1. Members(<<>>) = {}
      BY DEF Members
    <2>2. Holdings = {}
      BY <1>2, <2>1 DEF Init, Holdings, InputHolds, OutputHolds, ServerQueueHolds, SpiHolds,
                        ServerHolds, WifiHolds, ClientHolds, InQueue, InHand
    <2> QED BY <2>2 DEF Kinds
  <1>4. task = "none"
    BY DEF Init, OneSession, Conns, task
  <1>5. Places /\ HoldBounds /\ WaitBounds
    BY <1>2, <1>3 DEF Places, HoldBounds, WaitBounds
  <1>6. Beginning /\ Closing
    BY <1>3, <1>4 DEF Init, Beginning, Closing, Ending
  <1>7. Delivering
    BY <1>3 DEF Init, Delivering, Idle
  <1>8. ForwardOrder
    BY DEF Init, ForwardOrder, Ordered, Follow, Framed
  <1>9. ReplyLast /\ DoneBounds
    BY <1>1, <1>3, NothingSaid DEF RingInv, NoMessage, NoCompletion
  <1> QED BY <1>1, <1>5, <1>6, <1>7, <1>8, <1>9 DEF Session

LEMMA SessionNext == OneSession /\ Session /\ [Next]_vars => Session'
  <1> SUFFICES ASSUME OneSession, Session, [Next]_vars PROVE Session'
    OBVIOUS
  <1>1. FreeTaken
    BY SessionFree
  <1>2. RingInv /\ NotStarted /\ GInv /\ GInv' /\ RingInv' /\ NotStarted' /\ Tokens'
    <2>1. RingInv /\ NotStarted /\ Tokens /\ GInv /\ Window = 1
      BY DEF Session, RingInv, OneSession
    <2>2. GInv' /\ RingInv' /\ NotStarted' /\ Tokens'
      BY <1>1, <2>1, Inductive, RingNext, NotStartedNext, TokensNext
    <2> QED BY <2>1, <2>2
  <1>3. ASSUME NEW k \in Conns, Client(k) PROVE Session'
    <2>1. ClientPasses(k)
      BY <1>1, <1>2, <1>3, ClientRing
    <2>2. CASE SendConnected(k) \/ SendClosed(k) \/ SendDisconnected(k)
      BY <1>1, <1>2, <2>1, <2>2, SendConnectedSession, SendClosedSession,
         SendDisconnectedSession
    <2>3. CASE ClientTakes(k) \/ ClientReads(k) \/ ClientPackages(k)
      BY <1>1, <1>2, <2>1, <2>3, ClientTakesSession, ClientReadsSession,
         ClientPackagesSession
    <2>4. CASE ClientPosts(k) \/ ClientEnds(k)
      BY <1>2, <2>1, <2>4, ClientPostsSession, ClientEndsSession
    <2> QED BY <1>3, <2>2, <2>3, <2>4 DEF Client
  <1>4. CASE Server
    <2>1. ServerPasses
      BY <1>2, <1>4, ServerRing
    <2> QED BY <1>2, <1>4, <2>1, ServerReceivesSession, ServerSendsSession DEF Server
  <1>5. CASE Wifi
    <2>1. WifiPasses
      BY <1>1, <1>2, <1>5, WifiRing
    <2> QED BY <1>2, <1>5, <2>1, WifiConnectedSession, WifiReportsSession DEF Wifi
  <1>6. CASE Spi
    <2>1. SpiPasses
      BY <1>2, <1>6, SpiConsumesRing, SpiToServerRing, SpiForwardsRing DEF Spi
    <2> QED BY <1>2, <1>6, <2>1, SpiConsumesSession, SpiToServerSession,
               SpiForwardsSession DEF Spi
  <1>7. CASE Select
    <2>1. Frees
      BY <1>1, <1>2, <1>7, SelectRing
    <2> QED BY <1>1, <1>2, <1>7, <2>1, SelectToReadSession, SelectToSendSession DEF Select
  <1>8. CASE Transfer
    <2>1. TransferPasses
      BY <1>1, <1>2, <1>8, TransferRing
    <2> QED BY <1>1, <1>2, <1>8, <2>1, ReceivesSession, TransmittedSession DEF Transfer
  <1>9. CASE Accept \/ AcceptFails \/ Request \/ Leave \/ UNCHANGED vars
    <2>1. Frees
      BY <1>2, <1>9, NetworkRing
    <2> QED BY <1>2, <1>9, <2>1, AcceptSession, RequestSession, LeaveSession,
               SelectToReadSession
  <1> QED BY <1>3, <1>4, <1>5, <1>6, <1>7, <1>8, <1>9 DEF Next

(* With one session the ring is never too short: no buffer is taken that is  *)
(* in use, however long the queues are and however many requests are made.   *)
THEOREM SessionNeverTakesInUse == ASSUME OneSession PROVE Spec => NeverTakenInUse
  <1>1. Init => Session
    BY SessionInit
  <1>2. Session /\ [Next]_vars => Session'
    BY SessionNext
  <1>3. Session /\ [Next]_vars => [FreeTaken]_vars
    BY SessionFree
  <1> QED BY <1>1, <1>2, <1>3, PTL DEF Spec, NeverTakenInUse

(* So every packet of the session is intact while anybody has its buffer.    *)
THEOREM SessionIntact == ASSUME OneSession PROVE Spec => []Intact
  BY SessionNeverTakesInUse, KeepsIntact, PTL

(* And all the adapter does for it a request/reply channel might do, with no *)
(* condition on the ring left but its length: nothing is repeated,           *)
(* reordered, overwritten or made up.                                        *)
THEOREM SessionChannel == ASSUME OneSession PROVE Spec => RequestReplySafety
  <1>1. Window = 1
    BY DEF OneSession
  <1>2. Spec /\ NeverTakenInUse => RequestReplySafety
    BY <1>1, KeepsChannel
  <1> QED BY <1>2, SessionNeverTakesInUse, PTL

(* Nor does the server stop in its assertion.                                *)
THEOREM SessionNeverAsserts == ASSUME OneSession PROVE Spec => []AssertHolds
  BY SessionNeverTakesInUse, NeverAsserts, PTL
-----------------------------------------------------------------------------
(* Nothing is lost either, if the queues are long enough: the input queue    *)
(* for all buffers there are, as its entries have different ones, and the    *)
(* output queue for the network report, the status and the open request.     *)
LongQueues == InLen >= N /\ OutLen >= 3

HasRequest(q) == \E i \in DOMAIN q : IsRequest(q[i].packet)
HasReply(q)   == \E i \in DOMAIN q : IsReply(q[i].packet)

(* The open request is somewhere, or with ctxLink; the open answer is        *)
(* somewhere, or with the network client.                                    *)
RequestGoes == \/ sent = Len(delivered) \/ unread \/ Sending # {}
               \/ HasRequest(spi_comms_input_queue) \/ HasRequest(spi_comms_output_queue)
AnswerGoes == \/ answered = Len(returned)
              \/ HasReply(spi_comms_input_queue) \/ HasReply(server_queue)
              \/ spi = "forward" /\ IsReply(spiMessage.packet)
              \/ server = "send" /\ IsReply(serverMessage.packet)
Goes == RequestGoes /\ AnswerGoes

(* A queue whose entries have different buffers leaves room for one more.    *)
LEMMA Room ==
  ASSUME NEW q \in Seq(Entries), Injective(q), NEW b \in Buffers,
         \A i \in DOMAIN q : q[i].buf # b
  PROVE  Len(q) < N
  <1> DEFINE S == 1..Len(q)
             T == Buffers \ {b}
             f == [i \in S |-> q[i].buf]
  <1>1. Len(q) \in Nat /\ N \in Nat /\ N >= 1 /\ DOMAIN q = S
    OBVIOUS
  <1>2. IsFiniteSet(S) /\ Cardinality(S) = Len(q)
    <2>1. IsFiniteSet(1..Len(q))
          /\ Cardinality(1..Len(q)) = IF 1 > Len(q) THEN 0 ELSE Len(q) - 1 + 1
      BY <1>1, FS_Interval
    <2> QED BY <1>1, <2>1
  <1>3. IsFiniteSet(T) /\ Cardinality(T) = N - 1
    <2>1. IsFiniteSet(0..N - 1)
          /\ Cardinality(0..N - 1) = IF 0 > N - 1 THEN 0 ELSE (N - 1) - 0 + 1
      BY <1>1, FS_Interval
    <2>2. IsFiniteSet(Buffers) /\ Cardinality(Buffers) = N
      BY <1>1, <2>1 DEF Buffers
    <2> QED BY <2>2, FS_RemoveElement
  <1>4. f \in [S -> T]
    <2>1. \A i \in S : q[i] \in Entries
      BY <1>1
    <2>2. \A i \in S : q[i].buf \in T
      BY <1>1, <2>1, EntryParts
    <2> QED BY <2>2
  <1>5. ASSUME N <= Len(q) PROVE FALSE
    <2>1. Cardinality(T) < Cardinality(S)
      BY <1>1, <1>2, <1>3, <1>5
    <2> HIDE DEF S, T, f
    <2>2. PICK i \in S, j \in S : i # j /\ f[i] = f[j]
      BY <1>2, <1>3, <1>4, <2>1, FS_PigeonHole
    <2>3. q[i].buf = q[j].buf
      BY <2>2 DEF f
    <2> QED BY <1>1, <2>2, <2>3 DEF Injective
  <1> QED BY <1>1, <1>5

(* What is in a queue stays in it as others come, and till it is the first.  *)
LEMMA AppendHas ==
  ASSUME NEW q \in Seq(Entries), NEW e \in Entries
  PROVE  /\ HasRequest(q) \/ IsRequest(e.packet) => HasRequest(Append(q, e))
         /\ HasReply(q) \/ IsReply(e.packet) => HasReply(Append(q, e))
         /\ \A n : /\ HasRequest(q) => HasRequest(Enqueue(q, e, n))
                   /\ HasReply(q) => HasReply(Enqueue(q, e, n))
  <1>1. /\ Len(q) \in Nat /\ DOMAIN q = 1..Len(q) /\ DOMAIN Append(q, e) = 1..Len(q) + 1
        /\ \A i \in 1..Len(q) : Append(q, e)[i] = q[i]
        /\ Append(q, e)[Len(q) + 1] = e
    OBVIOUS
  <1>2. HasRequest(q) \/ IsRequest(e.packet) => HasRequest(Append(q, e))
    BY <1>1 DEF HasRequest
  <1>3. HasReply(q) \/ IsReply(e.packet) => HasReply(Append(q, e))
    BY <1>1 DEF HasReply
  <1> QED BY <1>2, <1>3 DEF Enqueue

LEMMA TailHas ==
  ASSUME NEW q \in Seq(Entries), q # <<>>
  PROVE  /\ HasRequest(q) => HasRequest(Tail(q)) \/ IsRequest(Head(q).packet)
         /\ HasReply(q) => HasReply(Tail(q)) \/ IsReply(Head(q).packet)
  <1>1. /\ Len(q) \in Nat /\ DOMAIN q = 1..Len(q) /\ DOMAIN Tail(q) = 1..Len(q) - 1
        /\ \A i \in 1..Len(q) - 1 : Tail(q)[i] = q[i + 1]
        /\ Head(q) = q[1]
    OBVIOUS
  <1>2. \A i \in DOMAIN q : i = 1 \/ (i - 1 \in DOMAIN Tail(q) /\ Tail(q)[i - 1] = q[i])
    BY <1>1
  <1> QED BY <1>1, <1>2 DEF HasRequest, HasReply

(* A packet for the SPI task.                                                *)
LEMMA ToSpiHas ==
  ASSUME GInv, NEW e \in Entries, ToSpi(e)
  PROVE  /\ HasRequest(spi_comms_input_queue) => HasRequest(spi_comms_input_queue')
         /\ HasReply(spi_comms_input_queue) => HasReply(spi_comms_input_queue')
  BY AppendHas DEF ToSpi, GInv, TypeOK

(* There is room in the input queue for a buffer that is not in it.          *)
LEMMA InputRoom ==
  ASSUME LongQueues, RingInv, NEW e \in Entries, ToSpi(e),
         \A i \in DOMAIN spi_comms_input_queue : spi_comms_input_queue[i].buf # e.buf
  PROVE  spi_comms_input_queue' = Append(spi_comms_input_queue, e)
  <1>1. /\ spi_comms_input_queue \in Seq(Entries) /\ Injective(spi_comms_input_queue)
        /\ e.buf \in Buffers
    BY EntryParts DEF RingInv, GInv, TypeOK, OnceInQueues
  <1>2. Len(spi_comms_input_queue) < N
    BY <1>1, Room
  <1>3. Len(spi_comms_input_queue) < InLen
    BY <1>1, <1>2 DEF LongQueues
  <1> QED BY <1>3 DEF ToSpi, Enqueue

(* There is room in the output queue for a request: before it come at most   *)
(* the network report and the status, in this order.                         *)
LEMMA OutputRoom ==
  ASSUME LongQueues, Session, spi_comms_input_queue # <<>>,
         KindOf(Head(spi_comms_input_queue)) = "request"
  PROVE  Len(spi_comms_output_queue) < OutLen
  <1> DEFINE q == spi_comms_output_queue
             e == Head(spi_comms_input_queue)
             R(i) == Rank(KindOf(q[i]))
  <1>0. GInv /\ Places /\ ForwardOrder
    BY DEF Session, RingInv
  <1>1. q \in Seq(Entries) /\ Len(q) \in Nat /\ DOMAIN q = 1..Len(q) /\ OutLen \in Nat
    BY <1>0 DEF GInv, TypeOK
  <1>2. 1 \in DOMAIN spi_comms_input_queue /\ e = spi_comms_input_queue[1]
    BY <1>0 DEF GInv, TypeOK
  <1>3. \A i \in DOMAIN q : KindOf(q[i]) \in Forward
    <2>1. ASSUME NEW i \in DOMAIN q PROVE KindOf(q[i]) \in Forward
      <3>1. PICK h \in Holdings : h[1] = "output" /\ h[3] = q[i]
        BY IsHeld DEF WhereHeld
      <3>2. KindOf(h[3]) \in Allowed("output")
        BY <1>0, <3>1 DEF Places
      <3> QED BY <3>1, <3>2 DEF Allowed
    <2> QED BY <2>1
  <1>4. "request" \in Forward /\ Rank("request") = 3
    BY DEF Forward, Rank
  <1>5. \A i \in DOMAIN q : R(i) \in 1..2
    <2>1. \A i \in DOMAIN q : R(i) < 3
      BY <1>0, <1>2, <1>3, <1>4 DEF ForwardOrder, Follow
    <2>2. \A i \in DOMAIN q : R(i) \in 1..3
      BY <1>3 DEF Forward, Rank
    <2> QED BY <2>1, <2>2
  <1>6. \A i, j \in DOMAIN q : i < j => R(i) < R(j)
    BY <1>0, <1>3 DEF ForwardOrder, Ordered
  <1>7. ASSUME Len(q) >= 3 PROVE FALSE
    <2>1. 1 \in DOMAIN q /\ 2 \in DOMAIN q /\ 3 \in DOMAIN q
      BY <1>1, <1>7
    <2>2. R(1) < R(2) /\ R(2) < R(3)
      BY <1>6, <2>1
    <2>3. R(1) \in 1..2 /\ R(2) \in 1..2 /\ R(3) \in 1..2
      BY <1>5, <2>1
    <2> HIDE DEF R
    <2> QED BY <2>2, <2>3
  <1> QED BY <1>1, <1>7 DEF LongQueues
-----------------------------------------------------------------------------
LEMMA SendingIs ==
  Sending # {} <=> \E k \in Conns : client[k] \in {"package", "post"}
  BY DEF Sending

(* The client tasks carry a request from the socket to the SPI task.         *)
LEMMA ClientGoes ==
  ASSUME LongQueues, Session, Goes, NEW k \in Conns, Client(k)
  PROVE  Goes'
  <1>0. /\ RingInv /\ GInv /\ Tokens /\ ByPlace
        /\ client \in [Conns -> {"none", "hello", "take", "read", "package", "post",
                                 "bye", "report", "deleted"}]
        /\ next \in Buffers /\ server_queue \in Seq(Entries)
    BY DEF Session, RingInv, GInv, TypeOK, Tokens
  <1>1. /\ UNCHANGED <<spi, spiMessage, server, serverMessage, spi_comms_output_queue,
                       sent, delivered, answered, returned>>
    BY DEF Client, SendConnected, ClientTakes, ClientReads, ClientPackages, ClientPosts,
           ClientEnds, SendClosed, SendDisconnected, queues, spiVars, serverVars, peerVars, ctxVars
  <1>2. \A i \in {0, 1} : Built(Packet("status", i)) \in Entries
        /\ Built(Packet("command", 0)) \in Entries
    BY <1>0, BuiltTyped, PacketTyped, ZeroId DEF Types
  <1>3. CASE SendConnected(k) \/ SendDisconnected(k)
    <2>1. /\ UNCHANGED <<server_queue, unread>>
          /\ \A j \in Conns : client[j] \in {"package", "post"} => client'[j] = client[j]
          /\ \E i \in {0, 1} : ToSpi(Built(Packet("status", i)))
      BY <1>0, <1>3 DEF SendConnected, SendDisconnected, ClientAt, peerVars
    <2> QED BY <1>0, <1>1, <1>2, <2>1, ToSpiHas DEF Goes, RequestGoes, AnswerGoes, Sending
  <1>4. CASE ClientTakes(k) \/ ClientEnds(k)
    <2>1. /\ UNCHANGED <<queues, unread>>
          /\ \A j \in Conns : client[j] \in {"package", "post"} => client'[j] = client[j]
      BY <1>0, <1>4 DEF ClientTakes, ClientEnds, ClientAt, peerVars
    <2> QED BY <1>1, <2>1 DEF Goes, RequestGoes, AnswerGoes, Sending, queues
  <1>5. CASE ClientReads(k) \/ ClientPackages(k)
    <2>1. UNCHANGED queues /\ client'[k] \in {"package", "post"}
      BY <1>0, <1>5 DEF ClientReads, ClientPackages, ClientAt
    <2> QED BY <1>1, <2>1 DEF Goes, RequestGoes, AnswerGoes, Sending, queues
  <1>6. CASE ClientPosts(k)
    <2>1. /\ ToSpi(clientEntry[k]) /\ UNCHANGED <<server_queue, unread>> /\ k \in Sending
      BY <1>6 DEF ClientPosts, ClientAt, Sending, peerVars
    <2>2. clientEntry[k] \in Entries /\ IsRequest(clientEntry[k].packet)
      BY <1>0, <2>1 DEF Sending, GInv, Pointers, ByPlace
    <2>3. ASSUME NEW i \in DOMAIN spi_comms_input_queue
          PROVE  spi_comms_input_queue[i].buf # clientEntry[k].buf
      <3>1. PICK g \in Holdings : g[1] = "input" /\ g[3] = spi_comms_input_queue[i]
        BY IsHeld DEF WhereHeld
      <3>2. PICK h \in Holdings : h[1] = "client" /\ h[3] = clientEntry[k]
        BY <2>1, IsHeld DEF WhereHeld
      <3> QED BY <1>0, <3>1, <3>2 DEF RingInv, OneHolder
    <2>4. spi_comms_input_queue' = Append(spi_comms_input_queue, clientEntry[k])
      BY <1>0, <2>1, <2>2, <2>3, InputRoom
    <2>5. /\ HasRequest(spi_comms_input_queue')
          /\ HasReply(spi_comms_input_queue) => HasReply(spi_comms_input_queue')
      BY <1>0, <2>2, <2>4, AppendHas DEF GInv, TypeOK
    <2> QED BY <1>1, <2>1, <2>5 DEF Goes, RequestGoes, AnswerGoes
  <1>7. CASE SendClosed(k)
    <2>1. /\ UNCHANGED <<spi_comms_input_queue, unread>>
          /\ \A j \in Conns : client[j] \in {"package", "post"} => client'[j] = client[j]
          /\ server_queue' = Enqueue(server_queue, Built(Packet("command", 0)), SrvLen)
      BY <1>0, <1>7 DEF SendClosed, ClientAt, peerVars
    <2>2. HasReply(server_queue) => HasReply(server_queue')
      BY <1>0, <1>2, <2>1, AppendHas
    <2> QED BY <1>1, <2>1, <2>2 DEF Goes, RequestGoes, AnswerGoes, Sending
  <1> QED BY <1>3, <1>4, <1>5, <1>6, <1>7 DEF Client

(* The server carries an answer from its queue to the network client.        *)
LEMMA ServerGoes ==
  ASSUME Session, Routed, Goes, Server
  PROVE  Goes'
  <1>0. RingInv /\ GInv /\ Tokens /\ server_queue \in Seq(Entries)
    BY DEF Session, RingInv, GInv, TypeOK
  <1>1. /\ UNCHANGED <<spi, spiMessage, spi_comms_input_queue, spi_comms_output_queue,
                       client, unread, sent, delivered, answered>>
    BY DEF Server, ServerReceives, ServerSends, queues, spiVars, clientVars, peerVars, ctxVars
  <1>2. RequestGoes'
    BY <1>1 DEF Goes, RequestGoes, Sending
  <1>3. CASE ServerReceives
    <2> DEFINE e == Head(server_queue)
    <2>1. /\ server = "receive" /\ server_queue # <<>> /\ server_queue' = Tail(server_queue)
          /\ UNCHANGED returned
          /\ content[e.buf].type = "to_client" => server' = "send" /\ serverMessage' = e
      BY <1>3 DEF ServerReceives
    <2>2. 1 \in DOMAIN server_queue /\ e = server_queue[1]
      BY <1>0, <2>1
    <2>3. PICK h \in Holdings : h[1] = "server_queue" /\ h[3] = e
      BY <2>2, IsHeld DEF WhereHeld
    <2>4. content[e.buf] = e.packet /\ e.packet.type \in {"to_client", "command"}
      BY <1>0, <2>3 DEF RingInv, Kept, Routed, InPlace, Belongs
    <2>5. IsReply(e.packet) => server' = "send" /\ IsReply(serverMessage'.packet)
      BY <2>1, <2>4 DEF IsReply
    <2>6. HasReply(server_queue) => HasReply(server_queue') \/ IsReply(e.packet)
      BY <1>0, <2>1, TailHas
    <2> QED BY <1>1, <1>2, <2>1, <2>5, <2>6 DEF Goes, AnswerGoes
  <1>4. CASE ServerSends
    <2>1. /\ server = "send" /\ UNCHANGED server_queue /\ serverMessage \in Entries
          /\ Returns(content[serverMessage.buf])
      BY <1>0, <1>4 DEF ServerSends, queues, GInv, Pointers
    <2>2. serverMessage # NONE
      BY <2>1
    <2>3. PICK h \in Holdings : h[1] = "server" /\ h[3] = serverMessage
      BY <2>2, IsHeld DEF WhereHeld
    <2>4. content[serverMessage.buf] = serverMessage.packet
      BY <1>0, <2>3 DEF RingInv, Kept
    <2>5. CASE IsReply(serverMessage.packet)
      <3>1. answered = Len(returned) + 1
        BY <1>0, <2>3, <2>5 DEF Tokens, Replies
      <3>2. returned' = Append(returned, serverMessage.packet.id)
        BY <2>1, <2>4, <2>5 DEF Returns, IsReply
      <3>3. Len(returned') = Len(returned) + 1
        BY <1>0, <3>2 DEF GInv, TypeOK
      <3> QED BY <1>1, <1>2, <3>1, <3>3 DEF Goes, AnswerGoes
    <2>6. CASE ~IsReply(serverMessage.packet)
      <3>1. serverMessage.packet.type = "to_client"
        BY <1>0, <2>2 DEF Tokens, ByPlace
      <3>2. returned' = returned
        BY <2>1, <2>4, <2>6, <3>1 DEF Returns, IsReply
      <3> QED BY <1>1, <1>2, <2>1, <2>6, <3>2 DEF Goes, AnswerGoes
    <2> QED BY <2>5, <2>6
  <1> QED BY <1>3, <1>4 DEF Server

LEMMA WifiGoes ==
  ASSUME Session, Goes, Wifi
  PROVE  Goes'
  <1>0. GInv /\ Beginning
    BY DEF Session, RingInv
  <1>1. /\ UNCHANGED <<spi, spiMessage, serverMessage, server_queue, spi_comms_output_queue,
                       client, unread, sent, delivered, answered, returned>>
    BY DEF Wifi, WifiConnected, WifiReports, queues, spiVars, serverVars, clientVars, peerVars,
           ctxVars
  <1>2. CASE WifiConnected
    <2>1. wifi = "poll" /\ UNCHANGED spi_comms_input_queue
      BY <1>2 DEF WifiConnected, queues
    <2>2. Holdings = {}
      BY <1>0, <2>1 DEF Beginning
    <2>3. ~(server = "send" /\ IsReply(serverMessage.packet))
      <3>1. server = "send" => serverMessage # NONE
        BY <1>0 DEF GInv, Pointers
      <3> QED BY <2>2, <3>1, IsHeld DEF WhereHeld
    <2> QED BY <1>1, <2>1, <2>3 DEF Goes, RequestGoes, AnswerGoes, Sending
  <1>3. CASE WifiReports
    <2>1. ToSpi(wifiEntry) /\ wifiEntry \in Entries /\ UNCHANGED server
      BY <1>0, <1>3 DEF WifiReports, GInv, Pointers, serverVars
    <2> QED BY <1>0, <1>1, <2>1, ToSpiHas DEF Goes, RequestGoes, AnswerGoes, Sending
  <1> QED BY <1>2, <1>3 DEF Wifi

(* The SPI task sends a request on to ctxLink, an answer to the server.      *)
LEMMA SpiGoes ==
  ASSUME LongQueues, Session, Routed, Goes, Spi
  PROVE  Goes'
  <1> DEFINE q == spi_comms_input_queue
             e == Head(spi_comms_input_queue)
  <1>0. /\ RingInv /\ GInv /\ q \in Seq(Entries)
        /\ spi_comms_output_queue \in Seq(Entries) /\ server_queue \in Seq(Entries)
    BY DEF Session, RingInv, GInv, TypeOK
  <1>1. UNCHANGED <<server, serverMessage, client, unread, sent, delivered, answered, returned>>
    BY DEF Spi, SpiConsumes, SpiToServer, SpiForwards, serverVars, clientVars, peerVars, ctxVars
  <1>2. ASSUME NEW types, Dispatch(types)
        PROVE  /\ q # <<>> /\ e \in Entries /\ spi = "receive"
               /\ e.packet.type \in types \cap Belongs("input")
               /\ HasRequest(q) => HasRequest(q') \/ IsRequest(e.packet)
               /\ HasReply(q) => HasReply(q') \/ IsReply(e.packet)
    <2>1. q # <<>> /\ q' = Tail(q) /\ spi = "receive" /\ content[e.buf].type \in types
      BY <1>2 DEF Dispatch
    <2>2. 1 \in DOMAIN q /\ e = q[1] /\ e \in Entries
      BY <1>0, <2>1
    <2>3. PICK h \in Holdings : h[1] = "input" /\ h[3] = e
      BY <2>2, IsHeld DEF WhereHeld
    <2>4. content[e.buf] = e.packet /\ e.packet.type \in Belongs("input")
      BY <1>0, <2>3 DEF RingInv, Kept, Routed, InPlace
    <2> QED BY <1>0, <2>1, <2>2, <2>4, TailHas
  <1>3. CASE SpiConsumes
    <2>1. /\ q # <<>> /\ e \in Entries /\ spi = "receive"
          /\ e.packet.type \in (Types \ {"to_gdb"}) \cap Belongs("input")
          /\ HasRequest(q) => HasRequest(q') \/ IsRequest(e.packet)
          /\ HasReply(q) => HasReply(q') \/ IsReply(e.packet)
      BY <1>2, <1>3 DEF SpiConsumes
    <2>2. /\ ~IsReply(e.packet)
          /\ IsRequest(e.packet) => e.packet.type = "from_gdb"
      BY <2>1 DEF IsReply, IsRequest, Belongs
    <2>3. /\ UNCHANGED <<spi, spiMessage, server_queue>>
          /\ spi_comms_output_queue' \in {spi_comms_output_queue,
                                          Enqueue(spi_comms_output_queue, e, OutLen)}
          /\ content[e.buf].type = "from_gdb"
               => spi_comms_output_queue' = Enqueue(spi_comms_output_queue, e, OutLen)
      BY <1>3 DEF SpiConsumes, spiVars
    <2>4. HasRequest(spi_comms_output_queue) => HasRequest(spi_comms_output_queue')
      BY <1>0, <2>1, <2>3, AppendHas
    <2>5. ASSUME IsRequest(e.packet) PROVE HasRequest(spi_comms_output_queue')
      <3>1. KindOf(e) = "request"
        BY <2>5 DEF KindOf, Kind, IsRequest
      <3>2. Len(spi_comms_output_queue) < OutLen
        BY <2>1, <3>1, OutputRoom
      <3>3. content[e.buf] = e.packet
        <4>1. 1 \in DOMAIN q /\ e = q[1]
          BY <1>0, <2>1
        <4>2. PICK h \in Holdings : h[1] = "input" /\ h[3] = e
          BY <4>1, IsHeld DEF WhereHeld
        <4> QED BY <1>0, <4>2 DEF RingInv, Kept
      <3>4. spi_comms_output_queue' = Append(spi_comms_output_queue, e)
        BY <2>2, <2>3, <2>5, <3>2, <3>3 DEF Enqueue
      <3> QED BY <1>0, <2>1, <2>5, <3>4, AppendHas
    <2> QED BY <1>1, <2>1, <2>2, <2>3, <2>4, <2>5 DEF Goes, RequestGoes, AnswerGoes, Sending
  <1>4. CASE SpiToServer
    <2>1. /\ spi = "receive" /\ e \in Entries
          /\ e.packet.type \in {"to_gdb"} \cap Belongs("input")
          /\ HasRequest(q) => HasRequest(q') \/ IsRequest(e.packet)
          /\ HasReply(q) => HasReply(q') \/ IsReply(e.packet)
      BY <1>2, <1>4 DEF SpiToServer
    <2>2. /\ spi' = "forward" /\ spiMessage' = [e EXCEPT !.packet.type = "to_client"]
          /\ UNCHANGED <<spi_comms_output_queue, server_queue>>
      BY <1>4 DEF SpiToServer
    <2>3. spiMessage'.packet.type = "to_client" /\ spiMessage'.packet.id = e.packet.id
      BY <2>1, <2>2 DEF Entries, Packets
    <2>4. /\ ~IsRequest(e.packet)
          /\ IsReply(e.packet) => IsReply(spiMessage'.packet)
      BY <2>1, <2>3 DEF IsRequest, IsReply
    <2> QED BY <1>1, <2>1, <2>2, <2>4 DEF Goes, RequestGoes, AnswerGoes, Sending
  <1>5. CASE SpiForwards
    <2>1. /\ spi = "forward" /\ spiMessage \in Entries
          /\ server_queue' = Append(server_queue, spiMessage)
          /\ UNCHANGED <<spi_comms_input_queue, spi_comms_output_queue>>
      BY <1>0, <1>5 DEF SpiForwards, GInv, Pointers
    <2>2. HasReply(server_queue) \/ IsReply(spiMessage.packet) => HasReply(server_queue')
      BY <1>0, <2>1, AppendHas
    <2> QED BY <1>1, <2>1, <2>2 DEF Goes, RequestGoes, AnswerGoes, Sending
  <1> QED BY <1>3, <1>4, <1>5 DEF Spi

(* ctxLink takes the request and gives the answer.                           *)
LEMMA TransferGoes ==
  ASSUME LongQueues, Session, Routed, Goes, Transfer
  PROVE  Goes'
  <1>0. /\ RingInv /\ GInv /\ Tokens /\ next \in Buffers /\ trans.buf \in Buffers
        /\ spi_comms_output_queue \in Seq(Entries)
        /\ spi_comms_input_queue \in Seq(Entries)
    BY DEF Session, RingInv, GInv, TypeOK
  <1>1. UNCHANGED <<spi, spiMessage, server, serverMessage, server_queue, client, unread, sent,
                    returned>>
    BY DEF Transfer, Answer, SendMore, Receives, Transmitted, spiVars, serverVars, clientVars,
           peerVars
  <1>2. CASE Answer
    <2> DEFINE p == Packet("to_gdb", delivered[answered + 1])
               e == [buf |-> trans.buf, packet |-> p]
    <2>1. /\ CanAnswer /\ trans.dir = "rx" /\ answered' = answered + 1 /\ ToSpi(e)
          /\ UNCHANGED <<delivered, spi_comms_output_queue>>
      BY <1>2 DEF Answer, Receives
    <2>2. sent = Len(delivered) /\ answered + 1 = Len(delivered) /\ delivered[answered + 1] = answered + 1
      BY <1>0, <2>1, CanAnswerMeans, CountersTyped DEF Tokens, InOrder
    <2>3. p \in Packets /\ e \in Entries /\ IsReply(p)
      <3>1. delivered[answered + 1] \in Ids /\ answered + 1 # 0
        BY <1>0, <2>2, CountersTyped DEF GInv, TypeOK
      <3>2. p \in Packets
        BY <3>1, PacketTyped DEF Types
      <3>3. IsReply(p)
        BY <2>2, <3>1 DEF IsReply, Packet
      <3> QED BY <1>0, <3>2, <3>3, EntryOf
    <2>4. ASSUME NEW i \in DOMAIN spi_comms_input_queue
          PROVE  spi_comms_input_queue[i].buf # trans.buf
      <3>1. PICK g \in Holdings : g[3] = spi_comms_input_queue[i]
        BY IsHeld DEF WhereHeld
      <3> DEFINE r == <<0, trans.buf>>
      <3>2. r \in Reserved /\ r[2] = trans.buf
        BY <2>1 DEF Reserved, ToReceive
      <3> HIDE DEF r
      <3> QED BY <1>0, <3>1, <3>2 DEF RingInv, Apart
    <2> HIDE DEF p
    <2>5. spi_comms_input_queue' = Append(spi_comms_input_queue, e)
      BY <1>0, <2>1, <2>3, <2>4, InputRoom
    <2>6. HasReply(spi_comms_input_queue')
      BY <1>0, <2>3, <2>5, AppendHas
    <2> QED BY <2>1, <2>2, <2>6, <1>1 DEF Goes, RequestGoes, AnswerGoes
  <1>3. CASE SendMore
    <2> DEFINE e == [buf |-> trans.buf, packet |-> Packet("to_gdb", 0)]
    <2>1. ToSpi(e) /\ UNCHANGED <<delivered, answered, spi_comms_output_queue>>
      BY <1>3 DEF SendMore, Receives
    <2>2. e \in Entries
      BY <1>0, Builds, EntryOf
    <2> HIDE DEF e
    <2> QED BY <1>0, <1>1, <2>1, <2>2, ToSpiHas DEF Goes, RequestGoes, AnswerGoes, Sending
  <1>4. CASE Transmitted
    <2> DEFINE e == Head(spi_comms_output_queue)
    <2>1. /\ trans.dir = "tx" /\ spi_comms_output_queue' = Tail(spi_comms_output_queue)
          /\ ToSpi(Built(Packet("completed", 0))) /\ answered' = answered
          /\ delivered' = IF content[trans.buf].type = "from_gdb"
                          THEN Append(delivered, content[trans.buf].id) ELSE delivered
      BY <1>4 DEF Transmitted
    <2>2. spi_comms_output_queue # <<>> /\ trans.buf = e.buf
      BY <1>0, <2>1 DEF GInv, Announced, RingInv, SendsFirst
    <2>3. 1 \in DOMAIN spi_comms_output_queue /\ e = spi_comms_output_queue[1]
      BY <1>0, <2>2
    <2>4. PICK h \in Holdings : h[1] = "output" /\ h[3] = e
      BY <2>3, IsHeld DEF WhereHeld
    <2>5. content[trans.buf] = e.packet /\ e.packet.type \in {"network_info", "status", "from_gdb"}
      BY <1>0, <2>2, <2>4 DEF RingInv, Kept, Routed, InPlace, Belongs
    <2>6. Built(Packet("completed", 0)) \in Entries
      BY <1>0, Builds, BuiltTyped
    <2>7. AnswerGoes'
      BY <1>0, <1>1, <2>1, <2>6, ToSpiHas DEF Goes, AnswerGoes
    <2>8. CASE IsRequest(e.packet)
      <3>1. sent = Len(delivered) + 1
        BY <1>0, <2>4, <2>8 DEF Tokens, Requests
      <3>2. Len(delivered') = Len(delivered) + 1
        BY <1>0, <2>1, <2>5, <2>8 DEF IsRequest, GInv, TypeOK
      <3> QED BY <1>1, <2>7, <3>1, <3>2 DEF Goes, RequestGoes
    <2>9. CASE ~IsRequest(e.packet)
      <3>1. delivered' = delivered
        BY <2>1, <2>5, <2>9 DEF IsRequest
      <3>2. HasRequest(spi_comms_output_queue) => HasRequest(spi_comms_output_queue')
        BY <1>0, <2>1, <2>2, <2>9, TailHas
      <3> QED BY <1>0, <1>1, <2>1, <2>6, <2>7, <3>1, <3>2, ToSpiHas DEF Goes, RequestGoes, Sending
    <2> QED BY <2>8, <2>9
  <1> QED BY <1>2, <1>3, <1>4 DEF Transfer

LEMMA OtherGoes ==
  ASSUME Session, Goes, Select \/ Accept \/ AcceptFails \/ Request \/ Leave \/ UNCHANGED vars
  PROVE  Goes'
  <1>0. GInv /\ NotStarted
    BY DEF Session, RingInv
  <1>1. UNCHANGED <<spi, spiMessage, serverMessage, server_queue, spi_comms_input_queue,
                    spi_comms_output_queue, delivered, answered, returned>>
    BY DEF Select, SelectToRead, SelectToSend, Accept, AcceptFails, Request, Leave, vars, queues,
           spiVars, serverVars, ctxVars
  <1>2. server = "send" => server' = "send"
    BY DEF Select, SelectToRead, SelectToSend, Accept, AcceptFails, Request, Leave, vars, serverVars
  <1>3. unread' \/ UNCHANGED <<unread, sent>>
    BY DEF Select, SelectToRead, SelectToSend, Accept, AcceptFails, Request, Leave, vars, peerVars
  <1>4. \A k \in Conns : client[k] \in {"package", "post"} => client'[k] = client[k]
    <2>1. CASE Accept
      BY <1>0, <2>1 DEF Accept, NotStarted, GInv, TypeOK, Conns
    <2>2. CASE Select \/ AcceptFails \/ Request \/ Leave \/ UNCHANGED vars
      BY <2>2 DEF Select, SelectToRead, SelectToSend, AcceptFails, Request, Leave, vars, clientVars
    <2> QED BY <2>1, <2>2
  <1> QED BY <1>1, <1>2, <1>3, <1>4 DEF Goes, RequestGoes, AnswerGoes, Sending

LEMMA GoesNext ==
  LongQueues /\ Session /\ Routed /\ Goes /\ [Next]_vars => Goes'
  BY ClientGoes, ServerGoes, WifiGoes, SpiGoes, TransferGoes, OtherGoes DEF Next

(* What goes its way is not lost.                                            *)
LEMMA GoesIsKept ==
  ASSUME Session, Goes
  PROVE  NothingLost
  <1>0. RingInv /\ GInv /\ Tokens /\ Counters /\ InOrder
    BY DEF Session, RingInv, Tokens
  <1>1. \A h \in Holdings : h[3].packet \in Carried
    <2>1. ASSUME NEW h \in Holdings PROVE h[3].packet \in Carried
      <3>1. h[3] \in Queued \cup Held
        BY <1>0, Unused
      <3>2. content[h[3].buf] = h[3].packet
        BY <1>0 DEF RingInv, Kept
      <3> QED BY <3>1, <3>2 DEF Carried
    <2> QED BY <2>1
  <1>2. ASSUME NEW id \in 1..sent PROVE RequestKept(id)
    <2>1. CASE id <= Len(delivered)
      BY <1>0, <2>1, CountersTyped DEF RequestKept, InOrder
    <2>2. CASE id > Len(delivered)
      <3>1. id = sent /\ sent # Len(delivered)
        BY <1>0, <2>2, CountersTyped DEF Counters
      <3>2. unread \/ \E h \in Holdings : IsRequest(h[3].packet)
        BY <1>0, <3>1, IsHeld DEF Goes, RequestGoes, HasRequest, WhereHeld, Tokens, ByPlace
      <3>3. ASSUME NEW h \in Holdings, IsRequest(h[3].packet) PROVE RequestKept(id)
        <4>1. h[3].packet.id = id
          BY <1>0, <3>1, <3>3 DEF Tokens, Requests
        <4> QED BY <1>1, <3>3, <4>1 DEF RequestKept, IsRequest
      <3> QED BY <3>1, <3>2, <3>3 DEF RequestKept
    <2> QED BY <1>0, <2>1, <2>2, CountersTyped
  <1>3. ASSUME NEW i \in 1..answered PROVE AnswerKept(delivered[i])
    <2>0. delivered[i] = i
      BY <1>0, CountersTyped DEF Counters, InOrder
    <2>1. CASE i <= Len(returned)
      BY <1>0, <2>0, <2>1, CountersTyped DEF AnswerKept, InOrder
    <2>2. CASE i > Len(returned)
      <3>1. answered # Len(returned)
        BY <1>0, <2>2, CountersTyped
      <3>2. spi = "forward" => spiMessage # NONE
        BY <1>0 DEF GInv, Pointers
      <3>3. server = "send" => serverMessage # NONE
        BY <1>0 DEF GInv, Pointers
      <3>4. PICK h \in Holdings : IsReply(h[3].packet)
        BY <3>1, <3>2, <3>3, IsHeld DEF Goes, AnswerGoes, HasReply, WhereHeld
      <3>5. h[3].packet.id = answered /\ answered = Len(returned) + 1
        BY <1>0, <3>4 DEF Tokens, Replies
      <3>6. i = answered
        BY <1>0, <2>2, <3>5, CountersTyped
      <3> QED BY <1>1, <2>0, <3>4, <3>5, <3>6 DEF AnswerKept, IsReply
    <2> QED BY <1>0, <2>1, <2>2, CountersTyped
  <1> QED BY <1>2, <1>3 DEF NothingLost

(* In such a session no request and no answer is lost: the queues drop       *)
(* nothing and the ring overwrites nothing, wherever the packet has got to   *)
(* (task_client.cpp:87, ctxlink.cpp:71, ctxlink.cpp:116).  The code's        *)
(* queues of 10 and 4 for 8 buffers are long enough.  That the packet moves  *)
(* on is not said, and is not always so.                                     *)
THEOREM SessionLosesNothing == ASSUME OneSession, LongQueues PROVE Spec => []NothingLost
  <1>1. Init => Session /\ Routed /\ Goes
    <2>1. Init => Session
      BY SessionInit
    <2>2. Init => Goes
      <3>1. Init => Len(delivered) = 0 /\ Len(returned) = 0
        BY DEF Init
      <3> QED BY <3>1 DEF Init, Goes, RequestGoes, AnswerGoes
    <2>3. Init => Routed
      BY RoutedInit
    <2> QED BY <2>1, <2>2, <2>3
  <1>2. Session /\ Routed /\ Goes /\ [Next]_vars => (Session /\ Routed /\ Goes)'
    <2>1. Session /\ [Next]_vars => Session' /\ [FreeTaken]_vars
      BY SessionNext, SessionFree
    <2>2. Session /\ Routed /\ [Next]_vars => Routed'
      BY <2>1, RoutedNext DEF Session
    <2> QED BY <2>1, <2>2, GoesNext
  <1>3. Session /\ Routed /\ Goes => NothingLost
    BY GoesIsKept
  <1> QED BY <1>1, <1>2, <1>3, PTL DEF Spec
=============================================================================
