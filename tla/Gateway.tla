------------------------------ MODULE Gateway ------------------------------
(***************************************************************************)
(* The parts of the adapter put together around the ring of buffers through  *)
(* which all packets pass (task_spi_comms.cpp): client task, server task,    *)
(* Wi-Fi task, SPI task and interrupt handlers take buffers from the ring,   *)
(* fill them, and pass pointers to them through the queues.  Nothing gives a *)
(* buffer back: the ring simply hands it out again.  Outside src/: one       *)
(* network client at a time, and ctxLink.                                    *)
(*                                                                           *)
(* Each step is as coarse as BufferPool (taking a buffer) and SpiLink        *)
(* (saving a packet, a transaction) allow.  An entry of a queue carries the  *)
(* packet that was put into its buffer, for comparison with what the buffer  *)
(* holds when it is used.                                                    *)
(***************************************************************************)
EXTENDS Naturals, Sequences

CONSTANTS
  N,            \* SPI_BUFFER_COUNT (8)
  InLen, OutLen, SrvLen, \* lengths of the queues (10, 4, 32)
  MaxConn,      \* bound: connections
  MaxReq,       \* bound: requests of each client
  Window,       \* requests a client may have unanswered
  Unsolicited,  \* bound: packets ctxLink sends before it answers a request
  EarlyClients, \* may a client connect before the network report is queued?
  Polite,       \* does a client leave only when it has all its answers?
  Failures,     \* may accept, and the creation of a client's task, fail?
  NONE          \* no entry

ASSUME GatewayAssumption ==
  /\ N \in Nat \ {0}
  /\ InLen \in Nat \ {0} /\ OutLen \in Nat \ {0} /\ SrvLen \in Nat \ {0}
  /\ MaxConn \in Nat /\ MaxReq \in Nat
  /\ Window \in Nat \ {0} /\ Unsolicited \in Nat
  /\ {EarlyClients, Polite, Failures} \subseteq BOOLEAN

Buffers == 0..N - 1
Conns == 1..MaxConn
Types == {"raw", "from_gdb", "to_gdb", "to_client", "command", "status",
          "network_info", "completed"}
Ids == 0..MaxConn * MaxReq + 1

(* to_gdb and to_client: the request answered, or 0; status: 0 or 1.         *)
Packet(type, id) == [type |-> type, id |-> id]
Packets == [type : Types, id : Ids]
Entries == [buf : Buffers, packet : Packets]

ASSUME NoneAssumption == NONE \notin Entries

VARIABLES
  next,         \* buffer_index
  content,      \* what each buffer holds
  spi_comms_input_queue, spi_comms_output_queue, server_queue,
  attn, tx_saved_transaction,
  trans,        \* the armed transaction: direction and buffer
  spi, spiMessage,       \* control of the SPI task, and the entry it holds
  server, serverMessage, \* the same of the server task
  client, clientEntry,   \* the same of the client task of each connection
  wifi, wifiEntry,       \* the same of the Wi-Fi task
  peer, conns,  \* external: the network client
  sent,         \* external: number of requests made
  unread,       \* external: is a request waiting in the socket?
  delivered,    \* external: requests ctxLink has received
  answered, extra, \* external: packets ctxLink has sent: answers; others
  returned      \* external: the requests whose answers network clients have received

queues == <<spi_comms_input_queue, spi_comms_output_queue, server_queue>>
ring   == <<next, content>>
line   == <<attn, tx_saved_transaction, trans>>
spiVars    == <<spi, spiMessage>>
serverVars == <<server, serverMessage>>
clientVars == <<client, clientEntry>>
wifiVars   == <<wifi, wifiEntry>>
peerVars   == <<peer, conns, sent, unread>>
ctxVars    == <<delivered, answered, extra>>
vars == <<ring, queues, line, spiVars, serverVars, clientVars, wifiVars,
          peerVars, ctxVars, returned>>

Idle == [dir |-> "no", buf |-> 0]

Init ==
  /\ next = 0 /\ content = [b \in Buffers |-> Packet("completed", 0)]
  /\ spi_comms_input_queue = <<>> /\ spi_comms_output_queue = <<>>
  /\ server_queue = <<>>
  /\ attn = FALSE /\ tx_saved_transaction = 0 /\ trans = Idle
  /\ spi = "receive" /\ spiMessage = NONE
  /\ server = "none" /\ serverMessage = NONE
  /\ client = [k \in Conns |-> "none"] /\ clientEntry = [k \in Conns |-> NONE]
  /\ wifi = "poll" /\ wifiEntry = NONE
  /\ peer = "none" /\ conns = 0 /\ sent = 0 /\ unread = FALSE
  /\ delivered = <<>> /\ answered = 0 /\ extra = 0 /\ returned = <<>>
-----------------------------------------------------------------------------
(* Mutants of Take: the index is not advanced; it does not wrap.             *)
TakeForgets == next' = next
TakeUnwrapped == next' = next + 1

(* get_next_spi_buffer.                                                      *)
Take == next' = (next + 1) % N

(* A buffer is taken and a packet built in it.                               *)
Build(p) == Take /\ content' = [content EXCEPT ![next] = p]
Built(p) == [buf |-> next, packet |-> p]

(* xQueueSend with a timeout of 0, and from a handler.                       *)
Enqueue(q, e, length) == IF Len(q) < length THEN Append(q, e) ELSE q
ToSpi(e) ==
  spi_comms_input_queue' = Enqueue(spi_comms_input_queue, e, InLen)
-----------------------------------------------------------------------------
ClientAt(k, from, to) == client[k] = from /\ client' = [client EXCEPT ![k] = to]

(* task_client: the report of a connection, ...                              *)
SendConnected(k) ==
  /\ ClientAt(k, "hello", "take")
  /\ Build(Packet("status", 1))
  /\ ToSpi(Built(Packet("status", 1)))
  /\ UNCHANGED <<spi_comms_output_queue, server_queue, line, spiVars, serverVars,
                 clientEntry, wifiVars, peerVars, ctxVars, returned>>

(* ... a buffer for what the client will send, ...                           *)
ClientTakes(k) ==
  /\ ClientAt(k, "take", "read")
  /\ Take
  /\ clientEntry' = [clientEntry EXCEPT ![k] = Built(content[next])]
  /\ UNCHANGED <<content, queues, line, spiVars, serverVars, wifiVars, peerVars,
                 ctxVars, returned>>

(* ... read(), which fills it when there is something, ...                   *)
ClientReads(k) ==
  /\ ClientAt(k, "read", "package")
  /\ unread /\ unread' = FALSE
  /\ content' = [content EXCEPT ![clientEntry[k].buf] = Packet("raw", sent)]
  /\ clientEntry' = [clientEntry EXCEPT ![k].packet = Packet("raw", sent)]
  /\ UNCHANGED <<next, queues, line, spiVars, serverVars, wifiVars, peer, conns,
                 sent, ctxVars, returned>>

(* ... package_data, which frames whatever the buffer holds, ...             *)
ClientPackages(k) ==
  /\ ClientAt(k, "package", "post")
  /\ content' = [content EXCEPT ![clientEntry[k].buf].type = "from_gdb"]
  /\ clientEntry' = [clientEntry EXCEPT ![k].packet.type = "from_gdb"]
  /\ UNCHANGED <<next, queues, line, spiVars, serverVars, wifiVars, peerVars,
                 ctxVars, returned>>

(* ... and the queue of the SPI task.                                        *)
ClientPosts(k) ==
  /\ ClientAt(k, "post", "take")
  /\ ToSpi(clientEntry[k])
  /\ clientEntry' = [clientEntry EXCEPT ![k] = NONE]
  /\ UNCHANGED <<ring, spi_comms_output_queue, server_queue, line, spiVars,
                 serverVars, wifiVars, peerVars, ctxVars, returned>>

(* read() finds that the client has left: the server is told, then ctxLink.  *)
ClientEnds(k) ==
  /\ ClientAt(k, "read", "bye")
  /\ ~unread /\ peer = "left"
  /\ clientEntry' = [clientEntry EXCEPT ![k] = NONE]
  /\ UNCHANGED <<ring, queues, line, spiVars, serverVars, wifiVars, peerVars,
                 ctxVars, returned>>

SendClosed(k) ==
  /\ ClientAt(k, "bye", "report")
  /\ Build(Packet("command", 0))
  /\ server_queue' = Enqueue(server_queue, Built(Packet("command", 0)), SrvLen)
  /\ UNCHANGED <<spi_comms_input_queue, spi_comms_output_queue, line, spiVars,
                 serverVars, clientEntry, wifiVars, peerVars, ctxVars, returned>>

SendDisconnected(k) ==
  /\ ClientAt(k, "report", "deleted")
  /\ Build(Packet("status", 0))
  /\ ToSpi(Built(Packet("status", 0)))
  /\ UNCHANGED <<spi_comms_output_queue, server_queue, line, spiVars, serverVars,
                 clientEntry, wifiVars, peerVars, ctxVars, returned>>

Client(k) == SendConnected(k) \/ ClientTakes(k) \/ ClientReads(k)
             \/ ClientPackages(k) \/ ClientPosts(k) \/ ClientEnds(k)
             \/ SendClosed(k) \/ SendDisconnected(k)
-----------------------------------------------------------------------------
(* task_wifi_server: CUSTOM_ASSERT looks for the frame, then the type        *)
(* decides.                                                                  *)
ServerReceives ==
  /\ server = "receive" /\ server_queue # <<>>
  /\ LET e == Head(server_queue)
         type == content[e.buf].type
     IN /\ server' = CASE type = "raw"       -> "asserted"
                       [] type = "to_client" -> "send"
                       [] type = "command"   -> "accept"
                       [] OTHER              -> "receive"
        /\ serverMessage' = IF type = "to_client" THEN e ELSE NONE
  /\ server_queue' = Tail(server_queue)
  /\ UNCHANGED <<ring, spi_comms_input_queue, spi_comms_output_queue, line,
                 spiVars, clientVars, wifiVars, peerVars, ctxVars, returned>>

(* The network client counts the answers among what it receives.             *)
Returns(p) ==
  returned' = IF p.id # 0 THEN Append(returned, p.id) ELSE returned

(* Mutant of ServerSends: the server goes back to accept.                    *)
ServerSendsOnce ==
  /\ server = "send" /\ peer = "connected"
  /\ Returns(content[serverMessage.buf])
  /\ server' = "accept" /\ serverMessage' = NONE
  /\ UNCHANGED <<ring, queues, line, spiVars, clientVars, wifiVars, peerVars,
                 ctxVars>>

(* A send that fails is tried again without end, for its result is compared  *)
(* with 0 as an unsigned number: nothing changes once the client has left.   *)
ServerSends ==
  /\ server = "send" /\ peer = "connected"
  /\ Returns(content[serverMessage.buf])
  /\ server' = "receive" /\ serverMessage' = NONE
  /\ UNCHANGED <<ring, queues, line, spiVars, clientVars, wifiVars, peerVars,
                 ctxVars>>

Server == ServerReceives \/ ServerSends
-----------------------------------------------------------------------------
(* task_wifi: the network report is built, a server is created, and a second *)
(* later the report is queued.                                               *)
WifiConnected ==
  /\ wifi = "poll"
  /\ Build(Packet("network_info", 0))
  /\ wifiEntry' = Built(Packet("network_info", 0))
  /\ server' = "accept"
  /\ wifi' = "delay"
  /\ UNCHANGED <<queues, line, spiVars, serverMessage, clientVars, peerVars,
                 ctxVars, returned>>

WifiReports ==
  /\ wifi = "delay"
  /\ ToSpi(wifiEntry)
  /\ wifiEntry' = NONE
  /\ wifi' = "reported"
  /\ UNCHANGED <<ring, spi_comms_output_queue, server_queue, line, spiVars,
                 serverVars, clientVars, peerVars, ctxVars, returned>>

Wifi == WifiConnected \/ WifiReports
-----------------------------------------------------------------------------
(* Mutant of Announce: the last packet is announced, however many there are. *)
AnnounceLast(q) ==
  IF q # <<>>
  THEN attn' = TRUE /\ tx_saved_transaction' = q[Len(q)].buf
  ELSE UNCHANGED <<attn, tx_saved_transaction>>

(* task_spi_comms: what it does depends on the type in the buffer.  A packet *)
(* for ctxLink is queued and the first of the queue announced, if it is the  *)
(* only one; so it is after a completion.  Other types are ignored.          *)
Announce(q) ==
  IF Len(q) = 1
  THEN attn' = TRUE /\ tx_saved_transaction' = q[1].buf
  ELSE UNCHANGED <<attn, tx_saved_transaction>>

Dispatch(types) ==
  /\ spi = "receive" /\ spi_comms_input_queue # <<>>
  /\ content[Head(spi_comms_input_queue).buf].type \in types
  /\ spi_comms_input_queue' = Tail(spi_comms_input_queue)

SpiConsumes ==
  /\ Dispatch(Types \ {"to_gdb"})
  /\ LET e == Head(spi_comms_input_queue)
         type == content[e.buf].type
         q == IF type \in {"network_info", "from_gdb", "status"}
              THEN Enqueue(spi_comms_output_queue, e, OutLen)
              ELSE spi_comms_output_queue
     IN /\ spi_comms_output_queue' = q
        /\ IF type \in {"raw", "to_client", "command"}
           THEN UNCHANGED <<attn, tx_saved_transaction>>
           ELSE Announce(q)
  /\ UNCHANGED <<ring, server_queue, trans, spiVars, serverVars, clientVars,
                 wifiVars, peerVars, ctxVars, returned>>

(* The type is changed in the buffer; then the task waits for room.          *)
SpiToServer ==
  /\ Dispatch({"to_gdb"})
  /\ LET e == Head(spi_comms_input_queue)
     IN /\ content' = [content EXCEPT ![e.buf].type = "to_client"]
        /\ spiMessage' = [e EXCEPT !.packet.type = "to_client"]
  /\ spi' = "forward"
  /\ UNCHANGED <<next, spi_comms_output_queue, server_queue, line, serverVars,
                 clientVars, wifiVars, peerVars, ctxVars, returned>>

(* Mutant of SpiForwards: it does not wait, a full queue drops the packet.    *)
SpiForwardsAtOnce ==
  /\ spi = "forward"
  /\ server_queue' = Enqueue(server_queue, spiMessage, SrvLen)
  /\ spi' = "receive" /\ spiMessage' = NONE
  /\ UNCHANGED <<ring, spi_comms_input_queue, spi_comms_output_queue, line,
                 serverVars, clientVars, wifiVars, peerVars, ctxVars, returned>>

SpiForwards ==
  /\ spi = "forward"
  /\ Len(server_queue) < SrvLen
  /\ server_queue' = Append(server_queue, spiMessage)
  /\ spi' = "receive" /\ spiMessage' = NONE
  /\ UNCHANGED <<ring, spi_comms_input_queue, spi_comms_output_queue, line,
                 serverVars, clientVars, wifiVars, peerVars, ctxVars, returned>>

Spi == SpiConsumes \/ SpiToServer \/ SpiForwards
-----------------------------------------------------------------------------
(* ctxLink answers each request, and may send more before it does, as a      *)
(* debugged program's output while the program runs.                         *)
CanAnswer == answered < Len(delivered)
CanSendMore == CanAnswer /\ extra < Unsolicited

(* The CS handler: a transmission if ATTN is LOW, else a reception into a    *)
(* buffer of the ring.                                                       *)
SelectToRead ==
  /\ trans = Idle /\ attn
  /\ trans' = [dir |-> "tx", buf |-> tx_saved_transaction]
  /\ UNCHANGED <<ring, queues, attn, tx_saved_transaction, spiVars, serverVars,
                 clientVars, wifiVars, peerVars, ctxVars, returned>>

SelectToSend ==
  /\ trans = Idle /\ ~attn
  /\ CanAnswer
  /\ Take
  /\ trans' = [dir |-> "rx", buf |-> next]
  /\ UNCHANGED <<content, queues, attn, tx_saved_transaction, spiVars, serverVars,
                 clientVars, wifiVars, peerVars, ctxVars, returned>>

(* userTransactionCallback after a reception.                                *)
Receives(p) ==
  /\ trans.dir = "rx"
  /\ content' = [content EXCEPT ![trans.buf] = p]
  /\ ToSpi([buf |-> trans.buf, packet |-> p])
  /\ trans' = Idle /\ attn' = FALSE
  /\ UNCHANGED <<next, spi_comms_output_queue, server_queue, tx_saved_transaction,
                 spiVars, serverVars, clientVars, wifiVars, peerVars, delivered, returned>>

Answer ==
  /\ CanAnswer
  /\ Receives(Packet("to_gdb", delivered[answered + 1]))
  /\ answered' = answered + 1
  /\ extra' = 0

SendMore ==
  /\ CanSendMore
  /\ Receives(Packet("to_gdb", 0))
  /\ extra' = extra + 1
  /\ UNCHANGED answered

(* userTransactionCallback after a transmission: ctxLink has what the buffer *)
(* held; the entry is removed and a completion is built in a new buffer.     *)
Transmitted ==
  /\ trans.dir = "tx"
  /\ LET p == content[trans.buf]
     IN delivered' = IF p.type = "from_gdb" THEN Append(delivered, p.id) ELSE delivered
  /\ spi_comms_output_queue' = Tail(spi_comms_output_queue)
  /\ Build(Packet("completed", 0))
  /\ ToSpi(Built(Packet("completed", 0)))
  /\ trans' = Idle /\ attn' = FALSE
  /\ UNCHANGED <<server_queue, tx_saved_transaction, spiVars, serverVars, clientVars,
                 wifiVars, peerVars, answered, extra, returned>>

Select == SelectToRead \/ SelectToSend
Transfer == Answer \/ SendMore \/ Transmitted
-----------------------------------------------------------------------------
(* A network client is accepted and given a task, if there is memory for it; *)
(* if accept fails, the server's task returns.                               *)
Accept ==
  /\ server = "accept" /\ peer # "connected" /\ conns < MaxConn
  /\ EarlyClients \/ wifi = "reported"
  /\ peer' = "connected" /\ conns' = conns + 1
  /\ server' = "receive"
  /\ \/ client' = [client EXCEPT ![conns + 1] = "hello"]
     \/ Failures /\ UNCHANGED client
  /\ UNCHANGED <<ring, queues, line, spiVars, serverMessage, clientEntry, wifiVars,
                 sent, unread, ctxVars, returned>>

AcceptFails ==
  /\ Failures
  /\ server = "accept" /\ server' = "returned"
  /\ UNCHANGED <<ring, queues, line, spiVars, serverMessage, clientVars, wifiVars,
                 peerVars, ctxVars, returned>>

Request ==
  /\ peer = "connected" /\ ~unread
  /\ sent < conns * MaxReq /\ sent < Len(returned) + Window
  /\ sent' = sent + 1 /\ unread' = TRUE
  /\ UNCHANGED <<ring, queues, line, spiVars, serverVars, clientVars, wifiVars,
                 peer, conns, ctxVars, returned>>

(* It leaves when it has all its answers, or whenever it likes.              *)
Leave ==
  /\ peer = "connected"
  /\ Polite => sent = conns * MaxReq /\ Len(returned) = sent
  /\ peer' = "left"
  /\ UNCHANGED <<ring, queues, line, spiVars, serverVars, clientVars, wifiVars,
                 conns, sent, unread, ctxVars, returned>>
-----------------------------------------------------------------------------
Next == (\E k \in Conns : Client(k)) \/ Server \/ Wifi \/ Spi \/ Select \/ Transfer
        \/ Accept \/ AcceptFails \/ Request \/ Leave

Spec == Init /\ [][Next]_vars

(* Every task is scheduled; ctxLink completes the transactions it begins.    *)
Fairness ==
  /\ \A k \in Conns : WF_vars(Client(k))
  /\ WF_vars(Server) /\ WF_vars(Wifi) /\ WF_vars(Spi)
  /\ WF_vars(Select) /\ WF_vars(Transfer)

FairSpec == Spec /\ Fairness
-----------------------------------------------------------------------------
TypeOK ==
  /\ next \in Buffers /\ content \in [Buffers -> Packets]
  /\ spi_comms_input_queue \in Seq(Entries) /\ Len(spi_comms_input_queue) <= InLen
  /\ spi_comms_output_queue \in Seq(Entries) /\ Len(spi_comms_output_queue) <= OutLen
  /\ server_queue \in Seq(Entries) /\ Len(server_queue) <= SrvLen
  /\ attn \in BOOLEAN /\ tx_saved_transaction \in Buffers
  /\ trans \in [dir : {"no", "rx", "tx"}, buf : Buffers]
  /\ spi \in {"receive", "forward"}
  /\ server \in {"none", "accept", "receive", "send", "asserted", "returned"}
  /\ client \in [Conns -> {"none", "hello", "take", "read", "package", "post",
                           "bye", "report", "deleted"}]
  /\ clientEntry \in [Conns -> Entries \cup {NONE}]
  /\ wifi \in {"poll", "delay", "reported"}
  /\ {spiMessage, serverMessage, wifiEntry} \subseteq Entries \cup {NONE}
  /\ peer \in {"none", "connected", "left"} /\ conns \in 0..MaxConn
  /\ sent \in 0..MaxConn * MaxReq /\ unread \in BOOLEAN
  /\ delivered \in Seq(Ids) /\ answered \in Nat /\ extra \in 0..Unsolicited
  /\ returned \in Seq(Ids)

(* The entries that are queued, or held by a task that will still look at    *)
(* the buffer.                                                               *)
Queued == {spi_comms_input_queue[i] : i \in DOMAIN spi_comms_input_queue}
          \cup {spi_comms_output_queue[i] : i \in DOMAIN spi_comms_output_queue}
          \cup {server_queue[i] : i \in DOMAIN server_queue}
Held == ({spiMessage, serverMessage, wifiEntry}
         \cup {clientEntry[k] : k \in {j \in Conns : client[j] \in {"package", "post"}}})
        \ {NONE}

(* A buffer holds what was put into it for as long as a queue or a task      *)
(* points to it, although the ring of eight is shorter than the queues and   *)
(* hands out buffers blindly (task_spi_comms.cpp:26, 74).                    *)
Intact == \A e \in Queued \cup Held : content[e.buf] = e.packet

(* The buffers in use: those of the entries, the one a client's task waits   *)
(* for read() to fill, and the one a reception is armed with.                *)
InUse == {e.buf : e \in Queued \cup Held}
         \cup {clientEntry[k].buf : k \in {j \in Conns : client[j] = "read"}}
         \cup (IF trans.dir = "rx" THEN {trans.buf} ELSE {})

(* No buffer is taken that is still in use, although nobody says when he is  *)
(* done with one (task_spi_comms.cpp:75); a completion may well be built in  *)
(* the buffer that was just sent (ctxlink.cpp:122).                          *)
FreeTaken ==
  /\ \/ \E k \in Conns : \/ SendConnected(k) \/ ClientTakes(k)
                         \/ SendClosed(k) \/ SendDisconnected(k)
     \/ WifiConnected \/ SelectToSend
     => next \notin InUse
  /\ Transmitted => next \notin InUse \ {trans.buf}
NeverTakenInUse == [][FreeTaken]_vars

(* The server's assertion that a message is framed (task_server.cpp:128).    *)
AssertHolds == server # "asserted"

(* Nothing that was asked or answered has disappeared: a request waits in    *)
(* the socket, or its packet is still what a queue or a task points to, or   *)
(* ctxLink has it; so do the answers, until the network client has them.  No *)
(* full queue has dropped it (xQueueSend with a timeout of 0,                *)
(* task_client.cpp:87, and from the handlers, ctxlink.cpp:116) and nothing   *)
(* has overwritten it.  That it moves on is not said.                        *)
Carried == {content[e.buf] : e \in Queued \cup Held}
RequestKept(id) == \/ unread /\ id = sent
                   \/ \E p \in Carried : p.type \in {"raw", "from_gdb"} /\ p.id = id
                   \/ \E i \in DOMAIN delivered : delivered[i] = id
AnswerKept(id) == \/ \E p \in Carried : p.type \in {"to_gdb", "to_client"} /\ p.id = id
                  \/ \E i \in DOMAIN returned : returned[i] = id
NothingLost == /\ \A id \in 1..sent : RequestKept(id)
               /\ \A i \in 1..answered : AnswerKept(delivered[i])

(* What ctxLink answers reaches the network client, although the SPI task    *)
(* waits for room in the server's queue (task_spi_comms.cpp:162) and the     *)
(* server for a send that works (task_server.cpp:134); so it is for clients  *)
(* that stay until they have their answers.                                  *)
AnswersReturn == Len(returned) < answered ~> Len(returned) = answered

(* With one request open at a time the adapter does nothing a request/reply  *)
(* channel would not do, although its parts share the ring and ctxLink sends *)
(* packets of its own in between: no request or answer is repeated,          *)
(* reordered, overwritten on its way or made up (task_client.cpp:72,         *)
(* task_server.cpp:135).  A packet that is dropped, or waits for ever, does  *)
(* not violate it: see NothingLost and AnswersReturn.                        *)
RR == INSTANCE RequestReply
        WITH MaxTx <- MaxConn * MaxReq
RequestReplySafety == RR!Init /\ [][RR!Next]_RR!vars
=============================================================================
