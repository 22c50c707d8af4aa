--------------------------- MODULE GatewayProofs ---------------------------
(***************************************************************************)
(* Proofs about Gateway, for every size of the ring and of the queues and    *)
(* every traffic.                                                            *)
(*                                                                           *)
(* 1. The state of the whole adapter keeps its types, wherever a task        *)
(*    follows a pointer it has one, and when ctxLink is being sent a packet  *)
(*    the output queue is not empty (GInv, TypeCorrect).                     *)
(* 2. Buffers change hands safely: as long as no buffer is taken that is in  *)
(*    use (NeverTakenInUse), each is held by one queue or task at a time and *)
(*    keeps what it was given (RingInv, KeepsIntact).                        *)
(* 3. Under the same condition, and with one request open at a time, the     *)
(*    adapter does only what a request/reply channel does (Tokens,           *)
(*    KeepsChannel).                                                         *)
(*                                                                           *)
(* GatewaySessionProofs shows when the condition holds.                      *)
(***************************************************************************)
EXTENDS Gateway, TLAPS

USE GatewayAssumption

(* What a task is about to use, it has.                                      *)
Pointers ==
  /\ \A k \in Conns : client[k] \in {"read", "package", "post"}
                        => clientEntry[k] \in Entries
  /\ wifi = "delay" => wifiEntry \in Entries
  /\ server = "send" => serverMessage \in Entries
  /\ spi = "forward" => spiMessage \in Entries

(* ATTN is LOW, or a transmission armed, only for a queued packet.           *)
Announced == attn \/ trans.dir = "tx" => spi_comms_output_queue # <<>>

GInv == TypeOK /\ Pointers /\ Announced
-----------------------------------------------------------------------------
LEMMA IdleTyped == Idle \in [dir : {"no", "rx", "tx"}, buf : Buffers] /\ Idle.dir = "no"
  BY DEF Idle, Buffers

LEMMA Product == MaxConn * MaxReq \in Nat
  OBVIOUS

LEMMA ZeroId == 0 \in Ids /\ 1 \in Ids
  BY Product DEF Ids

LEMMA PacketTyped ==
  ASSUME NEW t \in Types, NEW i \in Ids
  PROVE  Packet(t, i) \in Packets
  BY DEF Packet, Packets

(* What the tasks build without data.                                        *)
LEMMA Builds ==
  /\ Packet("completed", 0) \in Packets
  /\ Packet("network_info", 0) \in Packets
  /\ Packet("status", 0) \in Packets
  /\ Packet("status", 1) \in Packets
  /\ Packet("command", 0) \in Packets
  /\ Packet("to_gdb", 0) \in Packets
  <1>1. {"completed", "network_info", "status", "command", "to_gdb"} \subseteq Types
    BY DEF Types
  <1> QED BY <1>1, ZeroId, PacketTyped

LEMMA NextBuffer ==
  ASSUME next \in Buffers, Take
  PROVE  next' \in Buffers
  BY DEF Take, Buffers

LEMMA BuiltTyped ==
  ASSUME next \in Buffers, NEW p \in Packets
  PROVE  Built(p) \in Entries
  BY DEF Built, Entries

LEMMA BuildTyped ==
  ASSUME next \in Buffers, content \in [Buffers -> Packets],
         NEW p \in Packets, Build(p)
  PROVE  next' \in Buffers /\ content' \in [Buffers -> Packets]
  BY NextBuffer DEF Build

LEMMA EnqueueTyped ==
  ASSUME NEW q \in Seq(Entries), NEW e \in Entries, NEW n \in Nat, Len(q) <= n
  PROVE  /\ Enqueue(q, e, n) \in Seq(Entries)
         /\ Len(Enqueue(q, e, n)) <= n
         /\ q # <<>> => Enqueue(q, e, n) # <<>>
  BY DEF Enqueue

LEMMA ToSpiTyped ==
  ASSUME spi_comms_input_queue \in Seq(Entries), Len(spi_comms_input_queue) <= InLen,
         NEW e \in Entries, ToSpi(e)
  PROVE  /\ spi_comms_input_queue' \in Seq(Entries)
         /\ Len(spi_comms_input_queue') <= InLen
  BY EnqueueTyped DEF ToSpi

LEMMA HeadTail ==
  ASSUME NEW S, NEW q \in Seq(S), q # <<>>
  PROVE  /\ Head(q) \in S /\ Tail(q) \in Seq(S)
         /\ Len(Tail(q)) = Len(q) - 1 /\ Len(q) \in Nat
  OBVIOUS

LEMMA Retyped ==
  ASSUME NEW p \in Packets, NEW t \in Types
  PROVE  [p EXCEPT !.type = t] \in Packets
  BY DEF Packets

LEMMA EntryParts ==
  ASSUME NEW e \in Entries
  PROVE  e.buf \in Buffers /\ e.packet \in Packets
  BY DEF Entries

LEMMA EntryOf ==
  ASSUME NEW b \in Buffers, NEW p \in Packets
  PROVE  [buf |-> b, packet |-> p] \in Entries
  BY DEF Entries

LEMMA EntryWith ==
  ASSUME NEW e \in Entries, NEW p \in Packets
  PROVE  [e EXCEPT !.packet = p] \in Entries
  BY DEF Entries

LEMMA EntryRetyped ==
  ASSUME NEW e \in Entries, NEW t \in Types
  PROVE  [e EXCEPT !.packet.type = t] \in Entries
  BY DEF Entries, Packets
-----------------------------------------------------------------------------
LEMMA InitHolds == Init => GInv
  <1> SUFFICES ASSUME Init PROVE GInv
    OBVIOUS
  <1>1. TypeOK
    BY IdleTyped, Builds, Product DEF Init, TypeOK, Buffers
  <1>2. Pointers
    BY DEF Init, Pointers
  <1>3. Announced
    BY IdleTyped DEF Init, Announced
  <1> QED BY <1>1, <1>2, <1>3 DEF GInv

LEMMA ClientStep ==
  ASSUME GInv, NEW k \in Conns, Client(k)
  PROVE  GInv'
  <1> USE DEF GInv
  <1>1. CASE SendConnected(k)
    <2>1. Build(Packet("status", 1)) /\ ToSpi(Built(Packet("status", 1)))
      BY <1>1 DEF SendConnected
    <2>2. /\ next' \in Buffers /\ content' \in [Buffers -> Packets]
          /\ spi_comms_input_queue' \in Seq(Entries)
          /\ Len(spi_comms_input_queue') <= InLen
      BY <2>1, Builds, BuildTyped, BuiltTyped, ToSpiTyped DEF TypeOK
    <2>3. TypeOK'
      BY <1>1, <2>2 DEF SendConnected, TypeOK, ClientAt, line, spiVars, serverVars,
                        wifiVars, peerVars, ctxVars
    <2>4. Pointers' /\ Announced'
      BY <1>1 DEF SendConnected, TypeOK, Pointers, Announced, ClientAt, line, spiVars,
                  serverVars, wifiVars
    <2> QED BY <2>3, <2>4
  <1>2. CASE ClientTakes(k)
    <2>1. next' \in Buffers /\ Built(content[next]) \in Entries
      BY <1>2, NextBuffer, BuiltTyped DEF ClientTakes, TypeOK
    <2>2. TypeOK'
      BY <1>2, <2>1 DEF ClientTakes, TypeOK, ClientAt, queues, line, spiVars, serverVars,
                        wifiVars, peerVars, ctxVars
    <2>3. Pointers' /\ Announced'
      BY <1>2, <2>1 DEF ClientTakes, TypeOK, Pointers, Announced, ClientAt, queues, line,
                        spiVars, serverVars, wifiVars
    <2> QED BY <2>2, <2>3
  <1>3. CASE ClientReads(k)
    <2>1. clientEntry[k] \in Entries /\ clientEntry[k].buf \in Buffers
      BY <1>3, EntryParts DEF ClientReads, ClientAt, Pointers
    <2>2. Packet("raw", sent) \in Packets
      BY PacketTyped, Product DEF TypeOK, Ids, Types
    <2>3. [clientEntry[k] EXCEPT !.packet = Packet("raw", sent)] \in Entries
      BY <2>1, <2>2, EntryWith
    <2>4. TypeOK'
      BY <1>3, <2>1, <2>2, <2>3 DEF ClientReads, TypeOK, ClientAt, queues, line, spiVars,
                                    serverVars, wifiVars, ctxVars
    <2>5. Pointers' /\ Announced'
      BY <1>3, <2>3 DEF ClientReads, TypeOK, Pointers, Announced, ClientAt, queues, line,
                        spiVars, serverVars, wifiVars
    <2> QED BY <2>4, <2>5
  <1>4. CASE ClientPackages(k)
    <2>1. clientEntry[k] \in Entries /\ clientEntry[k].buf \in Buffers
      BY <1>4, EntryParts DEF ClientPackages, ClientAt, Pointers
    <2>2. /\ [content[clientEntry[k].buf] EXCEPT !.type = "from_gdb"] \in Packets
          /\ [clientEntry[k] EXCEPT !.packet.type = "from_gdb"] \in Entries
      BY <2>1, Retyped, EntryRetyped DEF TypeOK, Types
    <2>3. TypeOK'
      BY <1>4, <2>1, <2>2, SMTT(30) DEF ClientPackages, TypeOK, ClientAt, queues, line, spiVars,
                              serverVars, wifiVars, peerVars, ctxVars
    <2>4. Pointers' /\ Announced'
      BY <1>4, <2>2 DEF ClientPackages, TypeOK, Pointers, Announced, ClientAt, queues, line,
                        spiVars, serverVars, wifiVars
    <2> QED BY <2>3, <2>4
  <1>5. CASE ClientPosts(k)
    <2>1. clientEntry[k] \in Entries
      BY <1>5 DEF ClientPosts, ClientAt, Pointers
    <2>2. /\ spi_comms_input_queue' \in Seq(Entries)
          /\ Len(spi_comms_input_queue') <= InLen
      BY <1>5, <2>1, ToSpiTyped DEF ClientPosts, TypeOK
    <2>3. TypeOK'
      BY <1>5, <2>2 DEF ClientPosts, TypeOK, ClientAt, ring, line, spiVars, serverVars,
                        wifiVars, peerVars, ctxVars
    <2>4. Pointers' /\ Announced'
      BY <1>5 DEF ClientPosts, TypeOK, Pointers, Announced, ClientAt, line, spiVars,
                  serverVars, wifiVars
    <2> QED BY <2>3, <2>4
  <1>6. CASE ClientEnds(k)
    <2>1. TypeOK'
      BY <1>6 DEF ClientEnds, TypeOK, ClientAt, ring, queues, line, spiVars, serverVars,
                  wifiVars, peerVars, ctxVars
    <2>2. Pointers' /\ Announced'
      BY <1>6 DEF ClientEnds, TypeOK, Pointers, Announced, ClientAt, queues, line, spiVars,
                  serverVars, wifiVars
    <2> QED BY <2>1, <2>2
  <1>7. CASE SendClosed(k)
    <2>1. /\ next' \in Buffers /\ content' \in [Buffers -> Packets]
          /\ Built(Packet("command", 0)) \in Entries
      BY <1>7, Builds, BuildTyped, BuiltTyped DEF SendClosed, TypeOK
    <2>2. server_queue' \in Seq(Entries) /\ Len(server_queue') <= SrvLen
      BY <1>7, <2>1, EnqueueTyped DEF SendClosed, TypeOK
    <2>3. TypeOK'
      BY <1>7, <2>1, <2>2 DEF SendClosed, TypeOK, ClientAt, line, spiVars, serverVars,
                              wifiVars, peerVars, ctxVars
    <2>4. Pointers' /\ Announced'
      BY <1>7 DEF SendClosed, TypeOK, Pointers, Announced, ClientAt, line, spiVars,
                  serverVars, wifiVars
    <2> QED BY <2>3, <2>4
  <1>8. CASE SendDisconnected(k)
    <2>1. Build(Packet("status", 0)) /\ ToSpi(Built(Packet("status", 0)))
      BY <1>8 DEF SendDisconnected
    <2>2. /\ next' \in Buffers /\ content' \in [Buffers -> Packets]
          /\ spi_comms_input_queue' \in Seq(Entries)
          /\ Len(spi_comms_input_queue') <= InLen
      BY <2>1, Builds, BuildTyped, BuiltTyped, ToSpiTyped DEF TypeOK
    <2>3. TypeOK'
      BY <1>8, <2>2 DEF SendDisconnected, TypeOK, ClientAt, line, spiVars, serverVars,
                        wifiVars, peerVars, ctxVars
    <2>4. Pointers' /\ Announced'
      BY <1>8 DEF SendDisconnected, TypeOK, Pointers, Announced, ClientAt, line, spiVars,
                  serverVars, wifiVars
    <2> QED BY <2>3, <2>4
  <1> QED
    BY <1>1, <1>2, <1>3, <1>4, <1>5, <1>6, <1>7, <1>8 DEF Client
-----------------------------------------------------------------------------
LEMMA ServerStep ==
  ASSUME GInv, Server
  PROVE  GInv'
  <1> USE DEF GInv
  <1>1. CASE ServerReceives
    <2>1. Head(server_queue) \in Entries
      BY <1>1, HeadTail DEF ServerReceives, TypeOK
    <2>2. server_queue' \in Seq(Entries) /\ Len(server_queue') <= SrvLen
      <3>1. Tail(server_queue) \in Seq(Entries)
            /\ Len(Tail(server_queue)) = Len(server_queue) - 1
            /\ Len(server_queue) \in Nat
        BY <1>1, HeadTail DEF ServerReceives, TypeOK
      <3> QED BY <1>1, <3>1, SMTT(30) DEF ServerReceives, TypeOK
    <2>3. /\ server' \in {"asserted", "send", "accept", "receive"}
          /\ serverMessage' \in Entries \cup {NONE}
          /\ server' = "send" => serverMessage' \in Entries
      BY <1>1, <2>1 DEF ServerReceives
    <2>4. TypeOK'
      BY <1>1, <2>2, <2>3, SMTT(30) DEF ServerReceives, TypeOK, ring, line, spiVars, clientVars,
                              wifiVars, peerVars, ctxVars
    <2>5. Pointers' /\ Announced'
      BY <1>1, <2>3 DEF ServerReceives, Pointers, Announced, line, spiVars, clientVars,
                        wifiVars
    <2> QED BY <2>4, <2>5
  <1>2. CASE ServerSends
    <2>1. content[serverMessage.buf] \in Packets
      BY <1>2, EntryParts DEF ServerSends, Pointers, TypeOK
    <2>2. returned' \in Seq(Ids)
      BY <1>2, <2>1 DEF ServerSends, Returns, Packets, TypeOK
    <2>3. TypeOK'
      BY <1>2, <2>2 DEF ServerSends, TypeOK, ring, queues, line, spiVars, clientVars,
                        wifiVars, peerVars, ctxVars
    <2>4. Pointers' /\ Announced'
      BY <1>2 DEF ServerSends, Pointers, Announced, queues, line, spiVars, clientVars,
                  wifiVars
    <2> QED BY <2>3, <2>4
  <1> QED BY <1>1, <1>2 DEF Server

LEMMA WifiStep ==
  ASSUME GInv, Wifi
  PROVE  GInv'
  <1> USE DEF GInv
  <1>1. CASE WifiConnected
    <2>1. /\ next' \in Buffers /\ content' \in [Buffers -> Packets]
          /\ Built(Packet("network_info", 0)) \in Entries
      BY <1>1, Builds, BuildTyped, BuiltTyped DEF WifiConnected, TypeOK
    <2>2. TypeOK'
      BY <1>1, <2>1 DEF WifiConnected, TypeOK, queues, line, spiVars, clientVars,
                        peerVars, ctxVars
    <2>3. Pointers' /\ Announced'
      BY <1>1, <2>1 DEF WifiConnected, Pointers, Announced, queues, line, spiVars, clientVars
    <2> QED BY <2>2, <2>3
  <1>2. CASE WifiReports
    <2>1. /\ spi_comms_input_queue' \in Seq(Entries)
          /\ Len(spi_comms_input_queue') <= InLen
      BY <1>2, ToSpiTyped DEF WifiReports, Pointers, TypeOK
    <2>2. TypeOK'
      BY <1>2, <2>1 DEF WifiReports, TypeOK, ring, line, spiVars, serverVars, clientVars,
                        peerVars, ctxVars
    <2>3. Pointers' /\ Announced'
      BY <1>2 DEF WifiReports, Pointers, Announced, line, spiVars, serverVars, clientVars
    <2> QED BY <2>2, <2>3
  <1> QED BY <1>1, <1>2 DEF Wifi

(* What leaves the input queue is an entry.                                  *)
LEMMA Dispatches ==
  ASSUME TypeOK, NEW types, Dispatch(types)
  PROVE  /\ Head(spi_comms_input_queue) \in Entries
         /\ spi_comms_input_queue' \in Seq(Entries)
         /\ Len(spi_comms_input_queue') <= InLen
  <1>1. spi_comms_input_queue \in Seq(Entries) /\ spi_comms_input_queue # <<>>
        /\ Len(spi_comms_input_queue) <= InLen
        /\ spi_comms_input_queue' = Tail(spi_comms_input_queue)
    BY DEF Dispatch, TypeOK
  <1>2. /\ Head(spi_comms_input_queue) \in Entries
        /\ Tail(spi_comms_input_queue) \in Seq(Entries)
        /\ Len(Tail(spi_comms_input_queue)) = Len(spi_comms_input_queue) - 1
        /\ Len(spi_comms_input_queue) \in Nat
    BY <1>1, HeadTail
  <1> QED BY <1>1, <1>2

(* Only a packet that is queued is announced.                                *)
LEMMA AnnounceKeeps ==
  ASSUME NEW q \in Seq(Entries), Announce(q), attn \in BOOLEAN,
         tx_saved_transaction \in Buffers
  PROVE  /\ attn' \in BOOLEAN /\ tx_saved_transaction' \in Buffers
         /\ attn' => attn \/ q # <<>>
  <1>1. CASE Len(q) = 1
    <2>1. q[1] \in Entries /\ q # <<>>
      BY <1>1
    <2> QED BY <1>1, <2>1, EntryParts DEF Announce
  <1>2. CASE Len(q) # 1
    BY <1>2 DEF Announce
  <1> QED BY <1>1, <1>2

LEMMA SpiStep ==
  ASSUME GInv, Spi
  PROVE  GInv'
  <1> USE DEF GInv
  <1>1. CASE SpiConsumes
    <2>1. /\ Head(spi_comms_input_queue) \in Entries
          /\ spi_comms_input_queue' \in Seq(Entries)
          /\ Len(spi_comms_input_queue') <= InLen
      BY <1>1, Dispatches DEF SpiConsumes
    <2> DEFINE e == Head(spi_comms_input_queue)
               type == content[e.buf].type
               q == IF type \in {"network_info", "from_gdb", "status"}
                    THEN Enqueue(spi_comms_output_queue, e, OutLen)
                    ELSE spi_comms_output_queue
    <2>2. /\ spi_comms_output_queue' = q
          /\ UNCHANGED <<attn, tx_saved_transaction>> \/ Announce(q)
      BY <1>1 DEF SpiConsumes
    <2>3. /\ q \in Seq(Entries) /\ Len(q) <= OutLen
          /\ spi_comms_output_queue # <<>> => q # <<>>
      BY <2>1, EnqueueTyped DEF TypeOK
    <2> HIDE DEF q
    <2>4. /\ attn' \in BOOLEAN /\ tx_saved_transaction' \in Buffers
          /\ attn' => attn \/ q # <<>>
      BY <2>2, <2>3, AnnounceKeeps DEF TypeOK
    <2>5. TypeOK'
      BY <1>1, <2>1, <2>2, <2>3, <2>4 DEF SpiConsumes, TypeOK, ring, spiVars, serverVars,
                              clientVars, wifiVars, peerVars, ctxVars
    <2>6. Announced'
      BY <1>1, <2>2, <2>3, <2>4 DEF SpiConsumes, Announced
    <2>7. Pointers'
      BY <1>1 DEF SpiConsumes, Pointers, spiVars, serverVars, clientVars, wifiVars
    <2> QED BY <2>5, <2>6, <2>7
  <1>2. CASE SpiToServer
    <2>1. /\ Head(spi_comms_input_queue) \in Entries
          /\ spi_comms_input_queue' \in Seq(Entries)
          /\ Len(spi_comms_input_queue') <= InLen
      BY <1>2, Dispatches DEF SpiToServer
    <2> DEFINE e == Head(spi_comms_input_queue)
    <2>2. e.buf \in Buffers /\ e.packet \in Packets /\ "to_client" \in Types
      BY <2>1, EntryParts DEF Types
    <2>3. /\ [content[e.buf] EXCEPT !.type = "to_client"] \in Packets
          /\ [e EXCEPT !.packet.type = "to_client"] \in Entries
      BY <2>1, <2>2, Retyped, EntryRetyped DEF TypeOK
    <2>4. /\ content' = [content EXCEPT ![e.buf].type = "to_client"]
          /\ spiMessage' = [e EXCEPT !.packet.type = "to_client"]
      BY <1>2 DEF SpiToServer
    <2> HIDE DEF e
    <2>5. content' \in [Buffers -> Packets] /\ spiMessage' \in Entries
      BY <2>2, <2>3, <2>4 DEF TypeOK
    <2>6. TypeOK'
      BY <1>2, <2>1, <2>5, SMTT(30) DEF SpiToServer, TypeOK, line, serverVars, clientVars,
                              wifiVars,
                              peerVars, ctxVars
    <2>7. Pointers' /\ Announced'
      BY <1>2, <2>5 DEF SpiToServer, Pointers, Announced, line, serverVars, clientVars,
                        wifiVars
    <2> QED BY <2>6, <2>7
  <1>3. CASE SpiForwards
    <2>1. /\ Append(server_queue, spiMessage) \in Seq(Entries)
          /\ Len(Append(server_queue, spiMessage)) <= SrvLen
      BY <1>3 DEF SpiForwards, Pointers, TypeOK
    <2>2. TypeOK'
      BY <1>3, <2>1 DEF SpiForwards, TypeOK, ring, line, serverVars, clientVars, wifiVars,
                        peerVars, ctxVars
    <2>3. Pointers' /\ Announced'
      BY <1>3 DEF SpiForwards, Pointers, Announced, line, serverVars, clientVars, wifiVars
    <2> QED BY <2>2, <2>3
  <1> QED BY <1>1, <1>2, <1>3 DEF Spi
-----------------------------------------------------------------------------
LEMMA SelectStep ==
  ASSUME GInv, Select
  PROVE  GInv'
  <1> USE DEF GInv
  <1>1. CASE SelectToRead
    <2>1. trans' \in [dir : {"no", "rx", "tx"}, buf : Buffers] /\ attn
      BY <1>1 DEF SelectToRead, TypeOK
    <2>2. TypeOK'
      BY <1>1, <2>1 DEF SelectToRead, TypeOK, ring, queues, spiVars, serverVars, clientVars,
                        wifiVars, peerVars, ctxVars
    <2>3. Pointers' /\ Announced'
      BY <1>1 DEF SelectToRead, Pointers, Announced, queues, spiVars, serverVars,
                  clientVars, wifiVars
    <2> QED BY <2>2, <2>3
  <1>2. CASE SelectToSend
    <2>1. /\ next' \in Buffers /\ trans' \in [dir : {"no", "rx", "tx"}, buf : Buffers]
          /\ trans'.dir = "rx"
      BY <1>2, NextBuffer DEF SelectToSend, TypeOK
    <2>2. TypeOK'
      BY <1>2, <2>1 DEF SelectToSend, TypeOK, queues, spiVars, serverVars, clientVars,
                        wifiVars, peerVars, ctxVars
    <2>3. Pointers' /\ Announced'
      BY <1>2, <2>1 DEF SelectToSend, Pointers, Announced, queues, spiVars, serverVars,
                  clientVars, wifiVars
    <2> QED BY <2>2, <2>3
  <1> QED BY <1>1, <1>2 DEF Select

(* A reception of any packet keeps the types of what the handler touches.    *)
LEMMA ReceivesTyped ==
  ASSUME GInv, NEW p \in Packets, Receives(p), answered' \in Nat,
         extra' \in 0..Unsolicited
  PROVE  GInv'
  <1> USE DEF GInv
  <1>1. trans.buf \in Buffers
    BY DEF TypeOK
  <1>2. [buf |-> trans.buf, packet |-> p] \in Entries
    BY <1>1, EntryOf
  <1>3. /\ spi_comms_input_queue' \in Seq(Entries)
        /\ Len(spi_comms_input_queue') <= InLen
    BY <1>2, ToSpiTyped DEF Receives, TypeOK
  <1>4. content' \in [Buffers -> Packets]
    BY <1>1 DEF Receives, TypeOK
  <1>5. TypeOK'
    BY <1>3, <1>4, IdleTyped DEF Receives, TypeOK, spiVars, serverVars, clientVars,
                                 wifiVars, peerVars
  <1>6. Pointers' /\ Announced'
    BY IdleTyped DEF Receives, Pointers, Announced, spiVars, serverVars, clientVars, wifiVars
  <1> QED BY <1>5, <1>6

LEMMA TransferStep ==
  ASSUME GInv, Transfer
  PROVE  GInv'
  <1>1. CASE Answer
    <2>1. delivered \in Seq(Ids) /\ answered \in Nat /\ answered < Len(delivered)
      BY <1>1 DEF Answer, CanAnswer, GInv, TypeOK
    <2>2. delivered[answered + 1] \in Ids
      BY <2>1
    <2>3. Packet("to_gdb", delivered[answered + 1]) \in Packets
      BY <2>2, PacketTyped DEF Types
    <2>4. answered' \in Nat /\ extra' \in 0..Unsolicited
      BY <1>1, <2>1 DEF Answer
    <2> QED BY <1>1, <2>3, <2>4, ReceivesTyped DEF Answer
  <1>2. CASE SendMore
    <2>1. answered' \in Nat /\ extra' \in 0..Unsolicited
      BY <1>2 DEF SendMore, CanSendMore, GInv, TypeOK
    <2> QED BY <1>2, <2>1, Builds, ReceivesTyped DEF SendMore
  <1>3. CASE Transmitted
    <2> USE DEF GInv
    <2>1. content[trans.buf] \in Packets
      BY DEF TypeOK
    <2>2. delivered' \in Seq(Ids)
      BY <1>3, <2>1 DEF Transmitted, TypeOK, Packets
    <2>3. /\ spi_comms_output_queue' \in Seq(Entries)
          /\ Len(spi_comms_output_queue') <= OutLen
      <3>1. spi_comms_output_queue \in Seq(Entries) /\ spi_comms_output_queue # <<>>
            /\ Len(spi_comms_output_queue) <= OutLen
        BY <1>3 DEF Transmitted, Announced, TypeOK
      <3>2. /\ Tail(spi_comms_output_queue) \in Seq(Entries)
            /\ Len(Tail(spi_comms_output_queue)) = Len(spi_comms_output_queue) - 1
            /\ Len(spi_comms_output_queue) \in Nat
        BY <3>1, HeadTail
      <3> QED BY <1>3, <3>1, <3>2 DEF Transmitted
    <2>4. Build(Packet("completed", 0)) /\ ToSpi(Built(Packet("completed", 0)))
      BY <1>3 DEF Transmitted
    <2>5. /\ next' \in Buffers /\ content' \in [Buffers -> Packets]
          /\ spi_comms_input_queue' \in Seq(Entries)
          /\ Len(spi_comms_input_queue') <= InLen
      BY <2>4, Builds, BuildTyped, BuiltTyped, ToSpiTyped DEF TypeOK
    <2>6. TypeOK'
      BY <1>3, <2>2, <2>3, <2>5, IdleTyped DEF Transmitted, TypeOK, spiVars, serverVars,
                                   clientVars, wifiVars, peerVars
    <2>7. Pointers' /\ Announced'
      BY <1>3, IdleTyped DEF Transmitted, Pointers, Announced, spiVars, serverVars,
                             clientVars, wifiVars
    <2> QED BY <2>6, <2>7
  <1> QED BY <1>1, <1>2, <1>3 DEF Transfer
-----------------------------------------------------------------------------
(* No client makes requests for the ones that are still to come.             *)
LEMMA Monotonic ==
  ASSUME NEW m \in Nat, NEW n \in Nat, NEW r \in Nat, m <= n
  PROVE  m * r <= n * r
  OBVIOUS

LEMMA NetworkStep ==
  ASSUME GInv, Accept \/ AcceptFails \/ Request \/ Leave
  PROVE  GInv'
  <1> USE DEF GInv
  <1>1. CASE Accept
    <2>1. TypeOK'
      BY <1>1 DEF Accept, TypeOK, Conns, ring, queues, line, spiVars, wifiVars, ctxVars
    <2>2. Pointers' /\ Announced'
      BY <1>1 DEF Accept, Pointers, Announced, TypeOK, queues, line, spiVars, wifiVars
    <2> QED BY <2>1, <2>2
  <1>2. CASE Request
    <2>1. sent' \in 0..MaxConn * MaxReq
      <3>1. conns \in Nat /\ conns <= MaxConn /\ sent \in Nat
            /\ sent < conns * MaxReq /\ sent' = sent + 1
        BY <1>2, Product DEF Request, TypeOK
      <3>2. conns * MaxReq <= MaxConn * MaxReq /\ conns * MaxReq \in Nat
        BY <3>1, Monotonic
      <3> QED BY <3>1, <3>2, Product
    <2>2. TypeOK'
      BY <1>2, <2>1 DEF Request, TypeOK, ring, queues, line, spiVars, serverVars, clientVars,
                        wifiVars, ctxVars
    <2>3. Pointers' /\ Announced'
      BY <1>2 DEF Request, Pointers, Announced, queues, line, spiVars, serverVars,
                  clientVars, wifiVars
    <2> QED BY <2>2, <2>3
  <1>3. CASE Leave
    <2>1. TypeOK'
      BY <1>3 DEF Leave, TypeOK, ring, queues, line, spiVars, serverVars, clientVars,
                  wifiVars, ctxVars
    <2>2. Pointers' /\ Announced'
      BY <1>3 DEF Leave, Pointers, Announced, queues, line, spiVars, serverVars, clientVars,
                  wifiVars
    <2> QED BY <2>1, <2>2
  <1>4. CASE AcceptFails
    <2>1. TypeOK'
      BY <1>4 DEF AcceptFails, TypeOK, ring, queues, line, spiVars, clientVars, wifiVars,
                  peerVars, ctxVars
    <2>2. Pointers' /\ Announced'
      BY <1>4 DEF AcceptFails, Pointers, Announced, queues, line, spiVars, clientVars, wifiVars
    <2> QED BY <2>1, <2>2
  <1> QED BY <1>1, <1>2, <1>3, <1>4

LEMMA Inductive == GInv /\ [Next]_vars => GInv'
  <1> SUFFICES ASSUME GInv, [Next]_vars PROVE GInv'
    OBVIOUS
  <1>1. CASE UNCHANGED vars
    BY <1>1 DEF GInv, TypeOK, Pointers, Announced, vars, ring, queues, line, spiVars,
                serverVars, clientVars, wifiVars, peerVars, ctxVars
  <1> QED
    BY <1>1, ClientStep, ServerStep, WifiStep, SpiStep, SelectStep, TransferStep,
       NetworkStep DEF Next

(* Every variable of the adapter keeps its type and every queue its length,  *)
(* for every ring, all lengths of the queues and all traffic.                *)
THEOREM TypeCorrect == Spec => []TypeOK
  <1>1. Spec => []GInv
    BY InitHolds, Inductive, PTL DEF Spec
  <1>2. GInv => TypeOK
    BY DEF GInv
  <1> QED BY <1>1, <1>2, PTL
-----------------------------------------------------------------------------
USE NoneAssumption

(* Queues as sets of entries.                                                *)
Members(q) == {q[i] : i \in DOMAIN q}

(* No buffer is twice in a queue.                                            *)
Injective(q) == \A i, j \in DOMAIN q : q[i].buf = q[j].buf => i = j

LEMMA MembersTyped ==
  ASSUME NEW S, NEW q \in Seq(S)
  PROVE  Members(q) \subseteq S
  BY DEF Members

LEMMA TailMembers ==
  ASSUME NEW S, NEW q \in Seq(S), q # <<>>, Injective(q)
  PROVE  /\ Injective(Tail(q)) /\ Head(q) \in Members(q)
         /\ Members(Tail(q)) \subseteq Members(q) \ {Head(q)}
         /\ \A e \in Members(Tail(q)) : e.buf # Head(q).buf
  <1>1. /\ Len(q) \in Nat /\ Len(q) >= 1 /\ DOMAIN q = 1..Len(q)
        /\ DOMAIN Tail(q) = 1..Len(q) - 1
        /\ \A i \in 1..Len(q) - 1 : Tail(q)[i] = q[i + 1]
        /\ Head(q) = q[1]
    OBVIOUS
  <1>2. ASSUME NEW i \in 1..Len(q) - 1
        PROVE  i + 1 \in DOMAIN q /\ 1 \in DOMAIN q /\ i + 1 # 1
    BY <1>1
  <1>3. ASSUME NEW i \in DOMAIN Tail(q), NEW j \in DOMAIN Tail(q),
               Tail(q)[i].buf = Tail(q)[j].buf
        PROVE  i = j
    <2>1. i + 1 = j + 1
      BY <1>1, <1>2, <1>3 DEF Injective
    <2> QED BY <1>1, <2>1
  <1>4. ASSUME NEW i \in DOMAIN Tail(q)
        PROVE  Tail(q)[i] \in Members(q) /\ Tail(q)[i].buf # Head(q).buf
    BY <1>1, <1>2 DEF Injective, Members
  <1>5. Head(q) \in Members(q)
    BY <1>1 DEF Members
  <1> QED BY <1>3, <1>4, <1>5 DEF Injective, Members

LEMMA AppendMembers ==
  ASSUME NEW S, NEW q \in Seq(S), NEW e \in S, Injective(q),
         \A m \in Members(q) : m.buf # e.buf
  PROVE  Injective(Append(q, e)) /\ Members(Append(q, e)) = Members(q) \cup {e}
  <1>1. /\ Len(q) \in Nat /\ DOMAIN q = 1..Len(q)
        /\ DOMAIN Append(q, e) = 1..Len(q) + 1
        /\ \A i \in 1..Len(q) : Append(q, e)[i] = q[i]
        /\ Append(q, e)[Len(q) + 1] = e
    OBVIOUS
  <1>2. \A i \in 1..Len(q) + 1 : i \in 1..Len(q) \/ i = Len(q) + 1
    BY <1>1
  <1>3. \A i \in DOMAIN q : q[i].buf # e.buf
    BY DEF Members
  <1>4. Injective(Append(q, e))
    BY <1>1, <1>2, <1>3 DEF Injective
  <1>5. Members(Append(q, e)) = Members(q) \cup {e}
    <2>1. \A x \in Members(Append(q, e)) : x \in Members(q) \cup {e}
      BY <1>1, <1>2 DEF Members
    <2>2. \A x \in Members(q) \cup {e} : x \in Members(Append(q, e))
      BY <1>1 DEF Members
    <2> QED BY <2>1, <2>2
  <1> QED BY <1>4, <1>5

LEMMA EnqueueMembers ==
  ASSUME NEW S, NEW q \in Seq(S), NEW e \in S, NEW n, Injective(q),
         \A m \in Members(q) : m.buf # e.buf
  PROVE  /\ Injective(Enqueue(q, e, n))
         /\ Members(q) \subseteq Members(Enqueue(q, e, n))
         /\ Members(Enqueue(q, e, n)) \subseteq Members(q) \cup {e}
  BY AppendMembers DEF Enqueue
-----------------------------------------------------------------------------
(* Who holds which entry, as <<place, client, entry>>: ...                   *)
InQueue(place, q) == {<<place, 0, e>> : e \in Members(q)}
InHand(place, e)  == {<<place, 0, x>> : x \in {e} \ {NONE}}
InputHolds  == InQueue("input", spi_comms_input_queue)
OutputHolds == InQueue("output", spi_comms_output_queue)
ServerQueueHolds == InQueue("server_queue", server_queue)
SpiHolds    == InHand("spi", spiMessage)
ServerHolds == InHand("server", serverMessage)
WifiHolds   == InHand("wifi", wifiEntry)
Reading     == {k \in Conns : client[k] = "read"}
Sending     == {k \in Conns : client[k] \in {"package", "post"}}
ClientHolds == {<<"client", k, clientEntry[k]>> : k \in Sending}
Holdings == InputHolds \cup OutputHolds \cup ServerQueueHolds \cup SpiHolds
            \cup ServerHolds \cup WifiHolds \cup ClientHolds

(* ... and the buffers that are waiting to be filled, as <<client, buffer>>. *)
ToRead    == {<<k, clientEntry[k].buf>> : k \in Reading}
ToReceive == IF trans.dir = "rx" THEN {<<0, trans.buf>>} ELSE {}
Reserved  == ToRead \cup ToReceive

(* A buffer has one holder, and holds what it was given.                     *)
OneHolder(H) == \A g, h \in H : g[3].buf = h[3].buf => g = h
OneWaiter(R) == \A r, s \in R : r[2] = s[2] => r = s
Apart(H, R)  == \A h \in H, r \in R : h[3].buf # r[2]
Kept(H, c)   == \A h \in H : c[h[3].buf] = h[3].packet

OnceInQueues == /\ Injective(spi_comms_input_queue)
                /\ Injective(spi_comms_output_queue)
                /\ Injective(server_queue)

(* What is announced, or being sent, is the first in the output queue.       *)
SendsFirst ==
  /\ attn => tx_saved_transaction = Head(spi_comms_output_queue).buf
  /\ trans.dir = "tx" => trans.buf = Head(spi_comms_output_queue).buf

(* What a step does to the holdings: some end, one begins, one changes its   *)
(* place and, perhaps, its packet.                                           *)
Frees == Holdings' \subseteq Holdings
Gains(to, f) == \E h : /\ h[1] = to /\ h[3] = f
                       /\ Holdings' \subseteq Holdings \cup {h}
Moves(from, e, to, f) ==
  \E g \in Holdings : \E h :
    /\ g[1] = from /\ g[3] = e /\ h[1] = to /\ h[3] = f
    /\ Holdings' \subseteq (Holdings \ {g}) \cup {h}
Loses(from, e) == \E g \in Holdings : /\ g[1] = from /\ g[3] = e
                                      /\ Holdings' \subseteq Holdings \ {g}

Entry(b, p) == [buf |-> b, packet |-> p]
ClientPasses(k) ==
  LET e == clientEntry[k]
  IN \/ /\ SendConnected(k) \/ SendDisconnected(k)
        /\ \E i \in Ids : Gains("input", Built(Packet("status", i)))
     \/ (ClientTakes(k) \/ ClientEnds(k)) /\ Frees
     \/ ClientReads(k) /\ Gains("client", Entry(e.buf, Packet("raw", sent)))
     \/ ClientPackages(k) /\ Moves("client", e, "client", [e EXCEPT !.packet.type = "from_gdb"])
     \/ ClientPosts(k) /\ Moves("client", e, "input", e)
     \/ SendClosed(k) /\ Gains("server_queue", Built(Packet("command", 0)))
ServerPasses ==
  \/ /\ ServerReceives
     /\ LET e == Head(server_queue)
        IN IF e.packet.type = "to_client" THEN Moves("server_queue", e, "server", e)
                                          ELSE Loses("server_queue", e)
  \/ ServerSends /\ serverMessage \in Entries /\ Loses("server", serverMessage)
WifiPasses == \/ WifiConnected /\ Gains("wifi", Built(Packet("network_info", 0)))
              \/ WifiReports /\ Moves("wifi", wifiEntry, "input", wifiEntry)
SpiPasses ==
  LET e == Head(spi_comms_input_queue)
  IN \/ /\ SpiConsumes
        /\ IF e.packet.type \in {"network_info", "from_gdb", "status"}
           THEN Moves("input", e, "output", e) ELSE Loses("input", e)
     \/ /\ SpiToServer /\ e \in Entries /\ e.packet.type = "to_gdb"
        /\ Moves("input", e, "spi", [e EXCEPT !.packet.type = "to_client"])
     \/ SpiForwards /\ Moves("spi", spiMessage, "server_queue", spiMessage)
TransferPasses ==
  \/ Answer /\ Gains("input", Entry(trans.buf, Packet("to_gdb", delivered[answered + 1])))
  \/ SendMore /\ Gains("input", Entry(trans.buf, Packet("to_gdb", 0)))
  \/ /\ Transmitted
     /\ LET e == Head(spi_comms_output_queue)
        IN /\ trans.buf = e.buf /\ content[trans.buf] = e.packet
           /\ Moves("output", e, "input", Built(Packet("completed", 0)))

RingInv == /\ GInv /\ OnceInQueues /\ SendsFirst
           /\ OneHolder(Holdings) /\ OneWaiter(Reserved) /\ Apart(Holdings, Reserved)
           /\ Kept(Holdings, content)
-----------------------------------------------------------------------------
LEMMA HoldingsTyped ==
  ASSUME GInv
  PROVE  \A h \in Holdings : /\ h[3] \in Entries /\ h[3].buf \in Buffers
                             /\ h[3].packet \in Packets
  <1>1. /\ Members(spi_comms_input_queue) \subseteq Entries
        /\ Members(spi_comms_output_queue) \subseteq Entries
        /\ Members(server_queue) \subseteq Entries
    BY MembersTyped DEF GInv, TypeOK
  <1>2. {spiMessage, serverMessage, wifiEntry} \ {NONE} \subseteq Entries
    BY DEF GInv, TypeOK
  <1>3. \A k \in Sending : clientEntry[k] \in Entries
    BY DEF Sending, GInv, Pointers
  <1>4. \A h \in InputHolds \cup OutputHolds \cup ServerQueueHolds : h[3] \in Entries
    BY <1>1 DEF InputHolds, OutputHolds, ServerQueueHolds, InQueue
  <1>5. \A h \in SpiHolds \cup ServerHolds \cup WifiHolds : h[3] \in Entries
    BY <1>2 DEF SpiHolds, ServerHolds, WifiHolds, InHand
  <1>6. \A h \in ClientHolds : h[3] \in Entries
    BY <1>3 DEF ClientHolds
  <1> QED BY <1>4, <1>5, <1>6, EntryParts DEF Holdings

(* A buffer that is not in use is nobody's.                                  *)
LEMMA Unused ==
  ASSUME GInv, NEW b
  PROVE  /\ b \notin InUse => /\ \A h \in Holdings : h[3].buf # b
                              /\ \A r \in Reserved : r[2] # b
         /\ \A h \in Holdings : h[3] \in Queued \cup Held
  <1>1. \A e \in Members(spi_comms_input_queue) \cup Members(spi_comms_output_queue)
                 \cup Members(server_queue) : e \in Queued
    BY DEF Members, Queued
  <1>2. \A k \in Sending : clientEntry[k] \in Entries /\ clientEntry[k] # NONE
    BY DEF Sending, GInv, Pointers
  <1>3. \A h \in InputHolds \cup OutputHolds \cup ServerQueueHolds : h[3] \in Queued
    BY <1>1 DEF InputHolds, OutputHolds, ServerQueueHolds, InQueue
  <1>4. \A h \in SpiHolds \cup ServerHolds \cup WifiHolds : h[3] \in Held
    BY DEF SpiHolds, ServerHolds, WifiHolds, InHand, Held
  <1>5. \A h \in ClientHolds : h[3] \in Held
    BY <1>2 DEF ClientHolds, Held, Sending
  <1>6. \A h \in Holdings : h[3] \in Queued \cup Held
    BY <1>3, <1>4, <1>5 DEF Holdings
  <1>7. \A h \in Holdings : h[3].buf \in InUse
    BY <1>6 DEF InUse
  <1>8. \A r \in Reserved : r[2] \in InUse
    BY DEF Reserved, ToRead, ToReceive, Reading, InUse
  <1> QED BY <1>6, <1>7, <1>8

(* Every buffer in use is somebody's.                                        *)
LEMMA Used ==
  /\ \A e \in Queued \cup Held : \E h \in Holdings : h[3] = e
  /\ \A b \in InUse : \/ \E h \in Holdings : h[3].buf = b
                      \/ \E r \in Reserved : r[2] = b
  <1>1. ASSUME NEW e \in Queued
        PROVE  \E h \in Holdings : h[3] = e
    <2>1. \/ e \in Members(spi_comms_input_queue)
          \/ e \in Members(spi_comms_output_queue)
          \/ e \in Members(server_queue)
      BY <1>1 DEF Queued, Members
    <2>2. \/ <<"input", 0, e>> \in InputHolds
          \/ <<"output", 0, e>> \in OutputHolds
          \/ <<"server_queue", 0, e>> \in ServerQueueHolds
      BY <2>1 DEF InputHolds, OutputHolds, ServerQueueHolds, InQueue
    <2> QED BY <2>2 DEF Holdings
  <1>2. ASSUME NEW e \in Held
        PROVE  \E h \in Holdings : h[3] = e
    <2>1. CASE e \in {spiMessage, serverMessage, wifiEntry}
      <3>1. e # NONE
        BY <1>2 DEF Held
      <3>2. \/ <<"spi", 0, e>> \in SpiHolds
            \/ <<"server", 0, e>> \in ServerHolds
            \/ <<"wifi", 0, e>> \in WifiHolds
        BY <2>1, <3>1 DEF SpiHolds, ServerHolds, WifiHolds, InHand
      <3> QED BY <3>2 DEF Holdings
    <2>2. CASE \E k \in Sending : e = clientEntry[k]
      <3>1. PICK k \in Sending : e = clientEntry[k]
        BY <2>2
      <3>2. <<"client", k, e>> \in ClientHolds
        BY <3>1 DEF ClientHolds
      <3> QED BY <3>2 DEF Holdings
    <2> QED BY <1>2, <2>1, <2>2 DEF Held, Sending
  <1>3. \A e \in Queued \cup Held : \E h \in Holdings : h[3] = e
    BY <1>1, <1>2
  <1>4. ASSUME NEW b \in InUse
        PROVE  \/ \E h \in Holdings : h[3].buf = b
               \/ \E r \in Reserved : r[2] = b
    <2>1. CASE \E e \in Queued \cup Held : b = e.buf
      BY <1>3, <2>1
    <2>2. CASE \E k \in Reading : b = clientEntry[k].buf
      <3>1. PICK k \in Reading : b = clientEntry[k].buf
        BY <2>2
      <3> DEFINE r == <<k, b>>
      <3>2. r \in Reserved /\ r[2] = b
        BY <3>1 DEF Reserved, ToRead
      <3> HIDE DEF r
      <3> QED BY <3>2
    <2>3. CASE trans.dir = "rx" /\ b = trans.buf
      <3> DEFINE r == <<0, b>>
      <3>1. r \in Reserved /\ r[2] = b
        BY <2>3 DEF Reserved, ToReceive
      <3> HIDE DEF r
      <3> QED BY <3>1
    <2> QED BY <1>4, <2>1, <2>2, <2>3 DEF InUse, Reading
  <1> QED BY <1>3, <1>4

(* What keeps the buffers apart is what Intact asks for.                     *)
LEMMA KeptIsIntact ==
  ASSUME GInv, Kept(Holdings, content)
  PROVE  Intact
  BY Used DEF Kept, Intact
-----------------------------------------------------------------------------
(* One holding is new or has moved, and its buffer is nobody else's.         *)
LEMMA RingStep ==
  ASSUME RingInv, NEW G, NEW h, NEW b, NEW p, h[3].buf = b, h[3].packet = p,
         G \subseteq Holdings, Holdings' \subseteq G \cup {h}, \A g \in G : g[3].buf # b,
         content'[b] = p, \A g \in G : content'[g[3].buf] = content[g[3].buf],
         Reserved' \subseteq Reserved, \A r \in Reserved' : r[2] # b
  PROVE  /\ OneHolder(Holdings') /\ OneWaiter(Reserved') /\ Apart(Holdings', Reserved')
         /\ Kept(Holdings', content')
  <1>1. OneHolder(Holdings')
    BY DEF RingInv, OneHolder
  <1>2. OneWaiter(Reserved')
    BY DEF RingInv, OneWaiter
  <1>3. Apart(Holdings', Reserved')
    BY DEF RingInv, Apart
  <1>4. Kept(Holdings', content')
    BY DEF RingInv, Kept
  <1> QED BY <1>1, <1>2, <1>3, <1>4

(* Somebody has reserved a buffer that is nobody else's.                     *)
LEMMA ReserveStep ==
  ASSUME RingInv, Holdings' \subseteq Holdings, UNCHANGED content,
         NEW k, NEW b, Reserved' \subseteq Reserved \cup {<<k, b>>},
         \A s \in Reserved : s[2] # b, \A h \in Holdings : h[3].buf # b
  PROVE  /\ OneHolder(Holdings') /\ OneWaiter(Reserved') /\ Apart(Holdings', Reserved')
         /\ Kept(Holdings', content')
  <1>1. OneHolder(Holdings') /\ Kept(Holdings', content')
    BY DEF RingInv, OneHolder, Kept
  <1>2. OneWaiter(Reserved')
    BY DEF RingInv, OneWaiter
  <1>3. Apart(Holdings', Reserved')
    BY DEF RingInv, Apart
  <1> QED BY <1>1, <1>2, <1>3

(* Buffers are only let go.                                                  *)
LEMMA ReleaseStep ==
  ASSUME RingInv, Holdings' \subseteq Holdings, Reserved' \subseteq Reserved,
         UNCHANGED content
  PROVE  /\ OneHolder(Holdings') /\ OneWaiter(Reserved') /\ Apart(Holdings', Reserved')
         /\ Kept(Holdings', content')
  BY DEF RingInv, OneHolder, OneWaiter, Apart, Kept

LEMMA RingInit == Init => RingInv
  <1> SUFFICES ASSUME Init PROVE RingInv
    OBVIOUS
  <1>1. GInv
    BY InitHolds
  <1>2. Members(<<>>) = {} /\ Injective(<<>>)
    BY DEF Members, Injective
  <1>3. Reading = {} /\ Sending = {}
    BY DEF Init, Reading, Sending
  <1>4. Holdings = {}
    BY <1>2, <1>3 DEF Init, Holdings, InputHolds, OutputHolds, ServerQueueHolds, SpiHolds,
                      ServerHolds, WifiHolds, ClientHolds, InQueue, InHand
  <1>5. Reserved = {} /\ SendsFirst
    BY <1>3 DEF Init, Idle, Reserved, ToRead, ToReceive, SendsFirst
  <1> QED
    BY <1>1, <1>2, <1>4, <1>5 DEF Init, RingInv, OnceInQueues, OneHolder, OneWaiter,
                                  Apart, Kept
-----------------------------------------------------------------------------
(* Posting to the SPI task: an entry whose buffer is not in the queue yet.   *)
LEMMA Posts ==
  ASSUME RingInv, NEW e \in Entries, ToSpi(e),
         \A h \in InputHolds : h[3].buf # e.buf
  PROVE  /\ Injective(spi_comms_input_queue')
         /\ InputHolds' \subseteq InputHolds \cup {<<"input", 0, e>>}
  <1>1. spi_comms_input_queue \in Seq(Entries) /\ Injective(spi_comms_input_queue)
    BY DEF RingInv, GInv, TypeOK, OnceInQueues
  <1>2. \A m \in Members(spi_comms_input_queue) : m.buf # e.buf
    <2>1. \A m \in Members(spi_comms_input_queue) : <<"input", 0, m>> \in InputHolds
      BY DEF InputHolds, InQueue
    <2> QED BY <2>1
  <1>3. spi_comms_input_queue' = Enqueue(spi_comms_input_queue, e, InLen)
    BY DEF ToSpi
  <1>4. /\ Injective(spi_comms_input_queue')
        /\ Members(spi_comms_input_queue') \subseteq Members(spi_comms_input_queue) \cup {e}
    BY <1>1, <1>2, <1>3, EnqueueMembers
  <1>5. InputHolds' \subseteq InputHolds \cup {<<"input", 0, e>>}
    BY <1>4 DEF InputHolds, InQueue
  <1> QED BY <1>4, <1>5

(* A packet is built in a free buffer and posted to the SPI task.            *)
LEMMA BuildsAndPosts ==
  ASSUME RingInv, NEW p \in Packets, Build(p), ToSpi(Built(p)),
         next \notin InUse, Reserved' \subseteq Reserved,
         Holdings' \subseteq Holdings \cup InputHolds'
  PROVE  /\ OneHolder(Holdings') /\ OneWaiter(Reserved') /\ Apart(Holdings', Reserved')
         /\ Kept(Holdings', content') /\ Injective(spi_comms_input_queue')
         /\ Gains("input", Built(p))
  <1>1. /\ next \in Buffers /\ Built(p) \in Entries /\ Built(p).buf = next
        /\ Built(p).packet = p
    BY BuiltTyped DEF RingInv, GInv, TypeOK, Built
  <1>2. (\A h \in Holdings : h[3].buf # next) /\ (\A r \in Reserved : r[2] # next)
    BY Unused DEF RingInv
  <1>3. InputHolds \subseteq Holdings
    BY DEF Holdings
  <1>4. /\ Injective(spi_comms_input_queue')
        /\ InputHolds' \subseteq InputHolds \cup {<<"input", 0, Built(p)>>}
    BY <1>1, <1>2, <1>3, Posts
  <1>5. Holdings' \subseteq Holdings \cup {<<"input", 0, Built(p)>>}
    BY <1>3, <1>4
  <1>6. /\ content'[next] = p
        /\ \A g \in Holdings : content'[g[3].buf] = content[g[3].buf]
    BY <1>1, <1>2, HoldingsTyped DEF Build, RingInv, GInv, TypeOK
  <1> DEFINE h == <<"input", 0, Built(p)>>
  <1>7. /\ h[3].buf = next /\ h[3].packet = p
        /\ h[1] = "input" /\ h[3] = Built(p)
    BY <1>1
  <1>8. Holdings' \subseteq Holdings \cup {h}
    BY <1>5
  <1> HIDE DEF h
  <1>9. \A r \in Reserved' : r[2] # next
    BY <1>2
  <1>10. /\ OneHolder(Holdings') /\ OneWaiter(Reserved') /\ Apart(Holdings', Reserved')
         /\ Kept(Holdings', content')
    BY <1>2, <1>6, <1>7, <1>8, <1>9, RingStep
  <1>11. Gains("input", Built(p))
    BY <1>7, <1>8 DEF Gains
  <1> QED BY <1>4, <1>10, <1>11

LEMMA ClientRing ==
  ASSUME RingInv, GInv', FreeTaken, NEW k \in Conns, Client(k)
  PROVE  RingInv' /\ ClientPasses(k)
  <1> DEFINE Others == OutputHolds \cup ServerQueueHolds \cup SpiHolds \cup ServerHolds
                       \cup WifiHolds
  <1>0. client \in [Conns -> {"none", "hello", "take", "read", "package", "post",
                              "bye", "report", "deleted"}]
        /\ clientEntry \in [Conns -> Entries \cup {NONE}]
    BY DEF RingInv, GInv, TypeOK
  <1>1. ASSUME SendConnected(k) \/ SendDisconnected(k)
        PROVE  RingInv' /\ ClientPasses(k)
    <2>1. PICK i \in Ids : LET p == Packet("status", i)
                          IN p \in Packets /\ Build(p) /\ ToSpi(Built(p))
      BY <1>1, Builds, ZeroId DEF SendConnected, SendDisconnected
    <2> DEFINE p == Packet("status", i)
    <2> HIDE DEF p
    <2>0. p \in Packets /\ Build(p) /\ ToSpi(Built(p))
      BY <2>1 DEF p
    <2>2. next \notin InUse
      BY <1>1 DEF FreeTaken
    <2>3. /\ Reading' = Reading /\ Sending' = Sending /\ UNCHANGED <<clientEntry, trans>>
      BY <1>0, <1>1 DEF SendConnected, SendDisconnected, ClientAt, Reading, Sending, line
    <2>4. Reserved' = Reserved /\ ClientHolds' = ClientHolds
      BY <2>3 DEF Reserved, ToRead, ToReceive, ClientHolds
    <2>5. Others' = Others
      BY <1>1 DEF SendConnected, SendDisconnected, OutputHolds, ServerQueueHolds, SpiHolds,
                  ServerHolds, WifiHolds, InQueue, InHand, line, spiVars, serverVars, wifiVars
    <2>6. Holdings' \subseteq Holdings \cup InputHolds'
      BY <2>4, <2>5 DEF Holdings
    <2>7. /\ OneHolder(Holdings') /\ OneWaiter(Reserved') /\ Apart(Holdings', Reserved')
          /\ Kept(Holdings', content') /\ Injective(spi_comms_input_queue')
          /\ Gains("input", Built(p))
      BY <2>0, <2>2, <2>4, <2>6, BuildsAndPosts
    <2>8. SendsFirst' /\ UNCHANGED <<spi_comms_output_queue, server_queue>>
      BY <1>1 DEF SendConnected, SendDisconnected, SendsFirst, line, RingInv
    <2>9. ClientPasses(k)
      BY <1>1, <2>7 DEF ClientPasses, p
    <2> QED BY <2>7, <2>8, <2>9 DEF RingInv, OnceInQueues
  <1>2. ASSUME ClientTakes(k)
        PROVE  RingInv' /\ ClientPasses(k)
    <2>1. /\ next \in Buffers /\ next \notin InUse /\ client[k] = "take"
          /\ clientEntry' = [clientEntry EXCEPT ![k] = Built(content[next])]
          /\ client' = [client EXCEPT ![k] = "read"]
      BY <1>2 DEF ClientTakes, ClientAt, FreeTaken, RingInv, GInv, TypeOK
    <2>2. Reading' = Reading \cup {k} /\ Sending' = Sending /\ k \notin Sending
      BY <1>0, <2>1 DEF Reading, Sending
    <2>3. ClientHolds' = ClientHolds
      BY <1>0, <2>1, <2>2 DEF ClientHolds, Sending
    <2>4. Holdings' = Holdings /\ UNCHANGED <<content, trans>>
      BY <1>2, <2>3 DEF ClientTakes, Holdings, InputHolds, OutputHolds, ServerQueueHolds,
                  SpiHolds, ServerHolds, WifiHolds, InQueue, InHand, queues, line, spiVars,
                  serverVars, wifiVars
    <2>5. clientEntry'[k].buf = next /\ \A j \in Conns \ {k} : clientEntry'[j] = clientEntry[j]
      BY <1>0, <2>1 DEF Built
    <2>6. Reserved' \subseteq Reserved \cup {<<k, next>>}
      BY <2>2, <2>4, <2>5 DEF Reserved, ToRead, ToReceive, Reading
    <2>7. (\A h \in Holdings : h[3].buf # next) /\ (\A r \in Reserved : r[2] # next)
      BY <2>1, Unused DEF RingInv
    <2>8. /\ OneHolder(Holdings') /\ OneWaiter(Reserved') /\ Apart(Holdings', Reserved')
          /\ Kept(Holdings', content')
      BY <2>4, <2>6, <2>7, ReserveStep
    <2>9. SendsFirst' /\ OnceInQueues'
      BY <1>2 DEF ClientTakes, SendsFirst, OnceInQueues, queues, line, RingInv
    <2>10. ClientPasses(k)
      BY <1>2, <2>4 DEF ClientPasses, Frees
    <2> QED BY <2>8, <2>9, <2>10 DEF RingInv
  <1>3. ASSUME ClientReads(k)
        PROVE  RingInv' /\ ClientPasses(k)
    <2> DEFINE b == clientEntry[k].buf
               p == Packet("raw", sent)
               h == <<"client", k, clientEntry'[k]>>
    <2>1. /\ client[k] = "read" /\ client' = [client EXCEPT ![k] = "package"]
          /\ content' = [content EXCEPT ![b] = p]
          /\ clientEntry' = [clientEntry EXCEPT ![k].packet = p]
          /\ clientEntry[k] \in Entries /\ b \in Buffers
      BY <1>3, EntryParts DEF ClientReads, ClientAt, RingInv, GInv, Pointers
    <2>2. /\ Reading' = Reading \ {k} /\ Sending' = Sending \cup {k}
          /\ k \in Reading /\ k \notin Sending
      BY <1>0, <2>1 DEF Reading, Sending
    <2>3. /\ clientEntry'[k].buf = b /\ clientEntry'[k].packet = p
          /\ \A j \in Conns \ {k} : clientEntry'[j] = clientEntry[j]
      BY <1>0, <2>1 DEF Entries
    <2>4. ClientHolds' \subseteq ClientHolds \cup {h}
      BY <2>2, <2>3 DEF ClientHolds, Sending
    <2>5. Holdings' \subseteq Holdings \cup {h} /\ UNCHANGED trans
      BY <1>3, <2>4 DEF ClientReads, Holdings, InputHolds, OutputHolds, ServerQueueHolds,
                  SpiHolds, ServerHolds, WifiHolds, InQueue, InHand, queues, line, spiVars,
                  serverVars, wifiVars
    <2>6. <<k, b>> \in Reserved /\ k # 0
      BY <2>2 DEF Reserved, ToRead, Conns
    <2>7. \A r \in Reserved' : r \in Reserved /\ r # <<k, b>>
      BY <2>2, <2>3, <2>5, <2>6 DEF Reserved, ToRead, ToReceive, Reading
    <2>8. \A g \in Holdings : g[3].buf # b
      BY <2>6 DEF RingInv, Apart
    <2>9. \A r \in Reserved' : r[2] # b
      BY <2>6, <2>7 DEF RingInv, OneWaiter
    <2>10. /\ content'[b] = p
           /\ \A g \in Holdings : content'[g[3].buf] = content[g[3].buf]
      BY <2>1, <2>8, HoldingsTyped DEF RingInv, GInv, TypeOK
    <2>11. /\ OneHolder(Holdings') /\ OneWaiter(Reserved') /\ Apart(Holdings', Reserved')
           /\ Kept(Holdings', content')
      <3>1. h[3].buf = b /\ h[3].packet = p
        BY <2>3
      <3> HIDE DEF h, b, p
      <3> QED BY <2>5, <2>7, <2>8, <2>9, <2>10, <3>1, RingStep
    <2>12. SendsFirst' /\ OnceInQueues'
      BY <1>3 DEF ClientReads, SendsFirst, OnceInQueues, queues, line, RingInv
    <2>13. ClientPasses(k)
      <3>1. h[1] = "client" /\ h[3] = Entry(b, p)
        <4>1. clientEntry'[k] = Entry(b, p)
          BY <1>0, <2>1 DEF Entries, Entry
        <4> QED BY <4>1
      <3> HIDE DEF h
      <3>2. Gains("client", Entry(b, p))
        BY <2>5, <3>1 DEF Gains
      <3> QED BY <1>3, <3>2 DEF ClientPasses
    <2> QED BY <2>11, <2>12, <2>13 DEF RingInv
  <1>4. ASSUME ClientPackages(k)
        PROVE  RingInv' /\ ClientPasses(k)
    <2> DEFINE e == clientEntry[k]
               f == [e EXCEPT !.packet.type = "from_gdb"]
               g == <<"client", k, e>>
               h == <<"client", k, f>>
    <2>1. /\ client[k] = "package" /\ client' = [client EXCEPT ![k] = "post"]
          /\ content' = [content EXCEPT ![e.buf].type = "from_gdb"]
          /\ clientEntry' = [clientEntry EXCEPT ![k].packet.type = "from_gdb"]
          /\ e \in Entries /\ e.buf \in Buffers
      BY <1>4, EntryParts DEF ClientPackages, ClientAt, RingInv, GInv, Pointers
    <2>2. /\ Reading' = Reading /\ Sending' = Sending /\ k \in Sending /\ k \notin Reading
      BY <1>0, <2>1 DEF Reading, Sending
    <2>3. /\ clientEntry'[k] = f
          /\ \A j \in Conns \ {k} : clientEntry'[j] = clientEntry[j]
      BY <1>0, <2>1
    <2>4. ClientHolds' \subseteq (ClientHolds \ {g}) \cup {h}
      BY <2>2, <2>3 DEF ClientHolds, Sending
    <2>5. g \in Holdings
      BY <2>2 DEF ClientHolds, Holdings
    <2>6. \A x \in Others \cup InputHolds : x # g
      BY DEF InputHolds, OutputHolds, ServerQueueHolds, SpiHolds, ServerHolds, WifiHolds,
             InQueue, InHand
    <2>7. Others' = Others /\ InputHolds' = InputHolds /\ UNCHANGED trans
      BY <1>4 DEF ClientPackages, InputHolds, OutputHolds, ServerQueueHolds,
                  SpiHolds, ServerHolds, WifiHolds, InQueue, InHand, queues, line, spiVars,
                  serverVars, wifiVars
    <2>8. Holdings' \subseteq (Holdings \ {g}) \cup {h}
      BY <2>4, <2>6, <2>7 DEF Holdings
    <2>9. Reserved' = Reserved
      BY <2>2, <2>3, <2>7 DEF Reserved, ToRead, ToReceive, Reading
    <2>10. f.buf = e.buf /\ f.packet = [e.packet EXCEPT !.type = "from_gdb"]
      BY <2>1 DEF Entries
    <2>11. content[e.buf] = e.packet
      BY <2>5 DEF RingInv, Kept
    <2>12. content'[e.buf] = f.packet
      BY <2>1, <2>10, <2>11 DEF RingInv, GInv, TypeOK
    <2> HIDE DEF e, f
    <2>13. \A x \in Holdings \ {g} : x[3].buf # e.buf
      BY <2>5 DEF RingInv, OneHolder
    <2>14. \A x \in Holdings \ {g} : content'[x[3].buf] = content[x[3].buf]
      BY <2>1, <2>13, HoldingsTyped DEF RingInv, GInv, TypeOK
    <2>15. \A r \in Reserved' : r[2] # e.buf
      BY <2>5, <2>9 DEF RingInv, Apart
    <2>16. /\ OneHolder(Holdings') /\ OneWaiter(Reserved') /\ Apart(Holdings', Reserved')
           /\ Kept(Holdings', content')
      <3> DEFINE G == Holdings \ {g}
      <3>1. h[3].buf = e.buf /\ h[3].packet = f.packet /\ G \subseteq Holdings
        BY <2>10
      <3>2. /\ Holdings' \subseteq G \cup {h} /\ \A x \in G : x[3].buf # e.buf
            /\ \A x \in G : content'[x[3].buf] = content[x[3].buf]
        BY <2>8, <2>13, <2>14
      <3> HIDE DEF h, g, G
      <3> QED BY <2>9, <2>12, <2>15, <3>1, <3>2, RingStep
    <2>17. SendsFirst' /\ OnceInQueues'
      BY <1>4 DEF ClientPackages, SendsFirst, OnceInQueues, queues, line, RingInv
    <2>18. ClientPasses(k)
      <3>1. g[1] = "client" /\ g[3] = e /\ h[1] = "client" /\ h[3] = f
        OBVIOUS
      <3> HIDE DEF g, h
      <3>2. Moves("client", e, "client", f)
        BY <2>5, <2>8, <3>1 DEF Moves
      <3> QED BY <1>4, <3>2 DEF ClientPasses, e, f
    <2> QED BY <2>16, <2>17, <2>18 DEF RingInv
  <1>5. ASSUME ClientPosts(k)
        PROVE  RingInv' /\ ClientPasses(k)
    <2> DEFINE e == clientEntry[k]
               g == <<"client", k, e>>
    <2>1. /\ client[k] = "post" /\ client' = [client EXCEPT ![k] = "take"]
          /\ clientEntry' = [clientEntry EXCEPT ![k] = NONE]
          /\ e \in Entries /\ ToSpi(e)
      BY <1>5 DEF ClientPosts, ClientAt, RingInv, GInv, Pointers
    <2>2. /\ Reading' = Reading /\ Sending' = Sending \ {k} /\ k \in Sending /\ k \notin Reading
      BY <1>0, <2>1 DEF Reading, Sending
    <2>3. \A j \in Conns \ {k} : clientEntry'[j] = clientEntry[j]
      BY <1>0, <2>1
    <2>4. ClientHolds' \subseteq ClientHolds \ {g}
      BY <2>2, <2>3 DEF ClientHolds, Sending
    <2>5. g \in Holdings
      BY <2>2 DEF ClientHolds, Holdings
    <2>6. \A x \in Others \cup InputHolds : x # g
      BY DEF InputHolds, OutputHolds, ServerQueueHolds, SpiHolds, ServerHolds, WifiHolds,
             InQueue, InHand
    <2>7. \A x \in Holdings \ {g} : x[3].buf # e.buf
      BY <2>5 DEF RingInv, OneHolder
    <2>8. /\ Injective(spi_comms_input_queue')
          /\ InputHolds' \subseteq InputHolds \cup {<<"input", 0, e>>}
      <3>1. \A x \in InputHolds : x[3].buf # e.buf
        BY <2>6, <2>7 DEF Holdings
      <3> HIDE DEF e
      <3> QED BY <2>1, <3>1, Posts
    <2>9. Others' = Others /\ UNCHANGED <<trans, content>>
      BY <1>5 DEF ClientPosts, OutputHolds, ServerQueueHolds, SpiHolds, ServerHolds,
                  WifiHolds, InQueue, InHand, ring, line, spiVars, serverVars, wifiVars
    <2>10. Holdings' \subseteq (Holdings \ {g}) \cup {<<"input", 0, e>>}
      BY <2>4, <2>6, <2>8, <2>9 DEF Holdings
    <2>11. Reserved' = Reserved
      BY <2>2, <2>3, <2>9 DEF Reserved, ToRead, ToReceive, Reading
    <2>12. content[e.buf] = e.packet /\ \A r \in Reserved : r[2] # e.buf
      BY <2>5 DEF RingInv, Kept, Apart
    <2>13. /\ OneHolder(Holdings') /\ OneWaiter(Reserved') /\ Apart(Holdings', Reserved')
           /\ Kept(Holdings', content')
      <3> DEFINE G == Holdings \ {g}
                 h == <<"input", 0, e>>
      <3>1. h[3].buf = e.buf /\ h[3].packet = e.packet /\ G \subseteq Holdings
        OBVIOUS
      <3>2. /\ Holdings' \subseteq G \cup {h} /\ \A x \in G : x[3].buf # e.buf
            /\ \A x \in G : content'[x[3].buf] = content[x[3].buf]
            /\ content'[e.buf] = e.packet
        BY <2>7, <2>9, <2>10, <2>12
      <3> HIDE DEF h, g, G, e
      <3> QED BY <2>11, <2>12, <3>1, <3>2, RingStep
    <2>14. SendsFirst' /\ OnceInQueues'
      BY <1>5, <2>8 DEF ClientPosts, SendsFirst, OnceInQueues, line, RingInv
    <2>15. ClientPasses(k)
      <3> DEFINE h == <<"input", 0, e>>
      <3>1. g[1] = "client" /\ g[3] = e /\ h[1] = "input" /\ h[3] = e
        OBVIOUS
      <3>2. Holdings' \subseteq (Holdings \ {g}) \cup {h}
        BY <2>10
      <3> HIDE DEF g, h, e
      <3>3. Moves("client", e, "input", e)
        BY <2>5, <3>1, <3>2 DEF Moves
      <3> QED BY <1>5, <3>3 DEF ClientPasses, e
    <2> QED BY <2>13, <2>14, <2>15 DEF RingInv
  <1>6. ASSUME ClientEnds(k)
        PROVE  RingInv' /\ ClientPasses(k)
    <2>1. /\ client[k] = "read" /\ client' = [client EXCEPT ![k] = "bye"]
          /\ clientEntry' = [clientEntry EXCEPT ![k] = NONE]
      BY <1>6 DEF ClientEnds, ClientAt
    <2>2. Reading' = Reading \ {k} /\ Sending' = Sending /\ k \notin Sending
      BY <1>0, <2>1 DEF Reading, Sending
    <2>3. \A j \in Conns \ {k} : clientEntry'[j] = clientEntry[j]
      BY <1>0, <2>1
    <2>4. ClientHolds' = ClientHolds
      BY <2>2, <2>3 DEF ClientHolds, Sending
    <2>5. Others' = Others /\ InputHolds' = InputHolds /\ UNCHANGED <<trans, content>>
      BY <1>6 DEF ClientEnds, InputHolds, OutputHolds, ServerQueueHolds, SpiHolds, ServerHolds,
                  WifiHolds, InQueue, InHand, ring, queues, line, spiVars, serverVars, wifiVars
    <2>6. Holdings' = Holdings
      BY <2>4, <2>5 DEF Holdings
    <2>7. Reserved' \subseteq Reserved
      BY <2>2, <2>3, <2>5 DEF Reserved, ToRead, ToReceive, Reading
    <2>8. /\ OneHolder(Holdings') /\ OneWaiter(Reserved') /\ Apart(Holdings', Reserved')
          /\ Kept(Holdings', content')
      BY <2>5, <2>6, <2>7, ReleaseStep
    <2>9. SendsFirst' /\ OnceInQueues'
      BY <1>6 DEF ClientEnds, SendsFirst, OnceInQueues, queues, line, RingInv
    <2>10. ClientPasses(k)
      BY <1>6, <2>6 DEF ClientPasses, Frees
    <2> QED BY <2>8, <2>9, <2>10 DEF RingInv
  <1>7. ASSUME SendClosed(k)
        PROVE  RingInv' /\ ClientPasses(k)
    <2> DEFINE p == Packet("command", 0)
               e == Built(p)
               h == <<"server_queue", 0, e>>
    <2>1. /\ p \in Packets /\ next \in Buffers /\ next \notin InUse
          /\ e \in Entries /\ e.buf = next /\ e.packet = p
      BY <1>7, Builds, BuiltTyped DEF FreeTaken, RingInv, GInv, TypeOK, Built
    <2>2. /\ Build(p) /\ server_queue' = Enqueue(server_queue, e, SrvLen)
      BY <1>7 DEF SendClosed
    <2>3. /\ Reading' = Reading /\ Sending' = Sending /\ UNCHANGED <<clientEntry, trans>>
      BY <1>0, <1>7 DEF SendClosed, ClientAt, Reading, Sending, line
    <2>4. Reserved' = Reserved /\ ClientHolds' = ClientHolds
      BY <2>3 DEF Reserved, ToRead, ToReceive, ClientHolds
    <2>5. (\A x \in Holdings : x[3].buf # next) /\ (\A r \in Reserved : r[2] # next)
      BY <2>1, Unused DEF RingInv
    <2> HIDE DEF p, e
    <2>6. \A m \in Members(server_queue) : m.buf # e.buf
      <3>1. \A m \in Members(server_queue) : <<"server_queue", 0, m>> \in Holdings
        BY DEF ServerQueueHolds, InQueue, Holdings
      <3> QED BY <2>1, <2>5, <3>1
    <2>7. /\ Injective(server_queue')
          /\ Members(server_queue') \subseteq Members(server_queue) \cup {e}
      <3>1. server_queue \in Seq(Entries) /\ Injective(server_queue)
        BY DEF RingInv, GInv, TypeOK, OnceInQueues
      <3> QED BY <2>1, <2>2, <2>6, <3>1, EnqueueMembers
    <2>8. ServerQueueHolds' \subseteq ServerQueueHolds \cup {h}
      BY <2>7 DEF ServerQueueHolds, InQueue
    <2>9. /\ InputHolds' = InputHolds /\ OutputHolds' = OutputHolds /\ SpiHolds' = SpiHolds
          /\ ServerHolds' = ServerHolds /\ WifiHolds' = WifiHolds
      BY <1>7 DEF SendClosed, InputHolds, OutputHolds, SpiHolds, ServerHolds, WifiHolds,
                  InQueue, InHand, spiVars, serverVars, wifiVars
    <2>10. Holdings' \subseteq Holdings \cup {h}
      BY <2>4, <2>8, <2>9 DEF Holdings
    <2>11. /\ content'[next] = p
           /\ \A x \in Holdings : content'[x[3].buf] = content[x[3].buf]
      BY <2>1, <2>2, <2>5, HoldingsTyped DEF Build, RingInv, GInv, TypeOK
    <2>12. /\ OneHolder(Holdings') /\ OneWaiter(Reserved') /\ Apart(Holdings', Reserved')
           /\ Kept(Holdings', content')
      <3>1. h[3].buf = next /\ h[3].packet = p
        BY <2>1
      <3> HIDE DEF h
      <3> QED BY <2>4, <2>5, <2>10, <2>11, <3>1, RingStep
    <2>13. SendsFirst' /\ OnceInQueues'
      BY <1>7, <2>7 DEF SendClosed, SendsFirst, OnceInQueues, line, RingInv
    <2>14. ClientPasses(k)
      <3>1. h[1] = "server_queue" /\ h[3] = e
        OBVIOUS
      <3> HIDE DEF h
      <3>2. Gains("server_queue", e)
        BY <2>10, <3>1 DEF Gains
      <3> QED BY <1>7, <3>2 DEF ClientPasses, p, e
    <2> QED BY <2>12, <2>13, <2>14 DEF RingInv
  <1> QED
    BY <1>1, <1>2, <1>3, <1>4, <1>5, <1>6, <1>7 DEF Client
-----------------------------------------------------------------------------
(* An entry changes its place or its type, but not its buffer.               *)
LEMMA MoveStep ==
  ASSUME RingInv, NEW g \in Holdings, NEW h, h[3].buf = g[3].buf,
         Holdings' \subseteq (Holdings \ {g}) \cup {h}, Reserved' \subseteq Reserved,
         content'[g[3].buf] = h[3].packet,
         \A x \in Holdings \ {g} : content'[x[3].buf] = content[x[3].buf]
  PROVE  /\ OneHolder(Holdings') /\ OneWaiter(Reserved') /\ Apart(Holdings', Reserved')
         /\ Kept(Holdings', content')
  <1> DEFINE G == Holdings \ {g}
             b == g[3].buf
             p == h[3].packet
  <1>1. G \subseteq Holdings /\ h[3].buf = b /\ h[3].packet = p
    OBVIOUS
  <1>2. /\ Holdings' \subseteq G \cup {h} /\ content'[b] = p
        /\ \A x \in G : content'[x[3].buf] = content[x[3].buf]
    OBVIOUS
  <1>3. \A x \in G : x[3].buf # b
    BY DEF RingInv, OneHolder
  <1>4. \A r \in Reserved' : r[2] # b
    BY DEF RingInv, Apart
  <1> HIDE DEF G, b, p
  <1> QED BY <1>1, <1>2, <1>3, <1>4, RingStep

(* What is taken off the head of a queue is no longer in it.                 *)
LEMMA Leaves ==
  ASSUME NEW place, NEW q \in Seq(Entries), q # <<>>, Injective(q)
  PROVE  /\ Injective(Tail(q)) /\ Head(q) \in Entries
         /\ <<place, 0, Head(q)>> \in InQueue(place, q)
         /\ InQueue(place, Tail(q)) \subseteq InQueue(place, q) \ {<<place, 0, Head(q)>>}
  <1>1. /\ Injective(Tail(q)) /\ Head(q) \in Members(q)
        /\ Members(Tail(q)) \subseteq Members(q) \ {Head(q)}
    BY TailMembers
  <1>2. Head(q) \in Entries
    BY HeadTail
  <1> QED BY <1>1, <1>2 DEF InQueue

LEMMA ServerRing ==
  ASSUME RingInv, GInv', Server
  PROVE  RingInv' /\ ServerPasses
  <1>1. CASE ServerReceives
    <2> DEFINE e == Head(server_queue)
               g == <<"server_queue", 0, e>>
               h == <<"server", 0, e>>
    <2>1. server_queue \in Seq(Entries) /\ server_queue # <<>> /\ Injective(server_queue)
          /\ server_queue' = Tail(server_queue)
      BY <1>1 DEF ServerReceives, RingInv, GInv, TypeOK, OnceInQueues
    <2>2. /\ Injective(server_queue') /\ g \in ServerQueueHolds
          /\ ServerQueueHolds' \subseteq ServerQueueHolds \ {g}
      BY <2>1, Leaves DEF ServerQueueHolds
    <2>3. serverMessage' \in {e, NONE}
      BY <1>1 DEF ServerReceives
    <2>4. ServerHolds' \subseteq {h}
      BY <2>3 DEF ServerHolds, InHand
    <2>5. /\ InputHolds' = InputHolds /\ OutputHolds' = OutputHolds /\ SpiHolds' = SpiHolds
          /\ WifiHolds' = WifiHolds /\ ClientHolds' = ClientHolds /\ Reserved' = Reserved
          /\ UNCHANGED content
      BY <1>1 DEF ServerReceives, InputHolds, OutputHolds, SpiHolds, WifiHolds, ClientHolds,
                  Reserved, ToRead, ToReceive, Reading, Sending, InQueue, InHand, ring, line,
                  spiVars, clientVars, wifiVars
    <2>6. g \notin InputHolds \cup OutputHolds \cup SpiHolds \cup WifiHolds \cup ClientHolds
      BY DEF InputHolds, OutputHolds, SpiHolds, WifiHolds, ClientHolds, InQueue, InHand
    <2>7. Holdings' \subseteq (Holdings \ {g}) \cup {h} /\ g \in Holdings
      BY <2>2, <2>4, <2>5, <2>6 DEF Holdings
    <2>8. /\ g[3] = e /\ h[3] = e
      OBVIOUS
    <2>9. /\ content[e.buf] = e.packet
      BY <2>7, <2>8 DEF RingInv, Kept
    <2>10. /\ OneHolder(Holdings') /\ OneWaiter(Reserved') /\ Apart(Holdings', Reserved')
           /\ Kept(Holdings', content')
      <3> HIDE DEF e, g, h
      <3> QED BY <2>5, <2>7, <2>8, <2>9, MoveStep
    <2>11. SendsFirst' /\ OnceInQueues'
      BY <1>1, <2>2 DEF ServerReceives, SendsFirst, OnceInQueues, line, RingInv
    <2>12. ServerPasses
      <3>1. g[1] = "server_queue" /\ h[1] = "server"
        OBVIOUS
      <3>2. e.packet.type # "to_client" => Holdings' \subseteq Holdings \ {g}
        <4>1. e.packet.type # "to_client" => ServerHolds' = {}
          BY <1>1, <2>9 DEF ServerReceives, ServerHolds, InHand
        <4> QED BY <2>2, <2>5, <2>6, <4>1 DEF Holdings
      <3> HIDE DEF e, g, h
      <3>3. Moves("server_queue", e, "server", e)
        BY <2>7, <2>8, <3>1 DEF Moves
      <3>4. e.packet.type # "to_client" => Loses("server_queue", e)
        BY <2>7, <2>8, <3>1, <3>2 DEF Loses
      <3> QED BY <1>1, <3>3, <3>4 DEF ServerPasses, e
    <2> QED BY <2>10, <2>11, <2>12 DEF RingInv
  <1>2. CASE ServerSends
    <2>1. Holdings' \subseteq Holdings /\ Reserved' = Reserved /\ UNCHANGED content
      BY <1>2 DEF ServerSends, Holdings, InputHolds, OutputHolds, ServerQueueHolds, SpiHolds,
                  ServerHolds, WifiHolds, ClientHolds, Reserved, ToRead, ToReceive, Reading,
                  Sending, InQueue, InHand, ring, queues, line, spiVars, clientVars, wifiVars
    <2>2. /\ OneHolder(Holdings') /\ OneWaiter(Reserved') /\ Apart(Holdings', Reserved')
          /\ Kept(Holdings', content')
      BY <2>1, ReleaseStep
    <2>3. SendsFirst' /\ OnceInQueues'
      BY <1>2 DEF ServerSends, SendsFirst, OnceInQueues, queues, line, RingInv
    <2>4. ServerPasses
      <3> DEFINE e == serverMessage
                 g == <<"server", 0, e>>
      <3>1. e \in Entries /\ e # NONE /\ serverMessage' = NONE
        BY <1>2 DEF ServerSends, RingInv, GInv, Pointers
      <3>2. g \in ServerHolds /\ ServerHolds' = {}
        BY <3>1 DEF ServerHolds, InHand
      <3>3. g \notin InputHolds \cup OutputHolds \cup ServerQueueHolds \cup SpiHolds
                     \cup WifiHolds \cup ClientHolds
        BY DEF InputHolds, OutputHolds, ServerQueueHolds, SpiHolds, WifiHolds, ClientHolds,
               InQueue, InHand
      <3>4. /\ InputHolds' = InputHolds /\ OutputHolds' = OutputHolds /\ SpiHolds' = SpiHolds
            /\ ServerQueueHolds' = ServerQueueHolds /\ WifiHolds' = WifiHolds
            /\ ClientHolds' = ClientHolds
        BY <1>2 DEF ServerSends, InputHolds, OutputHolds, ServerQueueHolds, SpiHolds,
                    WifiHolds, ClientHolds, Sending, InQueue, InHand, queues, spiVars,
                    clientVars, wifiVars
      <3>5. /\ g \in Holdings /\ Holdings' \subseteq Holdings \ {g}
            /\ g[1] = "server" /\ g[3] = e
        BY <3>2, <3>3, <3>4 DEF Holdings
      <3> HIDE DEF g, e
      <3>6. Loses("server", e)
        BY <3>5 DEF Loses
      <3> QED BY <1>2, <3>1, <3>6 DEF ServerPasses, e
    <2> QED BY <2>2, <2>3, <2>4 DEF RingInv
  <1> QED BY <1>1, <1>2 DEF Server

LEMMA WifiRing ==
  ASSUME RingInv, GInv', FreeTaken, Wifi
  PROVE  RingInv' /\ WifiPasses
  <1>1. CASE WifiConnected
    <2> DEFINE p == Packet("network_info", 0)
               e == Built(p)
               h == <<"wifi", 0, e>>
    <2>1. /\ p \in Packets /\ next \in Buffers /\ next \notin InUse
          /\ e \in Entries /\ e.buf = next /\ e.packet = p
      BY <1>1, Builds, BuiltTyped DEF FreeTaken, RingInv, GInv, TypeOK, Built
    <2>2. Build(p) /\ wifiEntry' = e
      BY <1>1 DEF WifiConnected
    <2>3. (\A x \in Holdings : x[3].buf # next) /\ (\A r \in Reserved : r[2] # next)
      BY <2>1, Unused DEF RingInv
    <2> HIDE DEF p, e
    <2>4. WifiHolds' \subseteq {h}
      BY <2>2 DEF WifiHolds, InHand
    <2>5. /\ InputHolds' = InputHolds /\ OutputHolds' = OutputHolds /\ SpiHolds' = SpiHolds
          /\ ServerQueueHolds' = ServerQueueHolds /\ ServerHolds' = ServerHolds
          /\ ClientHolds' = ClientHolds /\ Reserved' = Reserved
      BY <1>1 DEF WifiConnected, InputHolds, OutputHolds, SpiHolds, ServerQueueHolds,
                  ServerHolds, ClientHolds, Reserved, ToRead, ToReceive, Reading, Sending,
                  InQueue, InHand, queues, line, spiVars, clientVars
    <2>6. Holdings' \subseteq Holdings \cup {h}
      BY <2>4, <2>5 DEF Holdings
    <2>7. /\ content'[next] = p
          /\ \A x \in Holdings : content'[x[3].buf] = content[x[3].buf]
      BY <2>1, <2>2, <2>3, HoldingsTyped DEF Build, RingInv, GInv, TypeOK
    <2>8. /\ OneHolder(Holdings') /\ OneWaiter(Reserved') /\ Apart(Holdings', Reserved')
          /\ Kept(Holdings', content')
      <3>1. h[3].buf = next /\ h[3].packet = p
        BY <2>1
      <3> HIDE DEF h
      <3> QED BY <2>3, <2>5, <2>6, <2>7, <3>1, RingStep
    <2>9. SendsFirst' /\ OnceInQueues'
      BY <1>1 DEF WifiConnected, SendsFirst, OnceInQueues, queues, line, RingInv
    <2>10. WifiPasses
      <3>1. h[1] = "wifi" /\ h[3] = e
        OBVIOUS
      <3> HIDE DEF h
      <3>2. Gains("wifi", e)
        BY <2>6, <3>1 DEF Gains
      <3> QED BY <1>1, <3>2 DEF WifiPasses, p, e
    <2> QED BY <2>8, <2>9, <2>10 DEF RingInv
  <1>2. CASE WifiReports
    <2> DEFINE e == wifiEntry
               g == <<"wifi", 0, e>>
               h == <<"input", 0, e>>
    <2>1. e \in Entries /\ e # NONE /\ ToSpi(e) /\ wifiEntry' = NONE
      BY <1>2 DEF WifiReports, RingInv, GInv, Pointers
    <2>2. g \in WifiHolds /\ WifiHolds' = {}
      BY <2>1 DEF WifiHolds, InHand
    <2>3. g \in Holdings
      BY <2>2 DEF Holdings
    <2>4. g \notin InputHolds \cup OutputHolds \cup ServerQueueHolds \cup SpiHolds
                   \cup ServerHolds \cup ClientHolds
      BY DEF InputHolds, OutputHolds, ServerQueueHolds, SpiHolds, ServerHolds, ClientHolds,
             InQueue, InHand
    <2>5. /\ Injective(spi_comms_input_queue') /\ InputHolds' \subseteq InputHolds \cup {h}
      <3>1. \A x \in Holdings \ {g} : x[3].buf # e.buf
        BY <2>3 DEF RingInv, OneHolder
      <3>2. \A x \in InputHolds : x[3].buf # e.buf
        BY <2>4, <3>1 DEF Holdings
      <3> HIDE DEF e
      <3> QED BY <2>1, <3>2, Posts
    <2>6. /\ OutputHolds' = OutputHolds /\ SpiHolds' = SpiHolds
          /\ ServerQueueHolds' = ServerQueueHolds /\ ServerHolds' = ServerHolds
          /\ ClientHolds' = ClientHolds /\ Reserved' = Reserved /\ UNCHANGED content
      BY <1>2 DEF WifiReports, OutputHolds, SpiHolds, ServerQueueHolds,
                  ServerHolds, ClientHolds, Reserved, ToRead, ToReceive, Reading, Sending,
                  InQueue, InHand, ring, line, spiVars, serverVars, clientVars
    <2>7. Holdings' \subseteq (Holdings \ {g}) \cup {h}
      BY <2>2, <2>4, <2>5, <2>6 DEF Holdings
    <2>8. /\ g[3] = e /\ h[3] = e /\ content[e.buf] = e.packet
      BY <2>3 DEF RingInv, Kept
    <2>9. /\ OneHolder(Holdings') /\ OneWaiter(Reserved') /\ Apart(Holdings', Reserved')
          /\ Kept(Holdings', content')
      <3> HIDE DEF e, g, h
      <3> QED BY <2>3, <2>6, <2>7, <2>8, MoveStep
    <2>10. SendsFirst' /\ OnceInQueues'
      BY <1>2, <2>5 DEF WifiReports, SendsFirst, OnceInQueues, line, RingInv
    <2>11. WifiPasses
      <3>1. g[1] = "wifi" /\ h[1] = "input"
        OBVIOUS
      <3> HIDE DEF e, g, h
      <3>2. Moves("wifi", e, "input", e)
        BY <2>3, <2>7, <2>8, <3>1 DEF Moves
      <3> QED BY <1>2, <3>2 DEF WifiPasses, e
    <2> QED BY <2>9, <2>10, <2>11 DEF RingInv
  <1> QED BY <1>1, <1>2 DEF Wifi
-----------------------------------------------------------------------------
(* Dispatching takes the entry off the input queue.                          *)
LEMMA DispatchLeaves ==
  ASSUME RingInv, NEW types, Dispatch(types)
  PROVE  /\ Injective(spi_comms_input_queue')
         /\ Head(spi_comms_input_queue) \in Entries
         /\ <<"input", 0, Head(spi_comms_input_queue)>> \in Holdings
         /\ InputHolds' \subseteq InputHolds \ {<<"input", 0, Head(spi_comms_input_queue)>>}
  <1>1. /\ spi_comms_input_queue \in Seq(Entries) /\ spi_comms_input_queue # <<>>
        /\ Injective(spi_comms_input_queue)
        /\ spi_comms_input_queue' = Tail(spi_comms_input_queue)
    BY DEF Dispatch, RingInv, GInv, TypeOK, OnceInQueues
  <1>2. /\ Injective(spi_comms_input_queue')
        /\ Head(spi_comms_input_queue) \in Entries
        /\ <<"input", 0, Head(spi_comms_input_queue)>> \in InputHolds
        /\ InputHolds' \subseteq InputHolds \ {<<"input", 0, Head(spi_comms_input_queue)>>}
    BY <1>1, Leaves DEF InputHolds
  <1> QED BY <1>2 DEF Holdings

(* A longer output queue has the same head.                                  *)
LEMMA EnqueueHead ==
  ASSUME NEW S, NEW q \in Seq(S), NEW e \in S, NEW n, q # <<>>
  PROVE  Enqueue(q, e, n) # <<>> /\ Head(Enqueue(q, e, n)) = Head(q)
  BY DEF Enqueue

LEMMA SpiConsumesRing ==
  ASSUME RingInv, GInv', SpiConsumes
  PROVE  RingInv' /\ SpiPasses
  <1> DEFINE e == Head(spi_comms_input_queue)
             type == content[e.buf].type
             q == IF type \in {"network_info", "from_gdb", "status"}
                  THEN Enqueue(spi_comms_output_queue, e, OutLen)
                  ELSE spi_comms_output_queue
             g == <<"input", 0, e>>
             h == <<"output", 0, e>>
  <1>1. /\ Injective(spi_comms_input_queue') /\ e \in Entries /\ g \in Holdings
        /\ InputHolds' \subseteq InputHolds \ {g}
    BY DispatchLeaves DEF SpiConsumes
  <1>2. /\ spi_comms_output_queue' = q
        /\ UNCHANGED <<attn, tx_saved_transaction>> \/ Announce(q)
        /\ UNCHANGED <<content, trans>>
    BY DEF SpiConsumes, ring
  <1>3. /\ ServerQueueHolds' = ServerQueueHolds /\ SpiHolds' = SpiHolds
        /\ ServerHolds' = ServerHolds /\ WifiHolds' = WifiHolds /\ ClientHolds' = ClientHolds
        /\ Reserved' = Reserved
    BY DEF SpiConsumes, ServerQueueHolds, SpiHolds, ServerHolds, WifiHolds, ClientHolds,
           Reserved, ToRead, ToReceive, Reading, Sending, InQueue, InHand, spiVars,
           serverVars, clientVars, wifiVars
  <1>4. g \notin OutputHolds \cup ServerQueueHolds \cup SpiHolds \cup ServerHolds
                 \cup WifiHolds \cup ClientHolds
    BY DEF OutputHolds, ServerQueueHolds, SpiHolds, ServerHolds, WifiHolds, ClientHolds,
           InQueue, InHand
  <1>5. /\ spi_comms_output_queue \in Seq(Entries) /\ Injective(spi_comms_output_queue)
    BY DEF RingInv, GInv, TypeOK, OnceInQueues
  <1>6. \A m \in Members(spi_comms_output_queue) : m.buf # e.buf
    <2>1. \A x \in Holdings \ {g} : x[3].buf # g[3].buf
      BY <1>1 DEF RingInv, OneHolder
    <2>2. g[3] = e
      OBVIOUS
    <2>3. SUFFICES ASSUME NEW m \in Members(spi_comms_output_queue)
                   PROVE  m.buf # e.buf
      OBVIOUS
    <2> DEFINE x == <<"output", 0, m>>
    <2>4. x \in Holdings /\ x # g /\ x[3] = m
      BY DEF OutputHolds, InQueue, Holdings
    <2> HIDE DEF g, e, x
    <2> QED BY <2>1, <2>2, <2>4
  <1> HIDE DEF e
  <1>7. /\ Injective(q)
        /\ Members(q) \subseteq Members(spi_comms_output_queue) \cup {e}
    BY <1>1, <1>5, <1>6, EnqueueMembers
  <1>8. /\ spi_comms_output_queue # <<>> =>
             q # <<>> /\ Head(q) = Head(spi_comms_output_queue)
        /\ q \in Seq(Entries)
    <2>1. Enqueue(spi_comms_output_queue, e, OutLen) \in Seq(Entries)
      BY <1>1, <1>5 DEF Enqueue
    <2> QED BY <1>1, <1>5, <2>1, EnqueueHead
  <1> HIDE DEF q
  <1>9. OutputHolds' \subseteq OutputHolds \cup {h}
    BY <1>2, <1>7 DEF OutputHolds, InQueue
  <1>10. Holdings' \subseteq (Holdings \ {g}) \cup {h}
    BY <1>1, <1>3, <1>4, <1>9 DEF Holdings
  <1>11. g[3] = e /\ h[3] = e
    OBVIOUS
  <1>12. /\ OneHolder(Holdings') /\ OneWaiter(Reserved') /\ Apart(Holdings', Reserved')
         /\ Kept(Holdings', content')
    <2>1. content[e.buf] = e.packet
      BY <1>1, <1>11 DEF RingInv, Kept
    <2> HIDE DEF g, h
    <2> QED BY <1>1, <1>2, <1>3, <1>10, <1>11, <2>1, MoveStep
  <1>13. OnceInQueues'
    BY <1>1, <1>2, <1>7 DEF OnceInQueues, SpiConsumes, RingInv
  <1>14. SendsFirst'
    <2>1. attn \/ trans.dir = "tx" => spi_comms_output_queue # <<>>
      BY DEF RingInv, GInv, Announced
    <2>2. trans'.dir = "tx" => trans'.buf = Head(q).buf
      BY <1>2, <1>8, <2>1 DEF RingInv, SendsFirst
    <2>3. attn' => tx_saved_transaction' = Head(q).buf
      <3>1. CASE UNCHANGED <<attn, tx_saved_transaction>>
        BY <1>8, <2>1, <3>1 DEF RingInv, SendsFirst
      <3>2. CASE Announce(q) /\ Len(q) = 1
        BY <1>8, <3>2 DEF Announce
      <3> QED BY <1>2, <3>1, <3>2 DEF Announce
    <2> QED BY <1>2, <2>2, <2>3 DEF SendsFirst
  <1>15. SpiPasses
    <2>1. g[1] = "input" /\ h[1] = "output"
      OBVIOUS
    <2>2. content[e.buf] = e.packet
      BY <1>1, <1>11 DEF RingInv, Kept
    <2>3. e.packet.type \notin {"network_info", "from_gdb", "status"}
          => Holdings' \subseteq Holdings \ {g}
      <3>1. e.packet.type \notin {"network_info", "from_gdb", "status"}
            => OutputHolds' = OutputHolds
        BY <1>2, <2>2 DEF q, OutputHolds, InQueue
      <3> QED BY <1>1, <1>3, <1>4, <3>1 DEF Holdings
    <2> HIDE DEF g, h
    <2>4. Moves("input", e, "output", e)
      BY <1>1, <1>10, <1>11, <2>1 DEF Moves
    <2>5. e.packet.type \notin {"network_info", "from_gdb", "status"} => Loses("input", e)
      BY <1>1, <1>11, <2>1, <2>3 DEF Loses
    <2> QED BY <2>4, <2>5 DEF SpiPasses, e
  <1> QED BY <1>12, <1>13, <1>14, <1>15 DEF RingInv

LEMMA SpiToServerRing ==
  ASSUME RingInv, GInv', SpiToServer
  PROVE  RingInv' /\ SpiPasses
  <1> DEFINE e == Head(spi_comms_input_queue)
             f == [e EXCEPT !.packet.type = "to_client"]
             g == <<"input", 0, e>>
             h == <<"spi", 0, f>>
  <1>1. /\ Injective(spi_comms_input_queue') /\ e \in Entries /\ g \in Holdings
        /\ InputHolds' \subseteq InputHolds \ {g}
    BY DispatchLeaves DEF SpiToServer
  <1>2. /\ content' = [content EXCEPT ![e.buf].type = "to_client"]
        /\ spiMessage' = f
    BY DEF SpiToServer
  <1>3. SpiHolds' \subseteq {h}
    BY <1>2 DEF SpiHolds, InHand
  <1>4. /\ OutputHolds' = OutputHolds /\ ServerQueueHolds' = ServerQueueHolds
        /\ ServerHolds' = ServerHolds /\ WifiHolds' = WifiHolds /\ ClientHolds' = ClientHolds
        /\ Reserved' = Reserved
    BY DEF SpiToServer, OutputHolds, ServerQueueHolds, ServerHolds, WifiHolds, ClientHolds,
           Reserved, ToRead, ToReceive, Reading, Sending, InQueue, InHand, line,
           serverVars, clientVars, wifiVars
  <1>5. g \notin OutputHolds \cup ServerQueueHolds \cup ServerHolds
                 \cup WifiHolds \cup ClientHolds
    BY DEF OutputHolds, ServerQueueHolds, ServerHolds, WifiHolds, ClientHolds,
           InQueue, InHand
  <1>6. Holdings' \subseteq (Holdings \ {g}) \cup {h}
    BY <1>1, <1>3, <1>4, <1>5 DEF Holdings
  <1>7. /\ f.buf = e.buf /\ f.packet = [e.packet EXCEPT !.type = "to_client"]
        /\ e.buf \in Buffers
    BY <1>1 DEF Entries
  <1>8. g[3] = e /\ h[3] = f
    OBVIOUS
  <1> HIDE DEF e, f
  <1>9. content[e.buf] = e.packet
    BY <1>1, <1>8 DEF RingInv, Kept
  <1>10. content'[e.buf] = f.packet
    BY <1>2, <1>7, <1>9 DEF RingInv, GInv, TypeOK
  <1> HIDE DEF g, h
  <1>11. \A x \in Holdings \ {g} : content'[x[3].buf] = content[x[3].buf]
    <2>1. \A x \in Holdings \ {g} : x[3].buf # e.buf
      BY <1>1, <1>8 DEF RingInv, OneHolder
    <2> QED BY <1>2, <1>7, <2>1, HoldingsTyped DEF RingInv, GInv, TypeOK
  <1>12. /\ OneHolder(Holdings') /\ OneWaiter(Reserved') /\ Apart(Holdings', Reserved')
         /\ Kept(Holdings', content')
    BY <1>1, <1>4, <1>6, <1>7, <1>8, <1>10, <1>11, MoveStep
  <1>13. SendsFirst' /\ OnceInQueues'
    BY <1>1 DEF SpiToServer, SendsFirst, OnceInQueues, line, RingInv
  <1>14. SpiPasses
    <2>1. e.packet \in Packets /\ e.packet.type = "to_gdb"
      BY <1>1, <1>9, EntryParts DEF SpiToServer, Dispatch, e
    <2>2. g[1] = "input" /\ h[1] = "spi"
      BY DEF g, h
    <2>3. Moves("input", e, "spi", f)
      BY <1>1, <1>6, <1>8, <2>2 DEF Moves
    <2> QED BY <1>1, <2>1, <2>3 DEF SpiPasses, e, f
  <1> QED BY <1>12, <1>13, <1>14 DEF RingInv

LEMMA SpiForwardsRing ==
  ASSUME RingInv, GInv', SpiForwards
  PROVE  RingInv' /\ SpiPasses
  <1> DEFINE e == spiMessage
             g == <<"spi", 0, e>>
             h == <<"server_queue", 0, e>>
  <1>1. /\ e \in Entries /\ e # NONE /\ spiMessage' = NONE
        /\ server_queue' = Append(server_queue, e)
    BY DEF SpiForwards, RingInv, GInv, Pointers
  <1>2. g \in SpiHolds /\ SpiHolds' = {}
    BY <1>1 DEF SpiHolds, InHand
  <1>3. g \in Holdings
    BY <1>2 DEF Holdings
  <1>4. g \notin InputHolds \cup OutputHolds \cup ServerQueueHolds \cup ServerHolds
                 \cup WifiHolds \cup ClientHolds
    BY DEF InputHolds, OutputHolds, ServerQueueHolds, ServerHolds, WifiHolds, ClientHolds,
           InQueue, InHand
  <1>5. g[3] = e /\ h[3] = e
    OBVIOUS
  <1>6. \A m \in Members(server_queue) : m.buf # e.buf
    <2>1. \A x \in Holdings \ {g} : x[3].buf # g[3].buf
      BY <1>3 DEF RingInv, OneHolder
    <2>2. SUFFICES ASSUME NEW m \in Members(server_queue)
                   PROVE  m.buf # e.buf
      OBVIOUS
    <2> DEFINE x == <<"server_queue", 0, m>>
    <2>3. x \in Holdings /\ x # g /\ x[3] = m
      BY DEF ServerQueueHolds, InQueue, Holdings
    <2> HIDE DEF g, e, x
    <2> QED BY <1>5, <2>1, <2>3
  <1>7. /\ Injective(server_queue')
        /\ Members(server_queue') = Members(server_queue) \cup {e}
    <2>1. server_queue \in Seq(Entries) /\ Injective(server_queue)
      BY DEF RingInv, GInv, TypeOK, OnceInQueues
    <2> QED BY <1>1, <1>6, <2>1, AppendMembers
  <1>8. ServerQueueHolds' \subseteq ServerQueueHolds \cup {h}
    BY <1>7 DEF ServerQueueHolds, InQueue
  <1>9. /\ InputHolds' = InputHolds /\ OutputHolds' = OutputHolds
        /\ ServerHolds' = ServerHolds /\ WifiHolds' = WifiHolds /\ ClientHolds' = ClientHolds
        /\ Reserved' = Reserved /\ UNCHANGED content
    BY DEF SpiForwards, InputHolds, OutputHolds, ServerHolds, WifiHolds, ClientHolds,
           Reserved, ToRead, ToReceive, Reading, Sending, InQueue, InHand, ring, line,
           serverVars, clientVars, wifiVars
  <1>10. Holdings' \subseteq (Holdings \ {g}) \cup {h}
    BY <1>2, <1>4, <1>8, <1>9 DEF Holdings
  <1>11. /\ OneHolder(Holdings') /\ OneWaiter(Reserved') /\ Apart(Holdings', Reserved')
         /\ Kept(Holdings', content')
    <2>1. content[e.buf] = e.packet
      BY <1>3, <1>5 DEF RingInv, Kept
    <2> HIDE DEF g, h, e
    <2> QED BY <1>3, <1>5, <1>9, <1>10, <2>1, MoveStep
  <1>12. SendsFirst' /\ OnceInQueues'
    BY <1>7 DEF SpiForwards, SendsFirst, OnceInQueues, line, RingInv
  <1>13. SpiPasses
    <2>1. g[1] = "spi" /\ h[1] = "server_queue"
      OBVIOUS
    <2> HIDE DEF g, h, e
    <2>2. Moves("spi", e, "server_queue", e)
      BY <1>3, <1>5, <1>10, <2>1 DEF Moves
    <2> QED BY <2>2 DEF SpiPasses, e
  <1> QED BY <1>11, <1>12, <1>13 DEF RingInv
-----------------------------------------------------------------------------
LEMMA SelectRing ==
  ASSUME RingInv, GInv', FreeTaken, Select
  PROVE  RingInv' /\ Frees
  <1>1. CASE SelectToRead
    <2>1. Holdings' = Holdings /\ UNCHANGED content
      BY <1>1 DEF SelectToRead, Holdings, InputHolds, OutputHolds, ServerQueueHolds, SpiHolds,
                  ServerHolds, WifiHolds, ClientHolds, Sending, InQueue, InHand, ring, queues,
                  spiVars, serverVars, clientVars, wifiVars
    <2>2. Reserved' \subseteq Reserved
      BY <1>1 DEF SelectToRead, Reserved, ToRead, ToReceive, Reading, clientVars
    <2>3. /\ OneHolder(Holdings') /\ OneWaiter(Reserved') /\ Apart(Holdings', Reserved')
          /\ Kept(Holdings', content')
      BY <2>1, <2>2, ReleaseStep
    <2>4. SendsFirst' /\ OnceInQueues'
      BY <1>1 DEF SelectToRead, SendsFirst, OnceInQueues, queues, RingInv
    <2> QED BY <2>1, <2>3, <2>4 DEF RingInv, Frees
  <1>2. CASE SelectToSend
    <2>1. Holdings' = Holdings /\ UNCHANGED content
      BY <1>2 DEF SelectToSend, Holdings, InputHolds, OutputHolds, ServerQueueHolds, SpiHolds,
                  ServerHolds, WifiHolds, ClientHolds, Sending, InQueue, InHand, queues,
                  spiVars, serverVars, clientVars, wifiVars
    <2>2. Reserved' \subseteq Reserved \cup {<<0, next>>} /\ trans'.dir = "rx" /\ next \notin InUse
      BY <1>2 DEF SelectToSend, Reserved, ToRead, ToReceive, Reading, clientVars, FreeTaken
    <2>3. (\A h \in Holdings : h[3].buf # next) /\ (\A r \in Reserved : r[2] # next)
      BY <2>2, Unused DEF RingInv
    <2>4. /\ OneHolder(Holdings') /\ OneWaiter(Reserved') /\ Apart(Holdings', Reserved')
          /\ Kept(Holdings', content')
      BY <2>1, <2>2, <2>3, ReserveStep
    <2>5. SendsFirst' /\ OnceInQueues'
      BY <1>2, <2>2 DEF SelectToSend, SendsFirst, OnceInQueues, queues, RingInv
    <2> QED BY <2>1, <2>4, <2>5 DEF RingInv, Frees
  <1> QED BY <1>1, <1>2 DEF Select

(* The buffer a reception was armed with becomes an entry.                   *)
LEMMA ReceivesRing ==
  ASSUME RingInv, GInv', NEW p \in Packets, Receives(p)
  PROVE  RingInv' /\ Gains("input", Entry(trans.buf, p))
  <1> DEFINE b == trans.buf
             e == [buf |-> b, packet |-> p]
             h == <<"input", 0, e>>
  <1>1. /\ trans.dir = "rx" /\ b \in Buffers /\ e \in Entries /\ ToSpi(e)
        /\ content' = [content EXCEPT ![b] = p] /\ trans'.dir = "no" /\ ~attn'
    BY EntryOf DEF Receives, RingInv, GInv, TypeOK, Idle
  <1>2. <<0, b>> \in Reserved
    BY <1>1 DEF Reserved, ToReceive
  <1>3. \A x \in Holdings : x[3].buf # b
    BY <1>2 DEF RingInv, Apart
  <1>4. \A r \in Reserved' : r \in Reserved /\ r # <<0, b>>
    BY <1>1 DEF Receives, Reserved, ToRead, ToReceive, Reading, clientVars, Conns
  <1>5. \A r \in Reserved' : r[2] # b
    BY <1>2, <1>4 DEF RingInv, OneWaiter
  <1>6. h[3].buf = b /\ h[3].packet = p /\ e.buf = b
    OBVIOUS
  <1>7. /\ Injective(spi_comms_input_queue') /\ InputHolds' \subseteq InputHolds \cup {h}
    <2>1. \A x \in InputHolds : x[3].buf # e.buf
      BY <1>3, <1>6 DEF Holdings
    <2> HIDE DEF e
    <2> QED BY <1>1, <2>1, Posts
  <1>8. /\ OutputHolds' = OutputHolds /\ ServerQueueHolds' = ServerQueueHolds
        /\ SpiHolds' = SpiHolds /\ ServerHolds' = ServerHolds /\ WifiHolds' = WifiHolds
        /\ ClientHolds' = ClientHolds
    BY DEF Receives, OutputHolds, ServerQueueHolds, SpiHolds, ServerHolds, WifiHolds,
           ClientHolds, Sending, InQueue, InHand, spiVars, serverVars, clientVars, wifiVars
  <1>9. Holdings' \subseteq Holdings \cup {h}
    BY <1>7, <1>8 DEF Holdings
  <1>10. /\ content'[b] = p
         /\ \A x \in Holdings : content'[x[3].buf] = content[x[3].buf]
    BY <1>1, <1>3, HoldingsTyped DEF RingInv, GInv, TypeOK
  <1>11. /\ OneHolder(Holdings') /\ OneWaiter(Reserved') /\ Apart(Holdings', Reserved')
         /\ Kept(Holdings', content')
    <2> HIDE DEF h, b, e
    <2> QED BY <1>3, <1>4, <1>5, <1>6, <1>9, <1>10, RingStep
  <1>12. SendsFirst' /\ OnceInQueues'
    BY <1>1, <1>7 DEF Receives, SendsFirst, OnceInQueues, RingInv
  <1>13. Gains("input", e)
    <2>1. h[1] = "input" /\ h[3] = e
      OBVIOUS
    <2> HIDE DEF h, e
    <2> QED BY <1>9, <2>1 DEF Gains
  <1> QED BY <1>11, <1>12, <1>13 DEF RingInv, Entry

(* The entry that was sent is removed, and the completion may be in its      *)
(* buffer.                                                                   *)
LEMMA TransmittedRing ==
  ASSUME RingInv, GInv', FreeTaken, Transmitted
  PROVE  RingInv' /\ TransferPasses
  <1> DEFINE p == Packet("completed", 0)
             e == Built(p)
             h == <<"input", 0, e>>
             s == Head(spi_comms_output_queue)
             g == <<"output", 0, s>>
             G == Holdings \ {g}
  <1>1. /\ p \in Packets /\ next \in Buffers /\ next \notin InUse \ {trans.buf}
        /\ e \in Entries /\ e.buf = next /\ e.packet = p
    BY Builds, BuiltTyped DEF FreeTaken, RingInv, GInv, TypeOK, Built
  <1>2. /\ trans.dir = "tx" /\ spi_comms_output_queue # <<>> /\ trans.buf = s.buf
        /\ spi_comms_output_queue' = Tail(spi_comms_output_queue)
        /\ Build(p) /\ ToSpi(e) /\ trans'.dir = "no" /\ ~attn'
    BY DEF Transmitted, RingInv, GInv, Announced, SendsFirst, Idle
  <1>3. /\ Injective(spi_comms_output_queue') /\ g \in OutputHolds
        /\ OutputHolds' \subseteq OutputHolds \ {g}
    <2>1. spi_comms_output_queue \in Seq(Entries) /\ Injective(spi_comms_output_queue)
      BY DEF RingInv, GInv, TypeOK, OnceInQueues
    <2> QED BY <1>2, <2>1, Leaves DEF OutputHolds
  <1>4. g \in Holdings /\ g[3] = s /\ h[3] = e
    BY <1>3 DEF Holdings
  <1> HIDE DEF e, s, p
  <1>5. \A x \in G : x[3].buf # next
    <2>1. \A x \in G : x[3].buf # trans.buf
      BY <1>2, <1>4 DEF RingInv, OneHolder
    <2>2. next \notin InUse => \A x \in G : x[3].buf # next
      BY Unused DEF RingInv
    <2> QED BY <1>1, <2>1, <2>2
  <1>6. \A r \in Reserved : r[2] # next
    <2>1. \A r \in Reserved : r[2] # trans.buf
      BY <1>2, <1>4 DEF RingInv, Apart
    <2>2. next \notin InUse => \A r \in Reserved : r[2] # next
      BY Unused DEF RingInv
    <2> QED BY <1>1, <2>1, <2>2
  <1>7. g \notin InputHolds \cup ServerQueueHolds \cup SpiHolds \cup ServerHolds
                 \cup WifiHolds \cup ClientHolds
    BY DEF InputHolds, ServerQueueHolds, SpiHolds, ServerHolds, WifiHolds, ClientHolds,
           InQueue, InHand
  <1>8. /\ Injective(spi_comms_input_queue') /\ InputHolds' \subseteq InputHolds \cup {h}
    <2>1. \A x \in InputHolds : x[3].buf # e.buf
      BY <1>1, <1>5, <1>7 DEF Holdings
    <2> QED BY <1>1, <1>2, <2>1, Posts
  <1>9. /\ ServerQueueHolds' = ServerQueueHolds
        /\ SpiHolds' = SpiHolds /\ ServerHolds' = ServerHolds /\ WifiHolds' = WifiHolds
        /\ ClientHolds' = ClientHolds
    BY DEF Transmitted, ServerQueueHolds, SpiHolds, ServerHolds, WifiHolds,
           ClientHolds, Sending, InQueue, InHand, spiVars, serverVars, clientVars, wifiVars
  <1>10. Holdings' \subseteq G \cup {h}
    BY <1>3, <1>7, <1>8, <1>9 DEF Holdings
  <1>11. Reserved' \subseteq Reserved
    BY <1>2 DEF Transmitted, Reserved, ToRead, ToReceive, Reading, clientVars
  <1>12. /\ content'[next] = p
         /\ \A x \in G : content'[x[3].buf] = content[x[3].buf]
    BY <1>1, <1>2, <1>5, HoldingsTyped DEF Build, RingInv, GInv, TypeOK
  <1>13. /\ OneHolder(Holdings') /\ OneWaiter(Reserved') /\ Apart(Holdings', Reserved')
         /\ Kept(Holdings', content')
    <2>1. G \subseteq Holdings /\ h[3].buf = next /\ h[3].packet = p
      BY <1>1, <1>4
    <2> HIDE DEF h, g, G
    <2> QED BY <1>5, <1>6, <1>10, <1>11, <1>12, <2>1, RingStep
  <1>14. SendsFirst' /\ OnceInQueues'
    BY <1>2, <1>3, <1>8 DEF Transmitted, SendsFirst, OnceInQueues, RingInv
  <1>15. TransferPasses
    <2>1. content[trans.buf] = s.packet
      BY <1>2, <1>4 DEF RingInv, Kept
    <2>2. g[1] = "output" /\ h[1] = "input"
      OBVIOUS
    <2> HIDE DEF g, h
    <2>3. Moves("output", s, "input", e)
      BY <1>4, <1>10, <2>2 DEF Moves
    <2> QED BY <1>2, <2>1, <2>3 DEF TransferPasses, p, e, s
  <1> QED BY <1>13, <1>14, <1>15 DEF RingInv

LEMMA TransferRing ==
  ASSUME RingInv, GInv', FreeTaken, Transfer
  PROVE  RingInv' /\ TransferPasses
  <1>1. CASE Answer
    <2>1. delivered \in Seq(Ids) /\ answered \in Nat /\ answered < Len(delivered)
      BY <1>1 DEF Answer, CanAnswer, RingInv, GInv, TypeOK
    <2>2. Packet("to_gdb", delivered[answered + 1]) \in Packets
      <3>1. delivered[answered + 1] \in Ids
        BY <2>1
      <3> QED BY <3>1, PacketTyped DEF Types
    <2> QED BY <1>1, <2>2, ReceivesRing DEF Answer, TransferPasses
  <1>2. CASE SendMore
    BY <1>2, Builds, ReceivesRing DEF SendMore, TransferPasses
  <1>3. CASE Transmitted
    BY <1>3, TransmittedRing
  <1> QED BY <1>1, <1>2, <1>3 DEF Transfer

(* The tasks of connections to come do not exist yet.                       *)
NotStarted == \A k \in Conns : k > conns => client[k] = "none"

LEMMA NotStartedInit == Init => NotStarted
  BY DEF Init, NotStarted

LEMMA NotStartedNext == GInv /\ NotStarted /\ [Next]_vars => NotStarted'
  <1> SUFFICES ASSUME GInv, NotStarted, [Next]_vars PROVE NotStarted'
    OBVIOUS
  <1>0. /\ client \in [Conns -> {"none", "hello", "take", "read", "package", "post",
                                "bye", "report", "deleted"}]
        /\ conns \in Nat
    BY DEF GInv, TypeOK
  <1>1. ASSUME NEW k \in Conns, Client(k) PROVE NotStarted'
    <2>1. /\ conns' = conns /\ client[k] # "none"
          /\ \A j \in Conns \ {k} : client'[j] = client[j]
      BY <1>0, <1>1 DEF Client, SendConnected, ClientTakes, ClientReads, ClientPackages,
                       ClientPosts, ClientEnds, SendClosed, SendDisconnected, ClientAt, peerVars
    <2> QED BY <2>1 DEF NotStarted
  <1>2. CASE Accept
    BY <1>0, <1>2 DEF Accept, NotStarted, Conns
  <1>3. CASE UNCHANGED <<client, conns>>
    BY <1>3 DEF NotStarted
  <1>4. Server \/ Wifi \/ Spi \/ Select \/ Transfer \/ AcceptFails \/ Request \/ Leave \/ UNCHANGED vars
        => UNCHANGED <<client, conns>>
    BY DEF Server, ServerReceives, ServerSends, Wifi, WifiConnected, WifiReports, Spi,
           SpiConsumes, SpiToServer, SpiForwards, Select, SelectToRead, SelectToSend,
           Transfer, Answer, SendMore, Receives, Transmitted, AcceptFails, Request, Leave, vars,
           clientVars, peerVars
  <1> QED BY <1>1, <1>2, <1>3, <1>4 DEF Next

LEMMA NetworkRing ==
  ASSUME RingInv, NotStarted, GInv', Accept \/ AcceptFails \/ Request \/ Leave \/ UNCHANGED vars
  PROVE  RingInv' /\ Frees
  <1>1. /\ UNCHANGED <<ring, queues, line, spiMessage, serverMessage, clientEntry, wifiEntry>>
        /\ Reading' = Reading /\ Sending' = Sending
    <2>1. CASE Accept
      <3>1. /\ client' \in {client, [client EXCEPT ![conns + 1] = "hello"]}
            /\ UNCHANGED <<ring, queues, line, spiMessage, serverMessage, clientEntry, wifiEntry>>
        BY <2>1 DEF Accept, spiVars, wifiVars
      <3>2. conns + 1 \in Conns /\ client[conns + 1] = "none"
        BY <2>1 DEF RingInv, GInv, TypeOK, Accept, NotStarted, Conns
      <3>3. \A k \in Conns : client'[k] = client[k] \/ {client[k], client'[k]} = {"none", "hello"}
        BY <3>1, <3>2 DEF RingInv, GInv, TypeOK
      <3> QED BY <3>1, <3>3 DEF Reading, Sending
    <2>2. CASE AcceptFails \/ Request \/ Leave \/ UNCHANGED vars
      BY <2>2 DEF AcceptFails, Request, Leave, vars, Reading, Sending, clientVars, serverVars, spiVars,
                  wifiVars
    <2> QED BY <2>1, <2>2
  <1>2. Holdings' = Holdings /\ Reserved' = Reserved /\ UNCHANGED content
    BY <1>1 DEF Holdings, InputHolds, OutputHolds, ServerQueueHolds, SpiHolds, ServerHolds,
                WifiHolds, ClientHolds, Reserved, ToRead, ToReceive, InQueue, InHand, ring,
                queues, line
  <1>3. /\ OneHolder(Holdings') /\ OneWaiter(Reserved') /\ Apart(Holdings', Reserved')
        /\ Kept(Holdings', content')
    BY <1>2, ReleaseStep
  <1>4. SendsFirst' /\ OnceInQueues'
    BY <1>1 DEF SendsFirst, OnceInQueues, queues, line, RingInv
  <1> QED BY <1>2, <1>3, <1>4 DEF RingInv, Frees

LEMMA RingNext == RingInv /\ NotStarted /\ [Next]_vars /\ [FreeTaken]_vars => RingInv'
  <1> SUFFICES ASSUME RingInv, NotStarted, [Next]_vars, [FreeTaken]_vars PROVE RingInv'
    OBVIOUS
  <1>1. GInv'
    BY Inductive DEF RingInv
  <1>2. CASE UNCHANGED vars
    BY <1>1, <1>2, NetworkRing
  <1>3. CASE Next /\ FreeTaken
    BY <1>1, <1>3, ClientRing, ServerRing, WifiRing, SpiConsumesRing, SpiToServerRing,
       SpiForwardsRing, SelectRing, TransferRing, NetworkRing DEF Next, Spi
  <1> QED BY <1>2, <1>3

LEMMA RingHolds == Spec /\ NeverTakenInUse => [](RingInv /\ NotStarted)
  <1>1. Init => RingInv /\ NotStarted
    BY RingInit, NotStartedInit
  <1>2. RingInv /\ NotStarted /\ [Next]_vars /\ [FreeTaken]_vars => (RingInv /\ NotStarted)'
    BY RingNext, NotStartedNext DEF RingInv
  <1> QED BY <1>1, <1>2, PTL DEF Spec, NeverTakenInUse

(* A packet is intact for as long as anybody has its buffer, for every ring, *)
(* all lengths of the queues, any number of connections and requests in      *)
(* flight, if only no buffer is taken that is in use: the order in which the *)
(* tasks and the handlers pass buffers on can spoil nothing.                 *)
THEOREM KeepsIntact == Spec /\ NeverTakenInUse => []Intact
  <1>1. RingInv => Intact
    BY KeptIsIntact DEF RingInv
  <1> QED BY <1>1, RingHolds, PTL
-----------------------------------------------------------------------------
(* Then every packet is where its type belongs, framed before it is queued.  *)
Belongs(place) ==
  IF place = "input" THEN {"network_info", "status", "from_gdb", "to_gdb", "completed"}
  ELSE IF place = "output" THEN {"network_info", "status", "from_gdb"}
  ELSE IF place = "server_queue" THEN {"to_client", "command"}
  ELSE IF place \in {"spi", "server"} THEN {"to_client"}
  ELSE IF place = "wifi" THEN {"network_info"}
  ELSE {"raw", "from_gdb"}
InPlace == \A h \in Holdings : h[3].packet.type \in Belongs(h[1])
Packaged == \A k \in Conns : client[k] = "post" => clientEntry[k].packet.type = "from_gdb"
Routed == InPlace /\ Packaged /\ AssertHolds

LEMMA FreesInPlace ==
  ASSUME InPlace, Frees
  PROVE  InPlace'
  BY DEF InPlace, Frees

LEMMA LosesInPlace ==
  ASSUME InPlace, NEW from, NEW e, Loses(from, e)
  PROVE  InPlace'
  BY DEF InPlace, Loses

LEMMA GainsInPlace ==
  ASSUME InPlace, NEW to, NEW f, Gains(to, f), f.packet.type \in Belongs(to)
  PROVE  InPlace'
  <1>1. PICK h : h[1] = to /\ h[3] = f /\ Holdings' \subseteq Holdings \cup {h}
    BY DEF Gains
  <1>2. h[3].packet.type \in Belongs(h[1])
    BY <1>1
  <1> QED BY <1>1, <1>2 DEF InPlace

LEMMA MovesInPlace ==
  ASSUME InPlace, NEW from, NEW e, NEW to, NEW f, Moves(from, e, to, f),
         e.packet.type \in Belongs(from) => f.packet.type \in Belongs(to)
  PROVE  InPlace'
  <1>1. PICK g, h : /\ g \in Holdings /\ g[1] = from /\ g[3] = e /\ h[1] = to /\ h[3] = f
                    /\ Holdings' \subseteq (Holdings \ {g}) \cup {h}
    BY DEF Moves
  <1>2. g[3].packet.type \in Belongs(g[1])
    BY <1>1 DEF InPlace
  <1>3. h[3].packet.type \in Belongs(h[1])
    BY <1>1, <1>2
  <1> QED BY <1>1, <1>3 DEF InPlace

(* The types of what is built, and of a packet whose type is changed.        *)
LEMMA TypeOfBuilt ==
  /\ \A t \in Types, i \in Ids : Built(Packet(t, i)).packet.type = t
  /\ \A t \in Types : \A b, i : Entry(b, Packet(t, i)).packet.type = t
  BY DEF Built, Packet, Entry

LEMMA TypeRetyped ==
  ASSUME NEW e \in Entries, NEW t \in Types
  PROVE  [e EXCEPT !.packet.type = t].packet.type = t
  BY DEF Entries, Packets

LEMMA ClientRouted ==
  ASSUME GInv, Routed, NEW k \in Conns, Client(k), ClientPasses(k)
  PROVE  Routed'
  <1>1. /\ client \in [Conns -> {"none", "hello", "take", "read", "package", "post",
                                 "bye", "report", "deleted"}]
        /\ clientEntry \in [Conns -> Entries \cup {NONE}]
        /\ client[k] \in {"package", "post"} => clientEntry[k] \in Entries
    BY DEF GInv, TypeOK, Pointers
  <1>2. AssertHolds'
    BY DEF Client, SendConnected, ClientTakes, ClientReads, ClientPackages, ClientPosts,
           ClientEnds, SendClosed, SendDisconnected, serverVars, Routed, AssertHolds
  <1>3. InPlace'
    <2>1. CASE /\ SendConnected(k) \/ SendDisconnected(k)
               /\ \E i \in Ids : Gains("input", Built(Packet("status", i)))
      <3>1. PICK i \in Ids : Gains("input", Built(Packet("status", i)))
        BY <2>1
      <3> QED BY <3>1, TypeOfBuilt, GainsInPlace DEF Routed, Types, Belongs
    <2>2. CASE (ClientTakes(k) \/ ClientEnds(k)) /\ Frees
      BY <2>2, FreesInPlace DEF Routed
    <2>3. CASE ClientReads(k) /\ Gains("client", Entry(clientEntry[k].buf, Packet("raw", sent)))
      BY <2>3, TypeOfBuilt, GainsInPlace DEF Routed, Types, Belongs
    <2>4. CASE /\ ClientPackages(k)
               /\ Moves("client", clientEntry[k], "client",
                        [clientEntry[k] EXCEPT !.packet.type = "from_gdb"])
      <3> DEFINE f == [clientEntry[k] EXCEPT !.packet.type = "from_gdb"]
      <3>1. f.packet.type = "from_gdb"
        BY <1>1, <2>4, TypeRetyped DEF ClientPackages, ClientAt, Types
      <3>2. Moves("client", clientEntry[k], "client", f)
        BY <2>4
      <3> HIDE DEF f
      <3>3. f.packet.type \in Belongs("client")
        BY <3>1 DEF Belongs
      <3> QED BY <3>2, <3>3, MovesInPlace DEF Routed
    <2>5. CASE ClientPosts(k) /\ Moves("client", clientEntry[k], "input", clientEntry[k])
      <3>1. clientEntry[k].packet.type = "from_gdb"
        BY <2>5 DEF ClientPosts, ClientAt, Routed, Packaged
      <3> QED BY <2>5, <3>1, MovesInPlace DEF Routed, Belongs
    <2>6. CASE SendClosed(k) /\ Gains("server_queue", Built(Packet("command", 0)))
      BY <2>6, TypeOfBuilt, ZeroId, GainsInPlace DEF Routed, Types, Belongs
    <2> QED BY <2>1, <2>2, <2>3, <2>4, <2>5, <2>6 DEF ClientPasses
  <1>4. Packaged'
    <2>1. ASSUME NEW j \in Conns, j # k
          PROVE  client'[j] = client[j] /\ clientEntry'[j] = clientEntry[j]
      BY <1>1, <2>1 DEF Client, SendConnected, ClientTakes, ClientReads, ClientPackages,
             ClientPosts, ClientEnds, SendClosed, SendDisconnected, ClientAt
    <2>2. CASE ClientPackages(k)
      <3>1. clientEntry[k] \in Entries
        BY <1>1, <2>2 DEF ClientPackages, ClientAt
      <3>2. clientEntry'[k] = [clientEntry[k] EXCEPT !.packet.type = "from_gdb"]
        BY <1>1, <2>2 DEF ClientPackages
      <3>3. clientEntry'[k].packet.type = "from_gdb"
        BY <3>1, <3>2, TypeRetyped DEF Types
      <3> QED BY <2>1, <3>3 DEF Routed, Packaged
    <2>3. CASE ~ClientPackages(k)
      <3>1. client'[k] # "post"
        BY <1>1, <2>3 DEF Client, SendConnected, ClientTakes, ClientReads, ClientPosts,
               ClientEnds, SendClosed, SendDisconnected, ClientAt
      <3> QED BY <2>1, <3>1 DEF Routed, Packaged
    <2> QED BY <2>2, <2>3
  <1> QED BY <1>2, <1>3, <1>4 DEF Routed

LEMMA ServerRouted ==
  ASSUME RingInv, Routed, Server, ServerPasses
  PROVE  Routed'
  <1>1. Packaged'
    BY DEF Server, ServerReceives, ServerSends, clientVars, Routed, Packaged
  <1>2. CASE /\ ServerReceives
             /\ LET e == Head(server_queue)
                IN IF e.packet.type = "to_client" THEN Moves("server_queue", e, "server", e)
                                                  ELSE Loses("server_queue", e)
    <2> DEFINE e == Head(server_queue)
               g == <<"server_queue", 0, e>>
    <2>1. InPlace'
      <3> HIDE DEF e
      <3>1. IF e.packet.type = "to_client" THEN Moves("server_queue", e, "server", e)
                                           ELSE Loses("server_queue", e)
        BY <1>2 DEF e
      <3> QED BY <3>1, MovesInPlace, LosesInPlace DEF Routed, Belongs
    <2>2. server_queue \in Seq(Entries) /\ server_queue # <<>> /\ Injective(server_queue)
      BY <1>2 DEF ServerReceives, RingInv, GInv, TypeOK, OnceInQueues
    <2>3. g \in Holdings
      BY <2>2, Leaves DEF ServerQueueHolds, Holdings
    <2>4. g[1] = "server_queue" /\ g[3] = e
      OBVIOUS
    <2>5. content[e.buf].type \in {"to_client", "command"}
      <3> HIDE DEF e, g
      <3>1. content[e.buf] = e.packet /\ e.packet.type \in Belongs("server_queue")
        BY <2>3, <2>4 DEF RingInv, Kept, Routed, InPlace
      <3> QED BY <3>1 DEF Belongs
    <2>6. AssertHolds'
      BY <1>2, <2>5 DEF ServerReceives, AssertHolds
    <2> QED BY <1>1, <2>1, <2>6 DEF Routed
  <1>3. CASE ServerSends /\ serverMessage \in Entries /\ Loses("server", serverMessage)
    <2>1. AssertHolds'
      BY <1>3 DEF ServerSends, AssertHolds
    <2> QED BY <1>1, <1>3, <2>1, LosesInPlace DEF Routed
  <1> QED BY <1>2, <1>3 DEF ServerPasses

LEMMA SpiRouted ==
  ASSUME GInv, Routed, Spi, SpiPasses
  PROVE  Routed'
  <1>1. Packaged' /\ AssertHolds'
    BY DEF Spi, SpiConsumes, SpiToServer, SpiForwards, clientVars, serverVars, Routed,
           Packaged, AssertHolds
  <1> DEFINE e == Head(spi_comms_input_queue)
  <1>2. CASE /\ SpiConsumes
             /\ IF e.packet.type \in {"network_info", "from_gdb", "status"}
                THEN Moves("input", e, "output", e) ELSE Loses("input", e)
    <2>1. InPlace'
      <3> HIDE DEF e
      <3> QED BY <1>2, MovesInPlace, LosesInPlace DEF Routed, Belongs
    <2> QED BY <1>1, <2>1 DEF Routed
  <1>3. CASE /\ SpiToServer /\ e \in Entries /\ e.packet.type = "to_gdb"
             /\ Moves("input", e, "spi", [e EXCEPT !.packet.type = "to_client"])
    <2>1. InPlace'
      <3> HIDE DEF e
      <3> DEFINE f == [e EXCEPT !.packet.type = "to_client"]
      <3>1. f.packet.type = "to_client"
        BY <1>3, TypeRetyped DEF Types
      <3>2. Moves("input", e, "spi", f)
        BY <1>3
      <3> HIDE DEF f
      <3>3. f.packet.type \in Belongs("spi")
        BY <3>1 DEF Belongs
      <3> QED BY <3>2, <3>3, MovesInPlace DEF Routed
    <2> QED BY <1>1, <2>1 DEF Routed
  <1>4. CASE SpiForwards /\ Moves("spi", spiMessage, "server_queue", spiMessage)
    <2>1. InPlace'
      BY <1>4, MovesInPlace DEF Routed, Belongs
    <2> QED BY <1>1, <2>1 DEF Routed
  <1> QED BY <1>2, <1>3, <1>4 DEF SpiPasses

LEMMA WifiRouted ==
  ASSUME Routed, Wifi, WifiPasses
  PROVE  Routed'
  <1>1. Packaged' /\ AssertHolds'
    BY DEF Wifi, WifiConnected, WifiReports, clientVars, serverVars, Routed, Packaged,
           AssertHolds
  <1>2. CASE WifiConnected /\ Gains("wifi", Built(Packet("network_info", 0)))
    <2>1. InPlace'
      BY <1>2, TypeOfBuilt, ZeroId, GainsInPlace DEF Routed, Types, Belongs
    <2> QED BY <1>1, <2>1 DEF Routed
  <1>3. CASE WifiReports /\ Moves("wifi", wifiEntry, "input", wifiEntry)
    <2>1. InPlace'
      BY <1>3, MovesInPlace DEF Routed, Belongs
    <2> QED BY <1>1, <2>1 DEF Routed
  <1> QED BY <1>2, <1>3 DEF WifiPasses

LEMMA TransferRouted ==
  ASSUME GInv, Routed, Transfer, TransferPasses
  PROVE  Routed'
  <1>1. Packaged' /\ AssertHolds'
    BY DEF Transfer, Answer, SendMore, Receives, Transmitted, clientVars, serverVars, Routed,
           Packaged, AssertHolds
  <1>2. CASE Answer /\ Gains("input", Entry(trans.buf, Packet("to_gdb", delivered[answered + 1])))
    BY <1>1, <1>2, TypeOfBuilt, GainsInPlace DEF Routed, Types, Belongs
  <1>3. CASE SendMore /\ Gains("input", Entry(trans.buf, Packet("to_gdb", 0)))
    BY <1>1, <1>3, TypeOfBuilt, GainsInPlace DEF Routed, Types, Belongs
  <1>4. ASSUME NEW e, Moves("output", e, "input", Built(Packet("completed", 0)))
        PROVE  Routed'
    <2>1. Built(Packet("completed", 0)).packet.type \in Belongs("input")
      BY TypeOfBuilt, ZeroId DEF Types, Belongs
    <2>2. InPlace'
      BY <1>4, <2>1, MovesInPlace DEF Routed
    <2> QED BY <1>1, <2>2 DEF Routed
  <1> QED BY <1>2, <1>3, <1>4 DEF TransferPasses

LEMMA OtherRouted ==
  ASSUME GInv, Routed, Select \/ Accept \/ AcceptFails \/ Request \/ Leave \/ UNCHANGED vars, Frees
  PROVE  Routed'
  <1>1. InPlace'
    BY FreesInPlace DEF Routed
  <1>2. CASE Accept
    <2>1. \A k \in Conns : client'[k] \in {client[k], "hello"} /\ clientEntry'[k] = clientEntry[k]
      BY <1>2 DEF Accept, GInv, TypeOK
    <2>2. Packaged' /\ AssertHolds'
      BY <1>2, <2>1 DEF Accept, Routed, Packaged, AssertHolds
    <2> QED BY <1>1, <2>2 DEF Routed
  <1>3. CASE Select \/ AcceptFails \/ Request \/ Leave \/ UNCHANGED vars
    <2>1. Packaged' /\ AssertHolds'
      BY <1>3 DEF Select, SelectToRead, SelectToSend, AcceptFails, Request, Leave, vars, clientVars,
             serverVars, Routed, Packaged, AssertHolds
    <2> QED BY <1>1, <2>1 DEF Routed
  <1> QED BY <1>2, <1>3

LEMMA RoutedNext ==
  RingInv /\ NotStarted /\ Routed /\ [Next]_vars /\ [FreeTaken]_vars => Routed'
  <1> SUFFICES ASSUME RingInv, NotStarted, Routed, [Next]_vars, [FreeTaken]_vars
               PROVE  Routed'
    OBVIOUS
  <1>0. GInv /\ GInv'
    BY Inductive DEF RingInv
  <1>1. CASE Accept \/ AcceptFails \/ Request \/ Leave \/ UNCHANGED vars
    <2>1. Frees
      BY <1>0, <1>1, NetworkRing
    <2> QED BY <1>0, <1>1, <2>1, OtherRouted
  <1>2. ASSUME Next, FreeTaken, ~(Accept \/ AcceptFails \/ Request \/ Leave)
        PROVE  Routed'
    <2>1. ASSUME NEW k \in Conns, Client(k) PROVE Routed'
      BY <1>0, <1>2, <2>1, ClientRing, ClientRouted
    <2>2. CASE Server
      BY <1>0, <2>2, ServerRing, ServerRouted
    <2>3. CASE Wifi
      BY <1>0, <1>2, <2>3, WifiRing, WifiRouted
    <2>4. CASE Spi
      BY <1>0, <2>4, SpiConsumesRing, SpiToServerRing, SpiForwardsRing, SpiRouted DEF Spi
    <2>5. CASE Select
      BY <1>0, <1>2, <2>5, SelectRing, OtherRouted
    <2>6. CASE Transfer
      BY <1>0, <1>2, <2>6, TransferRing, TransferRouted
    <2> QED BY <1>2, <2>1, <2>2, <2>3, <2>4, <2>5, <2>6 DEF Next
  <1> QED BY <1>1, <1>2

LEMMA RoutedInit == Init => Routed
  <1> SUFFICES ASSUME Init PROVE Routed
    OBVIOUS
  <1>1. Sending = {} /\ Members(<<>>) = {}
    BY DEF Init, Sending, Members
  <1>2. Holdings = {}
    BY <1>1 DEF Init, Holdings, InputHolds, OutputHolds, ServerQueueHolds, SpiHolds,
                ServerHolds, WifiHolds, ClientHolds, InQueue, InHand
  <1> QED BY <1>2 DEF Init, Routed, InPlace, Packaged, AssertHolds

(* The server never stops in its assertion that a message is framed          *)
(* (task_server.cpp:128), whatever clients and ctxLink send, unless a buffer *)
(* was taken that is in use: nothing else can put an unframed packet into    *)
(* the server's queue.                                                       *)
THEOREM NeverAsserts == Spec /\ NeverTakenInUse => []AssertHolds
  <1>1. Init => Routed
    BY RoutedInit
  <1>2. RingInv /\ NotStarted /\ Routed /\ [Next]_vars /\ [FreeTaken]_vars => Routed'
    BY RoutedNext
  <1>3. Routed => AssertHolds
    BY DEF Routed
  <1> QED BY <1>1, <1>2, <1>3, RingHolds, PTL DEF Spec, NeverTakenInUse
-----------------------------------------------------------------------------
(* With one request open at a time there is one request on its way to        *)
(* ctxLink, or one answer on its way back.                                   *)
IsRequest(p) == p.type \in {"raw", "from_gdb"}
IsReply(p)   == p.type \in {"to_gdb", "to_client"} /\ p.id # 0

Counters == /\ Len(returned) <= answered /\ answered <= Len(delivered)
            /\ Len(delivered) <= sent /\ sent <= Len(returned) + 1

InOrder == /\ \A i \in DOMAIN delivered : delivered[i] = i
           /\ \A i \in DOMAIN returned : returned[i] = i

Requests ==
  /\ unread => sent = Len(delivered) + 1
  /\ \A h \in Holdings : IsRequest(h[3].packet)
       => h[3].packet.id = sent /\ sent = Len(delivered) + 1 /\ ~unread
  /\ \A g, h \in Holdings : IsRequest(g[3].packet) /\ IsRequest(h[3].packet) => g = h

Replies ==
  /\ \A h \in Holdings : IsReply(h[3].packet)
       => h[3].packet.id = answered /\ answered = Len(returned) + 1
  /\ \A g, h \in Holdings : IsReply(g[3].packet) /\ IsReply(h[3].packet) => g = h

(* What a client task will post is a request, what the server will send is   *)
(* for its client.                                                           *)
ByPlace == /\ \A k \in Sending : IsRequest(clientEntry[k].packet)
           /\ serverMessage # NONE => serverMessage.packet.type = "to_client"

Tokens == Counters /\ InOrder /\ Requests /\ Replies /\ ByPlace
-----------------------------------------------------------------------------
LEMMA CountersTyped ==
  ASSUME GInv
  PROVE  /\ Len(delivered) \in Nat /\ Len(returned) \in Nat /\ sent \in Nat
         /\ answered \in Nat /\ DOMAIN delivered = 1..Len(delivered)
         /\ DOMAIN returned = 1..Len(returned) /\ unread \in BOOLEAN
  BY Product DEF GInv, TypeOK

(* A holding changes hands, or one that is neither begins.                   *)
LEMMA TokensKeep ==
  ASSUME Requests, Replies, UNCHANGED <<sent, unread, delivered, answered, returned>>,
         NEW G, NEW h, G \subseteq Holdings, Holdings' \subseteq G \cup {h},
         IsRequest(h[3].packet) =>
           \E g \in Holdings \ G : IsRequest(g[3].packet) /\ g[3].packet.id = h[3].packet.id,
         IsReply(h[3].packet) =>
           \E g \in Holdings \ G : IsReply(g[3].packet) /\ g[3].packet.id = h[3].packet.id
  PROVE  Requests' /\ Replies'
  <1>1. Requests'
    <2>1. ASSUME NEW x \in Holdings', IsRequest(x[3].packet)
          PROVE  x[3].packet.id = sent /\ sent = Len(delivered) + 1 /\ ~unread
      BY <2>1 DEF Requests
    <2>2. ASSUME NEW x \in Holdings', NEW y \in Holdings',
                 IsRequest(x[3].packet), IsRequest(y[3].packet)
          PROVE  x = y
      BY <2>2 DEF Requests
    <2> QED BY <2>1, <2>2 DEF Requests
  <1>2. Replies'
    <2>1. ASSUME NEW x \in Holdings', IsReply(x[3].packet)
          PROVE  x[3].packet.id = answered /\ answered = Len(returned) + 1
      BY <2>1 DEF Replies
    <2>2. ASSUME NEW x \in Holdings', NEW y \in Holdings',
                 IsReply(x[3].packet), IsReply(y[3].packet)
          PROVE  x = y
      BY <2>2 DEF Replies
    <2> QED BY <2>1, <2>2 DEF Replies
  <1> QED BY <1>1, <1>2

LEMMA FreesKeeps ==
  ASSUME Requests, Replies, UNCHANGED <<sent, unread, delivered, answered, returned>>, Frees
  PROVE  Requests' /\ Replies'
  BY DEF Requests, Replies, Frees

LEMMA MovesKeeps ==
  ASSUME Requests, Replies, UNCHANGED <<sent, unread, delivered, answered, returned>>,
         NEW from, NEW e, NEW to, NEW f, Moves(from, e, to, f), e.packet.id = f.packet.id,
         IsRequest(f.packet) => IsRequest(e.packet), IsReply(f.packet) => IsReply(e.packet)
  PROVE  Requests' /\ Replies'
  <1>1. PICK g, h : /\ g \in Holdings
                    /\ g[3] = e /\ h[3] = f
                    /\ Holdings' \subseteq (Holdings \ {g}) \cup {h}
    BY DEF Moves
  <1> DEFINE G == Holdings \ {g}
  <1>2. /\ G \subseteq Holdings /\ Holdings' \subseteq G \cup {h} /\ g \in Holdings \ G
    BY <1>1
  <1> HIDE DEF G
  <1> QED BY <1>1, <1>2, TokensKeep

LEMMA LosesKeeps ==
  ASSUME Requests, Replies, UNCHANGED <<sent, unread, delivered, answered, returned>>,
         NEW from, NEW e, Loses(from, e)
  PROVE  Requests' /\ Replies'
  BY FreesKeeps DEF Frees, Loses

LEMMA GainsKeeps ==
  ASSUME Requests, Replies, UNCHANGED <<sent, unread, delivered, answered, returned>>,
         NEW to, NEW f, Gains(to, f), ~IsRequest(f.packet), ~IsReply(f.packet)
  PROVE  Requests' /\ Replies'
  <1>1. PICK h : h[3] = f /\ Holdings' \subseteq Holdings \cup {h}
    BY DEF Gains
  <1> QED BY <1>1, TokensKeep

(* Most packets are neither a request nor an answer.                         *)
LEMMA Neither ==
  ASSUME NEW t, NEW i, t \notin {"raw", "from_gdb"}, t \in {"to_gdb", "to_client"} => i = 0
  PROVE  /\ ~IsRequest(Built(Packet(t, i)).packet) /\ ~IsReply(Built(Packet(t, i)).packet)
         /\ \A b : ~IsRequest(Entry(b, Packet(t, i)).packet) /\ ~IsReply(Entry(b, Packet(t, i)).packet)
  BY DEF IsRequest, IsReply, Built, Entry, Packet

LEMMA TokensInit == Init => Tokens
  <1> SUFFICES ASSUME Init PROVE Tokens
    OBVIOUS
  <1>1. Holdings = {} /\ Sending = {}
    <2>1. Members(<<>>) = {}
      BY DEF Members
    <2>2. Sending = {}
      BY DEF Init, Sending
    <2> QED BY <2>1, <2>2 DEF Init, Holdings, InputHolds, OutputHolds, ServerQueueHolds,
                              SpiHolds, ServerHolds, WifiHolds, ClientHolds, InQueue, InHand
  <1> QED BY <1>1 DEF Init, Tokens, Counters, InOrder, Requests, Replies, ByPlace
-----------------------------------------------------------------------------
LEMMA ClientPlaces ==
  ASSUME GInv, ByPlace, NEW k \in Conns, Client(k)
  PROVE  ByPlace'
  <1>0. client \in [Conns -> {"none", "hello", "take", "read", "package", "post",
                              "bye", "report", "deleted"}]
        /\ clientEntry \in [Conns -> Entries \cup {NONE}]
    BY DEF GInv, TypeOK
  <1>1. UNCHANGED serverMessage
    BY DEF Client, SendConnected, ClientTakes, ClientReads, ClientPackages, ClientPosts,
           ClientEnds, SendClosed, SendDisconnected, serverVars
  <1>2. ASSUME NEW j \in Conns \ {k}, j \in Sending'
        PROVE  IsRequest(clientEntry'[j].packet)
    <2>1. client'[j] = client[j] /\ clientEntry'[j] = clientEntry[j]
      BY <1>0 DEF Client, SendConnected, ClientTakes, ClientReads, ClientPackages, ClientPosts,
                  ClientEnds, SendClosed, SendDisconnected, ClientAt
    <2> QED BY <1>2, <2>1 DEF ByPlace, Sending
  <1>3. ASSUME k \in Sending'
        PROVE  IsRequest(clientEntry'[k].packet)
    <2>1. CASE ClientReads(k)
      <3>1. clientEntry[k] \in Entries /\ clientEntry' = [clientEntry EXCEPT ![k].packet = Packet("raw", sent)]
        BY <2>1 DEF ClientReads, ClientAt, GInv, Pointers
      <3>2. clientEntry'[k].packet = Packet("raw", sent)
        BY <1>0, <3>1 DEF Entries
      <3> QED BY <3>2 DEF IsRequest, Packet
    <2>2. CASE ClientPackages(k)
      <3>1. clientEntry[k] \in Entries /\ clientEntry' = [clientEntry EXCEPT ![k].packet.type = "from_gdb"]
        BY <2>2 DEF ClientPackages, ClientAt, GInv, Pointers
      <3>2. clientEntry'[k].packet.type = "from_gdb"
        BY <1>0, <3>1 DEF Entries, Packets
      <3> QED BY <3>2 DEF IsRequest
    <2>3. ClientReads(k) \/ ClientPackages(k)
      BY <1>0, <1>3 DEF Client, SendConnected, ClientTakes, ClientPosts, ClientEnds,
                        SendClosed, SendDisconnected, ClientAt, Sending
    <2> QED BY <2>1, <2>2, <2>3
  <1> QED BY <1>1, <1>2, <1>3 DEF ByPlace, Sending

LEMMA ClientTokens ==
  ASSUME GInv, Tokens, NEW k \in Conns, Client(k), ClientPasses(k)
  PROVE  Tokens'
  <1>1. UNCHANGED <<sent, delivered, answered, returned>>
    BY DEF Client, SendConnected, ClientTakes, ClientReads, ClientPackages, ClientPosts,
           ClientEnds, SendClosed, SendDisconnected, peerVars, ctxVars
  <1>2. Counters' /\ InOrder'
    BY <1>1 DEF Tokens, Counters, InOrder
  <1>3. ByPlace'
    BY ClientPlaces DEF Tokens
  <1>4. Requests' /\ Replies'
    <2>1. CASE /\ SendConnected(k) \/ SendDisconnected(k)
               /\ \E i \in Ids : Gains("input", Built(Packet("status", i)))
      <3>1. UNCHANGED unread
        BY <2>1 DEF SendConnected, SendDisconnected, peerVars
      <3>2. PICK i \in Ids : Gains("input", Built(Packet("status", i)))
        BY <2>1
      <3> QED BY <1>1, <3>1, <3>2, Neither, GainsKeeps DEF Tokens
    <2>2. CASE (ClientTakes(k) \/ ClientEnds(k)) /\ Frees
      <3>1. UNCHANGED unread
        BY <2>2 DEF ClientTakes, ClientEnds, peerVars
      <3> QED BY <1>1, <2>2, <3>1, FreesKeeps DEF Tokens
    <2>3. CASE ClientReads(k) /\ Gains("client", Entry(clientEntry[k].buf, Packet("raw", sent)))
      <3>1. unread /\ unread' = FALSE
        BY <2>3 DEF ClientReads
      <3>2. PICK h : h[3].packet = Packet("raw", sent) /\ Holdings' \subseteq Holdings \cup {h}
        BY <2>3 DEF Gains, Entry
      <3>3. h[3].packet.id = sent /\ ~IsReply(h[3].packet)
        BY <3>2 DEF IsReply, Packet
      <3>4. \A g \in Holdings : ~IsRequest(g[3].packet)
        BY <3>1 DEF Tokens, Requests
      <3>5. sent = Len(delivered) + 1
        BY <3>1 DEF Tokens, Requests
      <3>6. Requests'
        BY <1>1, <3>1, <3>2, <3>3, <3>4, <3>5 DEF Requests
      <3>7. Replies'
        BY <1>1, <3>2, <3>3 DEF Replies, Tokens
      <3> QED BY <3>6, <3>7
    <2>4. CASE /\ ClientPackages(k)
               /\ Moves("client", clientEntry[k], "client",
                        [clientEntry[k] EXCEPT !.packet.type = "from_gdb"])
      <3> DEFINE e == clientEntry[k]
                 f == [e EXCEPT !.packet.type = "from_gdb"]
      <3>1. UNCHANGED unread /\ k \in Sending /\ e \in Entries
        BY <2>4 DEF ClientPackages, ClientAt, peerVars, Sending, GInv, Pointers
      <3>2. IsRequest(e.packet) /\ e.packet \in Packets
        BY <3>1, EntryParts DEF Tokens, ByPlace
      <3>3. f.packet = [e.packet EXCEPT !.type = "from_gdb"]
        BY <3>1 DEF Entries
      <3>4. e.packet.id = f.packet.id /\ ~IsReply(f.packet)
        BY <3>2, <3>3 DEF IsReply, Packets
      <3>5. Moves("client", e, "client", f)
        BY <2>4
      <3> HIDE DEF e, f
      <3> QED BY <1>1, <3>1, <3>2, <3>4, <3>5, MovesKeeps DEF Tokens
    <2>5. CASE ClientPosts(k) /\ Moves("client", clientEntry[k], "input", clientEntry[k])
      <3>1. UNCHANGED unread
        BY <2>5 DEF ClientPosts, peerVars
      <3> QED BY <1>1, <2>5, <3>1, MovesKeeps DEF Tokens
    <2>6. CASE SendClosed(k) /\ Gains("server_queue", Built(Packet("command", 0)))
      <3>1. UNCHANGED unread
        BY <2>6 DEF SendClosed, peerVars
      <3> QED BY <1>1, <2>6, <3>1, Neither, GainsKeeps DEF Tokens
    <2> QED BY <2>1, <2>2, <2>3, <2>4, <2>5, <2>6 DEF ClientPasses
  <1> QED BY <1>2, <1>3, <1>4 DEF Tokens

LEMMA ServerTokens ==
  ASSUME RingInv, Tokens, Server, ServerPasses
  PROVE  Tokens'
  <1>1. CASE /\ ServerReceives
             /\ LET e == Head(server_queue)
                IN IF e.packet.type = "to_client" THEN Moves("server_queue", e, "server", e)
                                                  ELSE Loses("server_queue", e)
    <2>1. UNCHANGED <<sent, unread, delivered, answered, returned, client, clientEntry>>
      BY <1>1 DEF ServerReceives, peerVars, ctxVars, clientVars
    <2>2. Requests' /\ Replies'
      BY <1>1, <2>1, MovesKeeps, LosesKeeps DEF Tokens
    <2>3. ByPlace'
      <3> DEFINE e == Head(server_queue)
      <3>1. server_queue \in Seq(Entries) /\ server_queue # <<>> /\ Injective(server_queue)
        BY <1>1 DEF ServerReceives, RingInv, GInv, TypeOK, OnceInQueues
      <3>2. <<"server_queue", 0, e>> \in Holdings
        BY <3>1, Leaves DEF ServerQueueHolds, Holdings
      <3>3. e \in Queued \cup Held
        <4> DEFINE h == <<"server_queue", 0, e>>
        <4>1. h[3] = e
          OBVIOUS
        <4> HIDE DEF h
        <4> QED BY <3>2, <4>1, Unused DEF RingInv, h
      <3>4. content[e.buf] = e.packet
        BY <3>3, KeptIsIntact DEF RingInv, Intact
      <3>5. serverMessage' # NONE => serverMessage' = e /\ content[e.buf].type = "to_client"
        BY <1>1 DEF ServerReceives
      <3> HIDE DEF e
      <3> QED BY <2>1, <3>4, <3>5 DEF Tokens, ByPlace, Sending
    <2> QED BY <2>1, <2>2, <2>3 DEF Tokens, Counters, InOrder
  <1>2. CASE ServerSends /\ serverMessage \in Entries /\ Loses("server", serverMessage)
    <2> DEFINE p == serverMessage.packet
    <2>1. UNCHANGED <<sent, unread, delivered, answered, client, clientEntry>>
          /\ serverMessage' = NONE
      BY <1>2 DEF ServerSends, peerVars, ctxVars, clientVars
    <2>2. content[serverMessage.buf] = p
      BY <1>2, KeptIsIntact DEF RingInv, Intact, Held
    <2>3. p.type = "to_client" /\ p \in Packets
      BY <1>2, EntryParts DEF Tokens, ByPlace
    <2>4. returned' = IF p.id # 0 THEN Append(returned, p.id) ELSE returned
      BY <1>2, <2>2 DEF ServerSends, Returns
    <2>5. ByPlace'
      BY <2>1 DEF Tokens, ByPlace, Sending
    <2>6. PICK g \in Holdings : g[3].packet = p /\ Holdings' \subseteq Holdings \ {g}
      BY <1>2 DEF Loses
    <2> HIDE DEF p
    <2>7. CASE p.id = 0
      <3>1. Requests' /\ Replies'
        BY <2>1, <2>4, <2>6, <2>7 DEF Tokens, Requests, Replies
      <3> QED BY <2>1, <2>4, <2>5, <2>7, <3>1 DEF Tokens, Counters, InOrder
    <2>8. CASE p.id # 0
      <3>1. IsReply(p)
        BY <2>3, <2>8 DEF IsReply
      <3>2. p.id = answered /\ answered = Len(returned) + 1
            /\ \A h \in Holdings' : ~IsReply(h[3].packet)
        BY <2>6, <3>1 DEF Tokens, Replies
      <3>3. returned \in Seq(Ids) /\ returned' = Append(returned, Len(returned) + 1)
        BY <2>4, <2>8, <3>2 DEF RingInv, GInv, TypeOK
      <3>4. /\ Len(returned) \in Nat /\ Len(returned') = Len(returned) + 1
            /\ DOMAIN returned' = 1..Len(returned) + 1 /\ DOMAIN returned = 1..Len(returned)
            /\ \A i \in 1..Len(returned) : returned'[i] = returned[i]
            /\ returned'[Len(returned) + 1] = Len(returned) + 1
        BY <3>3
      <3>5. InOrder'
        <4>1. \A i \in DOMAIN returned' : i \in DOMAIN returned \/ i = Len(returned) + 1
          BY <3>4
        <4> QED BY <2>1, <3>4, <4>1 DEF Tokens, InOrder
      <3>6. Counters'
        BY <2>1, <3>2, <3>4, CountersTyped DEF Tokens, Counters, RingInv
      <3>7. Requests'
        BY <2>1, <2>6 DEF Tokens, Requests
      <3>8. Replies'
        BY <3>2 DEF Replies
      <3> QED BY <2>5, <3>5, <3>6, <3>7, <3>8 DEF Tokens
    <2> QED BY <2>7, <2>8
  <1> QED BY <1>1, <1>2 DEF ServerPasses

LEMMA WifiTokens ==
  ASSUME Tokens, Wifi, WifiPasses
  PROVE  Tokens'
  <1>1. UNCHANGED <<sent, unread, delivered, answered, returned, client, clientEntry, serverMessage>>
    BY DEF Wifi, WifiConnected, WifiReports, peerVars, ctxVars, clientVars, serverVars
  <1>2. Counters' /\ InOrder' /\ ByPlace'
    BY <1>1 DEF Tokens, Counters, InOrder, ByPlace, Sending
  <1>3. Requests' /\ Replies'
    <2>1. Requests /\ Replies
      BY DEF Tokens
    <2> QED BY <1>1, <2>1, Neither, GainsKeeps, MovesKeeps DEF WifiPasses
  <1> QED BY <1>2, <1>3 DEF Tokens

LEMMA SpiTokens ==
  ASSUME Tokens, Spi, SpiPasses
  PROVE  Tokens'
  <1>1. UNCHANGED <<sent, unread, delivered, answered, returned, client, clientEntry, serverMessage>>
    BY DEF Spi, SpiConsumes, SpiToServer, SpiForwards, peerVars, ctxVars, clientVars, serverVars
  <1>2. Counters' /\ InOrder' /\ ByPlace'
    BY <1>1 DEF Tokens, Counters, InOrder, ByPlace, Sending
  <1>3. Requests /\ Replies
    BY DEF Tokens
  <1>4. Requests' /\ Replies'
    <2> DEFINE e == Head(spi_comms_input_queue)
               f == [e EXCEPT !.packet.type = "to_client"]
    <2>1. CASE \/ Moves("input", e, "output", e) \/ Loses("input", e)
               \/ Moves("spi", spiMessage, "server_queue", spiMessage)
      BY <1>1, <1>3, <2>1, MovesKeeps, LosesKeeps
    <2>2. CASE e \in Entries /\ e.packet.type = "to_gdb" /\ Moves("input", e, "spi", f)
      <3>1. f.packet = [e.packet EXCEPT !.type = "to_client"] /\ e.packet \in Packets
        BY <2>2 DEF Entries
      <3>2. /\ e.packet.id = f.packet.id /\ ~IsRequest(f.packet)
            /\ IsReply(f.packet) => IsReply(e.packet)
        BY <2>2, <3>1 DEF Packets, IsRequest, IsReply
      <3> HIDE DEF e, f
      <3> QED BY <1>1, <1>3, <2>2, <3>2, MovesKeeps
    <2> QED BY <2>1, <2>2 DEF SpiPasses
  <1> QED BY <1>2, <1>4 DEF Tokens

LEMMA SelectTokens ==
  ASSUME Tokens, Select, Frees
  PROVE  Tokens'
  <1>1. UNCHANGED <<sent, unread, delivered, answered, returned, client, clientEntry, serverMessage>>
    BY DEF Select, SelectToRead, SelectToSend, peerVars, ctxVars, clientVars, serverVars
  <1>2. Counters' /\ InOrder' /\ ByPlace'
    BY <1>1 DEF Tokens, Counters, InOrder, ByPlace, Sending
  <1> QED BY <1>1, <1>2, FreesKeeps DEF Tokens

LEMMA TransferTokens ==
  ASSUME GInv, Tokens, Transfer, TransferPasses
  PROVE  Tokens'
  <1>1. UNCHANGED <<sent, unread, returned, client, clientEntry, serverMessage>>
    BY DEF Transfer, Answer, SendMore, Receives, Transmitted, peerVars, clientVars, serverVars
  <1>2. ByPlace'
    BY <1>1 DEF Tokens, ByPlace, Sending
  <1>3. CASE /\ Answer
             /\ Gains("input", Entry(trans.buf, Packet("to_gdb", delivered[answered + 1])))
    <2>1. /\ answered < Len(delivered) /\ answered' = answered + 1 /\ UNCHANGED delivered
      BY <1>3 DEF Answer, CanAnswer, Receives
    <2>2. delivered[answered + 1] = answered + 1
      BY <2>1, CountersTyped DEF Tokens, InOrder
    <2>3. answered = Len(returned) /\ answered \in Nat
      BY <2>1, CountersTyped DEF Tokens, Counters
    <2>4. PICK h : h[3].packet = Packet("to_gdb", answered + 1) /\ Holdings' \subseteq Holdings \cup {h}
      BY <1>3, <2>2 DEF Gains, Entry
    <2>5. h[3].packet.id = answered + 1 /\ ~IsRequest(h[3].packet)
      BY <2>4 DEF IsRequest, Packet
    <2>6. \A g \in Holdings : ~IsReply(g[3].packet)
      BY <2>3 DEF Tokens, Replies
    <2>7. Requests'
      BY <1>1, <2>1, <2>4, <2>5 DEF Tokens, Requests
    <2>8. Replies'
      BY <1>1, <2>1, <2>3, <2>4, <2>5, <2>6 DEF Replies
    <2>9. Counters' /\ InOrder'
      BY <1>1, <2>1, <2>3, CountersTyped DEF Tokens, Counters, InOrder
    <2> QED BY <1>2, <2>7, <2>8, <2>9 DEF Tokens
  <1>4. CASE SendMore /\ Gains("input", Entry(trans.buf, Packet("to_gdb", 0)))
    <2>1. UNCHANGED <<delivered, answered>>
      BY <1>4 DEF SendMore, Receives
    <2>2. Requests' /\ Replies'
      BY <1>1, <1>4, <2>1, Neither, GainsKeeps DEF Tokens
    <2> QED BY <1>1, <1>2, <2>1, <2>2 DEF Tokens, Counters, InOrder
  <1>5. CASE /\ Transmitted
             /\ LET e == Head(spi_comms_output_queue)
                IN /\ trans.buf = e.buf /\ content[trans.buf] = e.packet
                   /\ Moves("output", e, "input", Built(Packet("completed", 0)))
    <2> DEFINE p == content[trans.buf]
               q == Packet("completed", 0)
    <2>1. /\ UNCHANGED answered
          /\ delivered' = IF p.type = "from_gdb" THEN Append(delivered, p.id) ELSE delivered
      BY <1>5 DEF Transmitted
    <2>2. ~IsRequest(q) /\ ~IsReply(q)
      BY DEF IsRequest, IsReply, Packet
    <2>3. PICK g, h : /\ g \in Holdings
                      /\ g[3].packet = p /\ h[3].packet = q
                      /\ Holdings' \subseteq (Holdings \ {g}) \cup {h}
      BY <1>5 DEF Moves, Built
    <2> HIDE DEF p, q
    <2>4. CASE p.type # "from_gdb"
      <3>1. UNCHANGED delivered
        BY <2>1, <2>4
      <3>2. Requests' /\ Replies'
        <4> DEFINE G == Holdings \ {g}
        <4>1. G \subseteq Holdings /\ Holdings' \subseteq G \cup {h}
          BY <2>3
        <4> HIDE DEF G
        <4>2. ~IsRequest(h[3].packet) /\ ~IsReply(h[3].packet)
          BY <2>2, <2>3
        <4> QED BY <1>1, <2>1, <3>1, <4>1, <4>2, TokensKeep DEF Tokens
      <3> QED BY <1>1, <1>2, <2>1, <3>1, <3>2 DEF Tokens, Counters, InOrder
    <2>5. CASE p.type = "from_gdb"
      <3>1. IsRequest(p)
        BY <2>5 DEF IsRequest
      <3>2. p.id = sent /\ sent = Len(delivered) + 1 /\ ~unread
            /\ \A x \in Holdings' : ~IsRequest(x[3].packet)
        BY <2>2, <2>3, <3>1 DEF Tokens, Requests
      <3>3. delivered \in Seq(Ids) /\ delivered' = Append(delivered, Len(delivered) + 1)
        BY <2>1, <2>5, <3>2 DEF GInv, TypeOK
      <3>4. /\ Len(delivered) \in Nat /\ Len(delivered') = Len(delivered) + 1
            /\ DOMAIN delivered' = 1..Len(delivered) + 1 /\ DOMAIN delivered = 1..Len(delivered)
            /\ \A i \in 1..Len(delivered) : delivered'[i] = delivered[i]
            /\ delivered'[Len(delivered) + 1] = Len(delivered) + 1
        BY <3>3
      <3>5. InOrder'
        <4>1. \A i \in DOMAIN delivered' : i \in DOMAIN delivered \/ i = Len(delivered) + 1
          BY <3>4
        <4> QED BY <1>1, <3>4, <4>1 DEF Tokens, InOrder
      <3>6. Counters'
        BY <1>1, <2>1, <3>2, <3>4, CountersTyped DEF Tokens, Counters
      <3>7. Requests'
        BY <1>1, <3>2 DEF Requests
      <3>8. Replies'
        BY <1>1, <2>1, <2>2, <2>3 DEF Tokens, Replies
      <3> QED BY <1>2, <3>5, <3>6, <3>7, <3>8 DEF Tokens
    <2> QED BY <2>4, <2>5
  <1> QED BY <1>3, <1>4, <1>5 DEF TransferPasses

LEMMA NetworkTokens ==
  ASSUME Window = 1, GInv, NotStarted, Tokens, Accept \/ AcceptFails \/ Request \/ Leave \/ UNCHANGED vars, Frees
  PROVE  Tokens'
  <1>1. /\ UNCHANGED <<delivered, answered, returned, serverMessage>>
        /\ ByPlace'
    <2>1. CASE Accept
      <3>1. /\ client' \in {client, [client EXCEPT ![conns + 1] = "hello"]}
            /\ UNCHANGED <<delivered, answered, returned, serverMessage, clientEntry>>
        BY <2>1 DEF Accept, ctxVars
      <3>2. Sending' = Sending
        BY <2>1, <3>1 DEF GInv, TypeOK, Accept, NotStarted, Conns, Sending
      <3> QED BY <3>1, <3>2 DEF Tokens, ByPlace
    <2>2. CASE AcceptFails \/ Request \/ Leave \/ UNCHANGED vars
      BY <2>2 DEF AcceptFails, Request, Leave, vars, Sending, clientVars, serverVars, ctxVars, Tokens, ByPlace
    <2> QED BY <2>1, <2>2
  <1>2. CASE Request
    <2>1. sent' = sent + 1 /\ unread' = TRUE /\ sent < Len(returned) + Window
      BY <1>2 DEF Request
    <2>2. sent < Len(returned) + 1
      BY <2>1
    <2>3. sent = Len(returned) /\ Len(delivered) = sent /\ answered = sent
      BY <2>2, CountersTyped DEF Tokens, Counters
    <2>4. \A h \in Holdings : ~IsRequest(h[3].packet)
      BY <2>3, CountersTyped DEF Tokens, Requests
    <2>5. Counters' /\ InOrder'
      BY <1>1, <2>1, <2>3, CountersTyped DEF Tokens, Counters, InOrder
    <2>6. Requests' /\ Replies'
      BY <1>1, <2>1, <2>3, <2>4 DEF Tokens, Requests, Replies, Frees
    <2> QED BY <1>1, <2>5, <2>6 DEF Tokens
  <1>3. CASE UNCHANGED <<sent, unread>>
    BY <1>1, <1>3, FreesKeeps DEF Tokens, Counters, InOrder
  <1>4. Accept \/ AcceptFails \/ Leave \/ UNCHANGED vars => UNCHANGED <<sent, unread>>
    BY DEF Accept, AcceptFails, Leave, vars, peerVars
  <1> QED BY <1>2, <1>3, <1>4

LEMMA TokensNext ==
  Window = 1 /\ RingInv /\ NotStarted /\ Tokens /\ [Next]_vars /\ [FreeTaken]_vars => Tokens'
  <1> SUFFICES ASSUME Window = 1, RingInv, NotStarted, Tokens, [Next]_vars, [FreeTaken]_vars
               PROVE  Tokens'
    OBVIOUS
  <1>0. GInv /\ GInv'
    BY Inductive DEF RingInv
  <1>1. CASE Accept \/ AcceptFails \/ Request \/ Leave \/ UNCHANGED vars
    BY <1>0, <1>1, NetworkRing, NetworkTokens
  <1>2. ASSUME Next, FreeTaken, ~(Accept \/ AcceptFails \/ Request \/ Leave)
        PROVE  Tokens'
    <2>1. ASSUME NEW k \in Conns, Client(k) PROVE Tokens'
      BY <1>0, <1>2, <2>1, ClientRing, ClientTokens
    <2>2. CASE Server
      BY <1>0, <2>2, ServerRing, ServerTokens
    <2>3. CASE Wifi
      BY <1>0, <1>2, <2>3, WifiRing, WifiTokens
    <2>4. CASE Spi
      BY <1>0, <2>4, SpiConsumesRing, SpiToServerRing, SpiForwardsRing, SpiTokens DEF Spi
    <2>5. CASE Select
      BY <1>0, <1>2, <2>5, SelectRing, SelectTokens
    <2>6. CASE Transfer
      BY <1>0, <1>2, <2>6, TransferRing, TransferTokens
    <2> QED BY <1>2, <2>1, <2>2, <2>3, <2>4, <2>5, <2>6 DEF Next
  <1> QED BY <1>1, <1>2
-----------------------------------------------------------------------------
(* Every step of the adapter is a step of the channel or none.               *)
LEMMA ChannelInit == Init => RR!Init
  BY DEF Init, RR!Init

LEMMA ChannelStep ==
  ASSUME Window = 1, RingInv, Tokens, GInv', [Next]_vars
  PROVE  [RR!Next]_(RR!vars)
  <1>1. CASE Request
    <2>1. /\ sent < Len(returned) + Window /\ sent' = sent + 1
          /\ UNCHANGED <<delivered, answered, returned>>
      BY <1>1 DEF Request, ctxVars
    <2>2. sent = Len(returned)
      <3>1. sent < Len(returned) + 1
        BY <2>1
      <3> QED BY <3>1, CountersTyped DEF Tokens, Counters, RingInv
    <2>3. sent < MaxConn * MaxReq
      <3>1. sent' \in 0..MaxConn * MaxReq
        BY DEF GInv, TypeOK
      <3> DEFINE M == MaxConn * MaxReq
      <3>2. M \in Nat /\ sent' \in 0..M
        BY <3>1, Product
      <3> HIDE DEF M
      <3>3. sent < M
        BY <2>1, <3>2, CountersTyped DEF RingInv
      <3> QED BY <3>3 DEF M
    <2> QED BY <2>1, <2>2, <2>3 DEF RR!Next, RR!Request
  <1>2. CASE Answer
    BY <1>2 DEF Answer, CanAnswer, Receives, peerVars, RR!Next, RR!Answer
  <1>3. CASE Transmitted
    <2> DEFINE p == content[trans.buf]
    <2>1. /\ UNCHANGED <<sent, answered, returned>>
          /\ delivered' = IF p.type = "from_gdb" THEN Append(delivered, p.id) ELSE delivered
      BY <1>3 DEF Transmitted, peerVars
    <2>2. CASE p.type = "from_gdb"
      <3>1. \E g \in Holdings : g[3].packet = p
        <4> DEFINE s == Head(spi_comms_output_queue)
                   g == <<"output", 0, s>>
        <4>1. spi_comms_output_queue # <<>> /\ trans.buf = s.buf
          BY <1>3 DEF Transmitted, RingInv, GInv, Announced, SendsFirst
        <4>2. g \in Holdings
          <5>1. /\ spi_comms_output_queue \in Seq(Entries)
                /\ Injective(spi_comms_output_queue)
            BY DEF RingInv, GInv, TypeOK, OnceInQueues
          <5> QED BY <4>1, <5>1, Leaves DEF OutputHolds, Holdings
        <4>3. g[3] = s
          OBVIOUS
        <4> HIDE DEF g, s
        <4> QED BY <4>1, <4>2, <4>3 DEF RingInv, Kept
      <3>2. IsRequest(p)
        BY <2>2 DEF IsRequest
      <3>3. p.id = Len(delivered) + 1 /\ sent = Len(delivered) + 1
        BY <3>1, <3>2 DEF Tokens, Requests
      <3>4. Len(delivered) < sent /\ delivered' = Append(delivered, Len(delivered) + 1)
        BY <2>1, <2>2, <3>3, CountersTyped DEF RingInv
      <3> QED BY <2>1, <3>4 DEF RR!Next, RR!Deliver
    <2>3. CASE p.type # "from_gdb"
      BY <2>1, <2>3 DEF RR!vars
    <2> QED BY <2>2, <2>3
  <1>4. CASE ServerSends
    <2> DEFINE p == serverMessage.packet
    <2>1. /\ UNCHANGED <<sent, delivered, answered>> /\ serverMessage \in Entries
          /\ returned' = IF content[serverMessage.buf].id # 0
                         THEN Append(returned, content[serverMessage.buf].id) ELSE returned
      BY <1>4 DEF ServerSends, Returns, peerVars, ctxVars, RingInv, GInv, Pointers
    <2>2. serverMessage \in Held
      BY <2>1 DEF Held
    <2>3. content[serverMessage.buf] = p /\ \E g \in Holdings : g[3].packet = p
      <3>1. content[serverMessage.buf] = p
        BY <2>2, KeptIsIntact DEF RingInv, Intact
      <3> DEFINE g == <<"server", 0, serverMessage>>
      <3>2. g \in Holdings
        BY <2>1 DEF Holdings, ServerHolds, InHand
      <3>3. g[3] = serverMessage
        OBVIOUS
      <3> HIDE DEF g
      <3> QED BY <3>1, <3>2, <3>3
    <2>4. p.type = "to_client"
      BY <2>1 DEF Tokens, ByPlace
    <2> HIDE DEF p
    <2>5. CASE p.id # 0
      <3>1. IsReply(p)
        BY <2>4, <2>5 DEF IsReply
      <3>2. p.id = answered /\ answered = Len(returned) + 1
        BY <2>3, <3>1 DEF Tokens, Replies
      <3>3. Len(returned) < answered /\ returned' = Append(returned, Len(returned) + 1)
        BY <2>1, <2>3, <2>5, <3>2, CountersTyped DEF RingInv
      <3> QED BY <2>1, <3>3 DEF RR!Next, RR!Return
    <2>6. CASE p.id = 0
      BY <2>1, <2>3, <2>6 DEF RR!vars
    <2> QED BY <2>5, <2>6
  <1>5. CASE UNCHANGED <<sent, delivered, answered, returned>>
    BY <1>5 DEF RR!vars
  <1>6. ASSUME NEW k \in Conns, Client(k)
        PROVE  UNCHANGED <<sent, delivered, answered, returned>>
    BY <1>6 DEF Client, SendConnected, ClientTakes, ClientReads, ClientPackages, ClientPosts,
           ClientEnds, SendClosed, SendDisconnected, peerVars, ctxVars
  <1>7. ServerReceives \/ Wifi \/ Spi \/ Select \/ SendMore \/ Accept \/ AcceptFails \/ Leave \/ UNCHANGED vars
        => UNCHANGED <<sent, delivered, answered, returned>>
    BY DEF ServerReceives, Wifi, WifiConnected, WifiReports, Spi, SpiConsumes, SpiToServer,
           SpiForwards, Select, SelectToRead, SelectToSend, SendMore, Receives, Accept, AcceptFails, Leave,
           vars, peerVars, ctxVars
  <1> QED
    BY <1>1, <1>2, <1>3, <1>4, <1>5, <1>6, <1>7 DEF Next, Server, Transfer

(* With one request open at a time every step of the adapter is one of the   *)
(* channel or leaves it alone, for every ring, all lengths of the queues,    *)
(* any number of connections one after the other, of requests and of packets *)
(* ctxLink sends in between, whether clients wait for their answers or not,  *)
(* if only no buffer is taken that is in use.                                *)
THEOREM KeepsChannel ==
  ASSUME Window = 1
  PROVE  Spec /\ NeverTakenInUse => RequestReplySafety
  <1>1. Init => Tokens
    BY TokensInit
  <1>2. RingInv /\ NotStarted /\ Tokens /\ [Next]_vars /\ [FreeTaken]_vars => Tokens'
    BY TokensNext
  <1>3. RingInv /\ RingInv' /\ Tokens /\ [Next]_vars => [RR!Next]_(RR!vars)
    BY ChannelStep DEF RingInv
  <1> QED
    BY <1>1, <1>2, <1>3, ChannelInit, RingHolds, PTL DEF Spec, NeverTakenInUse, RequestReplySafety
=============================================================================
