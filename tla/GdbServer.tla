----------------------------- MODULE GdbServer -----------------------------
(***************************************************************************)
(* The GDB server: the server task (task_server.cpp), the client task it    *)
(* creates for every connection (task_client.cpp), and the commands the     *)
(* Wi-Fi task sends it when the network goes and comes back                 *)
(* (task_wifi.cpp).  Outside src/: the network clients, lwIP's table of     *)
(* descriptors, and ctxLink, which answers requests in order over a         *)
(* reliable link.                                                           *)
(*                                                                          *)
(* The tasks run on two cores and interleave between any two calls.         *)
(***************************************************************************)
EXTENDS Integers, Sequences

CONSTANTS
  QueueLen,     \* server_queue_length (32)
  MaxConn,      \* bound: connections
  MaxReq,       \* bound: requests of each client
  MaxDrops,     \* bound: times the Wi-Fi connection is lost
  Polite,       \* do clients wait for their answers before they leave?
  BindMayFail,  \* may bind or listen fail?
  TaskMayFail   \* may the creation of a client task fail?

ASSUME GdbServerAssumption ==
  /\ QueueLen \in Nat \ {0} /\ MaxConn \in Nat \ {0}
  /\ MaxReq \in Nat /\ MaxDrops \in Nat
  /\ Polite \in BOOLEAN /\ BindMayFail \in BOOLEAN /\ TaskMayFail \in BOOLEAN

Conns == 1..MaxConn
Fds == 0..MaxConn + 1

(* What a descriptor stands for, when it is not a connection.                *)
Free == 0
Listening == -1
Unbound == -2

Commands == [type : {"shutdown", "start", "closed"}, for : {0}]
Replies == [type : {"to_client"}, for : Conns]

VARIABLES
  spc,        \* control of the server task
  server_fd, client_fd,
  params_fd,  \* server_params->client_fd
  server_queue,
  message,    \* the server's current message
  ctask,      \* control of each client task
  fd,         \* client_fd of each client task
  sock,       \* external: what each descriptor stands for
  backlog,    \* external: connections waiting to be accepted
  peer,       \* external: each network client
  unread,     \* external: requests received for a connection and not read
  link,       \* external: requests on their way to ctxLink and back
  asked, got, \* history: requests made by, and answers sent to, each client
  status,     \* the client state last reported to ctxLink
  wifi_up,    \* wifi_connect_processed
  drops,      \* number of times the Wi-Fi connection was lost
  since,      \* history: drops when each client connected
  nReady      \* TRUE: the nREADY pin is LOW (asserted)

serverVars == <<spc, server_fd, client_fd, params_fd, message>>
clientVars == <<ctask, fd, status, nReady>>
netVars    == <<sock, backlog, peer, unread, since, asked>>
wifiVars   == <<wifi_up, drops>>
vars == <<serverVars, server_queue, clientVars, netVars, link, got, wifiVars>>

Init ==
  /\ spc = "none" /\ server_fd = -1 /\ client_fd = -1 /\ params_fd = 0
  /\ server_queue = <<>> /\ message = [type |-> "closed", for |-> 0]
  /\ ctask = [k \in Conns |-> "none"] /\ fd = [k \in Conns |-> -1]
  /\ sock = [f \in Fds |-> Free] /\ backlog = <<>>
  /\ peer = [k \in Conns |-> "none"] /\ unread = [k \in Conns |-> 0]
  /\ link = <<>>
  /\ asked = [k \in Conns |-> 0] /\ got = [k \in Conns |-> <<>>]
  /\ status = 0 /\ nReady = FALSE
  /\ wifi_up = FALSE /\ drops = 0 /\ since = [k \in Conns |-> 0]
-----------------------------------------------------------------------------
(* xQueueSend with a timeout of 0.                                           *)
Enqueue(q, m) == IF Len(q) < QueueLen THEN Append(q, m) ELSE q

Command(t) == [type |-> t, for |-> 0]

(* close() of the descriptors F: their connections, and the ones waiting on  *)
(* a listening one, are gone; closing -1 or a free descriptor does nothing.  *)
Close(F) ==
  LET open == {f \in F \cap Fds : sock[f] # Free}
      listens == \E f \in open : sock[f] = Listening
      Hit(k) == \/ \E f \in open : sock[f] = k
                \/ listens /\ \E i \in DOMAIN backlog : backlog[i] = k
  IN /\ sock' = [f \in Fds |-> IF f \in F THEN Free ELSE sock[f]]
     /\ backlog' = IF listens THEN <<>> ELSE backlog
     /\ peer' = [k \in Conns |-> IF peer[k] = "connected" /\ Hit(k)
                                 THEN "kicked" ELSE peer[k]]

(* lwIP hands out the lowest free descriptor.                                *)
IsNewFd(f) == sock[f] = Free /\ \A g \in Fds : g < f => sock[g] # Free
-----------------------------------------------------------------------------
(* configure_server: the descriptor is allocated even when bind or listen    *)
(* fails, as bind does while another socket listens on the port.             *)
ConfigureServer ==
  \E f \in Fds, s \in {Listening, Unbound} :
    /\ IsNewFd(f)
    /\ s = Unbound => BindMayFail \/ \E g \in Fds : sock[g] = Listening
    /\ s = Listening => \A g \in Fds : sock[g] # Listening
    /\ server_fd' = f
    /\ sock' = [sock EXCEPT ![f] = s]

(* The server task creates its queue, then configures the server, whatever   *)
(* comes of it.                                                              *)
CreateQueue ==
  /\ spc = "starting"
  /\ spc' = "configure"
  /\ UNCHANGED <<server_fd, client_fd, params_fd, message, server_queue,
                 clientVars, netVars, link, got, wifiVars>>

Configure ==
  /\ spc = "configure"
  /\ ConfigureServer
  /\ spc' = "accept"
  /\ UNCHANGED <<client_fd, params_fd, message, server_queue, clientVars,
                 backlog, peer, unread, since, asked, link, got, wifiVars>>

CanAccept == server_fd \in Fds /\ sock[server_fd] = Listening

(* Mutant of Accept: the client task is not given the new descriptor.        *)
AcceptStale ==
  /\ spc = "accept" /\ CanAccept
  /\ backlog # <<>>
  /\ LET k == Head(backlog)
     IN \E f \in Fds :
          /\ IsNewFd(f)
          /\ sock' = [sock EXCEPT ![f] = k]
          /\ client_fd' = f
          /\ ctask' = [ctask EXCEPT ![k] = "start"]
  /\ backlog' = Tail(backlog)
  /\ spc' = "receive"
  /\ UNCHANGED <<server_fd, params_fd, message, server_queue, fd, status, nReady,
                 peer, unread, since, asked, link, got, wifiVars>>

(* accept(), and the creation of the client task, whose result is not looked *)
(* at.                                                                       *)
Accept ==
  /\ spc = "accept" /\ CanAccept
  /\ backlog # <<>>
  /\ LET k == Head(backlog)
     IN /\ \E f \in Fds :
             /\ IsNewFd(f)
             /\ sock' = [sock EXCEPT ![f] = k]
             /\ client_fd' = f
             /\ params_fd' = f
        /\ \/ ctask' = [ctask EXCEPT ![k] = "start"]
           \/ TaskMayFail /\ UNCHANGED ctask
  /\ backlog' = Tail(backlog)
  /\ spc' = "receive"
  /\ UNCHANGED <<server_fd, message, server_queue, fd, status, nReady, peer,
                 unread, since, asked, link, got, wifiVars>>

(* accept() fails and the task function returns.                             *)
AcceptFails ==
  /\ spc = "accept" /\ ~CanAccept
  /\ spc' = "returned"
  /\ UNCHANGED <<server_fd, client_fd, params_fd, message, server_queue,
                 clientVars, netVars, link, got, wifiVars>>

Receive ==
  /\ spc = "receive"
  /\ server_queue # <<>>
  /\ message' = Head(server_queue)
  /\ server_queue' = Tail(server_queue)
  /\ spc' = Head(server_queue).type
  /\ UNCHANGED <<server_fd, client_fd, params_fd, clientVars, netVars, link,
                 got, wifiVars>>

CanSend == client_fd \in Fds /\ sock[client_fd] \in Conns

Sending == spc \in {"to_client", "to_client_rest"}

(* The client has the answer when the last of it has been accepted.          *)
Send ==
  /\ Sending /\ CanSend
  /\ LET k == sock[client_fd] IN got' = [got EXCEPT ![k] = Append(@, message.for)]
  /\ spc' = "receive"
  /\ UNCHANGED <<server_fd, client_fd, params_fd, message, server_queue,
                 clientVars, netVars, link, wifiVars>>

(* send() accepts a part: the loop goes on with the rest.                    *)
SendPart ==
  /\ spc = "to_client" /\ CanSend
  /\ spc' = "to_client_rest"
  /\ UNCHANGED <<server_fd, client_fd, params_fd, message, server_queue,
                 clientVars, netVars, link, got, wifiVars>>

(* send() fails: bytes_sent is a size_t, so "bytes_sent < 0" is false, the   *)
(* packet grows by a byte and the loop goes round again.                     *)
SendFails ==
  /\ Sending /\ ~CanSend
  /\ UNCHANGED vars

Shutdown ==
  /\ spc = "shutdown"
  /\ Close({client_fd, server_fd})
  /\ client_fd' = -1 /\ server_fd' = -1
  /\ spc' = "receive"
  /\ UNCHANGED <<params_fd, message, server_queue, clientVars, unread, since,
                 asked, link, got, wifiVars>>

StartServer ==
  /\ spc = "start"
  /\ ConfigureServer
  /\ spc' = "receive"
  /\ UNCHANGED <<client_fd, params_fd, message, server_queue, clientVars,
                 backlog, peer, unread, since, asked, link, got, wifiVars>>

(* Mutant of ClientClosed: client_connected stays true.                      *)
ClientClosedStays ==
  /\ spc = "closed"
  /\ Close({client_fd})
  /\ client_fd' = -1
  /\ spc' = "receive"
  /\ UNCHANGED <<server_fd, params_fd, message, server_queue, clientVars,
                 unread, since, asked, link, got, wifiVars>>

ClientClosed ==
  /\ spc = "closed"
  /\ Close({client_fd})
  /\ client_fd' = -1
  /\ spc' = "accept"
  /\ UNCHANGED <<server_fd, params_fd, message, server_queue, clientVars,
                 unread, since, asked, link, got, wifiVars>>

Server == CreateQueue \/ Configure \/ Accept \/ AcceptFails \/ Receive \/ Send
          \/ SendPart \/ SendFails \/ Shutdown \/ StartServer \/ ClientClosed
-----------------------------------------------------------------------------
(***************************************************************************)
(* task_client                                                              *)
(***************************************************************************)
ClientStart(k) ==
  /\ ctask[k] = "start"
  /\ fd' = [fd EXCEPT ![k] = params_fd]
  /\ ctask' = [ctask EXCEPT ![k] = "hello"]
  /\ UNCHANGED <<serverVars, server_queue, status, nReady, netVars, link, got,
                 wifiVars>>

(* Mutant of SendConnected: the test "state == 0x00" is inverted.            *)
SendConnectedInverted(k) ==
  /\ ctask[k] = "hello"
  /\ server_queue' = Enqueue(server_queue, Command("closed"))
  /\ status' = 1
  /\ ctask' = [ctask EXCEPT ![k] = "read"]
  /\ UNCHANGED <<serverVars, fd, nReady, netVars, link, got, wifiVars>>

SendConnected(k) ==
  /\ ctask[k] = "hello"
  /\ status' = 1
  /\ ctask' = [ctask EXCEPT ![k] = "read"]
  /\ UNCHANGED <<serverVars, server_queue, fd, nReady, netVars, link, got,
                 wifiVars>>

(* read() returns a request, which is packed and posted to the SPI task; on  *)
(* the way the nREADY pin is toggled.                                        *)
ReadRequest(k) ==
  /\ ctask[k] = "read"
  /\ LET c == sock[fd[k]]
     IN /\ c \in Conns
        /\ unread[c] > 0
        /\ unread' = [unread EXCEPT ![c] = @ - 1]
        /\ link' = Append(link, c)
  /\ nReady' = ~nReady
  /\ UNCHANGED <<serverVars, server_queue, ctask, fd, status, sock, backlog,
                 peer, since, asked, got, wifiVars>>

(* read() returns 0, the client has left, or an error: the descriptor is no  *)
(* longer a connection.                                                      *)
ReadEnds(k) ==
  /\ ctask[k] = "read"
  /\ LET c == sock[fd[k]] IN c \in Conns => unread[c] = 0 /\ peer[c] # "connected"
  /\ ctask' = [ctask EXCEPT ![k] = "close"]
  /\ UNCHANGED <<serverVars, server_queue, fd, status, nReady, netVars, link,
                 got, wifiVars>>

(* Mutant of CloseClient: the loop is not left.                              *)
CloseClientStays(k) ==
  /\ ctask[k] = "close"
  /\ Close({fd[k]})
  /\ fd' = [fd EXCEPT ![k] = -1]
  /\ ctask' = [ctask EXCEPT ![k] = "read"]
  /\ UNCHANGED <<serverVars, server_queue, status, nReady, unread, since, asked,
                 link, got, wifiVars>>

CloseClient(k) ==
  /\ ctask[k] = "close"
  /\ Close({fd[k]})
  /\ fd' = [fd EXCEPT ![k] = -1]
  /\ ctask' = [ctask EXCEPT ![k] = "bye"]
  /\ UNCHANGED <<serverVars, server_queue, status, nReady, unread, since, asked,
                 link, got, wifiVars>>

(* send_client_state_to_ctxlink(0): first the server, then ctxLink.          *)
SendClosed(k) ==
  /\ ctask[k] = "bye"
  /\ server_queue' = Enqueue(server_queue, Command("closed"))
  /\ ctask' = [ctask EXCEPT ![k] = "report"]
  /\ UNCHANGED <<serverVars, fd, status, nReady, netVars, link, got, wifiVars>>

SendDisconnected(k) ==
  /\ ctask[k] = "report"
  /\ status' = 0
  /\ ctask' = [ctask EXCEPT ![k] = "deleted"]
  /\ UNCHANGED <<serverVars, server_queue, fd, nReady, netVars, link, got,
                 wifiVars>>

Client(k) == ClientStart(k) \/ SendConnected(k) \/ ReadRequest(k) \/ ReadEnds(k)
             \/ CloseClient(k) \/ SendClosed(k) \/ SendDisconnected(k)
-----------------------------------------------------------------------------
(***************************************************************************)
(* task_wifi: the parts that concern the server                             *)
(***************************************************************************)
(* wifi_send_server_command: nothing is sent while there is no server task   *)
(* or no queue.                                                              *)
SendServerCommand(t) ==
  server_queue' = IF spc \in {"none", "starting"} THEN server_queue
                  ELSE Enqueue(server_queue, Command(t))

WifiConnected ==
  /\ ~wifi_up
  /\ wifi_up' = TRUE
  /\ nReady' = TRUE
  /\ IF spc = "none"
     THEN spc' = "starting" /\ UNCHANGED server_queue
     ELSE SendServerCommand("start") /\ UNCHANGED spc
  /\ UNCHANGED <<server_fd, client_fd, params_fd, message, ctask, fd, status,
                 netVars, link, got, drops>>

WifiDisconnected ==
  /\ wifi_up /\ drops < MaxDrops
  /\ spc # "starting"   \* the Wi-Fi task sleeps for 1 s after it created the task
  /\ wifi_up' = FALSE
  /\ drops' = drops + 1
  /\ SendServerCommand("shutdown")
  /\ UNCHANGED <<serverVars, clientVars, netVars, link, got>>
-----------------------------------------------------------------------------
(***************************************************************************)
(* Outside src/: network clients and ctxLink                                *)
(***************************************************************************)
Connect(k) ==
  /\ wifi_up
  /\ peer[k] = "none" /\ \A j \in Conns : j < k => peer[j] # "none"
  /\ \E f \in Fds : sock[f] = Listening
  /\ peer' = [peer EXCEPT ![k] = "connected"]
  /\ backlog' = Append(backlog, k)
  /\ since' = [since EXCEPT ![k] = drops]
  /\ UNCHANGED <<serverVars, server_queue, clientVars, sock, unread, asked, link,
                 got, wifiVars>>

Request(k) ==
  /\ wifi_up
  /\ peer[k] = "connected" /\ asked[k] < MaxReq
  /\ asked' = [asked EXCEPT ![k] = @ + 1]
  /\ unread' = [unread EXCEPT ![k] = @ + 1]
  /\ UNCHANGED <<serverVars, server_queue, clientVars, sock, backlog, peer, since,
                 link, got, wifiVars>>

Leave(k) ==
  /\ wifi_up
  /\ peer[k] = "connected"
  /\ Polite => Len(got[k]) = asked[k]
  /\ peer' = [peer EXCEPT ![k] = "left"]
  /\ UNCHANGED <<serverVars, server_queue, clientVars, sock, backlog, unread,
                 since, asked, link, got, wifiVars>>

(* ctxLink answers; the SPI task passes the answer to the server, waiting    *)
(* for room in its queue.                                                    *)
Answer ==
  /\ link # <<>>
  /\ Len(server_queue) < QueueLen
  /\ server_queue' = Append(server_queue, [type |-> "to_client", for |-> Head(link)])
  /\ link' = Tail(link)
  /\ UNCHANGED <<serverVars, clientVars, netVars, got, wifiVars>>
-----------------------------------------------------------------------------
Next ==
  \/ Server \/ WifiConnected \/ WifiDisconnected \/ Answer
  \/ \E k \in Conns : Client(k) \/ Connect(k) \/ Request(k) \/ Leave(k)

Spec == Init /\ [][Next]_vars

(* Every task is scheduled, ctxLink answers, the Wi-Fi connects and a client *)
(* that has its answers eventually leaves.                                   *)
Fairness ==
  /\ WF_vars(Server) /\ WF_vars(Answer) /\ WF_vars(WifiConnected)
  /\ \A k \in Conns : WF_vars(Client(k)) /\ WF_vars(Leave(k))

FairSpec == Spec /\ Fairness
-----------------------------------------------------------------------------
TypeOK ==
  /\ spc \in {"none", "starting", "configure", "accept", "returned", "receive",
              "to_client", "to_client_rest", "shutdown", "start", "closed"}
  /\ {server_fd, client_fd} \subseteq Fds \cup {-1} /\ params_fd \in Fds
  /\ server_queue \in Seq(Commands \cup Replies) /\ Len(server_queue) <= QueueLen
  /\ message \in Commands \cup Replies
  /\ ctask \in [Conns -> {"none", "start", "hello", "read", "close", "bye",
                          "report", "deleted"}]
  /\ fd \in [Conns -> Fds \cup {-1}]
  /\ \A k \in Conns : ctask[k] \in {"hello", "read", "close"} => fd[k] \in Fds
  /\ sock \in [Fds -> {Free, Listening, Unbound} \cup Conns]
  /\ backlog \in Seq(Conns) /\ link \in Seq(Conns)
  /\ peer \in [Conns -> {"none", "connected", "left", "kicked"}]
  /\ unread \in [Conns -> 0..MaxReq] /\ asked \in [Conns -> 0..MaxReq]
  /\ got \in [Conns -> Seq(Conns)]
  /\ status \in {0, 1} /\ nReady \in BOOLEAN /\ wifi_up \in BOOLEAN
  /\ drops \in 0..MaxDrops /\ since \in [Conns -> 0..MaxDrops]

(* No task reads, sends on or closes a descriptor that has become another    *)
(* connection's or the listening socket's, although the client task and the  *)
(* server both close the connection's (task_client.cpp:90,103,109,           *)
(* task_server.cpp:150,159) and numbers are reused at once.                  *)
DescriptorsOwned ==
  /\ \A k \in Conns :
       /\ ctask[k] \in {"hello", "read", "close"} => sock[fd[k]] \in {k, Free}
       /\ ctask[k] = "start" => sock[params_fd] \in {k, Free}
  /\ server_fd # -1 => sock[server_fd] \in {Listening, Unbound}
  /\ client_fd # -1 => sock[client_fd] \in Conns \cup {Free}

(* At most one client task still has its connection: the server accepts the  *)
(* next client only after the last one's task let go of its descriptor.      *)
OneClientAtATime ==
  \A j, k \in Conns :
    /\ ctask[j] \in {"start", "hello", "read", "close"}
    /\ ctask[k] \in {"start", "hello", "read", "close"}
    => j = k

(* The adapter ends a connection only if the Wi-Fi connection was lost after *)
(* the client connected (task_wifi.cpp:269-274).                             *)
ClientKept == \A k \in Conns : peer[k] = "kicked" => since[k] < drops

(* The server task never returns (task_server.cpp:98).                       *)
ServerRuns == spc # "returned"

(* A client gets the answers to its own requests only.                       *)
OwnAnswers == \A k \in Conns : \A i \in DOMAIN got[k] : got[k][i] = k

(* Every client that connects is eventually given a client task, and every   *)
(* request is eventually answered.                                           *)
EveryClientServed ==
  \A k \in Conns : peer[k] = "connected" ~> ctask[k] = "read"
EveryRequestAnswered ==
  \A k \in Conns : \A n \in 1..MaxReq : asked[k] = n ~> Len(got[k]) >= n
=============================================================================
