-------------------------- MODULE GdbServerProofs --------------------------
(***************************************************************************)
(* Theorems about the GDB server and its client tasks, for any number of    *)
(* clients and requests, every length of the server's queue and every       *)
(* interleaving.                                                            *)
(***************************************************************************)
EXTENDS GdbServer, TLAPS

(* What no constant of the model confuses: a connection is neither free nor  *)
(* a socket of the server's, and there is room for both descriptors.         *)
LEMMA Constants ==
  /\ Conns \subseteq Nat /\ 0 \notin Conns /\ -1 \notin Conns /\ -2 \notin Conns
  /\ Fds \subseteq Nat /\ 0 \in Fds /\ 1 \in Fds /\ -1 \notin Fds
BY GdbServerAssumption DEF Conns, Fds

(* A send to the server's queue, with or without room, keeps its type and    *)
(* its length.                                                               *)
LEMMA EnqueueType ==
  ASSUME NEW q \in Seq(Commands \cup Replies), Len(q) <= QueueLen,
         NEW m \in Commands \cup Replies
  PROVE  /\ Enqueue(q, m) \in Seq(Commands \cup Replies)
         /\ Len(Enqueue(q, m)) <= QueueLen
BY GdbServerAssumption DEF Enqueue

LEMMA TailType ==
  ASSUME NEW S, NEW q \in Seq(S), q # <<>>
  PROVE  /\ Head(q) \in S /\ Tail(q) \in Seq(S) /\ Len(Tail(q)) = Len(q) - 1
OBVIOUS

LEMMA CommandType ==
  ASSUME NEW t \in {"shutdown", "start", "closed"} PROVE Command(t) \in Commands
BY DEF Command, Commands

LEMMA MessageType ==
  ASSUME NEW m \in Commands \cup Replies
  PROVE  /\ m.type \in {"shutdown", "start", "closed", "to_client"}
         /\ m.type = "to_client" => m \in Replies
         /\ m \in Replies => m.for \in Conns /\ m.type = "to_client"
BY DEF Commands, Replies

(* close() keeps the types of what it changes.                               *)
LEMMA CloseType ==
  ASSUME TypeOK, NEW F, Close(F)
  PROVE  /\ sock' \in [Fds -> {Free, Listening, Unbound} \cup Conns]
         /\ backlog' \in Seq(Conns)
         /\ peer' \in [Conns -> {"none", "connected", "left", "kicked"}]
BY DEF Close, TypeOK

(* What a task is told to send is an answer, and what waits to be read was   *)
(* asked.                                                                    *)
Requests ==
  /\ Sending => message \in Replies
  /\ \A k \in Conns : unread[k] <= asked[k]
TInv == TypeOK /\ Requests

LEMMA TInvInit == Init => TInv
<1> SUFFICES ASSUME Init PROVE TInv
  OBVIOUS
<1>1. /\ server_queue \in Seq(Commands \cup Replies) /\ Len(server_queue) <= QueueLen
      /\ backlog \in Seq(Conns) /\ link \in Seq(Conns)
  BY GdbServerAssumption DEF Init
<1>2. message \in Commands \cup Replies
  BY DEF Init, Commands
<1>3. /\ unread \in [Conns -> 0..MaxReq] /\ asked \in [Conns -> 0..MaxReq]
      /\ drops \in 0..MaxDrops /\ since \in [Conns -> 0..MaxDrops]
      /\ \A k \in Conns : unread[k] <= asked[k]
  BY GdbServerAssumption DEF Init
<1>4. got \in [Conns -> Seq(Conns)]
  BY DEF Init
<1> QED
  BY <1>1, <1>2, <1>3, <1>4, Constants DEF Init, TInv, TypeOK, Requests, Sending, Free

LEMMA TInvNext == TInv /\ [Next]_vars => TInv'
<1> SUFFICES ASSUME TInv, [Next]_vars PROVE TInv'
  OBVIOUS
<1> USE DEF TInv, Requests, Sending, serverVars, clientVars, netVars, wifiVars
<1>1. CASE CreateQueue
  BY <1>1 DEF CreateQueue, TypeOK
<1>2. CASE Configure \/ StartServer
  <2>1. PICK f \in Fds, s \in {Listening, Unbound} :
               server_fd' = f /\ sock' = [sock EXCEPT ![f] = s]
    BY <1>2 DEF Configure, StartServer, ConfigureServer
  <2> QED
    BY <1>2, <2>1 DEF Configure, StartServer, TypeOK
<1>3. CASE Accept
  <2> DEFINE k == Head(backlog)
  <2>1. k \in Conns /\ backlog' \in Seq(Conns)
    BY <1>3 DEF Accept, TypeOK
  <2>2. PICK f \in Fds : sock' = [sock EXCEPT ![f] = k] /\ client_fd' = f /\ params_fd' = f
    BY <1>3 DEF Accept
  <2>3. ctask' = [ctask EXCEPT ![k] = "start"] \/ ctask' = ctask
    BY <1>3 DEF Accept
  <2> HIDE DEF k
  <2>4. sock' \in [Fds -> {Free, Listening, Unbound} \cup Conns]
    BY <2>1, <2>2 DEF TypeOK
  <2>5. /\ ctask' \in [Conns -> {"none", "start", "hello", "read", "close", "bye",
                                 "report", "deleted"}]
        /\ \A c \in Conns : ctask'[c] \in {"hello", "read", "close"} => fd[c] \in Fds
    BY <2>1, <2>3 DEF TypeOK
  <2>6. spc' = "receive"
    BY <1>3 DEF Accept
  <2> QED
    BY <1>3, <2>1, <2>2, <2>4, <2>5, <2>6, SMTT(30) DEF Accept, TypeOK
<1>4. CASE AcceptFails
  BY <1>4 DEF AcceptFails, TypeOK
<1>5. CASE Receive
  <2>1. server_queue \in Seq(Commands \cup Replies) /\ Len(server_queue) <= QueueLen
    BY DEF TypeOK
  <2>2. /\ server_queue # <<>> /\ server_queue' = Tail(server_queue)
        /\ message' = Head(server_queue) /\ spc' = message'.type
    BY <1>5 DEF Receive
  <2>3. /\ message' \in Commands \cup Replies
        /\ server_queue' \in Seq(Commands \cup Replies) /\ Len(server_queue') <= QueueLen
    BY <2>1, <2>2, TailType, GdbServerAssumption
  <2>4. /\ spc' \in {"shutdown", "start", "closed", "to_client"}
        /\ spc' = "to_client" => message' \in Replies
    BY <2>2, <2>3, MessageType
  <2> QED
    BY <1>5, <2>3, <2>4 DEF Receive, TypeOK
<1>6. CASE Send
  <2>1. sock[client_fd] \in Conns /\ message.for \in Conns
    BY <1>6, MessageType DEF Send, CanSend
  <2>2. got' \in [Conns -> Seq(Conns)]
    BY <1>6, <2>1 DEF Send, TypeOK
  <2> QED
    BY <1>6, <2>2 DEF Send, TypeOK
<1>7. CASE SendPart
  BY <1>7 DEF SendPart, TypeOK
<1>8. CASE SendFails \/ UNCHANGED vars
  BY <1>8 DEF SendFails, vars, TypeOK
<1>9. CASE Shutdown \/ ClientClosed
  <2>1. /\ sock' \in [Fds -> {Free, Listening, Unbound} \cup Conns]
        /\ backlog' \in Seq(Conns)
        /\ peer' \in [Conns -> {"none", "connected", "left", "kicked"}]
    BY <1>9, CloseType DEF Shutdown, ClientClosed
  <2> QED
    BY <1>9, <2>1 DEF Shutdown, ClientClosed, TypeOK
<1>10. ASSUME NEW k \in Conns, ClientStart(k) \/ SendConnected(k) \/ ReadEnds(k)
                               \/ SendDisconnected(k)
       PROVE  TInv'
  <2>1. CASE ClientStart(k)
    BY <2>1 DEF ClientStart, TypeOK
  <2>2. CASE SendConnected(k)
    BY <2>2 DEF SendConnected, TypeOK
  <2>3. CASE ReadEnds(k)
    BY <2>3 DEF ReadEnds, TypeOK
  <2>4. CASE SendDisconnected(k)
    BY <2>4 DEF SendDisconnected, TypeOK
  <2> QED
    BY <1>10, <2>1, <2>2, <2>3, <2>4
<1>11. ASSUME NEW k \in Conns, ReadRequest(k) PROVE TInv'
  <2> DEFINE c == sock[fd[k]]
  <2>1. c \in Conns /\ unread[c] > 0 /\ unread' = [unread EXCEPT ![c] = @ - 1]
        /\ link' = Append(link, c)
    BY <1>11 DEF ReadRequest
  <2>2. /\ unread' \in [Conns -> 0..MaxReq] /\ link' \in Seq(Conns)
        /\ \A j \in Conns : unread'[j] <= asked[j]
    <3> HIDE DEF c
    <3> QED
      BY <2>1, GdbServerAssumption, SMTT(30) DEF TypeOK
  <2>3. nReady' \in BOOLEAN
    BY <1>11 DEF ReadRequest
  <2> QED
    BY <1>11, <2>2, <2>3 DEF ReadRequest, TypeOK
<1>12. ASSUME NEW k \in Conns, CloseClient(k) PROVE TInv'
  <2>1. /\ sock' \in [Fds -> {Free, Listening, Unbound} \cup Conns]
        /\ backlog' \in Seq(Conns)
        /\ peer' \in [Conns -> {"none", "connected", "left", "kicked"}]
    BY <1>12, CloseType DEF CloseClient
  <2> QED
    BY <1>12, <2>1 DEF CloseClient, TypeOK
<1>13. ASSUME NEW k \in Conns, SendClosed(k) PROVE TInv'
  <2>1. /\ server_queue' \in Seq(Commands \cup Replies) /\ Len(server_queue') <= QueueLen
    BY <1>13, EnqueueType, CommandType DEF SendClosed, TypeOK
  <2> QED
    BY <1>13, <2>1 DEF SendClosed, TypeOK
<1>14. CASE WifiConnected \/ WifiDisconnected
  <2>1. /\ server_queue' \in Seq(Commands \cup Replies) /\ Len(server_queue') <= QueueLen
    <3>1. server_queue \in Seq(Commands \cup Replies) /\ Len(server_queue) <= QueueLen
      BY DEF TypeOK
    <3>2. server_queue' = server_queue
          \/ \E t \in {"start", "shutdown"} : server_queue' = Enqueue(server_queue, Command(t))
      BY <1>14 DEF WifiConnected, WifiDisconnected, SendServerCommand
    <3> QED
      BY <3>1, <3>2, EnqueueType, CommandType
  <2>2. CASE WifiConnected
    BY <2>1, <2>2 DEF WifiConnected, TypeOK
  <2>3. CASE WifiDisconnected
    <3>1. drops' \in 0..MaxDrops
      BY <2>3, GdbServerAssumption DEF WifiDisconnected, TypeOK
    <3> QED
      BY <2>1, <2>3, <3>1 DEF WifiDisconnected, TypeOK
  <2> QED
    BY <1>14, <2>2, <2>3
<1>15. ASSUME NEW k \in Conns, Connect(k) \/ Leave(k) PROVE TInv'
  <2>1. CASE Connect(k)
    <3>1. backlog' \in Seq(Conns)
      BY <2>1 DEF Connect, TypeOK
    <3> QED
      BY <2>1, <3>1 DEF Connect, TypeOK
  <2>2. CASE Leave(k)
    BY <2>2 DEF Leave, TypeOK
  <2> QED
    BY <1>15, <2>1, <2>2
<1>16. ASSUME NEW k \in Conns, Request(k) PROVE TInv'
  <2>1. /\ unread' \in [Conns -> 0..MaxReq] /\ asked' \in [Conns -> 0..MaxReq]
        /\ \A j \in Conns : unread'[j] <= asked'[j]
    BY <1>16, GdbServerAssumption, SMTT(30) DEF Request, TypeOK
  <2> QED
    BY <1>16, <2>1 DEF Request, TypeOK
<1>17. CASE Answer
  <2>1. [type |-> "to_client", for |-> Head(link)] \in Replies /\ link' \in Seq(Conns)
    BY <1>17 DEF Answer, TypeOK, Replies
  <2>2. server_queue' \in Seq(Commands \cup Replies) /\ Len(server_queue') <= QueueLen
    BY <1>17, <2>1, GdbServerAssumption DEF Answer, TypeOK
  <2> QED
    BY <1>17, <2>1, <2>2 DEF Answer, TypeOK
<1> QED
  BY <1>1, <1>2, <1>3, <1>4, <1>5, <1>6, <1>7, <1>8, <1>9, <1>10, <1>11, <1>12,
     <1>13, <1>14, <1>15, <1>16, <1>17 DEF Next, Server, Client

LEMMA AlwaysTyped == Spec => []TInv
BY TInvInit, TInvNext, PTL DEF Spec

(* Every variable of the server and its clients keeps its type; in           *)
(* particular a task that uses a descriptor has one, whatever its number     *)
(* stands for by then.                                                       *)
THEOREM TypeCorrect == Spec => []TypeOK
BY AlwaysTyped, PTL DEF TInv
-----------------------------------------------------------------------------
(***************************************************************************)
(* One client at a time.  The turn is handed on: the server has it until it  *)
(* creates a client task, that task until it tells the server that the       *)
(* connection is closed, and then the message.                               *)
(***************************************************************************)
Active == {k \in Conns : ctask[k] \in {"start", "hello", "read", "close", "bye"}}
ServersTurn == spc \in {"none", "starting", "configure", "accept", "returned", "closed"}
IsClosed(q, i) == i \in DOMAIN q /\ q[i].type = "closed"
Turns ==
  /\ \A j, k \in Active : j = k
  /\ ServersTurn => Active = {}
  /\ \A i : IsClosed(server_queue, i) => Active = {} /\ ~ServersTurn
  /\ \A i, j : IsClosed(server_queue, i) /\ IsClosed(server_queue, j) => i = j

(* What the queue holds after a send is what it held and what was sent.      *)
LEMMA EnqueueHolds ==
  ASSUME NEW q \in Seq(Commands \cup Replies), NEW m \in Commands \cup Replies, NEW i,
         i \in DOMAIN Enqueue(q, m)
  PROVE  \/ i \in DOMAIN q /\ Enqueue(q, m)[i] = q[i]
         \/ i = Len(q) + 1 /\ i \notin DOMAIN q /\ Enqueue(q, m)[i] = m
BY GdbServerAssumption DEF Enqueue

(* What it holds after a receive, one place further, is what it held.        *)
LEMMA TailHolds ==
  ASSUME NEW S, NEW q \in Seq(S), q # <<>>, NEW i, i \in DOMAIN Tail(q)
  PROVE  i + 1 \in DOMAIN q /\ Tail(q)[i] = q[i + 1] /\ i \in Nat \ {0}
OBVIOUS

(* The messages with which the turn is not handed on leave it alone.         *)
LEMMA EnqueueClosed ==
  ASSUME NEW q \in Seq(Commands \cup Replies), NEW m \in Commands \cup Replies,
         m.type # "closed"
  PROVE  \A i : IsClosed(Enqueue(q, m), i) => IsClosed(q, i)
BY EnqueueHolds DEF IsClosed

LEMMA TurnsNext == TInv /\ Turns /\ [Next]_vars => Turns'
<1> SUFFICES ASSUME TInv, Turns, [Next]_vars PROVE Turns'
  OBVIOUS
<1> USE DEF Turns, ServersTurn, serverVars, clientVars, netVars, wifiVars
<1>0. /\ server_queue \in Seq(Commands \cup Replies)
      /\ ctask \in [Conns -> {"none", "start", "hello", "read", "close", "bye",
                              "report", "deleted"}]
      /\ backlog \in Seq(Conns) /\ link \in Seq(Conns)
  BY DEF TInv, TypeOK
(* No task starts or ends, and the queue gains no message that hands on.     *)
<1> DEFINE Quiet == /\ ctask' = ctask
                    /\ \A i : IsClosed(server_queue', i) => IsClosed(server_queue, i)
<1>1. ASSUME Quiet, ServersTurn' => ServersTurn PROVE Turns'
  BY <1>1 DEF Active
<1>2. CASE CreateQueue \/ Configure \/ AcceptFails
  BY <1>1, <1>2 DEF CreateQueue, Configure, AcceptFails
<1>3. CASE Accept
  <2>1. Active = {} /\ \A i : ~IsClosed(server_queue, i)
    BY <1>3 DEF Accept
  <2>2. Head(backlog) \in Conns
    BY <1>0, <1>3 DEF Accept
  <2>3. \A k \in Active' : k = Head(backlog)
    BY <1>0, <1>3, <2>1, <2>2 DEF Accept, Active
  <2> QED
    BY <1>3, <2>1, <2>3 DEF Accept
<1>4. CASE Receive
  <2>1. server_queue # <<>> /\ server_queue' = Tail(server_queue) /\ ctask' = ctask
        /\ spc' = Head(server_queue).type /\ spc = "receive"
    BY <1>4 DEF Receive
  <2>2. \A i : IsClosed(server_queue', i) => IsClosed(server_queue, i + 1) /\ i \in Nat \ {0}
    BY <1>0, <2>1, TailHolds DEF IsClosed
  <2>3. Head(server_queue) \in Commands \cup Replies /\ Head(server_queue) = server_queue[1]
        /\ 1 \in DOMAIN server_queue
    BY <1>0, <2>1
  <2>4. Active' = Active
    BY <2>1 DEF Active
  <2>5. \A i, j : IsClosed(server_queue', i) /\ IsClosed(server_queue', j) => i = j
    <3> SUFFICES ASSUME NEW i, NEW j, IsClosed(server_queue', i), IsClosed(server_queue', j)
                 PROVE  i = j
      OBVIOUS
    <3>1. i + 1 = j + 1 /\ i \in Nat /\ j \in Nat
      BY <2>2
    <3> QED
      BY <3>1
  <2>6. CASE spc' = "closed"
    <3>1. IsClosed(server_queue, 1)
      BY <2>1, <2>3, <2>6 DEF IsClosed
    <3>2. \A i : ~IsClosed(server_queue', i)
      BY <2>2, <3>1
    <3> QED
      BY <2>4, <3>1, <3>2
  <2>7. CASE spc' # "closed"
    <3>1. ~ServersTurn'
      BY <2>1, <2>3, <2>7, MessageType
    <3> QED
      BY <2>2, <2>4, <2>5, <3>1
  <2> QED
    BY <2>6, <2>7
<1>5. CASE Send \/ SendPart \/ SendFails \/ Shutdown \/ StartServer
  BY <1>1, <1>5 DEF Send, SendPart, SendFails, Shutdown, StartServer, vars
<1>6. CASE ClientClosed
  BY <1>1, <1>6 DEF ClientClosed
<1>7. ASSUME NEW k \in Conns,
             ClientStart(k) \/ SendConnected(k) \/ ReadEnds(k) \/ CloseClient(k)
       PROVE Turns'
  <2>1. Active' = Active /\ UNCHANGED <<server_queue, spc>>
    BY <1>0, <1>7 DEF ClientStart, SendConnected, ReadEnds, CloseClient, Active
  <2> QED
    BY <2>1
<1>8. ASSUME NEW k \in Conns, ReadRequest(k) PROVE Turns'
  BY <1>1, <1>8 DEF ReadRequest
<1>9. ASSUME NEW k \in Conns, SendClosed(k) PROVE Turns'
  <2>1. k \in Active /\ spc' = spc /\ server_queue' = Enqueue(server_queue, Command("closed"))
    BY <1>9 DEF SendClosed, Active
  <2>2. Active' = {}
    BY <1>0, <1>9, <2>1 DEF SendClosed, Active
  <2>3. ~ServersTurn'
    BY <2>1
  <2>4. \A i : IsClosed(server_queue', i) => i = Len(server_queue) + 1
    <3> SUFFICES ASSUME NEW i, IsClosed(server_queue', i) PROVE i = Len(server_queue) + 1
      OBVIOUS
    <3>1. ~IsClosed(server_queue, i)
      BY <2>1
    <3>2. i \in DOMAIN server_queue'
      BY DEF IsClosed
    <3> QED
      BY <1>0, <2>1, <3>1, <3>2, EnqueueHolds, CommandType DEF IsClosed
  <2> QED
    BY <2>2, <2>3, <2>4
<1>10. ASSUME NEW k \in Conns, SendDisconnected(k) PROVE Turns'
  <2>1. Active' = Active /\ UNCHANGED <<server_queue, spc>>
    BY <1>0, <1>10 DEF SendDisconnected, Active
  <2> QED
    BY <2>1
<1>11. CASE WifiConnected \/ WifiDisconnected
  <2>1. ctask' = ctask /\ (spc' = spc \/ (spc = "none" /\ spc' = "starting"))
    <3>1. CASE WifiConnected
      BY <3>1 DEF WifiConnected
    <3>2. CASE WifiDisconnected
      BY <3>2 DEF WifiDisconnected
    <3> QED
      BY <1>11, <3>1, <3>2
  <2>2. server_queue' = server_queue
          \/ \E t \in {"start", "shutdown"} : server_queue' = Enqueue(server_queue, Command(t))
    BY <1>11 DEF WifiConnected, WifiDisconnected, SendServerCommand
  <2>3. \A t \in {"start", "shutdown"} : Command(t).type # "closed"
    BY DEF Command
  <2>4. Quiet
    <3>1. CASE server_queue' = server_queue
      BY <2>1, <3>1
    <3>2. ASSUME NEW t \in {"start", "shutdown"}, server_queue' = Enqueue(server_queue, Command(t))
          PROVE  Quiet
      <4>1. Command(t) \in Commands \cup Replies /\ Command(t).type # "closed"
        BY <2>3, CommandType
      <4> QED
        BY <1>0, <2>1, <3>2, <4>1, EnqueueClosed
    <3> QED
      BY <2>2, <3>1, <3>2
  <2> QED
    BY <1>1, <2>1, <2>4
<1>12. ASSUME NEW k \in Conns, Connect(k) \/ Request(k) \/ Leave(k) PROVE Turns'
  BY <1>1, <1>12 DEF Connect, Request, Leave
<1>13. CASE Answer
  <2> DEFINE m == [type |-> "to_client", for |-> Head(link)]
  <2>1. m \in Replies /\ m.type # "closed"
    BY <1>0, <1>13 DEF Answer, Replies
  <2>2. server_queue' = Enqueue(server_queue, m) /\ UNCHANGED <<ctask, spc>>
    BY <1>13 DEF Answer, Enqueue
  <2> QED
    BY <1>0, <1>1, <2>1, <2>2, EnqueueClosed
<1>14. CASE UNCHANGED vars
  BY <1>1, <1>14 DEF vars
<1> QED
  BY <1>2, <1>3, <1>4, <1>5, <1>6, <1>7, <1>8, <1>9, <1>10, <1>11, <1>12, <1>13,
     <1>14 DEF Next, Server, Client

LEMMA AlwaysTurns == Spec => []Turns
<1>1. Init => Turns
  BY DEF Init, Turns, Active, IsClosed
<1> QED
  BY <1>1, TurnsNext, AlwaysTyped, PTL DEF Spec

(* The server accepts a client only after the last one's task has let go of  *)
(* its descriptor, whichever messages the full queue drops.                  *)
THEOREM OneAtATime == Spec => []OneClientAtATime
<1>1. Turns => OneClientAtATime
  BY DEF Turns, Active, OneClientAtATime
<1> QED
  BY <1>1, AlwaysTurns, PTL
-----------------------------------------------------------------------------
(***************************************************************************)
(* The commands the server has yet to see, when none is dropped: it is not   *)
(* told to start a second time before it is told to shut down.               *)
(***************************************************************************)
ShutBetween(q, a, b) == \E m \in DOMAIN q : a < m /\ m < b /\ q[m].type = "shutdown"
Alternate(q, down) ==
  /\ \A i \in DOMAIN q : q[i].type = "start" => down \/ ShutBetween(q, 0, i)
  /\ \A i, j \in DOMAIN q : q[i].type = "start" /\ q[j].type = "start" /\ i < j
                              => ShutBetween(q, i, j)
EndsShut(q, down) ==
  /\ \A i \in DOMAIN q : q[i].type = "start" => ShutBetween(q, i, Len(q) + 1)
  /\ down \/ ShutBetween(q, 0, Len(q) + 1)

(* Sending: what is between two places stays so, and a shutdown is last.     *)
LEMMA ShutAppend ==
  ASSUME NEW S, NEW q \in Seq(S), NEW m \in S
  PROVE  /\ \A a, b : ShutBetween(q, a, b) => ShutBetween(Append(q, m), a, b)
         /\ \A a \in Nat : ShutBetween(q, a, Len(q) + 1)
                             => ShutBetween(Append(q, m), a, Len(Append(q, m)) + 1)
         /\ m.type = "shutdown" =>
              \A a \in 0..Len(q) : ShutBetween(Append(q, m), a, Len(Append(q, m)) + 1)
<1>1. /\ \A i \in DOMAIN q : i \in DOMAIN Append(q, m) /\ Append(q, m)[i] = q[i]
      /\ Len(q) + 1 \in DOMAIN Append(q, m) /\ Append(q, m)[Len(q) + 1] = m
      /\ Len(Append(q, m)) = Len(q) + 1 /\ Len(q) \in Nat /\ DOMAIN q \subseteq Nat
  OBVIOUS
<1> QED
  BY <1>1 DEF ShutBetween

LEMMA AlternateAppend ==
  ASSUME NEW S, NEW q \in Seq(S), NEW m \in S, NEW down, Alternate(q, down)
  PROVE  /\ m.type # "start" => Alternate(Append(q, m), down)
         /\ m.type # "start" /\ EndsShut(q, down) => EndsShut(Append(q, m), down)
         /\ m.type = "start" /\ EndsShut(q, down) => Alternate(Append(q, m), down)
         /\ m.type = "shutdown" => EndsShut(Append(q, m), down)
<1> DEFINE r == Append(q, m)
<1>1. /\ \A i \in DOMAIN r : \/ i \in DOMAIN q /\ r[i] = q[i]
                             \/ i = Len(q) + 1 /\ r[i] = m
      /\ Len(r) = Len(q) + 1 /\ Len(q) \in Nat /\ DOMAIN q = 1..Len(q)
  OBVIOUS
<1>2. /\ \A a, b : ShutBetween(q, a, b) => ShutBetween(r, a, b)
      /\ \A a \in Nat : ShutBetween(q, a, Len(q) + 1) => ShutBetween(r, a, Len(r) + 1)
      /\ m.type = "shutdown" => \A a \in 0..Len(q) : ShutBetween(r, a, Len(r) + 1)
  BY ShutAppend
<1> HIDE DEF r
<1>3. m.type # "start" => Alternate(r, down)
  BY <1>1, <1>2 DEF Alternate
<1>4. m.type # "start" /\ EndsShut(q, down) => EndsShut(r, down)
  BY <1>1, <1>2 DEF EndsShut
<1>5. m.type = "start" /\ EndsShut(q, down) => Alternate(r, down)
  BY <1>1, <1>2 DEF Alternate, EndsShut
<1>6. m.type = "shutdown" => EndsShut(r, down)
  BY <1>1, <1>2 DEF EndsShut
<1> QED
  BY <1>3, <1>4, <1>5, <1>6 DEF r

(* Receiving: the first message tells whether the server is down after it.   *)
LEMMA AlternateTail ==
  ASSUME NEW S, NEW q \in Seq(S), q # <<>>, NEW down, Alternate(q, down)
  PROVE  /\ Head(q).type \notin {"start", "shutdown"} =>
              /\ Alternate(Tail(q), down)
              /\ EndsShut(q, down) => EndsShut(Tail(q), down)
         /\ Head(q).type = "shutdown" =>
              /\ Alternate(Tail(q), TRUE)
              /\ EndsShut(q, down) => EndsShut(Tail(q), TRUE)
         /\ Head(q).type = "start" =>
              /\ down
              /\ Alternate(Tail(q), FALSE)
              /\ EndsShut(q, down) => EndsShut(Tail(q), FALSE)
<1> DEFINE r == Tail(q)
<1>1. /\ \A i \in DOMAIN r : i + 1 \in DOMAIN q /\ r[i] = q[i + 1]
      /\ Len(q) = Len(r) + 1 /\ Len(r) \in Nat /\ DOMAIN q = 1..Len(q)
      /\ DOMAIN r = 1..Len(r) /\ Head(q) = q[1] /\ 1 \in DOMAIN q
  OBVIOUS
<1>2. \A i \in DOMAIN q : i = 1 \/ (i - 1 \in DOMAIN r /\ r[i - 1] = q[i])
  BY <1>1
<1> HIDE DEF r
<1>3. \A a, b \in Nat : ShutBetween(q, a + 1, b + 1) => ShutBetween(r, a, b)
  <2> SUFFICES ASSUME NEW a \in Nat, NEW b \in Nat, ShutBetween(q, a + 1, b + 1)
               PROVE  ShutBetween(r, a, b)
    OBVIOUS
  <2>1. PICK m \in DOMAIN q : a + 1 < m /\ m < b + 1 /\ q[m].type = "shutdown"
    BY DEF ShutBetween
  <2>2. m # 1 /\ m - 1 \in DOMAIN r /\ r[m - 1] = q[m]
    BY <1>1, <1>2, <2>1
  <2>3. a < m - 1 /\ m - 1 < b
    BY <1>1, <2>1, <2>2
  <2> QED
    BY <2>1, <2>2, <2>3 DEF ShutBetween
<1>4. \A b \in Nat : ShutBetween(q, 0, b + 1) /\ Head(q).type # "shutdown"
                       => ShutBetween(r, 0, b)
  <2> SUFFICES ASSUME NEW b \in Nat, ShutBetween(q, 0, b + 1), Head(q).type # "shutdown"
               PROVE  ShutBetween(r, 0, b)
    OBVIOUS
  <2>1. PICK m \in DOMAIN q : 0 < m /\ m < b + 1 /\ q[m].type = "shutdown"
    BY DEF ShutBetween
  <2>2. m # 1 /\ m - 1 \in DOMAIN r /\ r[m - 1] = q[m]
    BY <1>1, <1>2, <2>1
  <2>3. 0 < m - 1 /\ m - 1 < b
    BY <1>1, <2>1, <2>2
  <2> QED
    BY <2>1, <2>2, <2>3 DEF ShutBetween
<1>5. CASE Head(q).type \notin {"start", "shutdown"}
  <2>1. Alternate(r, down)
    BY <1>1, <1>3, <1>4, <1>5 DEF Alternate
  <2>2. EndsShut(q, down) => EndsShut(r, down)
    BY <1>1, <1>3, <1>4, <1>5 DEF EndsShut
  <2> QED
    BY <1>5, <2>1, <2>2 DEF r
<1>6. CASE Head(q).type = "shutdown"
  <2>1. Alternate(r, TRUE)
    BY <1>1, <1>3 DEF Alternate
  <2>2. EndsShut(q, down) => EndsShut(r, TRUE)
    BY <1>1, <1>3 DEF EndsShut
  <2> QED
    BY <1>6, <2>1, <2>2 DEF r
<1>7. CASE Head(q).type = "start"
  <2>1. ~ShutBetween(q, 0, 1)
    BY <1>1 DEF ShutBetween
  <2>2. down
    BY <1>1, <1>7, <2>1 DEF Alternate
  <2>3. Alternate(r, FALSE)
    BY <1>1, <1>3, <1>7 DEF Alternate
  <2>4. EndsShut(q, down) => EndsShut(r, FALSE)
    BY <1>1, <1>3, <1>7 DEF EndsShut
  <2> QED
    BY <1>7, <2>2, <2>3, <2>4 DEF r
<1> QED
  BY <1>5, <1>6, <1>7

(* Is the server down, or has it just been told to shut down?                *)
Started == server_fd # -1 \/ spc \in {"starting", "configure", "start"}
Down == spc = "shutdown" \/ ~Started
Commanded ==
  /\ spc \in {"none", "starting", "configure"} => server_fd = -1 /\ client_fd = -1
  /\ spc = "none" => /\ ~wifi_up
                     /\ \A i \in DOMAIN server_queue : server_queue[i].type # "start"
  /\ spc = "start" => server_fd = -1
  /\ Alternate(server_queue, Down)
  /\ ~wifi_up => EndsShut(server_queue, Down)

(* The one condition: the shutdown command finds room in the queue.          *)
ShutdownHeard == WifiDisconnected => Len(server_queue) < QueueLen

LEMMA CommandedNext == TInv /\ Commanded /\ [Next /\ ShutdownHeard]_vars => Commanded'
<1> SUFFICES ASSUME TInv, Commanded, [Next /\ ShutdownHeard]_vars PROVE Commanded'
  OBVIOUS
<1> USE DEF Started, Down, serverVars, clientVars, netVars, wifiVars
<1>0. server_queue \in Seq(Commands \cup Replies) /\ link \in Seq(Conns)
  BY DEF TInv, TypeOK
<1> DEFINE First == /\ spc \in {"none", "starting", "configure"} => server_fd = -1 /\ client_fd = -1
                    /\ spc = "start" => server_fd = -1
(* The commands stay in the queue, and the server goes up only with them.    *)
<1>1. ASSUME UNCHANGED <<server_queue, wifi_up>>, First', spc' # "none" \/ spc = "none",
             Down => Down'
      PROVE  Commanded'
  BY <1>1 DEF Commanded, Alternate, EndsShut
<1>2. ASSUME NEW m \in Commands \cup Replies, m.type \notin {"start", "shutdown"},
             server_queue' = Enqueue(server_queue, m), UNCHANGED <<wifi_up, serverVars>>
      PROVE  Commanded'
  <2>1. Down' = Down
    BY <1>2
  <2>2. CASE server_queue' = server_queue
    BY <1>2, <2>1, <2>2 DEF Commanded
  <2>3. CASE server_queue' = Append(server_queue, m)
    <3>1. Alternate(server_queue', Down) /\ (~wifi_up => EndsShut(server_queue', Down))
      BY <1>0, <1>2, <2>3, AlternateAppend DEF Commanded
    <3>2. spc = "none" => \A i \in DOMAIN server_queue' : server_queue'[i].type # "start"
      BY <1>0, <1>2, <2>3 DEF Commanded
    <3> QED
      BY <1>2, <2>1, <3>1, <3>2 DEF Commanded
  <2> QED
    BY <1>2, <2>2, <2>3 DEF Enqueue
<1>3. CASE CreateQueue \/ Accept \/ AcceptFails \/ Send \/ SendPart \/ ClientClosed
  <2>1. First
    BY DEF Commanded
  <2>2. CASE CreateQueue
    BY <1>1, <2>1, <2>2 DEF CreateQueue
  <2>3. CASE Accept \/ AcceptFails
    BY <1>1, <2>1, <2>3 DEF Accept, AcceptFails
  <2>4. CASE Send \/ SendPart
    BY <1>1, <2>1, <2>4 DEF Send, SendPart, Sending
  <2>5. CASE ClientClosed
    BY <1>1, <2>1, <2>5 DEF ClientClosed
  <2> QED
    BY <1>3, <2>2, <2>3, <2>4, <2>5
<1>4. CASE Configure \/ StartServer
  <2>1. server_fd' # -1 /\ UNCHANGED <<server_queue, wifi_up>>
        /\ spc' \in {"accept", "receive"} /\ spc \in {"configure", "start"}
    BY <1>4, Constants DEF Configure, StartServer, ConfigureServer
  <2> QED
    BY <1>1, <2>1
<1>5. CASE Shutdown
  BY <1>1, <1>5 DEF Shutdown
<1>6. CASE Receive
  <2>1. /\ server_queue # <<>> /\ server_queue' = Tail(server_queue)
        /\ spc' = Head(server_queue).type /\ spc = "receive"
        /\ UNCHANGED <<server_fd, client_fd, wifi_up>>
    BY <1>6 DEF Receive
  <2>2. spc' \in {"shutdown", "start", "closed", "to_client"}
    BY <1>0, <2>1, MessageType
  <2>3. CASE spc' = "shutdown"
    <3>1. Alternate(server_queue', TRUE) /\ (~wifi_up => EndsShut(server_queue', TRUE))
      BY <1>0, <2>1, <2>3, AlternateTail DEF Commanded
    <3>2. Down'
      BY <2>3
    <3> QED
      BY <2>1, <2>3, <3>1, <3>2 DEF Commanded, Alternate, EndsShut
  <2>4. CASE spc' = "start"
    <3>1. /\ Down /\ Alternate(server_queue', FALSE)
          /\ (~wifi_up => EndsShut(server_queue', FALSE))
      BY <1>0, <2>1, <2>4, AlternateTail DEF Commanded
    <3>2. server_fd' = -1
      BY <2>1, <3>1
    <3> QED
      BY <2>1, <2>4, <3>1, <3>2 DEF Commanded, Alternate, EndsShut
  <2>5. CASE spc' \in {"closed", "to_client"}
    <3>1. Alternate(server_queue', Down) /\ (~wifi_up => EndsShut(server_queue', Down))
      BY <1>0, <2>1, <2>5, AlternateTail DEF Commanded
    <3>2. Down' <=> Down
      BY <2>1, <2>5
    <3> QED
      BY <2>1, <2>5, <3>1, <3>2 DEF Commanded, Alternate, EndsShut
  <2> QED
    BY <2>2, <2>3, <2>4, <2>5
<1>7. ASSUME NEW k \in Conns, Client(k) PROVE Commanded'
  <2>1. CASE SendClosed(k)
    BY <1>2, <2>1, CommandType DEF SendClosed, Command
  <2>2. CASE ~SendClosed(k)
    <3>1. UNCHANGED <<server_queue, wifi_up, serverVars>>
      BY <1>7, <2>2 DEF Client, ClientStart, SendConnected, ReadRequest, ReadEnds,
         CloseClient, SendDisconnected
    <3> QED
      BY <1>1, <3>1 DEF Commanded
  <2> QED
    BY <2>1, <2>2
<1>8. CASE WifiConnected
  <2>1. ~wifi_up /\ wifi_up' /\ UNCHANGED <<server_fd, client_fd>>
    BY <1>8 DEF WifiConnected
  <2>2. CASE spc = "none"
    <3>1. spc' = "starting" /\ server_queue' = server_queue
      BY <1>8, <2>2 DEF WifiConnected
    <3> QED
      BY <2>1, <2>2, <3>1 DEF Commanded, Alternate
  <2>3. CASE spc # "none"
    <3>1. spc' = spc /\ (Down' <=> Down)
      BY <1>8, <2>1, <2>3 DEF WifiConnected
    <3>2. CASE server_queue' = server_queue
      BY <2>1, <2>3, <3>1, <3>2 DEF Commanded, Alternate
    <3>3. CASE server_queue' = Append(server_queue, Command("start"))
      <4>1. Alternate(server_queue', Down)
        BY <1>0, <2>1, <3>3, AlternateAppend, CommandType DEF Commanded, Command
      <4> QED
        BY <2>1, <2>3, <3>1, <4>1 DEF Commanded, Alternate
    <3> QED
      BY <1>8, <2>3, <3>2, <3>3 DEF WifiConnected, SendServerCommand, Enqueue
  <2> QED
    BY <2>2, <2>3
<1>9. CASE WifiDisconnected /\ ShutdownHeard
  <2>1. ~wifi_up' /\ spc \notin {"none", "starting"} /\ UNCHANGED serverVars
    BY <1>9 DEF WifiDisconnected, Commanded
  <2>2. server_queue' = Append(server_queue, Command("shutdown"))
    BY <1>9, <2>1 DEF WifiDisconnected, ShutdownHeard, SendServerCommand, Enqueue
  <2>3. Alternate(server_queue', Down) /\ EndsShut(server_queue', Down)
    BY <1>0, <2>2, AlternateAppend, CommandType DEF Commanded, Command
  <2> QED
    BY <2>1, <2>3 DEF Commanded, Alternate, EndsShut
<1>10. ASSUME NEW k \in Conns, Connect(k) \/ Request(k) \/ Leave(k) PROVE Commanded'
  BY <1>1, <1>10 DEF Connect, Request, Leave, Commanded
<1>11. CASE Answer
  <2> DEFINE m == [type |-> "to_client", for |-> Head(link)]
  <2>1. m \in Replies /\ m.type = "to_client"
    BY <1>0, <1>11 DEF Answer, Replies
  <2>2. server_queue' = Enqueue(server_queue, m) /\ UNCHANGED <<wifi_up, serverVars>>
    BY <1>11 DEF Answer, Enqueue
  <2> QED
    BY <1>2, <2>1, <2>2
<1>12. CASE SendFails \/ UNCHANGED vars
  BY <1>1, <1>12 DEF SendFails, vars, Commanded
<1> QED
  BY <1>3, <1>4, <1>5, <1>6, <1>7, <1>8, <1>9, <1>10, <1>11, <1>12
     DEF Next, Server, ShutdownHeard
-----------------------------------------------------------------------------
(***************************************************************************)
(* Descriptors.  The listening socket always gets the first one and a        *)
(* connection the second, because the server closes both before it listens   *)
(* again; so neither ever takes the number of the other.                     *)
(***************************************************************************)
Numbered ==
  /\ server_fd \in {-1, 0} /\ client_fd \in {-1, 1}
  /\ server_fd = -1 => client_fd = -1 /\ sock[0] = Free
  /\ server_fd = 0 => sock[0] \in {Listening, Unbound}
  /\ sock[1] \in {Free} \cup Conns
  /\ sock[1] # Free => client_fd = 1
  /\ \A f \in Fds : f > 1 => sock[f] = Free
  /\ spc = "accept" => client_fd = -1
Holds ==
  \A k \in Active : /\ ctask[k] \in {"hello", "read", "close"} => fd[k] = 1
                    /\ ctask[k] = "start" => params_fd = 1
                    /\ sock[1] \in {Free, k}
                    /\ ctask[k] = "bye" => sock[1] = Free

(* close() frees the descriptors it is given and touches no other.           *)
LEMMA CloseFrees ==
  ASSUME NEW F, Close(F), NEW f \in Fds
  PROVE  sock'[f] = IF f \in F THEN Free ELSE sock[f]
BY DEF Close

(* The lowest free descriptor, when the higher ones are known to be free.    *)
LEMMA Lowest ==
  ASSUME Numbered, NEW f \in Fds, IsNewFd(f)
  PROVE  /\ server_fd = -1 => f = 0
         /\ server_fd = 0 /\ client_fd = -1 => f = 1
<1>1. sock[f] = Free /\ \A g \in Fds : g < f => sock[g] # Free
  BY DEF IsNewFd
<1>2. 0 \in Fds /\ 1 \in Fds /\ f \in Nat
  BY Constants
<1>3. server_fd = -1 => f = 0
  <2>1. server_fd = -1 => ~(0 < f)
    BY <1>1, <1>2 DEF Numbered
  <2> QED
    BY <1>2, <2>1
<1>4. server_fd = 0 /\ client_fd = -1 => f = 1
  <2>1. server_fd = 0 => f # 0
    BY <1>1, <1>2 DEF Numbered, Listening, Unbound, Free
  <2>2. client_fd = -1 => ~(1 < f)
    BY <1>1, <1>2 DEF Numbered
  <2> QED
    BY <1>2, <2>1, <2>2
<1> QED
  BY <1>3, <1>4

LEMMA NumberedNext ==
  TInv /\ Turns /\ Commanded /\ Numbered /\ Holds /\ [Next]_vars => Numbered' /\ Holds'
<1> SUFFICES ASSUME TInv, Turns, Commanded, Numbered, Holds, [Next]_vars
             PROVE  Numbered' /\ Holds'
  OBVIOUS
<1> USE DEF serverVars, clientVars, netVars, wifiVars
<1>0. /\ sock \in [Fds -> {Free, Listening, Unbound} \cup Conns]
      /\ ctask \in [Conns -> {"none", "start", "hello", "read", "close", "bye",
                              "report", "deleted"}]
      /\ fd \in [Conns -> Fds \cup {-1}] /\ backlog \in Seq(Conns)
  BY DEF TInv, TypeOK
<1>00. 0 \in Fds /\ 1 \in Fds /\ 0 \notin Conns /\ Fds \subseteq Nat
  BY Constants
(* Nothing that matters changes.                                             *)
<1>1. ASSUME UNCHANGED <<server_fd, client_fd, sock>>, spc' = "accept" => client_fd = -1
      PROVE  Numbered'
  BY <1>1 DEF Numbered
<1>2. ASSUME UNCHANGED <<ctask, fd, params_fd, sock>> PROVE Holds'
  BY <1>2 DEF Holds, Active
<1>3. CASE CreateQueue \/ AcceptFails \/ Receive \/ Send \/ SendPart
  <2>1. UNCHANGED <<server_fd, client_fd, sock, ctask, fd, params_fd>>
    BY <1>3 DEF CreateQueue, AcceptFails, Receive, Send, SendPart
  <2>2. spc' # "accept"
    <3>1. CASE Receive
      <4>1. server_queue # <<>> /\ spc' = Head(server_queue).type
            /\ server_queue \in Seq(Commands \cup Replies)
        BY <3>1 DEF Receive, TInv, TypeOK
      <4> QED
        BY <4>1, TailType, MessageType
    <3> QED
      BY <1>3, <3>1 DEF CreateQueue, AcceptFails, Send, SendPart
  <2> QED
    BY <1>1, <1>2, <2>1, <2>2
<1>4. CASE Configure \/ StartServer
  <2>1. server_fd = -1 /\ client_fd = -1
    BY <1>4 DEF Configure, StartServer, Commanded, Numbered
  <2>2. PICK f \in Fds, s \in {Listening, Unbound} :
               IsNewFd(f) /\ server_fd' = f /\ sock' = [sock EXCEPT ![f] = s]
    BY <1>4 DEF Configure, StartServer, ConfigureServer
  <2>3. f = 0
    BY <2>1, <2>2, Lowest
  <2>4. UNCHANGED <<client_fd, ctask, fd, params_fd>>
    BY <1>4 DEF Configure, StartServer
  <2>5. sock'[0] = s /\ \A g \in Fds : g # 0 => sock'[g] = sock[g]
    BY <1>0, <1>00, <2>2, <2>3
  <2>6. Numbered'
    BY <1>00, <2>1, <2>2, <2>3, <2>4, <2>5 DEF Numbered
  <2>7. Holds'
    BY <1>00, <2>4, <2>5 DEF Holds, Active
  <2> QED
    BY <2>6, <2>7
<1>5. CASE Accept
  <2> DEFINE k == Head(backlog)
  <2>1. k \in Conns
    BY <1>0, <1>5 DEF Accept
  <2>2. server_fd = 0 /\ client_fd = -1 /\ server_fd' = 0
    <3>1. spc = "accept" /\ server_fd \in Fds /\ server_fd' = server_fd
      BY <1>5 DEF Accept, CanAccept
    <3> QED
      BY <3>1, Constants DEF Numbered
  <2>3. PICK f \in Fds : IsNewFd(f) /\ sock' = [sock EXCEPT ![f] = k]
                         /\ client_fd' = f /\ params_fd' = f
    BY <1>5 DEF Accept
  <2>4. f = 1
    BY <2>2, <2>3, Lowest
  <2>5. sock'[1] = k /\ \A g \in Fds : g # 1 => sock'[g] = sock[g]
    BY <1>0, <1>00, <2>3, <2>4
  <2>6. spc' # "accept"
    BY <1>5 DEF Accept
  <2> HIDE DEF k
  <2>7. Numbered'
    BY <1>00, <2>1, <2>2, <2>3, <2>4, <2>5, <2>6 DEF Numbered
  <2>8. \A j \in Active' : j = k /\ ctask'[j] = "start"
    <3>1. Active = {}
      BY <1>5 DEF Accept, Turns, ServersTurn
    <3>2. ctask' = [ctask EXCEPT ![k] = "start"] \/ ctask' = ctask
      BY <1>5 DEF Accept, k
    <3> QED
      BY <1>0, <2>1, <3>1, <3>2 DEF Active
  <2>9. Holds'
    BY <2>3, <2>4, <2>5, <2>8 DEF Holds
  <2> QED
    BY <2>7, <2>9
<1>6. CASE Shutdown
  <2>1. Close({client_fd, server_fd}) /\ client_fd' = -1 /\ server_fd' = -1
        /\ spc' = "receive" /\ UNCHANGED <<ctask, fd, params_fd>>
    BY <1>6 DEF Shutdown
  <2>2. sock'[0] = Free
    BY <1>00, <2>1, CloseFrees DEF Numbered
  <2>3. sock'[1] = Free
    BY <1>00, <2>1, CloseFrees DEF Numbered
  <2>4. \A f \in Fds : f > 1 => sock'[f] = Free
    BY <2>1, CloseFrees DEF Numbered
  <2>5. Numbered'
    BY <2>1, <2>2, <2>3, <2>4 DEF Numbered
  <2>6. Holds'
    BY <2>1, <2>3 DEF Holds, Active
  <2> QED
    BY <2>5, <2>6
<1>7. CASE ClientClosed
  <2>1. Close({client_fd}) /\ client_fd' = -1 /\ UNCHANGED <<server_fd, ctask, fd, params_fd>>
    BY <1>7 DEF ClientClosed
  <2>2. sock'[0] = sock[0]
    <3>1. 0 \notin {client_fd}
      BY DEF Numbered
    <3> QED
      BY <1>00, <2>1, <3>1, CloseFrees
  <2>3. sock'[1] = Free
    BY <1>00, <2>1, CloseFrees DEF Numbered
  <2>4. \A f \in Fds : f > 1 => sock'[f] = Free
    BY <2>1, CloseFrees DEF Numbered
  <2>5. Numbered'
    BY <2>1, <2>2, <2>3, <2>4 DEF Numbered
  <2>6. Holds'
    BY <2>1, <2>3 DEF Holds, Active
  <2> QED
    BY <2>5, <2>6
<1>8. ASSUME NEW k \in Conns, ClientStart(k) \/ SendConnected(k) \/ ReadRequest(k) \/ ReadEnds(k)
      PROVE  Numbered' /\ Holds'
  <2>1. UNCHANGED <<spc, server_fd, client_fd, params_fd, sock>>
    BY <1>8 DEF ClientStart, SendConnected, ReadRequest, ReadEnds
  <2>2. Active' = Active
    BY <1>0, <1>8 DEF ClientStart, SendConnected, ReadRequest, ReadEnds, Active
  <2>3. \A j \in Active : j = k
    BY <1>8, <2>2 DEF ClientStart, SendConnected, ReadRequest, ReadEnds, Active, Turns
  <2>4. Holds'
    <3>1. CASE ClientStart(k)
      BY <1>0, <2>1, <2>2, <2>3, <3>1 DEF ClientStart, Holds, Active
    <3>2. CASE SendConnected(k)
      BY <1>0, <2>1, <2>2, <2>3, <3>2 DEF SendConnected, Holds, Active
    <3>3. CASE ReadRequest(k)
      BY <1>2, <2>1, <3>3 DEF ReadRequest
    <3>4. CASE ReadEnds(k)
      BY <1>0, <2>1, <2>2, <2>3, <3>4 DEF ReadEnds, Holds, Active
    <3> QED
      BY <1>8, <3>1, <3>2, <3>3, <3>4
  <2> QED
    BY <1>1, <2>1, <2>4 DEF Numbered
<1>9. ASSUME NEW k \in Conns, CloseClient(k) PROVE Numbered' /\ Holds'
  <2>1. k \in Active /\ fd[k] = 1
    BY <1>9 DEF CloseClient, Active, Holds
  <2>2. Close({1}) /\ UNCHANGED <<spc, server_fd, client_fd, params_fd>>
    BY <1>9, <2>1 DEF CloseClient
  <2>3. sock'[0] = sock[0] /\ sock'[1] = Free
    BY <1>00, <2>2, CloseFrees
  <2>4. \A f \in Fds : f > 1 => sock'[f] = Free
    BY <2>2, CloseFrees DEF Numbered
  <2>5. Numbered'
    BY <2>2, <2>3, <2>4 DEF Numbered
  <2>6. \A j \in Active' : j = k /\ ctask'[j] = "bye"
    BY <1>0, <1>9, <2>1 DEF CloseClient, Active, Turns
  <2>7. Holds'
    BY <2>3, <2>6 DEF Holds
  <2> QED
    BY <2>5, <2>7
<1>10. ASSUME NEW k \in Conns, SendClosed(k) \/ SendDisconnected(k)
       PROVE  Numbered' /\ Holds'
  <2>1. UNCHANGED <<spc, server_fd, client_fd, params_fd, sock, fd>>
    BY <1>10 DEF SendClosed, SendDisconnected
  <2>2. \A j \in Active' : j \in Active /\ ctask'[j] = ctask[j]
    BY <1>0, <1>10 DEF SendClosed, SendDisconnected, Active
  <2>3. Holds'
    BY <2>1, <2>2 DEF Holds
  <2> QED
    BY <1>1, <2>1, <2>3 DEF Numbered
<1>11. CASE WifiConnected \/ WifiDisconnected \/ Answer
  <2>1. UNCHANGED <<server_fd, client_fd, sock, ctask, fd, params_fd>>
    BY <1>11 DEF WifiConnected, WifiDisconnected, Answer
  <2>2. spc' = "accept" => spc = "accept"
    BY <1>11 DEF WifiConnected, WifiDisconnected, Answer
  <2> QED
    BY <1>1, <1>2, <2>1, <2>2 DEF Numbered
<1>12. ASSUME NEW k \in Conns, Connect(k) \/ Request(k) \/ Leave(k)
       PROVE  Numbered' /\ Holds'
  BY <1>1, <1>2, <1>12 DEF Connect, Request, Leave, Numbered
<1>13. CASE SendFails \/ UNCHANGED vars
  BY <1>1, <1>2, <1>13 DEF SendFails, vars, Numbered
<1> QED
  BY <1>3, <1>4, <1>5, <1>6, <1>7, <1>8, <1>9, <1>10, <1>11, <1>12, <1>13
     DEF Next, Server, Client

LEMMA AlwaysNumbered ==
  Spec /\ [][ShutdownHeard]_vars => [](TInv /\ Turns /\ Commanded /\ Numbered /\ Holds)
<1> DEFINE Inv == TInv /\ Turns /\ Commanded /\ Numbered /\ Holds
<1>1. Init => Inv
  <2> SUFFICES ASSUME Init PROVE Inv
    OBVIOUS
  <2>1. TInv
    BY TInvInit
  <2>2. Turns
    BY DEF Init, Turns, Active, IsClosed
  <2>3. Commanded
    BY DEF Init, Commanded, Alternate, EndsShut, Down, Started
  <2>4. Numbered
    BY Constants DEF Init, Numbered
  <2>5. Holds
    BY DEF Init, Holds, Active
  <2> QED
    BY <2>1, <2>2, <2>3, <2>4, <2>5
<1>2. Inv /\ [Next /\ ShutdownHeard]_vars => Inv'
  <2>1. [Next /\ ShutdownHeard]_vars => [Next]_vars
    OBVIOUS
  <2> QED
    BY <2>1, TInvNext, TurnsNext, CommandedNext, NumberedNext
<1> QED
  BY <1>1, <1>2, PTL DEF Spec

(* As long as no shutdown command is dropped, no task reads, sends on or     *)
(* closes a descriptor that has become another connection's or the           *)
(* listening socket's.                                                       *)
THEOREM OwnDescriptors == Spec /\ [][ShutdownHeard]_vars => []DescriptorsOwned
<1>1. TInv /\ Turns /\ Commanded /\ Numbered /\ Holds => DescriptorsOwned
  <2> SUFFICES ASSUME Numbered, Holds PROVE DescriptorsOwned
    OBVIOUS
  <2>1. ASSUME NEW k \in Conns, ctask[k] \in {"hello", "read", "close"}
        PROVE  sock[fd[k]] \in {k, Free}
    BY <2>1 DEF Holds, Active
  <2>2. ASSUME NEW k \in Conns, ctask[k] = "start"
        PROVE  sock[params_fd] \in {k, Free}
    BY <2>2 DEF Holds, Active
  <2> QED
    BY <2>1, <2>2 DEF Numbered, DescriptorsOwned
<1> QED
  BY <1>1, AlwaysNumbered, PTL
-----------------------------------------------------------------------------
(***************************************************************************)
(* As long as the Wi-Fi connection has not been lost: the server never shuts *)
(* down or starts again, the client task and the server mean the same        *)
(* descriptor, and whoever closes it has seen its client leave.              *)
(***************************************************************************)
Current == sock[client_fd]
Connection == client_fd # -1 /\ Current # Free
Ended == \/ \E k \in Conns : ctask[k] = "bye"
         \/ \E i : IsClosed(server_queue, i)
         \/ spc = "closed"

UsesOne ==
  \A k \in Conns : /\ ctask[k] \in {"hello", "read", "close"} => fd[k] = client_fd
                   /\ ctask[k] = "start" => params_fd = client_fd
                   /\ ctask[k] = "close" /\ Connection => peer[Current] = "left"
NoneCut ==
  /\ \A k \in Conns : peer[k] # "kicked"
  /\ \A i \in DOMAIN backlog : peer[backlog[i]] # "none"
  /\ Connection => Current \in Conns /\ peer[Current] # "none"
Calm ==
  /\ spc \notin {"shutdown", "start"} /\ (spc # "none" => wifi_up)
  /\ \A i \in DOMAIN server_queue : server_queue[i].type \in {"closed", "to_client"}
  /\ ServersTurn /\ spc # "closed" => client_fd = -1
  /\ Ended => ~Connection
  /\ UsesOne /\ NoneCut

(* Closing the one connection cuts nobody off, if its client has left.       *)
LEMMA CloseLeft ==
  ASSUME TInv, client_fd # -1, Connection => Current \in Conns /\ peer[Current] # "connected",
         Close({client_fd})
  PROVE  sock' = [sock EXCEPT ![client_fd] = Free] /\ backlog' = backlog /\ peer' = peer
<1>1. /\ client_fd \in Fds /\ sock \in [Fds -> {Free, Listening, Unbound} \cup Conns]
      /\ peer \in [Conns -> {"none", "connected", "left", "kicked"}]
  BY DEF TInv, TypeOK
<1>2. \A f \in {client_fd} \cap Fds : f = client_fd
  OBVIOUS
<1>3. \A f \in {g \in {client_fd} \cap Fds : sock[g] # Free} :
        f = client_fd /\ sock[f] \in Conns /\ peer[sock[f]] # "connected"
  BY DEF Connection, Current
<1>4. ~\E f \in {g \in {client_fd} \cap Fds : sock[g] # Free} : sock[f] = Listening
  BY <1>3, Constants DEF Listening
<1>5. sock' = [sock EXCEPT ![client_fd] = Free]
  BY <1>1 DEF Close
<1>6. backlog' = backlog
  BY <1>4 DEF Close
<1>7. peer' = peer
  BY <1>1, <1>3, <1>4 DEF Close
<1> QED
  BY <1>5, <1>6, <1>7

(* Closing no connection does nothing.                                       *)
LEMMA CloseNothing ==
  ASSUME TInv, ~Connection, Close({client_fd})
  PROVE  UNCHANGED <<sock, backlog, peer>>
<1>1. /\ client_fd \in Fds \cup {-1} /\ sock \in [Fds -> {Free, Listening, Unbound} \cup Conns]
      /\ peer \in [Conns -> {"none", "connected", "left", "kicked"}]
  BY DEF TInv, TypeOK
<1>2. CASE client_fd # -1
  <2>1. sock' = [sock EXCEPT ![client_fd] = Free] /\ backlog' = backlog /\ peer' = peer
    BY <1>2, CloseLeft
  <2>2. sock[client_fd] = Free
    BY <1>2 DEF Connection, Current
  <2> QED
    BY <1>1, <2>1, <2>2
<1>3. CASE client_fd = -1
  <2>1. {client_fd} \cap Fds = {} /\ \A f \in Fds : f \notin {client_fd}
    BY <1>3, Constants
  <2>2. sock' = sock
    BY <1>1, <2>1 DEF Close
  <2>3. backlog' = backlog /\ peer' = peer
    BY <1>1, <2>1 DEF Close
  <2> QED
    BY <2>2, <2>3
<1> QED
  BY <1>2, <1>3

LEMMA EnqueueQuiet ==
  ASSUME NEW q \in Seq(Commands \cup Replies), NEW m \in Commands \cup Replies, NEW T,
         m.type \in T, \A i \in DOMAIN q : q[i].type \in T
  PROVE  \A i \in DOMAIN Enqueue(q, m) : Enqueue(q, m)[i].type \in T
BY EnqueueHolds

LEMMA AppendHolds ==
  ASSUME NEW S, NEW q \in Seq(S), NEW m \in S, NEW i \in DOMAIN Append(q, m)
  PROVE  (i \in DOMAIN q /\ Append(q, m)[i] = q[i]) \/ Append(q, m)[i] = m
OBVIOUS

LEMMA CalmNext == TInv /\ Turns /\ Calm /\ [Next]_vars /\ ~WifiDisconnected => Calm'
<1> SUFFICES ASSUME TInv, Turns, Calm, [Next]_vars, ~WifiDisconnected PROVE Calm'
  OBVIOUS
<1> USE DEF serverVars, clientVars, netVars, wifiVars
<1>0. /\ sock \in [Fds -> {Free, Listening, Unbound} \cup Conns]
      /\ ctask \in [Conns -> {"none", "start", "hello", "read", "close", "bye",
                              "report", "deleted"}]
      /\ fd \in [Conns -> Fds \cup {-1}] /\ backlog \in Seq(Conns)
      /\ peer \in [Conns -> {"none", "connected", "left", "kicked"}]
      /\ server_queue \in Seq(Commands \cup Replies) /\ link \in Seq(Conns)
      /\ client_fd \in Fds \cup {-1}
      /\ \A k \in Conns : ctask[k] \in {"hello", "read", "close"} => fd[k] \in Fds
  BY DEF TInv, TypeOK
(* What a step leaves alone stays true.                                      *)
<1> DEFINE Control == /\ spc \notin {"shutdown", "start"} /\ (spc # "none" => wifi_up)
                      /\ ServersTurn /\ spc # "closed" => client_fd = -1
           Messages == \A i \in DOMAIN server_queue :
                         server_queue[i].type \in {"closed", "to_client"}
<1>1. Control /\ Messages
  BY DEF Calm
<1>2. UNCHANGED server_queue => Messages'
  BY DEF Calm
<1>3. UNCHANGED <<client_fd, sock, peer, ctask, fd, params_fd>> => UsesOne'
  BY DEF Calm, UsesOne, Connection, Current
<1>4. UNCHANGED <<client_fd, sock, peer, backlog>> => NoneCut'
  BY DEF Calm, NoneCut, Connection, Current
<1>5. ASSUME UNCHANGED <<client_fd, sock>>, Ended' => Ended PROVE Ended' => ~Connection'
  BY <1>5 DEF Calm, Connection, Current
<1>6. UNCHANGED <<ctask, server_queue>> /\ (spc' = spc \/ spc' # "closed") => (Ended' => Ended)
  BY DEF Ended
<1>7. Control' /\ Messages' /\ (Ended' => ~Connection') /\ UsesOne' /\ NoneCut' => Calm'
  BY DEF Calm
<1> HIDE DEF Control, Messages
<1>8. CASE CreateQueue \/ AcceptFails \/ Send \/ SendPart \/ SendFails \/ UNCHANGED vars
  <2>1. UNCHANGED <<client_fd, sock, peer, ctask, fd, params_fd, server_queue, backlog, wifi_up>>
    BY <1>8 DEF CreateQueue, AcceptFails, Send, SendPart, SendFails, vars
  <2>2. spc' = spc \/ spc' \in {"configure", "returned", "receive", "to_client_rest"}
    BY <1>8 DEF CreateQueue, AcceptFails, Send, SendPart, SendFails, vars
  <2>3. Control'
    BY <1>1, <1>8, <2>1 DEF Control, ServersTurn, CreateQueue, AcceptFails, Send, SendPart,
       SendFails, Sending, vars
  <2> QED
    BY <1>2, <1>3, <1>4, <1>5, <1>6, <1>7, <2>1, <2>2, <2>3
<1>9. CASE Configure
  <2>1. client_fd = -1 /\ client_fd' = -1 /\ spc' = "accept" /\ wifi_up'
        /\ UNCHANGED <<peer, ctask, fd, params_fd, server_queue, backlog>>
    BY <1>1, <1>9 DEF Configure, Control, ServersTurn
  <2>2. Control' /\ Messages' /\ ~Connection'
    BY <1>2, <2>1 DEF Control, Connection
  <2>3. UsesOne' /\ NoneCut'
    BY <2>1, <2>2 DEF Calm, UsesOne, NoneCut
  <2> QED
    BY <1>7, <2>2, <2>3
<1>10. CASE Accept
  <2> DEFINE k == Head(backlog)
  <2>1. k \in Conns /\ backlog' = Tail(backlog) /\ backlog # <<>>
        /\ UNCHANGED <<server_queue, peer, fd>> /\ spc = "accept" /\ spc' = "receive"
        /\ wifi_up'
    BY <1>0, <1>1, <1>10 DEF Accept, Control
  <2>2. PICK f \in Fds : sock' = [sock EXCEPT ![f] = k] /\ client_fd' = f /\ params_fd' = f
    BY <1>10 DEF Accept
  <2>3. sock'[f] = k
    BY <1>0, <2>2
  <2>4. peer[k] # "none"
    <3>1. 1 \in DOMAIN backlog /\ k = backlog[1]
      BY <1>0, <2>1
    <3> QED
      BY <3>1 DEF Calm, NoneCut
  <2>5. \A i \in DOMAIN backlog' : peer[backlog'[i]] # "none"
    <3> SUFFICES ASSUME NEW i \in DOMAIN Tail(backlog) PROVE peer[Tail(backlog)[i]] # "none"
      BY <2>1
    <3>1. i + 1 \in DOMAIN backlog /\ Tail(backlog)[i] = backlog[i + 1]
      BY <1>0, <2>1, TailHolds
    <3> QED
      BY <3>1 DEF Calm, NoneCut
  <2>6. Active = {} /\ ~\E i : IsClosed(server_queue, i)
    BY <2>1 DEF Turns, ServersTurn
  <2>7. ctask' = [ctask EXCEPT ![k] = "start"] \/ ctask' = ctask
    BY <1>10 DEF Accept
  <2> HIDE DEF k
  <2>8. \A j \in Conns : ctask'[j] \notin {"hello", "read", "close", "bye"}
    BY <1>0, <2>1, <2>6, <2>7 DEF Active
  <2>9. Control' /\ Messages' /\ ~Ended'
    BY <1>2, <2>1, <2>6, <2>8 DEF Control, Ended, ServersTurn
  <2>10. UsesOne'
    BY <2>2, <2>8 DEF UsesOne
  <2>11. NoneCut'
    BY <2>1, <2>2, <2>3, <2>4, <2>5 DEF Calm, NoneCut, Connection, Current
  <2> QED
    BY <1>7, <2>9, <2>10, <2>11
<1>11. CASE Receive
  <2>1. /\ server_queue # <<>> /\ server_queue' = Tail(server_queue)
        /\ spc' = Head(server_queue).type /\ spc = "receive"
        /\ UNCHANGED <<client_fd, sock, peer, ctask, fd, params_fd, backlog, wifi_up>>
    BY <1>11 DEF Receive
  <2>2. 1 \in DOMAIN server_queue /\ Head(server_queue) = server_queue[1]
    BY <1>0, <2>1
  <2>3. \A i \in DOMAIN server_queue' : i + 1 \in DOMAIN server_queue
                                        /\ server_queue'[i] = server_queue[i + 1]
    BY <1>0, <2>1, TailHolds
  <2>4. Messages'
    BY <1>1, <2>3 DEF Messages
  <2>5. Control'
    BY <1>1, <2>1, <2>2 DEF Control, Messages, ServersTurn
  <2>6. Ended' => Ended
    <3>1. spc' = "closed" => IsClosed(server_queue, 1)
      BY <2>1, <2>2 DEF IsClosed
    <3>2. \A i : IsClosed(server_queue', i) => IsClosed(server_queue, i + 1)
      BY <2>3 DEF IsClosed
    <3> QED
      BY <2>1, <3>1, <3>2 DEF Ended
  <2> QED
    BY <1>3, <1>4, <1>5, <1>7, <2>1, <2>4, <2>5, <2>6
<1>12. CASE Shutdown \/ StartServer
  BY <1>1, <1>12 DEF Shutdown, StartServer, Control
<1>13. CASE ClientClosed
  <2>1. Close({client_fd}) /\ client_fd' = -1 /\ spc' = "accept" /\ spc = "closed"
        /\ UNCHANGED <<server_queue, ctask, fd, params_fd, wifi_up>>
    BY <1>13 DEF ClientClosed
  <2>2. UNCHANGED <<sock, backlog, peer>>
    BY <2>1, CloseNothing DEF Calm, Ended
  <2>3. Active = {} /\ ~Connection'
    BY <2>1 DEF Turns, ServersTurn, Connection
  <2>4. Control' /\ Messages'
    BY <1>1, <1>2, <2>1 DEF Control
  <2>5. UsesOne' /\ NoneCut'
    BY <2>1, <2>2, <2>3 DEF Calm, UsesOne, NoneCut, Active
  <2> QED
    BY <1>7, <2>3, <2>4, <2>5
<1>14. ASSUME NEW k \in Conns,
              ClientStart(k) \/ SendConnected(k) \/ ReadEnds(k) \/ SendDisconnected(k)
       PROVE  Calm'
  <2>1. UNCHANGED <<spc, client_fd, params_fd, sock, peer, backlog, server_queue, wifi_up>>
    BY <1>14 DEF ClientStart, SendConnected, ReadEnds, SendDisconnected
  <2>2. Control' /\ Messages' /\ NoneCut'
    BY <1>1, <1>2, <1>4, <2>1 DEF Control, ServersTurn
  <2>3. Ended' => Ended
    BY <1>0, <1>14, <2>1 DEF Ended, ClientStart, SendConnected, ReadEnds, SendDisconnected
  <2>4. UsesOne'
    <3>1. CASE ClientStart(k)
      BY <1>0, <2>1, <3>1 DEF ClientStart, Calm, UsesOne, Connection, Current
    <3>2. CASE SendConnected(k)
      BY <1>0, <2>1, <3>2 DEF SendConnected, Calm, UsesOne, Connection, Current
    <3>3. CASE ReadEnds(k)
      <4>1. fd[k] = client_fd
        BY <3>3 DEF ReadEnds, Calm, UsesOne
      <4>2. Connection => peer[Current] = "left"
        BY <1>0, <3>3, <4>1 DEF ReadEnds, Calm, NoneCut, Current
      <4> QED
        BY <1>0, <2>1, <3>3, <4>1, <4>2 DEF ReadEnds, Calm, UsesOne, Connection, Current
    <3>4. CASE SendDisconnected(k)
      BY <1>0, <2>1, <3>4 DEF SendDisconnected, Calm, UsesOne, Connection, Current
    <3> QED
      BY <1>14, <3>1, <3>2, <3>3, <3>4
  <2> QED
    BY <1>5, <1>7, <2>1, <2>2, <2>3, <2>4
<1>15. ASSUME NEW k \in Conns, ReadRequest(k) PROVE Calm'
  <2>1. UNCHANGED <<spc, client_fd, params_fd, sock, peer, backlog, server_queue, wifi_up,
                    ctask, fd>>
    BY <1>15 DEF ReadRequest
  <2> QED
    BY <1>1, <1>2, <1>3, <1>4, <1>5, <1>6, <1>7, <2>1 DEF Control, ServersTurn
<1>16. ASSUME NEW k \in Conns, CloseClient(k) PROVE Calm'
  <2>1. fd[k] = client_fd /\ client_fd \in Fds /\ client_fd # -1
    BY <1>0, <1>16, Constants DEF CloseClient, Calm, UsesOne
  <2>2. Connection => Current \in Conns /\ peer[Current] # "connected"
    BY <1>16 DEF CloseClient, Calm, UsesOne, NoneCut
  <2>3. Close({client_fd}) /\ UNCHANGED <<spc, client_fd, params_fd, server_queue, wifi_up>>
    BY <1>16, <2>1 DEF CloseClient
  <2>4. sock' = [sock EXCEPT ![client_fd] = Free] /\ UNCHANGED <<backlog, peer>>
    BY <2>1, <2>2, <2>3, CloseLeft
  <2>5. ~Connection'
    BY <1>0, <2>1, <2>3, <2>4 DEF Connection, Current
  <2>6. \A j \in Conns : ctask'[j] \notin {"start", "hello", "read", "close"}
    BY <1>0, <1>16 DEF CloseClient, Turns, Active
  <2>7. Control' /\ Messages'
    BY <1>1, <1>2, <2>3 DEF Control, ServersTurn
  <2>8. UsesOne' /\ NoneCut'
    BY <2>4, <2>5, <2>6 DEF Calm, UsesOne, NoneCut
  <2> QED
    BY <1>7, <2>5, <2>7, <2>8
<1>17. ASSUME NEW k \in Conns, SendClosed(k) PROVE Calm'
  <2>1. UNCHANGED <<spc, client_fd, params_fd, sock, peer, backlog, wifi_up, fd>>
        /\ server_queue' = Enqueue(server_queue, Command("closed"))
    BY <1>17 DEF SendClosed
  <2>2. Ended
    BY <1>17 DEF SendClosed, Ended
  <2>3. ~Connection'
    BY <2>1, <2>2 DEF Calm, Connection, Current
  <2>4. Messages'
    <3>1. Command("closed") \in Commands \cup Replies
          /\ Command("closed").type \in {"closed", "to_client"}
      BY CommandType DEF Command
    <3> QED
      BY <1>0, <1>1, <2>1, <3>1, EnqueueQuiet DEF Messages
  <2>5. Control' /\ NoneCut'
    BY <1>1, <1>4, <2>1 DEF Control, ServersTurn
  <2>6. UsesOne'
    BY <1>0, <1>17, <2>1, <2>3 DEF SendClosed, Calm, UsesOne
  <2> QED
    BY <1>7, <2>3, <2>4, <2>5, <2>6
<1>18. CASE WifiConnected
  <2>1. spc = "none" /\ spc' = "starting" /\ wifi_up'
        /\ UNCHANGED <<client_fd, params_fd, sock, peer, backlog, server_queue, ctask, fd>>
    BY <1>1, <1>18 DEF WifiConnected, Control
  <2>2. Control'
    BY <1>1, <2>1 DEF Control, ServersTurn
  <2> QED
    BY <1>2, <1>3, <1>4, <1>5, <1>6, <1>7, <2>1, <2>2
<1>19. ASSUME NEW k \in Conns, Connect(k) \/ Request(k) \/ Leave(k) PROVE Calm'
  <2>1. UNCHANGED <<spc, client_fd, params_fd, sock, server_queue, wifi_up, ctask, fd>>
    BY <1>19 DEF Connect, Request, Leave
  <2>2. \/ peer[k] = "none" /\ peer' = [peer EXCEPT ![k] = "connected"]
           /\ backlog' = Append(backlog, k)
        \/ peer' = peer /\ backlog' = backlog
        \/ peer' = [peer EXCEPT ![k] = "left"] /\ backlog' = backlog
    BY <1>19 DEF Connect, Request, Leave
  <2>3. \A i \in DOMAIN backlog' : \/ i \in DOMAIN backlog /\ backlog'[i] = backlog[i]
                                   \/ backlog'[i] = k /\ peer'[k] # "none"
    BY <1>0, <2>2
  <2>4. \A j \in Conns : peer'[j] # "kicked" /\ (peer[j] # "none" => peer'[j] # "none")
                         /\ (peer[j] = "left" => peer'[j] = "left")
    BY <1>0, <2>2 DEF Calm, NoneCut
  <2>5. \A i \in DOMAIN backlog' : peer'[backlog'[i]] # "none"
    BY <1>0, <2>3, <2>4 DEF Calm, NoneCut
  <2>6. NoneCut'
    BY <2>1, <2>4, <2>5 DEF Calm, NoneCut, Connection, Current
  <2>7. UsesOne'
    BY <2>1, <2>4 DEF Calm, UsesOne, NoneCut, Connection, Current
  <2> QED
    BY <1>1, <1>2, <1>5, <1>6, <1>7, <2>1, <2>6, <2>7 DEF Control, ServersTurn
<1>20. CASE Answer
  <2> DEFINE m == [type |-> "to_client", for |-> Head(link)]
  <2>1. m \in Commands \cup Replies /\ m.type = "to_client"
    BY <1>0, <1>20 DEF Answer, Replies
  <2>2. server_queue' = Enqueue(server_queue, m)
        /\ UNCHANGED <<spc, client_fd, params_fd, sock, peer, backlog, wifi_up, ctask, fd>>
    BY <1>20 DEF Answer, Enqueue
  <2> HIDE DEF m
  <2>3. Messages'
    BY <1>0, <1>1, <2>1, <2>2, EnqueueQuiet DEF Messages
  <2>4. Ended' => Ended
    <3>1. \A i : IsClosed(server_queue', i) => IsClosed(server_queue, i)
      BY <1>0, <2>1, <2>2, EnqueueClosed
    <3> QED
      BY <2>2, <3>1 DEF Ended
  <2> QED
    BY <1>1, <1>3, <1>4, <1>5, <1>7, <2>2, <2>3, <2>4 DEF Control, ServersTurn
<1> QED
  BY <1>8, <1>9, <1>10, <1>11, <1>12, <1>13, <1>14, <1>15, <1>16, <1>17, <1>18, <1>19,
     <1>20 DEF Next, Server, Client
(* Only the loss of the Wi-Fi connection counts, and only a send answers.    *)
LEMMA DropsOnly == [Next]_vars /\ ~WifiDisconnected => drops' = drops
BY DEF Next, vars, serverVars, clientVars, netVars, wifiVars, Server, CreateQueue, Configure,
   Accept, AcceptFails, Receive, Send, SendPart, SendFails, Shutdown, StartServer,
   ClientClosed, WifiConnected, Answer, Client, ClientStart, SendConnected, ReadRequest,
   ReadEnds, CloseClient, SendClosed, SendDisconnected, Connect, Request, Leave

LEMMA GotOnly == [Next]_vars /\ ~Send => got' = got
BY DEF Next, vars, serverVars, clientVars, netVars, wifiVars, Server, CreateQueue, Configure,
   Accept, AcceptFails, Receive, SendPart, SendFails, Shutdown, StartServer,
   ClientClosed, WifiConnected, WifiDisconnected, Answer, Client, ClientStart, SendConnected,
   ReadRequest, ReadEnds, CloseClient, SendClosed, SendDisconnected, Connect, Request, Leave

LEMMA AlwaysCalm == Spec => [](TInv /\ Turns /\ (drops = 0 => Calm))
<1> DEFINE Inv == TInv /\ Turns /\ (drops = 0 => Calm)
<1>1. Init => Inv
  <2> SUFFICES ASSUME Init PROVE Inv
    OBVIOUS
  <2>1. TInv
    BY TInvInit
  <2>2. Turns
    BY DEF Init, Turns, Active, IsClosed
  <2>3. Calm
    BY DEF Init, Calm, UsesOne, NoneCut, Connection, Ended, IsClosed
  <2> QED
    BY <2>1, <2>2, <2>3
<1>2. Inv /\ [Next]_vars => Inv'
  <2> SUFFICES ASSUME Inv, [Next]_vars, drops' = 0 PROVE Calm'
    BY TInvNext, TurnsNext
  <2>1. ~WifiDisconnected
    BY DEF WifiDisconnected, TInv, TypeOK
  <2>2. drops = 0
    BY <2>1, DropsOnly
  <2> QED
    BY <2>1, <2>2, CalmNext
<1> QED
  BY <1>1, <1>2, PTL DEF Spec

(* Until the Wi-Fi connection is lost the adapter ends no connection: not    *)
(* the server, which closes the descriptor a second time, nor a client task. *)
THEOREM KeepsClients == Spec => [](drops = 0 => ClientKept)
<1>1. Calm => ClientKept
  BY DEF Calm, NoneCut, ClientKept
<1> QED
  BY <1>1, AlwaysCalm, PTL
-----------------------------------------------------------------------------
(***************************************************************************)
(* Answers.  While a client is connected, all that is on its way, in ctxLink *)
(* or in the server's queue, is its own, and is what it asked and has not    *)
(* received; so when it has its answers and leaves, nothing is left for the  *)
(* next one.                                                                 *)
(***************************************************************************)
Count == Len(server_queue) + Len(link) + (IF Sending THEN 1 ELSE 0)

Mine ==
  /\ \A i \in DOMAIN server_queue : /\ server_queue[i].type = "to_client"
                                    /\ server_queue[i].for = Current
  /\ \A i \in DOMAIN link : link[i] = Current
  /\ Sending => message.for = Current
  /\ Len(got[Current]) + unread[Current] + Count = asked[Current]
Nothing ==
  /\ \A i \in DOMAIN server_queue : server_queue[i].type = "closed"
  /\ link = <<>> /\ ~Sending
Others ==
  \A k \in Conns : /\ ~(Connection /\ k = Current) => Len(got[k]) + unread[k] = asked[k]
                   /\ peer[k] = "none" => asked[k] = 0
                   /\ peer[k] = "left" => Len(got[k]) = asked[k]
Owed == (Connection => Mine) /\ (~Connection => Nothing) /\ Others

(* A client that has all its answers has none on the way.                    *)
LEMMA NoneOwed ==
  ASSUME TInv, Mine, Current \in Conns, Len(got[Current]) = asked[Current]
  PROVE  server_queue = <<>> /\ link = <<>> /\ ~Sending /\ unread[Current] = 0
<1>1. /\ server_queue \in Seq(Commands \cup Replies) /\ link \in Seq(Conns)
      /\ got[Current] \in Seq(Conns) /\ unread[Current] \in Nat /\ asked[Current] \in Nat
  BY GdbServerAssumption DEF TInv, TypeOK
<1>2. /\ Len(server_queue) \in Nat /\ Len(link) \in Nat /\ Len(got[Current]) \in Nat
  BY <1>1
<1>3. Len(got[Current]) + unread[Current] + Count = asked[Current]
  BY DEF Mine
<1>4. Count = Len(server_queue) + Len(link) + (IF Sending THEN 1 ELSE 0) /\ Count \in Nat
  BY <1>2 DEF Count
<1>5. Count = 0 /\ unread[Current] = 0
  BY <1>1, <1>2, <1>3, <1>4
<1>6. ~Sending /\ Len(server_queue) = 0 /\ Len(link) = 0
  BY <1>2, <1>4, <1>5
<1> QED
  BY <1>1, <1>5, <1>6

LEMMA OneOver ==
  ASSUME NEW a \in Nat, NEW b \in Nat, NEW c \in Nat
  PROVE  a + (b - 1) + (c + 1) = a + b + c
OBVIOUS

LEMMA OwedNext ==
  ASSUME Polite
  PROVE  TInv /\ Turns /\ Calm /\ Owed /\ [Next]_vars /\ ~WifiDisconnected => Owed'
<1> SUFFICES ASSUME TInv, Turns, Calm, Owed, [Next]_vars, ~WifiDisconnected PROVE Owed'
  OBVIOUS
<1> USE DEF serverVars, clientVars, netVars, wifiVars
<1>0. /\ sock \in [Fds -> {Free, Listening, Unbound} \cup Conns]
      /\ ctask \in [Conns -> {"none", "start", "hello", "read", "close", "bye",
                              "report", "deleted"}]
      /\ backlog \in Seq(Conns) /\ peer \in [Conns -> {"none", "connected", "left", "kicked"}]
      /\ server_queue \in Seq(Commands \cup Replies) /\ link \in Seq(Conns)
      /\ client_fd \in Fds \cup {-1}
      /\ unread \in [Conns -> Nat] /\ asked \in [Conns -> Nat] /\ got \in [Conns -> Seq(Conns)]
      /\ \A k \in Conns : Len(got[k]) \in Nat
      /\ Len(server_queue) \in Nat /\ Len(link) \in Nat
  BY GdbServerAssumption DEF TInv, TypeOK
<1>00. Connection => Current \in Conns
  BY DEF Calm, NoneCut
<1>1. ASSUME UNCHANGED <<client_fd, sock, server_queue, link, message, got, unread, asked, peer>>,
             Sending' = Sending
      PROVE  Owed'
  BY <1>1 DEF Owed, Mine, Nothing, Others, Count, Connection, Current
<1>2. CASE CreateQueue \/ AcceptFails \/ SendPart \/ SendFails \/ WifiConnected \/ UNCHANGED vars
  <2>1. UNCHANGED <<client_fd, sock, link, message, got, unread, asked, peer>>
    BY <1>2 DEF CreateQueue, AcceptFails, SendPart, SendFails, WifiConnected, vars
  <2>2. Sending' = Sending /\ UNCHANGED server_queue
    BY <1>2 DEF CreateQueue, AcceptFails, SendPart, SendFails, WifiConnected, vars, Sending, Calm
  <2> QED
    BY <1>1, <2>1, <2>2
<1>3. CASE Configure
  <2>1. client_fd = -1 /\ client_fd' = -1 /\ spc = "configure" /\ spc' = "accept"
        /\ UNCHANGED <<server_queue, link, got, unread, asked, peer>>
    BY <1>3 DEF Configure, Calm, ServersTurn
  <2> QED
    BY <2>1 DEF Owed, Nothing, Others, Connection, Sending
<1>4. CASE Accept
  <2> DEFINE k == Head(backlog)
  <2>1. /\ k \in Conns /\ spc = "accept" /\ spc' = "receive" /\ client_fd = -1
        /\ UNCHANGED <<server_queue, link, got, unread, asked, peer>>
    BY <1>0, <1>4 DEF Accept, Calm, ServersTurn
  <2>2. PICK f \in Fds : sock' = [sock EXCEPT ![f] = k] /\ client_fd' = f
    BY <1>4 DEF Accept
  <2>3. Current' = k
    BY <1>0, <2>2 DEF Current
  <2>4. ~Connection /\ Nothing
    BY <2>1 DEF Owed, Connection
  <2>5. server_queue = <<>>
    <3>1. \A i : ~IsClosed(server_queue, i)
      BY <2>1 DEF Turns, ServersTurn
    <3>2. DOMAIN server_queue = {}
      BY <2>4, <3>1 DEF Nothing, IsClosed
    <3> QED
      BY <1>0, <3>2
  <2>6. Mine'
    <3>1. Len(got[k]) + unread[k] = asked[k]
      BY <2>1, <2>4 DEF Owed, Others
    <3>2. Count' = 0 /\ ~Sending'
      BY <2>1, <2>4, <2>5 DEF Count, Nothing, Sending
    <3> HIDE DEF k
    <3> QED
      BY <1>0, <2>1, <2>3, <2>4, <2>5, <3>1, <3>2 DEF Mine, Nothing
  <2>7. Connection' /\ Others'
    <3>1. Connection'
      BY <2>1, <2>2, <2>3, Constants DEF Connection, Free
    <3> HIDE DEF k
    <3> QED
      BY <2>1, <2>4, <3>1 DEF Owed, Others
  <2> QED
    BY <2>6, <2>7 DEF Owed
<1>5. CASE Receive
  <2>1. /\ server_queue # <<>> /\ server_queue' = Tail(server_queue)
        /\ message' = Head(server_queue) /\ spc' = message'.type /\ spc = "receive"
        /\ UNCHANGED <<client_fd, sock, link, got, unread, asked, peer>>
    BY <1>5 DEF Receive
  <2>2. 1 \in DOMAIN server_queue /\ message' = server_queue[1]
        /\ Len(server_queue') = Len(server_queue) - 1
    BY <1>0, <2>1
  <2>3. \A i \in DOMAIN server_queue' : i + 1 \in DOMAIN server_queue
                                        /\ server_queue'[i] = server_queue[i + 1]
    BY <1>0, <2>1, TailHolds
  <2>4. ~Sending /\ Current' = Current /\ Connection' = Connection
    BY <2>1 DEF Sending, Current, Connection
  <2>5. CASE Connection
    <3>1. Sending' /\ message'.for = Current /\ Mine
      BY <2>1, <2>2, <2>5 DEF Owed, Mine, Sending
    <3>2. Count' = Count
      BY <1>0, <2>1, <2>2, <2>4, <3>1 DEF Count
    <3>3. Mine'
      BY <2>1, <2>3, <2>4, <3>1, <3>2 DEF Mine
    <3> QED
      BY <2>1, <2>4, <2>5, <3>3 DEF Owed, Others
  <2>6. CASE ~Connection
    <3>1. ~Sending' /\ Nothing
      BY <2>1, <2>2, <2>6 DEF Owed, Nothing, Sending
    <3>2. Nothing'
      BY <2>1, <2>3, <3>1 DEF Nothing
    <3> QED
      BY <2>1, <2>4, <2>6, <3>2 DEF Owed, Others
  <2> QED
    BY <2>5, <2>6
<1>6. CASE Send
  <2>1. /\ Sending /\ Current \in Conns /\ ~Sending'
        /\ got' = [got EXCEPT ![Current] = Append(@, message.for)]
        /\ UNCHANGED <<client_fd, sock, server_queue, link, message, unread, asked, peer>>
    BY <1>6 DEF Send, CanSend, Sending, Current
  <2>2. Connection /\ Mine /\ Connection' /\ Current' = Current
    BY <2>1 DEF Owed, Nothing, Connection, Current
  <2>3. Len(got'[Current]) = Len(got[Current]) + 1
        /\ \A k \in Conns : k # Current => got'[k] = got[k]
    <3>1. message.for \in Conns
      BY <2>1, <2>2 DEF Mine
    <3> QED
      BY <1>0, <2>1, <3>1
  <2>4. Count' = Count - 1 /\ Count \in Nat
    BY <1>0, <2>1 DEF Count
  <2>5. Mine'
    BY <1>0, <2>1, <2>2, <2>3, <2>4 DEF Mine
  <2>6. Len(got[Current]) # asked[Current]
    BY <2>1, <2>2, NoneOwed
  <2>7. Others'
    BY <2>1, <2>2, <2>3, <2>6 DEF Owed, Others, Mine
  <2> QED
    BY <2>2, <2>5, <2>7 DEF Owed
<1>7. CASE Shutdown \/ StartServer
  BY <1>7 DEF Shutdown, StartServer, Calm
<1>8. CASE ClientClosed
  <2>1. Close({client_fd}) /\ client_fd' = -1 /\ spc' = "accept" /\ spc = "closed"
        /\ UNCHANGED <<server_queue, link, got, unread, asked>>
    BY <1>8 DEF ClientClosed
  <2>2. ~Connection /\ ~Connection'
    BY <2>1 DEF Calm, Ended, Connection
  <2>3. peer' = peer
    BY <2>1, <2>2, CloseNothing
  <2> QED
    BY <2>1, <2>2, <2>3 DEF Owed, Nothing, Others, Sending
<1>9. ASSUME NEW k \in Conns,
             ClientStart(k) \/ SendConnected(k) \/ ReadEnds(k) \/ SendDisconnected(k)
      PROVE  Owed'
  <2>1. UNCHANGED <<spc, client_fd, sock, server_queue, link, message, got, unread, asked, peer>>
    BY <1>9 DEF ClientStart, SendConnected, ReadEnds, SendDisconnected
  <2> QED
    BY <1>1, <2>1 DEF Sending
<1>10. ASSUME NEW k \in Conns, ReadRequest(k) PROVE Owed'
  <2>1. fd[k] = client_fd /\ client_fd # -1
    <3>1. ctask[k] = "read" /\ fd[k] \in Fds
      BY <1>10 DEF ReadRequest, TInv, TypeOK
    <3> QED
      BY <3>1, Constants DEF Calm, UsesOne
  <2>2. /\ Current \in Conns /\ unread[Current] > 0 /\ link' = Append(link, Current)
        /\ unread' = [unread EXCEPT ![Current] = @ - 1]
        /\ UNCHANGED <<spc, client_fd, sock, server_queue, message, got, asked, peer>>
    BY <1>10, <2>1 DEF ReadRequest, Current
  <2>3. Connection /\ Mine /\ Connection' /\ Current' = Current /\ Sending' = Sending
    BY <2>1, <2>2, Constants DEF Owed, Connection, Current, Sending, Free
  <2>4. Count' = Count + 1 /\ Count \in Nat
    <3>1. Len(link') = Len(link) + 1
      BY <1>0, <2>2
    <3> QED
      BY <1>0, <2>2, <2>3, <3>1 DEF Count
  <2>5. unread'[Current] = unread[Current] - 1
        /\ \A j \in Conns : j # Current => unread'[j] = unread[j]
    BY <1>0, <2>2
  <2>6. \A i \in DOMAIN link' : link'[i] = Current
    <3>1. link \in Seq(Conns) /\ Current \in Conns /\ link' = Append(link, Current)
          /\ \A i \in DOMAIN link : link[i] = Current
      BY <1>0, <2>2, <2>3 DEF Mine
    <3> QED
      BY <3>1, AppendHolds
  <2>7. Len(got'[Current]) + unread'[Current] + Count' = asked'[Current]
    <3>1. /\ Len(got'[Current]) = Len(got[Current]) /\ Len(got[Current]) \in Nat
          /\ asked'[Current] = asked[Current] /\ unread[Current] \in Nat
      BY <1>0, <2>2
    <3>2. Len(got[Current]) + unread[Current] + Count = asked[Current]
      BY <2>3 DEF Mine
    <3>3. unread'[Current] = unread[Current] - 1 /\ Count' = Count + 1 /\ Count \in Nat
      BY <2>2, <2>4, <2>5
    <3>4. Len(got[Current]) + (unread[Current] - 1) + (Count + 1)
            = Len(got[Current]) + unread[Current] + Count
      BY <3>1, <3>3, OneOver
    <3> QED
      BY <3>1, <3>2, <3>3, <3>4
  <2>8. Mine'
    BY <2>2, <2>3, <2>6, <2>7 DEF Mine
  <2>9. Others'
    BY <2>2, <2>3, <2>5 DEF Owed, Others
  <2> QED
    BY <2>3, <2>8, <2>9 DEF Owed
<1>11. ASSUME NEW k \in Conns, CloseClient(k) PROVE Owed'
  <2>1. fd[k] = client_fd /\ client_fd \in Fds /\ client_fd # -1
    <3>1. ctask[k] = "close" /\ fd[k] \in Fds
      BY <1>11 DEF CloseClient, TInv, TypeOK
    <3> QED
      BY <3>1, Constants DEF Calm, UsesOne
  <2>2. Connection => Current \in Conns /\ peer[Current] = "left"
    BY <1>00, <1>11 DEF CloseClient, Calm, UsesOne
  <2>3. Close({client_fd})
        /\ UNCHANGED <<spc, client_fd, server_queue, link, message, got, unread, asked>>
    BY <1>11, <2>1 DEF CloseClient
  <2>4. sock' = [sock EXCEPT ![client_fd] = Free] /\ peer' = peer
    BY <2>1, <2>2, <2>3, CloseLeft
  <2>5. ~Connection'
    BY <1>0, <2>1, <2>3, <2>4 DEF Connection, Current
  <2>6. Connection => /\ Nothing
                      /\ Len(got[Current]) + unread[Current] = asked[Current]
    <3> SUFFICES ASSUME Connection
                 PROVE  Nothing /\ Len(got[Current]) + unread[Current] = asked[Current]
      OBVIOUS
    <3>1. Mine /\ Len(got[Current]) = asked[Current]
      BY <2>2 DEF Owed, Others
    <3>2. server_queue = <<>> /\ link = <<>> /\ ~Sending /\ unread[Current] = 0
      BY <2>2, <3>1, NoneOwed
    <3> QED
      BY <1>0, <2>2, <3>1, <3>2 DEF Nothing
  <2>7. Nothing'
    BY <2>3, <2>6 DEF Owed, Nothing, Sending
  <2>8. Others'
    BY <2>3, <2>4, <2>6 DEF Owed, Others
  <2> QED
    BY <2>5, <2>7, <2>8 DEF Owed
<1>12. ASSUME NEW k \in Conns, SendClosed(k) PROVE Owed'
  <2>1. /\ server_queue' = Enqueue(server_queue, Command("closed"))
        /\ UNCHANGED <<spc, client_fd, sock, link, message, got, unread, asked, peer>>
    BY <1>12 DEF SendClosed
  <2>2. ~Connection /\ ~Connection'
    BY <1>12, <2>1 DEF SendClosed, Calm, Ended, Connection, Current
  <2>3. \A i \in DOMAIN server_queue' : server_queue'[i].type \in {"closed"}
    <3>1. Command("closed") \in Commands \cup Replies /\ Command("closed").type \in {"closed"}
      BY CommandType DEF Command
    <3>2. \A i \in DOMAIN server_queue : server_queue[i].type \in {"closed"}
      BY <2>2 DEF Owed, Nothing
    <3> QED
      BY <1>0, <2>1, <3>1, <3>2, EnqueueQuiet
  <2> QED
    BY <2>1, <2>2, <2>3 DEF Owed, Nothing, Others, Sending, Connection, Current
<1>13. ASSUME NEW k \in Conns, Connect(k) \/ Leave(k) PROVE Owed'
  <2>1. UNCHANGED <<spc, client_fd, sock, server_queue, link, message, got, unread, asked>>
    BY <1>13 DEF Connect, Leave
  <2>2. \/ peer' = [peer EXCEPT ![k] = "connected"]
        \/ Len(got[k]) = asked[k] /\ peer' = [peer EXCEPT ![k] = "left"]
    BY <1>13 DEF Connect, Leave
  <2>3. Others'
    BY <1>0, <2>1, <2>2 DEF Owed, Others, Connection, Current
  <2> QED
    BY <2>1, <2>3 DEF Owed, Mine, Nothing, Count, Sending, Connection, Current
<1>14. ASSUME NEW k \in Conns, Request(k) PROVE Owed'
  <2>1. /\ asked' = [asked EXCEPT ![k] = @ + 1] /\ unread' = [unread EXCEPT ![k] = @ + 1]
        /\ peer[k] = "connected"
        /\ UNCHANGED <<spc, client_fd, sock, server_queue, link, message, got, peer>>
    BY <1>14 DEF Request
  <2>2. /\ asked'[k] = asked[k] + 1 /\ unread'[k] = unread[k] + 1
        /\ \A j \in Conns : j # k => asked'[j] = asked[j] /\ unread'[j] = unread[j]
    BY <1>0, <2>1
  <2>3. Current' = Current /\ Connection' = Connection /\ Count' = Count /\ Sending' = Sending
    BY <2>1 DEF Current, Connection, Count, Sending
  <2>4. Count \in Nat
    BY <1>0 DEF Count
  <2>5. Connection => Mine'
    <3>1. Connection => Len(got'[Current]) + unread'[Current] + Count' = asked'[Current]
      BY <1>0, <1>00, <2>1, <2>2, <2>3, <2>4 DEF Owed, Mine
    <3> QED
      BY <2>1, <2>3, <3>1 DEF Owed, Mine
  <2>6. Others'
    BY <1>0, <2>1, <2>2, <2>3 DEF Owed, Others
  <2> QED
    BY <2>1, <2>3, <2>5, <2>6 DEF Owed, Nothing
<1>15. CASE Answer
  <2> DEFINE m == [type |-> "to_client", for |-> Head(link)]
  <2>1. /\ link # <<>> /\ link' = Tail(link) /\ server_queue' = Append(server_queue, m)
        /\ UNCHANGED <<spc, client_fd, sock, message, got, unread, asked, peer>>
    BY <1>15 DEF Answer
  <2>2. Connection /\ Mine /\ Connection' /\ Current' = Current /\ Sending' = Sending
    BY <2>1 DEF Owed, Nothing, Connection, Current, Sending
  <2>3. 1 \in DOMAIN link /\ Head(link) = link[1] /\ Len(link') = Len(link) - 1
    BY <1>0, <2>1
  <2>4. m \in Commands \cup Replies /\ m.type = "to_client" /\ m.for = Current
    <3>1. link[1] = Current /\ Current \in Conns
      BY <1>00, <2>2, <2>3 DEF Mine
    <3> QED
      BY <2>3, <3>1 DEF Replies
  <2>5. \A i \in DOMAIN link' : link'[i] = Current
    <3>1. \A i \in DOMAIN link' : i + 1 \in DOMAIN link /\ link'[i] = link[i + 1]
      BY <1>0, <2>1, TailHolds
    <3> QED
      BY <2>2, <3>1 DEF Mine
  <2> HIDE DEF m
  <2>6. \A i \in DOMAIN server_queue' : /\ server_queue'[i].type = "to_client"
                                        /\ server_queue'[i].for = Current
    BY <1>0, <2>1, <2>2, <2>4, SMTT(30) DEF Mine
  <2>7. Count' = Count
    <3>1. Len(server_queue') = Len(server_queue) + 1
      BY <1>0, <2>1, <2>4
    <3> QED
      BY <1>0, <2>2, <2>3, <3>1 DEF Count
  <2>8. Mine'
    BY <2>1, <2>2, <2>5, <2>6, <2>7 DEF Mine
  <2> QED
    BY <2>1, <2>2, <2>8 DEF Owed, Others
<1> QED
  BY <1>2, <1>3, <1>4, <1>5, <1>6, <1>7, <1>8, <1>9, <1>10, <1>11, <1>12, <1>13, <1>14,
     <1>15 DEF Next, Server, Client

(* A client that waits for its answers before it leaves gets them all from   *)
(* its own requests, and the next client gets none of them, until the Wi-Fi  *)
(* connection is lost.                                                       *)
THEOREM AnswersTheRightOne ==
  ASSUME Polite PROVE Spec => [](drops = 0 => OwnAnswers)
<1>1. Init => Owed /\ OwnAnswers
  BY Constants DEF Init, Owed, Nothing, Others, OwnAnswers, Connection, Sending
<1>2. TInv /\ Turns /\ Calm /\ Owed /\ OwnAnswers /\ [Next]_vars /\ ~WifiDisconnected
        => OwnAnswers'
  <2> SUFFICES ASSUME TInv, Calm, Owed, OwnAnswers, [Next]_vars PROVE OwnAnswers'
    OBVIOUS
  <2>1. CASE Send
    <3>1. /\ Sending /\ Current \in Conns
          /\ got' = [got EXCEPT ![Current] = Append(@, message.for)]
      BY <2>1 DEF Send, CanSend, Current
    <3>2. message.for = Current
      BY <3>1 DEF Owed, Mine, Nothing
    <3>3. got \in [Conns -> Seq(Conns)]
      BY DEF TInv, TypeOK
    <3>4. \A k \in Conns : k # Current => got'[k] = got[k]
      BY <3>1, <3>3
    <3>5. got'[Current] = Append(got[Current], Current) /\ got[Current] \in Seq(Conns)
      BY <3>1, <3>2, <3>3
    <3>6. \A i \in DOMAIN got'[Current] : got'[Current][i] = Current
      BY <3>1, <3>5 DEF OwnAnswers
    <3> QED
      BY <3>4, <3>6 DEF OwnAnswers
  <2>2. CASE ~Send
    <3>1. got' = got
      BY <2>2, GotOnly
    <3> QED
      BY <3>1 DEF OwnAnswers
  <2> QED
    BY <2>1, <2>2
<1>3. Spec => [](drops = 0 => Owed /\ OwnAnswers)
  <2>1. Init => (drops = 0 => Owed /\ OwnAnswers)
    BY <1>1
  <2>2. /\ TInv /\ Turns /\ (drops = 0 => Calm) /\ (drops = 0 => Owed /\ OwnAnswers)
        /\ [Next]_vars
        => (drops = 0 => Owed /\ OwnAnswers)'
    <3> SUFFICES ASSUME TInv, Turns, drops = 0 => Calm, drops = 0 => Owed /\ OwnAnswers,
                        [Next]_vars, drops' = 0
                 PROVE  Owed' /\ OwnAnswers'
      OBVIOUS
    <3>1. ~WifiDisconnected
      BY DEF WifiDisconnected, TInv, TypeOK
    <3>2. drops = 0
      BY <3>1, DropsOnly
    <3> QED
      BY <1>2, <3>1, <3>2, OwedNext
  <2> QED
    BY <2>1, <2>2, AlwaysCalm, PTL DEF Spec
<1> QED
  BY <1>3, PTL
=============================================================================
