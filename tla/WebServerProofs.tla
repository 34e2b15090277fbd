-------------------------- MODULE WebServerProofs ---------------------------
(***************************************************************************)
(* Theorems about the web server.  For any length of a response and any    *)
(* bounds on drops, faults and clients that vanish, the one socket serves  *)
(* one connection after the other.  For every capacity of the ring, every  *)
(* page size and every number of readings, a page of /api/readings stays   *)
(* aligned with the sequence numbers it announced, withholds nothing that  *)
(* is still retained, and starts late only past readings that are gone.    *)
(*                                                                         *)
(* What the ring does is taken from its own theorems, instantiated for     *)
(* readings that are identified by their numbers.                          *)
(***************************************************************************)
EXTENDS DeviceNetwork, ReadingsPage, SequenceTheorems, TLAPS

-----------------------------------------------------------------------------
\* The sets the variables are drawn from, by name.
WifiState == [phase : {"off", "check", "before wait", "wait", "start", "connect"},
              started : BOOLEAN, event : BOOLEAN, missed : BOOLEAN]
StationState == [ap : BOOLEAN, associated : BOOLEAN, leased : BOOLEAN]
\* Where the server has no connection, and where it serves one.
Idle == {"off", "no link", "no address", "accept", "flush after error", "flush reset"}
Serving == {"read", "close", "flush", "abort"}
ServerState == [phase : Idle \cup {"listen"} \cup Serving \cup Answers,
                read : 0..Pieces, written : 0..ResponseParts]
Queues == {<<>>} \cup {<<a>> : a \in Answers}
SocketState == [state : {"closed", "listen", "open"}, queue : Queues, reset : BOOLEAN]
ClientState == [phase : {"away", "here", "gone"}, request : Requests, sent : 0..Pieces,
                received : Seq(Answers)]

ConnectionTyped == server \in ServerState /\ socket \in SocketState /\ client \in ClientState

\* The socket is open exactly while there is a client, and otherwise listens only for accept.
SocketFollowsServer ==
    /\ server.phase \in Idle => socket.state = "closed"
    /\ server.phase = "listen" => socket.state # "closed"
    /\ server.phase \in Serving \cup Answers => socket.state = "open"
    /\ socket.state = "open" <=> client.phase # "away"

\* What is queued for a client, and the answer being written, is the answer it is due.
QueueIsDue ==
    /\ server.phase \in Answers => server.phase = Due(client.request)
    /\ socket.state = "listen" => socket.queue = <<>>
    /\ socket.state = "open" => socket.queue \in {<<>>, <<Due(client.request)>>}
    /\ OwnAnswerOnly

\* No part of a response reaches the client before it was written.
ReceivedWasWritten ==
    /\ socket.state # "open" => client.received = <<>>
    /\ socket.state = "open" =>
           Len(client.received) + Len(socket.queue)
               <= IF server.phase = "listen" THEN 0 ELSE server.written

\* What the server, its socket and its client keep to.
ConnectionInv == ConnectionTyped /\ SocketFollowsServer /\ QueueIsDue /\ ReceivedWasWritten

\* How often the run may still lose the access point, fail or lose a client.
BoundsTyped == drops \in 0..MaxDrops /\ faults \in 0..MaxFaults /\ gone \in 0..MaxGone

\* The web server is started once.
SpawnedOnce == main = "starting" => server.phase = "off"

\* The inductive invariant.
IInv ==
    /\ main \in {"starting", "waiting", "sensing"} /\ wifi \in WifiState
    /\ station \in StationState /\ BoundsTyped /\ SpawnedOnce /\ ConnectionInv

-----------------------------------------------------------------------------
\* The constants are numbers, and a response has a part to send.
LEMMA ConstantTypes ==
  /\ ResponseParts \in Nat /\ ResponseParts > 0
  /\ MaxDrops \in Nat /\ MaxFaults \in Nat /\ MaxGone \in Nat
  BY DeviceNetworkAssumption

\* Every request is due an answer.
LEMMA DueAnswer ==
  ASSUME NEW wanted \in Requests
  PROVE  Due(wanted) \in Answers
  BY DEF Due, Answers, Requests

\* A phase is of one kind.
LEMMA PhasesApart ==
  /\ Idle \cap Serving = {} /\ Idle \cap Answers = {} /\ Serving \cap Answers = {}
  /\ "listen" \notin Idle \cup Serving \cup Answers
  BY DEF Idle, Serving, Answers

\* The fields of the connection, for the steps that change one of them.
LEMMA Fields ==
  ASSUME ConnectionTyped
  PROVE  /\ server.phase \in Idle \cup {"listen"} \cup Serving \cup Answers
         /\ server.read \in 0..Pieces /\ server.written \in 0..ResponseParts
         /\ socket.state \in {"closed", "listen", "open"} /\ socket.queue \in Queues
         /\ socket.reset \in BOOLEAN
         /\ client.phase \in {"away", "here", "gone"} /\ client.request \in Requests
         /\ client.sent \in 0..Pieces /\ client.received \in Seq(Answers)
  BY DEF ConnectionTyped, ServerState, SocketState, ClientState

(***************************************************************************)
(* The server goes on to another phase of the same kind, or to the answer  *)
(* its client is due.                                                      *)
(***************************************************************************)
LEMMA Moves ==
  ASSUME ConnectionInv, NEW p, server' = [server EXCEPT !.phase = p], UNCHANGED <<socket, client>>,
         \/ server.phase \in Idle /\ p \in Idle
         \/ server.phase \in Serving \cup Answers /\ p \in Serving
         \/ server.phase \in Serving /\ p = Due(client.request)
  PROVE  ConnectionInv'
<1> USE Fields, PhasesApart DEF ConnectionInv
<1>1. p \in Idle \cup {"listen"} \cup Serving \cup Answers
  BY DueAnswer
<1>2. ConnectionTyped'
  BY <1>1 DEF ConnectionTyped, ServerState
<1>3. server'.phase = p /\ server'.written = server.written
  BY DEF ConnectionTyped, ServerState
<1>4. SocketFollowsServer'
  BY <1>3, DueAnswer DEF SocketFollowsServer
<1>5. QueueIsDue'
  BY <1>3 DEF QueueIsDue, OwnAnswerOnly
<1>6. ReceivedWasWritten'
  BY <1>3, DueAnswer DEF ReceivedWasWritten
<1> QED
  BY <1>2, <1>4, <1>5, <1>6

-----------------------------------------------------------------------------
(***************************************************************************)
(* The steps of accept and read: a client finds an empty queue, and a      *)
(* request read to its end gets the answer it is due.                      *)
(***************************************************************************)
LEMMA ListenStep == ConnectionInv /\ Listen => ConnectionInv'
<1> SUFFICES ASSUME ConnectionInv, Listen
             PROVE  ConnectionInv'
  OBVIOUS
<1> USE Fields, PhasesApart DEF ConnectionInv
<1>1. /\ socket' = [state |-> "listen", queue |-> <<>>, reset |-> FALSE]
      /\ server' = [server EXCEPT !.phase = "listen"] /\ UNCHANGED client
      /\ socket.state = "closed"
  BY DEF Listen
<1>2. socket'.state = "listen" /\ socket'.queue = <<>> /\ server'.phase = "listen"
  BY <1>1 DEF ConnectionTyped, ServerState
<1>3. ConnectionTyped'
  <2>1. socket' \in SocketState
    BY <1>1 DEF SocketState, Queues
  <2>2. server' \in ServerState
    BY <1>1 DEF ConnectionTyped, ServerState
  <2> QED
    BY <1>1, <2>1, <2>2 DEF ConnectionTyped
<1>4. SocketFollowsServer'
  BY <1>1, <1>2 DEF SocketFollowsServer
<1>5. QueueIsDue'
  BY <1>1, <1>2 DEF QueueIsDue, OwnAnswerOnly
<1>6. ReceivedWasWritten'
  BY <1>1, <1>2 DEF ReceivedWasWritten
<1> QED
  BY <1>3, <1>4, <1>5, <1>6

\* An accept that fails keeps what server, socket and client keep to.
LEMMA AcceptFailsStep == ConnectionInv /\ AcceptFails => ConnectionInv'
<1> SUFFICES ASSUME ConnectionInv, AcceptFails
             PROVE  ConnectionInv'
  OBVIOUS
<1> USE Fields, PhasesApart DEF ConnectionInv
<1>1. /\ socket' = [socket EXCEPT !.state = "closed"]
      /\ server' = [server EXCEPT !.phase = "flush after error"] /\ UNCHANGED client
      /\ socket.state = "listen"
  BY DEF AcceptFails
<1>2. /\ socket'.state = "closed" /\ server'.phase = "flush after error"
      /\ "flush after error" \in Idle
  BY <1>1 DEF ConnectionTyped, ServerState, SocketState, Idle
<1>3. ConnectionTyped'
  BY <1>1, <1>2 DEF ConnectionTyped, ServerState, SocketState
<1>4. SocketFollowsServer'
  BY <1>1, <1>2 DEF SocketFollowsServer
<1>5. QueueIsDue'
  BY <1>1, <1>2 DEF QueueIsDue, OwnAnswerOnly
<1>6. ReceivedWasWritten'
  BY <1>1, <1>2 DEF ReceivedWasWritten
<1> QED
  BY <1>3, <1>4, <1>5, <1>6

\* So does an accept that finds a client.
LEMMA AcceptedStep == ConnectionInv /\ Accepted => ConnectionInv'
<1> SUFFICES ASSUME ConnectionInv, Accepted
             PROVE  ConnectionInv'
  OBVIOUS
<1> USE Fields, PhasesApart, ConstantTypes DEF ConnectionInv
<1>1. /\ server' = [phase |-> "read", read |-> 0, written |-> 0] /\ UNCHANGED <<socket, client>>
      /\ socket.state = "open" /\ server.phase = "listen" /\ "read" \in Serving
  BY DEF Accepted, Serving
<1>2. ConnectionTyped'
  BY <1>1 DEF ConnectionTyped, ServerState, Pieces
<1>3. SocketFollowsServer'
  BY <1>1 DEF SocketFollowsServer
<1>4. QueueIsDue'
  BY <1>1 DEF QueueIsDue, OwnAnswerOnly
<1>5. ReceivedWasWritten'
  BY <1>1 DEF ReceivedWasWritten
<1> QED
  BY <1>2, <1>3, <1>4, <1>5

\* So does reading the request, which decides the answer.
LEMMA ReadStep == ConnectionInv /\ Read => ConnectionInv'
<1> SUFFICES ASSUME ConnectionInv, Read
             PROVE  ConnectionInv'
  OBVIOUS
<1> USE Fields, PhasesApart DEF ConnectionInv
<1>1. PICK count \in (server.read + 1)..client.sent :
          IF HeadComplete(client.request, count) THEN Responding(Due(client.request))
          ELSE IF count = Pieces /\ client.request.fills THEN Responding("431")
          ELSE server' = [server EXCEPT !.read = count]
  BY DEF Read
<1>2. server.phase = "read" /\ "read" \in Serving /\ UNCHANGED <<socket, client>>
  BY DEF Read, Serving
<1>3. CASE HeadComplete(client.request, count)
  BY <1>1, <1>2, <1>3, Moves DEF Responding
<1>4. CASE ~HeadComplete(client.request, count) /\ count = Pieces /\ client.request.fills
  <2>1. Due(client.request) = "431"
    <3>1. ~client.request.ended
      BY <1>4, Zenon DEF HeadComplete
    <3> QED
      BY <3>1 DEF Due
  <2> QED
    BY <1>1, <1>2, <1>4, <2>1, Moves DEF Responding
<1>5. CASE ~HeadComplete(client.request, count) /\ ~(count = Pieces /\ client.request.fills)
  <2>1. server' = [server EXCEPT !.read = count] /\ count \in 0..Pieces
    BY <1>1, <1>5 DEF Pieces
  <2>2. server'.phase = server.phase /\ server'.written = server.written /\ ConnectionTyped'
    BY <1>2, <2>1 DEF ConnectionTyped, ServerState
  <2>3. SocketFollowsServer' /\ QueueIsDue' /\ ReceivedWasWritten'
    BY <1>2, <2>2 DEF SocketFollowsServer, QueueIsDue, OwnAnswerOnly, ReceivedWasWritten
  <2> QED
    BY <2>2, <2>3
<1> QED
  BY <1>3, <1>4, <1>5

-----------------------------------------------------------------------------
(***************************************************************************)
(* The steps of write, close and the client.                               *)
(***************************************************************************)
LEMMA WriteStep == ConnectionInv /\ Write => ConnectionInv'
<1> SUFFICES ASSUME ConnectionInv, Write
             PROVE  ConnectionInv'
  OBVIOUS
<1> USE Fields, PhasesApart, ConstantTypes DEF ConnectionInv
<1>1. /\ socket' = [socket EXCEPT !.queue = <<server.phase>>]
      /\ server' = [server EXCEPT !.written = server.written + 1] /\ UNCHANGED client
      /\ server.phase \in Answers /\ server.written < ResponseParts /\ socket.queue = <<>>
  BY DEF Write
<1>2. /\ socket'.queue = <<Due(client.request)>> /\ socket'.state = socket.state
      /\ server'.phase = server.phase /\ server'.written = server.written + 1
      /\ socket.state = "open"
  BY <1>1 DEF ConnectionTyped, ServerState, SocketState, SocketFollowsServer, QueueIsDue
<1>3. ConnectionTyped'
  <2>1. <<server.phase>> \in Queues
    BY <1>1 DEF Queues
  <2>2. socket' \in SocketState
    BY <1>1, <2>1 DEF ConnectionTyped, SocketState
  <2>3. server.written + 1 \in 0..ResponseParts
    BY <1>1
  <2>4. server' \in ServerState
    BY <1>1, <2>3 DEF ConnectionTyped, ServerState
  <2> QED
    BY <1>1, <2>2, <2>4 DEF ConnectionTyped
<1>4. SocketFollowsServer'
  BY <1>1, <1>2 DEF SocketFollowsServer
<1>5. QueueIsDue'
  BY <1>1, <1>2 DEF QueueIsDue, OwnAnswerOnly
<1>6. ReceivedWasWritten'
  <2>1. Len(client.received) + 0 <= server.written /\ Len(client.received) \in Nat
    BY <1>1, <1>2 DEF ReceivedWasWritten
  <2>2. Len(socket'.queue) = 1
    BY <1>2
  <2> QED
    BY <1>1, <1>2, <2>1, <2>2 DEF ReceivedWasWritten
<1> QED
  BY <1>3, <1>4, <1>5, <1>6

\* So does aborting the socket.
LEMMA AbortStep == ConnectionInv /\ Abort => ConnectionInv'
<1> SUFFICES ASSUME ConnectionInv, Abort
             PROVE  ConnectionInv'
  OBVIOUS
<1> USE Fields, PhasesApart DEF ConnectionInv
<1>1. /\ socket' = [socket EXCEPT !.state = "closed", !.reset = TRUE]
      /\ client' = NoClient /\ server' = [server EXCEPT !.phase = "flush reset"]
  BY DEF Abort
<1>2. /\ socket'.state = "closed" /\ server'.phase = "flush reset" /\ "flush reset" \in Idle
      /\ client'.phase = "away" /\ client'.received = <<>>
  BY <1>1 DEF ConnectionTyped, ServerState, SocketState, NoClient, Idle
<1>3. ConnectionTyped'
  <2>1. socket' \in SocketState
    BY <1>1 DEF ConnectionTyped, SocketState
  <2>2. server' \in ServerState
    BY <1>1, <1>2 DEF ConnectionTyped, ServerState
  <2>3. client' \in ClientState
    <3>1. [ended |-> TRUE, fills |-> FALSE, asks |-> "resource"] \in Requests
      BY DEF Requests
    <3>2. <<>> \in Seq(Answers) /\ 0 \in 0..Pieces
      BY DEF Pieces
    <3> QED
      BY <1>1, <3>1, <3>2 DEF ClientState, NoClient
  <2> QED
    BY <2>1, <2>2, <2>3 DEF ConnectionTyped
<1>4. SocketFollowsServer'
  BY <1>2 DEF SocketFollowsServer
<1>5. QueueIsDue'
  <2>1. DOMAIN client'.received = {}
    <3>1. DOMAIN <<>> = {}
      OBVIOUS
    <3> QED
      BY <1>2, <3>1, Zenon
  <2>2. OwnAnswerOnly'
    BY <2>1, Zenon DEF OwnAnswerOnly
  <2> QED
    BY <1>2, <2>2 DEF QueueIsDue
<1>6. ReceivedWasWritten'
  BY <1>2 DEF ReceivedWasWritten
<1> QED
  BY <1>3, <1>4, <1>5, <1>6

\* So does the flush that ends the reset of a connection.
LEMMA FlushResetStep == ConnectionInv /\ FlushResetEnds => ConnectionInv'
<1> SUFFICES ASSUME ConnectionInv, FlushResetEnds
             PROVE  ConnectionInv'
  OBVIOUS
<1> USE Fields, PhasesApart, ConstantTypes DEF ConnectionInv
<1>1. /\ server' = [phase |-> "accept", read |-> 0, written |-> 0] /\ UNCHANGED <<socket, client>>
      /\ server.phase \in Idle /\ "accept" \in Idle
  BY DEF FlushResetEnds, Idle
<1>2. ConnectionTyped'
  BY <1>1 DEF ConnectionTyped, ServerState, Pieces
<1>3. SocketFollowsServer' /\ QueueIsDue' /\ ReceivedWasWritten'
  BY <1>1 DEF SocketFollowsServer, QueueIsDue, OwnAnswerOnly, ReceivedWasWritten
<1> QED
  BY <1>2, <1>3

\* So does a client that connects.
LEMMA ConnectStep ==
  ASSUME ConnectionInv, NEW wanted \in Requests, ClientConnects(wanted)
  PROVE  ConnectionInv'
<1> USE Fields, PhasesApart DEF ConnectionInv
<1>1. /\ socket' = [socket EXCEPT !.state = "open"] /\ UNCHANGED server
      /\ client' = [phase |-> "here", request |-> wanted, sent |-> 0, received |-> <<>>]
      /\ socket.state = "listen" /\ server.phase = "listen"
  BY DEF ClientConnects, NoClient, SocketFollowsServer
<1>2. socket'.state = "open" /\ socket'.queue = <<>>
  BY <1>1 DEF ConnectionTyped, SocketState, QueueIsDue
<1>3. ConnectionTyped'
  <2>1. socket' \in SocketState
    BY <1>1 DEF ConnectionTyped, SocketState
  <2>2. client' \in ClientState
    BY <1>1 DEF ClientState, Pieces
  <2> QED
    BY <1>1, <2>1, <2>2 DEF ConnectionTyped
<1>4. SocketFollowsServer'
  BY <1>1, <1>2 DEF SocketFollowsServer
<1>5. QueueIsDue'
  BY <1>1, <1>2 DEF QueueIsDue, OwnAnswerOnly
<1>6. ReceivedWasWritten'
  BY <1>1, <1>2 DEF ReceivedWasWritten
<1> QED
  BY <1>3, <1>4, <1>5, <1>6

\* A client that sends a piece, or hangs up, and a reset that goes out.
LEMMA QuietStep ==
  ConnectionInv /\ (ClientSends \/ ClientGone \/ SendReset) => ConnectionInv'
<1> SUFFICES ASSUME ConnectionInv, ClientSends \/ ClientGone \/ SendReset
             PROVE  ConnectionInv'
  OBVIOUS
<1> USE Fields DEF ConnectionInv
<1>1. CASE ClientSends
  <2>1. client' = [client EXCEPT !.sent = client.sent + 1] /\ client.sent + 1 \in 0..Pieces
    BY <1>1 DEF ClientSends, Pieces
  <2> QED
    BY <1>1, <2>1 DEF ClientSends, ConnectionTyped, ClientState, SocketFollowsServer, QueueIsDue,
                      OwnAnswerOnly, ReceivedWasWritten
<1>2. CASE ClientGone
  BY <1>2 DEF ClientGone, ConnectionTyped, ClientState, SocketFollowsServer, QueueIsDue,
              OwnAnswerOnly, ReceivedWasWritten
<1>3. CASE SendReset
  BY <1>3 DEF SendReset, ConnectionTyped, SocketState, SocketFollowsServer, QueueIsDue,
              OwnAnswerOnly, ReceivedWasWritten
<1> QED
  BY <1>1, <1>2, <1>3

(***************************************************************************)
(* What a client takes from the queue is the answer it is due.             *)
(***************************************************************************)
LEMMA ReceiveStep == ConnectionInv /\ ClientReceives => ConnectionInv'
<1> SUFFICES ASSUME ConnectionInv, ClientReceives
             PROVE  ConnectionInv'
  OBVIOUS
<1> USE Fields DEF ConnectionInv
<1> DEFINE due == Due(client.request)
           received == Append(client.received, due)
<1>1. socket.state = "open" /\ socket.queue = <<due>> /\ due \in Answers
  BY DueAnswer DEF ClientReceives, SocketFollowsServer, QueueIsDue
<1>2. Head(socket.queue) = due
  BY <1>1
<1>3. /\ client' = [client EXCEPT !.received = received]
      /\ socket' = [socket EXCEPT !.queue = <<>>] /\ UNCHANGED server
  BY <1>2 DEF ClientReceives
<1>4. /\ received \in Seq(Answers) /\ Len(received) = Len(client.received) + 1
      /\ \A i \in 1..Len(received) : received[i] = due
  BY <1>1 DEF QueueIsDue, OwnAnswerOnly
<1> HIDE DEF received
<1>5. /\ client'.received = received /\ client'.request = client.request
      /\ client'.phase = client.phase
      /\ socket'.queue = <<>> /\ socket'.state = "open"
  BY <1>1, <1>3 DEF ConnectionTyped, ClientState, SocketState
<1>6. ConnectionTyped'
  <2>1. client' \in ClientState
    BY <1>3, <1>4 DEF ConnectionTyped, ClientState
  <2>2. socket' \in SocketState
    BY <1>3 DEF ConnectionTyped, SocketState, Queues
  <2> QED
    BY <1>3, <2>1, <2>2 DEF ConnectionTyped
<1>7. SocketFollowsServer'
  BY <1>1, <1>3, <1>5 DEF SocketFollowsServer
<1>8. QueueIsDue'
  BY <1>1, <1>3, <1>4, <1>5 DEF QueueIsDue, OwnAnswerOnly
<1>9. ReceivedWasWritten'
  <2>1. Len(client.received) + 1 <= IF server.phase = "listen" THEN 0 ELSE server.written
    BY <1>1 DEF ReceivedWasWritten
  <2>2. Len(received) + Len(socket'.queue) = Len(client.received) + 1
    BY <1>4, <1>5
  <2> QED
    BY <1>3, <1>5, <2>1, <2>2 DEF ReceivedWasWritten
<1> QED
  BY <1>6, <1>7, <1>8, <1>9

-----------------------------------------------------------------------------
(***************************************************************************)
(* Every step leaves the connection in order: those of start-up, of the    *)
(* radio and of the access point do not touch it.                          *)
(***************************************************************************)
LEMMA ConnectionStep == IInv /\ [Next]_vars => ConnectionInv'
<1> SUFFICES ASSUME IInv, [Next]_vars
             PROVE  ConnectionInv'
  OBVIOUS
<1>0. ConnectionInv /\ SpawnedOnce
  BY DEF IInv
<1> USE DEF bounds
<1>1. CASE SpawnNetwork
  BY <1>0, <1>1, Moves DEF SpawnNetwork, SpawnedOnce, Idle
<1>2. CASE LinkUp \/ AddressKnown \/ FlushedAfterError
  BY <1>0, <1>2, Moves DEF LinkUp, AddressKnown, FlushedAfterError, Idle
<1>3. CASE ReadEnds \/ Written \/ WriteFails \/ Close \/ FlushEnds
  BY <1>0, <1>3, Moves DEF ReadEnds, Written, WriteFails, Close, FlushEnds, Serving
<1>4. CASE Listen \/ AcceptFails \/ Accepted \/ Read \/ Write \/ Abort \/ FlushResetEnds
  BY <1>0, <1>4, ListenStep, AcceptFailsStep, AcceptedStep, ReadStep, WriteStep, AbortStep,
     FlushResetStep
<1>5. CASE Connects \/ ClientStep \/ ClientGone
  BY <1>0, <1>5, ConnectStep, QuietStep, ReceiveStep DEF Connects, ClientStep
<1>6. CASE UNCHANGED <<server, socket, client>>
  BY <1>0, <1>6 DEF ConnectionInv, ConnectionTyped, SocketFollowsServer, QueueIsDue,
                    OwnAnswerOnly, ReceivedWasWritten
<1>7. CASE SpawnSensors \/ WifiStep \/ StartFails \/ ConnectFails \/ Drop \/ Return \/ Lease
  BY <1>6, <1>7 DEF SpawnSensors, WifiStep, CheckState, BeginWait, Disconnected, StartRadio,
                    Connect, StartFails, ConnectFails, Drop, Return, Lease
<1>8. CASE UNCHANGED vars
  BY <1>6, <1>8 DEF vars
<1> QED
  BY <1>1, <1>2, <1>3, <1>4, <1>5, <1>7, <1>8 DEF Next, MainStep, ServerStep

\* No step takes the rest of the state out of its types, and the server leaves its first
\* phase with start-up.
LEMMA RestStep ==
  IInv /\ [Next]_vars => /\ main' \in {"starting", "waiting", "sensing"} /\ wifi' \in WifiState
                         /\ station' \in StationState /\ BoundsTyped' /\ SpawnedOnce'
<1> SUFFICES ASSUME IInv, [Next]_vars
             PROVE  /\ main' \in {"starting", "waiting", "sensing"} /\ wifi' \in WifiState
                    /\ station' \in StationState /\ BoundsTyped' /\ SpawnedOnce'
  OBVIOUS
<1>0. /\ main \in {"starting", "waiting", "sensing"} /\ wifi \in WifiState
      /\ station \in StationState /\ BoundsTyped /\ SpawnedOnce
  BY DEF IInv
<1> USE ConstantTypes DEF bounds, BoundsTyped, SpawnedOnce
<1>1. CASE SpawnNetwork
  BY <1>0, <1>1 DEF SpawnNetwork, WifiState
<1>2. CASE SpawnSensors
  BY <1>0, <1>2 DEF SpawnSensors
<1>3. CASE CheckState \/ BeginWait \/ Disconnected \/ StartRadio
  <2>1. wifi' \in WifiState
    BY <1>0, <1>3 DEF CheckState, BeginWait, Disconnected, StartRadio, WifiState
  <2> QED
    BY <1>0, <1>3, <2>1 DEF CheckState, BeginWait, Disconnected, StartRadio
<1>4. CASE Connect
  <2>1. wifi' \in WifiState
    BY <1>0, <1>4 DEF Connect, WifiState
  <2>2. station' \in StationState
    BY <1>0, <1>4 DEF Connect, StationState
  <2> QED
    BY <1>0, <1>4, <2>1, <2>2 DEF Connect
<1>5. CASE StartFails \/ ConnectFails
  <2>1. wifi' \in WifiState
    BY <1>0, <1>5 DEF StartFails, ConnectFails, WifiState
  <2>2. BoundsTyped'
    BY <1>0, <1>5 DEF StartFails, ConnectFails
  <2> QED
    BY <1>0, <1>5, <2>1, <2>2 DEF StartFails, ConnectFails
<1>6. CASE Drop
  <2>1. wifi' \in WifiState
    BY <1>0, <1>6 DEF Drop, WifiState
  <2>2. station' \in StationState
    BY <1>0, <1>6 DEF Drop, StationState
  <2>3. BoundsTyped'
    BY <1>0, <1>6 DEF Drop
  <2> QED
    BY <1>0, <1>6, <2>1, <2>2, <2>3 DEF Drop
<1>7. CASE Return \/ Lease
  <2>1. station' \in StationState
    BY <1>0, <1>7 DEF Return, Lease, StationState
  <2> QED
    BY <1>0, <1>7, <2>1 DEF Return, Lease
<1>8. CASE ServerStep
  <2>1. server.phase # "off" /\ UNCHANGED <<main, wifi, station, bounds>>
    BY <1>8 DEF ServerStep, LinkUp, AddressKnown, Listen, FlushedAfterError, Accepted, Read,
                ReadEnds, Write, Written, WriteFails, Close, FlushEnds, Abort, FlushResetEnds,
                Answers
  <2> QED
    BY <1>0, <2>1
<1>9. CASE AcceptFails
  <2>1. main # "starting" /\ UNCHANGED <<main, wifi, station, drops, gone>>
    BY <1>0, <1>9 DEF AcceptFails
  <2>2. faults' \in 0..MaxFaults
    <3>1. faults < MaxFaults /\ faults' = faults + 1
      BY <1>9, Zenon DEF AcceptFails
    <3> QED
      BY <1>0, <3>1
  <2> QED
    BY <1>0, <2>1, <2>2
<1>10. CASE ClientStep \/ Connects
  BY <1>0, <1>10 DEF ClientStep, ClientSends, ClientReceives, SendReset, Connects, ClientConnects
<1>11. CASE ClientGone
  BY <1>0, <1>11 DEF ClientGone
<1>12. CASE UNCHANGED vars
  BY <1>0, <1>12 DEF vars
<1> QED
  BY <1>1, <1>2, <1>3, <1>4, <1>5, <1>6, <1>7, <1>8, <1>9, <1>10, <1>11, <1>12
     DEF Next, MainStep, WifiStep

-----------------------------------------------------------------------------
\* A device that is being started has no connection.
LEMMA InitInvariant == Init => IInv
<1> SUFFICES ASSUME Init
             PROVE  IInv
  OBVIOUS
<1> USE ConstantTypes DEF Init
<1>1. wifi \in WifiState /\ station \in StationState /\ BoundsTyped /\ SpawnedOnce
  BY DEF WifiState, StationState, BoundsTyped, SpawnedOnce
<1>2. server \in ServerState /\ socket \in SocketState
  BY DEF ServerState, SocketState, Idle, Queues, Pieces
<1>3. client \in ClientState
  <2>1. [ended |-> TRUE, fills |-> FALSE, asks |-> "resource"] \in Requests
    BY DEF Requests
  <2>2. <<>> \in Seq(Answers) /\ 0 \in 0..Pieces
    BY DEF Pieces
  <2> QED
    BY <2>1, <2>2 DEF ClientState, NoClient
<1>4. /\ client.phase = "away" /\ client.received = <<>> /\ DOMAIN client.received = {}
      /\ server.phase = "off" /\ "off" \in Idle /\ socket.state = "closed"
  BY DEF NoClient, Idle
<1>5. SocketFollowsServer
  BY <1>4, PhasesApart DEF SocketFollowsServer
<1>6. QueueIsDue
  BY <1>4, PhasesApart, Zenon DEF QueueIsDue, OwnAnswerOnly
<1>7. ReceivedWasWritten
  BY <1>4 DEF ReceivedWasWritten
<1> QED
  BY <1>1, <1>2, <1>3, <1>5, <1>6, <1>7 DEF IInv, ConnectionInv, ConnectionTyped

(***************************************************************************)
(* Server, socket and client stay in step in every run of the device.      *)
(***************************************************************************)
THEOREM ConnectionInvariant == Spec => []IInv
<1>1. IInv /\ [Next]_vars => IInv'
  BY ConnectionStep, RestStep DEF IInv
<1> QED
  BY <1>1, InitInvariant, PTL DEF Spec

\* Not more was received than was written.
LEMMA AtMost ==
  ASSUME NEW received \in Nat, NEW queued \in Nat, NEW written \in 0..ResponseParts, NEW listening,
         received + queued <= IF listening THEN 0 ELSE written
  PROVE  received \in 0..ResponseParts
  BY ConstantTypes

(***************************************************************************)
(* A client only ever receives the answer to its own request, and the      *)
(* socket is closed whenever the server listens again.                     *)
(***************************************************************************)
THEOREM OneConnectionAfterTheOther == Spec => []ConnectionsInOrder
<1>1. ASSUME IInv
      PROVE  ConnectionsInOrder
  <2>0. ConnectionInv
    BY <1>1 DEF IInv
  <2>1. OwnAnswerOnly
    BY <2>0 DEF ConnectionInv, QueueIsDue
  <2>2. ListensOnClosedSocket
    BY <2>0 DEF ConnectionInv, SocketFollowsServer, ListensOnClosedSocket, Idle
  <2>3. Len(client.received) \in 0..ResponseParts
    <3>1. server.written \in 0..ResponseParts /\ client.received \in Seq(Answers)
      BY <2>0, Fields DEF ConnectionInv
    <3>2. Len(client.received) \in Nat /\ Len(socket.queue) \in Nat
      BY <2>0, <3>1, Fields DEF ConnectionInv, Queues
    <3>3. CASE socket.state = "open"
      <4>1. Len(client.received) + Len(socket.queue)
                <= IF server.phase = "listen" THEN 0 ELSE server.written
        BY <2>0, <3>3 DEF ConnectionInv, ReceivedWasWritten
      <4> QED
        BY <3>1, <3>2, <4>1, AtMost
    <3>4. CASE socket.state # "open"
      BY <2>0, <3>4, ConstantTypes DEF ConnectionInv, ReceivedWasWritten
    <3> QED
      BY <3>3, <3>4
  <2>4. server \in [phase : {"off", "no link", "no address", "accept", "listen",
                            "flush after error", "read", "close", "flush", "abort",
                            "flush reset"} \cup Answers,
                   read : 0..Pieces, written : 0..ResponseParts]
    <3>1. Idle \cup {"listen"} \cup Serving \cup Answers =
            {"off", "no link", "no address", "accept", "listen", "flush after error", "read",
             "close", "flush", "abort", "flush reset"} \cup Answers
      BY DEF Idle, Serving
    <3> QED
      BY <2>0, <3>1 DEF ConnectionInv, ConnectionTyped, ServerState
  <2>5. TypeOK
    BY <1>1, <2>0, <2>3, <2>4, Fields DEF TypeOK, IInv, ConnectionInv, BoundsTyped, WifiState,
                                        StationState, Queues
  <2> QED
    BY <2>1, <2>2, <2>5 DEF ConnectionsInOrder
<1>2. IInv => ConnectionsInOrder
  BY <1>1
<1> QED
  BY <1>2, ConnectionInvariant, PTL

-----------------------------------------------------------------------------
\* The theorems about the ring, for readings that are their numbers.
Ring == INSTANCE MeasurementHistoryProofs
          WITH Value <- 0 .. MaxPushed, NoValue <- Null

-----------------------------------------------------------------------------
(***************************************************************************)
(* The inductive invariant.  To the properties it adds that the ring's     *)
(* fields agree, that the retained readings are the newest ones in the     *)
(* order of their numbers, and that a page with elements left to send was  *)
(* cut from a reserved history to numbers given out already: without the   *)
(* last an element could be null because its reading is yet to come.       *)
(***************************************************************************)
RetainedAreNewest ==
  \A i \in 1 .. len : Ring!Retained[i] = History!FirstSequence + i - 1

\* What is left to send are readings that were published.
PageIsOfPublished ==
  /\ page.count > 0 => reserved /\ page.from + page.count <= pushed
  /\ Len(body) <= page.count

\* The inductive invariant.
PageInv ==
  /\ History!RingConsistent
  /\ RetainedAreNewest
  /\ PageIsOfPublished
  /\ PageIsAligned
  /\ NullOnlyIfOverwritten
  /\ RaisedOnlyPastLostReadings

-----------------------------------------------------------------------------
(***************************************************************************)
(* The two instances of the ring, the one the page reads and the one the   *)
(* ring's theorems are about, are the same ring.                           *)
(***************************************************************************)
LEMMA SameRing ==
  /\ Ring!HistoryAssumption
  /\ Ring!RingInv <=> History!TypeOK /\ History!RingConsistent
  /\ \A v : Ring!Push(v) <=> History!Push(v)
  /\ \A seq : Ring!Get(seq) = History!Get(seq)
  /\ Ring!FirstSequence = History!FirstSequence
<1>1. Ring!HistoryAssumption
  BY PageAssumption DEF Ring!HistoryAssumption
<1>2. Ring!RingInv <=> History!TypeOK /\ History!RingConsistent
  BY DEF Ring!RingInv, Ring!TypeOK, Ring!RingConsistent, Ring!Slot,
         History!TypeOK, History!RingConsistent, History!Slot
<1>3. \A v : Ring!Push(v) <=> History!Push(v)
  BY DEF Ring!Push, History!Push
<1>4. \A seq : Ring!Get(seq) = History!Get(seq)
  BY DEF Ring!Get, History!Get, Ring!GetOldest, History!GetOldest,
         Ring!OldestSlot, History!OldestSlot, Ring!FirstSequence,
         History!FirstSequence
<1>5. Ring!FirstSequence = History!FirstSequence
  BY DEF Ring!FirstSequence, History!FirstSequence
<1> QED
  BY <1>1, <1>2, <1>3, <1>4, <1>5

(***************************************************************************)
(* A number given out yields its reading while it is retained and None     *)
(* once it is overwritten.                                                 *)
(***************************************************************************)
LEMMA GetIsNumbered ==
  ASSUME History!TypeOK, History!RingConsistent, RetainedAreNewest,
         NEW seq \in 0 .. pushed - 1
  PROVE  History!Get(seq) = IF seq < History!FirstSequence THEN Null ELSE seq
<1> USE PageAssumption
<1>1. len \in Nat /\ pushed \in Nat /\ len <= pushed
  BY DEF History!TypeOK, History!RingConsistent
<1>2. Ring!RingInv
  BY SameRing
<1>3. History!Get(seq) = Ring!Window!Read(seq)
  <2>1. seq \in 0 .. pushed + 1
    BY <1>1
  <2> QED
    BY <1>2, <2>1, SameRing, Ring!GetReads DEF Ring!GetReadsWindow
<1>4. Len(Ring!Retained) = len
  BY <1>2, SameRing, Ring!RetainedIsSeq DEF Ring!RetainedExact
<1>5. Ring!Window!Oldest = History!FirstSequence
  BY <1>4 DEF Ring!Window!Oldest, History!FirstSequence
<1>6. CASE seq < History!FirstSequence
  BY <1>1, <1>3, <1>5, <1>6 DEF Ring!Window!Read, History!FirstSequence
<1>7. CASE ~(seq < History!FirstSequence)
  <2>1. seq \in Ring!Window!Oldest .. pushed - 1
    BY <1>1, <1>5, <1>7 DEF History!FirstSequence
  <2>2. History!Get(seq) = Ring!Retained[seq - History!FirstSequence + 1]
    BY <1>3, <1>5, <2>1 DEF Ring!Window!Read
  <2>3. seq - History!FirstSequence + 1 \in 1 .. len
    BY <1>1, <1>7 DEF History!FirstSequence
  <2>4. Ring!Retained[seq - History!FirstSequence + 1]
          = History!FirstSequence + (seq - History!FirstSequence + 1) - 1
    BY <2>3 DEF RetainedAreNewest
  <2>5. History!FirstSequence + (seq - History!FirstSequence + 1) - 1 = seq
    BY <1>1 DEF History!FirstSequence
  <2> QED
    BY <1>7, <2>2, <2>4, <2>5
<1> QED
  BY <1>6, <1>7

(***************************************************************************)
(* Publishing keeps the retained readings the newest, and the first number *)
(* retained never falls.                                                   *)
(***************************************************************************)
LEMMA PushKeepsNewest ==
  ASSUME History!TypeOK, History!RingConsistent, RetainedAreNewest,
         History!Push(pushed)
  PROVE  /\ History!TypeOK' /\ History!RingConsistent' /\ RetainedAreNewest'
         /\ History!FirstSequence' >= History!FirstSequence
         /\ pushed' = pushed + 1
<1> USE PageAssumption
<1>1. /\ len \in 0 .. Capacity /\ pushed \in 0 .. MaxPushed /\ len <= pushed
      /\ pushed' = pushed + 1
      /\ len' = IF len < Capacity THEN len + 1 ELSE Capacity
  BY DEF History!TypeOK, History!RingConsistent, History!Push
<1>2. Ring!RingInv /\ Ring!Push(pushed)
  BY SameRing
<1>3. Ring!RingInv'
  BY <1>1, <1>2, SameRing, Ring!RingInvStep DEF Ring!Next
<1>4. History!TypeOK' /\ History!RingConsistent'
  BY <1>3 DEF Ring!RingInv, Ring!TypeOK, Ring!RingConsistent, Ring!Slot,
              History!TypeOK, History!RingConsistent, History!Slot
<1>5. Ring!Retained' = Ring!Window!Slide(Ring!Retained, pushed)
  BY <1>1, <1>2, SameRing, Ring!PushSlides
<1>6. Len(Ring!Retained) = len /\ Ring!Retained \in Seq(0 .. MaxPushed)
  BY <1>2, SameRing, Ring!RetainedIsSeq DEF Ring!RetainedExact
<1>7. CASE len < Capacity
  <2>1. Ring!Retained' = Append(Ring!Retained, pushed)
    BY <1>5, <1>6, <1>7 DEF Ring!Window!Slide
  <2>2. len' = len + 1 /\ History!FirstSequence' = History!FirstSequence
    BY <1>1, <1>7 DEF History!FirstSequence
  <2>3. ASSUME NEW i \in 1 .. len'
        PROVE  Ring!Retained'[i] = History!FirstSequence' + i - 1
    <3>1. CASE i \in 1 .. len
      BY <1>6, <2>1, <2>2, <3>1 DEF RetainedAreNewest
    <3>2. CASE i = len + 1
      <4>1. Ring!Retained'[i] = pushed
        BY <1>6, <2>1, <3>2
      <4> QED
        BY <1>1, <2>2, <3>2, <4>1 DEF History!FirstSequence
    <3> QED
      BY <1>1, <2>2, <3>1, <3>2
  <2> QED
    BY <1>1, <1>4, <2>2, <2>3 DEF RetainedAreNewest, History!FirstSequence
<1>8. CASE len = Capacity
  <2>1. Ring!Retained' = Append(Tail(Ring!Retained), pushed)
    BY <1>5, <1>6, <1>8 DEF Ring!Window!Slide
  <2>2. len' = len /\ History!FirstSequence' = History!FirstSequence + 1
    BY <1>1, <1>8 DEF History!FirstSequence
  <2>3. /\ Tail(Ring!Retained) \in Seq(0 .. MaxPushed)
        /\ Len(Tail(Ring!Retained)) = len - 1
        /\ \A i \in 1 .. len - 1 : Tail(Ring!Retained)[i] = Ring!Retained[i + 1]
    BY <1>1, <1>6, <1>8
  <2>4. ASSUME NEW i \in 1 .. len'
        PROVE  Ring!Retained'[i] = History!FirstSequence' + i - 1
    <3>1. CASE i \in 1 .. len - 1
      <4>1. Ring!Retained'[i] = Ring!Retained[i + 1]
        BY <2>1, <2>3, <3>1
      <4>2. i + 1 \in 1 .. len
        BY <1>1, <3>1
      <4>3. Ring!Retained[i + 1] = History!FirstSequence + (i + 1) - 1
        BY <4>2 DEF RetainedAreNewest
      <4> QED
        BY <1>1, <2>2, <4>1, <4>3 DEF History!FirstSequence
    <3>2. CASE i = len
      <4>1. Ring!Retained'[i] = pushed
        BY <1>1, <2>1, <2>3, <3>2
      <4> QED
        BY <1>1, <2>2, <3>2, <4>1 DEF History!FirstSequence
    <3> QED
      BY <1>1, <2>2, <3>1, <3>2
  <2> QED
    BY <1>1, <1>4, <2>2, <2>4 DEF RetainedAreNewest, History!FirstSequence
<1> QED
  BY <1>1, <1>7, <1>8
-----------------------------------------------------------------------------
(***************************************************************************)
(* What the steps of one response, which leave the ring alone, have to     *)
(* show.                                                                   *)
(***************************************************************************)
LEMMA RingUntouched ==
  ASSUME PageInv, UNCHANGED ringVars
  PROVE  /\ History!TypeOK' /\ History!RingConsistent' /\ RetainedAreNewest'
         /\ History!FirstSequence' = History!FirstSequence
<1>1. /\ History!TypeOK' /\ History!RingConsistent'
      /\ History!FirstSequence' = History!FirstSequence
  BY DEF PageInv, PageIsAligned, PageTypeOK, ringVars, History!TypeOK, History!Slot,
         History!RingConsistent, History!FirstSequence
<1>2. Ring!Retained' = Ring!Retained /\ len' = len
  BY DEF ringVars, Ring!Retained
<1> QED
  BY <1>1, <1>2 DEF PageInv, RetainedAreNewest

(***************************************************************************)
(* The numbers the ring's status reports.                                  *)
(***************************************************************************)
LEMMA StatusBounds ==
  ASSUME PageTypeOK, History!RingConsistent
  PROVE  /\ StatusFirst \in Nat /\ StatusNext \in 0 .. MaxPushed
         /\ StatusFirst <= StatusNext /\ StatusNext <= pushed
         /\ StatusFirst <= History!FirstSequence
         /\ ~reserved => StatusFirst = 0 /\ StatusNext = 0
  BY PageAssumption
     DEF PageTypeOK, History!TypeOK, History!RingConsistent, StatusFirst,
         StatusNext, History!FirstSequence, History!NextSequence

-----------------------------------------------------------------------------
(***************************************************************************)
(* A board starts with an empty ring and no request.                       *)
(***************************************************************************)
LEMMA PageInvInit == PageInit => PageInv
<1> SUFFICES ASSUME PageInit PROVE PageInv
  OBVIOUS
<1> USE PageAssumption
<1>1. History!TypeOK /\ History!RingConsistent
  BY DEF PageInit, History!Init, History!TypeOK, History!RingConsistent,
         History!Slot
<1>2. RetainedAreNewest
  BY DEF PageInit, History!Init, RetainedAreNewest
<1>3. PageTypeOK
  BY <1>1 DEF PageInit, PageTypeOK, NoRequest, NoPage
<1>4. /\ PageIsOfPublished /\ ElementsKeepTheirPlace /\ SentPageIsWhole
      /\ NullOnlyIfOverwritten /\ RaisedOnlyPastLostReadings
  BY DEF PageInit, PageIsOfPublished, ElementsKeepTheirPlace, SentPageIsWhole,
         NullOnlyIfOverwritten, RaisedOnlyPastLostReadings, NoRequest, NoPage
<1> QED
  BY <1>1, <1>2, <1>3, <1>4 DEF PageInv, PageIsAligned

(***************************************************************************)
(* A reading published while a page is being sent only moves the first     *)
(* retained number on.                                                     *)
(***************************************************************************)
LEMMA PublishStep == PageInv /\ Publish => PageInv'
<1> SUFFICES ASSUME PageInv, Publish PROVE PageInv'
  OBVIOUS
<1> USE PageAssumption
<1>1. /\ History!TypeOK' /\ History!RingConsistent' /\ RetainedAreNewest'
      /\ History!FirstSequence' >= History!FirstSequence
      /\ pushed' = pushed + 1
  BY PushKeepsNewest DEF PageInv, PageIsAligned, PageTypeOK, Publish
<1>2. UNCHANGED <<reserved, pc, request, page, body>>
  BY DEF Publish
<1>3. /\ History!FirstSequence \in Int /\ History!FirstSequence' \in Int
      /\ pushed \in Nat
  BY <1>1 DEF PageInv, PageIsAligned, PageTypeOK, History!TypeOK,
              History!FirstSequence
<1>4. page.from \in Nat /\ page.count \in Nat /\ request.from \in Nat
  BY DEF PageInv, PageIsAligned, PageTypeOK
<1>5. PageTypeOK' /\ ElementsKeepTheirPlace' /\ SentPageIsWhole'
  BY <1>1, <1>2 DEF PageInv, PageIsAligned, PageTypeOK, ElementsKeepTheirPlace,
                    SentPageIsWhole
<1>6. PageIsOfPublished'
  BY <1>1, <1>2, <1>3, <1>4 DEF PageInv, PageIsOfPublished
<1>7. NullOnlyIfOverwritten'
  <2> SUFFICES ASSUME NEW i \in 1 .. Len(body), body[i] = Null
               PROVE  page.from + i - 1 < History!FirstSequence'
    BY <1>2 DEF NullOnlyIfOverwritten
  <2>1. page.from + i - 1 < History!FirstSequence
    BY DEF PageInv, NullOnlyIfOverwritten
  <2>2. i \in Int
    OBVIOUS
  <2> HIDE DEF History!FirstSequence
  <2> QED
    BY <1>1, <1>3, <1>4, <2>1, <2>2
<1>8. RaisedOnlyPastLostReadings'
  BY <1>1, <1>2, <1>3, <1>4 DEF PageInv, RaisedOnlyPastLostReadings
<1> QED
  BY <1>1, <1>5, <1>6, <1>7, <1>8 DEF PageInv, PageIsAligned

(***************************************************************************)
(* A reboot empties the ring and ends every response.                      *)
(***************************************************************************)
LEMMA RebootStep == PageInv /\ Reboot => PageInv'
<1> SUFFICES ASSUME PageInv, Reboot PROVE PageInv'
  OBVIOUS
<1> USE PageAssumption
<1>1. History!TypeOK' /\ History!RingConsistent'
  BY DEF Reboot, History!Reboot, History!TypeOK, History!RingConsistent,
         History!Slot
<1>2. RetainedAreNewest'
  BY DEF Reboot, History!Reboot, RetainedAreNewest
<1>3. PageTypeOK'
  BY <1>1 DEF PageInv, PageIsAligned, PageTypeOK, Reboot, NoRequest, NoPage
<1>4. /\ PageIsOfPublished' /\ ElementsKeepTheirPlace' /\ SentPageIsWhole'
      /\ NullOnlyIfOverwritten' /\ RaisedOnlyPastLostReadings'
  BY DEF Reboot, PageIsOfPublished, ElementsKeepTheirPlace, SentPageIsWhole,
         NullOnlyIfOverwritten, RaisedOnlyPastLostReadings, NoRequest, NoPage
<1> QED
  BY <1>1, <1>2, <1>3, <1>4 DEF PageInv, PageIsAligned

(***************************************************************************)
(* The page of a new request is cut to the numbers given out and raised to *)
(* the first one retained.                                                 *)
(***************************************************************************)
LEMMA RequestStep ==
  ASSUME PageInv, NEW from \in 0 .. MaxPushed + 1, NEW limit \in 0 .. MaxPage + 1,
         Request(from, limit)
  PROVE  PageInv'
<1> USE PageAssumption
<1>1. /\ History!TypeOK' /\ History!RingConsistent' /\ RetainedAreNewest'
      /\ History!FirstSequence' = History!FirstSequence
  BY RingUntouched DEF Request
<1> DEFINE cut == Smaller(limit, MaxPage)
           start == PageFrom(from)
           count == PageCount(start, cut)
<1>2. /\ StatusFirst \in Nat /\ StatusNext \in 0 .. MaxPushed
      /\ StatusFirst <= StatusNext /\ StatusNext <= pushed
      /\ StatusFirst <= History!FirstSequence
      /\ ~reserved => StatusFirst = 0 /\ StatusNext = 0
  BY StatusBounds DEF PageInv, PageIsAligned
<1>3. cut \in 0 .. MaxPage
  BY DEF Smaller
<1>4. start \in Nat /\ start >= from /\ (start > from => start = StatusFirst)
  BY <1>2 DEF PageFrom, Larger
<1> HIDE DEF cut, start
<1>5. /\ count \in 0 .. MaxPage
      /\ count > 0 => start + count <= StatusNext
  BY <1>2, <1>3, <1>4 DEF PageCount, Smaller, Larger
<1> HIDE DEF count
<1>6. /\ request' = [from |-> from, limit |-> cut]
      /\ page' = [from |-> start, count |-> count, next |-> StatusNext]
      /\ body' = << >> /\ pc' = "preamble" /\ reserved' = reserved
      /\ pushed' = pushed
  BY DEF Request, cut, start, count, ringVars
<1>7. PageTypeOK'
  BY <1>1, <1>2, <1>3, <1>4, <1>5, <1>6 DEF PageInv, PageIsAligned, PageTypeOK
<1>8. PageIsOfPublished'
  <2>1. pushed \in Nat
    BY DEF PageInv, PageIsAligned, PageTypeOK, History!TypeOK
  <2>2. count > 0 => reserved
    BY <1>2, <1>4, <1>5
  <2>3. count > 0 => start + count <= pushed
    BY <1>2, <1>4, <1>5, <2>1
  <2> QED
    BY <1>5, <1>6, <2>2, <2>3 DEF PageIsOfPublished
<1>9. ElementsKeepTheirPlace' /\ SentPageIsWhole' /\ NullOnlyIfOverwritten'
  BY <1>6 DEF ElementsKeepTheirPlace, SentPageIsWhole, NullOnlyIfOverwritten
<1>10. RaisedOnlyPastLostReadings'
  <2> SUFFICES ASSUME NEW seq \in from .. start - 1
               PROVE  seq < History!FirstSequence
    BY <1>1, <1>6 DEF RaisedOnlyPastLostReadings
  <2>1. start = StatusFirst /\ seq < StatusFirst
    BY <1>2, <1>4
  <2>2. History!FirstSequence \in Int
    BY DEF PageInv, PageIsAligned, PageTypeOK, History!TypeOK, History!FirstSequence
  <2> QED
    BY <1>2, <2>1, <2>2
<1> QED
  BY <1>1, <1>7, <1>8, <1>9, <1>10 DEF PageInv, PageIsAligned

(***************************************************************************)
(* Every element is the reading its place stands for, or the null of one   *)
(* that was overwritten after the bounds were settled.                     *)
(***************************************************************************)
LEMMA SendElementStep == PageInv /\ SendElement => PageInv'
<1> SUFFICES ASSUME PageInv, SendElement PROVE PageInv'
  OBVIOUS
<1> USE PageAssumption
<1>1. /\ History!TypeOK' /\ History!RingConsistent' /\ RetainedAreNewest'
      /\ History!FirstSequence' = History!FirstSequence
  BY RingUntouched DEF SendElement
<1>2. /\ UNCHANGED <<reserved, pc, request, page>> /\ pushed' = pushed
      /\ pc = "elements"
  BY DEF SendElement, ringVars
<1> DEFINE seq == page.from + Len(body)
<1>3. /\ page.from \in Nat /\ page.count \in Nat /\ pushed \in 0 .. MaxPushed
      /\ body \in Seq(0 .. MaxPushed \cup {Null}) /\ Len(body) \in Nat
  BY DEF PageInv, PageIsAligned, PageTypeOK, History!TypeOK
<1>4. Len(body) < page.count
  BY DEF SendElement
<1>5. reserved /\ seq \in 0 .. pushed - 1
  BY <1>3, <1>4 DEF PageInv, PageIsOfPublished
<1>6. Reading(seq) = IF seq < History!FirstSequence THEN Null ELSE seq
  BY <1>5, GetIsNumbered DEF Reading, PageInv, PageIsAligned, PageTypeOK
<1>7. Reading(seq) \in 0 .. MaxPushed \cup {Null}
  BY <1>3, <1>5, <1>6
<1>8. body' = Append(body, Reading(seq))
  BY DEF SendElement
<1> HIDE DEF seq
<1>9. /\ body' \in Seq(0 .. MaxPushed \cup {Null})
      /\ Len(body') = Len(body) + 1
      /\ body'[Len(body) + 1] = Reading(seq)
      /\ \A i \in 1 .. Len(body) : body'[i] = body[i]
  BY <1>3, <1>7, <1>8
<1>10. PageTypeOK'
  BY <1>1, <1>2, <1>9 DEF PageInv, PageIsAligned, PageTypeOK
<1>11. PageIsOfPublished' /\ SentPageIsWhole'
  BY <1>2, <1>3, <1>4, <1>9 DEF PageInv, PageIsOfPublished, SentPageIsWhole
<1>12. ASSUME NEW i \in 1 .. Len(body')
       PROVE  \/ body'[i] = page.from + i - 1
              \/ body'[i] = Null /\ page.from + i - 1 < History!FirstSequence
  <2>1. CASE i \in 1 .. Len(body)
    <3>1. body'[i] = body[i] /\ body[i] \in {page.from + i - 1, Null}
      BY <1>9, <2>1 DEF PageInv, PageIsAligned, ElementsKeepTheirPlace
    <3>2. body[i] = Null => page.from + i - 1 < History!FirstSequence
      BY <2>1 DEF PageInv, NullOnlyIfOverwritten
    <3> QED
      BY <3>1, <3>2
  <2>2. CASE i = Len(body) + 1
    <3>1. page.from + i - 1 = seq
      BY <1>3, <2>2 DEF seq
    <3> QED
      BY <1>6, <1>9, <2>2, <3>1
  <2> QED
    BY <1>3, <1>9, <2>1, <2>2
<1>13. ElementsKeepTheirPlace'
  BY <1>2, <1>12 DEF ElementsKeepTheirPlace
<1>14. NullOnlyIfOverwritten'
  <2> SUFFICES ASSUME NEW i \in 1 .. Len(body'), body'[i] = Null
               PROVE  page.from + i - 1 < History!FirstSequence
    BY <1>1, <1>2 DEF NullOnlyIfOverwritten
  <2>1. page.from + i - 1 \in Nat
    BY <1>3, <1>9
  <2> QED
    BY <1>12, <2>1
<1>15. RaisedOnlyPastLostReadings'
  BY <1>1, <1>2 DEF PageInv, RaisedOnlyPastLostReadings
<1> QED
  BY <1>1, <1>10, <1>11, <1>13, <1>14, <1>15 DEF PageInv, PageIsAligned

(***************************************************************************)
(* The other steps of the server move it on and send no element.           *)
(***************************************************************************)
LEMMA OtherSteps ==
  ASSUME PageInv, SendPreamble \/ SendTail \/ CutOff \/ HangUp \/ UNCHANGED pageVars
  PROVE  PageInv'
<1> USE PageAssumption
<1>1. UNCHANGED ringVars /\ reserved' = reserved /\ pushed' = pushed
  BY DEF SendPreamble, SendTail, CutOff, HangUp, pageVars, ringVars
<1>2. /\ History!TypeOK' /\ History!RingConsistent' /\ RetainedAreNewest'
      /\ History!FirstSequence' = History!FirstSequence
  BY <1>1, RingUntouched
<1>3. CASE UNCHANGED <<request, page, body>>
  <2>1. /\ pc' \in {"idle", "preamble", "elements", "sent", "cut"}
        /\ pc' = "sent" => Len(body) = page.count
    BY <1>3 DEF SendPreamble, SendTail, CutOff, HangUp, pageVars, PageInv,
                PageIsAligned, PageTypeOK, SentPageIsWhole
  <2> QED
    BY <1>1, <1>2, <1>3, <2>1
       DEF PageInv, PageIsAligned, PageTypeOK, PageIsOfPublished,
           ElementsKeepTheirPlace, SentPageIsWhole, NullOnlyIfOverwritten,
           RaisedOnlyPastLostReadings
<1>4. CASE HangUp
  <2>1. PageTypeOK'
    BY <1>1, <1>2, <1>4 DEF PageInv, PageIsAligned, PageTypeOK, HangUp, NoRequest,
                            NoPage
  <2>2. /\ PageIsOfPublished' /\ ElementsKeepTheirPlace' /\ SentPageIsWhole'
        /\ NullOnlyIfOverwritten' /\ RaisedOnlyPastLostReadings'
    BY <1>4 DEF HangUp, PageIsOfPublished, ElementsKeepTheirPlace,
                SentPageIsWhole, NullOnlyIfOverwritten,
                RaisedOnlyPastLostReadings, NoRequest, NoPage
  <2> QED
    BY <1>2, <2>1, <2>2 DEF PageInv, PageIsAligned
<1> QED
  BY <1>3, <1>4 DEF SendPreamble, SendTail, CutOff, pageVars

(***************************************************************************)
(* Every step keeps the invariant.                                         *)
(***************************************************************************)
LEMMA PageInvStep == PageInv /\ [PageNext]_pageVars => PageInv'
  BY PublishStep, RebootStep, RequestStep, SendElementStep, OtherSteps DEF PageNext

-----------------------------------------------------------------------------
(***************************************************************************)
(* The inductive invariant holds in every reachable state of the endpoint  *)
(* and its ring.                                                           *)
(***************************************************************************)
THEOREM PageInvariant == PageSpec => []PageInv
  BY PageInvInit, PageInvStep, PTL DEF PageSpec

(***************************************************************************)
(* A client of send_readings may number the elements of a page by their    *)
(* place, and step its cursor by their count once the page is whole.       *)
(***************************************************************************)
THEOREM PagesAreAligned == PageSpec => []PageIsAligned
<1>1. PageInv => PageIsAligned
  BY DEF PageInv
<1> QED
  BY <1>1, PageInvariant, PTL

(***************************************************************************)
(* send_readings writes null for no reading that is still retained and for *)
(* none that is yet to be published.                                       *)
(***************************************************************************)
THEOREM NothingIsWithheld == PageSpec => []NullOnlyIfOverwritten
<1>1. PageInv => NullOnlyIfOverwritten
  BY DEF PageInv
<1> QED
  BY <1>1, PageInvariant, PTL

(***************************************************************************)
(* A page that starts past the number asked for skips only readings the    *)
(* ring has overwritten.                                                   *)
(***************************************************************************)
THEOREM LatePagesSkipLostReadings == PageSpec => []RaisedOnlyPastLostReadings
<1>1. PageInv => RaisedOnlyPastLostReadings
  BY DEF PageInv
<1> QED
  BY <1>1, PageInvariant, PTL
=============================================================================
