---------------------------- MODULE DeviceNetwork ----------------------------
(* The device on the network: main's start-up order, the task that keeps the *)
(* station associated, and the web server's one socket with one client after *)
(* another.  The access point comes and goes, the radio refuses to start, a  *)
(* client falls silent, hangs up or vanishes at any byte.                    *)
EXTENDS Naturals, Sequences, FiniteSets

CONSTANTS ResponseParts,  \* writes a response takes
          MaxDrops,       \* bound: times the access point drops the station
          MaxFaults,      \* bound: radio starts, associations and accepts that fail
          MaxGone         \* bound: clients that vanish or hang up early

ASSUME DeviceNetworkAssumption ==
    /\ ResponseParts \in Nat \ {0}
    /\ {MaxDrops, MaxFaults, MaxGone} \subseteq Nat

VARIABLES main,     \* how far start-up is
          wifi,     \* wifi_connection_task and the radio it drives
          station,  \* the access point, the association and the address
          server,   \* web_server_task
          socket,   \* its socket, as embassy-net keeps it
          client,   \* the client of the day
          drops, faults, gone

vars == <<main, wifi, station, server, socket, client, drops, faults, gone>>
bounds == <<drops, faults, gone>>

(* A request: whether the header block has its end within the 512 bytes the  *)
(* server reads, whether it fills them, and what it asks for.                *)
Requests == [ended : BOOLEAN, fills : BOOLEAN, asks : {"resource", "nothing", "post"}]
Answers == {"200", "404", "405", "431"}

Due(request) ==
    IF ~request.ended THEN "431"
    ELSE IF request.asks = "post" THEN "405"
    ELSE IF request.asks = "nothing" THEN "404"
    ELSE "200"

\* A request arrives in two pieces, of which the second completes it.
Pieces == 2
NoClient == [phase |-> "away", request |-> [ended |-> TRUE, fills |-> FALSE, asks |-> "resource"],
             sent |-> 0, received |-> <<>>]

Init ==
    /\ main = "starting"
    /\ wifi = [phase |-> "off", started |-> FALSE, event |-> FALSE, missed |-> FALSE]
    /\ station = [ap |-> TRUE, associated |-> FALSE, leased |-> FALSE]
    /\ server = [phase |-> "off", read |-> 0, written |-> 0]
    /\ socket = [state |-> "closed", queue |-> <<>>, reset |-> FALSE]
    /\ client = NoClient
    /\ drops = 0
    /\ faults = 0
    /\ gone = 0

--------------------------------------------------------------------------
(* main: the radio and the web server first, the sensors once there was a    *)
(* link.                                                                     *)
SpawnNetwork ==
    /\ main = "starting"
    /\ main' = "waiting"
    /\ wifi' = [wifi EXCEPT !.phase = "check"]
    /\ server' = [server EXCEPT !.phase = "no link"]
    /\ UNCHANGED <<station, socket, client, bounds>>

SpawnSensors ==
    /\ main = "waiting"
    /\ station.associated
    /\ main' = "sensing"
    /\ UNCHANGED <<wifi, station, server, socket, client, bounds>>

--------------------------------------------------------------------------
(* wifi_connection_task. *)

\* An associated station only has to wait for the event of its loss, but the wait begins
\* after the look at the state and knows nothing of events before it.
CheckState ==
    /\ wifi.phase = "check"
    /\ wifi' = [wifi EXCEPT !.phase = IF station.associated THEN "before wait" ELSE "start"]
    /\ UNCHANGED <<main, station, server, socket, client, bounds>>

BeginWait ==
    /\ wifi.phase = "before wait"
    /\ wifi' = [wifi EXCEPT !.phase = "wait", !.event = FALSE]
    /\ UNCHANGED <<main, station, server, socket, client, bounds>>

Disconnected ==
    /\ wifi.phase = "wait"
    /\ wifi.event
    /\ wifi' = [wifi EXCEPT !.phase = "start"]
    /\ UNCHANGED <<main, station, server, socket, client, bounds>>

StartRadio ==
    /\ wifi.phase = "start"
    /\ wifi' = [wifi EXCEPT !.phase = "connect", !.started = TRUE]
    /\ UNCHANGED <<main, station, server, socket, client, bounds>>

\* The configuration is rejected or the radio does not start: a pause, and over again.
StartFails ==
    /\ wifi.phase = "start"
    /\ ~wifi.started
    /\ faults < MaxFaults
    /\ faults' = faults + 1
    /\ wifi' = [wifi EXCEPT !.phase = "check"]
    /\ UNCHANGED <<main, station, server, socket, client, drops, gone>>

\* Mutant of Connect: a failed association is waited out as if it held.
ConnectThenWait ==
    /\ wifi.phase = "connect"
    /\ station' = [station EXCEPT !.associated = station.ap]
    /\ wifi' = [wifi EXCEPT !.phase = "before wait"]
    /\ UNCHANGED <<main, server, socket, client, bounds>>

\* The association succeeds when the access point is there.
Connect ==
    /\ wifi.phase = "connect"
    /\ station' = [station EXCEPT !.associated = station.ap]
    /\ wifi' = [wifi EXCEPT !.phase = "check"]
    /\ UNCHANGED <<main, server, socket, client, bounds>>

ConnectFails ==
    /\ wifi.phase = "connect"
    /\ faults < MaxFaults
    /\ faults' = faults + 1
    /\ wifi' = [wifi EXCEPT !.phase = "check"]
    /\ UNCHANGED <<main, station, server, socket, client, drops, gone>>

--------------------------------------------------------------------------
(* The access point. *)
Drop ==
    /\ station.ap
    /\ drops < MaxDrops
    /\ drops' = drops + 1
    /\ station' = [station EXCEPT !.ap = FALSE, !.associated = FALSE]
    /\ wifi' = [wifi EXCEPT !.event = @ \/ (station.associated /\ wifi.phase = "wait"),
                            !.missed = @ \/ (station.associated /\ wifi.phase = "before wait")]
    /\ UNCHANGED <<main, server, socket, client, faults, gone>>

Return ==
    /\ ~station.ap
    /\ station' = [station EXCEPT !.ap = TRUE]
    /\ UNCHANGED <<main, wifi, server, socket, client, bounds>>

Lease ==
    /\ station.associated
    /\ ~station.leased
    /\ station' = [station EXCEPT !.leased = TRUE]
    /\ UNCHANGED <<main, wifi, server, socket, client, bounds>>

--------------------------------------------------------------------------
(* web_server_task. *)
LinkUp ==
    /\ server.phase = "no link"
    /\ station.associated
    /\ server' = [server EXCEPT !.phase = "no address"]
    /\ UNCHANGED <<main, wifi, station, socket, client, bounds>>

AddressKnown ==
    /\ server.phase = "no address"
    /\ station.leased
    /\ server' = [server EXCEPT !.phase = "accept"]
    /\ UNCHANGED <<main, wifi, station, socket, client, bounds>>

\* Listening resets the socket and drops what was left queued; an open socket cannot.
Listen ==
    /\ server.phase = "accept"
    /\ socket.state = "closed"
    /\ socket' = [state |-> "listen", queue |-> <<>>, reset |-> FALSE]
    /\ server' = [server EXCEPT !.phase = "listen"]
    /\ UNCHANGED <<main, wifi, station, client, bounds>>

AcceptFails ==
    /\ server.phase = "listen"
    /\ socket.state = "listen"
    /\ faults < MaxFaults
    /\ faults' = faults + 1
    /\ socket' = [socket EXCEPT !.state = "closed"]
    /\ server' = [server EXCEPT !.phase = "flush after error"]
    /\ UNCHANGED <<main, wifi, station, client, drops, gone>>

\* This flush has no bound of its own.
FlushedAfterError ==
    /\ server.phase = "flush after error"
    /\ socket.queue = <<>>
    /\ ~socket.reset
    /\ server' = [server EXCEPT !.phase = "accept"]
    /\ UNCHANGED <<main, wifi, station, socket, client, bounds>>

Accepted ==
    /\ server.phase = "listen"
    /\ socket.state = "open"
    /\ server' = [phase |-> "read", read |-> 0, written |-> 0]
    /\ UNCHANGED <<main, wifi, station, socket, client, bounds>>

\* Mutant of HeadComplete: a full buffer is looked at before its contents.
HeadCompleteUnlessFull(request, pieces) ==
    pieces = Pieces /\ request.ended /\ ~request.fills

\* The end of the header block is searched in everything read so far, and only then is a
\* full buffer too small.
HeadComplete(request, pieces) == pieces = Pieces /\ request.ended

Responding(answer) == server' = [server EXCEPT !.phase = answer]

\* A read returns what has arrived, be it one piece or all of them.
Read ==
    /\ server.phase = "read"
    /\ \E count \in (server.read + 1)..client.sent :
          LET request == client.request IN
          IF HeadComplete(request, count) THEN Responding(Due(request))
          ELSE IF count = Pieces /\ request.fills THEN Responding("431")
          ELSE server' = [server EXCEPT !.read = count]
    /\ UNCHANGED <<main, wifi, station, socket, client, bounds>>

\* The client hung up or reset the connection, or the socket's timeout passed in silence.
ReadEnds ==
    /\ server.phase = "read"
    /\ client.sent = server.read
    /\ server' = [server EXCEPT !.phase = "close"]
    /\ UNCHANGED <<main, wifi, station, socket, client, bounds>>

\* The transmit buffer takes one part at a time; the last one waits for no acknowledgement.
Write ==
    /\ server.phase \in Answers
    /\ server.written < ResponseParts
    /\ socket.queue = <<>>
    /\ socket' = [socket EXCEPT !.queue = <<server.phase>>]
    /\ server' = [server EXCEPT !.written = @ + 1]
    /\ UNCHANGED <<main, wifi, station, client, bounds>>

Written ==
    /\ server.phase \in Answers
    /\ server.written = ResponseParts
    /\ server' = [server EXCEPT !.phase = "close"]
    /\ UNCHANGED <<main, wifi, station, socket, client, bounds>>

\* Nobody acknowledges: the socket's timeout ends the write, and the response with it.
WriteFails ==
    /\ server.phase \in Answers
    /\ server.written < ResponseParts
    /\ socket.queue # <<>>
    /\ client.phase # "here" \/ ~station.associated
    /\ server' = [server EXCEPT !.phase = "close"]
    /\ UNCHANGED <<main, wifi, station, socket, client, bounds>>

Close ==
    /\ server.phase = "close"
    /\ server' = [server EXCEPT !.phase = "flush"]
    /\ UNCHANGED <<main, wifi, station, socket, client, bounds>>

\* Mutant of FlushEnds: the flush is not given a bound.
FlushUnbounded ==
    /\ server.phase = "flush"
    /\ socket.queue = <<>>
    /\ server' = [server EXCEPT !.phase = "abort"]
    /\ UNCHANGED <<main, wifi, station, socket, client, bounds>>

\* The transmit buffer drains, or two seconds pass without anyone to drain it.
FlushEnds ==
    /\ server.phase = "flush"
    /\ \/ socket.queue = <<>>
       \/ client.phase # "here"
       \/ ~station.associated
    /\ server' = [server EXCEPT !.phase = "abort"]
    /\ UNCHANGED <<main, wifi, station, socket, client, bounds>>

\* The connection is gone, and a reset is owed to the client.
Abort ==
    /\ server.phase = "abort"
    /\ socket' = [socket EXCEPT !.state = "closed", !.reset = TRUE]
    /\ client' = NoClient
    /\ server' = [server EXCEPT !.phase = "flush reset"]
    /\ UNCHANGED <<main, wifi, station, bounds>>

\* The reset goes out, or two seconds pass; what is queued by then never will.
FlushResetEnds ==
    /\ server.phase = "flush reset"
    /\ server' = [phase |-> "accept", read |-> 0, written |-> 0]
    /\ UNCHANGED <<main, wifi, station, socket, client, bounds>>

--------------------------------------------------------------------------
(* The client and the network. *)
ClientConnects(request) ==
    /\ socket.state = "listen"
    /\ station.associated
    /\ socket' = [socket EXCEPT !.state = "open"]
    /\ client' = [NoClient EXCEPT !.phase = "here", !.request = request]
    /\ UNCHANGED <<main, wifi, station, server, bounds>>

ClientSends ==
    /\ client.phase = "here"
    /\ client.sent < Pieces
    /\ station.associated
    /\ client' = [client EXCEPT !.sent = @ + 1]
    /\ UNCHANGED <<main, wifi, station, server, socket, bounds>>

ClientReceives ==
    /\ client.phase = "here"
    /\ socket.queue # <<>>
    /\ station.associated
    /\ client' = [client EXCEPT !.received = Append(@, Head(socket.queue))]
    /\ socket' = [socket EXCEPT !.queue = <<>>]
    /\ UNCHANGED <<main, wifi, station, server, bounds>>

ClientGone ==
    /\ client.phase = "here"
    /\ gone < MaxGone
    /\ gone' = gone + 1
    /\ client' = [client EXCEPT !.phase = "gone"]
    /\ UNCHANGED <<main, wifi, station, server, socket, drops, faults>>

\* A reset that is still owed when the next listen comes is never sent.
SendReset ==
    /\ socket.reset
    /\ station.associated
    /\ socket' = [socket EXCEPT !.reset = FALSE]
    /\ UNCHANGED <<main, wifi, station, server, client, bounds>>

--------------------------------------------------------------------------
MainStep == SpawnNetwork \/ SpawnSensors
WifiStep == CheckState \/ BeginWait \/ Disconnected \/ StartRadio \/ Connect
ServerStep ==
    \/ LinkUp \/ AddressKnown \/ Listen \/ FlushedAfterError \/ Accepted \/ Read \/ ReadEnds
    \/ Write \/ Written \/ WriteFails \/ Close \/ FlushEnds \/ Abort \/ FlushResetEnds
ClientStep == ClientSends \/ ClientReceives \/ SendReset
Connects == \E request \in Requests : ClientConnects(request)

Next ==
    \/ MainStep \/ WifiStep \/ ServerStep \/ ClientStep \/ Connects \/ ClientGone
    \/ StartFails \/ ConnectFails \/ AcceptFails \/ Drop \/ Return \/ Lease

(* The executor runs the three tasks, the access point comes back, the       *)
(* network delivers while there is one, and the poller keeps connecting.     *)
Fairness ==
    /\ WF_vars(MainStep) /\ WF_vars(WifiStep) /\ WF_vars(ServerStep)
    /\ WF_vars(ClientStep) /\ WF_vars(Return) /\ WF_vars(Lease) /\ WF_vars(Connects)

Spec == Init /\ [][Next]_vars /\ Fairness

--------------------------------------------------------------------------
(* Types: every variable holds what it can hold. *)
TypeOK ==
    /\ main \in {"starting", "waiting", "sensing"}
    /\ wifi \in [phase : {"off", "check", "before wait", "wait", "start", "connect"},
                 started : BOOLEAN, event : BOOLEAN, missed : BOOLEAN]
    /\ station \in [ap : BOOLEAN, associated : BOOLEAN, leased : BOOLEAN]
    /\ server \in [phase : {"off", "no link", "no address", "accept", "listen",
                            "flush after error", "read", "close", "flush", "abort",
                            "flush reset"} \cup Answers,
                   read : 0..Pieces, written : 0..ResponseParts]
    /\ socket.state \in {"closed", "listen", "open"}
    /\ socket.queue \in {<<>>} \cup {<<a>> : a \in Answers}
    /\ socket.reset \in BOOLEAN
    /\ client.phase \in {"away", "here", "gone"}
    /\ client.request \in Requests /\ client.sent \in 0..Pieces
    /\ Len(client.received) \in 0..ResponseParts
    /\ drops \in 0..MaxDrops /\ faults \in 0..MaxFaults /\ gone \in 0..MaxGone

(* A client receives the one answer its request is due, or a beginning of    *)
(* it: no part of another client's response, and no refusal for a header     *)
(* block that ends exactly where the buffer does.                            *)
OwnAnswerOnly ==
    \A i \in DOMAIN client.received : client.received[i] = Due(client.request)

(* The socket is closed whenever the server asks it to listen again, so that *)
(* accept cannot find it in a state it refuses.                              *)
ListensOnClosedSocket == server.phase = "accept" => socket.state = "closed"

(* The device keeps coming back to accept: a client that vanished in the     *)
(* middle of a response, a router reboot or a failed accept never leaves the *)
(* server waiting for what will not come.  The one thing that can is a       *)
(* disconnect that falls between the look at the radio's state and the wait. *)
KeepsListening == []<>(wifi.missed \/ server.phase = "listen")

(* Once there was a link the sensors start, whatever became of it.           *)
SensorsStart == <>(wifi.missed \/ main = "sensing")

(* The one socket serves one connection after the other: every client gets   *)
(* its own answer, and the socket is closed before it listens again.         *)
ConnectionsInOrder == TypeOK /\ OwnAnswerOnly /\ ListensOnClosedSocket
============================================================================
