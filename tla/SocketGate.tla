----------------------------- MODULE SocketGate -----------------------------
(***************************************************************************)
(* Client connections as the socket thread (socket_server.c) and the gate  *)
(* service (snax/gateserver.lua, gate.lua) see them.  The gate's owner, its *)
(* watchdog, is the other end of cmds and toApp.  Mailboxes and the pipe to *)
(* the socket thread keep the order of one sender.  An fd is the id of a   *)
(* socket; ids are not used again.                                         *)
(***************************************************************************)
EXTENDS Integers, Sequences, FiniteSets, SequencesExt

CONSTANTS Fd,
          Packet,       \* what a client can send
          maxclient,    \* conf.maxclient, 1000
          MaxEvents     \* bound: packets and warnings of one connection

ASSUME GateAssumption == maxclient \in Nat \ {0} /\ MaxEvents \in Nat

VARIABLES sock,           \* the socket's type in the socket thread
          ctl,            \* requests in the pipe to the socket thread
          toGate,         \* socket messages in the gate's mailbox
          cmds,           \* commands of the watchdog in the gate's mailbox
          connection,     \* gateserver's table: "nil", "true", "false"
          client_number,
          toApp,          \* messages from the gate in the watchdog's mailbox
          events          \* how many packets and warnings a connection had

gateVars == <<sock, ctl, toGate, cmds, connection, client_number, toApp, events>>

Msg(type, fd) == [type |-> type, fd |-> fd]
Data(fd, p) == [type |-> "data", fd |-> fd, packet |-> p]

GateInit ==
    /\ sock = [fd \in Fd |-> "none"]
    /\ ctl = <<>> /\ toGate = <<>> /\ cmds = <<>> /\ toApp = <<>>
    /\ connection = [fd \in Fd |-> "nil"]
    /\ client_number = 0
    /\ events = [fd \in Fd |-> 0]
-----------------------------------------------------------------------------
\* The socket thread.

\* report_accept: the new socket is not polled before it is started.
SocketAccept(fd) ==
    /\ sock[fd] = "none"
    /\ sock' = [sock EXCEPT ![fd] = "paccept"]
    /\ toGate' = Append(toGate, Msg("open", fd))
    /\ UNCHANGED <<ctl, cmds, connection, client_number, toApp, events>>

\* forward_message_tcp: a packet; a half closed socket discards it.
SocketData(fd, p) ==
    /\ sock[fd] = "connected"
    /\ events[fd] < MaxEvents
    /\ events' = [events EXCEPT ![fd] = @ + 1]
    /\ toGate' = Append(toGate, Data(fd, p))
    /\ UNCHANGED <<sock, ctl, cmds, connection, client_number, toApp>>

\* send_socket and send_buffer_: too much is waiting to be sent, or what was
\* waiting has been sent.
SocketWarning(fd) ==
    /\ sock[fd] = "connected"
    /\ events[fd] < MaxEvents
    /\ events' = [events EXCEPT ![fd] = @ + 1]
    /\ toGate' = Append(toGate, Msg("warning", fd))
    /\ UNCHANGED <<sock, ctl, cmds, connection, client_number, toApp>>

\* The peer closes, a read fails, or a half closed socket has sent the rest.
SocketEnd(fd, type) ==
    /\ sock[fd] \in {"connected", "halfclose"}
    /\ sock' = [sock EXCEPT ![fd] = "invalid"]
    /\ toGate' = Append(toGate, Msg(type, fd))
    /\ UNCHANGED <<ctl, cmds, connection, client_number, toApp, events>>

\* start_socket: polling begins; epoll may refuse the socket.
StartSocket(fd) ==
    /\ CASE sock[fd] = "paccept" ->
              \/ sock' = [sock EXCEPT ![fd] = "connected"] /\ UNCHANGED toGate
              \/ sock' = [sock EXCEPT ![fd] = "invalid"] /\ toGate' = Append(toGate, Msg("error", fd))
         [] sock[fd] = "invalid" -> toGate' = Append(toGate, Msg("error", fd)) /\ UNCHANGED sock
         [] OTHER -> UNCHANGED <<sock, toGate>>

\* Faulty variant: nothing is reported for a socket that is closed already.
CloseSocketSilent(fd) ==
    IF sock[fd] = "invalid" THEN UNCHANGED <<sock, toGate>>
    ELSE sock' = [sock EXCEPT ![fd] = "invalid"] /\ UNCHANGED toGate

\* close_socket: a socket with data to send is half closed; the others are
\* reported as closed, also when they were closed before.
CloseSocket(fd) ==
    \/ /\ sock' = [sock EXCEPT ![fd] = "invalid"]
       /\ toGate' = Append(toGate, Msg("close", fd))
    \/ /\ sock[fd] = "connected"
       /\ sock' = [sock EXCEPT ![fd] = "halfclose"]
       /\ UNCHANGED toGate

\* The next request in the pipe.
SocketRequest ==
    /\ ctl # <<>>
    /\ ctl' = Tail(ctl)
    /\ IF Head(ctl).type = "start" THEN StartSocket(Head(ctl).fd) ELSE CloseSocket(Head(ctl).fd)
    /\ UNCHANGED <<cmds, connection, client_number, toApp, events>>
-----------------------------------------------------------------------------
\* The gate.

\* MSG.open, handler.connect.
MsgOpen(fd) ==
    IF client_number >= maxclient
    THEN ctl' = Append(ctl, Msg("close", fd)) /\ UNCHANGED <<connection, client_number, toApp>>
    ELSE /\ connection' = [connection EXCEPT ![fd] = "true"]
         /\ client_number' = client_number + 1
         /\ toApp' = Append(toApp, Msg("open", fd))
         /\ UNCHANGED ctl

\* dispatch_msg, handler.message: forwarded unless the client was kicked.
MsgData(m) ==
    /\ toApp' = IF connection[m.fd] = "true" THEN Append(toApp, m) ELSE toApp
    /\ UNCHANGED <<ctl, connection, client_number>>

MsgWarning(m) == toApp' = Append(toApp, m) /\ UNCHANGED <<ctl, connection, client_number>>

\* MSG.close and MSG.error, with the handlers and close_fd.
MsgEnd(m) ==
    /\ toApp' = Append(toApp, m)
    /\ connection' = [connection EXCEPT ![m.fd] = "nil"]
    /\ client_number' = IF connection[m.fd] # "nil" THEN client_number - 1 ELSE client_number
    /\ UNCHANGED ctl

\* The gate handles a socket message.
GateSocket ==
    /\ toGate # <<>>
    /\ toGate' = Tail(toGate)
    /\ LET m == Head(toGate)
       IN  CASE m.type = "open" -> MsgOpen(m.fd)
             [] m.type = "data" -> MsgData(m)
             [] m.type = "warning" -> MsgWarning(m)
             [] OTHER -> MsgEnd(m)
    /\ UNCHANGED <<sock, cmds, events>>

\* CMD.accept and openclient, and the answer to the call.  An unknown connection
\* is an error, the answer then too.
CmdAccept(fd) ==
    /\ IF connection[fd] = "nil" THEN toApp' = Append(toApp, Msg("refused", fd)) /\ UNCHANGED ctl
       ELSE /\ toApp' = Append(toApp, Msg("accepted", fd))
            /\ ctl' = IF connection[fd] = "true" THEN Append(ctl, Msg("start", fd)) ELSE ctl
    /\ UNCHANGED <<connection, client_number>>

\* Faulty variant: a kicked client is forgotten at once.
CmdKickForgets(fd) ==
    /\ ctl' = Append(ctl, Msg("close", fd))
    /\ connection' = [connection EXCEPT ![fd] = "nil"]
    /\ UNCHANGED <<client_number, toApp>>

\* CMD.kick and closeclient.
CmdKick(fd) ==
    /\ IF connection[fd] = "true"
       THEN connection' = [connection EXCEPT ![fd] = "false"] /\ ctl' = Append(ctl, Msg("close", fd))
       ELSE UNCHANGED <<connection, ctl>>
    /\ UNCHANGED <<client_number, toApp>>

\* The gate handles a command.
GateCommand ==
    /\ cmds # <<>>
    /\ cmds' = Tail(cmds)
    /\ IF Head(cmds).type = "accept" THEN CmdAccept(Head(cmds).fd) ELSE CmdKick(Head(cmds).fd)
    /\ UNCHANGED <<sock, toGate, events>>
-----------------------------------------------------------------------------
Known == {fd \in Fd : connection[fd] # "nil"}

\* The end of the connection is on its way to the watchdog.
Ending == {fd \in Fd : \E i \in DOMAIN toApp : toApp[i].fd = fd /\ toApp[i].type \in {"close", "error"}}

\* gateserver counts the connections it knows, and never has more than conf.maxclient,
\* though a connection may be kicked, closed by the peer and reported closed twice.
GateCount == client_number = Cardinality(Known) /\ client_number <= maxclient

=============================================================================
