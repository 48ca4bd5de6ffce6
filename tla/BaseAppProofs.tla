---------------------------- MODULE BaseAppProofs ----------------------------
(***************************************************************************)
(* Theorems about BaseApp and the gate it owns, for any number of          *)
(* connections, accounts and packets and any limit of the gate.            *)
(***************************************************************************)
EXTENDS BaseApp, SequenceTheorems, FiniteSetTheorems, TLAPS

DataMsg == [type : {"data"}, fd : Fd, packet : Packet]
SocketMsg == [type : {"open", "warning", "close", "error"}, fd : Fd] \cup DataMsg
AppMsg == [type : {"open", "warning", "close", "error", "accepted", "refused"}, fd : Fd] \cup DataMsg
CtlMsg == [type : {"start", "close"}, fd : Fd]
CmdMsg == [type : {"accept", "kick"}, fd : Fd]
Login == [at : {"find", "found", "missing"}, fd : Fd, account : Account]

TypeOK ==
    /\ sock \in [Fd -> {"none", "paccept", "connected", "halfclose", "invalid"}]
    /\ ctl \in Seq(CtlMsg)
    /\ toGate \in Seq(SocketMsg)
    /\ cmds \in Seq(CmdMsg)
    /\ connection \in [Fd -> {"nil", "true", "false"}]
    /\ toApp \in Seq(AppMsg)
    /\ clients \in Nat
    /\ authed_fd \subseteq Fd
    /\ loading \in Seq(Login)
    /\ fd_2_player \in [Fd -> Account \cup {NoAccount}]

\* The connections some message of a type of T in the queue q is about.
Fds(q, T) == {fd \in Fd : \E i \in 1..Len(q) : q[i].fd = fd /\ q[i].type \in T}

\* No connection has two messages of these types in q.
Unique(q, T) ==
    \A i, j \in 1..Len(q) :
        q[i].type \in T /\ q[j].type \in T /\ q[i].fd = q[j].fd => i = j

\* Where the acceptance of a connection can be on its way: offered to the gate, offered to
\* base_app or accepted by the gate, and being accepted by base_app.
Opening == Fds(toGate, {"open"})
Offered == Fds(toApp, {"open", "accepted"})
Accepting == Fds(cmds, {"accept"})
Ended == Fds(toApp, {"close", "error"})
Pending == Opening \cup Offered \cup Accepting

\* A connection is accepted once: it is in one of the three queues at most, and once.
AcceptedOnce ==
    /\ Unique(toGate, {"open"})
    /\ Unique(toApp, {"open", "accepted"})
    /\ Unique(cmds, {"accept"})
    /\ Opening \cap Offered = {}
    /\ Opening \cap Accepting = {}
    /\ Offered \cap Accepting = {}

\* Nothing is said of a socket before it exists, and the gate does not know a connection
\* before it has handled its open.
Fresh ==
    /\ \A fd \in Fd : sock[fd] = "none" =>
          /\ fd \notin Known \cup Ended \cup Pending
          /\ fd \notin Fds(toGate, {"data", "warning", "close", "error"})
    /\ Opening \cap Known = {}

\* The gate knows the connection a packet or the answer to an accept is about, or has
\* told its end, which is behind it in base_app's mailbox.
CoveredIn(q, K) ==
    \A i \in 1..Len(q) : q[i].type \in {"data", "accepted"} =>
        \/ q[i].fd \in K
        \/ \E j \in 1..Len(q) : j > i /\ q[j].fd = q[i].fd /\ q[j].type \in {"close", "error"}
Covered == CoveredIn(toApp, Known)

\* A client is authenticated no longer than its connection lasts.
Authed == authed_fd \subseteq Known \cup Ended

\* What base_app counts are connections whose acceptance is no longer on its way.
CountedClients ==
    /\ IsFiniteSet(Known \cup Ended)
    /\ clients <= Cardinality((Known \cup Ended) \ Pending)

Inv ==
    /\ TypeOK
    /\ IsFiniteSet(Known) /\ GateCount
    /\ AcceptedOnce
    /\ Fresh
    /\ Covered
    /\ Authed
    /\ CountedClients
-----------------------------------------------------------------------------
\* A message put into a queue.
LEMMA Push == ASSUME NEW S, NEW q \in Seq(S), NEW m \in S, m.fd \in Fd, NEW T
              PROVE  /\ Fds(Append(q, m), T) =
                          Fds(q, T) \cup (IF m.type \in T THEN {m.fd} ELSE {})
                     /\ Unique(q, T) /\ (m.type \in T => m.fd \notin Fds(q, T))
                          => Unique(Append(q, m), T)
<1> DEFINE n == Len(q)
           r == Append(q, m)
<1>1. /\ n \in Nat /\ Len(r) = n + 1
      /\ \A i \in 1..n : r[i] = q[i]
      /\ r[n + 1] = m
  OBVIOUS
<1>2. \A i \in 1..Len(r) : i \in 1..n \/ i = n + 1
  BY <1>1
<1>3. \A i \in 1..n : i \in 1..Len(r)
  BY <1>1
<1>4. n + 1 \in 1..Len(r)
  BY <1>1
<1> HIDE DEF n, r
<1>5. Fds(r, T) = Fds(q, T) \cup (IF m.type \in T THEN {m.fd} ELSE {})
  <2>1. ASSUME NEW fd \in Fds(q, T) PROVE fd \in Fds(r, T)
    BY <1>1, <1>3 DEF Fds, n
  <2>2. m.type \in T => m.fd \in Fds(r, T)
    BY <1>1, <1>4 DEF Fds
  <2>3. ASSUME NEW fd \in Fds(r, T) PROVE fd \in Fds(q, T) \/ (m.type \in T /\ fd = m.fd)
    BY <1>1, <1>2 DEF Fds, n
  <2> QED
    BY <2>1, <2>2, <2>3
<1>6. ASSUME Unique(q, T), m.type \in T => m.fd \notin Fds(q, T) PROVE Unique(r, T)
  <2>1. ASSUME NEW i \in 1..n, q[i].type \in T, m.type \in T PROVE q[i].fd # m.fd
    BY <1>6, <2>1 DEF Fds, n
  <2> SUFFICES ASSUME NEW i \in 1..Len(r), NEW j \in 1..Len(r),
                      r[i].type \in T, r[j].type \in T, r[i].fd = r[j].fd
               PROVE  i = j
    BY DEF Unique
  <2>2. CASE i \in 1..n /\ j \in 1..n
    BY <1>1, <1>6, <2>2 DEF Unique, n
  <2>3. CASE i \in 1..n /\ j = n + 1
    BY <1>1, <2>1, <2>3
  <2>4. CASE j \in 1..n /\ i = n + 1
    BY <1>1, <2>1, <2>4
  <2> QED
    BY <1>2, <2>2, <2>3, <2>4
<1> QED
  BY <1>5, <1>6 DEF r

\* A message taken from a queue.
LEMMA Pop == ASSUME NEW S, NEW q \in Seq(S), q # <<>>, Head(q).fd \in Fd, NEW T
             PROVE  /\ Fds(q, T) = Fds(Tail(q), T)
                                     \cup (IF Head(q).type \in T THEN {Head(q).fd} ELSE {})
                    /\ Unique(q, T) => /\ Unique(Tail(q), T)
                                       /\ Head(q).type \in T => Head(q).fd \notin Fds(Tail(q), T)
<1> DEFINE n == Len(q)
           r == Tail(q)
           m == Head(q)
<1>1. /\ n \in Nat /\ n > 0 /\ Len(r) = n - 1 /\ m = q[1]
      /\ \A i \in 1..Len(r) : r[i] = q[i + 1] /\ i + 1 \in 1..n /\ i + 1 # 1
  OBVIOUS
<1>2. \A i \in 1..n : i = 1 \/ (i - 1 \in 1..Len(r) /\ r[i - 1] = q[i])
  BY <1>1
<1>3. 1 \in 1..n
  BY <1>1
<1> HIDE DEF n, r, m
<1>4. Fds(q, T) = Fds(r, T) \cup (IF m.type \in T THEN {m.fd} ELSE {})
  <2>1. ASSUME NEW fd \in Fds(r, T) PROVE fd \in Fds(q, T)
    BY <1>1 DEF Fds, n
  <2>2. m.type \in T => m.fd \in Fds(q, T)
    BY <1>1, <1>3 DEF Fds, n, m
  <2>3. ASSUME NEW fd \in Fds(q, T) PROVE fd \in Fds(r, T) \/ (m.type \in T /\ fd = m.fd)
    BY <1>1, <1>2 DEF Fds, n
  <2> QED
    BY <2>1, <2>2, <2>3
<1>5. ASSUME Unique(q, T) PROVE Unique(r, T) /\ (m.type \in T => m.fd \notin Fds(r, T))
  <2>1. \A i, j \in 1..n : q[i].type \in T /\ q[j].type \in T /\ q[i].fd = q[j].fd => i = j
    BY <1>5 DEF Unique, n
  <2>2. Unique(r, T)
    <3> SUFFICES ASSUME NEW i \in 1..Len(r), NEW j \in 1..Len(r),
                        r[i].type \in T, r[j].type \in T, r[i].fd = r[j].fd
                 PROVE  i = j
      BY DEF Unique
    <3>1. i + 1 = j + 1
      BY <1>1, <2>1
    <3> QED
      BY <1>1, <3>1
  <2>3. m.type \in T => m.fd \notin Fds(r, T)
    BY <1>1, <1>3, <2>1 DEF Fds
  <2> QED
    BY <2>2, <2>3
<1> QED
  BY <1>4, <1>5 DEF r, m

\* The two lemmas for a message whose type is, or is not, of interest.
LEMMA PushIn == ASSUME NEW S, NEW q \in Seq(S), NEW m \in S, m.fd \in Fd, NEW T, m.type \in T
                PROVE  /\ Fds(Append(q, m), T) = Fds(q, T) \cup {m.fd}
                       /\ Unique(q, T) /\ m.fd \notin Fds(q, T) => Unique(Append(q, m), T)
BY Push

LEMMA PushOut == ASSUME NEW S, NEW q \in Seq(S), NEW m \in S, m.fd \in Fd, NEW T, m.type \notin T
                 PROVE  /\ Fds(Append(q, m), T) = Fds(q, T)
                        /\ Unique(q, T) => Unique(Append(q, m), T)
<1>1. Fds(Append(q, m), T) = Fds(q, T) \cup {}
  BY Push
<1>2. Fds(q, T) \cup {} = Fds(q, T)
  OBVIOUS
<1>3. Unique(q, T) => Unique(Append(q, m), T)
  BY Push
<1> QED
  BY <1>1, <1>2, <1>3

LEMMA PopIn == ASSUME NEW S, NEW q \in Seq(S), q # <<>>, Head(q).fd \in Fd, NEW T, Head(q).type \in T
               PROVE  /\ Fds(q, T) = Fds(Tail(q), T) \cup {Head(q).fd}
                      /\ Unique(q, T) => /\ Unique(Tail(q), T)
                                         /\ Head(q).fd \notin Fds(Tail(q), T)
BY Pop

LEMMA PopOut == ASSUME NEW S, NEW q \in Seq(S), q # <<>>, Head(q).fd \in Fd, NEW T,
                       Head(q).type \notin T
                PROVE  /\ Fds(q, T) = Fds(Tail(q), T)
                       /\ Unique(q, T) => Unique(Tail(q), T)
<1>1. Fds(q, T) = Fds(Tail(q), T) \cup {}
  BY Pop
<1>2. Fds(Tail(q), T) \cup {} = Fds(Tail(q), T)
  OBVIOUS
<1>3. Unique(q, T) => Unique(Tail(q), T)
  BY Pop
<1> QED
  BY <1>1, <1>2, <1>3

\* What the messages carry.
LEMMA Messages == /\ \A m \in SocketMsg :
                        /\ m.fd \in Fd
                        /\ m.type \in {"open", "data", "warning", "close", "error"}
                        /\ m.type = "data" => m.packet \in Packet
                        /\ m \in AppMsg
                  /\ \A m \in AppMsg :
                        /\ m.fd \in Fd
                        /\ m.type \in {"open", "data", "warning", "close", "error",
                                       "accepted", "refused"}
                        /\ m.type = "data" => m.packet \in Packet
                  /\ \A fd \in Fd, t \in {"open", "warning", "close", "error"} :
                        Msg(t, fd) \in SocketMsg
                  /\ \A fd \in Fd, p \in Packet : Data(fd, p) \in SocketMsg
                  /\ \A fd \in Fd, t \in {"open", "accepted", "refused"} : Msg(t, fd) \in AppMsg
                  /\ \A m \in CmdMsg : m.fd \in Fd /\ m.type \in {"accept", "kick"}
                  /\ \A fd \in Fd, t \in {"accept", "kick"} : Msg(t, fd) \in CmdMsg
                  /\ \A m \in CtlMsg : m.fd \in Fd
                  /\ \A fd \in Fd, t \in {"start", "close"} : Msg(t, fd) \in CtlMsg
                  /\ \A fd \in Fd, t \in STRING : Msg(t, fd).type = t /\ Msg(t, fd).fd = fd
                  /\ \A fd \in Fd, p \in Packet :
                        /\ Data(fd, p).type = "data" /\ Data(fd, p).fd = fd
                        /\ Data(fd, p).packet = p
BY DEF SocketMsg, AppMsg, DataMsg, CtlMsg, CmdMsg, Msg, Data

LEMMA InvInit == Init => Inv
<1> SUFFICES ASSUME Init PROVE Inv
  OBVIOUS
<1>1. TypeOK
  BY DEF Init, GateInit, TypeOK
<1>2. Known = {} /\ Opening = {} /\ Offered = {} /\ Accepting = {} /\ Ended = {}
  BY DEF Init, GateInit, Known, Opening, Offered, Accepting, Ended, Fds
<1>3. IsFiniteSet({}) /\ Cardinality({}) = 0
  BY FS_EmptySet
<1>4. GateCount
  BY <1>2, <1>3, GateAssumption DEF GateCount, Init, GateInit
<1>5. AcceptedOnce
  BY <1>2 DEF AcceptedOnce, Unique, Init, GateInit
<1>6. Fresh
  BY <1>2 DEF Fresh, Pending, Fds, Init, GateInit
<1>7. CountedClients
  BY <1>2, <1>3 DEF CountedClients, Init
<1>8. Covered /\ Authed
  BY DEF Covered, CoveredIn, Authed, Init, GateInit
<1> QED
  BY <1>1, <1>2, <1>3, <1>4, <1>5, <1>6, <1>7, <1>8 DEF Inv
-----------------------------------------------------------------------------
\* The queues stay queues of messages.
LEMMA Queues == ASSUME TypeOK, NEW fd \in Fd
                PROVE  /\ \A t \in {"open", "warning", "close", "error"} :
                             Append(toGate, Msg(t, fd)) \in Seq(SocketMsg)
                       /\ \A p \in Packet : Append(toGate, Data(fd, p)) \in Seq(SocketMsg)
                       /\ \A t \in {"open", "accepted", "refused"} :
                             Append(toApp, Msg(t, fd)) \in Seq(AppMsg)
                       /\ \A t \in {"accept", "kick"} : Append(cmds, Msg(t, fd)) \in Seq(CmdMsg)
                       /\ \A t \in {"start", "close"} : Append(ctl, Msg(t, fd)) \in Seq(CtlMsg)
<1>1. \A S : \A q \in Seq(S), m \in S : Append(q, m) \in Seq(S)
  OBVIOUS
<1>2. /\ toGate \in Seq(SocketMsg) /\ toApp \in Seq(AppMsg)
      /\ cmds \in Seq(CmdMsg) /\ ctl \in Seq(CtlMsg)
  BY DEF TypeOK
<1>3. /\ \A t \in {"open", "warning", "close", "error"} : Msg(t, fd) \in SocketMsg
      /\ \A p \in Packet : Data(fd, p) \in SocketMsg
  BY Messages
<1>4. \A t \in {"open", "accepted", "refused"} : Msg(t, fd) \in AppMsg
  BY Messages
<1>5. /\ \A t \in {"accept", "kick"} : Msg(t, fd) \in CmdMsg
      /\ \A t \in {"start", "close"} : Msg(t, fd) \in CtlMsg
  BY Messages
<1> QED
  BY <1>1, <1>2, <1>3, <1>4, <1>5

\* Every step keeps the types.
LEMMA TypeStep == TypeOK /\ [Next]_vars => TypeOK'
<1> SUFFICES ASSUME TypeOK, [Next]_vars PROVE TypeOK'
  OBVIOUS
<1>1. ASSUME UNCHANGED appVars,
             \/ \E fd \in Fd : SocketAccept(fd) \/ SocketWarning(fd)
             \/ \E fd \in Fd, p \in Packet : SocketData(fd, p)
             \/ \E fd \in Fd : SocketEnd(fd, "close") \/ SocketEnd(fd, "error")
      PROVE  TypeOK'
  <2>1. ASSUME NEW fd \in Fd,
               SocketAccept(fd) \/ SocketEnd(fd, "close") \/ SocketEnd(fd, "error")
        PROVE  TypeOK'
    <3>1. toGate' \in Seq(SocketMsg)
      BY <2>1, Queues DEF SocketAccept, SocketEnd
    <3>2. sock' \in [Fd -> {"none", "paccept", "connected", "halfclose", "invalid"}]
      BY <2>1 DEF SocketAccept, SocketEnd, TypeOK
    <3> QED
      BY <1>1, <2>1, <3>1, <3>2 DEF SocketAccept, SocketEnd, TypeOK, appVars
  <2>2. ASSUME NEW fd \in Fd, SocketWarning(fd) PROVE TypeOK'
    <3>1. toGate' \in Seq(SocketMsg)
      BY <2>2, Queues DEF SocketWarning
    <3> QED
      BY <1>1, <2>2, <3>1 DEF SocketWarning, TypeOK, appVars
  <2>3. ASSUME NEW fd \in Fd, NEW p \in Packet, SocketData(fd, p) PROVE TypeOK'
    <3>1. toGate' \in Seq(SocketMsg)
      BY <2>3, Queues DEF SocketData
    <3> QED
      BY <1>1, <2>3, <3>1 DEF SocketData, TypeOK, appVars
  <2> QED
    BY <1>1, <2>1, <2>2, <2>3
<1>2. ASSUME SocketRequest, UNCHANGED appVars PROVE TypeOK'
  <2>1. Head(ctl).fd \in Fd /\ ctl' \in Seq(CtlMsg)
    <3>1. Head(ctl) \in CtlMsg /\ Tail(ctl) \in Seq(CtlMsg)
      BY <1>2 DEF SocketRequest, TypeOK
    <3> QED
      BY <1>2, <3>1, Messages DEF SocketRequest
  <2>2. PICK fd \in Fd : StartSocket(fd) \/ CloseSocket(fd)
    BY <1>2, <2>1 DEF SocketRequest
  <2>3. \/ toGate' = toGate
        \/ \E t \in {"error", "close"} : toGate' = Append(toGate, Msg(t, fd))
    BY <2>2 DEF StartSocket, CloseSocket
  <2>4. toGate' \in Seq(SocketMsg)
    BY <2>3, Queues DEF TypeOK
  <2>5. sock' \in [Fd -> {"none", "paccept", "connected", "halfclose", "invalid"}]
    BY <2>2 DEF StartSocket, CloseSocket, TypeOK
  <2> QED
    BY <1>2, <2>1, <2>4, <2>5 DEF SocketRequest, TypeOK, appVars
<1>3. ASSUME GateSocket, UNCHANGED appVars PROVE TypeOK'
  <2> DEFINE m == Head(toGate)
  <2>1. m \in SocketMsg /\ toGate' \in Seq(SocketMsg)
    BY <1>3 DEF GateSocket, TypeOK
  <2>2. MsgOpen(m.fd) \/ MsgData(m) \/ MsgWarning(m) \/ MsgEnd(m)
    BY <1>3 DEF GateSocket
  <2> HIDE DEF m
  <2>3. UNCHANGED <<sock, cmds, events>>
    BY <1>3 DEF GateSocket
  <2>4. /\ ctl' \in Seq(CtlMsg)
        /\ connection' \in [Fd -> {"nil", "true", "false"}]
        /\ toApp' \in Seq(AppMsg)
    <3>1. m.fd \in Fd /\ Append(toApp, m) \in Seq(AppMsg)
      BY <2>1, Messages DEF TypeOK
    <3>2. ctl' \in Seq(CtlMsg)
      BY <2>2, <3>1, Queues DEF MsgOpen, MsgData, MsgWarning, MsgEnd, TypeOK
    <3>3. connection' \in [Fd -> {"nil", "true", "false"}]
      BY <2>2, <3>1 DEF MsgOpen, MsgData, MsgWarning, MsgEnd, TypeOK
    <3>4. toApp' \in Seq(AppMsg)
      BY <2>2, <3>1, Queues DEF MsgOpen, MsgData, MsgWarning, MsgEnd, TypeOK
    <3> QED
      BY <3>2, <3>3, <3>4
  <2> QED
    BY <1>3, <2>1, <2>3, <2>4 DEF TypeOK, appVars
<1>4. ASSUME GateCommand, UNCHANGED appVars PROVE TypeOK'
  <2>1. Head(cmds).fd \in Fd /\ cmds' \in Seq(CmdMsg)
    <3>1. Head(cmds) \in CmdMsg /\ Tail(cmds) \in Seq(CmdMsg)
      BY <1>4 DEF GateCommand, TypeOK
    <3> QED
      BY <1>4, <3>1, Messages DEF GateCommand
  <2>2. PICK fd \in Fd : CmdAccept(fd) \/ CmdKick(fd)
    BY <1>4, <2>1 DEF GateCommand
  <2>3. ctl' \in Seq(CtlMsg)
    BY <2>2, Queues DEF CmdAccept, CmdKick, TypeOK
  <2>4. toApp' \in Seq(AppMsg)
    BY <2>2, Queues DEF CmdAccept, CmdKick, TypeOK
  <2>5. connection' \in [Fd -> {"nil", "true", "false"}]
    BY <2>2 DEF CmdAccept, CmdKick, TypeOK
  <2> QED
    BY <1>4, <2>1, <2>3, <2>4, <2>5 DEF GateCommand, TypeOK, appVars
<1>5. CASE AppMessage
  <2> DEFINE m == Head(toApp)
  <2>1. m \in AppMsg /\ toApp' \in Seq(AppMsg)
    BY <1>5 DEF AppMessage, TypeOK
  <2>2. \/ Open(m.fd) \/ Accepted \/ OtherPacket(m.fd) \/ CloseConn(m.fd)
        \/ Auth(m.fd, m.packet.account) /\ m.type = "data" /\ m.packet.kind = "login"
        \/ UNCHANGED <<cmds, appVars>>
    BY <1>5 DEF AppMessage
  <2> HIDE DEF m
  <2>3. UNCHANGED <<sock, ctl, toGate, connection>>
    BY <1>5 DEF AppMessage
  <2>4. m.fd \in Fd
    BY <2>1, Messages
  <2>5. CASE Open(m.fd) \/ OtherPacket(m.fd)
    <3>1. cmds' \in Seq(CmdMsg)
      BY <2>4, <2>5, Queues DEF Open, OtherPacket, TypeOK
    <3> QED
      BY <2>1, <2>3, <2>5, <3>1 DEF Open, OtherPacket, TypeOK, appVars
  <2>6. CASE Accepted \/ CloseConn(m.fd)
    BY <2>1, <2>3, <2>4, <2>6 DEF Accepted, CloseConn, TypeOK
  <2>7. CASE Auth(m.fd, m.packet.account) /\ m.type = "data" /\ m.packet.kind = "login"
    <3>1. m.packet \in Packet
      BY <2>1, <2>7, Messages
    <3>2. m.packet.account \in Account
      BY <2>7, <3>1, BaseAppAssumption
    <3>3. [at |-> "find", fd |-> m.fd, account |-> m.packet.account] \in Login
      BY <2>4, <3>2 DEF Login
    <3> QED
      BY <2>1, <2>3, <2>4, <2>7, <3>3 DEF Auth, TypeOK
  <2>8. CASE UNCHANGED <<cmds, appVars>>
    BY <2>1, <2>3, <2>8 DEF appVars, TypeOK
  <2> QED
    BY <2>2, <2>5, <2>6, <2>7, <2>8
<1>6. ASSUME NEW i \in DOMAIN loading, DbFind(i) PROVE TypeOK'
  <2>1. loading[i] \in Login /\ DOMAIN loading = 1..Len(loading)
    BY DEF TypeOK
  <2>2. PICK w \in {"found", "missing"} : loading' = [loading EXCEPT ![i].at = w]
    BY <1>6 DEF DbFind
  <2>3. [loading[i] EXCEPT !.at = w] \in Login
    BY <2>1 DEF Login
  <2>4. loading' \in Seq(Login)
    BY <2>2, <2>3 DEF TypeOK
  <2> QED
    BY <1>6, <2>4 DEF DbFind, TypeOK, gateVars
<1>7. ASSUME NEW i \in DOMAIN loading, Loaded(i) PROVE TypeOK'
  <2>1. loading[i] \in Login /\ i \in 1..Len(loading)
    BY DEF TypeOK
  <2>2. RemoveAt(loading, i) \in Seq(Login)
    BY <2>1 DEF RemoveAt, TypeOK
  <2>3. loading[i].fd \in Fd /\ loading[i].account \in Account
    BY <2>1 DEF Login
  <2> QED
    BY <1>7, <2>2, <2>3 DEF Loaded, TypeOK, gateVars
<1>8. CASE UNCHANGED vars
  BY <1>8 DEF vars, gateVars, appVars, TypeOK
<1> QED
  BY <1>1, <1>2, <1>3, <1>4, <1>5, <1>6, <1>7, <1>8 DEF Next, Client
-----------------------------------------------------------------------------
\* A message of the gate is put behind the others: it may tell the end of a connection
\* the gate no longer knows.
LEMMA CoverPush == ASSUME NEW S, NEW q \in Seq(S), NEW m \in S, NEW K, NEW L, CoveredIn(q, K),
                          \A fd \in K : fd \in L \/ (m.fd = fd /\ m.type \in {"close", "error"}),
                          m.type \in {"data", "accepted"} => m.fd \in L
                   PROVE  CoveredIn(Append(q, m), L)
<1> DEFINE n == Len(q)
           r == Append(q, m)
<1>1. /\ n \in Nat /\ Len(r) = n + 1
      /\ \A i \in 1..n : r[i] = q[i] /\ i \in 1..(n + 1) /\ n + 1 > i
      /\ r[n + 1] = m /\ n + 1 \in 1..(n + 1)
      /\ \A i \in 1..(n + 1) : i \in 1..n \/ i = n + 1
  OBVIOUS
<1>2. \A i \in 1..n : q[i].type \in {"data", "accepted"} =>
        \/ q[i].fd \in K
        \/ \E j \in 1..n : j > i /\ q[j].fd = q[i].fd /\ q[j].type \in {"close", "error"}
  BY DEF CoveredIn
<1> HIDE DEF n, r
<1> SUFFICES ASSUME NEW i \in 1..(n + 1), r[i].type \in {"data", "accepted"}, r[i].fd \notin L
             PROVE  \E j \in 1..(n + 1) : j > i /\ r[j].fd = r[i].fd /\ r[j].type \in {"close", "error"}
  BY <1>1 DEF CoveredIn, r
<1>3. i \in 1..n /\ r[i] = q[i]
  BY <1>1
<1>4. CASE q[i].fd \in K
  BY <1>1, <1>3, <1>4
<1>5. CASE q[i].fd \notin K
  <2>1. PICK j \in 1..n : j > i /\ q[j].fd = q[i].fd /\ q[j].type \in {"close", "error"}
    BY <1>2, <1>3, <1>5
  <2> QED
    BY <1>1, <1>3, <2>1
<1> QED
  BY <1>4, <1>5

\* The next message of the gate is taken: what it is about is known or its end is to come.
LEMMA CoverPop == ASSUME NEW S, NEW q \in Seq(S), NEW K, CoveredIn(q, K), q # <<>>, Head(q).fd \in Fd
                  PROVE  /\ CoveredIn(Tail(q), K)
                         /\ Head(q).type \in {"data", "accepted"} =>
                               Head(q).fd \in K \cup Fds(Tail(q), {"close", "error"})
<1> DEFINE n == Len(q)
           r == Tail(q)
<1>1. /\ n \in Nat /\ n > 0 /\ Len(r) = n - 1 /\ Head(q) = q[1] /\ 1 \in 1..n
      /\ \A i \in 1..Len(r) : r[i] = q[i + 1] /\ i + 1 \in 1..n
      /\ \A i, j \in 1..n : j > i => j - 1 \in 1..Len(r) /\ r[j - 1] = q[j]
  OBVIOUS
<1>2. \A i \in 1..n : q[i].type \in {"data", "accepted"} =>
        \/ q[i].fd \in K
        \/ \E j \in 1..n : j > i /\ q[j].fd = q[i].fd /\ q[j].type \in {"close", "error"}
  BY DEF CoveredIn
<1> HIDE DEF n, r
<1>3. CoveredIn(r, K)
  <2> SUFFICES ASSUME NEW i \in 1..Len(r), r[i].type \in {"data", "accepted"}, r[i].fd \notin K
               PROVE  \E j \in 1..Len(r) : j > i /\ r[j].fd = r[i].fd /\ r[j].type \in {"close", "error"}
    BY DEF CoveredIn
  <2>1. PICK j \in 1..n : j > i + 1 /\ q[j].fd = q[i + 1].fd /\ q[j].type \in {"close", "error"}
    BY <1>1, <1>2
  <2>2. j - 1 \in 1..Len(r) /\ r[j - 1] = q[j] /\ j - 1 > i
    BY <1>1, <2>1
  <2> QED
    BY <1>1, <2>1, <2>2
<1>4. ASSUME q[1].type \in {"data", "accepted"}, q[1].fd \notin K
      PROVE  q[1].fd \in Fds(r, {"close", "error"})
  <2>1. PICK j \in 1..n : j > 1 /\ q[j].fd = q[1].fd /\ q[j].type \in {"close", "error"}
    BY <1>1, <1>2, <1>4
  <2>2. j - 1 \in 1..Len(r) /\ r[j - 1] = q[j]
    BY <1>1, <2>1
  <2> QED
    BY <1>1, <2>1, <2>2 DEF Fds
<1> QED
  BY <1>1, <1>3, <1>4 DEF r

\* A count stays below the size of a set that gets larger, that gains the client which is
\* counted, or that loses one which is discounted.
LEMMA Counting == ASSUME NEW n \in Nat, NEW D, NEW E, IsFiniteSet(D), IsFiniteSet(E),
                         n <= Cardinality(D)
                  PROVE  /\ D \subseteq E => n <= Cardinality(E)
                         /\ \A fd : fd \in E /\ fd \notin D /\ D \subseteq E => n + 1 <= Cardinality(E)
                         /\ \A fd : D \subseteq E \cup {fd} /\ n > 0 => n - 1 <= Cardinality(E)
<1>1. Cardinality(D) \in Nat /\ Cardinality(E) \in Nat
  BY FS_CardinalityType
<1>2. ASSUME D \subseteq E PROVE n <= Cardinality(E)
  BY <1>1, <1>2, FS_Subset
<1>3. ASSUME NEW fd, fd \in E, fd \notin D, D \subseteq E PROVE n + 1 <= Cardinality(E)
  <2>1. IsFiniteSet(D \cup {fd}) /\ Cardinality(D \cup {fd}) = Cardinality(D) + 1
    BY <1>3, FS_AddElement
  <2>2. Cardinality(D \cup {fd}) <= Cardinality(E)
    BY <1>3, FS_Subset
  <2> QED
    BY <1>1, <2>1, <2>2
<1>4. ASSUME NEW fd, D \subseteq E \cup {fd}, n > 0 PROVE n - 1 <= Cardinality(E)
  <2>1. /\ IsFiniteSet(E \cup {fd}) /\ Cardinality(E \cup {fd}) \in Nat
        /\ Cardinality(E \cup {fd}) = Cardinality(E) \/ Cardinality(E \cup {fd}) = Cardinality(E) + 1
    BY <1>1, FS_AddElement, FS_CardinalityType
  <2>2. Cardinality(D) <= Cardinality(E \cup {fd})
    BY <1>4, <2>1, FS_Subset
  <2> QED
    BY <1>1, <2>1, <2>2
<1> QED
  BY <1>2, <1>3, <1>4
-----------------------------------------------------------------------------
OtherTypes == {"data", "warning", "close", "error"}

\* A new socket is offered to the gate.
LEMMA AcceptInv == ASSUME Inv, TypeOK', NEW fd \in Fd, SocketAccept(fd), UNCHANGED appVars
                   PROVE  Inv'
<1>0. toGate \in Seq(SocketMsg)
  BY DEF Inv, TypeOK
<1>1. PICK m \in SocketMsg : m = Msg("open", fd) /\ m.fd = fd /\ m.type = "open"
  <2>1. Msg("open", fd) \in SocketMsg
    BY Messages
  <2> QED
    BY <2>1 DEF Msg
<1>2. /\ toGate' = Append(toGate, m) /\ sock[fd] = "none"
      /\ \A f \in Fd : sock'[f] = "none" => sock[f] = "none" /\ f # fd
      /\ UNCHANGED <<cmds, connection, client_number, toApp>>
  BY <1>1 DEF SocketAccept, Inv, TypeOK
<1>3. /\ Known' = Known /\ Offered' = Offered /\ Accepting' = Accepting /\ Ended' = Ended
      /\ Unique(toApp', {"open", "accepted"}) = Unique(toApp, {"open", "accepted"})
      /\ Unique(cmds', {"accept"}) = Unique(cmds, {"accept"})
  BY <1>2 DEF Known, Offered, Accepting, Ended
<1>4. /\ fd \notin Known \cup Ended \cup Pending
      /\ fd \notin Fds(toGate, OtherTypes)
  BY <1>2 DEF Inv, Fresh, OtherTypes
<1>5. /\ Opening' = Opening \cup {fd}
      /\ Fds(toGate', OtherTypes) = Fds(toGate, OtherTypes)
      /\ Unique(toGate', {"open"})
  <2>1. /\ Fds(toGate', {"open"}) = Fds(toGate, {"open"}) \cup {fd}
        /\ Unique(toGate, {"open"}) /\ fd \notin Fds(toGate, {"open"}) => Unique(toGate', {"open"})
    BY <1>0, <1>1, <1>2, PushIn
  <2>2. Fds(toGate', OtherTypes) = Fds(toGate, OtherTypes)
    BY <1>0, <1>1, <1>2, PushOut DEF OtherTypes
  <2> QED
    BY <1>4, <2>1, <2>2 DEF Opening, Pending, Inv, AcceptedOnce
<1>6. AcceptedOnce'
  BY <1>3, <1>4, <1>5 DEF Inv, AcceptedOnce, Pending
<1>7. Fresh'
  BY <1>2, <1>3, <1>4, <1>5 DEF Inv, Fresh, Pending, OtherTypes
<1>8. (IsFiniteSet(Known) /\ GateCount)'
  BY <1>2, <1>3 DEF Inv, GateCount
<1>9. Covered' /\ Authed'
  BY <1>2, <1>3 DEF Inv, Covered, Authed, appVars
<1>10. CountedClients'
  <2>1. (Known' \cup Ended') \ Pending' = (Known \cup Ended) \ Pending
    BY <1>3, <1>4, <1>5 DEF Pending
  <2> QED
    BY <1>3, <2>1 DEF Inv, CountedClients, appVars
<1> QED
  BY <1>6, <1>7, <1>8, <1>9, <1>10 DEF Inv

\* The socket thread reports anything else about a socket, or nothing.
LEMMA ReportInv == ASSUME Inv, TypeOK', UNCHANGED <<cmds, connection, client_number, toApp>>,
                          UNCHANGED appVars,
                          \A f \in Fd : sock'[f] = "none" => sock[f] = "none",
                          \/ toGate' = toGate
                          \/ \E m \in SocketMsg : /\ toGate' = Append(toGate, m)
                                                  /\ m.type # "open" /\ sock'[m.fd] # "none"
                   PROVE  Inv'
<1>1. toGate \in Seq(SocketMsg)
  BY DEF Inv, TypeOK
<1>2. /\ Known' = Known /\ Offered' = Offered /\ Accepting' = Accepting /\ Ended' = Ended
      /\ Unique(toApp', {"open", "accepted"}) = Unique(toApp, {"open", "accepted"})
      /\ Unique(cmds', {"accept"}) = Unique(cmds, {"accept"})
  BY DEF Known, Offered, Accepting, Ended
<1>3. /\ Opening' = Opening
      /\ \A f \in Fd : sock'[f] = "none" /\ f \notin Fds(toGate, OtherTypes)
                          => f \notin Fds(toGate', OtherTypes)
      /\ Unique(toGate', {"open"})
  <2>1. CASE toGate' = toGate
    BY <2>1 DEF Opening, Inv, AcceptedOnce
  <2>2. ASSUME NEW m \in SocketMsg, toGate' = Append(toGate, m), m.type # "open",
               sock'[m.fd] # "none"
        PROVE  /\ Opening' = Opening
               /\ \A f \in Fd : sock'[f] = "none" /\ f \notin Fds(toGate, OtherTypes)
                                   => f \notin Fds(toGate', OtherTypes)
               /\ Unique(toGate', {"open"})
    <3>1. m.fd \in Fd
      BY Messages
    <3>2. /\ Fds(toGate', {"open"}) = Fds(toGate, {"open"})
          /\ Unique(toGate, {"open"}) => Unique(toGate', {"open"})
      BY <1>1, <2>2, <3>1, PushOut
    <3>3. Fds(toGate', OtherTypes) \subseteq Fds(toGate, OtherTypes) \cup {m.fd}
      BY <1>1, <2>2, <3>1, Push
    <3> QED
      BY <2>2, <3>2, <3>3 DEF Opening, Inv, AcceptedOnce
  <2> QED
    BY <2>1, <2>2
<1>4. AcceptedOnce'
  BY <1>2, <1>3 DEF Inv, AcceptedOnce
<1>5. Fresh'
  BY <1>2, <1>3 DEF Inv, Fresh, Pending, OtherTypes
<1>6. (IsFiniteSet(Known) /\ GateCount)'
  BY <1>2 DEF Inv, GateCount
<1>7. Covered' /\ Authed' /\ CountedClients'
  BY <1>2, <1>3 DEF Inv, Covered, Authed, CountedClients, Pending, appVars
<1> QED
  BY <1>4, <1>5, <1>6, <1>7 DEF Inv

\* What a client does, and what its socket asks for, keeps the invariant.
LEMMA SocketInv == ASSUME Inv, TypeOK', UNCHANGED appVars,
                          Client \/ SocketRequest
                   PROVE  Inv'
<1>0. TypeOK
  BY DEF Inv
<1>1. ASSUME NEW fd \in Fd, SocketAccept(fd) PROVE Inv'
  BY <1>1, AcceptInv
<1>2. ASSUME NEW fd \in Fd, NEW t \in {"warning", "close", "error"},
             toGate' = Append(toGate, Msg(t, fd)), sock'[fd] # "none",
             \A f \in Fd : sock'[f] = "none" => sock[f] = "none",
             UNCHANGED <<cmds, connection, client_number, toApp>>
      PROVE  Inv'
  <2>1. /\ Msg(t, fd) \in SocketMsg /\ Msg(t, fd).type # "open" /\ Msg(t, fd).fd = fd
    BY DEF Msg, SocketMsg
  <2> QED
    BY <1>2, <2>1, ReportInv
<1>3. ASSUME NEW fd \in Fd, SocketWarning(fd) PROVE Inv'
  BY <1>0, <1>2, <1>3 DEF SocketWarning
<1>4. ASSUME NEW fd \in Fd, NEW t \in {"close", "error"}, SocketEnd(fd, t) PROVE Inv'
  BY <1>0, <1>2, <1>4 DEF SocketEnd, TypeOK
<1>5. ASSUME NEW fd \in Fd, NEW p \in Packet, SocketData(fd, p) PROVE Inv'
  <2>1. /\ Data(fd, p) \in SocketMsg /\ Data(fd, p).type = "data" /\ Data(fd, p).fd = fd
        /\ Data(fd, p).packet = p
    BY Messages
  <2>2. /\ toGate' = Append(toGate, Data(fd, p)) /\ sock[fd] = "connected" /\ sock' = sock
        /\ UNCHANGED <<cmds, connection, client_number, toApp>>
    BY <1>5 DEF SocketData
  <2> QED
    BY <2>1, <2>2, ReportInv
<1>6. CASE SocketRequest
  <2>1. PICK fd \in Fd : StartSocket(fd) \/ CloseSocket(fd)
    <3>1. Head(ctl) \in CtlMsg
      BY <1>0, <1>6 DEF SocketRequest, TypeOK
    <3> QED
      BY <1>6, <3>1, Messages DEF SocketRequest
  <2>2. UNCHANGED <<cmds, connection, client_number, toApp>>
    BY <1>6 DEF SocketRequest
  <2>3. /\ \A f \in Fd : sock'[f] = "none" => sock[f] = "none"
        /\ \/ toGate' = toGate
           \/ /\ \E t \in {"close", "error"} : toGate' = Append(toGate, Msg(t, fd))
              /\ sock'[fd] # "none"
    BY <1>0, <2>1 DEF StartSocket, CloseSocket, TypeOK
  <2>4. CASE toGate' = toGate
    BY <2>2, <2>3, <2>4, ReportInv
  <2>5. CASE /\ \E t \in {"close", "error"} : toGate' = Append(toGate, Msg(t, fd))
             /\ sock'[fd] # "none"
    BY <1>2, <2>2, <2>3, <2>5
  <2> QED
    BY <2>3, <2>4, <2>5
<1> QED
  BY <1>1, <1>3, <1>4, <1>5, <1>6 DEF Client
-----------------------------------------------------------------------------
\* The gate handles a message of the socket thread.
LEMMA GateSocketInv == ASSUME Inv, TypeOK', GateSocket, UNCHANGED appVars PROVE Inv'
<1>0. TypeOK /\ toGate \in Seq(SocketMsg) /\ toApp \in Seq(AppMsg)
  BY DEF Inv, TypeOK
<1>1. toGate # <<>> /\ toGate' = Tail(toGate) /\ UNCHANGED <<sock, cmds, events>>
  BY DEF GateSocket
<1>2. PICK m \in SocketMsg : m = Head(toGate)
  BY <1>0, <1>1
<1>3. PICK fd \in Fd : fd = m.fd
  BY Messages
<1>4. m \in AppMsg /\ m.type \in {"open", "data", "warning", "close", "error"}
  BY Messages
<1>5. /\ m.type = "open" => MsgOpen(fd)
      /\ m.type = "data" => MsgData(m)
      /\ m.type = "warning" => MsgWarning(m)
      /\ m.type \in {"close", "error"} => MsgEnd(m)
  BY <1>2, <1>3 DEF GateSocket
<1>6. /\ Accepting' = Accepting
      /\ Unique(cmds', {"accept"}) = Unique(cmds, {"accept"})
  BY <1>1 DEF Accepting
<1>7. /\ Fds(toGate', OtherTypes) \subseteq Fds(toGate, OtherTypes)
      /\ Unique(toGate', {"open"})
  BY <1>0, <1>1, <1>2, <1>3, Pop DEF Inv, AcceptedOnce
<1>8. ASSUME m.type = "open" PROVE Opening = Opening' \cup {fd} /\ fd \notin Opening'
  BY <1>0, <1>1, <1>2, <1>3, <1>8, PopIn DEF Opening, Inv, AcceptedOnce
<1>9. ASSUME m.type # "open" PROVE Opening' = Opening /\ fd \in Fds(toGate, OtherTypes)
  <2>1. Opening' = Opening
    BY <1>0, <1>1, <1>2, <1>3, <1>9, PopOut DEF Opening
  <2>2. m.type \in OtherTypes
    BY <1>4, <1>9 DEF OtherTypes
  <2>3. fd \in Fds(toGate, OtherTypes)
    BY <1>0, <1>1, <1>2, <1>3, <2>2, PopIn
  <2> QED
    BY <2>1, <2>3
<1>12. CASE m.type = "open" /\ client_number >= maxclient
  <2>1. UNCHANGED <<connection, client_number, toApp>>
    BY <1>5, <1>12 DEF MsgOpen
  <2>2. Known' = Known /\ Offered' = Offered /\ Ended' = Ended
    BY <2>1 DEF Known, Offered, Ended
  <2>3. AcceptedOnce'
    BY <1>6, <1>7, <1>8, <1>12, <2>1, <2>2 DEF Inv, AcceptedOnce
  <2>4. Fresh'
    BY <1>1, <1>6, <1>7, <1>8, <1>12, <2>2 DEF Inv, Fresh, Pending, OtherTypes
  <2>5. (IsFiniteSet(Known) /\ GateCount)' /\ Covered' /\ Authed'
    BY <2>1, <2>2 DEF Inv, GateCount, Covered, Authed, appVars
  <2>6. CountedClients'
    <3>1. (Known \cup Ended) \ Pending \subseteq (Known' \cup Ended') \ Pending'
      BY <1>6, <1>8, <1>12, <2>2 DEF Pending
    <3>2. IsFiniteSet(Known \cup Ended) /\ clients \in Nat
      BY <1>0 DEF Inv, CountedClients, TypeOK
    <3>3. IsFiniteSet((Known \cup Ended) \ Pending) /\ IsFiniteSet((Known' \cup Ended') \ Pending')
      BY <2>2, <3>2, FS_Difference
    <3>4. clients <= Cardinality((Known \cup Ended) \ Pending)
      BY DEF Inv, CountedClients
    <3>5. clients <= Cardinality((Known' \cup Ended') \ Pending')
      BY <3>1, <3>2, <3>3, <3>4, Counting
    <3> QED
      BY <2>2, <3>2, <3>5 DEF CountedClients, appVars
  <2> QED
    BY <2>3, <2>4, <2>5, <2>6 DEF Inv
<1>13. CASE m.type = "open" /\ ~(client_number >= maxclient)
  <2>1. PICK o \in AppMsg : o = Msg("open", fd) /\ o.fd = fd /\ o.type = "open"
    <3>1. Msg("open", fd) \in AppMsg
      BY Messages
    <3> QED
      BY <3>1 DEF Msg
  <2>2. /\ connection' = [connection EXCEPT ![fd] = "true"]
        /\ client_number' = client_number + 1
        /\ toApp' = Append(toApp, o)
    BY <1>5, <1>13, <2>1 DEF MsgOpen
  <2>3. fd \in Opening /\ fd \notin Known /\ sock[fd] # "none"
    BY <1>8, <1>13 DEF Inv, Fresh, Pending
  <2>4. Known' = Known \cup {fd}
    BY <1>0, <2>2 DEF Known, TypeOK
  <2>5. fd \notin Offered /\ fd \notin Accepting
    BY <2>3 DEF Inv, AcceptedOnce
  <2>6. Offered' = Offered \cup {fd} /\ Unique(toApp', {"open", "accepted"})
    <3>1. /\ Fds(toApp', {"open", "accepted"}) = Fds(toApp, {"open", "accepted"}) \cup {fd}
          /\ Unique(toApp, {"open", "accepted"}) /\ fd \notin Fds(toApp, {"open", "accepted"})
                => Unique(toApp', {"open", "accepted"})
      BY <1>0, <2>1, <2>2, PushIn
    <3> QED
      BY <2>5, <3>1 DEF Offered, Inv, AcceptedOnce
  <2>7. Ended' = Ended
    BY <1>0, <2>1, <2>2, PushOut DEF Ended
  <2>8. AcceptedOnce'
    BY <1>6, <1>7, <1>8, <1>13, <2>5, <2>6 DEF Inv, AcceptedOnce
  <2>9. Fresh'
    BY <1>1, <1>6, <1>7, <1>8, <1>13, <2>3, <2>4, <2>6, <2>7 DEF Inv, Fresh, Pending, OtherTypes
  <2>10. (IsFiniteSet(Known) /\ GateCount)'
    <3>1. IsFiniteSet(Known) /\ client_number = Cardinality(Known) /\ client_number <= maxclient
      BY DEF Inv, GateCount
    <3>2. IsFiniteSet(Known \cup {fd}) /\ Cardinality(Known \cup {fd}) = Cardinality(Known) + 1
      BY <2>3, <3>1, FS_AddElement
    <3>3. Cardinality(Known) \in Nat
      BY <3>1, FS_CardinalityType
    <3>4. client_number' <= maxclient
      BY <1>13, <2>2, <3>1, <3>3, GateAssumption
    <3> QED
      BY <2>2, <2>4, <3>1, <3>2, <3>4 DEF GateCount
  <2>11. Covered'
    BY <1>0, <2>1, <2>2, <2>4, CoverPush DEF Inv, Covered
  <2>12. Authed'
    BY <2>4, <2>7 DEF Inv, Authed, appVars
  <2>13. CountedClients'
    <3>1. (Known' \cup Ended') \ Pending' = (Known \cup Ended) \ Pending
      BY <1>6, <1>8, <1>13, <2>4, <2>6, <2>7 DEF Pending
    <3>2. Known' \cup Ended' = (Known \cup Ended) \cup {fd}
      BY <2>4, <2>7
    <3>3. IsFiniteSet(Known' \cup Ended')
      BY <3>2, FS_AddElement DEF Inv, CountedClients
    <3> QED
      BY <3>1, <3>3 DEF Inv, CountedClients, appVars
  <2> QED
    BY <2>8, <2>9, <2>10, <2>11, <2>12, <2>13 DEF Inv
<1>14. CASE m.type \in {"data", "warning"}
  <2>1. /\ UNCHANGED <<connection, client_number>>
        /\ \/ toApp' = toApp
           \/ toApp' = Append(toApp, m) /\ (m.type = "data" => connection[fd] = "true")
    BY <1>3, <1>5, <1>14 DEF MsgData, MsgWarning
  <2>2. Known' = Known /\ (connection[fd] = "true" => fd \in Known)
    BY <2>1 DEF Known
  <2>3. /\ Offered' = Offered /\ Ended' = Ended
        /\ Unique(toApp', {"open", "accepted"})
    <3>1. CASE toApp' = toApp
      BY <3>1 DEF Offered, Ended, Inv, AcceptedOnce
    <3>2. CASE toApp' = Append(toApp, m)
      <4>1. m.type \notin {"open", "accepted"} /\ m.type \notin {"close", "error"}
        BY <1>14
      <4>2. Fds(toApp', {"close", "error"}) = Fds(toApp, {"close", "error"})
        BY <1>0, <1>3, <1>4, <3>2, <4>1, PushOut
      <4>3. /\ Fds(toApp', {"open", "accepted"}) = Fds(toApp, {"open", "accepted"})
            /\ Unique(toApp, {"open", "accepted"}) => Unique(toApp', {"open", "accepted"})
        BY <1>0, <1>3, <1>4, <3>2, <4>1, PushOut
      <4> QED
        BY <4>2, <4>3 DEF Offered, Ended, Inv, AcceptedOnce
    <3> QED
      BY <2>1, <3>1, <3>2
  <2>4. Opening' = Opening
    BY <1>9, <1>14
  <2>5. AcceptedOnce'
    BY <1>6, <1>7, <2>3, <2>4 DEF Inv, AcceptedOnce
  <2>6. Fresh'
    BY <1>1, <1>6, <1>7, <2>2, <2>3, <2>4 DEF Inv, Fresh, Pending, OtherTypes
  <2>7. (IsFiniteSet(Known) /\ GateCount)' /\ Authed' /\ CountedClients'
    BY <1>6, <2>1, <2>2, <2>3, <2>4 DEF Inv, GateCount, Authed, CountedClients, Pending, appVars
  <2>8. Covered'
    <3>1. CASE toApp' = toApp
      BY <2>2, <3>1 DEF Inv, Covered
    <3>2. CASE toApp' = Append(toApp, m) /\ (m.type = "data" => connection[fd] = "true")
      <4>1. m.type \in {"data", "accepted"} => m.fd \in Known
        BY <1>3, <1>14, <2>2, <3>2
      <4>2. CoveredIn(Append(toApp, m), Known)
        BY <1>0, <1>4, <4>1, CoverPush DEF Inv, Covered
      <4> QED
        BY <2>2, <3>2, <4>2 DEF Covered
    <3> QED
      BY <2>1, <3>1, <3>2
  <2> QED
    BY <2>5, <2>6, <2>7, <2>8 DEF Inv
<1>15. CASE m.type \in {"close", "error"}
  <2>1. /\ toApp' = Append(toApp, m)
        /\ connection' = [connection EXCEPT ![fd] = "nil"]
        /\ client_number' = IF connection[fd] # "nil" THEN client_number - 1 ELSE client_number
    BY <1>3, <1>5, <1>15 DEF MsgEnd
  <2>2. Known' = Known \ {fd} /\ (fd \in Known <=> connection[fd] # "nil")
    BY <1>0, <2>1 DEF Known, TypeOK
  <2>3. Ended' = Ended \cup {fd}
    BY <1>0, <1>3, <1>4, <1>15, <2>1, PushIn DEF Ended
  <2>4. Offered' = Offered /\ Unique(toApp', {"open", "accepted"})
    <3>1. m.type \notin {"open", "accepted"}
      BY <1>15
    <3>2. /\ Fds(toApp', {"open", "accepted"}) = Fds(toApp, {"open", "accepted"})
          /\ Unique(toApp, {"open", "accepted"}) => Unique(toApp', {"open", "accepted"})
      BY <1>0, <1>3, <1>4, <2>1, <3>1, PushOut
    <3> QED
      BY <3>2 DEF Offered, Inv, AcceptedOnce
  <2>5. Opening' = Opening /\ fd \in Fds(toGate, OtherTypes)
    BY <1>9, <1>15
  <2>6. AcceptedOnce'
    BY <1>6, <1>7, <2>4, <2>5 DEF Inv, AcceptedOnce
  <2>7. Fresh'
    BY <1>1, <1>6, <1>7, <2>2, <2>3, <2>4, <2>5 DEF Inv, Fresh, Pending, OtherTypes
  <2>8. (IsFiniteSet(Known) /\ GateCount)'
    <3>1. /\ IsFiniteSet(Known) /\ client_number = Cardinality(Known) /\ client_number <= maxclient
          /\ Cardinality(Known) \in Nat
      BY FS_CardinalityType DEF Inv, GateCount
    <3>2. CASE fd \in Known
      <4>1. IsFiniteSet(Known \ {fd}) /\ Cardinality(Known \ {fd}) = Cardinality(Known) - 1
        BY <3>1, <3>2, FS_RemoveElement
      <4> QED
        BY <2>1, <2>2, <3>1, <3>2, <4>1, GateAssumption DEF GateCount
    <3>3. CASE fd \notin Known
      <4>1. Known' = Known
        BY <2>2, <3>3
      <4> QED
        BY <2>1, <2>2, <3>1, <3>3, <4>1 DEF GateCount
    <3> QED
      BY <3>2, <3>3
  <2>9. Covered'
    <3>1. CoveredIn(Append(toApp, m), Known \ {fd})
      BY <1>0, <1>3, <1>4, <1>15, CoverPush DEF Inv, Covered
    <3> QED
      BY <2>1, <2>2, <3>1 DEF Covered
  <2>10. Authed'
    BY <2>2, <2>3 DEF Inv, Authed, appVars
  <2>11. CountedClients'
    <3>1. (Known \cup Ended) \ Pending \subseteq (Known' \cup Ended') \ Pending'
      BY <1>6, <2>2, <2>3, <2>4, <2>5 DEF Pending
    <3>2. /\ IsFiniteSet(Known \cup Ended) /\ clients \in Nat
          /\ clients <= Cardinality((Known \cup Ended) \ Pending)
      BY <1>0 DEF Inv, CountedClients, TypeOK
    <3>3. Known' \cup Ended' = (Known \cup Ended) \cup {fd}
      BY <2>2, <2>3
    <3>4. IsFiniteSet(Known' \cup Ended')
      BY <3>2, <3>3, FS_AddElement
    <3>5. IsFiniteSet((Known \cup Ended) \ Pending) /\ IsFiniteSet((Known' \cup Ended') \ Pending')
      BY <3>2, <3>4, FS_Difference
    <3>6. clients <= Cardinality((Known' \cup Ended') \ Pending')
      BY <3>1, <3>2, <3>5, Counting
    <3> QED
      BY <3>4, <3>6 DEF CountedClients, appVars
  <2> QED
    BY <2>6, <2>7, <2>8, <2>9, <2>10, <2>11 DEF Inv
<1> QED
  BY <1>4, <1>12, <1>13, <1>14, <1>15
-----------------------------------------------------------------------------
\* A step that may only take connections out of Pending keeps what base_app counts.
LEMMA CountKept == ASSUME Inv, (Known \cup Ended)' = Known \cup Ended,
                          Pending' \subseteq Pending, UNCHANGED clients
                   PROVE  CountedClients'
<1>1. /\ IsFiniteSet(Known \cup Ended) /\ clients \in Nat
      /\ clients <= Cardinality((Known \cup Ended) \ Pending)
  BY DEF Inv, CountedClients, TypeOK
<1>2. (Known \cup Ended) \ Pending \subseteq (Known \cup Ended) \ Pending'
  OBVIOUS
<1>3. IsFiniteSet((Known \cup Ended) \ Pending) /\ IsFiniteSet((Known \cup Ended) \ Pending')
  BY <1>1, FS_Difference
<1>4. clients <= Cardinality((Known \cup Ended) \ Pending')
  BY <1>1, <1>2, <1>3, Counting
<1> QED
  BY <1>1, <1>4 DEF CountedClients

\* The gate handles a command.
LEMMA GateCommandInv == ASSUME Inv, TypeOK', GateCommand, UNCHANGED appVars PROVE Inv'
<1>0. TypeOK /\ cmds \in Seq(CmdMsg) /\ toApp \in Seq(AppMsg)
  BY DEF Inv, TypeOK
<1>1. cmds # <<>> /\ cmds' = Tail(cmds) /\ UNCHANGED <<sock, toGate, events>>
  BY DEF GateCommand
<1>2. PICK c \in CmdMsg : c = Head(cmds)
  BY <1>0, <1>1
<1>3. PICK fd \in Fd : fd = c.fd
  BY Messages
<1>4. /\ c.type = "accept" => CmdAccept(fd)
      /\ c.type # "accept" => CmdKick(fd)
  BY <1>2, <1>3 DEF GateCommand
<1>5. Opening' = Opening /\ Unique(cmds', {"accept"}) /\ Unique(toGate', {"open"})
  BY <1>0, <1>1, <1>2, <1>3, Pop DEF Opening, Inv, AcceptedOnce
<1>6. ASSUME c.type = "accept" PROVE Accepting = Accepting' \cup {fd} /\ fd \notin Accepting'
  BY <1>0, <1>1, <1>2, <1>3, <1>6, PopIn DEF Accepting, Inv, AcceptedOnce
<1>7. CASE c.type = "accept" /\ connection[fd] = "nil"
  <2>1. PICK o \in AppMsg : o = Msg("refused", fd) /\ o.fd = fd /\ o.type = "refused"
    <3>1. Msg("refused", fd) \in AppMsg
      BY Messages
    <3> QED
      BY <3>1 DEF Msg
  <2>2. toApp' = Append(toApp, o) /\ UNCHANGED <<connection, client_number>>
    BY <1>4, <1>7, <2>1 DEF CmdAccept
  <2>3. Known' = Known
    BY <2>2 DEF Known
  <2>4. Ended' = Ended
    BY <1>0, <2>1, <2>2, PushOut DEF Ended
  <2>5. Offered' = Offered /\ Unique(toApp', {"open", "accepted"})
    <3>1. /\ Fds(toApp', {"open", "accepted"}) = Fds(toApp, {"open", "accepted"})
          /\ Unique(toApp, {"open", "accepted"}) => Unique(toApp', {"open", "accepted"})
      BY <1>0, <2>1, <2>2, PushOut
    <3> QED
      BY <3>1 DEF Offered, Inv, AcceptedOnce
  <2>6. AcceptedOnce'
    BY <1>5, <1>6, <1>7, <2>5 DEF Inv, AcceptedOnce
  <2>7. Fresh'
    BY <1>1, <1>5, <1>6, <1>7, <2>3, <2>4, <2>5 DEF Inv, Fresh, Pending
  <2>8. (IsFiniteSet(Known) /\ GateCount)' /\ Authed'
    BY <2>2, <2>3, <2>4 DEF Inv, GateCount, Authed, appVars
  <2>9. Covered'
    BY <1>0, <2>1, <2>2, <2>3, CoverPush DEF Inv, Covered
  <2>10. CountedClients'
    BY <1>5, <1>6, <1>7, <2>3, <2>4, <2>5, CountKept DEF Pending, appVars
  <2> QED
    BY <2>6, <2>7, <2>8, <2>9, <2>10 DEF Inv
<1>8. CASE c.type = "accept" /\ connection[fd] # "nil"
  <2>1. PICK o \in AppMsg : o = Msg("accepted", fd) /\ o.fd = fd /\ o.type = "accepted"
    <3>1. Msg("accepted", fd) \in AppMsg
      BY Messages
    <3> QED
      BY <3>1 DEF Msg
  <2>2. toApp' = Append(toApp, o) /\ UNCHANGED <<connection, client_number>>
    BY <1>4, <1>8, <2>1 DEF CmdAccept
  <2>3. Known' = Known /\ fd \in Known
    BY <1>8, <2>2 DEF Known
  <2>4. Ended' = Ended
    BY <1>0, <2>1, <2>2, PushOut DEF Ended
  <2>5. fd \in Accepting /\ fd \notin Offered /\ fd \notin Opening
    BY <1>6, <1>8 DEF Inv, AcceptedOnce
  <2>6. Offered' = Offered \cup {fd} /\ Unique(toApp', {"open", "accepted"})
    <3>1. /\ Fds(toApp', {"open", "accepted"}) = Fds(toApp, {"open", "accepted"}) \cup {fd}
          /\ Unique(toApp, {"open", "accepted"}) /\ fd \notin Fds(toApp, {"open", "accepted"})
                => Unique(toApp', {"open", "accepted"})
      BY <1>0, <2>1, <2>2, PushIn
    <3> QED
      BY <2>5, <3>1 DEF Offered, Inv, AcceptedOnce
  <2>7. AcceptedOnce'
    BY <1>5, <1>6, <1>8, <2>5, <2>6 DEF Inv, AcceptedOnce
  <2>8. Pending' = Pending
    BY <1>5, <1>6, <1>8, <2>6 DEF Pending
  <2>9. Fresh'
    BY <1>1, <1>5, <2>3, <2>4, <2>8 DEF Inv, Fresh
  <2>10. (IsFiniteSet(Known) /\ GateCount)' /\ Authed'
    BY <2>2, <2>3, <2>4 DEF Inv, GateCount, Authed, appVars
  <2>11. Covered'
    BY <1>0, <2>1, <2>2, <2>3, CoverPush DEF Inv, Covered
  <2>12. CountedClients'
    BY <2>3, <2>4, <2>8, CountKept DEF appVars
  <2> QED
    BY <2>7, <2>9, <2>10, <2>11, <2>12 DEF Inv
<1>9. CASE c.type # "accept"
  <2>1. Accepting' = Accepting
    BY <1>0, <1>1, <1>2, <1>3, <1>9, PopOut DEF Accepting
  <2>2. /\ UNCHANGED <<client_number, toApp>>
        /\ UNCHANGED connection \/ (connection[fd] = "true" /\ connection' = [connection EXCEPT ![fd] = "false"])
    BY <1>4, <1>9 DEF CmdKick
  <2>3. Known' = Known
    BY <1>0, <2>2 DEF Known, TypeOK
  <2>4. Offered' = Offered /\ Ended' = Ended /\ Unique(toApp', {"open", "accepted"})
    BY <2>2 DEF Offered, Ended, Inv, AcceptedOnce
  <2>5. AcceptedOnce'
    BY <1>5, <2>1, <2>4 DEF Inv, AcceptedOnce
  <2>6. Fresh'
    BY <1>1, <1>5, <2>1, <2>3, <2>4 DEF Inv, Fresh, Pending
  <2>7. (IsFiniteSet(Known) /\ GateCount)' /\ Authed' /\ Covered'
    BY <2>2, <2>3, <2>4 DEF Inv, GateCount, Authed, Covered, appVars
  <2>8. CountedClients'
    BY <1>5, <2>1, <2>3, <2>4, CountKept DEF Pending, appVars
  <2> QED
    BY <2>5, <2>6, <2>7, <2>8 DEF Inv
<1> QED
  BY <1>7, <1>8, <1>9
-----------------------------------------------------------------------------
\* base_app handles a message of the gate.
LEMMA AppMessageInv == ASSUME Inv, TypeOK', AppMessage PROVE Inv'
<1>0. TypeOK /\ cmds \in Seq(CmdMsg) /\ toApp \in Seq(AppMsg)
  BY DEF Inv, TypeOK
<1>1. /\ toApp # <<>> /\ toApp' = Tail(toApp)
      /\ UNCHANGED <<sock, ctl, toGate, connection, client_number, events>>
  BY DEF AppMessage
<1>2. PICK m \in AppMsg : m = Head(toApp)
  BY <1>0, <1>1
<1>3. PICK fd \in Fd : fd = m.fd
  BY Messages
<1>4. m.type \in {"open", "data", "warning", "close", "error", "accepted", "refused"}
  BY Messages
<1>5. /\ m.type = "open" => Open(fd)
      /\ m.type = "accepted" => Accepted
      /\ m.type \in {"close", "error", "warning"} => CloseConn(fd)
      /\ m.type = "refused" => UNCHANGED <<cmds, appVars>>
      /\ m.type = "data" => \/ Auth(fd, m.packet.account) \/ OtherPacket(fd)
                            \/ UNCHANGED <<cmds, appVars>>
  BY <1>2, <1>3 DEF AppMessage
<1>6. /\ Known' = Known /\ Opening' = Opening /\ Unique(toGate', {"open"})
      /\ Fds(toGate', OtherTypes) = Fds(toGate, OtherTypes)
      /\ Unique(toApp', {"open", "accepted"})
  BY <1>0, <1>1, <1>2, <1>3, Pop DEF Known, Opening, Inv, AcceptedOnce
<1>7. /\ m.type \in {"close", "error"} => Ended = Ended' \cup {fd}
      /\ m.type \notin {"close", "error"} => Ended = Ended'
  BY <1>0, <1>1, <1>2, <1>3, PopIn, PopOut DEF Ended
<1>8. /\ m.type \in {"open", "accepted"} => Offered = Offered' \cup {fd} /\ fd \notin Offered'
      /\ m.type \notin {"open", "accepted"} => Offered = Offered'
  BY <1>0, <1>1, <1>2, <1>3, PopIn, PopOut DEF Offered, Inv, AcceptedOnce
<1>9. Covered' /\ (m.type \in {"data", "accepted"} => fd \in Known \cup Ended')
  BY <1>0, <1>1, <1>2, <1>3, <1>6, CoverPop DEF Inv, Covered, Ended
<1>10. (IsFiniteSet(Known) /\ GateCount)'
  BY <1>1, <1>6 DEF Inv, GateCount
<1>12. ASSUME Accepting' = Accepting, Unique(cmds', {"accept"})
       PROVE  AcceptedOnce' /\ Fresh'
  BY <1>1, <1>4, <1>6, <1>7, <1>8, <1>12 DEF Inv, AcceptedOnce, Fresh, Pending, OtherTypes
<1>13. ASSUME cmds' = cmds \/ cmds' = Append(cmds, Msg("kick", fd))
       PROVE  Accepting' = Accepting /\ Unique(cmds', {"accept"})
  <2>1. PICK k \in CmdMsg : k = Msg("kick", fd) /\ k.fd = fd /\ k.type = "kick"
    <3>1. Msg("kick", fd) \in CmdMsg
      BY Messages
    <3> QED
      BY <3>1 DEF Msg
  <2>2. CASE cmds' = Append(cmds, k)
    <3>1. /\ Fds(cmds', {"accept"}) = Fds(cmds, {"accept"})
          /\ Unique(cmds, {"accept"}) => Unique(cmds', {"accept"})
      BY <1>0, <2>1, <2>2, PushOut
    <3> QED
      BY <3>1 DEF Accepting, Inv, AcceptedOnce
  <2>3. CASE cmds' = cmds
    BY <2>3 DEF Accepting, Inv, AcceptedOnce
  <2> QED
    BY <1>13, <2>1, <2>2, <2>3
<1>14. CASE m.type = "open"
  <2>1. PICK k \in CmdMsg : k = Msg("accept", fd) /\ k.fd = fd /\ k.type = "accept"
    <3>1. Msg("accept", fd) \in CmdMsg
      BY Messages
    <3> QED
      BY <3>1 DEF Msg
  <2>2. cmds' = Append(cmds, k) /\ UNCHANGED appVars
    BY <1>5, <1>14, <2>1 DEF Open
  <2>3. fd \in Offered /\ fd \notin Accepting /\ fd \notin Opening
    BY <1>8, <1>14 DEF Inv, AcceptedOnce
  <2>4. Accepting' = Accepting \cup {fd} /\ Unique(cmds', {"accept"})
    <3>1. /\ Fds(cmds', {"accept"}) = Fds(cmds, {"accept"}) \cup {fd}
          /\ Unique(cmds, {"accept"}) /\ fd \notin Fds(cmds, {"accept"}) => Unique(cmds', {"accept"})
      BY <1>0, <2>1, <2>2, PushIn
    <3> QED
      BY <2>3, <3>1 DEF Accepting, Inv, AcceptedOnce
  <2>5. Pending' = Pending /\ Ended' = Ended
    BY <1>6, <1>7, <1>8, <1>14, <2>4 DEF Pending
  <2>6. AcceptedOnce'
    BY <1>6, <1>8, <1>14, <2>3, <2>4 DEF Inv, AcceptedOnce
  <2>7. Fresh'
    BY <1>1, <1>6, <2>5 DEF Inv, Fresh, OtherTypes
  <2>8. CountedClients'
    BY <1>6, <2>2, <2>5, CountKept DEF appVars
  <2>9. Authed'
    BY <1>6, <2>2, <2>5 DEF Inv, Authed, appVars
  <2> QED
    BY <1>9, <1>10, <2>6, <2>7, <2>8, <2>9 DEF Inv
<1>15. CASE m.type = "accepted"
  <2>1. clients' = clients + 1 /\ UNCHANGED <<cmds, authed_fd>>
    BY <1>5, <1>15 DEF Accepted
  <2>2. Accepting' = Accepting /\ Unique(cmds', {"accept"})
    BY <1>13, <2>1
  <2>3. fd \in Offered /\ fd \notin Opening /\ fd \notin Accepting
    BY <1>8, <1>15 DEF Inv, AcceptedOnce
  <2>4. Pending = Pending' \cup {fd} /\ fd \notin Pending' /\ Ended' = Ended
    BY <1>6, <1>7, <1>8, <1>15, <2>2, <2>3 DEF Pending
  <2>5. fd \in Known \cup Ended
    BY <1>9, <1>15, <2>4
  <2>6. CountedClients'
    <3> DEFINE D == (Known \cup Ended) \ Pending
               E == (Known \cup Ended) \ Pending'
    <3>1. IsFiniteSet(Known \cup Ended) /\ clients \in Nat /\ clients <= Cardinality(D)
      BY <1>0 DEF Inv, CountedClients, TypeOK
    <3>2. IsFiniteSet(D) /\ IsFiniteSet(E)
      BY <3>1, FS_Difference
    <3>3. fd \in E /\ fd \notin D /\ D \subseteq E
      BY <2>4, <2>5
    <3> HIDE DEF D, E
    <3>4. clients + 1 <= Cardinality(E)
      BY <3>1, <3>2, <3>3, Counting
    <3> QED
      BY <1>6, <2>1, <2>4, <3>1, <3>4 DEF CountedClients, E
  <2>7. Authed'
    BY <1>6, <2>1, <2>4 DEF Inv, Authed
  <2> QED
    BY <1>9, <1>10, <1>12, <2>1, <2>2, <2>6, <2>7 DEF Inv
<1>16. CASE m.type \in {"close", "error", "warning"}
  <2>1. /\ clients' = IF clients > 0 THEN clients - 1 ELSE clients
        /\ authed_fd' = authed_fd \ {fd} /\ UNCHANGED <<cmds>>
    BY <1>5, <1>16 DEF CloseConn
  <2>2. Accepting' = Accepting /\ Unique(cmds', {"accept"})
    BY <1>13, <2>1
  <2>3. Pending' = Pending
    BY <1>6, <1>8, <1>16, <2>2 DEF Pending
  <2>4. Ended' \subseteq Ended /\ Ended \subseteq Ended' \cup {fd}
    BY <1>7
  <2>5. CountedClients'
    <3> DEFINE D == (Known \cup Ended) \ Pending
               E == (Known \cup Ended') \ Pending
    <3>1. IsFiniteSet(Known \cup Ended) /\ clients \in Nat /\ clients <= Cardinality(D)
      BY <1>0 DEF Inv, CountedClients, TypeOK
    <3>2. IsFiniteSet(Known \cup Ended')
      BY <2>4, <3>1, FS_Subset
    <3>3. IsFiniteSet(D) /\ IsFiniteSet(E)
      BY <3>1, <3>2, FS_Difference
    <3>4. D \subseteq E \cup {fd}
      BY <2>4
    <3> HIDE DEF D, E
    <3>5. clients > 0 => clients - 1 <= Cardinality(E)
      BY <3>1, <3>3, <3>4, Counting
    <3>6. Cardinality(E) \in Nat
      BY <3>3, FS_CardinalityType
    <3>7. clients' <= Cardinality(E)
      BY <2>1, <3>1, <3>5, <3>6
    <3> QED
      BY <1>6, <2>3, <3>2, <3>7 DEF CountedClients, E
  <2>6. Authed'
    BY <1>6, <2>1, <2>4 DEF Inv, Authed
  <2> QED
    BY <1>9, <1>10, <1>12, <2>1, <2>2, <2>5, <2>6 DEF Inv
<1>17. CASE m.type \in {"data", "refused"}
  <2>1. /\ cmds' = cmds \/ cmds' = Append(cmds, Msg("kick", fd))
        /\ UNCHANGED <<clients>>
        /\ authed_fd' = authed_fd \/ (m.type = "data" /\ authed_fd' = authed_fd \cup {fd})
    BY <1>5, <1>17 DEF Auth, OtherPacket, appVars
  <2>2. Accepting' = Accepting /\ Unique(cmds', {"accept"})
    BY <1>13, <2>1
  <2>3. Pending' = Pending /\ Ended' = Ended
    BY <1>6, <1>7, <1>8, <1>17, <2>2 DEF Pending
  <2>4. CountedClients'
    BY <1>6, <2>1, <2>3, CountKept
  <2>5. Authed'
    BY <1>6, <1>9, <2>1, <2>3 DEF Inv, Authed
  <2> QED
    BY <1>9, <1>10, <1>12, <2>1, <2>2, <2>4, <2>5 DEF Inv
<1> QED
  BY <1>4, <1>14, <1>15, <1>16, <1>17
-----------------------------------------------------------------------------
\* A step of the database or of a login that goes on, and a step of somebody else.
LEMMA LoginInv == ASSUME Inv, TypeOK', UNCHANGED <<gateVars, clients, authed_fd>>
                  PROVE  Inv'
<1>1. UNCHANGED <<sock, toGate, cmds, connection, client_number, toApp>>
  BY DEF gateVars
<1>2. UNCHANGED <<Known, Opening, Offered, Accepting, Ended>>
  BY <1>1 DEF Known, Opening, Offered, Accepting, Ended
<1>3. AcceptedOnce' /\ Fresh' /\ (IsFiniteSet(Known) /\ GateCount)'
  BY <1>1, <1>2 DEF Inv, AcceptedOnce, Fresh, Pending, GateCount
<1>4. Covered' /\ Authed' /\ CountedClients'
  BY <1>1, <1>2 DEF Inv, Covered, Authed, CountedClients, Pending
<1> QED
  BY <1>3, <1>4 DEF Inv

LEMMA InvStep == Inv /\ [Next]_vars => Inv'
<1> SUFFICES ASSUME Inv, [Next]_vars PROVE Inv'
  OBVIOUS
<1>0. TypeOK'
  BY TypeStep DEF Inv
<1>1. CASE Client \/ (SocketRequest /\ UNCHANGED appVars)
  BY <1>0, <1>1, SocketInv DEF Client
<1>2. CASE GateSocket /\ UNCHANGED appVars
  BY <1>0, <1>2, GateSocketInv
<1>3. CASE GateCommand /\ UNCHANGED appVars
  BY <1>0, <1>3, GateCommandInv
<1>4. CASE AppMessage
  BY <1>0, <1>4, AppMessageInv
<1>5. ASSUME NEW i \in DOMAIN loading, DbFind(i) \/ Loaded(i) PROVE Inv'
  BY <1>0, <1>5, LoginInv DEF DbFind, Loaded
<1>6. CASE UNCHANGED vars
  BY <1>0, <1>6, LoginInv DEF vars, appVars
<1> QED
  BY <1>1, <1>2, <1>3, <1>4, <1>5, <1>6 DEF Next

LEMMA Invariance == Spec => []Inv
<1>1. Init => Inv
  BY InvInit
<1>2. Inv /\ [Next]_vars => Inv'
  BY InvStep
<1> QED
  BY <1>1, <1>2, PTL DEF Spec

\* The ends on their way, as the properties name them.
LEMMA EndingEnded == TypeOK => Ending = Ended
BY DEF TypeOK, Ending, Ended, Fds
-----------------------------------------------------------------------------
\* gateserver: client_number is the number of connections the gate knows and stays within
\* conf.maxclient, whatever is kicked, closed or reported closed twice.
THEOREM GateCountAlways == Spec => []GateCount
<1>1. Inv => GateCount
  BY DEF Inv
<1> QED
  BY <1>1, Invariance, PTL

\* sock_mgr.clients never exceeds the connections that are known or whose end is on its
\* way: no overcount makes base_app_mgr refuse clients while there is room.
THEOREM NeverOvercounted == Spec => []ClientsNotOver
<1>1. Inv => ClientsNotOver
  <2> SUFFICES ASSUME Inv PROVE ClientsNotOver
    OBVIOUS
  <2>1. Ending = Ended
    BY EndingEnded DEF Inv
  <2>2. /\ IsFiniteSet(Known \cup Ended) /\ clients \in Nat
        /\ clients <= Cardinality((Known \cup Ended) \ Pending)
    BY DEF Inv, CountedClients, TypeOK
  <2>3. IsFiniteSet((Known \cup Ended) \ Pending)
    BY <2>2, FS_Difference
  <2>4. (Known \cup Ended) \ Pending \subseteq Known \cup Ended
    OBVIOUS
  <2>5. clients <= Cardinality(Known \cup Ended)
    BY <2>2, <2>3, <2>4, Counting
  <2> QED
    BY <2>1, <2>5 DEF ClientsNotOver
<1> QED
  BY <1>1, Invariance, PTL

\* sock_mgr.authed_fd holds only connections the gate knows or whose end base_app has
\* still to handle: a login under way never brings back a closed fd.
THEOREM AuthedAlwaysOpen == Spec => []AuthedIsOpen
<1>1. Inv => AuthedIsOpen
  BY EndingEnded DEF Inv, Authed, AuthedIsOpen
<1> QED
  BY <1>1, Invariance, PTL
=============================================================================
