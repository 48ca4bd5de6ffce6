------------------------------ MODULE BaseApp ------------------------------
(***************************************************************************)
(* A base_app service and its gate: sock_mgr counts the clients and knows   *)
(* which of them have logged in, login_mgr loads their players.  Every      *)
(* message is handled by a coroutine of its own, which other messages       *)
(* overtake while it waits for the gate or the database.                    *)
(***************************************************************************)
EXTENDS SocketGate

CONSTANTS Account,
          NoAccount

ASSUME BaseAppAssumption ==
    /\ Packet = [kind : {"login"}, account : Account] \cup [kind : {"bad_token"}]
                \cup [kind : {"room"}]
    /\ NoAccount \notin Account

VARIABLES clients, authed_fd,
          loading,        \* coroutines of login_mgr:auth: where, fd, account
          stored,         \* accounts with a player document in the database
          player_tbl,     \* account -> fd of its player
          fd_2_player     \* fd -> account of its player

appVars == <<clients, authed_fd, loading, stored, player_tbl, fd_2_player>>
vars == <<gateVars, appVars>>

NoFd == "no fd"

Init ==
    /\ GateInit
    /\ clients = 0
    /\ authed_fd = {}
    /\ loading = <<>>
    /\ stored = {}
    /\ player_tbl = [a \in Account |-> NoFd]
    /\ fd_2_player = [fd \in Fd |-> NoAccount]
-----------------------------------------------------------------------------
\* sock_mgr:open asks the gate to accept ...
Open(fd) ==
    /\ cmds' = Append(cmds, Msg("accept", fd))
    /\ UNCHANGED appVars

\* ... and counts the client when the gate has answered.
Accepted ==
    /\ clients' = clients + 1
    /\ UNCHANGED <<cmds, authed_fd, loading, stored, player_tbl, fd_2_player>>

\* Faulty variant: the client is not discounted.
CloseConnKeepsCount(fd) ==
    /\ authed_fd' = authed_fd \ {fd}
    /\ UNCHANGED <<cmds, clients, loading, stored, player_tbl, fd_2_player>>

\* close_conn, for close, error and warning: a warning does not close the
\* connection, it only forgets it.
CloseConn(fd) ==
    /\ authed_fd' = authed_fd \ {fd}
    /\ clients' = IF clients > 0 THEN clients - 1 ELSE clients
    /\ UNCHANGED <<cmds, loading, stored, player_tbl, fd_2_player>>

\* login_mgr:auth with the right token, up to the query of load_from_db.
Auth(fd, a) ==
    /\ authed_fd' = authed_fd \cup {fd}
    /\ loading' = Append(loading, [at |-> "find", fd |-> fd, account |-> a])
    /\ UNCHANGED <<cmds, clients, stored, player_tbl, fd_2_player>>

\* sock_mgr:data of another packet: room requests call room_mgr, or fail for a
\* client without player; a client that has not logged in is kicked.
OtherPacket(fd) ==
    /\ cmds' = IF fd \in authed_fd THEN cmds ELSE Append(cmds, Msg("kick", fd))
    /\ UNCHANGED appVars

\* base_app handles a message of the gate.  A wrong token is answered; an error
\* in the gate's accept ends the coroutine.
AppMessage ==
    /\ toApp # <<>>
    /\ toApp' = Tail(toApp)
    /\ LET m == Head(toApp)
           is(kind) == m.type = "data" /\ m.packet.kind = kind
       IN  CASE m.type = "open" -> Open(m.fd)
             [] m.type = "accepted" -> Accepted
             [] is("login") -> Auth(m.fd, m.packet.account)
             [] is("room") -> OtherPacket(m.fd)
             [] m.type \in {"close", "error", "warning"} -> CloseConn(m.fd)
             [] OTHER -> UNCHANGED <<cmds, appVars>>
    /\ UNCHANGED <<sock, ctl, toGate, connection, client_number, events>>

\* The database answers find_one.
DbFind(i) ==
    /\ loading[i].at = "find"
    /\ loading' = [loading EXCEPT ![i].at = IF loading[i].account \in stored THEN "found" ELSE "missing"]
    /\ UNCHANGED <<gateVars, clients, authed_fd, stored, player_tbl, fd_2_player>>

\* Faulty variant: the client is authenticated again when its player is there.
LoadedAuths(i) ==
    LET t == loading[i] IN
    /\ t.at # "find"
    /\ loading' = RemoveAt(loading, i)
    /\ stored' = stored \cup {t.account}
    /\ player_tbl' = [player_tbl EXCEPT ![t.account] = t.fd]
    /\ fd_2_player' = [fd_2_player EXCEPT ![t.fd] = t.account]
    /\ authed_fd' = authed_fd \cup {t.fd}
    /\ UNCHANGED <<gateVars, clients>>

\* load_from_db goes on, storing a new player; player_mgr:add and the answer.
Loaded(i) ==
    LET t == loading[i] IN
    /\ t.at # "find"
    /\ loading' = RemoveAt(loading, i)
    /\ stored' = stored \cup {t.account}
    /\ player_tbl' = [player_tbl EXCEPT ![t.account] = t.fd]
    /\ fd_2_player' = [fd_2_player EXCEPT ![t.fd] = t.account]
    /\ UNCHANGED <<gateVars, clients, authed_fd>>
-----------------------------------------------------------------------------
Client ==
    /\ \/ \E fd \in Fd : SocketAccept(fd) \/ SocketWarning(fd)
       \/ \E fd \in Fd, p \in Packet : SocketData(fd, p)
       \/ \E fd \in Fd : SocketEnd(fd, "close") \/ SocketEnd(fd, "error")
    /\ UNCHANGED appVars

Next ==
    \/ Client
    \/ SocketRequest /\ UNCHANGED appVars
    \/ GateSocket /\ UNCHANGED appVars
    \/ GateCommand /\ UNCHANGED appVars
    \/ AppMessage
    \/ \E i \in DOMAIN loading : DbFind(i) \/ Loaded(i)

Spec == Init /\ [][Next]_vars

\* The threads run; neither clients nor the database need to do anything.
FairSpec ==
    /\ Spec
    /\ WF_vars(SocketRequest /\ UNCHANGED appVars)
    /\ WF_vars(GateSocket /\ UNCHANGED appVars)
    /\ WF_vars(GateCommand /\ UNCHANGED appVars)
    /\ WF_vars(AppMessage)
-----------------------------------------------------------------------------
\* base_app never counts more clients than there are, so base_app_mgr does not
\* answer "No more base app to connect !" while there is room.  (It may count
\* fewer: warnings, connections above the limit and double closes all discount.)
ClientsNotOver == clients <= Cardinality(Known \cup Ending)

\* A client is authenticated no longer than its connection lasts: no login that is
\* still being handled brings back an fd that has been closed.
AuthedIsOpen == authed_fd \subseteq Known \cup Ending

\* Once a socket is closed, the gate's connections and base_app's authed_fd forget it for
\* good, whatever logins and messages are still under way.  The players stay: player_tbl
\* and fd_2_player are written by a login and never cleared (player_mgr:remove is not
\* called).
ClosedForgotten ==
    \A fd \in Fd : sock[fd] = "invalid" ~> [](fd \notin Known /\ fd \notin authed_fd)
=============================================================================
