------------------------------- MODULE Login -------------------------------
(***************************************************************************)
(* How a client gets to a base_app: the login service, which keeps the      *)
(* accounts, and base_app_mgr, which starts the base_apps and looks for one *)
(* with room.  The login port is open before base_app_mgr exists, a request *)
(* waits for every base_app it asks, and the whole server may stop and be   *)
(* started again on the same database.                                      *)
(*                                                                         *)
(* A step is what one coroutine of a service does between two yields.      *)
(***************************************************************************)
EXTENDS Naturals, Sequences, FiniteSetsExt

CONSTANTS Account, Passwd, Client,
          None,         \* nil
          App,          \* the base_apps, two in the code
          MaxClient,    \* clients a base_app takes, 1000 in the code
          MaxRestart    \* bound: how often the server is stopped

ASSUME LoginAssumption ==
    /\ None \notin Passwd /\ None \notin App
    /\ App # {} /\ MaxClient \in Nat \ {0} /\ MaxRestart \in Nat

VARIABLES
    account_tbl,    \* [Account -> Passwd or None]: account_mgr.account_tbl
    insert,         \* Seq(Record): inserts on their way to the database
    db,             \* Seq(Record): the account collection
    stage,          \* how far service/main.lua has come
    base_app_tbl,   \* SUBSET App: base_app_mgr.base_app_tbl
    listening,      \* SUBSET App: base_apps whose gate is open
    clients,        \* [App -> Nat]: sock_mgr.clients of a base_app
    req,            \* [Client -> Request]: the latest request of a client
    restarts

vars == <<account_tbl, insert, db, stage, base_app_tbl, listening, clients, req, restarts>>
mgrVars == <<stage, base_app_tbl, listening>>
accountVars == <<account_tbl, insert, db>>

Record == [account : Account, passwd : Passwd]

(* stage: the server is down; login listens; base_app_mgr has its name;     *)
(* base_app_mgr creates the base_apps.                                      *)
Stage == {"down", "login", "named", "create"}
Started == listening = App

\* A request: sent to base_app_mgr, or asking app for its clients with todo left
\* of the traversal; then answered with an address, an error message or, when the
\* handler fails, not at all.  late and free are history: was the server up when
\* the request was made, and which base_apps have had room ever since.
Where == {"idle", "sent", "asking", "address", "full", "errmsg", "lost"}
Request == [where : Where, app : App \cup {None}, todo : SUBSET App,
            late : BOOLEAN, free : SUBSET App]
NoRequest == [where |-> "idle", app |-> None, todo |-> {}, late |-> FALSE, free |-> {}]
Busy(c) == req[c].where \in {"sent", "asking"}

HasRoom(n) == n < MaxClient

Init ==
    /\ account_tbl = [a \in Account |-> None]
    /\ insert = <<>> /\ db = <<>>
    /\ stage = "down"
    /\ base_app_tbl = {} /\ listening = {}
    /\ clients = [b \in App |-> 0]
    /\ req = [c \in Client |-> NoRequest]
    /\ restarts = 0
-----------------------------------------------------------------------------
\* account_mgr:load_all: a later record of an account replaces an earlier one.
load_all ==
    [a \in Account |->
        LET recs == {i \in 1..Len(db) : db[i].account = a}
        IN  IF recs = {} THEN None ELSE db[Max(recs)].passwd]

\* CMD.start of login: the accounts are loaded before the gate is opened.
StartLogin ==
    /\ stage = "down"
    /\ stage' = "login"
    /\ account_tbl' = load_all
    /\ UNCHANGED <<insert, db, base_app_tbl, listening, clients, req, restarts>>

\* main.lua goes on and base_app_mgr registers its name: the harbor service delivers
\* what has been waiting for the name (update_name).
RegisterName ==
    /\ stage = "login"
    /\ stage' = "named"
    /\ UNCHANGED <<accountVars, base_app_tbl, listening, clients, req, restarts>>

\* base_app_mgr:init.
InitBaseAppMgr ==
    /\ stage = "named"
    /\ stage' = "create"
    /\ UNCHANGED <<accountVars, base_app_tbl, listening, clients, req, restarts>>

\* create_base_apps enters the next base_app in the table.  A traversal under
\* way may deliver any of the other keys after that.
CreateBaseApp(b) ==
    /\ stage = "create"
    /\ b \notin base_app_tbl
    /\ base_app_tbl' = base_app_tbl \cup {b}
    /\ \E rest \in [Client -> SUBSET base_app_tbl'] :
         req' = [c \in Client |-> IF req[c].where = "asking"
                                  THEN [req[c] EXCEPT !.todo = rest[c] \ {req[c].app}]
                                  ELSE req[c]]
    /\ UNCHANGED <<accountVars, stage, listening, clients, restarts>>

\* Faulty variant: one base_app is left out.
StartBaseAppAlone(b) ==
    /\ base_app_tbl = App
    /\ b \notin listening
    /\ listening = {}
    /\ listening' = listening \cup {b}
    /\ UNCHANGED <<accountVars, stage, base_app_tbl, clients, req, restarts>>

\* start_base_apps: all have been created; this one opens its gate.
StartBaseApp(b) ==
    /\ base_app_tbl = App
    /\ b \notin listening
    /\ listening' = listening \cup {b}
    /\ UNCHANGED <<accountVars, stage, base_app_tbl, clients, req, restarts>>
-----------------------------------------------------------------------------
Ask(c, r) == req' = [req EXCEPT ![c] = r]
Answer(w) == [NoRequest EXCEPT !.where = w, !.late = Started]

\* A message to a global name goes by way of the harbor service, which keeps it
\* until the name is registered.
NameKnown == stage # "login"

\* The call of get_base_app_addr.
CallBaseAppMgr(c) ==
    Ask(c, [NoRequest EXCEPT !.where = "sent", !.late = Started,
                             !.free = {b \in App : HasRoom(clients[b])}])

\* account_mgr:verify.
verify(a, p) == account_tbl[a] # None /\ account_tbl[a] = p

\* login.login: the password is checked, then a base_app is looked for.
login(c, a, p) ==
    /\ stage # "down" /\ ~Busy(c)
    /\ IF verify(a, p) THEN CallBaseAppMgr(c) ELSE Ask(c, Answer("errmsg"))
    /\ UNCHANGED <<accountVars, mgrVars, clients, restarts>>

\* Faulty variant: an account may be registered again.
registerAgain(c, a, p) ==
    /\ stage # "down" /\ ~Busy(c)
    /\ Len(insert) + Len(db) < 2
    /\ account_tbl' = [account_tbl EXCEPT ![a] = p]
    /\ insert' = Append(insert, [account |-> a, passwd |-> p])
    /\ CallBaseAppMgr(c)
    /\ UNCHANGED <<db, mgrVars, clients, restarts>>

\* account_mgr:register, for an account that is new: it is entered, and its record
\* sent to the database without waiting.
add_account(a, p) ==
    /\ account_tbl' = [account_tbl EXCEPT ![a] = p]
    /\ insert' = Append(insert, [account |-> a, passwd |-> p])
    /\ UNCHANGED db

\* login.register: nothing is waited for between the test and the entry.  The
\* account stays if the rest of the handler fails.
register(c, a, p) ==
    /\ stage # "down" /\ ~Busy(c)
    /\ IF account_tbl[a] # None
       THEN /\ Ask(c, Answer("errmsg"))
            /\ UNCHANGED accountVars
       ELSE /\ add_account(a, p)
            /\ CallBaseAppMgr(c)
    /\ UNCHANGED <<mgrVars, clients, restarts>>

\* CMD.get_base_app_addr begins its traversal, once the request has been delivered.
\* The table does not exist before base_app_mgr:init, and is empty until the first
\* base_app is there.
BeginTraversal(c) ==
    /\ req[c].where = "sent" /\ NameKnown
    /\ \/ /\ stage = "named"
          /\ req' = [req EXCEPT ![c].where = "lost"]
       \/ /\ stage = "create" /\ base_app_tbl = {}
          /\ req' = [req EXCEPT ![c].where = "full"]
       \/ \E b \in base_app_tbl :
             req' = [req EXCEPT ![c].where = "asking", ![c].app = b,
                                ![c].todo = base_app_tbl \ {b}]
    /\ UNCHANGED <<accountVars, mgrVars, clients, restarts>>

\* Faulty variant: only one base_app is asked.
get_clients_once(c) ==
    LET b == req[c].app
    IN  /\ req[c].where = "asking"
        /\ req' = [req EXCEPT ![c].where = IF HasRoom(clients[b]) THEN "address" ELSE "full"]
        /\ UNCHANGED <<accountVars, mgrVars, clients, restarts>>

\* Faulty variant: a base_app without room is asked again.
get_clients_again(c) ==
    LET b == req[c].app
    IN  /\ req[c].where = "asking"
        /\ HasRoom(clients[b])
        /\ req' = [req EXCEPT ![c].where = "address"]
        /\ UNCHANGED <<accountVars, mgrVars, clients, restarts>>

\* The base_app tells how many clients it has: its address is the answer, or the
\* traversal goes on, or there is no room anywhere.
get_clients(c) ==
    LET b == req[c].app
    IN  /\ req[c].where = "asking"
        /\ \/ /\ HasRoom(clients[b])
              /\ req' = [req EXCEPT ![c].where = "address"]
           \/ /\ ~HasRoom(clients[b])
              /\ \E d \in req[c].todo :
                    req' = [req EXCEPT ![c].app = d, ![c].todo = @ \ {d}]
           \/ /\ ~HasRoom(clients[b])
              /\ req[c].todo = {}
              /\ req' = [req EXCEPT ![c].where = "full"]
        /\ UNCHANGED <<accountVars, mgrVars, clients, restarts>>
-----------------------------------------------------------------------------
\* What a base_app does meanwhile (module BaseApp): it counts a new client, which
\* its gate has let in, or discounts one.  It may still count one that has gone
\* when the gate has let in the next; bound: one above the limit.
CountClient(b) ==
    /\ b \in listening
    /\ \/ clients[b] <= MaxClient /\ clients' = [clients EXCEPT ![b] = @ + 1]
       \/ clients[b] > 0 /\ clients' = [clients EXCEPT ![b] = @ - 1]
    /\ req' = [c \in Client |->
                 [req[c] EXCEPT !.free = {d \in @ : HasRoom(clients'[d])}]]
    /\ UNCHANGED <<accountVars, mgrVars, restarts>>

\* The database executes an insert; nobody waits for it.
Insert ==
    /\ insert # <<>>
    /\ db' = Append(db, Head(insert))
    /\ insert' = Tail(insert)
    /\ UNCHANGED <<account_tbl, mgrVars, clients, req, restarts>>

\* The server stops, and with it the inserts it has not sent.
Stop ==
    /\ stage # "down" /\ restarts < MaxRestart
    /\ stage' = "down"
    /\ account_tbl' = [a \in Account |-> None]
    /\ insert' = <<>>
    /\ base_app_tbl' = {} /\ listening' = {}
    /\ clients' = [b \in App |-> 0]
    /\ req' = [c \in Client |-> NoRequest]
    /\ restarts' = restarts + 1
    /\ UNCHANGED db

Next == \/ StartLogin \/ RegisterName \/ InitBaseAppMgr \/ Insert \/ Stop
        \/ \E b \in App : CreateBaseApp(b) \/ StartBaseApp(b) \/ CountClient(b)
        \/ \E c \in Client : \/ BeginTraversal(c) \/ get_clients(c)
                             \/ \E a \in Account, p \in Passwd : login(c, a, p) \/ register(c, a, p)

Spec == Init /\ [][Next]_vars

\* The services handle their messages, main.lua's calls among them.
Fairness == /\ WF_vars(StartLogin) /\ WF_vars(RegisterName) /\ WF_vars(InitBaseAppMgr)
            /\ \A b \in App : WF_vars(CreateBaseApp(b)) /\ WF_vars(StartBaseApp(b))
            /\ \A c \in Client : WF_vars(BeginTraversal(c)) /\ WF_vars(get_clients(c))

FairSpec == Spec /\ Fairness
-----------------------------------------------------------------------------
\* Two registrations of one account never both succeed, whatever is on its way to
\* the database and across restarts: account_tbl says what database and inserts say.
OneRecord ==
    LET all == db \o insert
    IN  /\ \A i, j \in 1..Len(all) : all[i].account = all[j].account => i = j
        /\ stage # "down" =>
              \A a \in Account, p \in Passwd : account_tbl[a] = p <=>
                    \E i \in 1..Len(all) : all[i] = [account |-> a, passwd |-> p]

\* "No more base app to connect !" is said only if every base_app was full at some
\* moment of the request, once the server is up.
FullOnlyIfFull ==
    \A c \in Client : req[c].where = "full" /\ req[c].late => req[c].free = {}

\* Every request comes to an end, also one that the harbor service keeps because it
\* came too early; one made after the start is answered, however the counts change.
RequestEnds ==
    \A c \in Client :
        /\ Busy(c) ~> ~Busy(c)
        /\ Busy(c) /\ req[c].late ~>
              req[c].where \in {"address", "full"} \/ stage = "down"

\* The address a client is given is one it will be able to connect to, though it
\* may get it before the base_app has opened its gate.
AddressOpens ==
    \A c \in Client, b \in App :
        req[c].where = "address" /\ req[c].app = b ~> b \in listening \/ stage = "down"
=============================================================================
