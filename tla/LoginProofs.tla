----------------------------- MODULE LoginProofs -----------------------------
(***************************************************************************)
(* Theorems about Login, for any number of accounts, clients and base_apps *)
(* and any number of restarts.                                             *)
(***************************************************************************)
EXTENDS Login, SequenceTheorems, TLAPS

TypeOK ==
    /\ account_tbl \in [Account -> Passwd \cup {None}]
    /\ insert \in Seq(Record) /\ db \in Seq(Record)
    /\ base_app_tbl \subseteq App /\ listening \subseteq App
    /\ clients \in [App -> Nat]
    /\ req \in [Client -> Request]

\* The start of the server: base_apps are created after the login port is open, and
\* open their gates when all of them have been created.
Startup ==
    /\ stage = "down" => insert = <<>>
    /\ base_app_tbl # {} => stage = "create"
    /\ listening # {} => base_app_tbl = App

\* What a request may rely on: the base_apps of free do have room, and a request made
\* when the server is up has still to ask every one of them.
Sound(c) ==
    /\ req[c].late => Started
    /\ \A b \in req[c].free : HasRoom(clients[b])
    /\ req[c].where = "asking" /\ req[c].late =>
          req[c].free \subseteq {req[c].app} \cup req[c].todo
    /\ req[c].where = "full" /\ req[c].late => req[c].free = {}

Inv == /\ TypeOK
       /\ Startup
       /\ \A c \in Client : Sound(c)
       /\ OneRecord

LEMMA InvInit == Init => Inv
<1> SUFFICES ASSUME Init PROVE Inv
  OBVIOUS
<1>1. TypeOK
  BY LoginAssumption DEF Init, TypeOK, NoRequest, Request, Where
<1>2. Startup
  BY DEF Init, Startup
<1>3. \A c \in Client : Sound(c)
  BY DEF Init, Sound, NoRequest
<1>4. db \o insert = <<>>
  BY DEF Init
<1>5. OneRecord
  BY <1>4 DEF OneRecord, Init
<1> QED
  BY <1>1, <1>2, <1>3, <1>5 DEF Inv
-----------------------------------------------------------------------------
\* account_mgr:load_all, when no account has two records: every account gets the
\* password of its record.
LEMMA LoadAll == ASSUME db \in Seq(Record),
                        \A i, j \in 1..Len(db) : db[i].account = db[j].account => i = j
                 PROVE  /\ load_all \in [Account -> Passwd \cup {None}]
                        /\ \A a \in Account, p \in Passwd :
                              load_all[a] = p <=>
                                 \E i \in 1..Len(db) : db[i] = [account |-> a, passwd |-> p]
<1> DEFINE recs(a) == {i \in 1..Len(db) : db[i].account = a}
<1>1. \A i \in 1..Len(db) : db[i] \in Record
  OBVIOUS
<1>2. ASSUME NEW a \in Account, NEW n \in recs(a) PROVE Max(recs(a)) = n
  <2>1. recs(a) = {n}
    BY <1>2
  <2>2. Max({n}) = n
    BY <1>2 DEF Max
  <2> QED
    BY <2>1, <2>2
<1>3. \A a \in Account : load_all[a] = IF recs(a) = {} THEN None ELSE db[Max(recs(a))].passwd
  BY DEF load_all
<1>4. ASSUME NEW a \in Account, NEW n \in recs(a) PROVE load_all[a] = db[n].passwd
  BY <1>2, <1>3, <1>4
<1>5. ASSUME NEW a \in Account, recs(a) = {} PROVE load_all[a] = None
  BY <1>3, <1>5
<1>6. ASSUME NEW a \in Account, NEW n \in recs(a)
      PROVE  /\ db[n].passwd \in Passwd
             /\ db[n] = [account |-> a, passwd |-> db[n].passwd]
  BY <1>1, <1>6 DEF Record
<1>7. ASSUME NEW a \in Account PROVE load_all[a] \in Passwd \cup {None}
  BY <1>4, <1>5, <1>6
<1>8. load_all \in [Account -> Passwd \cup {None}]
  BY <1>7 DEF load_all
<1>9. ASSUME NEW a \in Account, NEW p \in Passwd, load_all[a] = p
      PROVE  \E i \in 1..Len(db) : db[i] = [account |-> a, passwd |-> p]
  <2>1. PICK n \in recs(a) : TRUE
    BY <1>5, <1>9, LoginAssumption
  <2> QED
    BY <1>4, <1>6, <1>9, <2>1
<1>10. ASSUME NEW a \in Account, NEW p \in Passwd,
              NEW i \in 1..Len(db), db[i] = [account |-> a, passwd |-> p]
       PROVE  load_all[a] = p
  BY <1>4, <1>10
<1> QED
  BY <1>8, <1>9, <1>10

\* While the server is down the database holds all records there are.
LEMMA DbUnique == ASSUME TypeOK, Startup, OneRecord, stage = "down"
                  PROVE  /\ db \o insert = db
                         /\ \A i, j \in 1..Len(db) : db[i].account = db[j].account => i = j
<1>1. db \o insert = db
  BY DEF TypeOK, Startup
<1> QED
  BY <1>1 DEF OneRecord

\* A request whose traversal is changed is still a request.
LEMMA EditRequest == ASSUME NEW r \in Request, NEW b \in App, NEW S \in SUBSET App, NEW w \in Where
                     PROVE  /\ [r EXCEPT !.where = w] \in Request
                            /\ [r EXCEPT !.app = b, !.todo = S] \in Request
                            /\ [r EXCEPT !.where = w, !.app = b, !.todo = S] \in Request
BY DEF Request

\* Every step keeps the types.
LEMMA TypeStep == TypeOK /\ Startup /\ OneRecord /\ [Next]_vars => TypeOK'
<1> SUFFICES ASSUME TypeOK, Startup, OneRecord, [Next]_vars PROVE TypeOK'
  OBVIOUS
<1> USE LoginAssumption
<1>1. CASE StartLogin
  <2>1. load_all \in [Account -> Passwd \cup {None}]
    BY <1>1, LoadAll, DbUnique DEF StartLogin, TypeOK
  <2> QED
    BY <1>1, <2>1 DEF StartLogin, TypeOK
<1>2. CASE RegisterName \/ InitBaseAppMgr
  BY <1>2 DEF RegisterName, InitBaseAppMgr, TypeOK, accountVars
<1>3. CASE Insert
  BY <1>3 DEF Insert, TypeOK, mgrVars
<1>4. CASE Stop
  BY <1>4 DEF Stop, TypeOK, NoRequest, Request, Where
<1>5. ASSUME NEW b \in App, CreateBaseApp(b) PROVE TypeOK'
  <2>1. PICK rest \in [Client -> SUBSET base_app_tbl'] :
          req' = [c \in Client |-> IF req[c].where = "asking"
                                   THEN [req[c] EXCEPT !.todo = rest[c] \ {req[c].app}]
                                   ELSE req[c]]
    BY <1>5 DEF CreateBaseApp
  <2>2. base_app_tbl' \subseteq App
    BY <1>5 DEF CreateBaseApp, TypeOK
  <2>3. req' \in [Client -> Request]
    <3> SUFFICES ASSUME NEW c \in Client PROVE req'[c] \in Request
      BY <2>1
    <3>1. req[c] \in Request /\ rest[c] \ {req[c].app} \in SUBSET App
      BY <2>2 DEF TypeOK
    <3> QED
      BY <2>1, <3>1 DEF Request
  <2> QED
    BY <1>5, <2>2, <2>3 DEF CreateBaseApp, TypeOK, accountVars
<1>6. ASSUME NEW b \in App, StartBaseApp(b) PROVE TypeOK'
  BY <1>6 DEF StartBaseApp, TypeOK, accountVars
<1>7. ASSUME NEW b \in App, CountClient(b) PROVE TypeOK'
  <2>1. clients' \in [App -> Nat]
    BY <1>7 DEF CountClient, TypeOK
  <2>2. req' \in [Client -> Request]
    <3> SUFFICES ASSUME NEW c \in Client PROVE req'[c] \in Request
      BY <1>7 DEF CountClient
    <3>1. req[c] \in Request
      BY DEF TypeOK
    <3>2. PICK S \in SUBSET App : req'[c] = [req[c] EXCEPT !.free = S]
      BY <1>7, <3>1 DEF CountClient, Request
    <3> QED
      BY <3>1, <3>2 DEF Request
  <2> QED
    BY <1>7, <2>1, <2>2 DEF CountClient, TypeOK, accountVars, mgrVars
<1>8. ASSUME NEW c \in Client, BeginTraversal(c) PROVE TypeOK'
  <2>1. req' \in [Client -> Request]
    <3>1. req[c] \in Request
      BY DEF TypeOK
    <3>2. PICK r \in Request : req' = [req EXCEPT ![c] = r]
      <4>1. CASE req' = [req EXCEPT ![c].where = "lost"]
        BY <3>1, <4>1, EditRequest DEF Where
      <4>2. CASE req' = [req EXCEPT ![c].where = "full"]
        BY <3>1, <4>2, EditRequest DEF Where
      <4>3. ASSUME NEW b \in base_app_tbl,
                   req' = [req EXCEPT ![c].where = "asking", ![c].app = b,
                                      ![c].todo = base_app_tbl \ {b}]
            PROVE  \E r \in Request : req' = [req EXCEPT ![c] = r]
        <5>1. req' = [req EXCEPT ![c] = [@ EXCEPT !.where = "asking", !.app = b,
                                                  !.todo = base_app_tbl \ {b}]]
          BY <4>3
        <5>2. b \in App /\ base_app_tbl \ {b} \in SUBSET App
          BY DEF TypeOK
        <5> QED
          BY <3>1, <5>1, <5>2, EditRequest DEF Where
      <4> QED
        BY <1>8, <4>1, <4>2, <4>3 DEF BeginTraversal
    <3> QED
      BY <3>2 DEF TypeOK
  <2> QED
    BY <1>8, <2>1 DEF BeginTraversal, TypeOK, accountVars, mgrVars
<1>9. ASSUME NEW c \in Client, get_clients(c) PROVE TypeOK'
  <2>1. req' \in [Client -> Request]
    <3>1. req[c] \in Request
      BY DEF TypeOK
    <3>2. PICK r \in Request : req' = [req EXCEPT ![c] = r]
      <4>1. CASE req' = [req EXCEPT ![c].where = "address"]
        BY <3>1, <4>1, EditRequest DEF Where
      <4>2. CASE req' = [req EXCEPT ![c].where = "full"]
        BY <3>1, <4>2, EditRequest DEF Where
      <4>3. ASSUME NEW d \in req[c].todo,
                   req' = [req EXCEPT ![c].app = d, ![c].todo = @ \ {d}]
            PROVE  \E r \in Request : req' = [req EXCEPT ![c] = r]
        <5>1. req' = [req EXCEPT ![c] = [@ EXCEPT !.app = d, !.todo = req[c].todo \ {d}]]
          BY <3>1, <4>3 DEF Request
        <5>2. d \in App /\ req[c].todo \ {d} \in SUBSET App
          BY <3>1 DEF Request
        <5> QED
          BY <3>1, <5>1, <5>2, EditRequest DEF Where
      <4> QED
        BY <1>9, <4>1, <4>2, <4>3 DEF get_clients
    <3> QED
      BY <3>2 DEF TypeOK
  <2> QED
    BY <1>9, <2>1 DEF get_clients, TypeOK, accountVars, mgrVars
<1>10. ASSUME NEW c \in Client, CallBaseAppMgr(c) \/ Ask(c, Answer("errmsg"))
       PROVE  req' \in [Client -> Request]
  <2>1. Answer("errmsg") \in Request
    BY DEF Answer, NoRequest, Request, Where, Started
  <2>2. \A S \in SUBSET App :
          [NoRequest EXCEPT !.where = "sent", !.late = Started, !.free = S] \in Request
    BY DEF NoRequest, Request, Where, Started
  <2>3. {b \in App : HasRoom(clients[b])} \in SUBSET App
    OBVIOUS
  <2> QED
    BY <1>10, <2>1, <2>2, <2>3 DEF CallBaseAppMgr, Ask, TypeOK
<1>11. ASSUME NEW c \in Client, NEW a \in Account, NEW p \in Passwd, login(c, a, p)
       PROVE  TypeOK'
  BY <1>10, <1>11 DEF login, TypeOK, accountVars, mgrVars
<1>12. ASSUME NEW c \in Client, NEW a \in Account, NEW p \in Passwd, register(c, a, p)
       PROVE  TypeOK'
  <2>1. req' \in [Client -> Request]
    BY <1>10, <1>12 DEF register
  <2>2. /\ account_tbl' \in [Account -> Passwd \cup {None}]
        /\ insert' \in Seq(Record) /\ db' \in Seq(Record)
    <3>1. [account |-> a, passwd |-> p] \in Record
      BY DEF Record
    <3>2. CASE add_account(a, p)
      BY <3>1, <3>2 DEF add_account, TypeOK
    <3>3. CASE UNCHANGED accountVars
      BY <3>3 DEF accountVars, TypeOK
    <3> QED
      BY <1>12, <3>2, <3>3 DEF register
  <2> QED
    BY <1>12, <2>1, <2>2 DEF register, TypeOK, mgrVars
<1>13. CASE UNCHANGED vars
  BY <1>13 DEF vars, TypeOK
<1> QED
  BY <1>1, <1>2, <1>3, <1>4, <1>5, <1>6, <1>7, <1>8, <1>9, <1>11, <1>12, <1>13 DEF Next
-----------------------------------------------------------------------------
\* The order in which the server comes up.
LEMMA StartupStep == TypeOK /\ Startup /\ [Next]_vars => Startup'
<1> SUFFICES ASSUME TypeOK, Startup, [Next]_vars PROVE Startup'
  OBVIOUS
<1>1. CASE StartLogin \/ RegisterName \/ InitBaseAppMgr
  BY <1>1 DEF StartLogin, RegisterName, InitBaseAppMgr, Startup, accountVars
<1>2. CASE Insert
  BY <1>2 DEF Insert, Startup, mgrVars
<1>3. CASE Stop
  BY <1>3 DEF Stop, Startup
<1>4. ASSUME NEW b \in App, CreateBaseApp(b) \/ StartBaseApp(b) \/ CountClient(b)
      PROVE  Startup'
  BY <1>4 DEF CreateBaseApp, StartBaseApp, CountClient, Startup, TypeOK, accountVars, mgrVars
<1>5. ASSUME NEW c \in Client, BeginTraversal(c) \/ get_clients(c) PROVE Startup'
  BY <1>5 DEF BeginTraversal, get_clients, Startup, accountVars, mgrVars
<1>6. ASSUME NEW c \in Client, NEW a \in Account, NEW p \in Passwd,
             login(c, a, p) \/ register(c, a, p)
      PROVE  Startup'
  BY <1>6 DEF login, register, Startup, accountVars, mgrVars
<1>7. CASE UNCHANGED vars
  BY <1>7 DEF vars, Startup
<1> QED
  BY <1>1, <1>2, <1>3, <1>4, <1>5, <1>6, <1>7 DEF Next

\* A request that is not touched stays sound as long as no gate is closed.
LEMMA SoundSame == ASSUME NEW c \in Client, Sound(c), req'[c] = req[c],
                          UNCHANGED listening, UNCHANGED clients
                   PROVE  Sound(c)'
BY DEF Sound, Started, HasRoom

\* Every step keeps every request sound.
LEMMA SoundStep == TypeOK /\ Startup /\ (\A c \in Client : Sound(c)) /\ [Next]_vars
                      => \A c \in Client : Sound(c)'
<1> SUFFICES ASSUME TypeOK, Startup, \A c \in Client : Sound(c), [Next]_vars,
                    NEW c \in Client
             PROVE  Sound(c)'
  OBVIOUS
<1> USE LoginAssumption
<1>0. req[c] \in Request /\ Sound(c)
  BY DEF TypeOK
<1>1. CASE StartLogin \/ RegisterName \/ InitBaseAppMgr \/ Insert
  BY <1>0, <1>1, SoundSame DEF StartLogin, RegisterName, InitBaseAppMgr, Insert, mgrVars
<1>2. CASE Stop
  BY <1>2 DEF Stop, Sound, NoRequest
<1>3. ASSUME NEW b \in App, CreateBaseApp(b) PROVE Sound(c)'
  \* Nobody asks yet whose request was made when the server was up.
  <2>1. ~req[c].late
    BY <1>0, <1>3 DEF Sound, Started, Startup, CreateBaseApp
  <2>2. PICK S : req'[c] = req[c] \/ req'[c] = [req[c] EXCEPT !.todo = S]
    BY <1>3 DEF CreateBaseApp
  <2>3. req'[c].late = req[c].late /\ req'[c].free = req[c].free
    BY <1>0, <2>2 DEF Request
  <2>4. UNCHANGED clients
    BY <1>3 DEF CreateBaseApp
  <2> QED
    BY <1>0, <2>1, <2>3, <2>4 DEF Sound, HasRoom
<1>4. ASSUME NEW b \in App, StartBaseApp(b) PROVE Sound(c)'
  BY <1>0, <1>4 DEF StartBaseApp, Sound, Started, HasRoom, TypeOK
<1>5. ASSUME NEW b \in App, CountClient(b) PROVE Sound(c)'
  <2>1. PICK S : /\ req'[c] = [req[c] EXCEPT !.free = S]
                 /\ S = {d \in req[c].free : HasRoom(clients'[d])}
    BY <1>0, <1>5 DEF CountClient, Request
  <2>2. /\ req'[c].late = req[c].late /\ req'[c].free = S
        /\ req'[c].where = req[c].where /\ req'[c].app = req[c].app
        /\ req'[c].todo = req[c].todo
    BY <1>0, <2>1 DEF Request
  <2>3. UNCHANGED listening
    BY <1>5 DEF CountClient, mgrVars
  <2> QED
    BY <1>0, <2>1, <2>2, <2>3 DEF Sound, Started, HasRoom
<1>6. ASSUME NEW d \in Client, BeginTraversal(d) PROVE Sound(c)'
  <2>1. UNCHANGED <<listening, clients>>
    BY <1>6 DEF BeginTraversal, mgrVars
  <2>2. CASE c # d
    BY <1>0, <1>6, <2>1, <2>2, SoundSame DEF BeginTraversal, TypeOK
  <2>3. CASE c = d
    <3>1. req[c].late => base_app_tbl = App /\ stage = "create"
      BY <1>0 DEF Sound, Started, Startup
    <3>2. PICK w, b, S :
            /\ req'[c] = [req[c] EXCEPT !.where = w, !.app = b, !.todo = S]
            /\ \/ w = "lost"
               \/ w = "full" /\ base_app_tbl = {}
               \/ w = "asking" /\ b \in base_app_tbl /\ S = base_app_tbl \ {b}
      <4>1. ASSUME NEW w \in {"lost", "full"}, req' = [req EXCEPT ![d].where = w]
            PROVE  req'[c] = [req[c] EXCEPT !.where = w, !.app = req[c].app, !.todo = req[c].todo]
        BY <1>0, <2>3, <4>1 DEF TypeOK, Request
      <4>2. ASSUME NEW b \in base_app_tbl,
                   req' = [req EXCEPT ![d].where = "asking", ![d].app = b,
                                      ![d].todo = base_app_tbl \ {b}]
            PROVE  req'[c] = [req[c] EXCEPT !.where = "asking", !.app = b, !.todo = base_app_tbl \ {b}]
        BY <1>0, <2>3, <4>2 DEF TypeOK
      <4> QED
        BY <1>6, <4>1, <4>2 DEF BeginTraversal
    <3>3. /\ req'[c].late = req[c].late /\ req'[c].free = req[c].free
          /\ req'[c].where = w /\ req'[c].app = b /\ req'[c].todo = S
      BY <1>0, <3>2 DEF Request
    <3>4. req[c].free \subseteq App
      BY <1>0 DEF Request
    <3> QED
      BY <1>0, <2>1, <3>1, <3>2, <3>3, <3>4 DEF Sound, Started, HasRoom
  <2> QED
    BY <2>2, <2>3
<1>7. ASSUME NEW d \in Client, get_clients(d) PROVE Sound(c)'
  <2>1. UNCHANGED <<listening, clients>>
    BY <1>7 DEF get_clients, mgrVars
  <2>2. CASE c # d
    BY <1>0, <1>7, <2>1, <2>2, SoundSame DEF get_clients, TypeOK
  <2>3. CASE c = d
    <3>1. PICK w, b, S :
            /\ req'[c] = [req[c] EXCEPT !.where = w, !.app = b, !.todo = S]
            /\ \/ w = "address"
               \/ w = "full" /\ req[c].todo = {} /\ ~HasRoom(clients[req[c].app])
               \/ w = "asking" /\ b \in req[c].todo /\ S = req[c].todo \ {b}
                  /\ ~HasRoom(clients[req[c].app])
      <4>1. ASSUME NEW w \in {"address", "full"}, req' = [req EXCEPT ![d].where = w]
            PROVE  req'[c] = [req[c] EXCEPT !.where = w, !.app = req[c].app, !.todo = req[c].todo]
        BY <1>0, <2>3, <4>1 DEF TypeOK, Request
      <4>2. ASSUME NEW b \in req[c].todo, req[c].where = "asking",
                   req' = [req EXCEPT ![d].app = b, ![d].todo = @ \ {b}]
            PROVE  req'[c] = [req[c] EXCEPT !.where = "asking", !.app = b, !.todo = req[c].todo \ {b}]
        BY <1>0, <2>3, <4>2 DEF TypeOK, Request
      <4> QED
        <5>1. \/ req' = [req EXCEPT ![d].where = "address"]
              \/ /\ ~HasRoom(clients[req[d].app]) /\ req[d].where = "asking"
                 /\ \E b \in req[d].todo : req' = [req EXCEPT ![d].app = b, ![d].todo = @ \ {b}]
              \/ /\ ~HasRoom(clients[req[d].app]) /\ req[d].todo = {}
                 /\ req' = [req EXCEPT ![d].where = "full"]
          BY <1>7 DEF get_clients
        <5>2. CASE req' = [req EXCEPT ![d].where = "address"]
          BY <4>1, <5>2
        <5>3. CASE /\ ~HasRoom(clients[req[d].app]) /\ req[d].where = "asking"
                   /\ \E b \in req[d].todo : req' = [req EXCEPT ![d].app = b, ![d].todo = @ \ {b}]
          BY <2>3, <4>2, <5>3
        <5>4. CASE /\ ~HasRoom(clients[req[d].app]) /\ req[d].todo = {}
                   /\ req' = [req EXCEPT ![d].where = "full"]
          BY <2>3, <4>1, <5>4
        <5> QED
          BY <5>1, <5>2, <5>3, <5>4
    <3>2. /\ req'[c].late = req[c].late /\ req'[c].free = req[c].free
          /\ req'[c].where = w /\ req'[c].app = b /\ req'[c].todo = S
      BY <1>0, <3>1 DEF Request
    <3>3. req[c].where = "asking"
      BY <1>7, <2>3 DEF get_clients
    <3> QED
      BY <1>0, <2>1, <3>1, <3>2, <3>3 DEF Sound, Started
  <2> QED
    BY <2>2, <2>3
<1>8. ASSUME NEW d \in Client, CallBaseAppMgr(d) \/ Ask(d, Answer("errmsg")),
             UNCHANGED <<listening, clients>>
      PROVE  Sound(c)'
  <2>1. CASE c # d
    BY <1>0, <1>8, <2>1, SoundSame DEF CallBaseAppMgr, Ask, TypeOK
  <2>2. CASE c = d /\ Ask(d, Answer("errmsg"))
    <3>1. req'[c] = Answer("errmsg")
      BY <2>2 DEF Ask, TypeOK
    <3> QED
      BY <1>8, <3>1 DEF Sound, Answer, NoRequest, Started
  <2>3. CASE c = d /\ CallBaseAppMgr(d)
    <3>1. PICK S : /\ S = {b \in App : HasRoom(clients[b])}
                   /\ req'[c] = [NoRequest EXCEPT !.where = "sent", !.late = Started, !.free = S]
      BY <2>3 DEF CallBaseAppMgr, Ask, TypeOK
    <3>2. req'[c].late = Started /\ req'[c].free = S /\ req'[c].where = "sent"
      BY <3>1 DEF NoRequest
    <3>3. \A b \in S : HasRoom(clients[b])'
      BY <1>8, <3>1 DEF HasRoom
    <3> QED
      BY <1>8, <3>2, <3>3 DEF Sound, Started
  <2> QED
    BY <1>8, <2>1, <2>2, <2>3
<1>9. ASSUME NEW d \in Client, NEW a \in Account, NEW p \in Passwd,
             login(d, a, p) \/ register(d, a, p)
      PROVE  Sound(c)'
  BY <1>8, <1>9 DEF login, register, mgrVars
<1>10. CASE UNCHANGED vars
  BY <1>0, <1>10, SoundSame DEF vars
<1> QED
  BY <1>1, <1>2, <1>3, <1>4, <1>5, <1>6, <1>7, <1>9, <1>10 DEF Next
-----------------------------------------------------------------------------
\* The records there are, stored or on their way.
All == db \o insert

\* Every step keeps the accounts unique: an account is entered when it has no record,
\* the database only gets what was on its way, and a restart loads what was stored.
LEMMA RecordStep == TypeOK /\ Startup /\ OneRecord /\ [Next]_vars => OneRecord'
<1> SUFFICES ASSUME TypeOK, Startup, OneRecord, [Next]_vars PROVE OneRecord'
  OBVIOUS
<1> USE LoginAssumption
<1>0. /\ All \in Seq(Record)
      /\ Len(All) = Len(db) + Len(insert)
      /\ \A i \in 1..Len(db) : All[i] = db[i]
  BY DEF TypeOK, All
<1>1. ASSUME UNCHANGED <<account_tbl, stage>>, All' = All PROVE OneRecord'
  BY <1>1 DEF OneRecord, All
<1>2. ASSUME UNCHANGED accountVars, stage' # "down" => stage # "down" PROVE OneRecord'
  BY <1>2 DEF OneRecord, accountVars
<1>3. CASE StartLogin
  <2>1. /\ All = db
        /\ \A i, j \in 1..Len(db) : db[i].account = db[j].account => i = j
    BY <1>3, DbUnique DEF StartLogin, All
  <2>2. All' = All /\ account_tbl' = load_all
    BY <1>3 DEF StartLogin, All
  <2>3. \A a \in Account, p \in Passwd :
           load_all[a] = p <=> \E i \in 1..Len(db) : db[i] = [account |-> a, passwd |-> p]
    BY <2>1, LoadAll DEF TypeOK
  <2> QED
    BY <2>1, <2>2, <2>3 DEF OneRecord, All
<1>4. CASE RegisterName \/ InitBaseAppMgr
  BY <1>2, <1>4 DEF RegisterName, InitBaseAppMgr
<1>5. CASE Insert
  <2>1. All' = All
    BY <1>5 DEF Insert, All, TypeOK
  <2> QED
    BY <1>1, <1>5, <2>1 DEF Insert, mgrVars
<1>6. CASE Stop
  <2>1. All' = db
    BY <1>6 DEF Stop, All, TypeOK
  <2>2. \A i, j \in 1..Len(db) : db[i].account = db[j].account => i = j
    <3>1. \A i, j \in 1..Len(All) : All[i].account = All[j].account => i = j
      BY DEF OneRecord, All
    <3>2. \A i \in 1..Len(db) : i \in 1..Len(All)
      <4> HIDE DEF All
      <4> QED
        BY <1>0 DEF TypeOK
    <3> HIDE DEF All
    <3> QED
      BY <1>0, <3>1, <3>2
  <2> QED
    BY <1>6, <2>1, <2>2 DEF OneRecord, All, Stop
<1>7. ASSUME NEW b \in App, CreateBaseApp(b) \/ StartBaseApp(b) \/ CountClient(b)
      PROVE  OneRecord'
  BY <1>2, <1>7 DEF CreateBaseApp, StartBaseApp, CountClient, mgrVars
<1>8. ASSUME NEW c \in Client, BeginTraversal(c) \/ get_clients(c) PROVE OneRecord'
  BY <1>2, <1>8 DEF BeginTraversal, get_clients, mgrVars
<1>9. ASSUME NEW c \in Client, NEW a \in Account, NEW p \in Passwd, login(c, a, p)
      PROVE  OneRecord'
  BY <1>2, <1>9 DEF login, mgrVars
<1>10. ASSUME NEW c \in Client, NEW a \in Account, NEW p \in Passwd, register(c, a, p)
       PROVE  OneRecord'
  <2>1. CASE UNCHANGED accountVars
    BY <1>2, <1>10, <2>1 DEF register, mgrVars
  <2>2. CASE add_account(a, p) /\ account_tbl[a] = None
    <3> DEFINE n == Len(All)
               rec == [account |-> a, passwd |-> p]
    <3>1. All' = Append(All, rec)
      BY <2>2 DEF add_account, All, TypeOK
    <3>2. rec \in Record
      BY DEF Record
    <3>3. /\ n \in Nat /\ Len(All') = n + 1 /\ All'[n + 1] = rec
          /\ \A i \in 1..n : All'[i] = All[i] /\ All[i] \in Record
      BY <1>0, <3>1, <3>2
    \* The account is new in every record.
    <3>4. \A i \in 1..n : All[i].account # a
      <4> SUFFICES ASSUME NEW i \in 1..n, All[i].account = a PROVE FALSE
        OBVIOUS
      <4>1. All[i].passwd \in Passwd /\ All[i] = [account |-> a, passwd |-> All[i].passwd]
        BY <3>3 DEF Record
      <4>2. account_tbl[a] = All[i].passwd
        BY <1>10, <4>1 DEF OneRecord, All, register
      <4> QED
        BY <2>2, <4>1, <4>2
    <3>5. /\ \A i, j \in 1..n : All[i].account = All[j].account => i = j
          /\ \A d \in Account, q \in Passwd : account_tbl[d] = q <=>
                \E i \in 1..n : All[i] = [account |-> d, passwd |-> q]
      BY <1>10 DEF OneRecord, All, register
    <3>6. account_tbl' = [account_tbl EXCEPT ![a] = p]
      BY <2>2 DEF add_account
    <3> HIDE DEF n
    <3>7. \A i, j \in 1..(n + 1) : All'[i].account = All'[j].account => i = j
      <4>1. \A i \in 1..(n + 1) : i \in 1..n \/ i = n + 1
        BY <3>3
      <4>2. rec.account = a
        OBVIOUS
      <4> HIDE DEF rec
      <4> QED
        BY <3>3, <3>4, <3>5, <4>1, <4>2
    <3>8. ASSUME NEW d \in Account, NEW q \in Passwd
          PROVE  account_tbl'[d] = q <=>
                    \E i \in 1..(n + 1) : All'[i] = [account |-> d, passwd |-> q]
      <4>1. CASE d = a
        <5>1. account_tbl'[d] = p
          BY <3>6, <4>1 DEF TypeOK
        <5>2. \A i \in 1..n : All'[i] # [account |-> d, passwd |-> q]
          BY <3>3, <3>4, <4>1
        <5>3. All'[n + 1] = [account |-> d, passwd |-> q] <=> p = q
          BY <3>3, <4>1
        <5> QED
          BY <3>3, <5>1, <5>2, <5>3
      <4>2. CASE d # a
        <5>1. account_tbl'[d] = account_tbl[d]
          BY <3>6, <4>2 DEF TypeOK
        <5>2. All'[n + 1] # [account |-> d, passwd |-> q]
          BY <3>3, <4>2
        <5> QED
          BY <3>3, <3>5, <5>1, <5>2
      <4> QED
        BY <4>1, <4>2
    <3> QED
      BY <3>3, <3>7, <3>8 DEF OneRecord, All
  <2> QED
    BY <1>10, <2>1, <2>2 DEF register
<1>11. CASE UNCHANGED vars
  BY <1>2, <1>11 DEF vars, accountVars
<1> QED
  BY <1>3, <1>4, <1>5, <1>6, <1>7, <1>8, <1>9, <1>10, <1>11 DEF Next
-----------------------------------------------------------------------------
LEMMA InvStep == Inv /\ [Next]_vars => Inv'
BY TypeStep, StartupStep, SoundStep, RecordStep DEF Inv

LEMMA Invariance == Spec => []Inv
<1>1. Init => Inv
  BY InvInit
<1>2. Inv /\ [Next]_vars => Inv'
  BY InvStep
<1> QED
  BY <1>1, <1>2, PTL DEF Spec

\* account_mgr:register and load_all: however registrations, the inserts on their way,
\* stops and restarts are interleaved, no account has two records and account_tbl says
\* what database and inserts say.
THEOREM AccountsUnique == Spec => []OneRecord
<1>1. Inv => OneRecord
  BY DEF Inv
<1> QED
  BY <1>1, Invariance, PTL

\* CMD.get_base_app_addr: a request made once the server is up is refused only if every
\* base_app was full at some moment since, whatever the traversal met.
THEOREM RefusedOnlyIfFull == Spec => []FullOnlyIfFull
<1>1. Inv => FullOnlyIfFull
  BY DEF Inv, Sound, FullOnlyIfFull
<1> QED
  BY <1>1, Invariance, PTL
=============================================================================
