------------------------------ MODULE Session ------------------------------
(***************************************************************************)
(* The runtime of a Lua service (lualib/skynet.lua): coroutines that wait   *)
(* for answers, timers and wakeups under session ids, the queues that are   *)
(* worked off whenever a coroutine yields, and what is told to the services *)
(* that wait for this one when a handler fails or the service exits.        *)
(*                                                                         *)
(* The handlers of the service are arbitrary: the running coroutine calls,  *)
(* sleeps, waits, wakes, forks, answers, fails or exits in any order.  Of   *)
(* the services it talks to (Peer), only what they send is modelled.        *)
(* A step is what happens between two points where control changes hands.  *)
(***************************************************************************)
EXTENDS Naturals, Sequences, FiniteSets, SequencesExt

CONSTANTS Co,           \* bound: coroutines at a time
          Peer,         \* other services
          SessionId,    \* session ids of this service, 1..2^31-1 in the code
          ReqSession,   \* session ids of the requests of a peer; 0: no answer wanted
          None, BREAK,  \* nil and "BREAK"
          MaxChan,      \* bound: messages on their way from a peer
          MaxDepth,     \* bound: nested suspends
          MaxWatch      \* bound: watching_service, which a failing handler leaves too high

ASSUME SessionAssumption ==
    /\ None \notin Co \cup Peer \cup SessionId \cup ReqSession \cup {BREAK}
    /\ BREAK \notin Co
    /\ IsFiniteSet(SessionId) /\ 0 \notin SessionId
    /\ ReqSession \subseteq Nat
    /\ MaxChan \in Nat /\ MaxDepth \in Nat /\ MaxWatch \in Nat

VARIABLES
    \* Where control is: no message is being handled; cur is running; suspend has
    \* dispatch_wakeup, or dispatch_error_queue, to call; dispatch_message runs the
    \* forks; the service has gone.
    phase, cur,
    pending,                    \* Nat: outer suspends with dispatch_error_queue to call
    exited,                     \* skynet.exit has been called
    st,                         \* [Co -> CoState]
    session_id_coroutine,       \* [SessionId -> Co or BREAK or None]
    watching_session,           \* [SessionId -> Peer or None]
    session_coroutine_id,       \* [Co -> ReqSession or None]
    session_coroutine_address,  \* [Co -> Peer or None]
    watching_service,           \* [Peer -> Nat], 0 for nil
    unresponse,                 \* SUBSET (Peer \X ReqSession)
    sleep_session,              \* [Co -> SessionId or None]; the token is the coroutine
    wakeup_queue, error_queue,  \* Seq(Co), Seq(SessionId)
    fork_queue,                 \* SUBSET Co: next() finds them in any order
    \* The environment.
    alive,      \* SUBSET Peer
    asked,      \* [Peer -> SUBSET SessionId]: calls the peer has not answered
    chan,       \* [Peer -> Seq(Message)]: what the peer has sent
    timers,     \* SUBSET SessionId: timeouts that have not fired
    owed,       \* [Peer -> SUBSET ReqSession]: requests of the peer without an answer
    twice,      \* an answer was sent, before or by skynet.exit, to a request that had one
    lost        \* history: requests dropped by skynet.response, or taken after skynet.exit

control == <<phase, cur, pending, exited>>
requests == <<session_coroutine_id, session_coroutine_address, watching_service, unresponse>>
sessions == <<session_id_coroutine, watching_session, sleep_session>>
queues == <<wakeup_queue, error_queue, fork_queue>>
peers == <<alive, asked, chan, timers>>
answers == <<owed, twice, lost>>
vars == <<control, st, requests, sessions, queues, peers, answers>>

\* A coroutine that does not exist, is in coroutine_pool, waits to be started by
\* dispatch_message or by a timer, has yielded in call, sleep or wait, or runs.
CoState == {"none", "pool", "fork", "timeout", "call", "sleep", "wait", "run"}
Message == [type : {"response"}, session : SessionId]
             \cup [type : {"error"}, session : SessionId \cup {0}]
             \cup [type : {"request"}, session : ReqSession]

Each(S, v) == [x \in S |-> v]

Init ==
    /\ phase = "idle" /\ cur = None /\ pending = 0 /\ exited = FALSE
    /\ st = Each(Co, "none")
    /\ session_id_coroutine = Each(SessionId, None) /\ watching_session = Each(SessionId, None)
    /\ session_coroutine_id = Each(Co, None) /\ session_coroutine_address = Each(Co, None)
    /\ watching_service = Each(Peer, 0) /\ unresponse = {}
    /\ sleep_session = Each(Co, None)
    /\ wakeup_queue = <<>> /\ error_queue = <<>> /\ fork_queue = {}
    /\ alive = Peer /\ asked = Each(Peer, {}) /\ chan = Each(Peer, <<>>) /\ timers = {}
    /\ owed = Each(Peer, {}) /\ twice = FALSE /\ lost = {}
-----------------------------------------------------------------------------
\* co_create: a coroutine of the pool, as it was left there, or a new one.
Fresh == {co \in Co : st[co] \in {"none", "pool"}}

\* newsession: the ids wrap around.  Assumed: an id comes again only when nothing of
\* its last use is left, here or on the way.
Unused == {s \in SessionId :
             /\ session_id_coroutine[s] = None
             /\ s \notin timers
             /\ ~Contains(error_queue, s)
             /\ \A p \in Peer : /\ s \notin asked[p]
                                /\ \A i \in 1..Len(chan[p]) :
                                      chan[p][i].type = "request" \/ chan[p][i].session # s}

release_watching(p) ==
    watching_service' = [watching_service EXCEPT ![p] = IF @ > 0 THEN @ - 1 ELSE 0]

\* Answers to a set of requests <<peer, session>>.  Nobody takes those to session 0
\* or to a peer that has gone.
Answer(R) ==
    /\ owed' = [p \in Peer |-> owed[p] \ {r[2] : r \in {q \in R : q[1] = p}}]
    /\ twice' = \/ twice
                \/ ~exited /\ \E r \in R : r[1] \in alive /\ r[2] # 0 /\ r[2] \notin owed[r[1]]
    /\ UNCHANGED lost

\* coroutine_yield "SUSPEND": suspend goes on with dispatch_wakeup.
Suspend == /\ phase' = "wakeup" /\ cur' = None
           /\ UNCHANGED <<pending, exited>>

\* A suspend has done its work: the one around it has dispatch_error_queue to call,
\* or dispatch_message goes on with the forks.
Return == /\ cur' = None
          /\ IF pending > 0
             THEN phase' = "error" /\ pending' = pending - 1
             ELSE phase' = "forks" /\ UNCHANGED pending

\* coroutine_resume(co): what stands behind the yield is executed.
Resume(co) ==
    /\ phase' = "run" /\ cur' = co
    /\ st' = [st EXCEPT ![co] = "run"]
    /\ UNCHANGED exited
-----------------------------------------------------------------------------
Running == phase = "run"

\* Bound: handlers that run after an exit start no coroutine and no timer, which would
\* fire too late to be heard.
Starting == Running /\ ~exited

Yields(s, how) ==
    /\ session_id_coroutine' = [session_id_coroutine EXCEPT ![s] = cur]
    /\ st' = [st EXCEPT ![cur] = how]
    /\ Suspend
    /\ UNCHANGED <<requests, queues, answers>>

\* skynet.call; to a service that has gone it raises an error at once.
call(p) ==
    /\ Running /\ p \in alive
    /\ \E s \in Unused :
         /\ watching_session' = [watching_session EXCEPT ![s] = p]
         /\ asked' = [asked EXCEPT ![p] = @ \cup {s}]
         /\ Yields(s, "call")
    /\ UNCHANGED <<sleep_session, alive, chan, timers>>

sleep ==
    /\ Starting
    /\ \E s \in Unused :
         /\ sleep_session' = [sleep_session EXCEPT ![cur] = s]
         /\ timers' = timers \cup {s}
         /\ Yields(s, "sleep")
    /\ UNCHANGED <<watching_session, alive, asked, chan>>

wait ==
    /\ Running
    /\ \E s \in Unused :
         /\ sleep_session' = [sleep_session EXCEPT ![cur] = s]
         /\ Yields(s, "wait")
    /\ UNCHANGED <<watching_session, peers>>

\* skynet.wakeup.  Assumed of the services: no token is woken twice for one sleep
\* (dispatch_wakeup would drop it and leave the next one waiting).
wakeup(token) ==
    /\ Running /\ pending < MaxDepth
    /\ sleep_session[token] # None
    /\ ~Contains(wakeup_queue, token)
    /\ wakeup_queue' = Append(wakeup_queue, token)
    /\ UNCHANGED <<control, st, requests, sessions, error_queue, fork_queue, peers, answers>>

fork ==
    /\ Starting
    /\ \E co \in Fresh :
         /\ fork_queue' = fork_queue \cup {co}
         /\ st' = [st EXCEPT ![co] = "fork"]
    /\ UNCHANGED <<control, requests, sessions, wakeup_queue, error_queue, peers, answers>>

timeout ==
    /\ Starting
    /\ \E co \in Fresh, s \in Unused :
         /\ session_id_coroutine' = [session_id_coroutine EXCEPT ![s] = co]
         /\ timers' = timers \cup {s}
         /\ st' = [st EXCEPT ![co] = "timeout"]
    /\ UNCHANGED <<control, requests, watching_session, sleep_session, queues, alive, asked, chan,
                   answers>>

\* The request the running coroutine has still to answer.
Mine == <<session_coroutine_address[cur], session_coroutine_id[cur]>>

\* Faulty variant: the session is not cleared.
ret_keeps ==
    /\ Running /\ session_coroutine_id[cur] # None
    /\ Answer({Mine})
    /\ UNCHANGED <<control, st, requests, sessions, queues, peers>>

\* skynet.ret; without a session it raises an error.
ret ==
    /\ Running /\ session_coroutine_id[cur] # None
    /\ session_coroutine_id' = [session_coroutine_id EXCEPT ![cur] = None]
    /\ Answer({Mine})
    /\ UNCHANGED <<control, st, session_coroutine_address, watching_service, unresponse,
                   sessions, queues, peers>>

\* skynet.response: the answer is left for later.  The session is cleared before
\* watching_service is counted up; where that is nil the error loses the request.
response ==
    LET p == session_coroutine_address[cur]
    IN  /\ Running /\ session_coroutine_id[cur] # None
        /\ session_coroutine_id' = [session_coroutine_id EXCEPT ![cur] = None]
        /\ IF watching_service[p] > 0
           THEN /\ watching_service' = [watching_service EXCEPT ![p] = @ + 1]
                /\ unresponse' = unresponse \cup {Mine}
                /\ UNCHANGED lost
           ELSE /\ lost' = lost \cup ({Mine} \ (Peer \X {0}))
                /\ UNCHANGED <<watching_service, unresponse>>
        /\ UNCHANGED <<control, st, session_coroutine_address, sessions, queues, peers,
                       owed, twice>>

\* The function that skynet.response has returned is called, by any coroutine.
respond(r) ==
    /\ Running /\ r \in unresponse
    /\ unresponse' = unresponse \ {r}
    /\ release_watching(r[1])
    /\ Answer({r})
    /\ UNCHANGED <<control, st, session_coroutine_id, session_coroutine_address, sessions,
                   queues, peers>>

\* The function of the coroutine returns, with its request answered.  The address is
\* left as it is and is found again by the next user of the coroutine.
Finish ==
    /\ Running /\ session_coroutine_id[cur] \in {None, 0}
    /\ IF session_coroutine_address[cur] # None
       THEN /\ release_watching(session_coroutine_address[cur])
            /\ session_coroutine_id' = [session_coroutine_id EXCEPT ![cur] = None]
       ELSE UNCHANGED <<watching_service, session_coroutine_id>>
    /\ st' = [st EXCEPT ![cur] = "pool"]
    /\ Suspend
    /\ UNCHANGED <<session_coroutine_address, unresponse, sessions, queues, peers, answers>>

\* Faulty variant: no fork goes on with the queues.
RaiseOnly ==
    /\ Running
    /\ IF session_coroutine_id[cur] \in {None, 0} THEN UNCHANGED answers ELSE Answer({Mine})
    /\ session_coroutine_id' = [session_coroutine_id EXCEPT ![cur] = None]
    /\ session_coroutine_address' = [session_coroutine_address EXCEPT ![cur] = None]
    /\ st' = [st EXCEPT ![cur] = "none"]
    /\ phase' = "forks" /\ cur' = None /\ pending' = 0
    /\ UNCHANGED <<exited, watching_service, unresponse, sessions, queues, peers>>

\* An error nobody catches: the caller is told, and the error leaves all suspends at
\* once; a fork that does nothing will go on with the queues.
Raise ==
    /\ Running
    /\ IF session_coroutine_id[cur] \in {None, 0} THEN UNCHANGED answers ELSE Answer({Mine})
    /\ session_coroutine_id' = [session_coroutine_id EXCEPT ![cur] = None]
    /\ session_coroutine_address' = [session_coroutine_address EXCEPT ![cur] = None]
    /\ \E co \in Fresh \cup {cur} :
         /\ fork_queue' = fork_queue \cup {co}
         /\ st' = [st EXCEPT ![cur] = "none", ![co] = "fork"]
    /\ phase' = "forks" /\ cur' = None /\ pending' = 0
    /\ UNCHANGED <<exited, watching_service, unresponse, sessions, wakeup_queue, error_queue, peers>>

\* The requests that coroutines have still to answer.
Held == {<<session_coroutine_address[co], session_coroutine_id[co]>> :
            co \in {c \in Co : session_coroutine_id[c] \notin {None, 0}}}

\* Faulty variant: the answers left for later are forgotten.
exit_forgets ==
    /\ Running
    /\ Answer(Held)
    /\ exited' = TRUE
    /\ fork_queue' = {}
    /\ unresponse' = {}
    /\ Return
    /\ UNCHANGED <<st, session_coroutine_id, session_coroutine_address, watching_service, sessions,
                   wakeup_queue, error_queue, peers>>

\* All requests of the services that this one is calling: skynet.exit sends them an error
\* with session 0, which fails whatever they wait for here.
OfCalled == {r \in Peer \X ReqSession :
                r[2] \in owed[r[1]] /\ \E s \in SessionId : watching_session[s] = r[1]}

\* skynet.exit: whoever waits for this service is told, and the coroutine never
\* comes back from its yield.
exit ==
    /\ Running
    /\ Answer(unresponse \cup Held \cup OfCalled)
    /\ exited' = TRUE
    /\ fork_queue' = {}
    /\ unresponse' = {}
    /\ watching_service' = [p \in Peer |->
          LET n == Cardinality({r \in unresponse : r[1] = p})
          IN  IF watching_service[p] > n THEN watching_service[p] - n ELSE 0]
    /\ st' = [co \in Co |-> IF co = cur \/ co \in fork_queue THEN "none" ELSE st[co]]
    /\ session_coroutine_id' = [session_coroutine_id EXCEPT ![cur] = None]
    /\ session_coroutine_address' = [co \in Co |-> IF co = cur \/ co \in fork_queue THEN None
                                                   ELSE session_coroutine_address[co]]
    /\ Return
    /\ UNCHANGED <<sessions, wakeup_queue, error_queue, peers>>
-----------------------------------------------------------------------------
\* dispatch_wakeup takes one token, and does nothing more if it is stale.  After the
\* resumed coroutine has yielded, dispatch_error_queue is still to be called here.
dispatch_wakeup ==
    LET token == Head(wakeup_queue)
        s == sleep_session[token]
        found == wakeup_queue # <<>> /\ s # None
    IN  /\ phase = "wakeup"
        /\ wakeup_queue' = IF wakeup_queue = <<>> THEN <<>> ELSE Tail(wakeup_queue)
        /\ \/ /\ ~found
              /\ phase' = "error"
              /\ UNCHANGED <<cur, pending, exited, st, sessions>>
           \/ /\ found
              /\ Resume(token)
              /\ session_id_coroutine' = [session_id_coroutine EXCEPT
                     ![s] = IF st[token] = "sleep" THEN BREAK ELSE None]
              /\ sleep_session' = [sleep_session EXCEPT ![token] = None]
              /\ pending' = pending + 1
              /\ UNCHANGED watching_session
        /\ UNCHANGED <<requests, error_queue, fork_queue, peers, answers>>

\* dispatch_error_queue.  After an exit the queue is no longer worked off to its end,
\* and a session may stand in it twice: resuming nobody is an error that leaves all
\* suspends.
dispatch_error_queue ==
    /\ phase = "error"
    /\ \/ /\ error_queue = <<>>
          /\ Return
          /\ UNCHANGED <<exited, st, sessions, error_queue>>
       \/ /\ error_queue # <<>>
          /\ error_queue' = Tail(error_queue)
          /\ LET s == Head(error_queue)
             IN  \/ /\ session_id_coroutine[s] \in Co
                    /\ Resume(session_id_coroutine[s])
                    /\ session_id_coroutine' = [session_id_coroutine EXCEPT ![s] = None]
                    /\ watching_session' = [watching_session EXCEPT ![s] = None]
                    /\ UNCHANGED <<pending, sleep_session>>
                 \/ /\ session_id_coroutine[s] \notin Co
                    /\ phase' = "forks" /\ cur' = None /\ pending' = 0
                    /\ UNCHANGED <<exited, st, sessions>>
    /\ UNCHANGED <<requests, wakeup_queue, fork_queue, peers, answers>>

\* The loop of dispatch_message over fork_queue, and its end.
RunForks ==
    /\ phase = "forks"
    /\ \/ \E co \in fork_queue :
             /\ Resume(co)
             /\ fork_queue' = fork_queue \ {co}
             /\ UNCHANGED pending
       \/ /\ fork_queue = {}
          /\ phase' = "idle"
          /\ UNCHANGED <<cur, pending, exited, st, fork_queue>>
    /\ UNCHANGED <<requests, sessions, wakeup_queue, error_queue, peers, answers>>

\* The service has exited and the worker is done with it, which may have gone on with
\* further messages (it takes several at a time): the context is deleted, and with it
\* the Lua state.  Nobody hears the timers any more, and requests taken after the exit
\* are lost.
Gone ==
    /\ phase = "idle" /\ exited
    /\ phase' = "gone"
    /\ lost' = lost \cup {r \in Held \cup unresponse : r[2] \in owed[r[1]]}
    /\ st' = Each(Co, "none")
    /\ session_id_coroutine' = Each(SessionId, None) /\ watching_session' = Each(SessionId, None)
    /\ session_coroutine_id' = Each(Co, None) /\ session_coroutine_address' = Each(Co, None)
    /\ watching_service' = Each(Peer, 0) /\ unresponse' = {}
    /\ sleep_session' = Each(Co, None)
    /\ wakeup_queue' = <<>> /\ error_queue' = <<>> /\ timers' = {}
    /\ fork_queue' = {}
    /\ UNCHANGED <<cur, pending, exited, alive, asked, chan, owed, twice>>
-----------------------------------------------------------------------------
\* Faulty variant: the session stays in the table.
TakeResponseKeeps(s) ==
    /\ session_id_coroutine[s] \in Co
    /\ LET co == session_id_coroutine[s]
       IN  Resume(co) /\ sleep_session' = [sleep_session EXCEPT ![co] = None]
    /\ watching_session' = [watching_session EXCEPT ![s] = None]
    /\ UNCHANGED <<pending, session_id_coroutine, requests, queues>>

\* An answer or a timeout of session s comes in (raw_dispatch_message): the waiting
\* coroutine goes on; one that was woken before its timeout has left "BREAK".  A
\* session nobody waits under is an error that changes nothing.
TakeResponse(s) ==
    /\ \/ /\ session_id_coroutine[s] \notin Co
          /\ UNCHANGED <<control, st, watching_session, sleep_session>>
       \/ /\ session_id_coroutine[s] \in Co
          /\ LET co == session_id_coroutine[s]
             IN  Resume(co) /\ sleep_session' = [sleep_session EXCEPT ![co] = None]
          /\ watching_session' = [watching_session EXCEPT ![s] = None]
          /\ UNCHANGED pending
    /\ session_id_coroutine' = [session_id_coroutine EXCEPT ![s] = None]
    /\ UNCHANGED <<requests, queues>>

\* A request: a coroutine is started with it.
TakeRequest(p, n) ==
    /\ watching_service[p] < MaxWatch
    /\ watching_service' = [watching_service EXCEPT ![p] = @ + 1]
    /\ \E co \in Fresh :
         /\ Resume(co)
         /\ session_coroutine_id' = [session_coroutine_id EXCEPT ![co] = n]
         /\ session_coroutine_address' = [session_coroutine_address EXCEPT ![co] = p]
    /\ UNCHANGED <<pending, unresponse, sessions, queues>>

\* The sessions an error message ends (_error_dispatch): session 0 says that the
\* peer has gone.
Failed(p, s) ==
    {t \in SessionId : IF s = 0 THEN watching_session[t] = p
                                ELSE t = s /\ watching_session[s] # None}

\* _error_dispatch runs in a coroutine of its own, which goes back to the pool.
TakeError(p, s) ==
    /\ \E q \in [1..Cardinality(Failed(p, s)) -> Failed(p, s)] :
         /\ \A i, j \in DOMAIN q : q[i] = q[j] => i = j
         /\ error_queue' = error_queue \o q
    /\ \E co \in Fresh :
         /\ st' = [st EXCEPT ![co] = "pool"]
         /\ session_coroutine_address' = [session_coroutine_address EXCEPT ![co] = p]
    /\ Suspend
    /\ UNCHANGED <<session_coroutine_id, watching_service, unresponse, sessions, wakeup_queue,
                   fork_queue>>

\* The next message of p is dispatched.
Dispatch(p) ==
    /\ phase = "idle" /\ chan[p] # <<>>
    /\ LET m == Head(chan[p])
       IN  \/ m.type = "response" /\ TakeResponse(m.session)
           \/ m.type = "request" /\ TakeRequest(p, m.session)
           \/ m.type = "error" /\ TakeError(p, m.session)
    /\ chan' = [chan EXCEPT ![p] = Tail(@)]
    /\ UNCHANGED <<alive, asked, timers, answers>>

Timeout(s) ==
    /\ phase = "idle" /\ s \in timers
    /\ TakeResponse(s)
    /\ timers' = timers \ {s}
    /\ UNCHANGED <<alive, asked, chan, answers>>

\* The service has gone: its messages are dropped, and for each of them, a request or
\* not, drop_message sends the peer an error with session 0, which fails everything the
\* peer waits for here (Failed).
Drop(p) ==
    /\ phase = "gone" /\ chan[p] # <<>>
    /\ owed' = [owed EXCEPT ![p] = {}]
    /\ chan' = [chan EXCEPT ![p] = Tail(@)]
    /\ UNCHANGED <<control, st, requests, sessions, queues, alive, asked, timers, twice, lost>>
-----------------------------------------------------------------------------
Send(p, type, s) == chan' = [chan EXCEPT ![p] = Append(@, [type |-> type, session |-> s])]
Internal == <<control, st, requests, sessions, queues>>

\* What a peer sends while a message is being handled is noticed after that: these two
\* may as well happen then.  What is still dispatched after an exit was in the mailbox
\* before it, since the worker counts the messages it will take when it begins.
Seen == phase = "gone" \/ (phase = "idle" /\ ~exited)

\* A peer takes the session of a request again only when the request is over there (owed)
\* and no longer on its way: Drop may fail it before its own message is dropped.
PeerRequest(p) ==
    /\ Seen /\ p \in alive /\ Len(chan[p]) < MaxChan
    /\ \E n \in ReqSession \ owed[p] :
         /\ n # 0 => ~Contains(chan[p], [type |-> "request", session |-> n])
         /\ Send(p, "request", n)
         /\ owed' = [owed EXCEPT ![p] = @ \cup ({n} \ {0})]
    /\ UNCHANGED <<Internal, alive, asked, timers, twice, lost>>

\* A peer answers a call, or its handler fails, or skynet.exit answers for it.
PeerAnswer(p, s) ==
    /\ Seen /\ s \in asked[p]
    /\ \E type \in {"response", "error"} : Send(p, type, s)
    /\ asked' = [asked EXCEPT ![p] = @ \ {s}]
    /\ UNCHANGED <<Internal, alive, timers, answers>>

\* A peer that has gone drops what is in its mailbox, calls and other messages: each of
\* them comes back as an error with session 0.
PeerDrop(p) ==
    /\ Seen /\ p \notin alive /\ Len(chan[p]) < MaxChan
    /\ Send(p, "error", 0)
    /\ \E s \in asked[p] \cup {0} : asked' = [asked EXCEPT ![p] = @ \ {s}]
    /\ UNCHANGED <<Internal, alive, timers, answers>>

\* A peer exits; if it is waiting for this service, it says so with session 0.
PeerExit(p) ==
    /\ p \in alive
    /\ alive' = alive \ {p}
    /\ IF owed[p] # {} THEN Send(p, "error", 0) ELSE UNCHANGED chan
    /\ owed' = [owed EXCEPT ![p] = {}]
    /\ UNCHANGED <<Internal, asked, timers, twice, lost>>

Next == \/ sleep \/ wait \/ fork \/ timeout \/ ret \/ response \/ Finish \/ Raise \/ exit
        \/ dispatch_wakeup \/ dispatch_error_queue \/ RunForks \/ Gone
        \/ \E co \in Co : wakeup(co)
        \/ \E r \in Peer \X ReqSession : respond(r)
        \/ \E s \in SessionId : Timeout(s)
        \/ \E p \in Peer : \/ call(p) \/ Dispatch(p) \/ Drop(p) \/ PeerRequest(p) \/ PeerExit(p)
                           \/ PeerDrop(p)
                           \/ \E s \in SessionId : PeerAnswer(p, s)

Spec == Init /\ [][Next]_vars
-----------------------------------------------------------------------------
\* Between two messages nothing is left in the queues that only a yield works off,
\* however coroutines wake each other and fail on the way.
Drained == phase = "idle" /\ ~exited => wakeup_queue = <<>> /\ error_queue = <<>> /\ fork_queue = {}

\* What answers session s is on its way.
Coming(s, how) ==
    CASE how = "call" -> \/ Contains(error_queue, s)
                         \/ \E p \in Peer :
                              \/ watching_session[s] = p /\ s \in asked[p]
                              \/ \E i \in 1..Len(chan[p]) :
                                    /\ watching_session[s] = p
                                    /\ \/ chan[p][i].type # "request" /\ chan[p][i].session = s
                                       \/ chan[p][i] = [type |-> "error", session |-> 0]
      [] how \in {"sleep", "timeout"} -> s \in timers
      [] how = "wait" -> TRUE

\* A coroutine that has yielded waits under exactly one session, and what will resume
\* it is on its way: no answer or error is taken by another one or thrown away.
Resumable ==
    \A co \in Co : ~exited /\ st[co] \in {"call", "sleep", "wait", "timeout"} =>
        LET held == {s \in SessionId : session_id_coroutine[s] = co}
        IN  Cardinality(held) = 1 /\ \A s \in held : Coming(s, st[co])

\* Up to and including the exit of the service, no request is answered twice: not by
\* skynet.ret, a late response, a failing handler and skynet.exit together.
AnsweredOnce == ~twice

\* A request without an answer is in the mailbox, or in the hands of a coroutine that has
\* not ended, or left for later by skynet.response, also when handlers fail and at the
\* exit of the service, which must answer what its coroutines hold.  The exceptions are
\* the requests in lost, and the code does reach them: skynet.response clears the session
\* and then raises where watching_service is nil (skynet.lua:450 and :492), and a request that
\* is dispatched after skynet.exit may wait in a coroutine that is deleted with the
\* service.  Their callers wait for ever.
Tracked ==
    \A p \in Peer, n \in ReqSession :
        n \in owed[p] =>
            \/ \E i \in 1..Len(chan[p]) : chan[p][i] = [type |-> "request", session |-> n]
            \/ \E co \in Co : /\ session_coroutine_address[co] = p /\ session_coroutine_id[co] = n
                              /\ st[co] \in {"run", "call", "sleep", "wait"}
            \/ <<p, n>> \in unresponse
            \/ <<p, n>> \in lost
=============================================================================
