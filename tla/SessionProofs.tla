---------------------------- MODULE SessionProofs ----------------------------
(***************************************************************************)
(* Theorems about Session, for any number of coroutines, peers, sessions,  *)
(* requests and nested suspends.                                           *)
(***************************************************************************)
EXTENDS Session, SequenceTheorems, FiniteSetTheorems, TLAPS

Waiting == {"call", "sleep", "wait", "timeout"}

TypeOK ==
    /\ phase \in {"idle", "run", "wakeup", "error", "forks", "gone"}
    /\ cur \in Co \cup {None} /\ pending \in Nat
    /\ st \in [Co -> CoState]
    /\ session_id_coroutine \in [SessionId -> Co \cup {BREAK, None}]
    /\ watching_session \in [SessionId -> Peer \cup {None}]
    /\ session_coroutine_id \in [Co -> ReqSession \cup {None}]
    /\ session_coroutine_address \in [Co -> Peer \cup {None}]
    /\ unresponse \subseteq Peer \X ReqSession
    /\ sleep_session \in [Co -> SessionId \cup {None}]
    /\ wakeup_queue \in Seq(Co) /\ error_queue \in Seq(SessionId)
    /\ fork_queue \subseteq Co
    /\ alive \subseteq Peer
    /\ asked \in [Peer -> SUBSET SessionId]
    /\ chan \in [Peer -> Seq(Message)]
    /\ timers \subseteq SessionId
    /\ owed \in [Peer -> SUBSET ReqSession]

\* One coroutine runs, the one that has control.
OneRuns ==
    /\ phase = "run" => cur \in Co
    /\ \A co \in Co : st[co] = "run" <=> phase = "run" /\ co = cur
    /\ \A co \in fork_queue : st[co] = "fork"

\* A coroutine waits under a session, and no two under the same.
Sessions ==
    /\ \A s \in SessionId : session_id_coroutine[s] \in Co =>
          st[session_id_coroutine[s]] \in Waiting
    /\ \A s, t \in SessionId :
          session_id_coroutine[s] \in Co /\ session_id_coroutine[s] = session_id_coroutine[t]
             => s = t
    /\ \A co \in Co : st[co] \in Waiting => \E s \in SessionId : session_id_coroutine[s] = co

\* sleep_session and watching_session say how it waits; an error queued for a session
\* under which a coroutine waits is for a call.
Kinds ==
    /\ \A co \in Co : st[co] \in {"sleep", "wait"} <=> sleep_session[co] # None
    /\ \A co \in Co : sleep_session[co] # None =>
          session_id_coroutine[sleep_session[co]] = co
    /\ \A s \in SessionId : watching_session[s] # None <=>
          session_id_coroutine[s] \in Co /\ st[session_id_coroutine[s]] = "call"
    /\ \A s \in SessionId : Contains(error_queue, s) /\ session_id_coroutine[s] \in Co =>
          watching_session[s] # None

\* Only a coroutine that serves a request has one, and then knows who asked.
Serving == {"run", "call", "sleep", "wait"}
Requests ==
    /\ \A co \in Co : session_coroutine_id[co] # None =>
          st[co] \in Serving /\ session_coroutine_address[co] \in Peer
    /\ \A p \in Peer : 0 \notin owed[p]
    /\ phase = "gone" => exited

\* The request n of p: as a message, in the mailbox, served by a coroutine.
Req(n) == [type |-> "request", session |-> n]
Mailed(p, n) == Contains(chan[p], Req(n))
Serves(co, p, n) == session_coroutine_address[co] = p /\ session_coroutine_id[co] = n

\* x is in the queue q at most once.
Once(q, x) == \A i, j \in 1..Len(q) : q[i] = x /\ q[j] = x => i = j

\* Until the service exits a request is in one place only, and the peer waits for it.
PlaceOf(p, n) ==
    /\ Mailed(p, n) => /\ n \in owed[p]
                       /\ <<p, n>> \notin unresponse
                       /\ \A co \in Co : ~Serves(co, p, n)
    /\ Once(chan[p], Req(n))
    /\ \A co \in Co : Serves(co, p, n) => /\ n \in owed[p]
                                          /\ <<p, n>> \notin unresponse
                                          /\ \A c \in Co : Serves(c, p, n) => c = co
    /\ <<p, n>> \in unresponse => n \in owed[p]
OnePlace == \A p \in alive, n \in ReqSession \ {0} : PlaceOf(p, n)

Shape == OneRuns /\ Sessions /\ Kinds

LEMMA ShapeInit == Init => TypeOK /\ Shape /\ Requests
<1> SUFFICES ASSUME Init PROVE TypeOK /\ Shape /\ Requests
  OBVIOUS
<1> USE SessionAssumption
<1>1. TypeOK
  BY DEF Init, TypeOK, Each, CoState
<1>2. Shape
  BY DEF Init, Shape, OneRuns, Sessions, Kinds, Each, Waiting, Contains
<1>3. Requests
  BY DEF Init, Requests, Each
<1> QED
  BY <1>1, <1>2, <1>3
-----------------------------------------------------------------------------
\* A queue after its first element is taken.
LEMMA Pop == ASSUME NEW S, NEW q \in Seq(S), q # <<>>
             PROVE  /\ Head(q) \in S /\ Tail(q) \in Seq(S)
                    /\ \A x : Contains(q, x) <=> x = Head(q) \/ Contains(Tail(q), x)
                    /\ \A x : Once(q, x) => Once(Tail(q), x)
                    /\ Once(q, Head(q)) => ~Contains(Tail(q), Head(q))
<1> DEFINE r == Tail(q)
<1>1. /\ Head(q) \in S /\ r \in Seq(S) /\ Head(q) = q[1]
      /\ Len(q) \in Nat /\ Len(q) > 0 /\ Len(r) = Len(q) - 1
      /\ \A i \in 1..Len(r) : r[i] = q[i + 1]
  OBVIOUS
<1> HIDE DEF r
<1>2. \A i \in 1..Len(r) : i + 1 \in 1..Len(q) /\ i + 1 # 1
  BY <1>1
<1>3. \A i \in 1..Len(q) : i = 1 \/ (i - 1 \in 1..Len(r) /\ r[i - 1] = q[i])
  BY <1>1
<1>4. ASSUME NEW x PROVE Contains(q, x) <=> x = Head(q) \/ Contains(r, x)
  <2>1. ASSUME Contains(q, x), x # Head(q) PROVE Contains(r, x)
    <3>1. PICK i \in 1..Len(q) : q[i] = x
      BY <2>1 DEF Contains
    <3> QED
      BY <1>1, <1>3, <2>1, <3>1 DEF Contains
  <2>2. ASSUME Contains(r, x) PROVE Contains(q, x)
    BY <1>1, <1>2, <2>2 DEF Contains
  <2>3. 1 \in 1..Len(q)
    BY <1>1
  <2>4. Contains(q, Head(q))
    BY <1>1, <2>3 DEF Contains
  <2> QED
    BY <2>1, <2>2, <2>4
<1>5. ASSUME NEW x, Once(q, x) PROVE Once(r, x)
  BY <1>1, <1>2, <1>5 DEF Once
<1>6. ASSUME Once(q, Head(q)) PROVE ~Contains(r, Head(q))
  BY <1>1, <1>2, <1>6 DEF Once, Contains
<1> QED
  BY <1>1, <1>4, <1>5, <1>6 DEF r

\* A queue after an element is put at its end.
LEMMA Push == ASSUME NEW S, NEW q \in Seq(S), NEW e \in S
              PROVE  /\ Append(q, e) \in Seq(S)
                     /\ \A x : Contains(Append(q, e), x) <=> x = e \/ Contains(q, x)
                     /\ \A x : Once(q, x) /\ (x = e => ~Contains(q, x)) => Once(Append(q, e), x)
<1> DEFINE r == Append(q, e)
<1>1. /\ r \in Seq(S) /\ Len(q) \in Nat /\ Len(r) = Len(q) + 1
      /\ r[Len(q) + 1] = e
      /\ \A i \in 1..Len(q) : r[i] = q[i]
  OBVIOUS
<1> HIDE DEF r
<1>2. \A i \in 1..Len(r) : i \in 1..Len(q) \/ i = Len(q) + 1
  BY <1>1
<1>3. (\A i \in 1..Len(q) : i \in 1..Len(r)) /\ Len(q) + 1 \in 1..Len(r)
  BY <1>1
<1>4. ASSUME NEW x PROVE Contains(r, x) <=> x = e \/ Contains(q, x)
  BY <1>1, <1>2, <1>3 DEF Contains
<1>5. ASSUME NEW x, Once(q, x), x = e => ~Contains(q, x) PROVE Once(r, x)
  <2> SUFFICES ASSUME NEW i \in 1..Len(r), NEW j \in 1..Len(r), r[i] = x, r[j] = x
               PROVE  i = j
    BY DEF Once
  <2>1. CASE i \in 1..Len(q) /\ j \in 1..Len(q)
    BY <1>1, <1>5, <2>1 DEF Once
  <2>2. CASE i = Len(q) + 1 /\ j \in 1..Len(q)
    BY <1>1, <1>5, <2>2 DEF Contains
  <2>3. CASE j = Len(q) + 1 /\ i \in 1..Len(q)
    BY <1>1, <1>5, <2>3 DEF Contains
  <2> QED
    BY <1>2, <2>1, <2>2, <2>3
<1> QED
  BY <1>1, <1>4, <1>5 DEF r

LEMMA NoneQueued == ASSUME NEW x PROVE ~Contains(<<>>, x) /\ Once(<<>>, x)
BY DEF Contains, Once

\* The messages a peer sends.
LEMMA Messages ==
    ASSUME NEW m \in Message
    PROVE  /\ m.type = "response" => m.session \in SessionId
           /\ m.type = "error" => m.session \in SessionId \cup {0}
           /\ m.type = "request" => m.session \in ReqSession /\ m = Req(m.session)
           /\ \A n : m = Req(n) => m.type = "request" /\ m.session = n
BY DEF Message, Req
-----------------------------------------------------------------------------
\* The running coroutine waits under no session.
LEMMA Running1 == ASSUME TypeOK, Shape, Running
                  PROVE  /\ cur \in Co /\ st[cur] = "run" /\ cur \notin fork_queue
                         /\ sleep_session[cur] = None
                         /\ \A s \in SessionId : session_id_coroutine[s] # cur
<1>1. cur \in Co /\ st[cur] = "run" /\ cur \notin fork_queue
  BY DEF Shape, OneRuns, Running
<1>2. sleep_session[cur] = None
  BY <1>1 DEF Shape, Kinds
<1>3. \A s \in SessionId : session_id_coroutine[s] # cur
  BY <1>1 DEF Shape, Sessions, Waiting
<1> QED
  BY <1>1, <1>2, <1>3

LEMMA Unused1 == ASSUME NEW s \in Unused
                 PROVE  /\ s \in SessionId /\ session_id_coroutine[s] = None
                        /\ s \notin timers /\ ~Contains(error_queue, s)
BY DEF Unused

\* A coroutine that is not in use, or waits to be started, waits under no session.
LEMMA Idle1 == ASSUME Shape, NEW co \in Co, st[co] \in {"none", "pool", "fork"}
               PROVE  /\ sleep_session[co] = None
                      /\ \A s \in SessionId : session_id_coroutine[s] # co
<1>1. sleep_session[co] = None
  BY DEF Shape, Kinds
<1>2. \A s \in SessionId : session_id_coroutine[s] # co
  BY DEF Shape, Sessions, Waiting
<1> QED
  BY <1>1, <1>2

\* The coroutines C wait no longer, or did not; only s was a session of theirs.
LEMMA Free ==
    ASSUME TypeOK, Shape, NEW C \in SUBSET Co, NEW s,
           \A co \in Co \ C : st'[co] = st[co] /\ sleep_session'[co] = sleep_session[co],
           \A co \in C : st'[co] \notin Waiting /\ sleep_session'[co] = None,
           \A t \in SessionId \ {s} : /\ session_id_coroutine'[t] = session_id_coroutine[t]
                                      /\ watching_session'[t] = watching_session[t]
                                      /\ session_id_coroutine[t] \notin C,
           s \in SessionId => /\ session_id_coroutine'[s] \notin Co /\ watching_session'[s] = None
                              /\ session_id_coroutine[s] \in Co => session_id_coroutine[s] \in C,
           \A t \in SessionId \ {s} :
              Contains(error_queue', t) /\ session_id_coroutine[t] \in Co =>
                 watching_session[t] # None
    PROVE  Sessions' /\ Kinds'
<1>1. Sessions'
  <2>1. ASSUME NEW t \in SessionId, session_id_coroutine'[t] \in Co
        PROVE  /\ t # s /\ session_id_coroutine'[t] = session_id_coroutine[t]
               /\ session_id_coroutine[t] \in Co \ C
               /\ st'[session_id_coroutine'[t]] = st[session_id_coroutine[t]]
    BY <2>1
  <2>2. \A t \in SessionId : session_id_coroutine'[t] \in Co => st'[session_id_coroutine'[t]] \in Waiting
    BY <2>1 DEF Shape, Sessions
  <2>3. \A t, u \in SessionId :
           session_id_coroutine'[t] \in Co /\ session_id_coroutine'[t] = session_id_coroutine'[u] => t = u
    BY <2>1 DEF Shape, Sessions
  <2>4. ASSUME NEW co \in Co, st'[co] \in Waiting
        PROVE  \E t \in SessionId : session_id_coroutine'[t] = co
    <3>1. co \notin C /\ st[co] \in Waiting
      BY <2>4
    <3>2. PICK t \in SessionId : session_id_coroutine[t] = co
      BY <3>1 DEF Shape, Sessions
    <3> QED
      BY <3>1, <3>2
  <2> QED
    BY <2>2, <2>3, <2>4 DEF Sessions
<1>2. \A co \in Co : st'[co] \in {"sleep", "wait"} <=> sleep_session'[co] # None
  <2> SUFFICES ASSUME NEW co \in Co PROVE st'[co] \in {"sleep", "wait"} <=> sleep_session'[co] # None
    OBVIOUS
  <2>1. CASE co \in C
    BY <2>1 DEF Waiting
  <2>2. CASE co \notin C
    BY <2>2 DEF Shape, Kinds
  <2> QED
    BY <2>1, <2>2
<1>3. ASSUME NEW co \in Co, sleep_session'[co] # None
      PROVE  session_id_coroutine'[sleep_session'[co]] = co
  <2>1. co \notin C /\ sleep_session'[co] = sleep_session[co]
    BY <1>3
  <2>2. sleep_session[co] \in SessionId /\ session_id_coroutine[sleep_session[co]] = co
    BY <1>3, <2>1 DEF TypeOK, Shape, Kinds
  <2> QED
    BY <2>1, <2>2
<1>4. ASSUME NEW t \in SessionId
      PROVE  watching_session'[t] # None <=>
                session_id_coroutine'[t] \in Co /\ st'[session_id_coroutine'[t]] = "call"
  <2>1. CASE t = s
    BY <2>1
  <2>2. CASE t # s
    <3>1. watching_session[t] # None <=>
            session_id_coroutine[t] \in Co /\ st[session_id_coroutine[t]] = "call"
      BY DEF Shape, Kinds
    <3> QED
      BY <2>2, <3>1
  <2> QED
    BY <2>1, <2>2
<1>5. \A t \in SessionId : Contains(error_queue', t) /\ session_id_coroutine'[t] \in Co =>
         watching_session'[t] # None
  OBVIOUS
<1> QED
  BY <1>1, <1>2, <1>3, <1>4, <1>5 DEF Kinds

\* The coroutine c, which waited under no session, now waits under s.
LEMMA Hold ==
    ASSUME TypeOK, Shape, NEW c \in Co, NEW s \in SessionId,
           \A co \in Co \ {c} : st'[co] = st[co] /\ sleep_session'[co] = sleep_session[co],
           \A t \in SessionId \ {s} : /\ session_id_coroutine'[t] = session_id_coroutine[t]
                                      /\ watching_session'[t] = watching_session[t],
           session_id_coroutine[s] = None,
           \A t \in SessionId : session_id_coroutine[t] # c,
           st'[c] \in Waiting, session_id_coroutine'[s] = c,
           sleep_session'[c] = IF st'[c] \in {"sleep", "wait"} THEN s ELSE None,
           watching_session'[s] # None <=> st'[c] = "call",
           error_queue' = error_queue, ~Contains(error_queue, s)
    PROVE  Sessions' /\ Kinds'
<1> USE SessionAssumption
<1>1. Sessions'
  <2>1. ASSUME NEW t \in SessionId, t # s, session_id_coroutine'[t] \in Co
        PROVE  /\ session_id_coroutine'[t] = session_id_coroutine[t]
               /\ session_id_coroutine[t] \in Co \ {c}
               /\ st'[session_id_coroutine'[t]] = st[session_id_coroutine[t]]
    BY <2>1
  <2>2. \A t \in SessionId : session_id_coroutine'[t] \in Co => st'[session_id_coroutine'[t]] \in Waiting
    BY <2>1 DEF Shape, Sessions
  <2>3. \A t, u \in SessionId :
           session_id_coroutine'[t] \in Co /\ session_id_coroutine'[t] = session_id_coroutine'[u] => t = u
    BY <2>1 DEF Shape, Sessions
  <2>4. ASSUME NEW co \in Co, st'[co] \in Waiting
        PROVE  \E t \in SessionId : session_id_coroutine'[t] = co
    <3>1. CASE co = c
      BY <3>1
    <3>2. CASE co # c
      <4>1. PICK t \in SessionId : session_id_coroutine[t] = co
        BY <2>4, <3>2 DEF Shape, Sessions
      <4> QED
        BY <3>2, <4>1
    <3> QED
      BY <3>1, <3>2
  <2> QED
    BY <2>2, <2>3, <2>4 DEF Sessions
<1>2. \A co \in Co : st'[co] \in {"sleep", "wait"} <=> sleep_session'[co] # None
  <2> SUFFICES ASSUME NEW co \in Co PROVE st'[co] \in {"sleep", "wait"} <=> sleep_session'[co] # None
    OBVIOUS
  <2>1. CASE co = c
    BY <2>1
  <2>2. CASE co # c
    BY <2>2 DEF Shape, Kinds
  <2> QED
    BY <2>1, <2>2
<1>3. ASSUME NEW co \in Co, sleep_session'[co] # None
      PROVE  session_id_coroutine'[sleep_session'[co]] = co
  <2>1. CASE co = c
    BY <1>3, <2>1
  <2>2. CASE co # c
    <3>1. sleep_session[co] \in SessionId /\ session_id_coroutine[sleep_session[co]] = co
      BY <1>3, <2>2 DEF TypeOK, Shape, Kinds
    <3> QED
      BY <2>2, <3>1
  <2> QED
    BY <2>1, <2>2
<1>4. ASSUME NEW t \in SessionId
      PROVE  watching_session'[t] # None <=>
                session_id_coroutine'[t] \in Co /\ st'[session_id_coroutine'[t]] = "call"
  <2>1. CASE t = s
    BY <2>1
  <2>2. CASE t # s
    <3>1. watching_session[t] # None <=>
            session_id_coroutine[t] \in Co /\ st[session_id_coroutine[t]] = "call"
      BY DEF Shape, Kinds
    <3> QED
      BY <2>2, <3>1
  <2> QED
    BY <2>1, <2>2
<1>5. \A t \in SessionId : Contains(error_queue', t) /\ session_id_coroutine'[t] \in Co =>
         watching_session'[t] # None
  BY DEF Shape, Kinds
<1> QED
  BY <1>1, <1>2, <1>3, <1>4, <1>5 DEF Kinds
-----------------------------------------------------------------------------
\* A coroutine that yields waits under the session it was given.
LEMMA CallShape == ASSUME TypeOK, Shape, NEW p \in Peer, call(p) PROVE Shape'
<1> USE SessionAssumption
<1>1. PICK s \in Unused : /\ watching_session' = [watching_session EXCEPT ![s] = p]
                          /\ Yields(s, "call")
  BY DEF call
<1>2. /\ cur \in Co /\ st[cur] = "run" /\ cur \notin fork_queue /\ sleep_session[cur] = None
      /\ \A t \in SessionId : session_id_coroutine[t] # cur
  BY Running1 DEF call
<1>3. s \in SessionId /\ session_id_coroutine[s] = None /\ ~Contains(error_queue, s)
  BY Unused1
<1>4. /\ st' = [st EXCEPT ![cur] = "call"]
      /\ session_id_coroutine' = [session_id_coroutine EXCEPT ![s] = cur]
      /\ phase' = "wakeup" /\ sleep_session' = sleep_session
      /\ fork_queue' = fork_queue /\ error_queue' = error_queue
  BY <1>1 DEF Yields, Suspend, queues, call
<1>5. OneRuns'
  BY <1>2, <1>4 DEF OneRuns, Shape, TypeOK
<1>6. watching_session'[s] # None /\ \A t \in SessionId \ {s} : watching_session'[t] = watching_session[t]
  BY <1>1, <1>3 DEF TypeOK
<1>7. st'[cur] = "call" /\ \A co \in Co \ {cur} : st'[co] = st[co]
  BY <1>2, <1>4 DEF TypeOK
<1>8. /\ session_id_coroutine'[s] = cur
      /\ \A t \in SessionId \ {s} : session_id_coroutine'[t] = session_id_coroutine[t]
  BY <1>3, <1>4 DEF TypeOK
<1>9. "call" \in Waiting
  BY DEF Waiting
<1> QED
  BY <1>2, <1>3, <1>4, <1>5, <1>6, <1>7, <1>8, <1>9, Hold DEF Shape

LEMMA SleepShape == ASSUME TypeOK, Shape, sleep \/ wait PROVE Shape'
<1> USE SessionAssumption
<1>0. Running
  BY DEF sleep, wait, Starting
<1>1. PICK s \in Unused, how \in {"sleep", "wait"} :
         sleep_session' = [sleep_session EXCEPT ![cur] = s] /\ Yields(s, how)
  BY DEF sleep, wait
<1>2. /\ cur \in Co /\ st[cur] = "run" /\ cur \notin fork_queue /\ sleep_session[cur] = None
      /\ \A t \in SessionId : session_id_coroutine[t] # cur
  BY <1>0, Running1
<1>3. s \in SessionId /\ session_id_coroutine[s] = None /\ ~Contains(error_queue, s)
  BY Unused1
<1>4. /\ st' = [st EXCEPT ![cur] = how]
      /\ session_id_coroutine' = [session_id_coroutine EXCEPT ![s] = cur]
      /\ phase' = "wakeup"
      /\ fork_queue' = fork_queue /\ error_queue' = error_queue
  BY <1>1 DEF Yields, Suspend, queues
<1>5. OneRuns'
  BY <1>2, <1>4 DEF OneRuns, Shape, TypeOK
<1>6. watching_session' = watching_session
  BY DEF sleep, wait
<1>7. st'[cur] = how /\ \A co \in Co \ {cur} : st'[co] = st[co]
  BY <1>2, <1>4 DEF TypeOK
<1>8. /\ session_id_coroutine'[s] = cur
      /\ \A t \in SessionId \ {s} : session_id_coroutine'[t] = session_id_coroutine[t]
  BY <1>3, <1>4 DEF TypeOK
<1>9. how \in Waiting
  BY DEF Waiting
<1>10. sleep_session'[cur] = s /\ \A co \in Co \ {cur} : sleep_session'[co] = sleep_session[co]
  BY <1>1, <1>2 DEF TypeOK
<1>11. watching_session[s] = None
  BY <1>3 DEF Shape, Kinds
<1> QED
  BY <1>2, <1>3, <1>4, <1>5, <1>6, <1>7, <1>8, <1>9, <1>10, <1>11, Hold DEF Shape

LEMMA TimeoutShape == ASSUME TypeOK, Shape, timeout PROVE Shape'
<1> USE SessionAssumption
<1>1. PICK co \in Fresh, s \in Unused :
         /\ session_id_coroutine' = [session_id_coroutine EXCEPT ![s] = co]
         /\ st' = [st EXCEPT ![co] = "timeout"]
  BY DEF timeout
<1>2. co \in Co /\ st[co] \in {"none", "pool"}
  BY DEF Fresh
<1>3. sleep_session[co] = None /\ \A t \in SessionId : session_id_coroutine[t] # co
  BY <1>2, Idle1
<1>4. s \in SessionId /\ session_id_coroutine[s] = None /\ ~Contains(error_queue, s)
  BY Unused1
<1>5. UNCHANGED <<phase, cur, sleep_session, watching_session, fork_queue, error_queue>>
  BY DEF timeout, control, queues
<1>6. OneRuns'
  BY <1>1, <1>2, <1>5 DEF OneRuns, Shape, TypeOK
<1>7. st'[co] = "timeout" /\ \A c \in Co \ {co} : st'[c] = st[c]
  BY <1>1, <1>2 DEF TypeOK
<1>8. /\ session_id_coroutine'[s] = co
      /\ \A t \in SessionId \ {s} : session_id_coroutine'[t] = session_id_coroutine[t]
  BY <1>1, <1>4 DEF TypeOK
<1>9. "timeout" \in Waiting
  BY DEF Waiting
<1>10. watching_session[s] = None
  BY <1>4 DEF Shape, Kinds
<1> QED
  BY <1>2, <1>3, <1>4, <1>5, <1>6, <1>7, <1>8, <1>9, <1>10, Hold DEF Shape

\* The coroutines C, none of which waits, change state, and the sessions do not.
LEMMA Apart ==
    ASSUME TypeOK, Shape, NEW C \in SUBSET Co,
           UNCHANGED <<session_id_coroutine, watching_session, sleep_session>>,
           \A co \in Co \ C : st'[co] = st[co],
           \A co \in C : st[co] \in {"run", "none", "pool", "fork"} /\ st'[co] \notin Waiting,
           \A t \in SessionId :
              Contains(error_queue', t) => Contains(error_queue, t) \/ watching_session[t] # None
    PROVE  Sessions' /\ Kinds'
<1>1. \A co \in C : sleep_session[co] = None
  BY DEF Shape, Kinds
<1>2. \A t \in SessionId : session_id_coroutine[t] \notin C
  BY DEF Shape, Sessions, Waiting
<1>3. \A t \in SessionId : Contains(error_queue', t) /\ session_id_coroutine[t] \in Co =>
         watching_session[t] # None
  BY DEF Shape, Kinds
<1>4. None \notin SessionId
  BY SessionAssumption
<1> QED
  BY <1>1, <1>2, <1>3, <1>4, Free

LEMMA ForkShape == ASSUME TypeOK, Shape, fork PROVE Shape'
<1>1. PICK co \in Fresh : fork_queue' = fork_queue \cup {co} /\ st' = [st EXCEPT ![co] = "fork"]
  BY DEF fork
<1>2. co \in Co /\ st[co] \in {"none", "pool"}
  BY DEF Fresh
<1>3. UNCHANGED <<phase, cur, session_id_coroutine, watching_session, sleep_session, error_queue>>
  BY DEF fork, control, sessions
<1>4. st'[co] = "fork" /\ \A c \in Co \ {co} : st'[c] = st[c]
  BY <1>1, <1>2 DEF TypeOK
<1>5. OneRuns'
  BY <1>1, <1>2, <1>3, <1>4 DEF OneRuns, Shape, TypeOK
<1>6. Sessions' /\ Kinds'
  BY <1>2, <1>3, <1>4, Apart DEF Waiting
<1> QED
  BY <1>5, <1>6 DEF Shape

LEMMA FinishShape == ASSUME TypeOK, Shape, Finish PROVE Shape'
<1>1. st' = [st EXCEPT ![cur] = "pool"] /\ phase' = "wakeup"
  BY DEF Finish, Suspend
<1>2. cur \in Co /\ st[cur] = "run" /\ cur \notin fork_queue
  BY Running1 DEF Finish
<1>3. UNCHANGED <<session_id_coroutine, watching_session, sleep_session, error_queue, fork_queue>>
  BY DEF Finish, queues, sessions
<1>4. st'[cur] = "pool" /\ \A c \in Co \ {cur} : st'[c] = st[c]
  BY <1>1, <1>2 DEF TypeOK
<1>5. OneRuns'
  BY <1>1, <1>2, <1>3, <1>4 DEF OneRuns, Shape, TypeOK
<1>6. Sessions' /\ Kinds'
  BY <1>2, <1>3, <1>4, Apart DEF Waiting
<1> QED
  BY <1>5, <1>6 DEF Shape

LEMMA RaiseShape == ASSUME TypeOK, Shape, Raise PROVE Shape'
<1>1. PICK co \in Fresh \cup {cur} : /\ fork_queue' = fork_queue \cup {co}
                                     /\ st' = [st EXCEPT ![cur] = "none", ![co] = "fork"]
  BY DEF Raise
<1>2. cur \in Co /\ st[cur] = "run" /\ cur \notin fork_queue
  BY Running1 DEF Raise
<1>3. co \in Co /\ st[co] \in {"none", "pool", "run"}
  BY <1>2 DEF Fresh
<1>4. /\ UNCHANGED <<session_id_coroutine, watching_session, sleep_session, error_queue>>
      /\ phase' = "forks"
  BY DEF Raise, sessions
<1>5. /\ st'[co] = "fork" /\ (co # cur => st'[cur] = "none")
      /\ \A c \in Co \ {cur, co} : st'[c] = st[c]
  BY <1>1, <1>2, <1>3 DEF TypeOK
<1>6. OneRuns'
  <2>1. \A c \in Co : st'[c] # "run"
    BY <1>2, <1>5 DEF OneRuns, Shape
  <2>2. \A c \in fork_queue : st'[c] = "fork"
    BY <1>2, <1>5 DEF OneRuns, Shape, TypeOK
  <2> QED
    BY <1>1, <1>4, <1>5, <2>1, <2>2 DEF OneRuns
<1>7. \A c \in {cur, co} : st[c] \in {"run", "none", "pool", "fork"} /\ st'[c] \notin Waiting
  BY <1>2, <1>3, <1>5 DEF Waiting
<1>8. {cur, co} \in SUBSET Co
  BY <1>2, <1>3
<1>9. Sessions' /\ Kinds'
  BY <1>4, <1>5, <1>7, <1>8, Apart
<1> QED
  BY <1>6, <1>9 DEF Shape

LEMMA ExitShape == ASSUME TypeOK, Shape, exit PROVE Shape'
<1>1. /\ st' = [co \in Co |-> IF co = cur \/ co \in fork_queue THEN "none" ELSE st[co]]
      /\ fork_queue' = {} /\ phase' \in {"error", "forks"}
      /\ UNCHANGED <<session_id_coroutine, watching_session, sleep_session, error_queue>>
  BY DEF exit, Return, sessions
<1>2. cur \in Co /\ st[cur] = "run"
  BY Running1 DEF exit
<1>3. OneRuns'
  BY <1>1, <1>2 DEF OneRuns, Shape
<1>4. \A c \in {cur} \cup fork_queue :
         st[c] \in {"run", "none", "pool", "fork"} /\ st'[c] \notin Waiting
  BY <1>1, <1>2 DEF Waiting, TypeOK, Shape, OneRuns
<1>5. {cur} \cup fork_queue \in SUBSET Co
  BY <1>2 DEF TypeOK
<1>6. \A co \in Co \ ({cur} \cup fork_queue) : st'[co] = st[co]
  BY <1>1
<1>7. Sessions' /\ Kinds'
  BY <1>1, <1>4, <1>5, <1>6, Apart
<1> QED
  BY <1>3, <1>7 DEF Shape
-----------------------------------------------------------------------------
LEMMA ResumeRuns ==
    ASSUME TypeOK, Shape, phase # "run", NEW co \in Co, Resume(co),
           fork_queue' \subseteq fork_queue, co \notin fork_queue'
    PROVE  OneRuns' /\ st'[co] = "run" /\ \A c \in Co \ {co} : st'[c] = st[c]
<1>1. phase' = "run" /\ cur' = co /\ st' = [st EXCEPT ![co] = "run"]
  BY DEF Resume
<1>2. st'[co] = "run" /\ \A c \in Co \ {co} : st'[c] = st[c]
  BY <1>1 DEF TypeOK
<1>3. \A c \in Co : st[c] # "run"
  BY DEF Shape, OneRuns
<1> QED
  BY <1>1, <1>2, <1>3 DEF Shape, OneRuns, TypeOK

\* The coroutine that waits under s goes on.
LEMMA ResumeShape ==
    ASSUME TypeOK, Shape, phase # "run", NEW s \in SessionId, session_id_coroutine[s] \in Co,
           Resume(session_id_coroutine[s]),
           fork_queue' = fork_queue,
           sleep_session'[session_id_coroutine[s]] = None,
           \A c \in Co \ {session_id_coroutine[s]} : sleep_session'[c] = sleep_session[c],
           session_id_coroutine'[s] \notin Co,
           \A t \in SessionId \ {s} : session_id_coroutine'[t] = session_id_coroutine[t],
           watching_session'[s] = None,
           \A t \in SessionId \ {s} : watching_session'[t] = watching_session[t],
           \A t \in SessionId : Contains(error_queue', t) => Contains(error_queue, t)
    PROVE  Shape'
<1> DEFINE co == session_id_coroutine[s]
<1>1. st[co] \in Waiting
  BY DEF Shape, Sessions
<1>2. co \notin fork_queue
  BY <1>1 DEF Shape, OneRuns, Waiting
<1>3. OneRuns' /\ st'[co] = "run" /\ \A c \in Co \ {co} : st'[c] = st[c]
  BY <1>2, ResumeRuns
<1>4. \A t \in SessionId \ {s} : session_id_coroutine[t] # co
  BY DEF Shape, Sessions
<1>5. \A t \in SessionId : Contains(error_queue', t) /\ session_id_coroutine[t] \in Co =>
         watching_session[t] # None
  BY DEF Shape, Kinds
<1>6. "run" \notin Waiting
  BY DEF Waiting
<1>7. Sessions' /\ Kinds'
  <2> DEFINE C == {co}
  <2>1. C \in SUBSET Co /\ (session_id_coroutine[s] \in Co => session_id_coroutine[s] \in C)
    OBVIOUS
  <2>2. /\ \A c \in Co \ C : st'[c] = st[c] /\ sleep_session'[c] = sleep_session[c]
        /\ \A c \in C : st'[c] \notin Waiting /\ sleep_session'[c] = None
        /\ \A t \in SessionId \ {s} : session_id_coroutine[t] \notin C
    BY <1>3, <1>4, <1>6
  <2> HIDE DEF C
  <2> QED
    BY <1>5, <2>1, <2>2, Free
<1> QED
  BY <1>3, <1>7 DEF Shape

\* A coroutine that is not in use, or waits in fork_queue, goes on.
LEMMA StartShape ==
    ASSUME TypeOK, Shape, phase # "run", NEW co \in Co, st[co] \in {"none", "pool", "fork"},
           Resume(co), fork_queue' \subseteq fork_queue, co \notin fork_queue',
           UNCHANGED <<sessions, error_queue>>
    PROVE  Shape'
<1>1. OneRuns' /\ st'[co] = "run" /\ \A c \in Co \ {co} : st'[c] = st[c]
  BY ResumeRuns
<1>2. UNCHANGED <<session_id_coroutine, watching_session, sleep_session, error_queue>>
  BY DEF sessions
<1>3. Sessions' /\ Kinds'
  <2> DEFINE C == {co}
  <2>1. /\ C \in SUBSET Co
        /\ \A c \in Co \ C : st'[c] = st[c]
        /\ \A c \in C : st[c] \in {"run", "none", "pool", "fork"} /\ st'[c] \notin Waiting
    BY <1>1 DEF Waiting
  <2> HIDE DEF C
  <2> QED
    BY <1>2, <2>1, Apart
<1> QED
  BY <1>1, <1>3 DEF Shape

LEMMA WakeupShape == ASSUME TypeOK, Shape, dispatch_wakeup PROVE Shape'
<1> DEFINE token == Head(wakeup_queue)
           s == sleep_session[token]
           found == wakeup_queue # <<>> /\ s # None
<1>1. phase = "wakeup" /\ UNCHANGED <<error_queue, fork_queue>>
  BY DEF dispatch_wakeup
<1>2. CASE ~found
  <2>1. phase' = "error" /\ UNCHANGED <<cur, st, session_id_coroutine, watching_session, sleep_session>>
    BY <1>2 DEF dispatch_wakeup, sessions
  <2> QED
    BY <1>1, <2>1 DEF Shape, OneRuns, Sessions, Kinds
<1>3. CASE found
  <2>1. token \in Co /\ s \in SessionId
    BY <1>3, Pop DEF TypeOK
  <2>2. session_id_coroutine[s] = token /\ st[token] \in {"sleep", "wait"}
    BY <1>3, <2>1 DEF Shape, Kinds
  <2>3. watching_session[s] = None
    BY <2>1, <2>2 DEF Shape, Kinds
  <2>4. /\ Resume(token)
        /\ session_id_coroutine' = [session_id_coroutine EXCEPT
                                      ![s] = IF st[token] = "sleep" THEN BREAK ELSE None]
        /\ sleep_session' = [sleep_session EXCEPT ![token] = None]
        /\ watching_session' = watching_session
    BY <1>3 DEF dispatch_wakeup
  <2> HIDE DEF token, s
  <2>5. /\ session_id_coroutine'[s] \notin Co
        /\ \A t \in SessionId \ {s} : session_id_coroutine'[t] = session_id_coroutine[t]
    BY <2>1, <2>4, SessionAssumption DEF TypeOK
  <2>6. /\ sleep_session'[token] = None
        /\ \A c \in Co \ {token} : sleep_session'[c] = sleep_session[c]
    BY <2>1, <2>4 DEF TypeOK
  <2> QED
    BY <1>1, <2>1, <2>2, <2>3, <2>4, <2>5, <2>6, ResumeShape
<1> QED
  BY <1>2, <1>3

LEMMA ErrorQueueShape == ASSUME TypeOK, Shape, dispatch_error_queue PROVE Shape'
<1> DEFINE s == Head(error_queue)
<1>1. phase = "error" /\ fork_queue' = fork_queue
  BY DEF dispatch_error_queue
<1>2. CASE error_queue = <<>>
  <2>1. /\ phase' \in {"error", "forks"}
        /\ UNCHANGED <<st, session_id_coroutine, watching_session, sleep_session, error_queue>>
    BY <1>2 DEF dispatch_error_queue, Return, sessions
  <2> QED
    BY <1>1, <2>1 DEF Shape, OneRuns, Sessions, Kinds
<1>3. CASE error_queue # <<>>
  <2>1. s \in SessionId /\ error_queue' = Tail(error_queue)
    BY <1>3, Pop DEF TypeOK, dispatch_error_queue
  <2>2. /\ Contains(error_queue, s)
        /\ \A t \in SessionId : Contains(error_queue', t) => Contains(error_queue, t)
    BY <1>3, <2>1, Pop DEF TypeOK
  <2>3. CASE session_id_coroutine[s] \notin Co
    <3>1. /\ phase' = "forks"
          /\ UNCHANGED <<st, session_id_coroutine, watching_session, sleep_session>>
      BY <1>3, <2>3 DEF dispatch_error_queue, sessions
    <3>2. OneRuns' /\ Sessions'
      BY <1>1, <3>1 DEF Shape, OneRuns, Sessions
    <3>3. Kinds'
      BY <2>2, <3>1 DEF Shape, Kinds
    <3> QED
      BY <3>2, <3>3 DEF Shape
  <2>4. CASE session_id_coroutine[s] \in Co
    <3>1. /\ Resume(session_id_coroutine[s])
          /\ session_id_coroutine' = [session_id_coroutine EXCEPT ![s] = None]
          /\ watching_session' = [watching_session EXCEPT ![s] = None]
          /\ sleep_session' = sleep_session
      BY <1>3, <2>4 DEF dispatch_error_queue
    <3>2. st[session_id_coroutine[s]] = "call"
      BY <2>1, <2>2, <2>4 DEF Shape, Kinds
    <3>3. sleep_session[session_id_coroutine[s]] = None
      BY <2>4, <3>2 DEF Shape, Kinds
    <3> HIDE DEF s
    <3>4. /\ session_id_coroutine'[s] \notin Co
          /\ \A t \in SessionId \ {s} : session_id_coroutine'[t] = session_id_coroutine[t]
      BY <2>1, <3>1, SessionAssumption DEF TypeOK
    <3>5. /\ watching_session'[s] = None
          /\ \A t \in SessionId \ {s} : watching_session'[t] = watching_session[t]
      BY <2>1, <3>1 DEF TypeOK
    <3> QED
      BY <1>1, <2>1, <2>2, <2>4, <3>1, <3>3, <3>4, <3>5, ResumeShape
  <2> QED
    BY <2>3, <2>4
<1> QED
  BY <1>2, <1>3

LEMMA RunForksShape == ASSUME TypeOK, Shape, RunForks PROVE Shape'
<1>1. phase = "forks" /\ UNCHANGED <<sessions, error_queue>>
  BY DEF RunForks
<1>2. ASSUME NEW co \in fork_queue, Resume(co), fork_queue' = fork_queue \ {co} PROVE Shape'
  <2>1. co \in Co /\ st[co] = "fork"
    BY DEF TypeOK, Shape, OneRuns
  <2> QED
    BY <1>1, <1>2, <2>1, StartShape
<1>3. CASE phase' = "idle" /\ UNCHANGED <<cur, pending, exited, st, fork_queue>>
  BY <1>1, <1>3 DEF Shape, OneRuns, Sessions, Kinds, sessions
<1> QED
  BY <1>2, <1>3 DEF RunForks

LEMMA GoneShape == ASSUME TypeOK, Shape, Gone PROVE Shape'
BY SessionAssumption DEF Gone, Each, Shape, OneRuns, Sessions, Kinds, Waiting

LEMMA TakeResponseShape ==
    ASSUME TypeOK, Shape, phase = "idle", NEW s \in SessionId, TakeResponse(s) PROVE Shape'
<1>1. /\ session_id_coroutine' = [session_id_coroutine EXCEPT ![s] = None]
      /\ UNCHANGED <<fork_queue, error_queue>>
  BY DEF TakeResponse, queues
<1>2. /\ session_id_coroutine'[s] = None
      /\ \A t \in SessionId \ {s} : session_id_coroutine'[t] = session_id_coroutine[t]
  BY <1>1 DEF TypeOK
<1>3. CASE session_id_coroutine[s] \notin Co
  <2>1. UNCHANGED <<phase, cur, st, watching_session, sleep_session>>
    BY <1>3 DEF TakeResponse, control
  <2>2. OneRuns'
    BY <1>1, <2>1 DEF Shape, OneRuns
  <2>3. watching_session[s] = None
    BY <1>3 DEF Shape, Kinds
  <2>4. \A t \in SessionId : Contains(error_queue, t) /\ session_id_coroutine[t] \in Co =>
           watching_session[t] # None
    BY DEF Shape, Kinds
  <2>5. Sessions' /\ Kinds'
    <3>1. {} \in SUBSET Co /\ None \notin Co
      BY SessionAssumption
    <3> QED
      BY <1>1, <1>2, <1>3, <2>1, <2>3, <2>4, <3>1, Free
  <2> QED
    BY <2>2, <2>5 DEF Shape
<1>4. CASE session_id_coroutine[s] \in Co
  <2> DEFINE co == session_id_coroutine[s]
  <2>1. /\ Resume(co) /\ sleep_session' = [sleep_session EXCEPT ![co] = None]
        /\ watching_session' = [watching_session EXCEPT ![s] = None]
    BY <1>4 DEF TakeResponse
  <2>2. sleep_session'[co] = None /\ \A c \in Co \ {co} : sleep_session'[c] = sleep_session[c]
    BY <1>4, <2>1 DEF TypeOK
  <2>3. /\ watching_session'[s] = None
        /\ \A t \in SessionId \ {s} : watching_session'[t] = watching_session[t]
    BY <2>1 DEF TypeOK
  <2>4. session_id_coroutine'[s] \notin Co
    BY <1>2, SessionAssumption
  <2> QED
    BY <1>1, <1>2, <1>4, <2>1, <2>2, <2>3, <2>4, ResumeShape
<1> QED
  BY <1>3, <1>4

LEMMA TakeRequestShape ==
    ASSUME TypeOK, Shape, phase = "idle", NEW p, NEW n, TakeRequest(p, n) PROVE Shape'
<1>1. PICK co \in Fresh : Resume(co)
  BY DEF TakeRequest
<1>2. co \in Co /\ st[co] \in {"none", "pool"}
  BY DEF Fresh
<1>3. fork_queue' = fork_queue /\ UNCHANGED <<sessions, error_queue>>
  BY DEF TakeRequest, queues
<1>4. co \notin fork_queue
  BY <1>2 DEF Shape, OneRuns
<1> QED
  BY <1>1, <1>2, <1>3, <1>4, StartShape

\* A queue after a sequence is put at its end.
LEMMA Joined == ASSUME NEW S, NEW q \in Seq(S), NEW r \in Seq(S)
                PROVE  /\ q \o r \in Seq(S) /\ Len(q \o r) = Len(q) + Len(r)
                       /\ \A i \in 1..Len(q) : (q \o r)[i] = q[i]
                       /\ \A i \in 1..Len(r) : (q \o r)[Len(q) + i] = r[i]
OBVIOUS

\* _error_dispatch: every session that failed is queued, once.
LEMMA FailedQueued ==
    ASSUME TypeOK, NEW p, NEW s, NEW q \in [1..Cardinality(Failed(p, s)) -> Failed(p, s)],
           \A i, j \in DOMAIN q : q[i] = q[j] => i = j,
           error_queue' = error_queue \o q
    PROVE  /\ error_queue' \in Seq(SessionId)
           /\ \A t \in SessionId : Contains(error_queue', t) <=>
                 Contains(error_queue, t) \/ t \in Failed(p, s)
           /\ error_queue = <<>> => \A t \in SessionId : Once(error_queue', t)
<1> DEFINE F == Failed(p, s)
           n == Cardinality(F)
<1>1. F \subseteq SessionId
  BY DEF Failed
<1> HIDE DEF F
<1>2. IsFiniteSet(F) /\ n \in Nat
  BY <1>1, SessionAssumption, FS_Subset, FS_CardinalityType
<1> HIDE DEF n
<1>3. q \in [1..n -> F] /\ DOMAIN q = 1..n
  BY DEF n, F
<1>4. q \in Injection(1..n, F)
  BY <1>3 DEF Injection, IsInjective
<1>5. IsFiniteSet(1..n) /\ Cardinality(1..n) = n
  BY <1>2, FS_Interval
<1>6. q \in Surjection(1..n, F)
  BY <1>2, <1>4, <1>5, FS_Injection DEF n
<1>7. \A t : t \in F <=> \E i \in 1..n : q[i] = t
  <2>1. \A t \in F : \E i \in 1..n : q[i] = t
    BY <1>6 DEF Surjection
  <2>2. \A i \in 1..n : q[i] \in F
    BY <1>3
  <2> QED
    BY <2>1, <2>2
<1>8. q \in Seq(SessionId) /\ Len(q) = n
  BY <1>1, <1>2, <1>3
<1>9. /\ error_queue' \in Seq(SessionId) /\ Len(error_queue) \in Nat
      /\ Len(error_queue') = Len(error_queue) + n
      /\ \A i \in 1..Len(error_queue) : error_queue'[i] = error_queue[i]
      /\ \A i \in 1..n : error_queue'[Len(error_queue) + i] = q[i]
  <2>1. error_queue \in Seq(SessionId) /\ Len(error_queue) \in Nat
    BY DEF TypeOK
  <2> QED
    BY <1>8, <2>1, Joined
<1>10. ASSUME NEW t \in SessionId
       PROVE  Contains(error_queue', t) <=> Contains(error_queue, t) \/ t \in F
  <2>1. ASSUME Contains(error_queue, t) PROVE Contains(error_queue', t)
    <3>1. PICK i \in 1..Len(error_queue) : error_queue[i] = t
      BY <2>1 DEF Contains
    <3> QED
      BY <1>2, <1>9, <3>1 DEF Contains
  <2>2. ASSUME t \in F PROVE Contains(error_queue', t)
    <3>1. PICK i \in 1..n : q[i] = t
      BY <1>7, <2>2
    <3>2. Len(error_queue) + i \in 1..Len(error_queue')
      BY <1>2, <1>9
    <3> QED
      BY <1>9, <3>1, <3>2 DEF Contains
  <2>3. ASSUME Contains(error_queue', t) PROVE Contains(error_queue, t) \/ t \in F
    <3>1. PICK i \in 1..Len(error_queue') : error_queue'[i] = t
      BY <2>3 DEF Contains
    <3>2. CASE i \in 1..Len(error_queue)
      BY <1>9, <3>1, <3>2 DEF Contains
    <3>3. CASE i \notin 1..Len(error_queue)
      <4>1. i - Len(error_queue) \in 1..n /\ Len(error_queue) + (i - Len(error_queue)) = i
        BY <1>2, <1>9, <3>3
      <4>2. q[i - Len(error_queue)] = t
        BY <1>9, <3>1, <4>1
      <4> QED
        BY <1>7, <4>1, <4>2
    <3> QED
      BY <3>2, <3>3
  <2> QED
    BY <2>1, <2>2, <2>3
<1>11. ASSUME error_queue = <<>> PROVE \A t \in SessionId : Once(error_queue', t)
  <2>1. error_queue' = q
    BY <1>8, <1>11
  <2> QED
    BY <1>3, <1>8, <2>1 DEF Once
<1> QED
  BY <1>9, <1>10, <1>11 DEF F

LEMMA TakeErrorShape ==
    ASSUME TypeOK, Shape, phase = "idle", NEW p \in Peer, NEW s \in SessionId \cup {0}, TakeError(p, s)
    PROVE  /\ Shape' /\ phase' = "wakeup" /\ error_queue' \in Seq(SessionId)
           /\ \A t \in SessionId : Contains(error_queue', t) <=>
                 Contains(error_queue, t) \/ t \in Failed(p, s)
           /\ error_queue = <<>> => \A t \in SessionId : Once(error_queue', t)
           /\ \A t \in SessionId : t \in Failed(p, s) => watching_session[t] # None
           /\ \A t \in SessionId : (t = s \/ (s = 0 /\ watching_session[t] = p)) /\ watching_session[t] # None
                 => t \in Failed(p, s)
<1>1. /\ error_queue' \in Seq(SessionId)
      /\ \A t \in SessionId : Contains(error_queue', t) <=>
            Contains(error_queue, t) \/ t \in Failed(p, s)
      /\ error_queue = <<>> => \A t \in SessionId : Once(error_queue', t)
  BY FailedQueued DEF TakeError
<1>2. \A t \in SessionId : t \in Failed(p, s) => watching_session[t] # None
  BY SessionAssumption DEF Failed
<1>3. \A t \in SessionId : (t = s \/ (s = 0 /\ watching_session[t] = p)) /\ watching_session[t] # None
         => t \in Failed(p, s)
  BY SessionAssumption DEF Failed
<1>4. PICK co \in Fresh : st' = [st EXCEPT ![co] = "pool"]
  BY DEF TakeError
<1>5. co \in Co /\ st[co] \in {"none", "pool"}
  BY DEF Fresh
<1>6. /\ phase' = "wakeup" /\ fork_queue' = fork_queue
      /\ UNCHANGED <<session_id_coroutine, watching_session, sleep_session>>
  BY DEF TakeError, Suspend, sessions
<1>7. st'[co] = "pool" /\ \A c \in Co \ {co} : st'[c] = st[c]
  BY <1>4, <1>5 DEF TypeOK
<1>8. OneRuns'
  BY <1>5, <1>6, <1>7 DEF Shape, OneRuns, TypeOK
<1>9. Sessions' /\ Kinds'
  <2> DEFINE C == {co}
  <2>1. /\ C \in SUBSET Co
        /\ \A c \in Co \ C : st'[c] = st[c]
        /\ \A c \in C : st[c] \in {"run", "none", "pool", "fork"} /\ st'[c] \notin Waiting
    BY <1>5, <1>7 DEF Waiting
  <2> HIDE DEF C
  <2> QED
    BY <1>1, <1>2, <1>6, <2>1, Apart
<1> QED
  BY <1>1, <1>2, <1>3, <1>6, <1>8, <1>9 DEF Shape

\* What does not touch coroutines, sessions and the error queue keeps the shape.
LEMMA QuietShape ==
    ASSUME Shape, UNCHANGED <<phase, cur, st, sessions, error_queue, fork_queue>> PROVE Shape'
BY DEF Shape, OneRuns, Sessions, Kinds, sessions
-----------------------------------------------------------------------------
\* What an action leaves alone keeps its type.
CoTypes == /\ phase \in {"idle", "run", "wakeup", "error", "forks", "gone"}
           /\ cur \in Co \cup {None} /\ pending \in Nat
           /\ st \in [Co -> CoState]
SessionTypes == /\ session_id_coroutine \in [SessionId -> Co \cup {BREAK, None}]
                /\ watching_session \in [SessionId -> Peer \cup {None}]
                /\ sleep_session \in [Co -> SessionId \cup {None}]
RequestTypes == /\ session_coroutine_id \in [Co -> ReqSession \cup {None}]
                /\ session_coroutine_address \in [Co -> Peer \cup {None}]
                /\ unresponse \subseteq Peer \X ReqSession
QueueTypes == /\ wakeup_queue \in Seq(Co) /\ error_queue \in Seq(SessionId)
              /\ fork_queue \subseteq Co
PeerTypes == /\ alive \subseteq Peer
             /\ asked \in [Peer -> SUBSET SessionId]
             /\ chan \in [Peer -> Seq(Message)]
             /\ timers \subseteq SessionId
OwedType == owed \in [Peer -> SUBSET ReqSession]

LEMMA Types == TypeOK <=> CoTypes /\ SessionTypes /\ RequestTypes /\ QueueTypes /\ PeerTypes /\ OwedType
BY DEF TypeOK, CoTypes, SessionTypes, RequestTypes, QueueTypes, PeerTypes, OwedType

LEMMA NextTypes ==
    CoTypes' /\ SessionTypes' /\ RequestTypes' /\ QueueTypes' /\ PeerTypes' /\ OwedType' => TypeOK'
BY DEF TypeOK, CoTypes, SessionTypes, RequestTypes, QueueTypes, PeerTypes, OwedType

LEMMA SameTypes ==
    /\ CoTypes /\ UNCHANGED <<control, st>> => CoTypes'
    /\ SessionTypes /\ UNCHANGED sessions => SessionTypes'
    /\ RequestTypes /\ UNCHANGED requests => RequestTypes'
    /\ QueueTypes /\ UNCHANGED queues => QueueTypes'
    /\ PeerTypes /\ UNCHANGED peers => PeerTypes'
    /\ OwedType /\ UNCHANGED owed => OwedType'
BY DEF CoTypes, SessionTypes, RequestTypes, QueueTypes, PeerTypes, OwedType,
       control, sessions, requests, queues, peers

LEMMA AnswerType == ASSUME NEW R, Answer(R), OwedType PROVE OwedType'
<1>1. \A p \in Peer : owed[p] \ {r[2] : r \in {q \in R : q[1] = p}} \in SUBSET ReqSession
  BY DEF OwedType
<1> QED
  BY <1>1 DEF Answer, OwedType

LEMMA YieldsType == ASSUME TypeOK, Shape, Running, NEW s \in SessionId,
                           NEW how \in {"call", "sleep", "wait"}, Yields(s, how)
                    PROVE  /\ CoTypes' /\ RequestTypes' /\ QueueTypes' /\ OwedType'
                           /\ session_id_coroutine' \in [SessionId -> Co \cup {BREAK, None}]
<1>1. CoTypes /\ RequestTypes /\ QueueTypes /\ OwedType /\ cur \in Co
  BY Types, Running1
<1>2. RequestTypes' /\ QueueTypes' /\ OwedType'
  BY <1>1, SameTypes DEF Yields, answers
<1>3. CoTypes'
  BY <1>1 DEF Yields, Suspend, CoTypes, CoState
<1>4. session_id_coroutine' \in [SessionId -> Co \cup {BREAK, None}]
  BY <1>1 DEF Yields, TypeOK
<1> QED
  BY <1>2, <1>3, <1>4

LEMMA ResumeType == ASSUME CoTypes, NEW co \in Co, Resume(co), pending' \in Nat PROVE CoTypes'
BY DEF Resume, CoTypes, CoState

LEMMA PoppedChan == ASSUME PeerTypes, NEW p \in Peer, chan[p] # <<>>,
                           chan' = [chan EXCEPT ![p] = Tail(@)]
                    PROVE  /\ chan' \in [Peer -> Seq(Message)] /\ Head(chan[p]) \in Message
                           /\ chan'[p] = Tail(chan[p]) /\ \A r \in Peer \ {p} : chan'[r] = chan[r]
<1>1. chan[p] \in Seq(Message)
  BY DEF PeerTypes
<1>2. Tail(chan[p]) \in Seq(Message) /\ Head(chan[p]) \in Message
  BY <1>1, Pop
<1> QED
  BY <1>2 DEF PeerTypes

LEMMA SentChan == ASSUME PeerTypes, NEW p \in Peer, NEW type, NEW s,
                         [type |-> type, session |-> s] \in Message, Send(p, type, s)
                  PROVE  /\ chan' \in [Peer -> Seq(Message)]
                         /\ chan'[p] = Append(chan[p], [type |-> type, session |-> s])
                         /\ \A r \in Peer \ {p} : chan'[r] = chan[r]
<1> DEFINE m == [type |-> type, session |-> s]
<1>1. chan[p] \in Seq(Message)
  BY DEF PeerTypes
<1>2. m \in Message
  OBVIOUS
<1>3. chan' = [chan EXCEPT ![p] = Append(chan[p], m)]
  BY DEF Send
<1> HIDE DEF m
<1>4. Append(chan[p], m) \in Seq(Message)
  BY <1>1, <1>2, Push
<1>5. /\ chan' \in [Peer -> Seq(Message)]
      /\ chan'[p] = Append(chan[p], m)
      /\ \A r \in Peer \ {p} : chan'[r] = chan[r]
  BY <1>3, <1>4 DEF PeerTypes
<1> QED
  BY <1>5 DEF m

LEMMA TakeResponseType ==
    ASSUME TypeOK, NEW s \in SessionId, TakeResponse(s)
    PROVE  CoTypes' /\ SessionTypes' /\ RequestTypes' /\ QueueTypes'
<1>1. CoTypes /\ SessionTypes /\ RequestTypes /\ QueueTypes
  BY Types
<1>2. RequestTypes' /\ QueueTypes'
  BY <1>1, SameTypes DEF TakeResponse
<1>3. CASE session_id_coroutine[s] \notin Co
  BY <1>1, <1>2, <1>3, SameTypes DEF TakeResponse, SessionTypes
<1>4. CASE session_id_coroutine[s] \in Co
  <2>1. Resume(session_id_coroutine[s]) /\ pending' = pending
    BY <1>4 DEF TakeResponse
  <2>2. CoTypes'
    BY <1>1, <1>4, <2>1, ResumeType DEF CoTypes
  <2>3. SessionTypes'
    BY <1>1, <1>4 DEF TakeResponse, SessionTypes
  <2> QED
    BY <1>2, <2>2, <2>3
<1> QED
  BY <1>3, <1>4

LEMMA TypeStep == ASSUME TypeOK, Shape, Requests, Next PROVE TypeOK'
<1>0. CoTypes /\ SessionTypes /\ RequestTypes /\ QueueTypes /\ PeerTypes /\ OwedType
  BY Types
<1> USE <1>0, SameTypes
<1>1. ASSUME NEW p \in Peer, call(p) PROVE TypeOK'
  <2>1. PICK s \in Unused : /\ watching_session' = [watching_session EXCEPT ![s] = p]
                            /\ asked' = [asked EXCEPT ![p] = @ \cup {s}]
                            /\ Yields(s, "call")
    BY <1>1 DEF call
  <2>2. s \in SessionId /\ Running
    BY <1>1, Unused1 DEF call
  <2>3. SessionTypes'
    BY <1>1, <2>1, <2>2, YieldsType DEF call, SessionTypes
  <2>4. PeerTypes'
    BY <1>1, <2>1, <2>2 DEF call, PeerTypes
  <2> QED
    BY <2>1, <2>2, <2>3, <2>4, YieldsType, NextTypes
<1>2. CASE sleep
  <2>1. PICK s \in Unused : /\ sleep_session' = [sleep_session EXCEPT ![cur] = s]
                            /\ timers' = timers \cup {s}
                            /\ Yields(s, "sleep")
    BY <1>2 DEF sleep
  <2>2. s \in SessionId /\ Running
    BY <1>2, Unused1 DEF sleep, Starting
  <2>3. SessionTypes'
    BY <1>2, <2>1, <2>2, YieldsType DEF sleep, SessionTypes
  <2>4. PeerTypes'
    BY <1>2, <2>1, <2>2 DEF sleep, PeerTypes
  <2> QED
    BY <2>1, <2>2, <2>3, <2>4, YieldsType, NextTypes
<1>3. CASE wait
  <2>1. PICK s \in Unused : /\ sleep_session' = [sleep_session EXCEPT ![cur] = s]
                            /\ Yields(s, "wait")
    BY <1>3 DEF wait
  <2>2. s \in SessionId /\ Running
    BY <1>3, Unused1 DEF wait
  <2>3. SessionTypes'
    BY <1>3, <2>1, <2>2, YieldsType DEF wait, SessionTypes
  <2>4. PeerTypes'
    BY <1>3 DEF wait
  <2> QED
    BY <2>1, <2>2, <2>3, <2>4, YieldsType, NextTypes
<1>4. ASSUME NEW co \in Co, wakeup(co) PROVE TypeOK'
  <2>1. wakeup_queue' \in Seq(Co)
    BY <1>4, Push DEF wakeup, QueueTypes
  <2>2. QueueTypes'
    BY <1>4, <2>1 DEF wakeup, QueueTypes
  <2> QED
    BY <1>4, <2>2, NextTypes DEF wakeup, answers
<1>5. CASE fork
  <2>1. CoTypes' /\ QueueTypes'
    BY <1>5 DEF fork, CoTypes, QueueTypes, CoState, Fresh, control
  <2> QED
    BY <1>5, <2>1, NextTypes DEF fork, answers
<1>6. CASE timeout
  <2>1. PICK co \in Fresh, s \in Unused :
           /\ session_id_coroutine' = [session_id_coroutine EXCEPT ![s] = co]
           /\ timers' = timers \cup {s}
           /\ st' = [st EXCEPT ![co] = "timeout"]
    BY <1>6 DEF timeout
  <2>2. co \in Co /\ s \in SessionId
    BY Unused1 DEF Fresh
  <2>3. CoTypes'
    BY <1>6, <2>1, <2>2 DEF timeout, CoTypes, CoState, control
  <2>4. SessionTypes'
    BY <1>6, <2>1, <2>2 DEF timeout, SessionTypes
  <2>5. PeerTypes'
    BY <1>6, <2>1, <2>2 DEF timeout, PeerTypes
  <2> QED
    BY <1>6, <2>3, <2>4, <2>5, NextTypes DEF timeout, answers
<1>7. CASE ret
  <2>1. cur \in Co
    BY <1>7, Running1 DEF ret
  <2>2. RequestTypes'
    BY <1>7, <2>1 DEF ret, RequestTypes
  <2>3. OwedType'
    BY <1>7, AnswerType DEF ret
  <2> QED
    BY <1>7, <2>2, <2>3, NextTypes DEF ret
<1>8. CASE response
  <2>1. cur \in Co
    BY <1>8, Running1 DEF response
  <2>2. Mine \in Peer \X ReqSession
    BY <1>8, <2>1 DEF Mine, response, Requests, RequestTypes
  <2>3. RequestTypes'
    BY <1>8, <2>1, <2>2 DEF response, RequestTypes
  <2> QED
    BY <1>8, <2>3, NextTypes DEF response
<1>9. ASSUME NEW r \in Peer \X ReqSession, respond(r) PROVE TypeOK'
  <2>1. RequestTypes'
    BY <1>9 DEF respond, RequestTypes
  <2>2. OwedType'
    BY <1>9, AnswerType DEF respond
  <2> QED
    BY <1>9, <2>1, <2>2, NextTypes DEF respond
<1>10. CASE Finish
  <2>1. cur \in Co
    BY <1>10, Running1 DEF Finish
  <2>2. RequestTypes'
    BY <1>10, <2>1 DEF Finish, RequestTypes
  <2>3. CoTypes'
    BY <1>10, <2>1 DEF Finish, Suspend, CoTypes, CoState
  <2> QED
    BY <1>10, <2>2, <2>3, NextTypes DEF Finish, answers
<1>11. CASE Raise
  <2>1. cur \in Co
    BY <1>11, Running1 DEF Raise
  <2>2. RequestTypes'
    BY <1>11, <2>1 DEF Raise, RequestTypes
  <2>3. OwedType'
    BY <1>11, AnswerType DEF Raise, answers
  <2>4. PICK co \in Fresh \cup {cur} : /\ fork_queue' = fork_queue \cup {co}
                                       /\ st' = [st EXCEPT ![cur] = "none", ![co] = "fork"]
    BY <1>11 DEF Raise
  <2>5. co \in Co
    BY <2>1 DEF Fresh
  <2>6. CoTypes'
    BY <1>11, <2>1, <2>4, <2>5 DEF Raise, CoTypes, CoState
  <2>7. QueueTypes'
    BY <1>11, <2>4, <2>5 DEF Raise, QueueTypes
  <2> QED
    BY <1>11, <2>2, <2>3, <2>6, <2>7, NextTypes DEF Raise
<1>12. CASE exit
  <2>1. RequestTypes'
    BY <1>12 DEF exit, RequestTypes
  <2>2. OwedType'
    BY <1>12, AnswerType DEF exit
  <2>3. CoTypes'
    BY <1>12 DEF exit, Return, CoTypes, CoState
  <2>4. QueueTypes'
    BY <1>12 DEF exit, QueueTypes
  <2> QED
    BY <1>12, <2>1, <2>2, <2>3, <2>4, NextTypes DEF exit
<1>13. CASE dispatch_wakeup
  <2> DEFINE token == Head(wakeup_queue)
             s == sleep_session[token]
             found == wakeup_queue # <<>> /\ s # None
  <2>1. QueueTypes'
    <3>1. wakeup_queue' \in Seq(Co)
      BY <1>13, Pop DEF dispatch_wakeup, QueueTypes
    <3> QED
      BY <1>13, <3>1 DEF dispatch_wakeup, QueueTypes
  <2>2. CASE ~found
    <3>1. CoTypes' /\ SessionTypes'
      BY <1>13, <2>2 DEF dispatch_wakeup, CoTypes
    <3> QED
      BY <1>13, <2>1, <3>1, NextTypes DEF dispatch_wakeup, answers
  <2>3. CASE found
    <3>1. token \in Co /\ s \in SessionId
      BY <2>3, Pop DEF QueueTypes, SessionTypes
    <3>2. /\ Resume(token) /\ pending' = pending + 1 /\ watching_session' = watching_session
          /\ session_id_coroutine' = [session_id_coroutine EXCEPT
                                        ![s] = IF st[token] = "sleep" THEN BREAK ELSE None]
          /\ sleep_session' = [sleep_session EXCEPT ![token] = None]
      BY <1>13, <2>3 DEF dispatch_wakeup
    <3> HIDE DEF token, s
    <3>3. CoTypes'
      BY <3>1, <3>2, ResumeType DEF CoTypes
    <3>4. SessionTypes'
      BY <3>1, <3>2 DEF SessionTypes
    <3> QED
      BY <1>13, <2>1, <3>3, <3>4, NextTypes DEF dispatch_wakeup, answers
  <2> QED
    BY <2>2, <2>3
<1>14. CASE dispatch_error_queue
  <2> DEFINE s == Head(error_queue)
  <2>1. CASE error_queue = <<>>
    <3>1. CoTypes'
      BY <1>14, <2>1 DEF dispatch_error_queue, Return, CoTypes
    <3>2. QueueTypes'
      BY <1>14, <2>1 DEF dispatch_error_queue, QueueTypes
    <3> QED
      BY <1>14, <2>1, <3>1, <3>2, NextTypes DEF dispatch_error_queue, answers
  <2>2. CASE error_queue # <<>>
    <3>1. QueueTypes' /\ s \in SessionId
      <4>1. error_queue' \in Seq(SessionId) /\ s \in SessionId
        <5>1. error_queue' = Tail(error_queue) /\ error_queue \in Seq(SessionId)
          BY <1>14, <2>2 DEF dispatch_error_queue, QueueTypes
        <5> QED
          BY <2>2, <5>1, Pop
      <4> QED
        BY <1>14, <4>1 DEF dispatch_error_queue, QueueTypes
    <3>2. CASE session_id_coroutine[s] \notin Co
      <4>1. CoTypes' /\ SessionTypes'
        BY <1>14, <2>2, <3>2 DEF dispatch_error_queue, CoTypes
      <4> QED
        BY <1>14, <3>1, <4>1, NextTypes DEF dispatch_error_queue, answers
    <3>3. CASE session_id_coroutine[s] \in Co
      <4>1. /\ Resume(session_id_coroutine[s]) /\ pending' = pending
            /\ session_id_coroutine' = [session_id_coroutine EXCEPT ![s] = None]
            /\ watching_session' = [watching_session EXCEPT ![s] = None]
            /\ sleep_session' = sleep_session
        BY <1>14, <2>2, <3>3 DEF dispatch_error_queue
      <4> HIDE DEF s
      <4>2. CoTypes'
        BY <3>3, <4>1, ResumeType DEF CoTypes
      <4>3. SessionTypes'
        BY <3>1, <4>1 DEF SessionTypes
      <4> QED
        BY <1>14, <3>1, <4>2, <4>3, NextTypes DEF dispatch_error_queue, answers
    <3> QED
      BY <3>2, <3>3
  <2> QED
    BY <2>1, <2>2
<1>15. CASE RunForks
  <2>1. CoTypes' /\ QueueTypes'
    <3>1. ASSUME NEW co \in fork_queue, Resume(co), fork_queue' = fork_queue \ {co}, pending' = pending
          PROVE  CoTypes' /\ QueueTypes'
      BY <1>15, <3>1, ResumeType DEF RunForks, CoTypes, QueueTypes
    <3>2. CASE phase' = "idle" /\ UNCHANGED <<cur, pending, exited, st, fork_queue>>
      BY <1>15, <3>2 DEF RunForks, CoTypes, QueueTypes
    <3> QED
      BY <1>15, <3>1, <3>2 DEF RunForks
  <2> QED
    BY <1>15, <2>1, NextTypes DEF RunForks, answers
<1>16. CASE Gone
  BY <1>16 DEF Gone, TypeOK, Each, CoState
<1>17. ASSUME NEW s \in SessionId, Timeout(s) PROVE TypeOK'
  <2>1. PeerTypes'
    BY <1>17 DEF Timeout, PeerTypes
  <2> QED
    BY <1>17, <2>1, TakeResponseType, NextTypes DEF Timeout, answers
<1>18. ASSUME NEW p \in Peer, Dispatch(p) PROVE TypeOK'
  <2> DEFINE m == Head(chan[p])
  <2>1. m \in Message /\ PeerTypes' /\ OwedType' /\ phase = "idle"
    BY <1>18, PoppedChan DEF Dispatch, PeerTypes, answers
  <2>2. CASE m.type = "response" /\ TakeResponse(m.session)
    BY <2>1, <2>2, Messages, TakeResponseType, NextTypes
  <2>3. CASE m.type = "request" /\ TakeRequest(p, m.session)
    <3>1. m.session \in ReqSession
      BY <2>1, <2>3, Messages
    <3> DEFINE n == m.session
    <3> HIDE DEF n, m
    <3>2. TakeRequest(p, n) /\ n \in ReqSession
      BY <2>3, <3>1 DEF n
    <3>3. PICK co \in Fresh :
             /\ Resume(co)
             /\ session_coroutine_id' = [session_coroutine_id EXCEPT ![co] = n]
             /\ session_coroutine_address' = [session_coroutine_address EXCEPT ![co] = p]
      BY <3>2 DEF TakeRequest
    <3>4. co \in Co
      BY DEF Fresh
    <3>5. CoTypes'
      BY <3>2, <3>3, <3>4, ResumeType DEF TakeRequest, CoTypes
    <3>6. RequestTypes'
      BY <3>2, <3>3, <3>4 DEF TakeRequest, RequestTypes
    <3> QED
      BY <2>1, <3>2, <3>5, <3>6, NextTypes DEF TakeRequest
  <2>4. CASE m.type = "error" /\ TakeError(p, m.session)
    <3>1. m.session \in SessionId \cup {0}
      BY <2>1, <2>4, Messages
    <3> DEFINE s == m.session
    <3> HIDE DEF s, m
    <3>2. TakeError(p, s) /\ s \in SessionId \cup {0}
      BY <2>4, <3>1 DEF s
    <3>3. error_queue' \in Seq(SessionId)
      BY <2>1, <3>2, TakeErrorShape
    <3>4. QueueTypes'
      BY <3>2, <3>3 DEF TakeError, QueueTypes
    <3>5. PICK co \in Fresh :
             /\ st' = [st EXCEPT ![co] = "pool"]
             /\ session_coroutine_address' = [session_coroutine_address EXCEPT ![co] = p]
      BY <3>2 DEF TakeError
    <3>6. co \in Co
      BY DEF Fresh
    <3>7. CoTypes'
      BY <3>2, <3>5, <3>6 DEF TakeError, Suspend, CoTypes, CoState
    <3>8. RequestTypes'
      BY <3>2, <3>5, <3>6 DEF TakeError, RequestTypes
    <3> QED
      BY <2>1, <3>2, <3>4, <3>7, <3>8, NextTypes DEF TakeError
  <2> QED
    BY <1>18, <2>2, <2>3, <2>4 DEF Dispatch
<1>19. ASSUME NEW p \in Peer, Drop(p) PROVE TypeOK'
  <2>1. PeerTypes'
    BY <1>19, PoppedChan DEF Drop, PeerTypes
  <2>2. OwedType'
    BY <1>19 DEF Drop, OwedType
  <2> QED
    BY <1>19, <2>1, <2>2, NextTypes DEF Drop
<1>20. ASSUME NEW p \in Peer, PeerRequest(p) PROVE TypeOK'
  <2>1. PICK n \in ReqSession \ owed[p] : /\ Send(p, "request", n)
                                          /\ owed' = [owed EXCEPT ![p] = @ \cup ({n} \ {0})]
    BY <1>20 DEF PeerRequest
  <2>2. [type |-> "request", session |-> n] \in Message
    BY DEF Message
  <2>3. PeerTypes'
    BY <1>20, <2>1, <2>2, SentChan DEF PeerRequest, PeerTypes
  <2>4. OwedType'
    BY <2>1 DEF OwedType
  <2> QED
    BY <1>20, <2>3, <2>4, NextTypes DEF PeerRequest, Internal
<1>21. ASSUME NEW p \in Peer, NEW s \in SessionId, PeerAnswer(p, s) PROVE TypeOK'
  <2>1. PICK type \in {"response", "error"} : Send(p, type, s)
    BY <1>21 DEF PeerAnswer
  <2>2. [type |-> type, session |-> s] \in Message
    BY DEF Message
  <2>3. PeerTypes'
    BY <1>21, <2>1, <2>2, SentChan DEF PeerAnswer, PeerTypes
  <2> QED
    BY <1>21, <2>3, NextTypes DEF PeerAnswer, Internal, answers
<1>22. ASSUME NEW p \in Peer, PeerExit(p) PROVE TypeOK'
  <2>1. [type |-> "error", session |-> 0] \in Message
    BY DEF Message
  <2>2. chan' \in [Peer -> Seq(Message)]
    BY <1>22, <2>1, SentChan DEF PeerExit, PeerTypes
  <2>3. PeerTypes'
    BY <1>22, <2>2 DEF PeerExit, PeerTypes
  <2>4. OwedType'
    BY <1>22 DEF PeerExit, OwedType
  <2> QED
    BY <1>22, <2>3, <2>4, NextTypes DEF PeerExit, Internal
<1>23. ASSUME NEW p \in Peer, PeerDrop(p) PROVE TypeOK'
  <2>1. [type |-> "error", session |-> 0] \in Message
    BY DEF Message
  <2>2. chan' \in [Peer -> Seq(Message)]
    BY <1>23, <2>1, SentChan DEF PeerDrop
  <2>3. PeerTypes'
    BY <1>23, <2>2 DEF PeerDrop, PeerTypes
  <2> QED
    BY <1>23, <2>3, NextTypes DEF PeerDrop, Internal, answers
<1> QED
  BY <1>1, <1>2, <1>3, <1>4, <1>5, <1>6, <1>7, <1>8, <1>9, <1>10, <1>11, <1>12, <1>13, <1>14,
     <1>15, <1>16, <1>17, <1>18, <1>19, <1>20, <1>21, <1>22, <1>23 DEF Next

LEMMA ShapeStep == ASSUME TypeOK, Shape, Next PROVE Shape'
<1>1. CASE \/ ret \/ response
           \/ (\E co \in Co : wakeup(co)) \/ (\E r \in Peer \X ReqSession : respond(r))
           \/ \E p \in Peer : \/ Drop(p) \/ PeerRequest(p) \/ PeerExit(p) \/ PeerDrop(p)
                              \/ \E s \in SessionId : PeerAnswer(p, s)
  BY <1>1, QuietShape DEF ret, response, wakeup, respond, Drop, PeerRequest, PeerExit, PeerAnswer, PeerDrop,
                          control, queues, Internal
<1>2. ASSUME NEW s \in SessionId, Timeout(s) PROVE Shape'
  BY <1>2, TakeResponseShape DEF Timeout
<1>3. ASSUME NEW p \in Peer, Dispatch(p) PROVE Shape'
  <2> DEFINE m == Head(chan[p])
  <2>1. m \in Message /\ phase = "idle"
    BY <1>3, Types, PoppedChan DEF Dispatch
  <2>2. CASE m.type = "response" /\ TakeResponse(m.session)
    BY <2>1, <2>2, Messages, TakeResponseShape
  <2>3. CASE m.type = "request" /\ TakeRequest(p, m.session)
    BY <2>1, <2>3, TakeRequestShape
  <2>4. CASE m.type = "error" /\ TakeError(p, m.session)
    BY <2>1, <2>4, Messages, TakeErrorShape
  <2> QED
    BY <1>3, <2>2, <2>3, <2>4 DEF Dispatch
<1> QED
  BY <1>1, <1>2, <1>3, CallShape, SleepShape, ForkShape, TimeoutShape, FinishShape, RaiseShape,
     ExitShape, WakeupShape, ErrorQueueShape, RunForksShape, GoneShape DEF Next
-----------------------------------------------------------------------------
\* Tracked, for coroutines that have a request only while they serve it.
Placed(p, n) == \/ Mailed(p, n)
                \/ \E co \in Co : Serves(co, p, n)
                \/ <<p, n>> \in unresponse
                \/ <<p, n>> \in lost
Kept == \A p \in Peer, n \in ReqSession : n \in owed[p] => Placed(p, n)

RequestInv == /\ Requests /\ Kept /\ AnsweredOnce
              /\ ~exited => OnePlace

LEMMA KeptTracked == Requests /\ Kept => Tracked
<1> SUFFICES ASSUME Requests, Kept, NEW p \in Peer, NEW n \in ReqSession, n \in owed[p]
             PROVE  \/ \E i \in 1..Len(chan[p]) : chan[p][i] = [type |-> "request", session |-> n]
                    \/ \E co \in Co : /\ session_coroutine_address[co] = p
                                      /\ session_coroutine_id[co] = n
                                      /\ st[co] \in {"run", "call", "sleep", "wait"}
                    \/ <<p, n>> \in unresponse
                    \/ <<p, n>> \in lost
  BY DEF Tracked
<1>1. n # None
  BY SessionAssumption
<1>2. CASE Mailed(p, n)
  BY <1>2 DEF Mailed, Contains, Req
<1>3. ASSUME NEW co \in Co, Serves(co, p, n)
      PROVE  /\ session_coroutine_address[co] = p /\ session_coroutine_id[co] = n
             /\ st[co] \in {"run", "call", "sleep", "wait"}
  BY <1>1, <1>3 DEF Serves, Requests, Serving
<1> QED
  BY <1>2, <1>3 DEF Kept, Placed

LEMMA PopMail ==
    ASSUME PeerTypes, NEW p \in Peer, chan[p] # <<>>, chan' = [chan EXCEPT ![p] = Tail(@)]
    PROVE  /\ \A r \in Peer, n \in ReqSession :
                 /\ Mailed(r, n) <=> Mailed(r, n)' \/ (r = p /\ Head(chan[p]) = Req(n))
                 /\ Once(chan[r], Req(n)) => Once(chan'[r], Req(n))
           /\ \A n \in ReqSession : Head(chan[p]) = Req(n) /\ Once(chan[p], Req(n)) => ~Mailed(p, n)'
<1>1. chan'[p] = Tail(chan[p]) /\ \A r \in Peer \ {p} : chan'[r] = chan[r]
  BY PoppedChan
<1>2. chan[p] \in Seq(Message)
  BY DEF PeerTypes
<1>3. /\ \A x : Contains(chan[p], x) <=> x = Head(chan[p]) \/ Contains(Tail(chan[p]), x)
      /\ \A x : Once(chan[p], x) => Once(Tail(chan[p]), x)
      /\ Once(chan[p], Head(chan[p])) => ~Contains(Tail(chan[p]), Head(chan[p]))
  BY <1>2, Pop
<1>4. ASSUME NEW r \in Peer, NEW n \in ReqSession
      PROVE  /\ Mailed(r, n) <=> Mailed(r, n)' \/ (r = p /\ Head(chan[p]) = Req(n))
             /\ Once(chan[r], Req(n)) => Once(chan'[r], Req(n))
  <2>1. CASE r = p
    BY <1>1, <1>3, <2>1 DEF Mailed
  <2>2. CASE r # p
    BY <1>1, <2>2 DEF Mailed
  <2> QED
    BY <2>1, <2>2
<1>5. ASSUME NEW n \in ReqSession, Head(chan[p]) = Req(n), Once(chan[p], Req(n))
      PROVE  ~Mailed(p, n)'
  BY <1>1, <1>3, <1>5 DEF Mailed
<1> QED
  BY <1>4, <1>5

LEMMA SendMail ==
    ASSUME PeerTypes, NEW p \in Peer, NEW type, NEW s,
           [type |-> type, session |-> s] \in Message, Send(p, type, s)
    PROVE  \A r \in Peer, n \in ReqSession :
                 /\ Mailed(r, n)' <=> Mailed(r, n) \/ (r = p /\ type = "request" /\ s = n)
                 /\ Once(chan[r], Req(n)) /\ (r = p /\ type = "request" /\ s = n => ~Mailed(r, n))
                       => Once(chan'[r], Req(n))
<1> DEFINE m == [type |-> type, session |-> s]
<1>1. m \in Message /\ \A n : m = Req(n) <=> type = "request" /\ s = n
  BY DEF Req
<1>2. chan'[p] = Append(chan[p], m) /\ \A r \in Peer \ {p} : chan'[r] = chan[r]
  BY SentChan
<1>3. chan[p] \in Seq(Message)
  BY DEF PeerTypes
<1> HIDE DEF m
<1>4. /\ \A x : Contains(Append(chan[p], m), x) <=> x = m \/ Contains(chan[p], x)
      /\ \A x : Once(chan[p], x) /\ (x = m => ~Contains(chan[p], x)) => Once(Append(chan[p], m), x)
  BY <1>1, <1>3, Push
<1> SUFFICES ASSUME NEW r \in Peer, NEW n \in ReqSession
             PROVE  /\ Mailed(r, n)' <=> Mailed(r, n) \/ (r = p /\ type = "request" /\ s = n)
                    /\ Once(chan[r], Req(n)) /\ (r = p /\ type = "request" /\ s = n => ~Mailed(r, n))
                          => Once(chan'[r], Req(n))
  OBVIOUS
<1>5. CASE r = p
  BY <1>1, <1>2, <1>4, <1>5 DEF Mailed
<1>6. CASE r # p
  BY <1>2, <1>6 DEF Mailed
<1> QED
  BY <1>5, <1>6

\* Requests stay where they are: mailboxes keep theirs, and a coroutine that has one goes
\* on with it.
LEMMA QuietRequests ==
    ASSUME TypeOK, RequestInv,
           UNCHANGED <<unresponse, owed, alive, lost, twice>>, exited => exited',
           \A p \in Peer, n \in ReqSession :
              /\ Mailed(p, n)' <=> Mailed(p, n)
              /\ Once(chan[p], Req(n)) => Once(chan'[p], Req(n)),
           \A co \in Co :
              \/ session_coroutine_id[co] \in {None, 0} /\ session_coroutine_id'[co] = None
              \/ /\ session_coroutine_id'[co] = session_coroutine_id[co]
                 /\ session_coroutine_address'[co] = session_coroutine_address[co]
                 /\ st'[co] \in Serving,
           phase' = "gone" => phase = "gone"
    PROVE  RequestInv'
<1> USE SessionAssumption
<1>0. None \notin ReqSession
  OBVIOUS
<1>1. Requests'
  BY DEF RequestInv, Requests
<1>2. \A co \in Co, p \in Peer, n \in ReqSession \ {0} : Serves(co, p, n)' <=> Serves(co, p, n)
  BY <1>0 DEF Serves
<1>3. Kept'
  <2> SUFFICES ASSUME NEW p \in Peer, NEW n \in ReqSession, n \in owed[p] PROVE Placed(p, n)'
    BY DEF Kept
  <2>1. n # 0 /\ Placed(p, n)
    BY DEF RequestInv, Requests, Kept
  <2> QED
    BY <1>2, <2>1 DEF Placed
<1>4. AnsweredOnce'
  BY DEF RequestInv, AnsweredOnce
<1>5. ASSUME ~exited' PROVE OnePlace'
  <2>1. OnePlace /\ \A p \in alive : p \in Peer
    BY <1>5 DEF RequestInv, TypeOK
  <2> SUFFICES ASSUME NEW p \in alive, NEW n \in ReqSession \ {0}
               PROVE  PlaceOf(p, n)'
    BY DEF OnePlace
  <2>2. PlaceOf(p, n) /\ p \in Peer
    BY <2>1 DEF OnePlace
  <2> QED
    BY <1>2, <2>2 DEF PlaceOf
<1> QED
  BY <1>1, <1>3, <1>4, <1>5 DEF RequestInv

\* What the answers to the requests of R leave to be answered.
LEMMA AnswerOwed ==
    ASSUME OwedType, NEW R \in SUBSET (Peer \X ReqSession), Answer(R)
    PROVE  /\ \A p \in Peer : \A n : n \in owed'[p] <=> n \in owed[p] /\ <<p, n>> \notin R
           /\ lost' = lost
           /\ \/ exited
              \/ \A p \in alive, n \in ReqSession \ {0} : <<p, n>> \in R => n \in owed[p]
              => (AnsweredOnce => AnsweredOnce')
<1>1. ASSUME NEW p \in Peer, NEW n
      PROVE  n \in owed'[p] <=> n \in owed[p] /\ <<p, n>> \notin R
  <2>1. owed'[p] = owed[p] \ {r[2] : r \in {q \in R : q[1] = p}}
    BY DEF Answer
  <2>2. n \in {r[2] : r \in {q \in R : q[1] = p}} <=> <<p, n>> \in R
    <3>1. \A r \in R : r = <<r[1], r[2]>>
      OBVIOUS
    <3> QED
      BY <3>1
  <2> QED
    BY <2>1, <2>2
<1>2. lost' = lost
  BY DEF Answer
<1>3. ASSUME \/ exited
             \/ \A p \in alive, n \in ReqSession \ {0} : <<p, n>> \in R => n \in owed[p],
             AnsweredOnce
      PROVE  AnsweredOnce'
  <2>1. ASSUME ~exited, NEW r \in R, r[1] \in alive, r[2] # 0 PROVE r[2] \in owed[r[1]]
    <3>1. r = <<r[1], r[2]>> /\ r[2] \in ReqSession
      OBVIOUS
    <3> QED
      BY <1>3, <2>1, <3>1
  <2> QED
    BY <1>3, <2>1 DEF Answer, AnsweredOnce
<1> QED
  BY <1>1, <1>2, <1>3

\* The requests of R are answered, and leave the places where they are.
LEMMA AnswerRequests ==
    ASSUME TypeOK, RequestInv, NEW R \in SUBSET (Peer \X ReqSession), Answer(R),
           UNCHANGED <<alive, chan>>, exited => exited',
           \A co \in Co :
              \/ /\ session_coroutine_id'[co] = None
                 /\ session_coroutine_id[co] \notin {None, 0} =>
                       <<session_coroutine_address[co], session_coroutine_id[co]>> \in R
              \/ /\ session_coroutine_id'[co] = session_coroutine_id[co]
                 /\ session_coroutine_address'[co] = session_coroutine_address[co]
                 /\ st'[co] \in Serving,
           unresponse' \subseteq unresponse, \A r \in unresponse : r \in unresponse' \cup R,
           ~exited => \A p \in alive, n \in ReqSession \ {0} : <<p, n>> \in R =>
              \/ <<p, n>> \in unresponse \/ \E co \in Co : Serves(co, p, n)
              \/ exited' /\ n \in owed[p],
           ~exited' => \A p \in alive, n \in ReqSession \ {0} : <<p, n>> \in R =>
              <<p, n>> \notin unresponse' /\ \A co \in Co : ~Serves(co, p, n)',
           phase' # "gone"
    PROVE  RequestInv'
<1> USE SessionAssumption
<1>0. None \notin ReqSession /\ \A p \in alive : p \in Peer
  BY DEF TypeOK
<1>1. ~exited => \A p \in alive, n \in ReqSession \ {0} : PlaceOf(p, n)
  BY DEF RequestInv, OnePlace
<1>2. ~exited => \A p \in alive, n \in ReqSession \ {0} : <<p, n>> \in R => n \in owed[p]
  BY <1>1 DEF PlaceOf
<1>3. /\ \A p \in Peer : \A n : n \in owed'[p] <=> n \in owed[p] /\ <<p, n>> \notin R
      /\ lost' = lost
      /\ AnsweredOnce'
  BY <1>2, AnswerOwed, Types DEF RequestInv
<1>4. Requests'
  BY <1>3 DEF RequestInv, Requests
<1>5. ASSUME NEW co \in Co, NEW p \in Peer, NEW n \in ReqSession \ {0}
      PROVE  /\ Serves(co, p, n)' => Serves(co, p, n)
             /\ Serves(co, p, n) => Serves(co, p, n)' \/ <<p, n>> \in R
  <2>1. n \notin {None, 0}
    BY <1>0
  <2>2. CASE session_coroutine_id'[co] = None
    <3>1. ~Serves(co, p, n)'
      BY <2>1, <2>2 DEF Serves
    <3>2. ASSUME Serves(co, p, n) PROVE <<p, n>> \in R
      <4>1. session_coroutine_id[co] = n /\ session_coroutine_address[co] = p
        BY <3>2 DEF Serves
      <4>2. session_coroutine_id'[co] # session_coroutine_id[co]
        BY <2>1, <2>2, <4>1
      <4> QED
        BY <2>1, <4>1, <4>2
    <3> QED
      BY <3>1, <3>2
  <2>3. CASE session_coroutine_id'[co] # None
    BY <2>3 DEF Serves
  <2> QED
    BY <2>2, <2>3
<1>6. Kept'
  <2> SUFFICES ASSUME NEW p \in Peer, NEW n \in ReqSession, n \in owed'[p] PROVE Placed(p, n)'
    BY DEF Kept
  <2>1. n # 0 /\ Placed(p, n) /\ <<p, n>> \notin R
    BY <1>3 DEF RequestInv, Requests, Kept
  <2>2. Mailed(p, n)' <=> Mailed(p, n)
    BY DEF Mailed
  <2> QED
    BY <1>3, <1>5, <2>1, <2>2 DEF Placed
<1>7. ASSUME ~exited' PROVE OnePlace'
  <2> SUFFICES ASSUME NEW p \in alive, NEW n \in ReqSession \ {0} PROVE PlaceOf(p, n)'
    BY DEF OnePlace
  <2>1. PlaceOf(p, n) /\ p \in Peer
    BY <1>0, <1>1, <1>7
  <2>2. (Mailed(p, n)' <=> Mailed(p, n)) /\ chan'[p] = chan[p]
    BY DEF Mailed
  <2>3. \A co \in Co : Serves(co, p, n)' => Serves(co, p, n)
    BY <1>5, <2>1
  <2>4. CASE <<p, n>> \in R
    <3>1. <<p, n>> \notin unresponse' /\ \A co \in Co : ~Serves(co, p, n)'
      BY <1>7, <2>4
    <3>2. ~Mailed(p, n)
      BY <1>7, <2>1, <2>4 DEF PlaceOf
    <3> QED
      BY <2>1, <2>2, <3>1, <3>2 DEF PlaceOf
  <2>5. CASE <<p, n>> \notin R
    <3>1. n \in owed'[p] <=> n \in owed[p]
      BY <1>3, <2>1, <2>5
    <3> QED
      BY <2>1, <2>2, <2>3, <3>1 DEF PlaceOf
  <2> QED
    BY <2>4, <2>5
<1> QED
  BY <1>3, <1>4, <1>6, <1>7 DEF RequestInv

\* The running coroutine has a request, and nobody else has it.
LEMMA MineOnly ==
    ASSUME TypeOK, Shape, RequestInv, Running, session_coroutine_id[cur] # None
    PROVE  /\ cur \in Co /\ Mine \in Peer \X ReqSession
           /\ Serves(cur, Mine[1], Mine[2])
           /\ ~exited => \A p \in alive, n \in ReqSession \ {0} : <<p, n>> = Mine =>
                 <<p, n>> \notin unresponse /\ \A co \in Co : Serves(co, p, n) => co = cur
<1>1. cur \in Co
  BY Running1
<1>2. session_coroutine_address[cur] \in Peer /\ session_coroutine_id[cur] \in ReqSession
  BY <1>1 DEF RequestInv, Requests, TypeOK
<1>3. Serves(cur, Mine[1], Mine[2])
  BY DEF Serves, Mine
<1>4. ASSUME ~exited, NEW p \in alive, NEW n \in ReqSession \ {0}, <<p, n>> = Mine
      PROVE  <<p, n>> \notin unresponse /\ \A co \in Co : Serves(co, p, n) => co = cur
  <2>1. Serves(cur, p, n)
    BY <1>4 DEF Serves, Mine
  <2>2. PlaceOf(p, n)
    BY <1>4 DEF RequestInv, OnePlace
  <2> QED
    BY <1>1, <2>1, <2>2 DEF PlaceOf
<1> QED
  BY <1>1, <1>2, <1>3, <1>4 DEF Mine

LEMMA RetRequests == ASSUME TypeOK, Shape, RequestInv, ret PROVE RequestInv'
<1> DEFINE R == {Mine}
<1>1. /\ cur \in Co /\ Mine \in Peer \X ReqSession
      /\ Serves(cur, Mine[1], Mine[2])
      /\ ~exited => \A p \in alive, n \in ReqSession \ {0} : <<p, n>> = Mine =>
            <<p, n>> \notin unresponse /\ \A co \in Co : Serves(co, p, n) => co = cur
  BY MineOnly DEF ret
<1>2. /\ Answer(R) /\ UNCHANGED <<alive, chan, exited, st, unresponse, session_coroutine_address>>
      /\ session_coroutine_id' = [session_coroutine_id EXCEPT ![cur] = None]
      /\ phase' = phase /\ phase = "run"
  BY DEF ret, Running, control, peers
<1>3. session_coroutine_id'[cur] = None /\ \A co \in Co \ {cur} : session_coroutine_id'[co] = session_coroutine_id[co]
  BY <1>1, <1>2 DEF TypeOK
<1>4. R \in SUBSET (Peer \X ReqSession)
  BY <1>1
<1>5. ASSUME NEW co \in Co
      PROVE  \/ /\ session_coroutine_id'[co] = None
                /\ session_coroutine_id[co] \notin {None, 0} =>
                      <<session_coroutine_address[co], session_coroutine_id[co]>> \in R
             \/ /\ session_coroutine_id'[co] = session_coroutine_id[co]
                /\ session_coroutine_address'[co] = session_coroutine_address[co]
                /\ st'[co] \in Serving
  <2>1. CASE co = cur
    BY <1>3, <2>1 DEF Mine
  <2>2. CASE co # cur
    BY <1>2, <1>3, <2>2 DEF RequestInv, Requests
  <2> QED
    BY <2>1, <2>2
<1>6. \A p \in alive, n \in ReqSession \ {0} : <<p, n>> \in R => \E co \in Co : Serves(co, p, n)
  BY <1>1 DEF Serves, Mine
<1>7. \A co \in Co, p \in alive, n \in ReqSession : Serves(co, p, n)' => co # cur /\ Serves(co, p, n)
  BY <1>2, <1>3, SessionAssumption DEF Serves
<1>8. ~exited => \A p \in alive, n \in ReqSession \ {0} : <<p, n>> \in R =>
         <<p, n>> \notin unresponse /\ \A co \in Co : ~Serves(co, p, n)'
  BY <1>1, <1>7
<1> HIDE DEF R
<1> QED
  BY <1>2, <1>4, <1>5, <1>6, <1>8, AnswerRequests

LEMMA RespondRequests ==
    ASSUME TypeOK, Shape, RequestInv, NEW r \in Peer \X ReqSession, respond(r) PROVE RequestInv'
<1> DEFINE R == {r}
<1>1. /\ Answer(R) /\ UNCHANGED <<alive, chan, exited, st, session_coroutine_id, session_coroutine_address>>
      /\ r \in unresponse /\ unresponse' = unresponse \ {r}
      /\ phase' = phase /\ phase = "run"
  BY DEF respond, Running, control, peers
<1>2. R \in SUBSET (Peer \X ReqSession) /\ \A x \in unresponse : x \in unresponse' \cup R
  BY <1>1
<1>3. ASSUME NEW co \in Co
      PROVE  \/ /\ session_coroutine_id'[co] = None
                /\ session_coroutine_id[co] \notin {None, 0} =>
                      <<session_coroutine_address[co], session_coroutine_id[co]>> \in R
             \/ /\ session_coroutine_id'[co] = session_coroutine_id[co]
                /\ session_coroutine_address'[co] = session_coroutine_address[co]
                /\ st'[co] \in Serving
  BY <1>1 DEF RequestInv, Requests
<1>4. \A p \in alive, n \in ReqSession \ {0} : <<p, n>> \in R => <<p, n>> \in unresponse
  BY <1>1
<1>5. ~exited => \A p \in alive, n \in ReqSession \ {0} : <<p, n>> \in R =>
         <<p, n>> \notin unresponse' /\ \A co \in Co : ~Serves(co, p, n)'
  <2> SUFFICES ASSUME ~exited, NEW p \in alive, NEW n \in ReqSession \ {0}, <<p, n>> \in R
               PROVE  <<p, n>> \notin unresponse' /\ \A co \in Co : ~Serves(co, p, n)'
    OBVIOUS
  <2>1. PlaceOf(p, n)
    BY DEF RequestInv, OnePlace
  <2>2. \A co \in Co : ~Serves(co, p, n)
    BY <1>4, <2>1 DEF PlaceOf
  <2> QED
    BY <1>1, <2>2 DEF Serves
<1> HIDE DEF R
<1> QED
  BY <1>1, <1>2, <1>3, <1>4, <1>5, AnswerRequests

LEMMA RaiseRequests == ASSUME TypeOK, Shape, RequestInv, Raise PROVE RequestInv'
<1>1. /\ UNCHANGED <<alive, chan, exited, unresponse>> /\ phase' = "forks" /\ Running
      /\ session_coroutine_id' = [session_coroutine_id EXCEPT ![cur] = None]
      /\ session_coroutine_address' = [session_coroutine_address EXCEPT ![cur] = None]
  BY DEF Raise, peers
<1>2. PICK c \in Fresh \cup {cur} : st' = [st EXCEPT ![cur] = "none", ![c] = "fork"]
  BY DEF Raise
<1>3. cur \in Co /\ st[cur] = "run"
  BY <1>1, Running1
<1>4. /\ session_coroutine_id'[cur] = None
      /\ \A co \in Co \ {cur} : /\ session_coroutine_id'[co] = session_coroutine_id[co]
                                /\ session_coroutine_address'[co] = session_coroutine_address[co]
  BY <1>1, <1>3 DEF TypeOK
<1>5. ASSUME NEW co \in Co \ {cur}, session_coroutine_id[co] # None PROVE st'[co] \in Serving
  <2>1. st[co] \in Serving
    BY <1>5 DEF RequestInv, Requests
  <2>2. c # co
    BY <2>1 DEF Fresh, Serving
  <2>3. c \in Co
    BY <1>3 DEF Fresh
  <2>4. st'[co] = st[co]
    BY <1>2, <1>3, <2>2, <2>3 DEF TypeOK
  <2> QED
    BY <2>1, <2>4
<1>6. CASE session_coroutine_id[cur] \in {None, 0}
  <2>1. UNCHANGED <<owed, lost, twice>>
    BY <1>6 DEF Raise, answers
  <2>2. ASSUME NEW co \in Co
        PROVE  \/ session_coroutine_id[co] \in {None, 0} /\ session_coroutine_id'[co] = None
               \/ /\ session_coroutine_id'[co] = session_coroutine_id[co]
                  /\ session_coroutine_address'[co] = session_coroutine_address[co]
                  /\ st'[co] \in Serving
    BY <1>4, <1>5, <1>6
  <2>3. \A p \in Peer, n \in ReqSession : Mailed(p, n)' <=> Mailed(p, n)
    BY <1>1 DEF Mailed
  <2> QED
    BY <1>1, <2>1, <2>2, <2>3, QuietRequests
<1>7. CASE session_coroutine_id[cur] \notin {None, 0}
  <2> DEFINE R == {Mine}
  <2>1. /\ Mine \in Peer \X ReqSession /\ Serves(cur, Mine[1], Mine[2])
        /\ ~exited => \A p \in alive, n \in ReqSession \ {0} : <<p, n>> = Mine =>
              <<p, n>> \notin unresponse /\ \A co \in Co : Serves(co, p, n) => co = cur
    BY <1>1, <1>7, MineOnly
  <2>2. Answer(R)
    BY <1>7 DEF Raise
  <2>3. ASSUME NEW co \in Co
        PROVE  \/ /\ session_coroutine_id'[co] = None
                  /\ session_coroutine_id[co] \notin {None, 0} =>
                        <<session_coroutine_address[co], session_coroutine_id[co]>> \in R
               \/ /\ session_coroutine_id'[co] = session_coroutine_id[co]
                  /\ session_coroutine_address'[co] = session_coroutine_address[co]
                  /\ st'[co] \in Serving
    BY <1>4, <1>5 DEF Mine
  <2>4. \A p \in alive, n \in ReqSession \ {0} : <<p, n>> \in R => \E co \in Co : Serves(co, p, n)
    BY <1>3, <2>1 DEF Serves, Mine
  <2>5. \A co \in Co, p \in alive, n \in ReqSession : Serves(co, p, n)' => co # cur /\ Serves(co, p, n)
    BY <1>4, SessionAssumption DEF Serves
  <2>6. ~exited => \A p \in alive, n \in ReqSession \ {0} : <<p, n>> \in R =>
           <<p, n>> \notin unresponse /\ \A co \in Co : ~Serves(co, p, n)'
    BY <2>1, <2>5
  <2>7. R \in SUBSET (Peer \X ReqSession)
    BY <2>1
  <2> HIDE DEF R
  <2> QED
    BY <1>1, <2>2, <2>3, <2>4, <2>6, <2>7, AnswerRequests
<1> QED
  BY <1>6, <1>7

LEMMA ExitRequests == ASSUME TypeOK, Shape, RequestInv, exit PROVE RequestInv'
<1> DEFINE R == unresponse \cup Held \cup OfCalled
<1>1. /\ Answer(R) /\ UNCHANGED <<alive, chan>> /\ exited' = TRUE
      /\ unresponse' = {} /\ phase' \in {"error", "forks"}
      /\ st' = [co \in Co |-> IF co = cur \/ co \in fork_queue THEN "none" ELSE st[co]]
      /\ session_coroutine_id' = [session_coroutine_id EXCEPT ![cur] = None]
      /\ session_coroutine_address' = [co \in Co |-> IF co = cur \/ co \in fork_queue THEN None
                                                     ELSE session_coroutine_address[co]]
  BY DEF exit, Return, peers
<1>2. cur \in Co
  BY Running1 DEF exit
<1>3. \A co \in Co : session_coroutine_id[co] \notin {None, 0} =>
         <<session_coroutine_address[co], session_coroutine_id[co]>> \in R
  BY DEF Held
<1>4. Held \subseteq Peer \X ReqSession
  BY DEF Held, RequestInv, Requests, TypeOK
<1>5. R \in SUBSET (Peer \X ReqSession)
  BY <1>4 DEF TypeOK, OfCalled
<1>6. ASSUME NEW co \in Co
      PROVE  \/ /\ session_coroutine_id'[co] = None
                /\ session_coroutine_id[co] \notin {None, 0} =>
                      <<session_coroutine_address[co], session_coroutine_id[co]>> \in R
             \/ /\ session_coroutine_id'[co] = session_coroutine_id[co]
                /\ session_coroutine_address'[co] = session_coroutine_address[co]
                /\ st'[co] \in Serving
  <2>1. CASE co = cur
    <3>1. session_coroutine_id'[co] = None
      BY <1>1, <1>2, <2>1 DEF TypeOK
    <3> QED
      BY <1>3, <3>1
  <2>2. CASE co # cur
    <3>1. session_coroutine_id'[co] = session_coroutine_id[co]
      BY <1>1, <1>2, <2>2 DEF TypeOK
    <3>2. CASE session_coroutine_id[co] = None
      BY <3>1, <3>2
    <3>3. CASE session_coroutine_id[co] # None
      <4>1. st[co] \in Serving
        BY <3>3 DEF RequestInv, Requests
      <4>2. co \notin fork_queue
        BY <4>1 DEF Shape, OneRuns, Serving
      <4> QED
        BY <1>1, <2>2, <3>1, <4>1, <4>2
    <3> QED
      BY <3>2, <3>3
  <2> QED
    BY <2>1, <2>2
<1>7. \A p \in alive, n \in ReqSession \ {0} : <<p, n>> \in R =>
         \/ <<p, n>> \in unresponse \/ \E co \in Co : Serves(co, p, n)
         \/ n \in owed[p]
  <2>2. ASSUME NEW p, NEW n, <<p, n>> \in OfCalled PROVE n \in owed[p]
    BY <2>2 DEF OfCalled
  <2> SUFFICES ASSUME NEW p \in alive, NEW n \in ReqSession \ {0}, <<p, n>> \in Held
               PROVE  \E co \in Co : Serves(co, p, n)
    BY <2>2
  <2>1. PICK co \in Co : <<p, n>> = <<session_coroutine_address[co], session_coroutine_id[co]>>
    BY DEF Held
  <2> QED
    BY <2>1 DEF Serves
<1>8. unresponse' \subseteq unresponse /\ \A r \in unresponse : r \in unresponse' \cup R
  BY <1>1
<1> HIDE DEF R
<1> QED
  BY <1>1, <1>5, <1>6, <1>7, <1>8, AnswerRequests

LEMMA ResponseRequests == ASSUME TypeOK, Shape, RequestInv, response PROVE RequestInv'
<1> USE SessionAssumption
<1>1. /\ UNCHANGED <<alive, chan, exited, st, owed, twice, session_coroutine_address>>
      /\ session_coroutine_id' = [session_coroutine_id EXCEPT ![cur] = None]
      /\ phase' = phase /\ phase = "run" /\ Running /\ session_coroutine_id[cur] # None
  BY DEF response, Running, control, peers
<1>2. /\ cur \in Co /\ Mine \in Peer \X ReqSession
      /\ ~exited => \A p \in alive, n \in ReqSession \ {0} : <<p, n>> = Mine =>
            <<p, n>> \notin unresponse /\ \A co \in Co : Serves(co, p, n) => co = cur
  BY <1>1, MineOnly
<1>3. session_coroutine_id'[cur] = None /\ \A co \in Co \ {cur} : session_coroutine_id'[co] = session_coroutine_id[co]
  BY <1>1, <1>2 DEF TypeOK
<1>4. \/ unresponse' = unresponse \cup {Mine} /\ lost' = lost
      \/ unresponse' = unresponse /\ lost' = lost \cup ({Mine} \ (Peer \X {0}))
  BY DEF response
<1>5. Requests'
  BY <1>1, <1>2, <1>3 DEF RequestInv, Requests
<1>6. ASSUME NEW co \in Co, NEW p \in Peer, NEW n \in ReqSession
      PROVE  /\ Serves(co, p, n)' <=> Serves(co, p, n) /\ co # cur
             /\ Serves(cur, p, n) => <<p, n>> = Mine
  <2>1. CASE co = cur
    BY <1>1, <1>3, <2>1 DEF Serves, Mine
  <2>2. CASE co # cur
    BY <1>1, <1>3, <2>2 DEF Serves, Mine
  <2> QED
    BY <2>1, <2>2
<1>7. \A p \in Peer, n \in ReqSession : Mailed(p, n)' <=> Mailed(p, n)
  BY <1>1 DEF Mailed
<1>8. Kept'
  <2> SUFFICES ASSUME NEW p \in Peer, NEW n \in ReqSession, n \in owed[p] PROVE Placed(p, n)'
    BY <1>1 DEF Kept
  <2>1. n # 0 /\ Placed(p, n)
    BY DEF RequestInv, Requests, Kept
  <2>2. CASE <<p, n>> = Mine
    <3>1. <<p, n>> \notin Peer \X {0}
      BY <2>1
    <3> QED
      BY <1>4, <2>2, <3>1 DEF Placed
  <2>3. CASE <<p, n>> # Mine
    BY <1>4, <1>6, <1>7, <2>1, <2>3 DEF Placed
  <2> QED
    BY <2>2, <2>3
<1>9. AnsweredOnce'
  BY <1>1 DEF RequestInv, AnsweredOnce
<1>10. ASSUME ~exited' PROVE OnePlace'
  <2> SUFFICES ASSUME NEW p \in alive, NEW n \in ReqSession \ {0} PROVE PlaceOf(p, n)'
    BY <1>1 DEF OnePlace
  <2>1. PlaceOf(p, n) /\ p \in Peer
    BY <1>1, <1>10 DEF RequestInv, OnePlace, TypeOK
  <2>2. CASE <<p, n>> = Mine
    <3>1. Serves(cur, p, n)
      BY <2>2 DEF Mine, Serves
    <3>2. n \in owed[p] /\ ~Mailed(p, n) /\ \A co \in Co : Serves(co, p, n) => co = cur
      BY <1>2, <2>1, <3>1 DEF PlaceOf
    <3>3. \A co \in Co : ~Serves(co, p, n)'
      BY <1>6, <2>1, <3>2
    <3> QED
      BY <1>1, <1>7, <2>1, <3>2, <3>3 DEF PlaceOf
  <2>3. CASE <<p, n>> # Mine
    <3>1. <<p, n>> \in unresponse' <=> <<p, n>> \in unresponse
      BY <1>4, <2>3
    <3>2. \A co \in Co : Serves(co, p, n)' => Serves(co, p, n)
      BY <1>6, <2>1
    <3> QED
      BY <1>1, <1>7, <2>1, <3>1, <3>2 DEF PlaceOf
  <2> QED
    BY <2>2, <2>3
<1> QED
  BY <1>5, <1>8, <1>9, <1>10 DEF RequestInv

LEMMA FinishRequests == ASSUME TypeOK, Shape, RequestInv, Finish PROVE RequestInv'
<1>1. /\ UNCHANGED <<alive, chan, exited, unresponse, session_coroutine_address, owed, twice, lost>>
      /\ phase' = "wakeup" /\ Running /\ session_coroutine_id[cur] \in {None, 0}
      /\ st' = [st EXCEPT ![cur] = "pool"]
  BY DEF Finish, Suspend, peers, answers
<1>2. cur \in Co
  BY <1>1, Running1
<1>3. session_coroutine_id'[cur] = None /\ \A co \in Co \ {cur} : session_coroutine_id'[co] = session_coroutine_id[co]
  <2>1. CASE session_coroutine_address[cur] # None
    BY <1>2, <2>1 DEF Finish, TypeOK
  <2>2. CASE session_coroutine_address[cur] = None
    <3>1. session_coroutine_id[cur] = None
      BY <1>2, <2>2, SessionAssumption DEF RequestInv, Requests
    <3> QED
      BY <2>2, <3>1 DEF Finish
  <2> QED
    BY <2>1, <2>2
<1>4. ASSUME NEW co \in Co
      PROVE  \/ session_coroutine_id[co] \in {None, 0} /\ session_coroutine_id'[co] = None
             \/ /\ session_coroutine_id'[co] = session_coroutine_id[co]
                /\ session_coroutine_address'[co] = session_coroutine_address[co]
                /\ st'[co] \in Serving
  <2>1. CASE co = cur
    BY <1>1, <1>3, <2>1
  <2>2. CASE co # cur
    <3>1. st'[co] = st[co]
      BY <1>1, <1>2, <2>2 DEF TypeOK
    <3>2. session_coroutine_id[co] # None => st[co] \in Serving
      BY DEF RequestInv, Requests
    <3> QED
      BY <1>1, <1>3, <2>2, <3>1, <3>2
  <2> QED
    BY <2>1, <2>2
<1>5. \A p \in Peer, n \in ReqSession : Mailed(p, n)' <=> Mailed(p, n)
  BY <1>1 DEF Mailed
<1> QED
  BY <1>1, <1>4, <1>5, QuietRequests

LEMMA GoneRequests == ASSUME TypeOK, Shape, RequestInv, Gone PROVE RequestInv'
<1>1. /\ UNCHANGED <<alive, chan, exited, owed, twice>> /\ exited
      /\ lost' = lost \cup {r \in Held \cup unresponse : r[2] \in owed[r[1]]}
      /\ session_coroutine_id' = Each(Co, None)
  BY DEF Gone
<1>2. Requests'
  BY <1>1, SessionAssumption DEF RequestInv, Requests, Each
<1>3. Kept'
  <2> SUFFICES ASSUME NEW p \in Peer, NEW n \in ReqSession, n \in owed[p] PROVE Placed(p, n)'
    BY <1>1 DEF Kept
  <2>1. n # 0 /\ Placed(p, n)
    BY DEF RequestInv, Requests, Kept
  <2>2. CASE Mailed(p, n)
    BY <1>1, <2>2 DEF Placed, Mailed
  <2>3. CASE \E co \in Co : Serves(co, p, n)
    <3>1. PICK co \in Co : Serves(co, p, n)
      BY <2>3
    <3>2. session_coroutine_id[co] \notin {None, 0}
      BY <2>1, <3>1, SessionAssumption DEF Serves
    <3>3. <<p, n>> \in Held
      BY <3>1, <3>2 DEF Held, Serves
    <3> QED
      BY <1>1, <3>3 DEF Placed
  <2>4. CASE <<p, n>> \in unresponse \/ <<p, n>> \in lost
    BY <1>1, <2>4 DEF Placed
  <2> QED
    BY <2>1, <2>2, <2>3, <2>4 DEF Placed
<1>4. AnsweredOnce'
  BY <1>1 DEF RequestInv, AnsweredOnce
<1> QED
  BY <1>1, <1>2, <1>3, <1>4 DEF RequestInv

\* Coroutines are resumed, yield or are started, and no request is touched.
LEMMA StRequests ==
    ASSUME TypeOK, RequestInv,
           UNCHANGED <<unresponse, owed, alive, lost, twice, exited, session_coroutine_id>>,
           \A p \in Peer, n \in ReqSession :
              /\ Mailed(p, n)' <=> Mailed(p, n)
              /\ Once(chan[p], Req(n)) => Once(chan'[p], Req(n)),
           \A co \in Co : st[co] \in Serving =>
              st'[co] \in Serving /\ session_coroutine_address'[co] = session_coroutine_address[co],
           phase' = "gone" => phase = "gone"
    PROVE  RequestInv'
<1>1. ASSUME NEW co \in Co
      PROVE  \/ session_coroutine_id[co] \in {None, 0} /\ session_coroutine_id'[co] = None
             \/ /\ session_coroutine_id'[co] = session_coroutine_id[co]
                /\ session_coroutine_address'[co] = session_coroutine_address[co]
                /\ st'[co] \in Serving
  <2>1. session_coroutine_id[co] # None => st[co] \in Serving
    BY DEF RequestInv, Requests
  <2> QED
    BY <2>1
<1> QED
  BY <1>1, QuietRequests

LEMMA SameMail ==
    ASSUME chan' = chan
    PROVE  \A p \in Peer, n \in ReqSession : /\ Mailed(p, n)' <=> Mailed(p, n)
                                             /\ Once(chan[p], Req(n)) => Once(chan'[p], Req(n))
BY DEF Mailed

LEMMA TakeRequests == ASSUME TypeOK, Shape, RequestInv, NEW p \in Peer, Dispatch(p) PROVE RequestInv'
<1> USE SessionAssumption
<1> DEFINE m == Head(chan[p])
<1>1. /\ m \in Message /\ phase = "idle" /\ chan[p] # <<>> /\ chan' = [chan EXCEPT ![p] = Tail(@)]
      /\ UNCHANGED <<alive, owed, twice, lost>>
  BY Types, PoppedChan DEF Dispatch, answers
<1>2. /\ \A r \in Peer, n \in ReqSession :
            /\ Mailed(r, n) <=> Mailed(r, n)' \/ (r = p /\ m = Req(n))
            /\ Once(chan[r], Req(n)) => Once(chan'[r], Req(n))
      /\ \A n \in ReqSession : m = Req(n) /\ Once(chan[p], Req(n)) => ~Mailed(p, n)'
  BY <1>1, Types, PopMail
<1>3. ASSUME m.type # "request"
      PROVE  \A r \in Peer, n \in ReqSession : /\ Mailed(r, n)' <=> Mailed(r, n)
                                               /\ Once(chan[r], Req(n)) => Once(chan'[r], Req(n))
  <2>1. \A n : m # Req(n)
    BY <1>1, <1>3, Messages
  <2> QED
    BY <1>2, <2>1
<1>4. CASE m.type = "response" /\ TakeResponse(m.session)
  <2>1. m.session \in SessionId
    BY <1>1, <1>4, Messages
  <2>2. UNCHANGED <<unresponse, session_coroutine_id, session_coroutine_address, exited>>
    BY <1>4 DEF TakeResponse, requests, control, Resume
  <2>3. phase' # "gone" /\ \A co \in Co : st[co] \in Serving => st'[co] \in Serving
    <3>1. CASE session_id_coroutine[m.session] \in Co
      <4>1. Resume(session_id_coroutine[m.session])
        BY <1>4, <3>1 DEF TakeResponse
      <4> QED
        BY <3>1, <4>1 DEF Resume, TypeOK, Serving
    <3>2. CASE session_id_coroutine[m.session] \notin Co
      BY <1>1, <1>4, <3>2 DEF TakeResponse, control
    <3> QED
      BY <3>1, <3>2
  <2> QED
    BY <1>1, <1>3, <1>4, <2>2, <2>3, StRequests
<1>5. CASE m.type = "error" /\ TakeError(p, m.session)
  <2>1. PICK c \in Fresh :
           /\ st' = [st EXCEPT ![c] = "pool"]
           /\ session_coroutine_address' = [session_coroutine_address EXCEPT ![c] = p]
    BY <1>5 DEF TakeError
  <2>2. c \in Co /\ st[c] \notin Serving
    BY DEF Fresh, Serving
  <2>3. UNCHANGED <<unresponse, session_coroutine_id, exited>> /\ phase' = "wakeup"
    BY <1>5 DEF TakeError, Suspend
  <2>4. \A co \in Co : st[co] \in Serving =>
           st'[co] \in Serving /\ session_coroutine_address'[co] = session_coroutine_address[co]
    BY <2>1, <2>2 DEF TypeOK
  <2> QED
    BY <1>1, <1>3, <1>5, <2>3, <2>4, StRequests
<1>6. CASE m.type = "request" /\ TakeRequest(p, m.session)
  <2>0. PICK k \in ReqSession : k = m.session /\ m = Req(k) /\ TakeRequest(p, k)
    BY <1>1, <1>6, Messages
  <2>1. \A n \in ReqSession : m = Req(n) => n = k
    BY <1>1, <2>0, Messages
  <2> HIDE DEF m
  <2>2. PICK c \in Fresh :
           /\ Resume(c)
           /\ session_coroutine_id' = [session_coroutine_id EXCEPT ![c] = k]
           /\ session_coroutine_address' = [session_coroutine_address EXCEPT ![c] = p]
    BY <2>0 DEF TakeRequest
  <2>3. c \in Co /\ session_coroutine_id[c] = None
    BY DEF Fresh, Serving, RequestInv, Requests
  <2>4. UNCHANGED <<unresponse, exited>> /\ phase' = "run"
    BY <2>0, <2>2 DEF TakeRequest, Resume
  <2>5. /\ session_coroutine_id'[c] = k /\ session_coroutine_address'[c] = p /\ st'[c] = "run"
        /\ \A co \in Co \ {c} : /\ session_coroutine_id'[co] = session_coroutine_id[co]
                                /\ session_coroutine_address'[co] = session_coroutine_address[co]
                                /\ st'[co] = st[co]
    BY <2>2, <2>3 DEF TypeOK, Resume
  <2>6. Requests'
    BY <1>1, <2>3, <2>4, <2>5 DEF RequestInv, Requests, Serving
  <2>7. ASSUME NEW co \in Co, NEW r \in Peer, NEW n \in ReqSession
        PROVE  /\ Serves(co, r, n)' <=> Serves(co, r, n) \/ (co = c /\ r = p /\ n = k)
               /\ ~Serves(c, r, n)
    <3>1. ~Serves(c, r, n)
      BY <2>3 DEF Serves
    <3>2. CASE co = c
      BY <2>5, <3>1, <3>2 DEF Serves
    <3>3. CASE co # c
      <4>1. /\ session_coroutine_id'[co] = session_coroutine_id[co]
            /\ session_coroutine_address'[co] = session_coroutine_address[co]
        BY <2>5, <3>3
      <4> QED
        BY <3>1, <3>3, <4>1 DEF Serves
    <3> QED
      BY <3>1, <3>2, <3>3
  <2>8. Kept'
    <3> SUFFICES ASSUME NEW r \in Peer, NEW n \in ReqSession, n \in owed[r] PROVE Placed(r, n)'
      BY <1>1 DEF Kept
    <3>1. Placed(r, n)
      BY DEF RequestInv, Kept
    <3>2. CASE r = p /\ n = k
      BY <2>3, <2>7, <3>2 DEF Placed
    <3>3. CASE ~(r = p /\ n = k)
      BY <1>1, <1>2, <2>0, <2>1, <2>4, <2>7, <3>1, <3>3 DEF Placed
    <3> QED
      BY <3>2, <3>3
  <2>9. AnsweredOnce'
    BY <1>1 DEF RequestInv, AnsweredOnce
  <2>10. ASSUME ~exited' PROVE OnePlace'
    <3> SUFFICES ASSUME NEW r \in alive, NEW n \in ReqSession \ {0} PROVE PlaceOf(r, n)'
      BY <1>1 DEF OnePlace
    <3>1. PlaceOf(r, n) /\ r \in Peer
      BY <2>4, <2>10 DEF RequestInv, OnePlace, TypeOK
    <3>2. Once(chan'[r], Req(n))
      BY <1>2, <3>1 DEF PlaceOf
    <3>3. CASE r = p /\ n = k
      <4>1. Mailed(r, n)
        BY <1>2, <2>0, <3>1, <3>3
      <4>2. ~Mailed(r, n)'
        <5>1. Once(chan[p], Req(k))
          BY <3>1, <3>3 DEF PlaceOf
        <5>2. ~Mailed(p, k)'
          BY <1>2, <2>0, <5>1
        <5> QED
          BY <3>3, <5>2
      <4>3. n \in owed[r] /\ <<r, n>> \notin unresponse /\ \A co \in Co : ~Serves(co, r, n)
        BY <3>1, <4>1 DEF PlaceOf
      <4>4. \A co \in Co : Serves(co, r, n)' => co = c
        BY <2>7, <3>1, <4>3
      <4> QED
        BY <1>1, <2>4, <3>2, <4>2, <4>3, <4>4 DEF PlaceOf
    <3>4. CASE ~(r = p /\ n = k)
      <4>1. Mailed(r, n)' <=> Mailed(r, n)
        BY <1>2, <2>1, <3>1, <3>4
      <4>2. \A co \in Co : Serves(co, r, n)' <=> Serves(co, r, n)
        BY <2>7, <3>1, <3>4
      <4> QED
        BY <1>1, <2>4, <3>1, <3>2, <4>1, <4>2 DEF PlaceOf
    <3> QED
      BY <3>3, <3>4
  <2> QED
    BY <2>6, <2>8, <2>9, <2>10 DEF RequestInv
<1> QED
  BY <1>4, <1>5, <1>6 DEF Dispatch

LEMMA DropRequests == ASSUME TypeOK, RequestInv, NEW p \in Peer, Drop(p) PROVE RequestInv'
<1>1. /\ phase = "gone" /\ chan[p] # <<>> /\ chan' = [chan EXCEPT ![p] = Tail(@)]
      /\ owed' = [owed EXCEPT ![p] = {}]
      /\ UNCHANGED <<exited, st, unresponse, session_coroutine_id, session_coroutine_address, phase,
                     twice, lost>>
  BY DEF Drop, control, requests
<1>2. exited
  BY <1>1 DEF RequestInv, Requests
<1>3. \A r \in Peer, n \in ReqSession : r # p => (Mailed(r, n)' <=> Mailed(r, n))
  BY <1>1, Types, PopMail
<1>4. owed'[p] = {} /\ \A r \in Peer \ {p} : owed'[r] = owed[r]
  BY <1>1 DEF TypeOK
<1>5. Requests'
  BY <1>1, <1>2, <1>4 DEF RequestInv, Requests
<1>6. Kept'
  <2> SUFFICES ASSUME NEW r \in Peer, NEW n \in ReqSession, n \in owed'[r] PROVE Placed(r, n)'
    BY DEF Kept
  <2>1. Placed(r, n) /\ r # p
    BY <1>4 DEF RequestInv, Kept
  <2>2. \A co \in Co : Serves(co, r, n)' <=> Serves(co, r, n)
    BY <1>1 DEF Serves
  <2> QED
    BY <1>1, <1>3, <2>1, <2>2 DEF Placed
<1>7. AnsweredOnce'
  BY <1>1 DEF RequestInv, AnsweredOnce
<1> QED
  BY <1>1, <1>2, <1>5, <1>6, <1>7 DEF RequestInv

LEMMA PeerRequestRequests ==
    ASSUME TypeOK, RequestInv, NEW p \in Peer, PeerRequest(p) PROVE RequestInv'
<1>1. PICK k \in ReqSession \ owed[p] : /\ Send(p, "request", k)
                                        /\ owed' = [owed EXCEPT ![p] = @ \cup ({k} \ {0})]
  BY DEF PeerRequest
<1>2. /\ p \in alive
      /\ UNCHANGED <<alive, exited, st, unresponse, session_coroutine_id, session_coroutine_address,
                     phase, twice, lost>>
  BY DEF PeerRequest, Internal, control, requests
<1>3. [type |-> "request", session |-> k] \in Message
  BY DEF Message
<1>4. \A r \in Peer, n \in ReqSession :
         /\ Mailed(r, n)' <=> Mailed(r, n) \/ (r = p /\ n = k)
         /\ Once(chan[r], Req(n)) /\ (r = p /\ n = k => ~Mailed(r, n)) => Once(chan'[r], Req(n))
  BY <1>1, <1>3, Types, SendMail
<1>5. \A r \in Peer : \A n : n \in owed'[r] <=> n \in owed[r] \/ (r = p /\ n = k /\ n # 0)
  BY <1>1 DEF TypeOK
<1>6. Requests'
  BY <1>2, <1>5 DEF RequestInv, Requests
<1>7. \A co \in Co, r \in Peer, n \in ReqSession : Serves(co, r, n)' <=> Serves(co, r, n)
  BY <1>2 DEF Serves
<1>8. Kept'
  <2> SUFFICES ASSUME NEW r \in Peer, NEW n \in ReqSession, n \in owed'[r] PROVE Placed(r, n)'
    BY DEF Kept
  <2>1. CASE n \in owed[r]
    <3>1. Placed(r, n)
      BY <2>1 DEF RequestInv, Kept
    <3> QED
      BY <1>2, <1>4, <1>7, <3>1 DEF Placed
  <2>2. CASE r = p /\ n = k
    BY <1>4, <2>2 DEF Placed
  <2> QED
    BY <1>5, <2>1, <2>2
<1>9. AnsweredOnce'
  BY <1>2 DEF RequestInv, AnsweredOnce
<1>10. ASSUME ~exited' PROVE OnePlace'
  <2> SUFFICES ASSUME NEW r \in alive, NEW n \in ReqSession \ {0} PROVE PlaceOf(r, n)'
    BY <1>2 DEF OnePlace
  <2>1. PlaceOf(r, n) /\ r \in Peer
    BY <1>2, <1>10 DEF RequestInv, OnePlace, TypeOK
  <2>2. CASE r = p /\ n = k
    <3>1. n \notin owed[r]
      BY <2>2
    <3>2. ~Mailed(r, n) /\ <<r, n>> \notin unresponse /\ \A co \in Co : ~Serves(co, r, n)
      BY <2>1, <3>1 DEF PlaceOf
    <3>3. Once(chan'[r], Req(n)) /\ n \in owed'[r]
      BY <1>4, <1>5, <2>1, <2>2, <3>2 DEF PlaceOf
    <3>4. \A co \in Co : ~Serves(co, r, n)'
      BY <1>7, <2>1, <3>2
    <3> QED
      BY <1>2, <3>2, <3>3, <3>4 DEF PlaceOf
  <2>3. CASE ~(r = p /\ n = k)
    <3>1. Mailed(r, n)' <=> Mailed(r, n)
      BY <1>4, <2>1, <2>3
    <3>2. Once(chan'[r], Req(n)) /\ (n \in owed'[r] <=> n \in owed[r])
      BY <1>4, <1>5, <2>1, <2>3 DEF PlaceOf
    <3>3. \A co \in Co : Serves(co, r, n)' <=> Serves(co, r, n)
      BY <1>7, <2>1
    <3> QED
      BY <1>2, <2>1, <3>1, <3>2, <3>3 DEF PlaceOf
  <2> QED
    BY <2>2, <2>3
<1> QED
  BY <1>6, <1>8, <1>9, <1>10 DEF RequestInv

LEMMA PeerExitRequests ==
    ASSUME TypeOK, RequestInv, NEW p \in Peer, PeerExit(p) PROVE RequestInv'
<1>1. /\ alive' = alive \ {p} /\ owed' = [owed EXCEPT ![p] = {}]
      /\ UNCHANGED <<exited, st, unresponse, session_coroutine_id, session_coroutine_address,
                     phase, twice, lost>>
  BY DEF PeerExit, Internal, control, requests
<1>2. [type |-> "error", session |-> 0] \in Message
  BY DEF Message
<1>3. \A r \in Peer, n \in ReqSession :
         /\ Mailed(r, n)' <=> Mailed(r, n)
         /\ Once(chan[r], Req(n)) => Once(chan'[r], Req(n))
  <2>1. CASE owed[p] # {}
    <3>1. Send(p, "error", 0)
      BY <2>1 DEF PeerExit
    <3> QED
      BY <1>2, <3>1, Types, SendMail
  <2>2. CASE owed[p] = {}
    BY <2>2, SameMail DEF PeerExit
  <2> QED
    BY <2>1, <2>2
<1>4. owed'[p] = {} /\ \A r \in Peer \ {p} : owed'[r] = owed[r]
  BY <1>1 DEF TypeOK
<1>5. Requests'
  BY <1>1, <1>4 DEF RequestInv, Requests
<1>6. \A co \in Co, r \in Peer, n \in ReqSession : Serves(co, r, n)' <=> Serves(co, r, n)
  BY <1>1 DEF Serves
<1>7. Kept'
  <2> SUFFICES ASSUME NEW r \in Peer, NEW n \in ReqSession, n \in owed'[r] PROVE Placed(r, n)'
    BY DEF Kept
  <2>1. Placed(r, n)
    BY <1>4 DEF RequestInv, Kept
  <2> QED
    BY <1>1, <1>3, <1>6, <2>1 DEF Placed
<1>8. AnsweredOnce'
  BY <1>1 DEF RequestInv, AnsweredOnce
<1>9. ASSUME ~exited' PROVE OnePlace'
  <2> SUFFICES ASSUME NEW r \in alive', NEW n \in ReqSession \ {0} PROVE PlaceOf(r, n)'
    BY DEF OnePlace
  <2>1. PlaceOf(r, n) /\ r \in Peer /\ r # p
    BY <1>1, <1>9 DEF RequestInv, OnePlace, TypeOK
  <2>2. owed'[r] = owed[r] /\ \A co \in Co : Serves(co, r, n)' <=> Serves(co, r, n)
    BY <1>4, <1>6, <2>1
  <2>3. (Mailed(r, n)' <=> Mailed(r, n)) /\ Once(chan'[r], Req(n))
    BY <1>3, <2>1 DEF PlaceOf
  <2> QED
    BY <1>1, <2>1, <2>2, <2>3 DEF PlaceOf
<1> QED
  BY <1>5, <1>7, <1>8, <1>9 DEF RequestInv

LEMMA RequestStep == ASSUME TypeOK, Shape, RequestInv, Next PROVE RequestInv'
<1>1. ASSUME UNCHANGED <<unresponse, owed, alive, lost, twice, exited, session_coroutine_id,
                         session_coroutine_address, chan>>,
             \A co \in Co : st[co] \in Serving => st'[co] \in Serving,
             phase' = "gone" => phase = "gone"
      PROVE  RequestInv'
  BY <1>1, SameMail, StRequests
<1>2. CASE sleep \/ wait \/ \E p \in Peer : call(p)
  <2>1. PICK s \in SessionId, how \in {"call", "sleep", "wait"} : Yields(s, how)
    BY <1>2, Unused1 DEF sleep, wait, call
  <2>2. \A co \in Co : st[co] \in Serving => st'[co] \in Serving
    BY <2>1 DEF Yields, Serving, TypeOK
  <2> QED
    BY <1>1, <1>2, <2>1, <2>2 DEF sleep, wait, call, Yields, Suspend, requests, answers, peers
<1>3. CASE fork \/ timeout
  <2>1. PICK c \in Fresh, how \in {"fork", "timeout"} : st' = [st EXCEPT ![c] = how]
    BY <1>3 DEF fork, timeout
  <2>2. \A co \in Co : st[co] \in Serving => st'[co] \in Serving
    BY <2>1 DEF Fresh, Serving, TypeOK
  <2> QED
    BY <1>1, <1>3, <2>2 DEF fork, timeout, control, requests, answers, peers
<1>4. ASSUME NEW co \in Co, wakeup(co) PROVE RequestInv'
  BY <1>1, <1>4 DEF wakeup, control, requests, answers, peers
<1>5. CASE dispatch_wakeup \/ dispatch_error_queue \/ RunForks
  <2>1. UNCHANGED <<unresponse, owed, alive, lost, twice, exited, session_coroutine_id,
                    session_coroutine_address, chan>>
    BY <1>5 DEF dispatch_wakeup, dispatch_error_queue, RunForks, requests, peers, answers, Resume, Return
  <2>2. phase' # "gone"
    BY <1>5 DEF dispatch_wakeup, dispatch_error_queue, RunForks, Resume, Return
  <2>3. st' = st \/ \E c : Resume(c)
    BY <1>5 DEF dispatch_wakeup, dispatch_error_queue, RunForks
  <2>4. \A co \in Co : st[co] \in Serving => st'[co] \in Serving
    BY <2>3 DEF Resume, Serving, TypeOK
  <2> QED
    BY <1>1, <2>1, <2>2, <2>4
<1>6. ASSUME NEW s \in SessionId, Timeout(s) PROVE RequestInv'
  <2>1. UNCHANGED <<unresponse, owed, alive, lost, twice, exited, session_coroutine_id,
                    session_coroutine_address, chan>>
    BY <1>6 DEF Timeout, TakeResponse, Resume, control, requests, answers
  <2>2. phase' # "gone" /\ (st' = st \/ \E c : Resume(c))
    BY <1>6 DEF Timeout, TakeResponse, Resume, control
  <2>3. \A co \in Co : st[co] \in Serving => st'[co] \in Serving
    BY <2>2 DEF Resume, Serving, TypeOK
  <2> QED
    BY <1>1, <2>1, <2>2, <2>3
<1>7. ASSUME NEW p \in Peer,
             PeerDrop(p) \/ \E s \in SessionId : PeerAnswer(p, s)
      PROVE  RequestInv'
  <2>1. PICK type \in {"response", "error"}, s \in SessionId \cup {0} :
           Send(p, type, s) /\ (s = 0 => type = "error")
    BY <1>7, SessionAssumption DEF PeerAnswer, PeerDrop
  <2>2. [type |-> type, session |-> s] \in Message
    BY <2>1 DEF Message
  <2>3. type # "request"
    OBVIOUS
  <2>4. \A r \in Peer, n \in ReqSession :
           /\ Mailed(r, n)' <=> Mailed(r, n)
           /\ Once(chan[r], Req(n)) => Once(chan'[r], Req(n))
    BY <2>1, <2>2, <2>3, Types, SendMail
  <2>5. UNCHANGED <<unresponse, owed, alive, lost, twice, exited, session_coroutine_id,
                    session_coroutine_address, st, phase>>
    BY <1>7 DEF PeerAnswer, PeerDrop, Internal, control, requests, answers
  <2> QED
    BY <2>4, <2>5, StRequests
<1> QED
  BY <1>2, <1>3, <1>4, <1>5, <1>6, <1>7, RetRequests, RespondRequests, RaiseRequests, ExitRequests,
     ResponseRequests, FinishRequests, GoneRequests, TakeRequests, DropRequests,
     PeerRequestRequests, PeerExitRequests DEF Next

LEMMA RequestInit == Init => RequestInv
<1> SUFFICES ASSUME Init PROVE RequestInv
  OBVIOUS
<1> USE SessionAssumption
<1>1. Requests
  BY ShapeInit
<1>2. Kept /\ AnsweredOnce
  BY DEF Init, Each, Kept, AnsweredOnce
<1>3. OnePlace
  <2> SUFFICES ASSUME NEW p \in Peer, NEW n \in ReqSession \ {0} PROVE PlaceOf(p, n)
    BY DEF OnePlace, Init
  <2>1. chan[p] = <<>> /\ unresponse = {}
    BY DEF Init, Each
  <2>2. ~Mailed(p, n) /\ Once(chan[p], Req(n))
    BY <2>1, NoneQueued DEF Mailed
  <2>3. \A co \in Co : ~Serves(co, p, n)
    BY DEF Init, Each, Serves
  <2> QED
    BY <2>1, <2>2, <2>3 DEF PlaceOf
<1> QED
  BY <1>1, <1>2, <1>3 DEF RequestInv
-----------------------------------------------------------------------------
\* Until the service exits, suspend works its queues off: who stands in one waits, and
\* stands there once; when control goes on, what is behind is empty.
WakeQueue == \A co \in Co : /\ Once(wakeup_queue, co)
                            /\ Contains(wakeup_queue, co) => sleep_session[co] # None
ErrorQueue == \A s \in SessionId : /\ Once(error_queue, s)
                                   /\ Contains(error_queue, s) => session_id_coroutine[s] \in Co
WorkedOff ==
    /\ phase = "error" => wakeup_queue = <<>>
    /\ phase = "forks" => (wakeup_queue = <<>> /\ error_queue = <<>>) \/ fork_queue # {}
    /\ phase = "idle" => wakeup_queue = <<>> /\ error_queue = <<>> /\ fork_queue = {}

\* What answers the call s is with the peer p, or on its way from it: its answer, its
\* error, or the message that the peer is down.
Reply(p, s) == \E m \in Message : Contains(chan[p], m) /\ m.type # "request" /\ m.session = s
Down == [type |-> "error", session |-> 0]
Owes(p, s) == s \in asked[p] \/ Reply(p, s) \/ Contains(chan[p], Down)

\* Until the service exits, whoever waits will be resumed.
Expected(s, how) ==
    /\ how = "call" => \/ Contains(error_queue, s)
                       \/ \E p \in Peer : watching_session[s] = p /\ Owes(p, s)
    /\ how \in {"sleep", "timeout"} => s \in timers
Expecting == \A s \in SessionId : session_id_coroutine[s] \in Co =>
                Expected(s, st[session_id_coroutine[s]])

QueueInv == ~exited => WakeQueue /\ ErrorQueue /\ WorkedOff /\ Expecting

LEMMA QueueInit == Init => QueueInv
<1> SUFFICES ASSUME Init PROVE QueueInv
  OBVIOUS
<1>1. wakeup_queue = <<>> /\ error_queue = <<>> /\ fork_queue = {}
  BY DEF Init
<1>2. WakeQueue /\ ErrorQueue /\ WorkedOff
  BY <1>1, NoneQueued DEF WakeQueue, ErrorQueue, WorkedOff
<1>3. Expecting
  BY SessionAssumption DEF Init, Each, Expecting
<1> QED
  BY <1>2, <1>3 DEF QueueInv

\* Who goes on waiting as before, with what it waits for still to come, is expecting.
LEMMA StillExpecting ==
    ASSUME Expecting,
           \A s \in SessionId : session_id_coroutine'[s] \in Co =>
              \/ Expected(s, st[session_id_coroutine[s]])'
              \/ /\ session_id_coroutine'[s] = session_id_coroutine[s]
                 /\ st'[session_id_coroutine[s]] = st[session_id_coroutine[s]]
                 /\ watching_session'[s] = watching_session[s]
                 /\ s \in timers => s \in timers'
                 /\ Contains(error_queue, s) => Contains(error_queue', s)
                 /\ \A p \in Peer : watching_session[s] = p /\ Owes(p, s) =>
                       Owes(p, s)' \/ Contains(error_queue', s)
    PROVE  Expecting'
<1> SUFFICES ASSUME NEW s \in SessionId, session_id_coroutine'[s] \in Co,
                    session_id_coroutine'[s] = session_id_coroutine[s],
                    st'[session_id_coroutine[s]] = st[session_id_coroutine[s]],
                    watching_session'[s] = watching_session[s],
                    s \in timers => s \in timers',
                    Contains(error_queue, s) => Contains(error_queue', s),
                    \A p \in Peer : watching_session[s] = p /\ Owes(p, s) =>
                       Owes(p, s)' \/ Contains(error_queue', s)
             PROVE  Expected(s, st[session_id_coroutine[s]])'
  BY DEF Expecting
<1>1. Expected(s, st[session_id_coroutine[s]])
  BY DEF Expecting
<1> QED
  BY <1>1 DEF Expected

LEMMA SameOwes == ASSUME UNCHANGED <<asked, chan>>, NEW p, NEW s PROVE Owes(p, s)' <=> Owes(p, s)
BY DEF Owes, Reply

LEMMA MoreOwes == ASSUME PeerTypes, NEW p \in Peer, NEW t \in SessionId,
                         asked' = [asked EXCEPT ![p] = @ \cup {t}], chan' = chan
                  PROVE  Owes(p, t)' /\ \A r \in Peer, s \in SessionId : Owes(r, s) => Owes(r, s)'
<1>1. t \in asked'[p] /\ \A r \in Peer, s \in SessionId : s \in asked[r] => s \in asked'[r]
  BY DEF PeerTypes
<1> QED
  BY <1>1 DEF Owes, Reply

\* A message taken from the mailbox is the answer of one session, or says that the peer
\* is down.
LEMMA PopOwes ==
    ASSUME PeerTypes, NEW p \in Peer, chan[p] # <<>>, chan' = [chan EXCEPT ![p] = Tail(@)],
           asked' = asked, NEW r \in Peer, NEW s \in SessionId, Owes(r, s)
    PROVE  \/ Owes(r, s)' \/ (r = p /\ Head(chan[p]).type # "request" /\ Head(chan[p]).session = s)
           \/ r = p /\ Head(chan[p]) = Down
<1>1. chan'[p] = Tail(chan[p]) /\ \A q \in Peer \ {p} : chan'[q] = chan[q]
  BY PoppedChan
<1>2. chan[p] \in Seq(Message)
  BY DEF PeerTypes
<1>3. \A x : Contains(chan[p], x) <=> x = Head(chan[p]) \/ Contains(Tail(chan[p]), x)
  BY <1>2, Pop
<1>4. CASE s \in asked[r]
  BY <1>4 DEF Owes
<1>5. ASSUME NEW m \in Message, Contains(chan[r], m), m.type # "request", m.session = s
      PROVE  Owes(r, s)' \/ (r = p /\ Head(chan[p]).type # "request" /\ Head(chan[p]).session = s)
  <2>1. CASE m = Head(chan[p]) /\ r = p
    BY <1>5, <2>1
  <2>2. CASE ~(m = Head(chan[p]) /\ r = p)
    <3>1. Contains(chan'[r], m)
      BY <1>1, <1>3, <1>5, <2>2
    <3> QED
      BY <1>5, <3>1 DEF Owes, Reply
  <2> QED
    BY <2>1, <2>2
<1>6. CASE Contains(chan[r], Down)
  BY <1>1, <1>3, <1>6 DEF Owes
<1> QED
  BY <1>4, <1>5, <1>6 DEF Owes, Reply

LEMMA SendOwes ==
    ASSUME PeerTypes, NEW p \in Peer, NEW type, NEW t,
           [type |-> type, session |-> t] \in Message, Send(p, type, t)
    PROVE  /\ \A r \in Peer : \A s : Reply(r, s) => Reply(r, s)'
           /\ \A r \in Peer : Contains(chan[r], Down) => Contains(chan'[r], Down)
           /\ type # "request" => Reply(p, t)'
           /\ type = "error" /\ t = 0 => Contains(chan'[p], Down)
<1> DEFINE m == [type |-> type, session |-> t]
<1>1. /\ m \in Message /\ m.type = type /\ m.session = t
      /\ type = "error" /\ t = 0 => m = Down
  BY DEF Down
<1>2. chan'[p] = Append(chan[p], m) /\ \A r \in Peer \ {p} : chan'[r] = chan[r]
  BY SentChan
<1>3. chan[p] \in Seq(Message)
  BY DEF PeerTypes
<1> HIDE DEF m
<1>4. \A x : Contains(Append(chan[p], m), x) <=> x = m \/ Contains(chan[p], x)
  BY <1>1, <1>3, Push
<1>5. \A r \in Peer : \A x : Contains(chan[r], x) => Contains(chan'[r], x)
  BY <1>2, <1>4
<1>6. Contains(chan'[p], m)
  BY <1>2, <1>4
<1> QED
  BY <1>1, <1>5, <1>6 DEF Reply

\* Sessions, timers and the two queues stay, and so do those who wait.
LEMMA SameQueues ==
    ASSUME TypeOK, Shape, QueueInv, exited \/ WorkedOff',
           UNCHANGED <<session_id_coroutine, watching_session, sleep_session, wakeup_queue,
                       error_queue, timers, exited>>,
           \A co \in Co : st[co] \in Waiting => st'[co] = st[co],
           \A p \in Peer, s \in SessionId : Owes(p, s) => Owes(p, s)'
    PROVE  QueueInv'
<1> SUFFICES ASSUME ~exited PROVE WakeQueue' /\ ErrorQueue' /\ Expecting'
  BY DEF QueueInv
<1>1. WakeQueue /\ ErrorQueue /\ Expecting
  BY DEF QueueInv
<1>2. WakeQueue' /\ ErrorQueue'
  BY <1>1 DEF WakeQueue, ErrorQueue
<1>3. Expecting'
  <2>1. \A s \in SessionId : session_id_coroutine[s] \in Co =>
           st'[session_id_coroutine[s]] = st[session_id_coroutine[s]]
    BY DEF Shape, Sessions
  <2> QED
    BY <1>1, <2>1, StillExpecting
<1> QED
  BY <1>2, <1>3

LEMMA QuietQueues ==
    ASSUME TypeOK, Shape, QueueInv,
           fork \/ ret \/ response \/ Finish \/ Raise \/ RunForks \/ \E r \in Peer \X ReqSession : respond(r)
    PROVE  QueueInv'
<1>1. /\ UNCHANGED <<session_id_coroutine, watching_session, sleep_session, wakeup_queue, error_queue,
                     timers, exited, asked, chan>>
  BY DEF fork, ret, response, Finish, Raise, RunForks, respond, sessions, queues, peers, control, Suspend, Resume
<1>2. exited \/ WorkedOff'
  <2>1. CASE Raise
    BY <2>1 DEF Raise, WorkedOff
  <2>2. CASE RunForks
    BY <2>2 DEF RunForks, QueueInv, WorkedOff, Resume
  <2>3. CASE phase' \in {"run", "wakeup"}
    BY <2>3 DEF WorkedOff
  <2>4. fork \/ ret \/ response \/ Finish \/ (\E r \in Peer \X ReqSession : respond(r))
           => phase' \in {"run", "wakeup"}
    BY DEF fork, ret, response, Finish, respond, Starting, Running, Suspend, control
  <2> QED
    BY <2>1, <2>2, <2>3, <2>4
<1>3. ASSUME NEW co \in Co, st[co] \in Waiting PROVE st'[co] = st[co]
  <2>1. st[co] \notin {"run", "none", "pool", "fork"}
    BY <1>3 DEF Waiting
  <2>2. CASE Running
    <3>1. cur \in Co /\ st[cur] = "run"
      BY <2>2, Running1
    <3>2. \A c \in Fresh : c \in Co /\ st[c] \in {"none", "pool"}
      BY DEF Fresh
    <3>3. CASE fork
      BY <2>1, <3>2, <3>3 DEF fork, TypeOK
    <3>4. CASE ret \/ response \/ \E r \in Peer \X ReqSession : respond(r)
      BY <3>4 DEF ret, response, respond
    <3>5. CASE Finish
      BY <2>1, <3>1, <3>5 DEF Finish, TypeOK
    <3>6. CASE Raise
      <4>1. PICK c \in Fresh \cup {cur} : st' = [st EXCEPT ![cur] = "none", ![c] = "fork"]
        BY <3>6 DEF Raise
      <4>2. c # co /\ cur # co
        BY <2>1, <3>1, <3>2
      <4> QED
        BY <4>1, <4>2 DEF TypeOK
    <3>7. ~RunForks
      BY <2>2 DEF Running, RunForks
    <3> QED
      BY <3>3, <3>4, <3>5, <3>6, <3>7
  <2>3. CASE RunForks
    <3>1. \A c \in fork_queue : c \in Co /\ st[c] = "fork"
      BY DEF Shape, OneRuns, TypeOK
    <3> QED
      BY <2>1, <2>3, <3>1 DEF RunForks, Resume, TypeOK
  <2> QED
    BY <2>2, <2>3 DEF fork, ret, response, Finish, Raise, respond, Starting
<1>4. \A p \in Peer, s \in SessionId : Owes(p, s) => Owes(p, s)'
  BY <1>1, SameOwes
<1> QED
  BY <1>1, <1>2, <1>3, <1>4, SameQueues

LEMMA PeerQueues ==
    ASSUME TypeOK, Shape, QueueInv, NEW p \in Peer,
           PeerRequest(p) \/ PeerExit(p) \/ PeerDrop(p) \/ \E s \in SessionId : PeerAnswer(p, s)
    PROVE  QueueInv'
<1>1. UNCHANGED <<session_id_coroutine, watching_session, sleep_session, wakeup_queue, error_queue,
                  fork_queue, timers, exited, st, phase>>
  BY DEF PeerRequest, PeerExit, PeerAnswer, PeerDrop, Internal, control, sessions, queues
<1>2. exited \/ WorkedOff'
  BY <1>1 DEF QueueInv, WorkedOff
<1>3. PeerTypes
  BY Types
<1>4. ASSUME PeerRequest(p), NEW r \in Peer, NEW s \in SessionId, Owes(r, s) PROVE Owes(r, s)'
  <2>1. PICK n \in ReqSession : Send(p, "request", n)
    BY <1>4 DEF PeerRequest
  <2>2. [type |-> "request", session |-> n] \in Message
    BY DEF Message
  <2>3. /\ asked' = asked /\ (Reply(r, s) => Reply(r, s)')
        /\ Contains(chan[r], Down) => Contains(chan'[r], Down)
    BY <1>3, <1>4, <2>1, <2>2, SendOwes DEF PeerRequest
  <2> QED
    BY <1>4, <2>3 DEF Owes
<1>5. ASSUME PeerExit(p), NEW r \in Peer, NEW s \in SessionId, Owes(r, s) PROVE Owes(r, s)'
  <2>1. [type |-> "error", session |-> 0] \in Message
    BY DEF Message
  <2>2. CASE Send(p, "error", 0)
    <3>1. /\ asked' = asked /\ (Reply(r, s) => Reply(r, s)')
          /\ Contains(chan[r], Down) => Contains(chan'[r], Down)
      BY <1>3, <1>5, <2>1, <2>2, SendOwes DEF PeerExit
    <3> QED
      BY <1>5, <3>1 DEF Owes
  <2>3. CASE chan' = chan
    BY <1>5, <2>3, SameOwes DEF PeerExit
  <2> QED
    BY <1>5, <2>2, <2>3 DEF PeerExit
<1>6. ASSUME NEW t \in SessionId, PeerAnswer(p, t), NEW r \in Peer, NEW s \in SessionId, Owes(r, s)
      PROVE  Owes(r, s)'
  <2>1. PICK type \in {"response", "error"} : Send(p, type, t)
    BY <1>6 DEF PeerAnswer
  <2>2. [type |-> type, session |-> t] \in Message /\ type # "request"
    BY DEF Message
  <2>3. /\ Reply(p, t)' /\ (Reply(r, s) => Reply(r, s)')
        /\ Contains(chan[r], Down) => Contains(chan'[r], Down)
    BY <1>3, <2>1, <2>2, SendOwes
  <2>4. s \in asked[r] => s \in asked'[r] \/ (r = p /\ s = t)
    BY <1>3, <1>6 DEF PeerAnswer, PeerTypes
  <2> QED
    BY <1>6, <2>3, <2>4 DEF Owes
<1>7. ASSUME PeerDrop(p), NEW r \in Peer, NEW s \in SessionId, Owes(r, s) PROVE Owes(r, s)'
  <2>1. Send(p, "error", 0) /\ [type |-> "error", session |-> 0] \in Message
    BY <1>7 DEF PeerDrop, Message
  <2>2. /\ Contains(chan'[p], Down) /\ (Reply(r, s) => Reply(r, s)')
        /\ Contains(chan[r], Down) => Contains(chan'[r], Down)
    BY <1>3, <2>1, SendOwes
  <2>3. r # p => asked'[r] = asked[r]
    BY <1>3, <1>7 DEF PeerDrop, PeerTypes
  <2> QED
    BY <1>7, <2>2, <2>3 DEF Owes
<1> QED
  BY <1>1, <1>2, <1>4, <1>5, <1>6, <1>7, SameQueues

LEMMA WakeupQueues == ASSUME TypeOK, QueueInv, NEW token \in Co, wakeup(token) PROVE QueueInv'
<1>1. /\ wakeup_queue' = Append(wakeup_queue, token) /\ ~Contains(wakeup_queue, token)
      /\ sleep_session[token] # None /\ wakeup_queue \in Seq(Co) /\ phase' = "run"
      /\ UNCHANGED <<session_id_coroutine, watching_session, sleep_session, error_queue,
                     timers, exited, asked, chan, st>>
  BY DEF wakeup, Running, control, sessions, peers, TypeOK
<1> SUFFICES ASSUME ~exited PROVE WakeQueue' /\ ErrorQueue' /\ WorkedOff' /\ Expecting'
  BY <1>1 DEF QueueInv
<1>2. WakeQueue /\ ErrorQueue /\ Expecting
  BY DEF QueueInv
<1>3. /\ \A x : Contains(wakeup_queue', x) <=> x = token \/ Contains(wakeup_queue, x)
      /\ \A x : Once(wakeup_queue, x) /\ (x = token => ~Contains(wakeup_queue, x)) => Once(wakeup_queue', x)
  BY <1>1, Push
<1>4. WakeQueue'
  BY <1>1, <1>2, <1>3 DEF WakeQueue
<1>5. ErrorQueue' /\ WorkedOff'
  BY <1>1, <1>2 DEF ErrorQueue, WorkedOff
<1>6. Expecting'
  BY <1>1, <1>2, SameOwes, StillExpecting
<1> QED
  BY <1>4, <1>5, <1>6

\* A coroutine that waited under no session waits under s, with an answer to come.
LEMMA HoldQueues ==
    ASSUME TypeOK, Shape, QueueInv, NEW s \in Unused, NEW c \in Co,
           st[c] \notin Waiting,
           session_id_coroutine' = [session_id_coroutine EXCEPT ![s] = c],
           \A co \in Co \ {c} : st'[co] = st[co] /\ sleep_session'[co] = sleep_session[co],
           sleep_session[c] = None,
           \A t \in SessionId \ {s} : watching_session'[t] = watching_session[t],
           UNCHANGED <<wakeup_queue, error_queue, exited>>,
           phase' \in {"run", "wakeup"},
           timers \subseteq timers',
           Expected(s, st[c])',
           \A p \in Peer, t \in SessionId : Owes(p, t) => Owes(p, t)'
    PROVE  QueueInv'
<1> SUFFICES ASSUME ~exited PROVE WakeQueue' /\ ErrorQueue' /\ WorkedOff' /\ Expecting'
  BY DEF QueueInv
<1>1. WakeQueue /\ ErrorQueue /\ Expecting
  BY DEF QueueInv
<1>2. s \in SessionId /\ ~Contains(error_queue, s)
  BY Unused1
<1>3. /\ session_id_coroutine'[s] = c
      /\ \A t \in SessionId \ {s} : session_id_coroutine'[t] = session_id_coroutine[t]
  BY <1>2 DEF TypeOK
<1>4. WakeQueue'
  BY <1>1 DEF WakeQueue
<1>5. ErrorQueue' /\ WorkedOff'
  BY <1>1, <1>2, <1>3 DEF ErrorQueue, WorkedOff
<1>6. Expecting'
  <2>1. ASSUME NEW t \in SessionId, t # s, session_id_coroutine[t] \in Co
        PROVE  st'[session_id_coroutine[t]] = st[session_id_coroutine[t]]
    <3>1. st[session_id_coroutine[t]] \in Waiting
      BY <2>1 DEF Shape, Sessions
    <3> QED
      BY <2>1, <3>1
  <2> QED
    BY <1>1, <1>3, <2>1, StillExpecting
<1> QED
  BY <1>4, <1>5, <1>6

LEMMA YieldQueues ==
    ASSUME TypeOK, Shape, QueueInv, sleep \/ wait \/ \E p \in Peer : call(p) PROVE QueueInv'
<1>1. Running /\ cur \in Co /\ st[cur] = "run" /\ sleep_session[cur] = None
  BY Running1 DEF sleep, wait, call, Starting
<1>2. PICK c \in Co : c = cur
  BY <1>1
<1>3. st[c] \notin Waiting
  BY <1>1, <1>2 DEF Waiting
<1>4. ASSUME NEW s \in Unused, NEW how, Yields(s, how)
      PROVE  /\ session_id_coroutine' = [session_id_coroutine EXCEPT ![s] = c]
             /\ st'[c] = how /\ \A co \in Co \ {c} : st'[co] = st[co]
             /\ UNCHANGED <<wakeup_queue, error_queue, exited>> /\ phase' = "wakeup"
  BY <1>1, <1>2, <1>4 DEF Yields, queues, Suspend, TypeOK
<1>5. ASSUME NEW p \in Peer, call(p) PROVE QueueInv'
  <2>1. PICK s \in Unused : /\ watching_session' = [watching_session EXCEPT ![s] = p]
                            /\ asked' = [asked EXCEPT ![p] = @ \cup {s}]
                            /\ Yields(s, "call")
    BY <1>5 DEF call
  <2>2. s \in SessionId
    BY Unused1
  <2>3. chan' = chan /\ timers' = timers /\ sleep_session' = sleep_session
    BY <1>5 DEF call
  <2>4. Owes(p, s)' /\ \A r \in Peer, t \in SessionId : Owes(r, t) => Owes(r, t)'
    BY <2>1, <2>2, <2>3, Types, MoreOwes
  <2>5. watching_session'[s] = p /\ \A t \in SessionId \ {s} : watching_session'[t] = watching_session[t]
    BY <2>1, <2>2 DEF TypeOK
  <2>6. Expected(s, st[c])'
    BY <1>4, <2>1, <2>4, <2>5 DEF Expected
  <2> QED
    BY <1>1, <1>2, <1>3, <1>4, <2>1, <2>3, <2>4, <2>5, <2>6, HoldQueues
<1>6. ASSUME sleep \/ wait PROVE QueueInv'
  <2>1. PICK s \in Unused : /\ sleep_session' = [sleep_session EXCEPT ![cur] = s]
                            /\ \/ timers' = timers \cup {s} /\ Yields(s, "sleep")
                               \/ timers' = timers /\ Yields(s, "wait")
    BY <1>6 DEF sleep, wait, peers
  <2>2. UNCHANGED <<chan, asked, watching_session>>
    BY <1>6 DEF sleep, wait, peers
  <2>3. \A co \in Co \ {c} : sleep_session'[co] = sleep_session[co]
    BY <1>2, <2>1 DEF TypeOK
  <2>4. Expected(s, st[c])'
    <3>1. CASE timers' = timers \cup {s} /\ Yields(s, "sleep")
      BY <1>4, <3>1 DEF Expected
    <3>2. CASE Yields(s, "wait")
      BY <1>4, <3>2 DEF Expected
    <3> QED
      BY <2>1, <3>1, <3>2
  <2>5. timers \subseteq timers' /\ \A r \in Peer, t \in SessionId : Owes(r, t) => Owes(r, t)'
    BY <2>1, <2>2, SameOwes
  <2>6. /\ session_id_coroutine' = [session_id_coroutine EXCEPT ![s] = c]
        /\ \A co \in Co \ {c} : st'[co] = st[co]
        /\ UNCHANGED <<wakeup_queue, error_queue, exited>> /\ phase' = "wakeup"
    BY <1>4, <2>1
  <2> QED
    BY <1>1, <1>2, <1>3, <2>2, <2>3, <2>4, <2>5, <2>6, HoldQueues
<1> QED
  BY <1>5, <1>6

LEMMA TimeoutQueues == ASSUME TypeOK, Shape, QueueInv, timeout PROVE QueueInv'
<1>1. PICK c \in Fresh, s \in Unused :
         /\ session_id_coroutine' = [session_id_coroutine EXCEPT ![s] = c]
         /\ timers' = timers \cup {s}
         /\ st' = [st EXCEPT ![c] = "timeout"]
  BY DEF timeout
<1>2. c \in Co /\ st[c] \in {"none", "pool"}
  BY DEF Fresh
<1>3. /\ UNCHANGED <<watching_session, sleep_session, wakeup_queue, error_queue, exited, asked, chan>>
      /\ phase' = "run"
  BY DEF timeout, control, queues, Starting, Running
<1>4. st'[c] = "timeout" /\ \A co \in Co \ {c} : st'[co] = st[co]
  BY <1>1, <1>2 DEF TypeOK
<1>5. sleep_session[c] = None /\ st[c] \notin Waiting
  BY <1>2, Idle1 DEF Waiting
<1>6. Expected(s, st[c])'
  BY <1>1, <1>4 DEF Expected
<1>7. \A r \in Peer, t \in SessionId : Owes(r, t) => Owes(r, t)'
  BY <1>3, SameOwes
<1> QED
  BY <1>1, <1>2, <1>3, <1>4, <1>5, <1>6, <1>7, HoldQueues

\* The coroutine that waited under s runs, and the others wait on.
LEMMA ResumeExpecting ==
    ASSUME TypeOK, Shape, Expecting, NEW s \in SessionId,
           session_id_coroutine'[s] \notin Co,
           \A t \in SessionId \ {s} : /\ session_id_coroutine'[t] = session_id_coroutine[t]
                                      /\ watching_session'[t] = watching_session[t]
                                      /\ t \in timers => t \in timers'
                                      /\ Contains(error_queue, t) => Contains(error_queue', t),
           st' = st \/ (session_id_coroutine[s] \in Co /\ Resume(session_id_coroutine[s])),
           \A p \in Peer, t \in SessionId \ {s} : Owes(p, t) => Owes(p, t)'
    PROVE  Expecting'
<1>1. ASSUME NEW t \in SessionId \ {s}, session_id_coroutine[t] \in Co
      PROVE  st'[session_id_coroutine[t]] = st[session_id_coroutine[t]]
  <2>1. session_id_coroutine[t] # session_id_coroutine[s]
    BY <1>1 DEF Shape, Sessions
  <2> QED
    BY <1>1, <2>1 DEF Resume, TypeOK
<1> QED
  BY <1>1, StillExpecting

LEMMA DispatchWakeupQueues == ASSUME TypeOK, Shape, QueueInv, dispatch_wakeup PROVE QueueInv'
<1> DEFINE token == Head(wakeup_queue)
           s == sleep_session[token]
<1>1. /\ phase = "wakeup" /\ wakeup_queue \in Seq(Co)
      /\ UNCHANGED <<error_queue, fork_queue, timers, asked, chan, exited, watching_session>>
  BY DEF dispatch_wakeup, peers, Resume, sessions, TypeOK
<1> SUFFICES ASSUME ~exited PROVE WakeQueue' /\ ErrorQueue' /\ WorkedOff' /\ Expecting'
  BY <1>1 DEF QueueInv
<1>2. WakeQueue /\ ErrorQueue /\ Expecting
  BY DEF QueueInv
<1>3. CASE wakeup_queue = <<>>
  <2>1. UNCHANGED <<st, session_id_coroutine, sleep_session, wakeup_queue>> /\ phase' = "error"
    BY <1>3 DEF dispatch_wakeup, sessions
  <2>2. WakeQueue' /\ ErrorQueue' /\ WorkedOff'
    BY <1>1, <1>2, <1>3, <2>1 DEF WakeQueue, ErrorQueue, WorkedOff
  <2>3. Expecting'
    BY <1>1, <1>2, <2>1, SameOwes, StillExpecting
  <2> QED
    BY <2>2, <2>3
<1>4. CASE wakeup_queue # <<>>
  <2>1. /\ token \in Co /\ wakeup_queue' = Tail(wakeup_queue)
        /\ \A x : Contains(wakeup_queue, x) <=> x = token \/ Contains(Tail(wakeup_queue), x)
        /\ \A x : Once(wakeup_queue, x) => Once(Tail(wakeup_queue), x)
        /\ Once(wakeup_queue, token) => ~Contains(Tail(wakeup_queue), token)
    BY <1>1, <1>4, Pop DEF dispatch_wakeup
  <2> HIDE DEF token
  <2>2. s # None
    BY <1>2, <2>1 DEF WakeQueue
  <2>3. s \in SessionId /\ session_id_coroutine[s] = token /\ st[token] \in {"sleep", "wait"}
    BY <2>1, <2>2 DEF Shape, Kinds, TypeOK
  <2>4. /\ Resume(token)
        /\ session_id_coroutine' = [session_id_coroutine EXCEPT
                                      ![s] = IF st[token] = "sleep" THEN BREAK ELSE None]
        /\ sleep_session' = [sleep_session EXCEPT ![token] = None]
    BY <1>4, <2>2 DEF dispatch_wakeup, token
  <2> HIDE DEF s
  <2>5. /\ session_id_coroutine'[s] \notin Co
        /\ \A t \in SessionId \ {s} : session_id_coroutine'[t] = session_id_coroutine[t]
        /\ \A co \in Co \ {token} : sleep_session'[co] = sleep_session[co]
    BY <2>1, <2>3, <2>4, SessionAssumption DEF TypeOK
  <2>6. WakeQueue'
    BY <1>2, <2>1, <2>5 DEF WakeQueue
  <2>7. ~Contains(error_queue, s)
    <3>1. watching_session[s] = None
      BY <2>1, <2>3 DEF Shape, Kinds
    <3> QED
      BY <2>1, <2>3, <3>1 DEF Shape, Kinds
  <2>8. ErrorQueue' /\ WorkedOff'
    BY <1>1, <1>2, <2>4, <2>5, <2>7 DEF ErrorQueue, WorkedOff, Resume
  <2>9. Expecting'
    BY <1>1, <1>2, <2>1, <2>3, <2>4, <2>5, SameOwes, ResumeExpecting
  <2> QED
    BY <2>6, <2>8, <2>9
<1> QED
  BY <1>3, <1>4

LEMMA DispatchErrorQueues == ASSUME TypeOK, Shape, QueueInv, dispatch_error_queue PROVE QueueInv'
<1> DEFINE s == Head(error_queue)
<1>1. /\ phase = "error" /\ error_queue \in Seq(SessionId)
      /\ UNCHANGED <<wakeup_queue, fork_queue, timers, asked, chan, exited>>
  BY DEF dispatch_error_queue, peers, Resume, TypeOK
<1> SUFFICES ASSUME ~exited PROVE WakeQueue' /\ ErrorQueue' /\ WorkedOff' /\ Expecting'
  BY <1>1 DEF QueueInv
<1>2. WakeQueue /\ ErrorQueue /\ Expecting /\ wakeup_queue = <<>>
  BY <1>1 DEF QueueInv, WorkedOff
<1>3. CASE error_queue = <<>>
  <2>1. /\ UNCHANGED <<st, session_id_coroutine, sleep_session, watching_session, error_queue>>
        /\ phase' \in {"error", "forks"}
    BY <1>3 DEF dispatch_error_queue, Return, sessions
  <2>2. WakeQueue' /\ ErrorQueue' /\ WorkedOff'
    BY <1>1, <1>2, <1>3, <2>1 DEF WakeQueue, ErrorQueue, WorkedOff
  <2>3. Expecting'
    BY <1>1, <1>2, <2>1, SameOwes, StillExpecting
  <2> QED
    BY <2>2, <2>3
<1>4. CASE error_queue # <<>>
  <2>1. /\ s \in SessionId /\ error_queue' = Tail(error_queue)
        /\ \A x : Contains(error_queue, x) <=> x = s \/ Contains(Tail(error_queue), x)
        /\ \A x : Once(error_queue, x) => Once(Tail(error_queue), x)
        /\ Once(error_queue, s) => ~Contains(Tail(error_queue), s)
    BY <1>1, <1>4, Pop DEF dispatch_error_queue
  <2> HIDE DEF s
  <2>2. session_id_coroutine[s] \in Co
    BY <1>2, <2>1 DEF ErrorQueue
  <2>3. /\ Resume(session_id_coroutine[s]) /\ sleep_session' = sleep_session
        /\ session_id_coroutine' = [session_id_coroutine EXCEPT ![s] = None]
        /\ watching_session' = [watching_session EXCEPT ![s] = None]
    BY <1>4, <2>2 DEF dispatch_error_queue, s
  <2>4. /\ session_id_coroutine'[s] \notin Co
        /\ \A t \in SessionId \ {s} : /\ session_id_coroutine'[t] = session_id_coroutine[t]
                                      /\ watching_session'[t] = watching_session[t]
    BY <2>1, <2>3, SessionAssumption DEF TypeOK
  <2>5. WakeQueue' /\ ErrorQueue' /\ WorkedOff'
    BY <1>1, <1>2, <2>1, <2>3, <2>4 DEF WakeQueue, ErrorQueue, WorkedOff, Resume
  <2>6. Expecting'
    BY <1>1, <1>2, <2>1, <2>2, <2>3, <2>4, SameOwes, ResumeExpecting
  <2> QED
    BY <2>5, <2>6
<1> QED
  BY <1>3, <1>4

\* Between two messages the queues are empty, and what is taken then resumes one
\* coroutine at most.
LEMMA TakeResponseQueues ==
    ASSUME TypeOK, Shape, QueueInv, phase = "idle", NEW s \in SessionId, TakeResponse(s),
           \A t \in SessionId \ {s} : t \in timers => t \in timers',
           \A p \in Peer, t \in SessionId \ {s} : Owes(p, t) => Owes(p, t)'
    PROVE  QueueInv'
<1>1. /\ session_id_coroutine' = [session_id_coroutine EXCEPT ![s] = None]
      /\ UNCHANGED <<wakeup_queue, error_queue, fork_queue, exited>>
  BY DEF TakeResponse, queues, control, Resume
<1> SUFFICES ASSUME ~exited PROVE WakeQueue' /\ ErrorQueue' /\ WorkedOff' /\ Expecting'
  BY <1>1 DEF QueueInv
<1>2. Expecting /\ wakeup_queue = <<>> /\ error_queue = <<>> /\ fork_queue = {}
  BY DEF QueueInv, WorkedOff
<1>3. WakeQueue' /\ ErrorQueue' /\ WorkedOff'
  BY <1>1, <1>2, NoneQueued DEF WakeQueue, ErrorQueue, WorkedOff
<1>4. /\ session_id_coroutine'[s] \notin Co
      /\ \A t \in SessionId \ {s} : session_id_coroutine'[t] = session_id_coroutine[t]
  BY <1>1, SessionAssumption DEF TypeOK
<1>5. \A t \in SessionId \ {s} : watching_session'[t] = watching_session[t]
  BY DEF TakeResponse, TypeOK
<1>6. st' = st \/ (session_id_coroutine[s] \in Co /\ Resume(session_id_coroutine[s]))
  BY DEF TakeResponse
<1>7. Expecting'
  BY <1>1, <1>2, <1>4, <1>5, <1>6, ResumeExpecting
<1> QED
  BY <1>3, <1>7

LEMMA TimerQueues == ASSUME TypeOK, Shape, QueueInv, NEW s \in SessionId, Timeout(s) PROVE QueueInv'
<1>1. phase = "idle" /\ TakeResponse(s) /\ timers' = timers \ {s} /\ UNCHANGED <<asked, chan>>
  BY DEF Timeout
<1>2. \A p \in Peer, t \in SessionId : Owes(p, t) => Owes(p, t)'
  BY <1>1, SameOwes
<1> QED
  BY <1>1, <1>2, TakeResponseQueues

LEMMA MessageQueues == ASSUME TypeOK, Shape, QueueInv, NEW p \in Peer, Dispatch(p) PROVE QueueInv'
<1> USE SessionAssumption
<1> DEFINE m == Head(chan[p])
<1>1. /\ m \in Message /\ phase = "idle" /\ chan[p] # <<>> /\ chan' = [chan EXCEPT ![p] = Tail(@)]
      /\ UNCHANGED <<asked, timers>>
  BY Types, PoppedChan DEF Dispatch
<1>2. \A r \in Peer, t \in SessionId : Owes(r, t) =>
         \/ Owes(r, t)' \/ (r = p /\ m.type # "request" /\ m.session = t)
         \/ r = p /\ m.type = "error" /\ m.session = 0
  <2>1. Down.type = "error" /\ Down.session = 0
    BY DEF Down
  <2>2. \A r \in Peer, t \in SessionId : Owes(r, t) =>
           \/ Owes(r, t)' \/ (r = p /\ m.type # "request" /\ m.session = t)
           \/ r = p /\ m = Down
    BY <1>1, Types, PopOwes
  <2> QED
    BY <2>1, <2>2
<1>3. CASE m.type = "response" /\ TakeResponse(m.session)
  <2>1. m.session \in SessionId
    BY <1>1, <1>3, Messages
  <2> HIDE DEF m
  <2> QED
    BY <1>1, <1>2, <1>3, <2>1, TakeResponseQueues
<1>4. ~exited => Expecting /\ wakeup_queue = <<>> /\ error_queue = <<>> /\ fork_queue = {}
  BY <1>1 DEF QueueInv, WorkedOff
<1>5. CASE m.type = "request" /\ TakeRequest(p, m.session)
  <2>1. PICK c \in Fresh : Resume(c)
    BY <1>5 DEF TakeRequest
  <2>2. c \in Co /\ st[c] \notin Waiting
    BY DEF Fresh, Waiting
  <2>3. /\ UNCHANGED <<session_id_coroutine, watching_session, sleep_session, wakeup_queue, error_queue,
                       exited>>
        /\ phase' = "run"
    BY <1>5, <2>1 DEF TakeRequest, sessions, queues, Resume
  <2>4. \A co \in Co : st[co] \in Waiting => st'[co] = st[co]
    BY <2>1, <2>2 DEF Resume, TypeOK
  <2>5. WorkedOff' /\ \A r \in Peer, t \in SessionId : Owes(r, t) => Owes(r, t)'
    BY <1>2, <1>5, <2>3 DEF WorkedOff
  <2> QED
    BY <1>1, <2>3, <2>4, <2>5, SameQueues
<1>6. CASE m.type = "error" /\ TakeError(p, m.session)
  <2>0. PICK s \in SessionId \cup {0} : s = m.session /\ TakeError(p, s)
    BY <1>1, <1>6, Messages
  <2>1. /\ phase' = "wakeup"
        /\ \A t \in SessionId : Contains(error_queue', t) <=>
              Contains(error_queue, t) \/ t \in Failed(p, s)
        /\ error_queue = <<>> => \A t \in SessionId : Once(error_queue', t)
        /\ \A t \in SessionId : t \in Failed(p, s) => watching_session[t] # None
        /\ \A t \in SessionId : t = s /\ watching_session[t] # None => t \in Failed(p, s)
    BY <1>1, <2>0, TakeErrorShape
  <2>2. UNCHANGED <<session_id_coroutine, watching_session, sleep_session, wakeup_queue, exited>>
    BY <2>0 DEF TakeError, sessions, Suspend
  <2>3. \A co \in Co : st[co] \in Waiting => st'[co] = st[co]
    <3>1. PICK c \in Fresh : st' = [st EXCEPT ![c] = "pool"]
      BY <2>0 DEF TakeError
    <3>2. c \in Co /\ st[c] \notin Waiting
      BY DEF Fresh, Waiting
    <3> QED
      BY <3>1, <3>2 DEF TypeOK
  <2> HIDE DEF m
  <2> SUFFICES ASSUME ~exited PROVE WakeQueue' /\ ErrorQueue' /\ WorkedOff' /\ Expecting'
    BY <2>2 DEF QueueInv
  <2>4. WakeQueue' /\ WorkedOff'
    BY <1>4, <2>1, <2>2, NoneQueued DEF WakeQueue, WorkedOff
  <2>5. ErrorQueue'
    <3>1. \A t \in SessionId : Contains(error_queue', t) => watching_session[t] # None
      BY <1>4, <2>1, NoneQueued
    <3>2. \A t \in SessionId : watching_session[t] # None => session_id_coroutine[t] \in Co
      BY DEF Shape, Kinds
    <3> QED
      BY <1>4, <2>1, <2>2, <3>1, <3>2 DEF ErrorQueue
  <2>6. Expecting'
    <3>1. ASSUME NEW t \in SessionId, session_id_coroutine[t] \in Co
          PROVE  st'[session_id_coroutine[t]] = st[session_id_coroutine[t]]
      BY <2>3, <3>1 DEF Shape, Sessions
    <3>2. ASSUME NEW t \in SessionId, NEW r \in Peer, watching_session[t] = r, Owes(r, t)
          PROVE  Owes(r, t)' \/ Contains(error_queue', t)
      <4>1. CASE t = s
        BY <2>1, <3>2, <4>1
      <4>2. CASE t # s
        <5>1. Owes(r, t)' \/ (r = p /\ s = 0)
          BY <1>2, <2>0, <3>2, <4>2
        <5>2. r = p /\ s = 0 => t \in Failed(p, s)
          BY <3>2 DEF Failed
        <5> QED
          BY <2>1, <5>1, <5>2
      <4> QED
        BY <4>1, <4>2
    <3> QED
      BY <1>1, <1>4, <2>1, <2>2, <3>1, <3>2, StillExpecting
  <2> QED
    BY <2>4, <2>5, <2>6
<1> QED
  BY <1>3, <1>5, <1>6 DEF Dispatch

LEMMA QueueStep == ASSUME TypeOK, Shape, Requests, QueueInv, Next PROVE QueueInv'
<1>1. CASE exit \/ Gone \/ \E p \in Peer : Drop(p)
  <2>1. exited'
    BY <1>1 DEF exit, Gone, Drop, Requests, control
  <2> QED
    BY <2>1 DEF QueueInv
<1> QED
  BY <1>1, QuietQueues, PeerQueues, WakeupQueues, YieldQueues, TimeoutQueues,
     DispatchWakeupQueues, DispatchErrorQueues, TimerQueues, MessageQueues DEF Next
-----------------------------------------------------------------------------
Inv == TypeOK /\ Shape /\ RequestInv /\ QueueInv

\* The invariant holds in every state of the service.
THEOREM Invariance == Spec => []Inv
<1>1. Init => Inv
  BY ShapeInit, RequestInit, QueueInit DEF Inv
<1>2. Inv /\ [Next]_vars => Inv'
  <2> SUFFICES ASSUME Inv, [Next]_vars PROVE Inv'
    OBVIOUS
  <2>1. CASE Next
    BY <2>1, TypeStep, ShapeStep, RequestStep, QueueStep DEF Inv, RequestInv
  <2>2. CASE UNCHANGED vars
    BY <2>2 DEF vars, control, requests, sessions, queues, peers, answers, Inv, TypeOK, Shape, OneRuns,
                Sessions, Kinds, RequestInv, Requests, Kept, Placed, AnsweredOnce, OnePlace, PlaceOf,
                Mailed, Serves, QueueInv, WakeQueue, ErrorQueue, WorkedOff, Expecting, Expected, Owes, Reply
  <2> QED
    BY <2>1, <2>2
<1> QED
  BY <1>1, <1>2, PTL DEF Spec

\* Between two messages suspend has left nothing in its queues, however coroutines wake
\* each other and fail on the way.
THEOREM QueuesDrained == Spec => []Drained
<1>1. Inv => Drained
  BY DEF Inv, QueueInv, WorkedOff, Drained
<1> QED
  BY <1>1, Invariance, PTL

\* A coroutine that has yielded waits under exactly one session, and its answer, error or
\* timeout is still to come.
THEOREM WaitersResumable == Spec => []Resumable
<1>1. Inv => Resumable
  <2> SUFFICES ASSUME Inv, ~exited, NEW co \in Co, st[co] \in Waiting
               PROVE  LET held == {s \in SessionId : session_id_coroutine[s] = co}
                      IN  Cardinality(held) = 1 /\ \A s \in held : Coming(s, st[co])
    BY DEF Resumable, Waiting
  <2> DEFINE held == {s \in SessionId : session_id_coroutine[s] = co}
  <2>1. PICK s \in SessionId : session_id_coroutine[s] = co
    BY DEF Inv, Shape, Sessions
  <2>2. held = {s}
    BY <2>1 DEF Inv, Shape, Sessions
  <2>3. Cardinality(held) = 1
    BY <2>2, FS_Singleton
  <2>4. Expected(s, st[co])
    BY <2>1 DEF Inv, QueueInv, Expecting
  <2>5. Coming(s, st[co])
    <3>1. CASE st[co] = "call"
      <4>1. CASE Contains(error_queue, s)
        BY <3>1, <4>1 DEF Coming
      <4>2. ASSUME NEW p \in Peer, watching_session[s] = p, s \in asked[p] PROVE Coming(s, st[co])
        BY <3>1, <4>2 DEF Coming
      <4>3. ASSUME NEW p \in Peer, watching_session[s] = p, Reply(p, s) PROVE Coming(s, st[co])
        BY <3>1, <4>3 DEF Coming, Reply, Contains
      <4>4. ASSUME NEW p \in Peer, watching_session[s] = p, Contains(chan[p], Down)
            PROVE  Coming(s, st[co])
        BY <3>1, <4>4 DEF Coming, Contains, Down
      <4> QED
        BY <2>4, <3>1, <4>1, <4>2, <4>3, <4>4 DEF Expected, Owes
    <3>2. CASE st[co] \in {"sleep", "timeout"}
      BY <2>4, <3>2 DEF Expected, Coming
    <3>3. CASE st[co] = "wait"
      BY <3>3 DEF Coming
    <3> QED
      BY <3>1, <3>2, <3>3 DEF Waiting
  <2> QED
    BY <2>2, <2>3, <2>5
<1> QED
  BY <1>1, Invariance, PTL

\* Up to and including the exit of the service no request is answered twice: not by
\* skynet.ret, a late response, a failing handler and skynet.exit together.
THEOREM AnsweredAtMostOnce == Spec => []AnsweredOnce
<1>1. Inv => AnsweredOnce
  BY DEF Inv, RequestInv
<1> QED
  BY <1>1, Invariance, PTL

\* A request without an answer is in the mailbox, served by a coroutine that has not ended,
\* left for later by skynet.response, or among those the code is known to lose.
THEOREM RequestsTracked == Spec => []Tracked
<1>1. Inv => Tracked
  BY KeptTracked DEF Inv, RequestInv
<1> QED
  BY <1>1, Invariance, PTL
=============================================================================
