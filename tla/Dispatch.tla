------------------------------ MODULE Dispatch ------------------------------
(***************************************************************************)
(* The scheduling core of skynet: the message queue of every service       *)
(* (skynet_mq.c), the global queue of services that have work, the context *)
(* reference counts (skynet_server.c, skynet_handle.c) and the worker      *)
(* threads that take services from the global queue and run their callback *)
(* (skynet_server.c:296, skynet_start.c:152).                              *)
(*                                                                         *)
(* A step is one critical section of a spin lock or one atomic counter     *)
(* operation.  The ring buffer behind a queue is module RingQueue; here it *)
(* is the sequence it implements.  A handle names one service for good.    *)
(***************************************************************************)
EXTENDS Integers, Sequences, FiniteSets

CONSTANTS Handle,      \* service handles
          NoHandle,    \* NULL
          Worker,      \* worker threads
          Ext,         \* the timer and socket threads, which only push messages
          Boot,        \* services launched before the workers start (logger, bootstrap)
          BootQ,       \* the global queue at that moment: Boot in launch order
          Weight,      \* [Worker -> -1..3], the table of skynet_start.c:208
          MaxMsg       \* bound: no thread sends to a queue this long

Thread == Worker \cup Ext

ASSUME DispatchAssumption ==
    /\ NoHandle \notin Handle
    /\ IsFiniteSet(Worker) /\ IsFiniteSet(Ext)
    /\ Worker \cap Ext = {}
    /\ Boot \subseteq Handle
    /\ BootQ \in Seq(Boot)
    /\ \A i, j \in 1..Len(BootQ) : BootQ[i] = BootQ[j] => i = j
    /\ \A h \in Boot : \E i \in 1..Len(BootQ) : BootQ[i] = h
    /\ Weight \in [Worker -> -1..3]
    /\ MaxMsg \in Nat

\* The sender of a message; NoHandle (0) when a thread of the runtime sent it.
Message == Handle \cup {NoHandle}

VARIABLES
    slot,       \* SUBSET Handle: contexts in the handle storage
    ctx,        \* [Handle -> Ctx]: the memory of struct skynet_context
    ref,        \* [Handle -> Int]: ctx->ref
    mq,         \* [Handle -> Seq(Message)]: the messages of the service's queue
    mem,        \* [Handle -> Mem]: the memory of struct message_queue
    in_global,  \* SUBSET Handle: queues with in_global == MQ_IN_GLOBAL
    release,    \* SUBSET Handle: queues with release == 1
    Q,          \* Seq(Handle): the global queue
    pc,         \* [Worker -> Pc]: where skynet_context_message_dispatch stands
    q, nq,      \* [Worker -> Handle or NoHandle]: its locals of the same name
    left,       \* [Worker -> Int]: iterations its for loop has left, -1 before the first
    new, stage, \* [Worker -> ...]: the service it is launching, and how far
    call, arg,  \* [Thread -> ...]: the queue or context operation in progress
    drop        \* [Worker -> Handle or NoHandle]: the queue it is draining

vars == <<slot, ctx, ref, mq, mem, in_global, release, Q, pc, q, nq, left,
          new, stage, call, arg, drop>>
workerVars == <<pc, q, nq, left>>
launchVars == <<new, stage>>
mqVars == <<mq, mem, in_global, release, Q>>
ctxVars == <<slot, ctx, ref>>

Ctx == {"none", "init", "ready", "freed"}
Mem == {"none", "live", "freed"}
Pc == {"fetch", "sleep", "grab", "mqrelease", "pop", "length", "callback",
       "requeue", "pushback"}
Stage == {"none", "init", "ok", "failed", "mqrelease"}
Call == {"none", "push", "release", "mark"}
HandleOrNone == Handle \cup {NoHandle}

\* skynet_start before it creates the threads.  The init function of a Lua
\* service has sent it the message that will run its script (service_snlua.c:156).
Init ==
    /\ slot = Boot
    /\ ctx = [h \in Handle |-> IF h \in Boot THEN "ready" ELSE "none"]
    /\ ref = [h \in Handle |-> IF h \in Boot THEN 1 ELSE 0]
    /\ mq = [h \in Handle |-> IF h \in Boot THEN <<h>> ELSE <<>>]
    /\ mem = [h \in Handle |-> IF h \in Boot THEN "live" ELSE "none"]
    /\ in_global = Boot
    /\ release = {}
    /\ Q = BootQ
    /\ pc = [w \in Worker |-> "fetch"]
    /\ q = [w \in Worker |-> NoHandle]
    /\ nq = [w \in Worker |-> NoHandle]
    /\ left = [w \in Worker |-> 0]
    /\ new = [w \in Worker |-> NoHandle]
    /\ stage = [w \in Worker |-> "none"]
    /\ call = [t \in Thread |-> "none"]
    /\ arg = [t \in Thread |-> NoHandle]
    /\ drop = [w \in Worker |-> NoHandle]
-----------------------------------------------------------------------------
(***************************************************************************)
(* Operations on queues and contexts.  A thread runs one at a time.        *)
(***************************************************************************)

Begin(t, c, h) == /\ call' = [call EXCEPT ![t] = c]
                  /\ arg' = [arg EXCEPT ![t] = h]

Return(t) == Begin(t, "none", NoHandle)

\* skynet_globalmq_push: the queue must not be linked already.
globalmq_push(h) == Q' = Append(Q, h)

\* Code of a service, or of an external thread, that may call the runtime now:
\* in a callback, or in the init function of the service being launched.
CanCall(t) ==
    /\ call[t] = "none"
    /\ t \in Worker => /\ drop[t] = NoHandle
                       /\ pc[t] = "callback"
                       /\ stage[t] \in {"none", "init"}

\* The service on whose behalf thread t calls.
Self(t) == IF t \in Ext THEN NoHandle
           ELSE IF new[t] # NoHandle THEN new[t] ELSE q[t]

\* skynet_context_push, first half: skynet_handle_grab finds the receiver.
\* (When it does not, the call fails and nothing changes.)  The message is
\* identified by its sender.
ContextPush(t, h) ==
    /\ CanCall(t)
    /\ h \in slot
    /\ Len(mq[h]) < MaxMsg
    /\ ref' = [ref EXCEPT ![h] = @ + 1]
    /\ Begin(t, "push", h)
    /\ UNCHANGED <<slot, ctx, mqVars, workerVars, launchVars, drop>>

\* Faulty variants of the next operation: it links the queue without looking at
\* in_global; it never links it; it adds the message at the wrong end.
MqPushAlwaysLinks(t) ==
    /\ call[t] = "push"
    /\ mq' = [mq EXCEPT ![arg[t]] = Append(@, NoHandle)]
    /\ in_global' = in_global \cup {arg[t]}
    /\ globalmq_push(arg[t])
    /\ Begin(t, "release", arg[t])
    /\ UNCHANGED <<mem, release, ctxVars, workerVars, launchVars, drop>>

MqPushNeverLinks(t) ==
    /\ call[t] = "push"
    /\ mq' = [mq EXCEPT ![arg[t]] = Append(@, NoHandle)]
    /\ Begin(t, "release", arg[t])
    /\ UNCHANGED <<in_global, Q, mem, release, ctxVars, workerVars, launchVars, drop>>

MqPushFront(t) ==
    /\ call[t] = "push"
    /\ mq' = [mq EXCEPT ![arg[t]] = <<Self(t)>> \o @]
    /\ in_global' = in_global \cup {arg[t]}
    /\ Q' = IF arg[t] \in in_global THEN Q ELSE Append(Q, arg[t])
    /\ Begin(t, "release", arg[t])
    /\ UNCHANGED <<mem, release, ctxVars, workerVars, launchVars, drop>>

\* skynet_mq_push: under the queue's lock, append and schedule the service
\* unless it is scheduled already.  A thread that is draining a dead queue
\* pushes the error reply of drop_message, whose source is the dead service.
MqPush(t) ==
    LET h == arg[t]
        m == IF t \in Worker /\ drop[t] # NoHandle THEN drop[t] ELSE Self(t)
    IN  /\ call[t] = "push"
        /\ mq' = [mq EXCEPT ![h] = Append(@, m)]
        /\ IF h \in in_global
           THEN UNCHANGED <<in_global, Q>>
           ELSE /\ in_global' = in_global \cup {h}
                /\ globalmq_push(h)
        /\ Begin(t, "release", h)
        /\ UNCHANGED <<mem, release, ctxVars, workerVars, launchVars, drop>>

\* skynet_context_release: the thread that drops the last reference goes on
\* to delete_context.
ContextRelease(t) ==
    LET h == arg[t]
    IN  /\ call[t] = "release"
        /\ ref' = [ref EXCEPT ![h] = @ - 1]
        /\ IF ref[h] = 1 THEN Begin(t, "mark", h) ELSE Return(t)
        /\ UNCHANGED <<slot, ctx, mqVars, workerVars, launchVars, drop>>

\* Faulty variant: an idle queue is not linked, so no worker will free it.
MqMarkReleaseUnlinked(t) ==
    /\ call[t] = "mark"
    /\ release' = release \cup {arg[t]}
    /\ ctx' = [ctx EXCEPT ![arg[t]] = "freed"]
    /\ Return(t)
    /\ UNCHANGED <<Q, slot, ref, mq, mem, in_global, workerVars, launchVars, drop>>

\* delete_context: skynet_mq_mark_release flags the queue for the worker that
\* finds it next, linking it in the global queue (without setting in_global)
\* if it is idle; then the context is freed.
MqMarkRelease(t) ==
    LET h == arg[t]
    IN  /\ call[t] = "mark"
        /\ release' = release \cup {h}
        /\ IF h \in in_global THEN UNCHANGED Q ELSE globalmq_push(h)
        /\ ctx' = [ctx EXCEPT ![h] = "freed"]
        /\ Return(t)
        /\ UNCHANGED <<slot, ref, mq, mem, in_global, workerVars, launchVars, drop>>

\* skynet_handle_retire by a callback that exits its service or kills another
\* one: the context leaves the storage, then the storage's reference goes.
HandleRetire(w, h) ==
    /\ CanCall(w)
    /\ h \in slot
    /\ slot' = slot \ {h}
    /\ Begin(w, "release", h)
    /\ UNCHANGED <<ctx, ref, mqVars, workerVars, launchVars, drop>>

\* Faulty variant: the queue is freed though a sender may still hold its context.
MqReleaseUnmarked(w, h) == drop' = [drop EXCEPT ![w] = h] /\ UNCHANGED Q

\* skynet_mq_release of a queue whose service is gone: drain it if it is
\* marked, else leave it to a later worker.
MqReleaseQueue(w, h) ==
    IF h \in release
    THEN drop' = [drop EXCEPT ![w] = h] /\ UNCHANGED Q
    ELSE globalmq_push(h) /\ UNCHANGED drop

\* _drop_queue: one message is taken and its source, if still there, is sent
\* an error (drop_message); an error to source 0 is not sent.
DropMessage(w) ==
    LET h == drop[w]
    IN  /\ call[w] = "none"
        /\ h # NoHandle
        /\ mq[h] # <<>>
        /\ mq' = [mq EXCEPT ![h] = Tail(@)]
        /\ IF Head(mq[h]) \in slot
           THEN /\ ref' = [ref EXCEPT ![Head(mq[h])] = @ + 1]
                /\ Begin(w, "push", Head(mq[h]))
           ELSE UNCHANGED <<ref, call, arg>>
        /\ UNCHANGED <<slot, ctx, mem, in_global, release, Q, workerVars,
                       launchVars, drop>>

\* _drop_queue, end: the queue is empty and freed.
DropQueue(w) ==
    LET h == drop[w]
    IN  /\ call[w] = "none"
        /\ h # NoHandle
        /\ mq[h] = <<>>
        /\ in_global' = in_global \ {h}
        /\ mem' = [mem EXCEPT ![h] = "freed"]
        /\ drop' = [drop EXCEPT ![w] = NoHandle]
        /\ UNCHANGED <<mq, release, Q, ctxVars, workerVars, launchVars, call, arg>>
-----------------------------------------------------------------------------
(***************************************************************************)
(* skynet_context_new, called from a callback.                             *)
(***************************************************************************)

\* The context is registered and its queue created with in_global set, so
\* that nobody schedules it before the service's init function has returned.
\* One step for skynet_server.c:155 and :156, between which the context is in
\* the table without a queue: nobody has been told its handle yet and handles
\* are not used again here, so that only skynet_handle_retireall could find it,
\* which does not touch the queue.
ContextNew(w, h) ==
    /\ CanCall(w)
    /\ new[w] = NoHandle
    /\ ctx[h] = "none"
    /\ slot' = slot \cup {h}
    /\ ctx' = [ctx EXCEPT ![h] = "init"]
    /\ ref' = [ref EXCEPT ![h] = 2]
    /\ mem' = [mem EXCEPT ![h] = "live"]
    /\ in_global' = in_global \cup {h}
    /\ new' = [new EXCEPT ![w] = h]
    /\ stage' = [stage EXCEPT ![w] = "init"]
    /\ UNCHANGED <<mq, release, Q, workerVars, call, arg, drop>>

\* The init function returned, with r = 0 or not; either way the creator's
\* reference is released first.
InitReturns(w, r) ==
    /\ call[w] = "none"
    /\ stage[w] = "init"
    /\ stage' = [stage EXCEPT ![w] = r]
    /\ Begin(w, "release", new[w])
    /\ UNCHANGED <<ctxVars, mqVars, workerVars, new, drop>>

\* Success: the service is initialised and scheduled for the first time.
ContextReady(w) ==
    /\ call[w] = "none"
    /\ stage[w] = "ok"
    /\ ctx' = [ctx EXCEPT ![new[w]] = IF @ = "init" THEN "ready" ELSE @]
    /\ globalmq_push(new[w])
    /\ new' = [new EXCEPT ![w] = NoHandle]
    /\ stage' = [stage EXCEPT ![w] = "none"]
    /\ UNCHANGED <<slot, ref, mq, mem, in_global, release, workerVars, call, arg, drop>>

\* Failure: retire the handle, which another thread may have done already...
ContextFailed(w) ==
    /\ call[w] = "none"
    /\ stage[w] = "failed"
    /\ stage' = [stage EXCEPT ![w] = "mqrelease"]
    /\ IF new[w] \in slot
       THEN slot' = slot \ {new[w]} /\ Begin(w, "release", new[w])
       ELSE UNCHANGED <<slot, call, arg>>
    /\ UNCHANGED <<ctx, ref, mqVars, workerVars, new, drop>>

\* ... and give the queue up.
NewMqRelease(w) ==
    /\ call[w] = "none"
    /\ stage[w] = "mqrelease"
    /\ MqReleaseQueue(w, new[w])
    /\ new' = [new EXCEPT ![w] = NoHandle]
    /\ stage' = [stage EXCEPT ![w] = "none"]
    /\ UNCHANGED <<ctxVars, mq, mem, in_global, release, workerVars, call, arg>>
-----------------------------------------------------------------------------
(***************************************************************************)
(* The worker thread: thread_worker and skynet_context_message_dispatch.   *)
(***************************************************************************)

At(w, p) == pc[w] = p /\ call[w] = "none" /\ drop[w] = NoHandle

Goto(w, p) == pc' = [pc EXCEPT ![w] = p]

\* skynet_globalmq_pop; with nothing to do the worker waits on the condition.
Fetch(w) ==
    /\ At(w, "fetch")
    /\ IF Q = <<>>
       THEN Goto(w, "sleep") /\ UNCHANGED <<q, Q>>
       ELSE /\ q' = [q EXCEPT ![w] = Head(Q)]
            /\ Q' = Tail(Q)
            /\ Goto(w, "grab")
    /\ UNCHANGED <<ctxVars, mq, mem, in_global, release, nq, left, launchVars,
                   call, arg, drop>>

\* The timer thread signals the condition at every tick (thread_timer).
Wakeup(w) ==
    /\ At(w, "sleep")
    /\ Goto(w, "fetch")
    /\ UNCHANGED <<ctxVars, mqVars, q, nq, left, launchVars, call, arg, drop>>

\* skynet_handle_grab of the queue's service.
Grab(w) ==
    /\ At(w, "grab")
    /\ IF q[w] \in slot
       THEN ref' = [ref EXCEPT ![q[w]] = @ + 1] /\ Goto(w, "pop")
       ELSE UNCHANGED ref /\ Goto(w, "mqrelease")
    /\ left' = [left EXCEPT ![w] = -1]
    /\ UNCHANGED <<slot, ctx, mqVars, q, nq, launchVars, call, arg, drop>>

\* The service is gone: skynet_mq_release, and on to the next queue.
MqRelease(w) ==
    /\ At(w, "mqrelease")
    /\ MqReleaseQueue(w, q[w])
    /\ q' = [q EXCEPT ![w] = NoHandle]
    /\ Goto(w, "fetch")
    /\ UNCHANGED <<ctxVars, mq, mem, in_global, release, nq, left, launchVars,
                   call, arg>>

\* Faulty variant: the early return of the dispatch loop keeps the reference.
MqPopKeepsRef(w) ==
    /\ At(w, "pop")
    /\ IF mq[q[w]] = <<>>
       THEN /\ in_global' = in_global \ {q[w]}
            /\ q' = [q EXCEPT ![w] = NoHandle]
            /\ Goto(w, "fetch")
            /\ UNCHANGED mq
       ELSE /\ mq' = [mq EXCEPT ![q[w]] = Tail(@)]
            /\ Goto(w, IF left[w] = -1 THEN "length" ELSE "callback")
            /\ UNCHANGED <<in_global, q>>
    /\ UNCHANGED <<ctxVars, mem, release, Q, nq, left, launchVars, call, arg, drop>>

\* skynet_mq_pop.  An empty queue is unscheduled, under its lock, and its
\* context released; left = -1 marks the first iteration of the loop.
MqPop(w) ==
    /\ At(w, "pop")
    /\ IF mq[q[w]] = <<>>
       THEN /\ in_global' = in_global \ {q[w]}
            /\ q' = [q EXCEPT ![w] = NoHandle]
            /\ Begin(w, "release", q[w])
            /\ Goto(w, "fetch")
            /\ UNCHANGED mq
       ELSE /\ mq' = [mq EXCEPT ![q[w]] = Tail(@)]
            /\ Goto(w, IF left[w] = -1 THEN "length" ELSE "callback")
            /\ UNCHANGED <<in_global, q, call, arg>>
    /\ UNCHANGED <<ctxVars, mem, release, Q, nq, left, launchVars, drop>>

\* n >>= weight
Shift(n, weight) == CASE weight = 0 -> n
                      [] weight = 1 -> n \div 2
                      [] weight = 2 -> n \div 4
                      [] weight = 3 -> n \div 8

\* The length of the queue after the first pop fixes how many messages this
\* worker takes in a row; the loop body runs at least once.
MqLength(w) ==
    LET n == IF Weight[w] = -1 THEN 1 ELSE Shift(Len(mq[q[w]]), Weight[w])
    IN  /\ At(w, "length")
        /\ left' = [left EXCEPT ![w] = IF n > 0 THEN n - 1 ELSE 0]
        /\ Goto(w, "callback")
        /\ UNCHANGED <<ctxVars, mqVars, q, nq, launchVars, call, arg, drop>>

\* The callback returns: next iteration or end of the loop.
CallbackReturns(w) ==
    /\ At(w, "callback")
    /\ stage[w] = "none"
    /\ IF left[w] > 0
       THEN Goto(w, "pop") /\ left' = [left EXCEPT ![w] = @ - 1]
       ELSE Goto(w, "requeue") /\ UNCHANGED left
    /\ UNCHANGED <<ctxVars, mqVars, q, nq, launchVars, call, arg, drop>>

\* Faulty variant: the worker stays with q as long as q has messages.
RequeueKeeps(w) ==
    /\ At(w, "requeue")
    /\ Begin(w, "release", q[w])
    /\ Goto(w, "grab")
    /\ UNCHANGED <<ctxVars, mqVars, q, nq, left, launchVars, drop>>

\* skynet_globalmq_pop after the loop.  If no other service waits the worker
\* keeps q, which stays unlinked; the context is released either way.
Requeue(w) ==
    /\ At(w, "requeue")
    /\ IF Q = <<>>
       THEN /\ Begin(w, "release", q[w])
            /\ Goto(w, "grab")
            /\ UNCHANGED <<Q, nq>>
       ELSE /\ nq' = [nq EXCEPT ![w] = Head(Q)]
            /\ Q' = Tail(Q)
            /\ Goto(w, "pushback")
            /\ UNCHANGED <<call, arg>>
    /\ UNCHANGED <<ctxVars, mq, mem, in_global, release, q, left, launchVars, drop>>

\* Faulty variant: q is not put back.
PushBackForgets(w) ==
    /\ At(w, "pushback")
    /\ Begin(w, "release", q[w])
    /\ q' = [q EXCEPT ![w] = nq[w]]
    /\ nq' = [nq EXCEPT ![w] = NoHandle]
    /\ Goto(w, "grab")
    /\ UNCHANGED <<ctxVars, mqVars, left, launchVars, drop>>

\* q goes back to the end of the global queue and the worker turns to nq.
PushBack(w) ==
    /\ At(w, "pushback")
    /\ globalmq_push(q[w])
    /\ Begin(w, "release", q[w])
    /\ q' = [q EXCEPT ![w] = nq[w]]
    /\ nq' = [nq EXCEPT ![w] = NoHandle]
    /\ Goto(w, "grab")
    /\ UNCHANGED <<ctxVars, mq, mem, in_global, release, left, launchVars, drop>>
-----------------------------------------------------------------------------
\* The steps a thread takes by itself once a call is under way.
Operation(t) == MqPush(t) \/ ContextRelease(t) \/ MqMarkRelease(t)

\* The steps of a worker between two callbacks.
Loop(w) == \/ Fetch(w) \/ Grab(w) \/ MqRelease(w) \/ MqPop(w) \/ MqLength(w)
           \/ CallbackReturns(w) \/ Requeue(w) \/ PushBack(w)
           \/ DropMessage(w) \/ DropQueue(w)
           \/ ContextReady(w) \/ ContextFailed(w) \/ NewMqRelease(w)
           \/ InitReturns(w, "ok") \/ InitReturns(w, "failed")

\* What service code and the external threads decide to do.
Request(t) == \/ \E h \in Handle : ContextPush(t, h)
              \/ /\ t \in Worker
                 /\ \E h \in Handle : HandleRetire(t, h) \/ ContextNew(t, h)

Next == \/ \E t \in Thread : Operation(t) \/ Request(t)
        \/ \E w \in Worker : Loop(w) \/ Wakeup(w)

Spec == Init /\ [][Next]_vars

\* A thread that is inside the runtime goes on, callbacks return, and the timer
\* thread keeps signalling.  CallbackReturns needs strong fairness because every
\* send of the callback takes the worker through other steps.
Fairness == /\ \A t \in Thread : WF_vars(Operation(t))
            /\ \A w \in Worker : WF_vars(Loop(w)) /\ SF_vars(CallbackReturns(w))
            /\ WF_vars(\E w \in Worker : Wakeup(w))

FairSpec == Spec /\ Fairness
-----------------------------------------------------------------------------
TypeOK ==
    /\ slot \subseteq Handle
    /\ ctx \in [Handle -> Ctx]
    /\ ref \in [Handle -> Int]
    /\ mq \in [Handle -> Seq(Message)]
    /\ mem \in [Handle -> Mem]
    /\ in_global \subseteq Handle
    /\ release \subseteq Handle
    /\ Q \in Seq(Handle)
    /\ pc \in [Worker -> Pc]
    /\ q \in [Worker -> HandleOrNone]
    /\ nq \in [Worker -> HandleOrNone]
    /\ left \in [Worker -> Int]
    /\ new \in [Worker -> HandleOrNone]
    /\ stage \in [Worker -> Stage]
    /\ call \in [Thread -> Call]
    /\ arg \in [Thread -> HandleOrNone]
    /\ drop \in [Worker -> HandleOrNone]

\* Local pointers of worker w to queues it alone may dispatch, link or free.
Holds(w, h) == h \in {q[w], nq[w], drop[w], new[w]}

Linked(h) == \E i \in 1..Len(Q) : Q[i] = h

\* A queue is in the global queue at most once, and not while a worker holds it;
\* a worker holds it by one pointer, and two workers never hold the same queue.
\* This is the assertion queue->next == NULL of skynet_globalmq_push and
\* _release, and what lets a service's callback run without a lock.
OneOwner ==
    /\ \A i, j \in 1..Len(Q) : Q[i] = Q[j] => i = j
    /\ \A w \in Worker, i \in 1..Len(Q) : ~Holds(w, Q[i])
    /\ \A w, v \in Worker, h \in Handle : Holds(w, h) /\ Holds(v, h) => w = v
    /\ \A w \in Worker : /\ nq[w] # NoHandle => nq[w] # q[w]
                         /\ drop[w] # NoHandle => drop[w] \notin {q[w], nq[w], new[w]}
                         /\ new[w] # NoHandle => new[w] \notin {q[w], nq[w]}

\* A queue that has messages, or whose service is gone, is always on its way to
\* a worker: in_global (or release) without an owner would lose it for ever.
NoLostQueue ==
    \A h \in Handle :
        mem[h] = "live" => ((h \in in_global \/ h \in release)
                            <=> (Linked(h) \/ \E w \in Worker : Holds(w, h)))

\* Messages never sit in a queue that nobody will look at.
NoLostMessage ==
    \A h \in Handle : mq[h] # <<>> => h \in in_global \/ h \in release

\* Worker w is between skynet_handle_grab and skynet_context_release in
\* skynet_context_message_dispatch.
Dispatching(w) == pc[w] \in {"pop", "length", "callback", "requeue", "pushback"}

\* Holder x has a reference of the given kind to the context of h.
Refers(kind, x, h) ==
    \/ kind = "storage" /\ x = NoHandle /\ h \in slot
    \/ kind = "creator" /\ x \in Worker /\ stage[x] = "init" /\ new[x] = h
    \/ kind = "call" /\ x \in Thread /\ call[x] \in {"push", "release"} /\ arg[x] = h
    \/ kind = "dispatch" /\ x \in Worker /\ Dispatching(x) /\ q[x] = h

References(h) ==
    {r \in {"storage", "creator", "call", "dispatch"} \X (Thread \cup {NoHandle}) :
        Refers(r[1], r[2], h)}

\* ctx->ref counts the references exactly: it never frees early, never leaks.
RefExact == \A h \in Handle : ref[h] = Cardinality(References(h))

\* No thread reads a context or a queue that has been freed, and a callback
\* runs only in an initialised service: assert(ctx->init) of dispatch_message,
\* assert(q->release == 0) of skynet_mq_mark_release.
NoDanglingPointer ==
    /\ \A t \in Thread : call[t] # "none" =>
         ctx[arg[t]] \in {"init", "ready"} /\ mem[arg[t]] = "live"
    /\ \A t \in Thread : call[t] = "mark" => arg[t] \notin release
    /\ \A w \in Worker : Dispatching(w) => ctx[q[w]] = "ready"
    /\ \A h \in slot : ctx[h] \in {"init", "ready"}
    /\ \A h \in Handle : (Linked(h) \/ \E w \in Worker : Holds(w, h)) => mem[h] = "live"
-----------------------------------------------------------------------------
\* The service whose callback worker w runs, or is about to.
Serves(w, h) == q[w] = h /\ pc[w] \in {"length", "callback"}

\* The runtime implements the mailbox.
Box == INSTANCE Mailbox WITH
         box <- mq,
         serving <- [h \in Handle |-> {w \in Worker : Serves(w, h)}],
         open <- Handle \ release

MailboxSpec == Box!Spec

\* A service with messages is served, or its queue is emptied because it is
\* gone: no service starves behind busy ones, whatever the workers' weights.
Served == \A h \in Handle :
            mq[h] # <<>> ~> (mq[h] = <<>> \/ \E w \in Worker : Serves(w, h))

\* The queue of a service that has been deleted is freed.
Freed == \A h \in Handle : ctx[h] = "freed" ~> mem[h] = "freed"
=============================================================================
